---------------------------- MODULE MCWriteClient ----------------------------
(***************************************************************************)
(* Instances of WriteClient for TLC: a pipeline shorter than the queue, a  *)
(* write that the backend may refuse between two that it accepts.          *)
(***************************************************************************)
EXTENDS WriteClient

CONSTANT k1

=============================================================================
