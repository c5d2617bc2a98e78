---------------------------- MODULE WriteClient ----------------------------
(***************************************************************************)
(* How the Firestore client sends the writes of one device (FSTRemote-     *)
(* Store, FSTWriteStream, FSTLocalStore, FSTLevelDBMutationQueue).  Writes *)
(* wait on disk in a mutation queue, one for each of two users; a bounded  *)
(* number of them is in the pipeline of the write stream, whose responses  *)
(* carry no batch id and are matched to the pipeline by position.  A       *)
(* broken stream is started again after a delay, an idle one is closed by  *)
(* a timer, and a permanent error rejects the first write of the pipeline. *)
(*                                                                         *)
(* Acknowledged writes are held back while a watch target is active whose  *)
(* snapshots have not reached the version of the commit, so that the view  *)
(* of the device does not fall behind its own writes.                      *)
(*                                                                         *)
(* The backend is a log of accepted writes; the version of a document is   *)
(* the position in the log of the write that made it.  Write n of the      *)
(* device has value n.  Every operation of the client runs on its worker   *)
(* queue and is one step.                                                  *)
(***************************************************************************)
EXTENDS Integers, Sequences, FiniteSets, SequencesExt

CONSTANTS Keys,        \* the documents
          Bad,         \* the writes that the backend may refuse, at any attempt
          MaxPending,  \* kMaxPendingWrites
          MaxWrites,   \* bound on the writes of the device
          MaxOthers,   \* bound on the writes of other devices
          MaxFaults    \* bound on broken connections, token errors, kills and
                       \* changes of the user

ASSUME ClientAssumption ==
    /\ MaxPending \in Nat \ {0}
    /\ MaxWrites \in Nat /\ MaxOthers \in Nat /\ MaxFaults \in Nat
    /\ Bad \subseteq 1 .. MaxWrites

Unknown == -1   \* kFSTBatchIDUnknown
Refused == 0    \* the response that ends a stream with a permanent error
Other == 0      \* the value of the writes of other devices
NoSnapshot == [version |-> 0, keys |-> {}]

VARIABLES
    queue,          \* the mutation queue on disk, with batch ids
    nextBatchID,    \* of the mutation queue
    lastAcked,      \* metadata.lastAcknowledgedBatchId, on disk
    away,           \* the queue and the lastAcked of the user who is not signed in
    held,           \* heldBatchResults: acknowledged batches of the queue
    cache,          \* the remote document cache on disk, with versions
    targets,        \* the documents that are listened to
    snapVersion,    \* lastRemoteSnapshotVersion, on disk
    pendingWrites,  \* the pipeline
    lastBatchSeen,
    stream,         \* the state of the write stream
    handshake,      \* handshakeComplete
    idle,           \* the idle timer is running
    up, down,       \* requests and responses of the current rpc
    watch,          \* the watch snapshot on its way
    log,            \* the backend
    written,        \* writes of the device so far
    faults          \* faults so far

diskVars == <<queue, nextBatchID, lastAcked, away, cache, snapVersion>>
localVars == <<diskVars, held>>
pipeVars == <<pendingWrites, lastBatchSeen, stream, handshake, idle, up>>
vars == <<localVars, targets, pipeVars, down, watch, log, written, faults>>

Init ==
    /\ queue = <<>> /\ nextBatchID = 0 /\ lastAcked = Unknown /\ held = <<>>
    /\ away = [queue |-> <<>>, lastAcked |-> Unknown]
    /\ cache = [k \in Keys |-> [value |-> Other, version |-> 0]]
    /\ targets = {} /\ snapVersion = 0 /\ watch = NoSnapshot
    /\ pendingWrites = <<>> /\ lastBatchSeen = Unknown
    /\ stream = "Initial" /\ handshake = FALSE /\ idle = FALSE
    /\ up = <<>> /\ down = <<>> /\ log = <<>>
    /\ written = 0 /\ faults = 0

(***************************************************************************)
(* The pipeline.                                                           *)
(***************************************************************************)

IsStarted(state) == state \in {"Auth", "Open", "Backoff"}

\* Mutant of StreamAfter: a stream that has ended is not started again.
StreamAfter_StaysClosed(state, pipeline) ==
    IF state = "Initial" /\ pipeline # <<>> THEN "Auth" ELSE state

\* shouldStartWriteStream, startWriteStream: a stream that is not running is
\* started if there is something to send, after an error with a delay.
StreamAfter(state, pipeline) ==
    IF IsStarted(state) \/ pipeline = <<>> THEN state
    ELSE IF state = "Error" THEN "Backoff" ELSE "Auth"

\* Seek, in a table whose rows are sorted by batch id: the position of the
\* last row up to this id, 0 if there is none.
RowOf(batches, id) == Max({i \in DOMAIN batches : batches[i].batchID <= id} \union {0})

\* The rows behind those of allMutationBatchesThroughBatchID.
BatchesAfter(batches, id) == SubSeq(batches, RowOf(batches, id) + 1, Len(batches))

\* nextMutationBatchAfterBatchID, n times.
NextBatches(batches, id, n) ==
    LET row == RowOf(batches, id)
    IN  SubSeq(batches, row + 1, IF row + n < Len(batches) THEN row + n ELSE Len(batches))

\* removeMutationBatches, for batches that follow each other in the queue.
RemoveBatches(batches, gone) ==
    IF gone = <<>> THEN batches
    ELSE SubSeq(batches, 1, RowOf(batches, Head(gone).batchID) - 1)
         \o BatchesAfter(batches, Last(gone).batchID)

\* Mutant of Room: canWriteMutations compares with <=.
Room_OneMore(pipeline) == MaxPending + 1 - Len(pipeline)

\* canWriteMutations: how many writes the pipeline still takes.
Room(pipeline) == MaxPending - Len(pipeline)

\* Mutant of IdleTimer: a request does not stop it.
IdleTimer_RunsOn(state, pipeline, sent) ==
    state = "Open" /\ (pipeline = <<>> \/ idle)

\* markIdle sets the idle timer of an open stream when the pipeline is
\* empty, writeRequest stops it.
IdleTimer(state, pipeline, sent) ==
    state = "Open" /\ (pipeline = <<>> \/ (idle /\ sent = <<>>))

\* fillWritePipeline, with the queue, the last acknowledged id, the
\* pipeline and the stream as they are when it is called: take what fits,
\* send it on a stream that is ready, start a stream that is not running,
\* and set the idle timer when there is nothing to send.
FillWritePipeline(batches, ackedID, pipeline, state, requests) ==
    LET after == IF lastBatchSeen > ackedID THEN lastBatchSeen ELSE ackedID
        new == NextBatches(batches, after, Room(pipeline))
        ready == state = "Open" /\ handshake
        sent == IF ready THEN new ELSE <<>>
    IN  /\ pendingWrites' = pipeline \o new
        /\ lastBatchSeen' = IF new = <<>> THEN lastBatchSeen ELSE Last(new).batchID
        /\ stream' = StreamAfter(state, pipeline \o new)
        /\ handshake' = ready
        /\ up' = requests \o sent
        /\ idle' = IdleTimer(state, pipeline \o new, sent)

\* setData: the write joins the queue and, if there is room, the pipeline.
Write(k) ==
    /\ written < MaxWrites
    /\ written' = written + 1
    /\ queue' = Append(queue, [batchID |-> nextBatchID, key |-> k, value |-> written + 1])
    /\ nextBatchID' = nextBatchID + 1
    /\ FillWritePipeline(queue', lastAcked, pendingWrites, stream, up)
    /\ UNCHANGED <<lastAcked, away, held, cache, targets, snapVersion, down, watch, log, faults>>

\* The credentials provider has the token; the rpc starts.
TokenArrives ==
    /\ stream = "Auth"
    /\ stream' = "Open"
    /\ UNCHANGED <<localVars, targets, pendingWrites, lastBatchSeen, handshake,
                   idle, up, down, watch, log, written, faults>>

\* The backend's answer to the handshake: everything in the pipeline is sent.
HandshakeCompletes ==
    /\ stream = "Open" /\ ~handshake
    /\ handshake' = TRUE
    /\ up' = pendingWrites
    /\ idle' = (idle /\ pendingWrites = <<>>)
    /\ UNCHANGED <<localVars, targets, pendingWrites, lastBatchSeen, stream,
                   down, watch, log, written, faults>>

\* The delay is over.
BackoffEnds ==
    /\ stream = "Backoff"
    /\ stream' = "Auth"
    /\ UNCHANGED <<localVars, targets, pendingWrites, lastBatchSeen, handshake,
                   idle, up, down, watch, log, written, faults>>

\* Mutant of CloseStream: callbacks of the old rpc are not suppressed.
CloseStream_LateResponses(final) ==
    /\ stream' = StreamAfter(final, pendingWrites)
    /\ handshake' = FALSE
    /\ idle' = FALSE
    /\ up' = <<>>
    /\ UNCHANGED <<down, localVars, targets, pendingWrites, lastBatchSeen, watch, log, written>>

\* closeWithFinalState: what was under way on the rpc is not seen any more,
\* and the stream is started again if there is something to send.
CloseStream(final) ==
    /\ stream' = StreamAfter(final, pendingWrites)
    /\ handshake' = FALSE
    /\ idle' = FALSE
    /\ up' = <<>> /\ down' = <<>>
    /\ UNCHANGED <<localVars, targets, pendingWrites, lastBatchSeen, watch, log, written>>

\* Mutant of StreamFails: a transient error rejects the first write, too.
StreamFails_Rejects ==
    /\ stream \in {"Auth", "Open"} /\ faults < MaxFaults
    /\ faults' = faults + 1
    /\ IF pendingWrites = <<>> THEN CloseStream("Error") ELSE
          /\ queue' = RemoveBatches(queue, <<Head(pendingWrites)>>)
          /\ down' = <<>>
          /\ FillWritePipeline(queue', lastAcked, Tail(pendingWrites), "Initial", <<>>)
          /\ UNCHANGED <<nextBatchID, lastAcked, away, held, cache, targets,
                         snapVersion, watch, log, written>>

\* The token cannot be had or the connection breaks: a transient error.
StreamFails ==
    /\ stream \in {"Auth", "Open"} /\ faults < MaxFaults
    /\ faults' = faults + 1
    /\ CloseStream("Error")

\* handleIdleCloseTimer.
IdleCloses == idle /\ CloseStream("Initial") /\ UNCHANGED faults

(***************************************************************************)
(* The backend.                                                            *)
(***************************************************************************)

\* The newest version of document k among the first n entries of the log,
\* 0 if there is none.
VersionOf(k, n) == Max({i \in 1 .. n : log[i].key = k} \union {0})

\* The backend reads requests until it refuses one.
Serving == up # <<>> /\ ~Contains(down, Refused)

\* The backend takes the next request of the stream.
BackendCommits ==
    /\ Serving
    /\ log' = Append(log, [key |-> Head(up).key, value |-> Head(up).value])
    /\ down' = Append(down, Len(log'))
    /\ up' = Tail(up)
    /\ UNCHANGED <<localVars, targets, pendingWrites, lastBatchSeen, stream,
                   handshake, idle, watch, written, faults>>

\* Or it ends the stream with an error that isPermanentWriteError takes for
\* its verdict on the next request: the write is wrong or not allowed, or
\* ABORTED or FAILED_PRECONDITION, which a sound write can meet as well.
BackendRefuses ==
    /\ Serving /\ Head(up).value \in Bad
    /\ down' = Append(down, Refused)
    /\ up' = Tail(up)
    /\ UNCHANGED <<localVars, targets, pendingWrites, lastBatchSeen, stream,
                   handshake, idle, watch, log, written, faults>>

\* Another device writes document k.
OtherWrites(k) ==
    /\ Cardinality({i \in DOMAIN log : log[i].value = Other}) < MaxOthers
    /\ log' = Append(log, [key |-> k, value |-> Other])
    /\ UNCHANGED <<localVars, targets, pipeVars, down, watch, written, faults>>

\* The watch stream is told the state of the documents listened to.
BackendNotifies ==
    /\ targets # {} /\ watch = NoSnapshot
    /\ \/ Len(log) > snapVersion
       \/ \E k \in targets : VersionOf(k, Len(log)) > cache[k].version
    /\ watch' = [version |-> Len(log), keys |-> targets]
    /\ UNCHANGED <<localVars, targets, pipeVars, down, log, written, faults>>

(***************************************************************************)
(* Acknowledgements, held until the watch stream has caught up.            *)
(***************************************************************************)

\* Mutant of Replaces: any result does.
Replaces_Always(result, doc) == TRUE

\* A result replaces an older document in the cache.
Replaces(result, doc) == result.version > doc.version

\* applyBatchResult, for each of the results of a release.
ApplyBatchResults(docs, results) ==
    [k \in Keys |->
        LET newer == {i \in DOMAIN results : /\ results[i].batch.key = k
                                             /\ Replaces(results[i], docs[k])}
        IN  IF newer = {} THEN docs[k]
            ELSE [value |-> results[Max(newer)].batch.value,
                  version |-> results[Max(newer)].version]]

\* releaseBatchResults: the results go to the cache, the batches leave the
\* queue.
ReleaseBatchResults(docs, results) ==
    /\ cache' = ApplyBatchResults(docs, results)
    /\ queue' = RemoveBatches(queue, [i \in DOMAIN results |-> results[i].batch])

\* releaseHeldBatchResults for a client that knows the backend up to
\* version: the results before the first one that must still be held.
ReleaseHeldBatchResults(docs, active, version) ==
    LET n == Max({i \in 0 .. Len(held) :
                    \A j \in 1 .. i : held[j].version <= version \/ active = {}})
    IN  /\ ReleaseBatchResults(docs, SubSeq(held, 1, n))
        /\ held' = SubSeq(held, n + 1, Len(held))

\* A response: it belongs to the first write of the pipeline.
ResponseArrives ==
    /\ down # <<>> /\ Head(down) # Refused
    /\ LET result == [batch |-> Head(pendingWrites), version |-> Head(down)]
           hold == \/ targets # {} /\ result.version > snapVersion
                   \/ held # <<>>
       IN  /\ lastAcked' = result.batch.batchID
           /\ IF hold THEN /\ held' = Append(held, result)
                           /\ UNCHANGED <<queue, cache>>
                      ELSE /\ ReleaseBatchResults(cache, <<result>>)
                           /\ UNCHANGED held
    /\ down' = Tail(down)
    /\ FillWritePipeline(queue', lastAcked', Tail(pendingWrites), stream, up)
    /\ UNCHANGED <<nextBatchID, away, targets, snapVersion, watch, log, written, faults>>

\* The stream ends with a permanent error: the first write of the pipeline
\* is rejected, and the stream restarts without delay.
ErrorArrives ==
    /\ down # <<>> /\ Head(down) = Refused
    /\ queue' = RemoveBatches(queue, <<Head(pendingWrites)>>)
    /\ down' = <<>>
    /\ FillWritePipeline(queue', lastAcked, Tail(pendingWrites), "Initial", <<>>)
    /\ UNCHANGED <<nextBatchID, lastAcked, away, held, cache, targets, snapVersion,
                   watch, log, written, faults>>

\* Mutant of Unlisten: the end of the last target releases nothing.
Unlisten_HoldsOn(k) ==
    /\ k \in targets
    /\ targets' = targets \ {k}
    /\ watch' = IF targets' = {} THEN NoSnapshot ELSE [watch EXCEPT !.keys = @ \ {k}]
    /\ UNCHANGED <<localVars, pipeVars, down, log, written, faults>>

\* A page starts or stops listening to document k.  With the last target
\* the snapshot on its way goes, too, as when the watch stream ends then; if
\* it still comes, it brings no document and nothing is held any more, and
\* only lastRemoteSnapshotVersion moves.
Listen(k) ==
    /\ k \notin targets
    /\ targets' = targets \union {k}
    /\ UNCHANGED <<localVars, pipeVars, down, watch, log, written, faults>>

Unlisten(k) ==
    /\ k \in targets
    /\ targets' = targets \ {k}
    /\ IF targets' = {} THEN ReleaseHeldBatchResults(cache, {}, snapVersion)
                        ELSE UNCHANGED <<queue, cache, held>>
    /\ watch' = IF targets' = {} THEN NoSnapshot ELSE [watch EXCEPT !.keys = @ \ {k}]
    /\ UNCHANGED <<nextBatchID, lastAcked, away, snapVersion, pipeVars, down, log, written, faults>>

\* applyRemoteEvent: the documents of the snapshot go to the cache unless it
\* has newer ones; then what was held for this snapshot is released.
SnapshotArrives ==
    /\ watch # NoSnapshot
    /\ LET docs == [k \in Keys |->
                        LET v == VersionOf(k, watch.version)
                        IN  IF k \in watch.keys /\ v > cache[k].version
                            THEN [value |-> log[v].value, version |-> v]
                            ELSE cache[k]]
       IN  ReleaseHeldBatchResults(docs, targets, watch.version)
    /\ snapVersion' = watch.version
    /\ watch' = NoSnapshot
    /\ UNCHANGED <<nextBatchID, lastAcked, away, targets, pipeVars, down, log, written, faults>>

\* Mutant of AckedOnStart: the id is kept in any case.
AckedOnStart_Kept(ackedID, next) == ackedID

\* start: ids that start again leave the old last acknowledged id behind.
AckedOnStart(ackedID, next) == IF ackedID >= next THEN Unknown ELSE ackedID

\* startMutationQueue and enableNetwork, for a queue found on disk: batch
\* ids start again behind what is in the queues, acknowledged batches are
\* dropped with the results that were held, and the pipeline is filled.
StartClient(batches, ackedOnDisk, others) ==
    LET next == Max({b.batchID : b \in Range(batches \o others)} \union {Unknown}) + 1
        ackedID == AckedOnStart(ackedOnDisk, next)
        kept == BatchesAfter(batches, ackedID)
        first == NextBatches(kept, ackedID, Room(<<>>))
    IN  /\ faults < MaxFaults
        /\ faults' = faults + 1
        /\ nextBatchID' = next /\ lastAcked' = ackedID /\ queue' = kept
        /\ held' = <<>> /\ watch' = NoSnapshot
        /\ pendingWrites' = first
        /\ lastBatchSeen' = IF first = <<>> THEN Unknown ELSE Last(first).batchID
        /\ stream' = StreamAfter("Initial", first)
        /\ handshake' = FALSE /\ idle' = FALSE
        /\ up' = <<>> /\ down' = <<>>
        /\ UNCHANGED <<cache, snapVersion, log, written>>

\* The process ends, and a new one starts.
Restart ==
    /\ StartClient(queue, lastAcked, away.queue)
    /\ targets' = {}
    /\ UNCHANGED away

\* Mutant of UserDidChange: the pipeline of the old user is not cleaned up.
UserDidChange_KeepsPipeline ==
    /\ faults < MaxFaults
    /\ faults' = faults + 1
    /\ queue' = away.queue /\ lastAcked' = away.lastAcked
    /\ away' = [queue |-> queue, lastAcked |-> lastAcked]
    /\ held' = <<>> /\ watch' = NoSnapshot
    /\ stream' = StreamAfter("Initial", pendingWrites)
    /\ handshake' = FALSE /\ idle' = FALSE
    /\ up' = <<>> /\ down' = <<>>
    /\ UNCHANGED <<nextBatchID, pendingWrites, lastBatchSeen, targets, cache,
                   snapVersion, log, written>>

\* The other user signs in: both streams are torn down and the queue of that
\* user takes the place of the current one.  The watch targets stay.
UserDidChange ==
    /\ StartClient(away.queue, away.lastAcked, queue)
    /\ away' = [queue |-> queue, lastAcked |-> lastAcked]
    /\ UNCHANGED targets

Next ==
    \/ \E k \in Keys : Write(k) \/ OtherWrites(k) \/ Listen(k) \/ Unlisten(k)
    \/ TokenArrives \/ HandshakeCompletes \/ BackoffEnds
    \/ StreamFails \/ IdleCloses \/ Restart \/ UserDidChange
    \/ BackendCommits \/ BackendRefuses \/ BackendNotifies
    \/ ResponseArrives \/ ErrorArrives \/ SnapshotArrives

Spec == Init /\ [][Next]_vars

\* The queues of the phone and of the network are served.  Faults are
\* finite: they are bounded by MaxFaults.
Fairness ==
    /\ WF_vars(TokenArrives) /\ WF_vars(HandshakeCompletes) /\ WF_vars(BackoffEnds)
    /\ WF_vars(BackendCommits) /\ WF_vars(BackendRefuses) /\ WF_vars(BackendNotifies)
    /\ WF_vars(ResponseArrives) /\ WF_vars(ErrorArrives) /\ WF_vars(SnapshotArrives)

FairSpec == Spec /\ Fairness

(***************************************************************************)
(* Properties.                                                             *)
(***************************************************************************)

Batches == [batchID : Nat, key : Keys, value : 1 .. MaxWrites]

\* Types; the pipeline never holds more than kMaxPendingWrites.
TypeOK ==
    /\ queue \in Seq(Batches)
    /\ away \in [queue : Seq(Batches), lastAcked : Nat \union {Unknown}]
    /\ pendingWrites \in Seq(Batches) /\ up \in Seq(Batches)
    /\ held \in Seq([batch : Batches, version : Nat])
    /\ Len(pendingWrites) <= MaxPending
    /\ nextBatchID \in Nat /\ {lastAcked, lastBatchSeen} \subseteq Nat \union {Unknown}
    /\ cache \in [Keys -> [value : 0 .. MaxWrites, version : Nat]]
    /\ targets \subseteq Keys /\ watch \in [version : Nat, keys : SUBSET Keys]
    /\ snapVersion \in Nat
    /\ stream \in {"Initial", "Auth", "Open", "Backoff", "Error"}
    /\ handshake \in BOOLEAN /\ idle \in BOOLEAN
    /\ down \in Seq(Nat)
    /\ log \in Seq([key : Keys, value : 0 .. MaxWrites])
    /\ written \in Nat /\ faults \in Nat

Content(w) == [key |-> w.key, value |-> w.value]
Contents(batches) == [i \in DOMAIN batches |-> Content(batches[i])]

\* Responses are matched to writes by position (pendingWrites[0] in
\* writeStreamDidReceiveResponseWithVersion and handleWriteError): the
\* pipeline starts with the oldest write that is not acknowledged, and the
\* responses under way, then the requests under way, are those of its
\* writes in order.  A refusal is that of the write in its place.
ResponsesMatch ==
    /\ IsPrefix(pendingWrites, BatchesAfter(queue, lastAcked))
    /\ Len(down) + Len(up) <= Len(pendingWrites)
    /\ \A i \in DOMAIN down :
          IF down[i] = Refused THEN pendingWrites[i].value \in Bad
          ELSE log[down[i]] = Content(pendingWrites[i])
    /\ \A i \in DOMAIN up : up[i] = pendingWrites[Len(down) + i]

\* No write that the backend never refuses is lost on the way: each one is
\* in the queue or was accepted by the backend; across broken streams,
\* rejected neighbours and restarts, which use batch ids a second time.
NothingLost ==
    \A n \in (1 .. written) \ Bad :
        \/ \E b \in Range(queue \o away.queue) : b.value = n
        \/ \E i \in DOMAIN log : log[i].value = n

\* Batch ids grow along a queue and beyond what was acknowledged, also when
\* they start again (the assertions in start, acknowledgeBatch and
\* rejectBatchID): a new batch is never taken for an acknowledged one.
IdsIncrease ==
    /\ lastAcked < nextBatchID
    /\ \A i \in DOMAIN queue : /\ queue[i].batchID < nextBatchID
                              /\ \A j \in 1 .. i - 1 : queue[j].batchID < queue[i].batchID
    /\ \A b \in Range(pendingWrites) : b.batchID > lastAcked
    /\ away.lastAcked >= nextBatchID => away.queue = <<>>

\* An acknowledged write is held back only while a snapshot can still
\* release it, and what is held is the acknowledged part of the queue
\* (heldBatchResults, releaseQuery): otherwise the write would cover what
\* others write to the document from then on.
HeldIsReleased ==
    /\ held # <<>> => targets # {}
    /\ Contents(queue) = [i \in DOMAIN held |-> Content(held[i].batch)]
                          \o Contents(BatchesAfter(queue, lastAcked))
    /\ \A i \in DOMAIN held : held[i].version > snapVersion

\* The idle timer does not close a stream that has work to do (markIdle,
\* cancelIdleCheck): a write that comes in while it runs stops it.
IdleHasNoWork == idle => pendingWrites = <<>> /\ up = <<>> /\ down = <<>>

\* The newest version of document k the client knows to be committed.
KnownVersion(k) ==
    Max({cache[k].version} \union
        {held[i].version : i \in {j \in DOMAIN held : held[j].batch.key = k}})

\* The cache never goes back to an older version of a document, whichever
\* order acknowledgements and snapshots come in, and while a process lives
\* what the device shows never falls behind an acknowledged write
\* (applyBatchResult, applyRemoteEvent).
NeverBackwards ==
    [][\A k \in Keys : /\ cache'[k].version >= cache[k].version
                       /\ \/ Restart \/ UserDidChange
                          \/ KnownVersion(k)' >= KnownVersion(k)]_vars

\* The promise of WriteOrder: in order, at least once, settled when applied
\* or refused.
Promise == INSTANCE WriteOrder WITH
    Values <- 0 .. MaxWrites,
    NoValue <- Other,
    todo <- Contents(BatchesAfter(queue, lastAcked)),
    away <- Contents(BatchesAfter(away.queue, away.lastAcked)),
    done <- IF Contains(down, Refused) THEN Len(down) - 1 ELSE Len(down),
    doc <- [k \in Keys |-> LET v == VersionOf(k, Len(log))
                           IN  IF v = 0 THEN Other ELSE log[v].value]

ImplementsWriteOrder == Promise!Spec

\* Every write of the user who is signed in is settled and leaves the queue
\* (nothing in the client waits for something that does not come), if
\* faults, and with them changes of the user, are finite.
WritesSettle == <>[](queue = <<>>)

=============================================================================
