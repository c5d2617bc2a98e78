---------------------------- MODULE QueueLemmas ----------------------------
(***************************************************************************)
(* Lemmas about queues as sequences, and about the largest element of a    *)
(* set of positions or ids, which the proofs of several modules rest on.   *)
(***************************************************************************)
EXTENDS Integers, Sequences, SequencesExt, SequenceTheorems, WellFoundedInduction, TLAPS

\* A non-empty set of integers with a bound has a largest element.
LEMMA MaxElement ==
    ASSUME NEW n \in Int, NEW T, T \subseteq Int, T # {}, \A y \in T : y <= n
    PROVE  Max(T) \in T /\ \A y \in T : y <= Max(T)
<1>. DEFINE M == {n - y : y \in T}
            Less == {ss \in Nat \X Nat : ss[1] < ss[2]}
<1>1. M \subseteq Nat
  <2>. SUFFICES ASSUME NEW y \in T PROVE n - y \in Nat
    OBVIOUS
  <2>. QED  BY y \in Int, y <= n
<1>2. M # {}
  OBVIOUS
<1>3. IsWellFoundedOn(Less, Nat)
  BY NatLessThanWellFounded DEF OpToRel
<1>4. PICK x \in M : \A y \in M : ~(<<y, x>> \in Less)
  <2>. HIDE DEF M, Less
  <2>. QED  BY <1>1, <1>2, <1>3, WFMin
<1>5. PICK z \in T : x = n - z
  BY <1>4
<1>6. ASSUME NEW y \in T PROVE z >= y
  <2>1. /\ n - y \in M /\ n - y \in Nat /\ x \in Nat
        /\ y \in Int /\ z \in Int
    BY <1>1
  <2>2. ~(<<n - y, x>> \in Less)
    BY <1>4, <2>1
  <2>3. ~(n - y < x)
    BY <2>1, <2>2
  <2>. QED  BY <1>5, <2>1, <2>3
<1>7. \E v \in T : \A y \in T : v >= y
  BY <1>6
<1>8. Max(T) \in T /\ \A y \in T : Max(T) >= y
  BY <1>7 DEF Max
<1>. QED  BY <1>8

\* An element that is not below any other is the largest one.
LEMMA MaxIs ==
    ASSUME NEW T, T \subseteq Int, NEW x \in T, \A y \in T : y <= x
    PROVE  Max(T) = x
<1>1. x \in Int /\ T # {}
  OBVIOUS
<1>2. Max(T) \in T /\ x <= Max(T) /\ Max(T) <= x
  BY <1>1, MaxElement
<1>3. \A a, b \in Int : a <= b /\ b <= a => b = a
  OBVIOUS
<1>4. Max(T) \in Int
  BY <1>2
<1>. QED  BY <1>1, <1>2, <1>3, <1>4, Zenon

\* Every non-empty set of positions in a queue has a largest one: the last
\* pending write for a document exists.
LEMMA MaxPosition ==
    ASSUME NEW n \in Nat, NEW T, T \subseteq 1..n, T # {}
    PROVE  Max(T) \in T /\ \A y \in T : y <= Max(T)
<1>1. n \in Int /\ T \subseteq Int /\ \A y \in T : y <= n
  OBVIOUS
<1>. QED  BY <1>1, MaxElement

LEMMA Elements ==
    ASSUME NEW S, NEW s \in Seq(S)
    PROVE  \A i \in DOMAIN s : s[i] \in S
BY LenProperties, ElementOfSeq

\* What is in a queue after a write or a call was added to it.
LEMMA AppendElements ==
    ASSUME NEW S, NEW s \in Seq(S), NEW e \in S
    PROVE  /\ Append(s, e) \in Seq(S)
           /\ \A j \in DOMAIN Append(s, e) :
                 Append(s, e)[j] = e \/ \E k \in DOMAIN s : Append(s, e)[j] = s[k]
<1>1. /\ Append(s, e) \in Seq(S)
      /\ Len(Append(s, e)) = Len(s) + 1
      /\ \A i \in 1..Len(s) : Append(s, e)[i] = s[i]
      /\ Append(s, e)[Len(s) + 1] = e
  BY AppendProperties
<1>2. /\ Len(s) \in Nat /\ DOMAIN s = 1..Len(s)
      /\ DOMAIN Append(s, e) = 1..(Len(s) + 1)
  BY <1>1, LenProperties
<1>. QED  BY <1>1, <1>2

\* What is in a queue after its oldest element left it.
LEMMA TailElements ==
    ASSUME NEW S, NEW s \in Seq(S), s # <<>>
    PROVE  /\ Tail(s) \in Seq(S) /\ Head(s) \in S
           /\ 1 \in DOMAIN s /\ Head(s) = s[1]
           /\ \A j \in DOMAIN Tail(s) : j + 1 \in DOMAIN s /\ Tail(s)[j] = s[j + 1]
<1>1. /\ Tail(s) \in Seq(S) /\ Head(s) \in S
      /\ Len(Tail(s)) = Len(s) - 1
      /\ \A j \in 1..Len(Tail(s)) : Tail(s)[j] = s[j + 1]
  BY HeadTailProperties
<1>2. /\ Len(s) \in Nat \ {0} /\ DOMAIN s = 1..Len(s)
      /\ DOMAIN Tail(s) = 1..(Len(s) - 1)
  BY <1>1, LenProperties, EmptySeq
<1>. QED  BY <1>1, <1>2

\* Taking one element out of a sequence moves those behind it up.
LEMMA RemoveAtPositions ==
    ASSUME NEW S, NEW s \in Seq(S), NEW i \in DOMAIN s
    PROVE  /\ RemoveAt(s, i) \in Seq(S)
           /\ Len(RemoveAt(s, i)) = Len(s) - 1
           /\ DOMAIN RemoveAt(s, i) = 1..(Len(s) - 1)
           /\ \A j \in 1..(Len(s) - 1) :
                 RemoveAt(s, i)[j] = IF j <= i - 1 THEN s[j] ELSE s[j + 1]
<1>. DEFINE front == SubSeq(s, 1, i - 1)
            back == SubSeq(s, i + 1, Len(s))
<1>1. /\ Len(s) \in Nat /\ DOMAIN s = 1..Len(s) /\ i \in 1..Len(s)
      /\ \A k \in 1..Len(s) : s[k] \in S
  BY LenProperties, ElementOfSeq
<1>2. /\ front \in Seq(S)
      /\ Len(front) = i - 1
      /\ \A k \in 1..(i - 1) : front[k] = s[k]
  BY <1>1, SubSeqProperties
<1>3. /\ back \in Seq(S)
      /\ Len(back) = Len(s) - i
      /\ \A k \in 1..(Len(s) - i) : back[k] = s[i + k]
  BY <1>1, SubSeqProperties
<1>4. /\ front \o back \in Seq(S)
      /\ Len(front \o back) = Len(s) - 1
      /\ \A j \in 1..(Len(s) - 1) :
            (front \o back)[j] = IF j <= i - 1 THEN front[j]
                                 ELSE back[j - (i - 1)]
  <2>. HIDE DEF front, back
  <2>1. /\ front \o back \in Seq(S)
        /\ Len(front \o back) = Len(front) + Len(back)
        /\ \A j \in 1..(Len(front) + Len(back)) :
              (front \o back)[j] = IF j <= Len(front) THEN front[j]
                                   ELSE back[j - Len(front)]
    BY <1>2, <1>3, ConcatProperties
  <2>2. Len(front) + Len(back) = Len(s) - 1
    BY <1>1, <1>2, <1>3
  <2>. QED  BY <1>2, <2>1, <2>2
<1>5. DOMAIN (front \o back) = 1..(Len(s) - 1)
  <2>. HIDE DEF front, back
  <2>. QED  BY <1>4, LenProperties
<1>6. ASSUME NEW j \in 1..(Len(s) - 1)
      PROVE  (front \o back)[j] = IF j <= i - 1 THEN s[j] ELSE s[j + 1]
  <2>. HIDE DEF front, back
  <2>1. CASE j <= i - 1
    <3>1. j \in 1..(i - 1) /\ j \in 1..Len(s)
      BY <1>1, <2>1
    <3>. QED  BY <1>2, <1>4, <2>1, <3>1
  <2>2. CASE ~(j <= i - 1)
    <3>1. j - (i - 1) \in 1..(Len(s) - i) /\ j + 1 \in 1..Len(s)
          /\ i + (j - (i - 1)) = j + 1
      BY <1>1, <2>2
    <3>. QED  BY <1>3, <1>4, <2>2, <3>1
  <2>. QED  BY <2>1, <2>2
<1>. QED  BY <1>4, <1>5, <1>6 DEF RemoveAt

\* What is left are elements of the sequence, in number one less.
LEMMA RemoveAtProperties ==
    ASSUME NEW S, NEW s \in Seq(S), NEW i \in DOMAIN s
    PROVE  /\ RemoveAt(s, i) \in Seq(S)
           /\ Len(RemoveAt(s, i)) = Len(s) - 1
           /\ \A j \in DOMAIN RemoveAt(s, i) :
                 \E k \in DOMAIN s : RemoveAt(s, i)[j] = s[k]
<1>. DEFINE r == RemoveAt(s, i)
<1>1. /\ r \in Seq(S) /\ Len(r) = Len(s) - 1 /\ DOMAIN r = 1..(Len(s) - 1)
      /\ \A j \in 1..(Len(s) - 1) : r[j] = IF j <= i - 1 THEN s[j] ELSE s[j + 1]
  BY RemoveAtPositions
<1>. HIDE DEF r
<1>2. Len(s) \in Nat /\ DOMAIN s = 1..Len(s)
  BY LenProperties
<1>3. \A j \in 1..(Len(s) - 1) : j \in DOMAIN s /\ j + 1 \in DOMAIN s
  BY <1>2
<1>4. \A j \in DOMAIN r : \E k \in DOMAIN s : r[j] = s[k]
  BY <1>1, <1>3
<1>. QED  BY <1>1, <1>4 DEF r

\* The other elements are left.
LEMMA RemoveAtKeeps ==
    ASSUME NEW S, NEW s \in Seq(S), NEW i \in DOMAIN s, NEW k \in DOMAIN s, k # i
    PROVE  \E j \in DOMAIN RemoveAt(s, i) : RemoveAt(s, i)[j] = s[k]
<1>. DEFINE r == RemoveAt(s, i)
<1>1. /\ DOMAIN r = 1..(Len(s) - 1)
      /\ \A j \in 1..(Len(s) - 1) : r[j] = IF j <= i - 1 THEN s[j] ELSE s[j + 1]
  BY RemoveAtPositions
<1>. HIDE DEF r
<1>2. Len(s) \in Nat /\ DOMAIN s = 1..Len(s)
  BY LenProperties
<1>3. CASE k < i
  <2>1. k \in 1..(Len(s) - 1) /\ k <= i - 1
    BY <1>2, <1>3
  <2>2. r[k] = s[k]
    BY <1>1, <2>1
  <2>. QED  BY <1>1, <2>1, <2>2 DEF r
<1>4. CASE k > i
  <2>1. k - 1 \in 1..(Len(s) - 1) /\ ~(k - 1 <= i - 1) /\ (k - 1) + 1 = k
    BY <1>2, <1>4
  <2>2. r[k - 1] = s[k]
    BY <1>1, <2>1
  <2>. QED  BY <1>1, <2>1, <2>2 DEF r
<1>5. k < i \/ k > i
  BY <1>2
<1>. QED  BY <1>3, <1>4, <1>5

\* The part of a queue behind position m, up to position n.
LEMMA SliceElements ==
    ASSUME NEW S, NEW s \in Seq(S), NEW m \in 0 .. Len(s), NEW n \in m .. Len(s)
    PROVE  /\ SubSeq(s, m + 1, n) \in Seq(S)
           /\ Len(SubSeq(s, m + 1, n)) = n - m
           /\ \A i \in 1 .. n - m : SubSeq(s, m + 1, n)[i] = s[m + i]
<1>1. Len(s) \in Nat /\ \A k \in 1 .. Len(s) : s[k] \in S
  BY LenProperties, ElementOfSeq
<1>2. m + 1 \in Int /\ n \in Int /\ \A k \in m + 1 .. n : s[k] \in S
  BY <1>1
<1>3. /\ SubSeq(s, m + 1, n) \in Seq(S)
      /\ Len(SubSeq(s, m + 1, n)) = IF m + 1 <= n THEN n - (m + 1) + 1 ELSE 0
      /\ \A i \in 1 .. n - (m + 1) + 1 : SubSeq(s, m + 1, n)[i] = s[m + 1 + i - 1]
  BY <1>2, SubSeqProperties
<1>4. /\ n - m = IF m + 1 <= n THEN n - (m + 1) + 1 ELSE 0
      /\ n - (m + 1) + 1 = n - m
  BY <1>1
<1>5. ASSUME NEW i \in 1 .. n - m PROVE SubSeq(s, m + 1, n)[i] = s[m + i]
  <2>1. m + 1 + i - 1 = m + i
    BY <1>1
  <2>2. i \in 1 .. n - (m + 1) + 1
    BY <1>4
  <2>. QED  BY <1>3, <2>1, <2>2
<1>. QED  BY <1>3, <1>4, <1>5

\* What is left of a queue without its first n writes.
LEMMA SuffixElements ==
    ASSUME NEW S, NEW s \in Seq(S), NEW n \in 0..Len(s)
    PROVE  LET r == SubSeq(s, n + 1, Len(s))
           IN  /\ r \in Seq(S) /\ Len(r) = Len(s) - n
               /\ \A j \in DOMAIN r : j + n \in DOMAIN s /\ r[j] = s[j + n]
<1>. DEFINE r == SubSeq(s, n + 1, Len(s))
<1>1. Len(s) \in Nat /\ DOMAIN s = 1..Len(s) /\ Len(s) \in n..Len(s)
  BY LenProperties
<1>2. /\ r \in Seq(S) /\ Len(r) = Len(s) - n
      /\ \A k \in 1..Len(s) - n : r[k] = s[n + k]
  BY <1>1, SliceElements
<1>. HIDE DEF r
<1>3. DOMAIN r = 1..(Len(s) - n)
  BY <1>2, LenProperties
<1>4. ASSUME NEW j \in 1..(Len(s) - n)
      PROVE  j + n \in 1..Len(s) /\ r[j] = s[j + n]
  <2>1. j + n \in 1..Len(s) /\ j + n = n + j
    BY <1>1
  <2>. QED  BY <1>2, <2>1
<1>. QED  BY <1>1, <1>2, <1>3, <1>4 DEF r

\* Two queues, one behind the other.
LEMMA ConcatElements ==
    ASSUME NEW S, NEW s \in Seq(S), NEW t \in Seq(S)
    PROVE  /\ s \o t \in Seq(S) /\ Len(s \o t) = Len(s) + Len(t)
           /\ \A i \in 1 .. Len(s) : (s \o t)[i] = s[i]
           /\ \A i \in 1 .. Len(t) : (s \o t)[Len(s) + i] = t[i]
<1>1. Len(s) \in Nat /\ Len(t) \in Nat
  BY LenProperties
<1>2. /\ s \o t \in Seq(S) /\ Len(s \o t) = Len(s) + Len(t)
      /\ \A i \in 1 .. Len(s) + Len(t) : (s \o t)[i] =
            IF i <= Len(s) THEN s[i] ELSE t[i - Len(s)]
  BY ConcatProperties
<1>3. ASSUME NEW i \in 1 .. Len(s) PROVE (s \o t)[i] = s[i]
  <2>1. i \in 1 .. Len(s) + Len(t) /\ i <= Len(s)
    BY <1>1
  <2>. QED  BY <1>2, <2>1
<1>4. ASSUME NEW i \in 1 .. Len(t) PROVE (s \o t)[Len(s) + i] = t[i]
  <2>. DEFINE k == Len(s) + i
  <2>1. k \in 1 .. Len(s) + Len(t) /\ ~(k <= Len(s)) /\ k - Len(s) = i
    BY <1>1
  <2>. HIDE DEF k
  <2>2. (s \o t)[k] = IF k <= Len(s) THEN t[i] ELSE t[i]
    BY <1>2, <2>1
  <2>. QED  BY <2>2 DEF k
<1>. QED  BY <1>2, <1>3, <1>4

=============================================================================
