------------------------ MODULE CubeMessagingProofs ------------------------
(***************************************************************************)
(* Safety of the Cube message path, for every set of messages and workers  *)
(* and every setting; and with a single worker, as wsgi.ini deploys it: every *)
(* payload is queued once, keeps to its retry budget, is not run again once *)
(* it is marked, and queue and worker implement MessageLedger.             *)
(***************************************************************************)
EXTENDS CubeRefinement, SequenceTheorems, WellFoundedInduction, TLAPS

----------------------------------------------------------------------------
(* What the operators that model Redis lists do to the set of a list's     *)
(* elements: Cons (LPUSH), Last and Front (RPOP), RemoveFirst (LREM).      *)

(***************************************************************************)
(* LPUSH puts its argument before the elements.                            *)
(***************************************************************************)
LEMMA ConsPositions ==
    ASSUME NEW S, NEW s \in Seq(S), NEW e \in S
    PROVE  /\ Cons(e, s) \in Seq(S)
           /\ DOMAIN Cons(e, s) = 1..(1 + Len(s))
           /\ Len(s) \in Nat /\ DOMAIN s = 1..Len(s)
           /\ \A i \in 1..(1 + Len(s)) : Cons(e, s)[i] = IF i = 1 THEN e ELSE s[i - 1]
<1>1. <<e>> \in Seq(S) /\ Len(<<e>>) = 1 /\ <<e>>[1] = e
  OBVIOUS
<1> DEFINE t == <<e>> \o s
<1>2. /\ t \in Seq(S)
      /\ Len(t) = 1 + Len(s)
      /\ \A i \in 1..(1 + Len(s)) : t[i] = IF i <= 1 THEN <<e>>[i] ELSE s[i - 1]
  BY <1>1, ConcatProperties
<1>3. DOMAIN t = 1..(1 + Len(s)) /\ DOMAIN s = 1..Len(s) /\ Len(s) \in Nat
  BY <1>2, LenProperties
<1>4. \A i \in 1..(1 + Len(s)) : t[i] = IF i = 1 THEN e ELSE s[i - 1]
  BY <1>1, <1>2, <1>3
<1> QED
  BY <1>2, <1>3, <1>4 DEF Cons

(***************************************************************************)
(* LPUSH adds its argument and keeps every element.                        *)
(***************************************************************************)
LEMMA ConsElements ==
    ASSUME NEW S, NEW s \in Seq(S), NEW e \in S
    PROVE  /\ Cons(e, s) \in Seq(S)
           /\ ToSet(Cons(e, s)) = {e} \cup ToSet(s)
<1> DEFINE t == Cons(e, s)
<1>1. /\ t \in Seq(S)
      /\ DOMAIN t = 1..(1 + Len(s)) /\ DOMAIN s = 1..Len(s) /\ Len(s) \in Nat
      /\ \A i \in 1..(1 + Len(s)) : t[i] = IF i = 1 THEN e ELSE s[i - 1]
  BY ConsPositions
<1> HIDE DEF t
<1>2. ToSet(t) \subseteq {e} \cup ToSet(s)
  BY <1>1 DEF ToSet
<1>3. e \in ToSet(t)
  <2>1. 1 \in DOMAIN t /\ t[1] = e
    BY <1>1
  <2> QED
    BY <2>1 DEF ToSet
<1>4. ASSUME NEW i \in DOMAIN s PROVE s[i] \in ToSet(t)
  <2>1. i + 1 \in DOMAIN t /\ t[i + 1] = s[i]
    BY <1>1
  <2> QED
    BY <2>1 DEF ToSet
<1>5. ToSet(s) \subseteq ToSet(t)
  BY <1>4 DEF ToSet
<1> QED
  BY <1>1, <1>2, <1>3, <1>5 DEF t

(***************************************************************************)
(* RPOP takes the last element and leaves the others where they are.       *)
(***************************************************************************)
LEMMA FrontPositions ==
    ASSUME NEW S, NEW s \in Seq(S), s # <<>>
    PROVE  /\ Len(s) \in Nat \ {0} /\ DOMAIN s = 1..Len(s)
           /\ Last(s) = s[Len(s)]
           /\ Front(s) \in Seq(S) /\ DOMAIN Front(s) = 1..(Len(s) - 1)
           /\ \A i \in 1..(Len(s) - 1) : Front(s)[i] = s[i]
<1>1. Len(s) \in Nat \ {0} /\ DOMAIN s = 1..Len(s)
  BY EmptySeq, LenProperties
<1>2. \A i \in 1..Len(s) : s[i] \in S
  BY ElementOfSeq
<1> DEFINE f == SubSeq(s, 1, Len(s) - 1)
<1>3. /\ f \in Seq(S)
      /\ Len(f) = Len(s) - 1
      /\ \A i \in 1..(Len(s) - 1) : f[i] = s[i]
  <2>1. \A i \in 1..(Len(s) - 1) : s[i] \in S
    BY <1>1, <1>2
  <2>2. /\ f \in Seq(S)
        /\ Len(f) = IF 1 <= Len(s) - 1 THEN (Len(s) - 1) - 1 + 1 ELSE 0
        /\ \A i \in 1..((Len(s) - 1) - 1 + 1) : f[i] = s[1 + i - 1]
    BY <1>1, <2>1, SubSeqProperties
  <2> QED
    BY <1>1, <2>2
<1>4. DOMAIN f = 1..(Len(s) - 1)
  BY <1>3, LenProperties
<1> QED
  BY <1>1, <1>3, <1>4 DEF Last, Front

(***************************************************************************)
(* RPOP splits a non-empty list into its last element and the others.      *)
(***************************************************************************)
LEMMA LastFrontElements ==
    ASSUME NEW S, NEW s \in Seq(S), s # <<>>
    PROVE  /\ Last(s) \in S
           /\ Last(s) \in ToSet(s)
           /\ Front(s) \in Seq(S)
           /\ ToSet(s) = ToSet(Front(s)) \cup {Last(s)}
<1> DEFINE f == Front(s)
<1>1. Len(s) \in Nat \ {0} /\ DOMAIN s = 1..Len(s)
  BY FrontPositions
<1>2. \A i \in 1..Len(s) : s[i] \in S
  BY ElementOfSeq
<1>3. f \in Seq(S) /\ \A i \in 1..(Len(s) - 1) : f[i] = s[i]
  BY FrontPositions
<1>4. DOMAIN f = 1..(Len(s) - 1) /\ Last(s) = s[Len(s)]
  BY FrontPositions
<1> HIDE DEF f
<1>5. s[Len(s)] \in S /\ s[Len(s)] \in ToSet(s)
  BY <1>1, <1>2 DEF ToSet
<1>6. ToSet(f) \subseteq ToSet(s)
  BY <1>1, <1>3, <1>4 DEF ToSet
<1>7. ASSUME NEW i \in DOMAIN s PROVE s[i] \in ToSet(f) \cup {s[Len(s)]}
  <2>1. i = Len(s) \/ (i \in DOMAIN f /\ f[i] = s[i])
    BY <1>1, <1>3, <1>4
  <2> QED
    BY <2>1 DEF ToSet
<1>8. ToSet(s) \subseteq ToSet(f) \cup {s[Len(s)]}
  BY <1>7 DEF ToSet
<1> QED
  BY <1>3, <1>4, <1>5, <1>6, <1>8 DEF f

(***************************************************************************)
(* A non-empty set of naturals has the minimum that Min chooses.           *)
(***************************************************************************)
LEMMA MinExists ==
    ASSUME NEW T \in SUBSET Nat, T # {}
    PROVE  Min(T) \in T
<1> DEFINE R == {ss \in Nat \X Nat : ss[1] < ss[2]}
<1>1. IsWellFoundedOn(R, Nat)
  BY NatLessThanWellFounded DEF OpToRel
<1> HIDE DEF R
<1>2. PICK x \in T : \A y \in T : ~ (<<y, x>> \in R)
  BY <1>1, WFMin
<1>3. ASSUME NEW y \in T PROVE x <= y
  <2>1. x \in Nat /\ y \in Nat
    OBVIOUS
  <2>2. y < x => <<y, x>> \in R
    BY <2>1 DEF R
  <2> QED
    BY <1>2, <2>1, <2>2
<1> QED
  BY <1>3 DEF Min

(***************************************************************************)
(* LREM takes its argument from its place and moves up what is behind it.  *)
(***************************************************************************)
LEMMA RemoveFirstPositions ==
    ASSUME NEW S, NEW s \in Seq(S), NEW e, \E i \in 1..Len(s) : s[i] = e
    PROVE  /\ Len(s) \in Nat /\ DOMAIN s = 1..Len(s)
           /\ RemoveFirst(s, e) \in Seq(S) /\ DOMAIN RemoveFirst(s, e) = 1..(Len(s) - 1)
           /\ \E k \in 1..Len(s) :
                 /\ s[k] = e
                 /\ \A i \in 1..(Len(s) - 1) :
                       RemoveFirst(s, e)[i] = IF i <= k - 1 THEN s[i] ELSE s[i + 1]
<1> DEFINE I == {i \in 1..Len(s) : s[i] = e}
           k == Min(I)
           a == SubSeq(s, 1, k - 1)
           b == SubSeq(s, k + 1, Len(s))
<1>1. Len(s) \in Nat /\ DOMAIN s = 1..Len(s) /\ \A i \in 1..Len(s) : s[i] \in S
  BY LenProperties, ElementOfSeq
<1>2. k \in 1..Len(s) /\ s[k] = e
  <2>1. I \in SUBSET Nat /\ I # {}
    BY <1>1
  <2>2. k \in I
    BY <2>1, MinExists
  <2> QED
    BY <2>2
<1>3. RemoveFirst(s, e) = a \o b
  <2>1. SelectInSeq(s, LAMBDA v : v = e) = k
    BY DEF SelectInSeq
  <2> QED
    BY <2>1 DEF RemoveFirst, RemoveAt
<1> HIDE DEF k
<1>4. /\ a \in Seq(S) /\ Len(a) = k - 1
      /\ \A i \in 1..(k - 1) : a[i] = s[i]
  <2>1. \A i \in 1..(k - 1) : s[i] \in S
    BY <1>1, <1>2
  <2>2. /\ a \in Seq(S)
        /\ Len(a) = IF 1 <= k - 1 THEN (k - 1) - 1 + 1 ELSE 0
        /\ \A i \in 1..((k - 1) - 1 + 1) : a[i] = s[1 + i - 1]
    BY <1>1, <1>2, <2>1, SubSeqProperties
  <2> QED
    BY <1>1, <1>2, <2>2
<1>5. /\ b \in Seq(S) /\ Len(b) = Len(s) - k
      /\ \A i \in 1..(Len(s) - k) : b[i] = s[k + i]
  <2>1. \A i \in (k + 1)..Len(s) : s[i] \in S
    BY <1>1, <1>2
  <2>2. /\ b \in Seq(S)
        /\ Len(b) = IF k + 1 <= Len(s) THEN Len(s) - (k + 1) + 1 ELSE 0
        /\ \A i \in 1..(Len(s) - (k + 1) + 1) : b[i] = s[(k + 1) + i - 1]
    BY <1>1, <1>2, <2>1, SubSeqProperties
  <2>3. ASSUME NEW i \in 1..(Len(s) - k) PROVE b[i] = s[k + i]
    <3>1. i \in 1..(Len(s) - (k + 1) + 1) /\ (k + 1) + i - 1 = k + i
      BY <1>1, <1>2
    <3>2. b[i] = s[(k + 1) + i - 1]
      BY <2>2, <3>1
    <3> QED
      BY <3>1, <3>2
  <2>4. Len(b) = Len(s) - k
    <3>1. Len(b) = IF k + 1 <= Len(s) THEN Len(s) - (k + 1) + 1 ELSE 0
      BY <2>2
    <3>2. Len(s) \in Nat /\ k \in Nat /\ k <= Len(s)
      BY <1>1, <1>2
    <3> HIDE DEF b
    <3>3. CASE k + 1 <= Len(s)
      BY <3>1, <3>2, <3>3
    <3>4. CASE ~(k + 1 <= Len(s))
      BY <3>1, <3>2, <3>4
    <3> QED
      BY <3>3, <3>4
  <2> QED
    BY <2>2, <2>3, <2>4
<1> HIDE DEF a, b
<1> DEFINE t == a \o b
<1> HIDE DEF t
<1>6. /\ t \in Seq(S)
      /\ Len(t) = (k - 1) + (Len(s) - k)
      /\ \A i \in 1..((k - 1) + (Len(s) - k)) :
            t[i] = IF i <= k - 1 THEN a[i] ELSE b[i - (k - 1)]
  <2>1. /\ t \in Seq(S)
        /\ Len(t) = Len(a) + Len(b)
        /\ \A i \in 1..(Len(a) + Len(b)) :
              t[i] = IF i <= Len(a) THEN a[i] ELSE b[i - Len(a)]
    BY <1>4, <1>5, ConcatProperties DEF t
  <2> QED
    BY <1>4, <1>5, <2>1
<1>7. DOMAIN t = 1..(Len(s) - 1)
  <2>1. Len(t) = Len(s) - 1
    BY <1>1, <1>2, <1>6
  <2>2. DOMAIN t = 1..Len(t)
    BY <1>6, LenProperties
  <2> QED
    BY <2>1, <2>2
<1>8. \A i \in 1..(Len(s) - 1) : t[i] = IF i <= k - 1 THEN s[i] ELSE s[i + 1]
  <2> SUFFICES ASSUME NEW i \in 1..(Len(s) - 1)
               PROVE  t[i] = IF i <= k - 1 THEN s[i] ELSE s[i + 1]
    OBVIOUS
  <2>1. t[i] = IF i <= k - 1 THEN a[i] ELSE b[i - (k - 1)]
    BY <1>1, <1>2, <1>6
  <2>2. CASE i <= k - 1
    <3>1. i \in 1..(k - 1)
      BY <1>1, <1>2, <2>2
    <3> QED
      BY <1>4, <2>1, <2>2, <3>1
  <2>3. CASE i > k - 1
    <3>1. i - (k - 1) \in 1..(Len(s) - k) /\ k + (i - (k - 1)) = i + 1
      BY <1>1, <1>2, <2>3
    <3>2. b[i - (k - 1)] = s[k + (i - (k - 1))]
      BY <1>5, <3>1
    <3>3. ~(i <= k - 1)
      BY <1>1, <1>2, <2>3
    <3> QED
      BY <2>1, <3>1, <3>2, <3>3
  <2> QED
    BY <1>1, <1>2, <2>2, <2>3
<1> QED
  BY <1>1, <1>2, <1>3, <1>6, <1>7, <1>8 DEF t

(***************************************************************************)
(* LREM adds nothing and loses at most its argument.                       *)
(***************************************************************************)
LEMMA RemoveFirstElements ==
    ASSUME NEW S, NEW s \in Seq(S), NEW e
    PROVE  /\ RemoveFirst(s, e) \in Seq(S)
           /\ ToSet(RemoveFirst(s, e)) \subseteq ToSet(s)
           /\ ToSet(s) \subseteq ToSet(RemoveFirst(s, e)) \cup {e}
<1> DEFINE t == RemoveFirst(s, e)
<1>1. CASE ~ \E i \in 1..Len(s) : s[i] = e
  BY <1>1 DEF RemoveFirst
<1>2. CASE \E i \in 1..Len(s) : s[i] = e
  <2>1. Len(s) \in Nat /\ DOMAIN s = 1..Len(s) /\ t \in Seq(S) /\ DOMAIN t = 1..(Len(s) - 1)
    BY <1>2, RemoveFirstPositions
  <2>2. PICK k \in 1..Len(s) :
           /\ s[k] = e
           /\ \A i \in 1..(Len(s) - 1) : t[i] = IF i <= k - 1 THEN s[i] ELSE s[i + 1]
    BY <1>2, RemoveFirstPositions
  <2> HIDE DEF t
  <2>3. ToSet(t) \subseteq ToSet(s)
    BY <2>1, <2>2 DEF ToSet
  <2>4. ASSUME NEW i \in DOMAIN s PROVE s[i] \in ToSet(t) \cup {e}
    <3>1. CASE i < k
      <4>1. i \in DOMAIN t /\ t[i] = s[i]
        BY <2>1, <2>2, <3>1
      <4> QED
        BY <4>1 DEF ToSet
    <3>2. CASE i = k
      BY <2>2, <3>2
    <3>3. CASE i > k
      <4>1. i - 1 \in DOMAIN t /\ t[i - 1] = s[i]
        BY <2>1, <2>2, <3>3
      <4> QED
        BY <4>1 DEF ToSet
    <3> QED
      BY <2>1, <2>2, <3>1, <3>2, <3>3
  <2>5. ToSet(s) \subseteq ToSet(t) \cup {e}
    BY <2>4 DEF ToSet
  <2> QED
    BY <2>1, <2>3, <2>5 DEF t
<1> QED
  BY <1>1, <1>2

----------------------------------------------------------------------------
(* The queue.                                                              *)

\* All payloads in the two Redis lists.
Queued == ToSet(ready) \cup ToSet(processing)

----------------------------------------------------------------------------
(* What each queue operation does to the types and to the queued payloads. *)

(***************************************************************************)
(* The payloads in the lists are entries.                                  *)
(***************************************************************************)
LEMMA QueuedEntries == QueueTypeOK => Queued \subseteq Entry
<1> SUFFICES ASSUME QueueTypeOK PROVE Queued \subseteq Entry
  OBVIOUS
<1>1. ASSUME NEW s \in Seq(Entry) PROVE ToSet(s) \subseteq Entry
  <2>1. DOMAIN s = 1..Len(s) /\ \A i \in 1..Len(s) : s[i] \in Entry
    BY LenProperties, ElementOfSeq
  <2> QED
    BY <2>1 DEF ToSet
<1> QED
  BY <1>1 DEF QueueTypeOK, Queued

(***************************************************************************)
(* A payload is queued exactly when it is one of the queued entries.       *)
(***************************************************************************)
LEMMA InQueueIsQueued == \A c : InQueue(c) <=> \E e \in Queued : e.copy = c
BY DEF InQueue, InReady, InProcessing, Queued

(***************************************************************************)
(* Enqueueing logs one more payload and queues it at attempt 0.            *)
(***************************************************************************)
LEMMA EnqueueEffect ==
    ASSUME QueueTypeOK, NEW m \in Messages, EnqueueUnique(m),
           UNCHANGED now, faults' \in 0..MaxFaults
    PROVE  /\ QueueTypeOK'
           /\ log' \in Seq(Payload)
           /\ Len(log) \in Nat /\ Len(log') = Len(log) + 1
           /\ \A c \in Copies : log'[c] = log[c]
           /\ log'[Len(log) + 1] = [msg |-> m, at |-> now]
           /\ Queued' = Queued \cup {[copy |-> Len(log) + 1, attempt |-> 0]}
<1> DEFINE e == [copy |-> Len(log) + 1, attempt |-> 0]
           p == [msg |-> m, at |-> now]
<1>1. Len(log) \in Nat /\ MaxCopies \in Nat /\ Len(log) < MaxCopies
  BY LenProperties, QueueAssumption DEF QueueTypeOK, EnqueueUnique, Enqueue, NewEntry
<1>2. e \in Entry /\ p \in Payload
  BY <1>1 DEF Entry, Payload, QueueTypeOK
<1>3. ready' \in Seq(Entry) /\ ToSet(ready') = {e} \cup ToSet(ready)
  BY <1>2, ConsElements DEF EnqueueUnique, Enqueue, NewEntry, QueueTypeOK
<1>4. /\ log' \in Seq(Payload)
      /\ Len(log') = Len(log) + 1
      /\ \A c \in 1..Len(log) : log'[c] = log[c]
      /\ log'[Len(log) + 1] = p
  BY <1>2, AppendProperties DEF EnqueueUnique, Enqueue, NewEntry, QueueTypeOK
<1>5. dedup' \in [Messages -> Nat]
  <2>1. now + DedupTTL \in Nat
    BY QueueAssumption DEF QueueTypeOK
  <2> QED
    BY <2>1 DEF EnqueueUnique, Enqueue, NewEntry, QueueTypeOK
<1>6. QueueTypeOK'
  BY <1>1, <1>3, <1>4, <1>5 DEF QueueTypeOK, EnqueueUnique, Enqueue, NewEntry
<1>7. Queued' = Queued \cup {e}
  BY <1>3 DEF Queued, EnqueueUnique, Enqueue, NewEntry
<1> QED
  BY <1>1, <1>4, <1>6, <1>7 DEF Copies

(***************************************************************************)
(* Taking a payload from the ready list keeps it queued.                   *)
(***************************************************************************)
LEMMA DequeueEffect ==
    ASSUME QueueTypeOK, NEW e, Dequeue(e), UNCHANGED now, faults' \in 0..MaxFaults
    PROVE  /\ QueueTypeOK'
           /\ e \in Entry /\ e \in Queued
           /\ Queued' = Queued
<1>1. /\ e \in Entry /\ e \in ToSet(ready)
      /\ ready' \in Seq(Entry)
      /\ ToSet(ready) = ToSet(ready') \cup {e}
  <2>1. /\ Last(ready) \in Entry /\ Last(ready) \in ToSet(ready)
        /\ Front(ready) \in Seq(Entry)
        /\ ToSet(ready) = ToSet(Front(ready)) \cup {Last(ready)}
    BY LastFrontElements DEF Dequeue, QueueTypeOK
  <2> QED
    BY <2>1 DEF Dequeue
<1>2. processing' \in Seq(Entry) /\ ToSet(processing') = {e} \cup ToSet(processing)
  <2>1. processing \in Seq(Entry)
    BY DEF QueueTypeOK
  <2>2. Cons(e, processing) \in Seq(Entry)
    BY <1>1, <2>1, ConsElements
  <2>3. ToSet(Cons(e, processing)) = {e} \cup ToSet(processing)
    BY <1>1, <2>1, ConsElements
  <2> QED
    BY <2>2, <2>3 DEF Dequeue
<1> QED
  BY <1>1, <1>2 DEF Queued, QueueTypeOK, Dequeue

(***************************************************************************)
(* Recovery moves a payload, so it stays queued.                           *)
(***************************************************************************)
LEMMA RecoverEffect ==
    ASSUME QueueTypeOK, RecoverOne, UNCHANGED now, faults' \in 0..MaxFaults
    PROVE  /\ QueueTypeOK'
           /\ Last(processing) \in Entry
           /\ Queued' = Queued
<1> DEFINE e == Last(processing)
<1>1. /\ e \in Entry
      /\ processing' \in Seq(Entry)
      /\ ToSet(processing) = ToSet(processing') \cup {e}
  BY LastFrontElements DEF RecoverOne, QueueTypeOK
<1>2. ready' \in Seq(Entry) /\ ToSet(ready') = {e} \cup ToSet(ready)
  BY <1>1, ConsElements DEF RecoverOne, QueueTypeOK
<1> QED
  BY <1>1, <1>2 DEF Queued, QueueTypeOK, RecoverOne

(***************************************************************************)
(* Acknowledging takes at most the acknowledged payload out of the queue.  *)
(***************************************************************************)
LEMMA AcknowledgeEffect ==
    ASSUME QueueTypeOK, NEW e, Acknowledge(e), UNCHANGED now, faults' \in 0..MaxFaults
    PROVE  /\ QueueTypeOK'
           /\ Queued' \subseteq Queued
           /\ Queued \subseteq Queued' \cup {e}
<1>1. /\ processing' \in Seq(Entry)
      /\ ToSet(processing') \subseteq ToSet(processing)
      /\ ToSet(processing) \subseteq ToSet(processing') \cup {e}
  BY RemoveFirstElements DEF Acknowledge, QueueTypeOK
<1> QED
  BY <1>1 DEF Queued, QueueTypeOK, Acknowledge

(***************************************************************************)
(* Requeueing replaces the payload by one of the same copy.                *)
(***************************************************************************)
LEMMA RequeueEffect ==
    ASSUME QueueTypeOK, NEW e \in Entry, NEW n \in Nat, Requeue(e, n),
           UNCHANGED now, faults' \in 0..MaxFaults
    PROVE  /\ QueueTypeOK'
           /\ Queued' \subseteq Queued \cup {[e EXCEPT !.attempt = n]}
           /\ Queued \subseteq Queued' \cup {e}
           /\ [e EXCEPT !.attempt = n] \in Queued'
<1> DEFINE r == [e EXCEPT !.attempt = n]
<1>1. r \in Entry
  BY DEF Entry
<1>2. /\ processing' \in Seq(Entry)
      /\ ToSet(processing') \subseteq ToSet(processing)
      /\ ToSet(processing) \subseteq ToSet(processing') \cup {e}
  BY RemoveFirstElements DEF Requeue, QueueTypeOK
<1>3. ready' \in Seq(Entry) /\ ToSet(ready') = {r} \cup ToSet(ready)
  BY <1>1, ConsElements DEF Requeue, QueueTypeOK
<1> QED
  BY <1>2, <1>3 DEF Queued, QueueTypeOK, Requeue

(***************************************************************************)
(* Writing a marker touches the markers only.                              *)
(***************************************************************************)
LEMMA MarkEffect ==
    ASSUME QueueTypeOK, NEW m, MarkProcessed(m),
           UNCHANGED now, faults' \in 0..MaxFaults
    PROVE  QueueTypeOK' /\ UNCHANGED <<ready, processing, dedup, log>>
<1>1. now + MarkerTTL \in Nat
  BY QueueAssumption DEF MarkerTTL, QueueTypeOK
<1> QED
  BY <1>1 DEF MarkProcessed, QueueTypeOK

(***************************************************************************)
(* The clock only drops keys.                                              *)
(***************************************************************************)
LEMMA TickEffect ==
    ASSUME QueueTypeOK, Tick
    PROVE  /\ QueueTypeOK'
           /\ UNCHANGED <<ready, processing, log, faults>>
           /\ now' = now + 1
           /\ \A m \in Messages : dedup'[m] = dedup[m] \/ (dedup'[m] = NoKey /\ dedup[m] <= now')
           /\ \A m \in Messages : done'[m] = done[m] \/ done'[m] = NoKey
<1>1. ASSUME NEW k \in [Messages -> Nat], NEW t \in Nat
      PROVE  /\ Expire(k, t) \in [Messages -> Nat]
             /\ \A m \in Messages :
                   Expire(k, t)[m] = k[m] \/ (Expire(k, t)[m] = NoKey /\ k[m] <= t)
  BY DEF Expire, NoKey
<1>2. now' \in Nat /\ now' = now + 1
  BY DEF QueueTypeOK, Tick
<1>3. dedup' = Expire(dedup, now') /\ done' = Expire(done, now')
  BY DEF Tick
<1>4. /\ dedup' \in [Messages -> Nat] /\ done' \in [Messages -> Nat]
      /\ \A m \in Messages :
            /\ dedup'[m] = dedup[m] \/ (dedup'[m] = NoKey /\ dedup[m] <= now')
            /\ done'[m] = done[m] \/ done'[m] = NoKey
  BY <1>1, <1>2, <1>3 DEF QueueTypeOK
<1> QED
  BY <1>2, <1>4 DEF QueueTypeOK, Tick

(***************************************************************************)
(* A Redis call that fails counts; one that returns does not.              *)
(***************************************************************************)
LEMMA CallEffect ==
    ASSUME QueueTypeOK, CallReturns \/ CallRaises
    PROVE  faults' \in 0..MaxFaults
BY QueueAssumption DEF CallReturns, CallRaises, QueueTypeOK

(***************************************************************************)
(* A step that leaves the queue alone.                                     *)
(***************************************************************************)
LEMMA QuietEffect ==
    ASSUME QueueTypeOK, UNCHANGED <<queueVars, now>>, faults' \in 0..MaxFaults
    PROVE  QueueTypeOK' /\ Queued' = Queued
BY DEF QueueTypeOK, queueVars, Queued

----------------------------------------------------------------------------
(* Typing.                                                                 *)

(***************************************************************************)
(* The initial states are well typed.                                      *)
(***************************************************************************)
LEMMA InitTyped == Init => TypeOK
<1> SUFFICES ASSUME Init PROVE TypeOK
  OBVIOUS
<1>1. MaxFaults \in Nat /\ MaxCrashes \in Nat /\ MaxCopies \in Nat
  BY QueueAssumption, WorkerAssumption
<1>2. /\ log \in Seq(Payload) /\ Len(log) <= MaxCopies
      /\ ready \in Seq(Entry)
  <2>1. PICK b \in {<<>>} \cup {<<m>> : m \in Messages} :
           /\ Len(b) <= MaxCopies
           /\ log = [c \in 1..Len(b) |-> [msg |-> b[c], at |-> NoTimestamp]]
           /\ ready = [c \in 1..Len(b) |-> [copy |-> c, attempt |-> 0]]
    BY DEF Init, QueueInit
  <2>2. CASE b = <<>>
    <3>1. Len(b) = 0 /\ log = <<>> /\ ready = <<>>
      BY <2>1, <2>2
    <3> QED
      BY <1>1, <3>1
  <2>3. ASSUME NEW m \in Messages, b = <<m>>
        PROVE  log \in Seq(Payload) /\ Len(log) <= MaxCopies /\ ready \in Seq(Entry)
    <3>1. Len(b) = 1 /\ b[1] = m
      BY <2>3
    <3>2. \A c \in 1..1 : [msg |-> b[c], at |-> NoTimestamp] \in Payload
      BY <3>1 DEF Payload
    <3>3. \A c \in 1..1 : [copy |-> c, attempt |-> 0] \in Entry
      BY <1>1, <2>1, <3>1 DEF Entry
    <3>4. log \in [1..1 -> Payload] /\ ready \in [1..1 -> Entry]
      BY <2>1, <3>1, <3>2, <3>3
    <3> QED
      BY <2>1, <3>1, <3>4, LenProperties
  <2> QED
    BY <2>2, <2>3
<1>3. QueueTypeOK
  <2>1. processing \in Seq(Entry) /\ faults \in 0..MaxFaults
    BY <1>1 DEF Init, QueueInit
  <2>2. dedup \in [Messages -> Nat] /\ done \in [Messages -> Nat] /\ now \in Nat
    BY DEF Init, QueueInit, NoKey
  <2> QED
    BY <1>2, <2>1, <2>2 DEF QueueTypeOK
<1>4. WorkerTypeOK
  BY <1>1 DEF Init, WorkerInit, WorkerTypeOK, Locations, Holding
<1> QED
  BY <1>3, <1>4 DEF TypeOK, Init

(***************************************************************************)
(* Every step keeps the types.                                             *)
(***************************************************************************)
LEMMA NextTyped == TypeOK /\ [Next]_vars => TypeOK'
<1> SUFFICES ASSUME TypeOK, [Next]_vars PROVE TypeOK'
  OBVIOUS
<1> USE DEF TypeOK
<1>c. ASSUME CallReturns \/ CallRaises PROVE faults' \in 0..MaxFaults
  BY <1>c, CallEffect
<1>q. ASSUME UNCHANGED <<queueVars, now>>, faults' \in 0..MaxFaults PROVE QueueTypeOK'
  BY <1>q, QuietEffect
<1>s. faults \in 0..MaxFaults
  BY DEF QueueTypeOK
<1>1. ASSUME NEW m \in Messages, AcceptCubeMessage(m) PROVE TypeOK'
  <2>1. UNCHANGED <<workerVars, now>> /\ (CallReturns \/ CallRaises)
    BY <1>1 DEF AcceptCubeMessage
  <2>2. EnqueueUnique(m) => QueueTypeOK'
    BY <1>c, <2>1, EnqueueEffect
  <2>3. QueueTypeOK' /\ told' \subseteq Messages
    BY <1>1, <1>c, <1>q, <2>1, <2>2 DEF AcceptCubeMessage
  <2>4. WorkerTypeOK'
    BY <2>1 DEF WorkerTypeOK, workerVars
  <2> QED
    BY <2>3, <2>4
<1>2. ASSUME NEW w \in Workers, WorkerStep(w) \/ Crash(w), UNCHANGED told
      PROVE  TypeOK'
  <2>1. ASSUME QueueTypeOK', WorkerTypeOK' PROVE TypeOK'
    BY <1>2, <2>1
  <2>e. pc[w] \in Holding => cur[w] \in Entry
    BY DEF WorkerTypeOK
  <2>2. CASE Start(w)
    <3>1. QueueTypeOK'
      BY <1>q, <1>s, <2>2 DEF Start
    <3>2. WorkerTypeOK'
      BY <2>2 DEF Start, WorkerTypeOK, Goto, history, Locations, Holding
    <3> QED
      BY <2>1, <3>1, <3>2
  <2>3. CASE Recover(w)
    <3>1. UNCHANGED now /\ faults' \in 0..MaxFaults
      BY <1>c, <2>3 DEF Recover
    <3>2. RecoverOne => QueueTypeOK' /\ Last(processing).copy \in 1..MaxCopies
      BY <3>1, RecoverEffect DEF Entry
    <3>3. QueueTypeOK'
      BY <1>q, <2>3, <3>1, <3>2 DEF Recover
    <3>4. recovered' \subseteq 1..MaxCopies
      BY <2>3, <3>2 DEF Recover, WorkerTypeOK
    <3>5. WorkerTypeOK'
      BY <2>3, <3>4 DEF Recover, WorkerTypeOK, Goto, Locations, Holding
    <3> QED
      BY <2>1, <3>3, <3>5
  <2>4. CASE DequeueMessage(w)
    <3>1. UNCHANGED now /\ faults' \in 0..MaxFaults
      BY <1>c, <2>4 DEF DequeueMessage
    <3>2. \A e : Dequeue(e) => QueueTypeOK' /\ e \in Entry
      BY <3>1, DequeueEffect
    <3>3. QueueTypeOK'
      BY <1>q, <2>4, <3>1, <3>2 DEF DequeueMessage
    <3>4. WorkerTypeOK'
      <4>1. CASE \E e \in ToSet(ready) :
                    /\ Dequeue(e)
                    /\ cur' = [cur EXCEPT ![w] = e]
                    /\ Goto(w, "check")
        BY <2>4, <3>2, <4>1 DEF DequeueMessage, WorkerTypeOK, Goto, history, Locations, Holding
      <4>2. CASE UNCHANGED <<cur, pc>>
        BY <2>4, <4>2 DEF DequeueMessage, WorkerTypeOK, history
      <4> QED
        BY <2>4, <4>1, <4>2 DEF DequeueMessage
    <3> QED
      BY <2>1, <3>3, <3>4
  <2>5. CASE CheckProcessed(w)
    <3>1. QueueTypeOK'
      BY <1>c, <1>q, <2>5 DEF CheckProcessed
    <3>2. outcome' \in [1..MaxCopies -> SUBSET Outcomes]
      BY <2>5 DEF CheckProcessed, WorkerTypeOK, Conclude, Outcomes
    <3>3. WorkerTypeOK'
      <4>1. CASE UNCHANGED <<cur, delivered>> /\ (Goto(w, "ack") \/ Goto(w, "stale"))
        BY <2>5, <3>2, <4>1 DEF CheckProcessed, WorkerTypeOK, Goto, Locations, Holding
      <4>2. CASE Release(w, "idle")
        BY <2>5, <3>2, <4>2
           DEF CheckProcessed, WorkerTypeOK, Goto, Release, Locations, Holding
      <4> QED
        BY <2>5, <4>1, <4>2 DEF CheckProcessed
    <3> QED
      BY <2>1, <3>1, <3>3
  <2>6. CASE CheckStale(w)
    <3>1. QueueTypeOK'
      BY <1>s, <1>q, <2>6 DEF CheckStale
    <3>2. WorkerTypeOK'
      BY <2>6 DEF CheckStale, WorkerTypeOK, Goto, Conclude, Locations, Holding, Outcomes
    <3> QED
      BY <2>1, <3>1, <3>2
  <2>7. CASE Deliver(w)
    <3>1. QueueTypeOK'
      BY <1>s, <1>q, <2>7 DEF Deliver
    <3>2. cur[w] \in Entry /\ cur[w].copy \in 1..MaxCopies
      BY <2>e, <2>7 DEF Deliver, Holding, Entry
    <3>3. answers' \in [1..MaxCopies -> Nat]
      BY <2>7, <3>2 DEF Deliver, WorkerTypeOK
    <3>4. delivered' \in [Workers -> BOOLEAN]
      BY <2>7 DEF Deliver, WorkerTypeOK
    <3>5. WorkerTypeOK'
      BY <2>7, <3>3, <3>4 DEF Deliver, WorkerTypeOK
    <3> QED
      BY <2>1, <3>1, <3>5
  <2>8. CASE ProcessReturns(w)
    <3>1. QueueTypeOK'
      BY <1>s, <1>q, <2>8 DEF ProcessReturns, TakeAsAnswered
    <3>2. WorkerTypeOK'
      BY <2>8 DEF ProcessReturns, TakeAsAnswered, WorkerTypeOK, Goto, Conclude, Locations, Holding, Outcomes
    <3> QED
      BY <2>1, <3>1, <3>2
  <2>9. CASE ProcessRaises(w)
    <3>1. QueueTypeOK'
      BY <1>s, <1>q, <2>9 DEF ProcessRaises
    <3>2. WorkerTypeOK'
      BY <2>9 DEF ProcessRaises, WorkerTypeOK, Goto, Conclude, Locations, Holding, Outcomes
    <3> QED
      BY <2>1, <3>1, <3>2
  <2>10. CASE MarkBestEffort(w)
    <3>1. UNCHANGED now /\ faults' \in 0..MaxFaults
      BY <1>c, <2>10 DEF MarkBestEffort
    <3>2. \A m : MarkProcessed(m) => QueueTypeOK'
      BY <3>1, MarkEffect
    <3>3. QueueTypeOK'
      BY <1>q, <2>10, <3>1, <3>2 DEF MarkBestEffort
    <3>4. WorkerTypeOK'
      BY <2>10, <2>e DEF MarkBestEffort, WorkerTypeOK, Goto, Locations, Holding, Entry
    <3> QED
      BY <2>1, <3>3, <3>4
  <2>11. CASE AckMessage(w)
    <3>1. UNCHANGED now /\ faults' \in 0..MaxFaults
      BY <1>c, <2>11 DEF AckMessage
    <3>2. Acknowledge(cur[w]) => QueueTypeOK'
      BY <3>1, AcknowledgeEffect
    <3>3. QueueTypeOK'
      BY <1>q, <2>11, <3>1, <3>2 DEF AckMessage
    <3>4. WorkerTypeOK'
      BY <2>11 DEF AckMessage, WorkerTypeOK, Release, Goto, history, Locations, Holding
    <3> QED
      BY <2>1, <3>3, <3>4
  <2>12. CASE RequeueMessage(w)
    <3>1. UNCHANGED now /\ faults' \in 0..MaxFaults
      BY <1>c, <2>12 DEF RequeueMessage
    <3>2. cur[w] \in Entry /\ cur[w].attempt + 1 \in Nat
      BY <2>e, <2>12 DEF RequeueMessage, Holding, Entry
    <3>3. Requeue(cur[w], cur[w].attempt + 1) => QueueTypeOK'
      BY <3>1, <3>2, RequeueEffect
    <3>4. QueueTypeOK'
      BY <1>q, <2>12, <3>1, <3>3 DEF RequeueMessage
    <3>5. WorkerTypeOK'
      BY <2>12 DEF RequeueMessage, WorkerTypeOK, Release, Goto, history, Locations, Holding
    <3> QED
      BY <2>1, <3>4, <3>5
  <2>13. CASE Crash(w)
    <3>1. QueueTypeOK'
      BY <1>s, <1>q, <2>13 DEF Crash
    <3>2. WorkerTypeOK'
      BY <2>13, WorkerAssumption
         DEF Crash, WorkerTypeOK, Release, Goto, history, Locations, Holding
    <3> QED
      BY <2>1, <3>1, <3>2
  <2> QED
    BY <1>2, <2>2, <2>3, <2>4, <2>5, <2>6, <2>7, <2>8, <2>9, <2>10, <2>11, <2>12, <2>13
       DEF WorkerStep
<1>3. CASE Tick /\ UNCHANGED <<workerVars, told>>
  BY <1>3, TickEffect DEF WorkerTypeOK, workerVars
<1>4. CASE UNCHANGED vars
  <2>1. QueueTypeOK'
    BY <1>q, <1>s, <1>4 DEF vars
  <2> QED
    BY <1>4, <2>1 DEF WorkerTypeOK, vars, workerVars
<1> QED
  BY <1>1, <1>2, <1>3, <1>4 DEF Next

(***************************************************************************)
(* TypeOK holds of every message path, whatever its constants.             *)
(***************************************************************************)
THEOREM Typing == Spec => []TypeOK
<1>1. Init => TypeOK
  BY InitTyped
<1>2. TypeOK /\ [Next]_vars => TypeOK'
  BY NextTyped
<1> QED
  BY <1>1, <1>2, PTL DEF Spec

----------------------------------------------------------------------------
(* Safety: nothing accepted is lost, and no marker lies.                   *)

\* Payloads in the lists and in the workers' hands have been enqueued.
EntriesLogged ==
    /\ \A e \in Queued : e.copy \in Copies
    /\ \A w \in Workers : pc[w] \in Holding => cur[w].copy \in Copies
    /\ \A c \in 1..MaxCopies : outcome[c] # {} => c \in Copies

\* A dedup key belongs to an enqueued message, and so does what Cube is told.
KeysLogged ==
    \A m \in Messages :
        dedup[m] # NoKey \/ m \in told => \E c \in Copies : log[c].msg = m

Kept == \A c \in Copies : (\E e \in Queued : e.copy = c) \/ outcome[c] # {}

\* A worker acknowledges only what it has concluded.
ConcludedBeforeAck ==
    \A w \in Workers : pc[w] \in {"mark", "ack"} => outcome[cur[w].copy] # {}

\* A worker writes a marker only for what it has delivered.
AnsweredBeforeMark ==
    \A w \in Workers :
        /\ delivered[w] => pc[w] \in Holding
        /\ delivered[w] \/ pc[w] = "mark" => answers[cur[w].copy] > 0

SafetyInv ==
    /\ TypeOK
    /\ EntriesLogged
    /\ KeysLogged
    /\ Kept
    /\ ConcludedBeforeAck
    /\ AnsweredBeforeMark
    /\ MarkerMeansAnswered

(***************************************************************************)
(* The invariant gives the property the runs check.                        *)
(***************************************************************************)
LEMMA SafetyInvImplies == SafetyInv => AcceptedNotLost
<1> SUFFICES ASSUME SafetyInv PROVE AcceptedNotLost
  OBVIOUS
<1>1. \A m \in told : \E c \in Copies : log[c].msg = m
  BY DEF SafetyInv, KeysLogged, TypeOK
<1>2. \A c \in Copies : InQueue(c) \/ outcome[c] # {}
  BY InQueueIsQueued DEF SafetyInv, Kept
<1> QED
  BY <1>1, <1>2 DEF AcceptedNotLost

(***************************************************************************)
(* It holds initially: the backlog is queued and logged.                   *)
(***************************************************************************)
LEMMA InitSafe == Init => SafetyInv
<1> SUFFICES ASSUME Init PROVE SafetyInv
  OBVIOUS
<1>1. TypeOK
  BY InitTyped
<1>2. /\ Queued \subseteq {[copy |-> 1, attempt |-> 0]}
      /\ \/ Copies = {} /\ Queued = {}
         \/ Copies = {1} /\ [copy |-> 1, attempt |-> 0] \in Queued
  <2>1. PICK b \in {<<>>} \cup {<<m>> : m \in Messages} :
           /\ log = [c \in 1..Len(b) |-> [msg |-> b[c], at |-> NoTimestamp]]
           /\ ready = [c \in 1..Len(b) |-> [copy |-> c, attempt |-> 0]]
    BY DEF Init, QueueInit
  <2>2. Len(log) \in Nat /\ DOMAIN log = 1..Len(log) /\ processing = <<>>
    BY <1>1, LenProperties DEF TypeOK, QueueTypeOK, Init, QueueInit
  <2>3. ToSet(processing) = {}
    BY <2>2 DEF ToSet
  <2>4. CASE b = <<>>
    <3>1. Len(b) = 0
      BY <2>4
    <3>2. DOMAIN log = 1..0 /\ DOMAIN ready = 1..0
      BY <2>1, <3>1
    <3>3. Len(log) = 0
      BY <2>2, <3>2
    <3>4. ToSet(ready) = {} /\ Copies = {}
      BY <3>2, <3>3 DEF ToSet, Copies
    <3>5. Queued = {}
      BY <2>3, <3>4 DEF Queued
    <3> QED
      BY <3>4, <3>5
  <2>5. CASE \E m \in Messages : b = <<m>>
    <3>1. Len(b) = 1
      BY <2>5
    <3>2. DOMAIN log = 1..1 /\ DOMAIN ready = 1..1
      BY <2>1, <3>1
    <3>3. Len(log) = 1
      <4>1. 1..Len(log) = 1..1
        BY <2>2, <3>2
      <4>2. 1 \in 1..Len(log) /\ \A i \in 1..Len(log) : i = 1
        BY <4>1
      <4> QED
        BY <2>2, <4>2
    <3>4. ToSet(ready) = {[copy |-> 1, attempt |-> 0]}
      <4>1. ready[1] = [copy |-> 1, attempt |-> 0]
        BY <2>1, <3>1
      <4> QED
        BY <3>2, <4>1 DEF ToSet
    <3>5. Queued = {[copy |-> 1, attempt |-> 0]}
      BY <2>3, <3>4 DEF Queued
    <3>6. Copies = {1}
      BY <3>3 DEF Copies
    <3> QED
      BY <3>5, <3>6
  <2> QED
    BY <2>4, <2>5
<1>3. EntriesLogged /\ Kept
  BY <1>2 DEF EntriesLogged, Kept, Init, WorkerInit, Holding
<1>4. KeysLogged
  BY DEF KeysLogged, Init, QueueInit
<1>5. ConcludedBeforeAck /\ AnsweredBeforeMark
  BY DEF ConcludedBeforeAck, AnsweredBeforeMark, Init, WorkerInit, Holding
<1>6. MarkerMeansAnswered
  <2>1. Copies \subseteq 1..MaxCopies
    BY <1>1, LenProperties, QueueAssumption DEF TypeOK, QueueTypeOK, Copies
  <2> QED
    BY <2>1 DEF MarkerMeansAnswered, Init, QueueInit, WorkerInit
<1> QED
  BY <1>1, <1>3, <1>4, <1>5, <1>6 DEF SafetyInv

(***************************************************************************)
(* The invariant's clauses that a step of a worker cannot disturb as long  *)
(* as it logs nothing and keeps dedup keys and marker.                     *)
(***************************************************************************)
LEMMA WorkerKeepsLog ==
    ASSUME SafetyInv, UNCHANGED <<log, dedup, told>>
    PROVE  KeysLogged' /\ Copies' = Copies
BY DEF SafetyInv, KeysLogged, Copies

(***************************************************************************)
(* Every step keeps the invariant.                                         *)
(***************************************************************************)
LEMMA NextSafe == SafetyInv /\ [Next]_vars => SafetyInv'
<1> SUFFICES ASSUME SafetyInv, [Next]_vars PROVE SafetyInv'
  OBVIOUS
<1>t. TypeOK /\ QueueTypeOK /\ WorkerTypeOK /\ TypeOK'
  BY NextTyped DEF SafetyInv, TypeOK
<1>f. faults' \in 0..MaxFaults
  BY <1>t DEF TypeOK, QueueTypeOK
<1>m. Copies \subseteq 1..MaxCopies
  BY <1>t, LenProperties, QueueAssumption DEF QueueTypeOK, Copies
<1>q. ASSUME UNCHANGED queueVars PROVE Queued' = Queued /\ Copies' = Copies
  BY <1>q DEF queueVars, Queued, Copies
<1> USE DEF SafetyInv
<1>1. ASSUME NEW m \in Messages, AcceptCubeMessage(m) PROVE SafetyInv'
  <2>1. UNCHANGED <<workerVars, now, done>>
    BY <1>1 DEF AcceptCubeMessage, EnqueueUnique, Enqueue, NewEntry, queueVars
  <2>2. CASE UNCHANGED queueVars /\ told' = told
    BY <1>t, <1>q, <2>1, <2>2
       DEF EntriesLogged, KeysLogged, Kept, ConcludedBeforeAck, AnsweredBeforeMark,
           MarkerMeansAnswered, Answered, workerVars, queueVars
  <2>3. CASE UNCHANGED queueVars /\ IsDuplicate(m) /\ told' = told \cup {m}
    <3>1. KeysLogged'
      BY <1>q, <2>3 DEF KeysLogged, IsDuplicate, queueVars
    <3> QED
      BY <1>t, <1>q, <2>1, <2>3, <3>1
         DEF EntriesLogged, Kept, ConcludedBeforeAck, AnsweredBeforeMark,
             MarkerMeansAnswered, Answered, workerVars, queueVars
  <2>4. CASE EnqueueUnique(m) /\ told' \in {told, told \cup {m}}
    <3> DEFINE n == Len(log) + 1
               e == [copy |-> n, attempt |-> 0]
    <3>1. /\ Copies' = Copies \cup {n}
          /\ \A c \in Copies : log'[c] = log[c]
          /\ log'[n].msg = m
          /\ Queued' = Queued \cup {e}
      <4>1. /\ Len(log) \in Nat /\ Len(log') = n
            /\ \A c \in Copies : log'[c] = log[c]
            /\ log'[n] = [msg |-> m, at |-> now]
            /\ Queued' = Queued \cup {e}
        BY <1>t, <1>f, <2>1, <2>4, EnqueueEffect
      <4>2. 1..n = (1..Len(log)) \cup {n}
        BY <4>1
      <4> QED
        BY <4>1, <4>2 DEF Copies
    <3>e. e.copy = n
      OBVIOUS
    <3> HIDE DEF n, e
    <3>2. EntriesLogged' /\ Kept'
      <4>1. UNCHANGED <<pc, cur, outcome>>
        BY <2>1 DEF workerVars
      <4>2. EntriesLogged'
        BY <3>1, <3>e, <4>1 DEF EntriesLogged
      <4>3. Kept'
        BY <3>1, <3>e, <4>1 DEF Kept
      <4> QED
        BY <4>2, <4>3
    <3>3. KeysLogged'
      <4>1. \A x \in Messages \ {m} : dedup'[x] = dedup[x]
        BY <1>t, <2>4 DEF EnqueueUnique, Enqueue, NewEntry, QueueTypeOK
      <4> QED
        BY <2>4, <3>1, <4>1 DEF KeysLogged
    <3>4. ConcludedBeforeAck' /\ AnsweredBeforeMark'
      BY <2>1 DEF ConcludedBeforeAck, AnsweredBeforeMark, workerVars
    <3>5. MarkerMeansAnswered'
      <4>1. \A x : Answered(x) => Answered(x)'
        BY <2>1, <3>1 DEF Answered, workerVars
      <4>2. outcome'[n] = outcome[n] /\ "skipped" \notin outcome[n]
        <5>1. n \notin Copies /\ n \in 1..MaxCopies
          BY <1>t, <2>4, LenProperties, QueueAssumption DEF n, Copies, EnqueueUnique, Enqueue, NewEntry, QueueTypeOK
        <5> QED
          BY <2>1, <5>1 DEF EntriesLogged, workerVars
      <4> QED
        BY <2>1, <3>1, <4>1, <4>2 DEF MarkerMeansAnswered, workerVars
    <3> QED
      BY <1>t, <3>2, <3>3, <3>4, <3>5
  <2> QED
    BY <1>1, <2>2, <2>3, <2>4 DEF AcceptCubeMessage
<1>2. ASSUME NEW w \in Workers, WorkerStep(w) \/ Crash(w), UNCHANGED told
      PROVE  SafetyInv'
  <2>n. UNCHANGED <<log, dedup>>
    BY <1>2 DEF WorkerStep, Start, Recover, DequeueMessage, CheckProcessed, CheckStale,
         Deliver, ProcessReturns, TakeAsAnswered, ProcessRaises, MarkBestEffort, AckMessage,
         RequeueMessage, Crash, queueVars, RecoverOne, Dequeue, MarkProcessed,
         Acknowledge, Requeue
  <2>k. KeysLogged' /\ Copies' = Copies
    BY <1>2, <2>n, WorkerKeepsLog
  <2>h. pc[w] \in Holding => cur[w] \in Entry /\ cur[w].copy \in Copies
    BY <1>t DEF WorkerTypeOK, EntriesLogged
  \* The clauses left to show, when the worker's answers and verdicts stay.
  <2>a. ASSUME UNCHANGED <<done, outcome, answers>> PROVE MarkerMeansAnswered'
    BY <2>a, <2>n, <2>k DEF MarkerMeansAnswered, Answered
  <2>2. CASE Start(w)
    <3>1. Queued' = Queued
      BY <1>q, <2>2 DEF Start
    <3>2. EntriesLogged' /\ Kept' /\ ConcludedBeforeAck' /\ AnsweredBeforeMark'
      BY <1>t, <2>2, <2>k, <3>1
         DEF Start, Goto, history, EntriesLogged, Kept, ConcludedBeforeAck,
             AnsweredBeforeMark, WorkerTypeOK, Holding
    <3>3. MarkerMeansAnswered'
      BY <2>2, <2>a DEF Start, queueVars, history
    <3> QED
      BY <1>t, <2>k, <3>2, <3>3
  <2>3. CASE Recover(w)
    <3>1. Queued' = Queued
      BY <1>t, <1>f, <1>q, <2>3, RecoverEffect DEF Recover
    <3>2. EntriesLogged' /\ Kept' /\ ConcludedBeforeAck' /\ AnsweredBeforeMark'
      BY <1>t, <2>3, <2>k, <3>1
         DEF Recover, Goto, EntriesLogged, Kept, ConcludedBeforeAck,
             AnsweredBeforeMark, WorkerTypeOK, Holding
    <3>3. MarkerMeansAnswered'
      BY <2>3, <2>a DEF Recover, RecoverOne, queueVars
    <3> QED
      BY <1>t, <2>k, <3>2, <3>3
  <2>4. CASE DequeueMessage(w)
    <3>1. UNCHANGED <<now, done, outcome, answers, delivered>> /\ pc[w] = "idle"
      BY <2>4 DEF DequeueMessage, Dequeue, queueVars, history
    <3>2. \A e : Dequeue(e) => Queued' = Queued /\ e \in Queued
      BY <1>t, <1>f, <3>1, DequeueEffect
    <3>3. Queued' = Queued
      BY <1>q, <2>4, <3>2 DEF DequeueMessage
    <3>4. CASE UNCHANGED <<cur, pc>>
      BY <1>t, <2>a, <2>k, <3>1, <3>3, <3>4
         DEF EntriesLogged, Kept, ConcludedBeforeAck, AnsweredBeforeMark
    <3>5. ASSUME NEW e, Dequeue(e), cur' = [cur EXCEPT ![w] = e], Goto(w, "check")
          PROVE  SafetyInv'
      <4>1. e.copy \in Copies
        BY <3>2, <3>5 DEF EntriesLogged
      <4>2. EntriesLogged'
        BY <1>t, <2>k, <3>1, <3>3, <3>5, <4>1 DEF EntriesLogged, Goto, WorkerTypeOK, Holding
      <4>3. Kept' /\ ConcludedBeforeAck' /\ AnsweredBeforeMark'
        BY <1>t, <2>k, <3>1, <3>3, <3>5
           DEF Kept, ConcludedBeforeAck, AnsweredBeforeMark, Goto, WorkerTypeOK, Holding
      <4> QED
        BY <1>t, <2>a, <2>k, <3>1, <4>2, <4>3
    <3> QED
      BY <2>4, <3>4, <3>5 DEF DequeueMessage
  <2>5. CASE CheckProcessed(w)
    <3>1. Queued' = Queued /\ UNCHANGED <<done, answers>>
      BY <1>q, <2>5 DEF CheckProcessed, queueVars
    <3>2. CASE /\ IsProcessed(MessageOf(cur[w]))
               /\ Conclude(cur[w].copy, "skipped") /\ Goto(w, "ack")
               /\ UNCHANGED <<cur, delivered>>
      <4>1. pc[w] = "check" /\ cur[w].copy \in Copies
        BY <2>5, <2>h DEF CheckProcessed, Holding
      <4>2. EntriesLogged' /\ Kept' /\ ConcludedBeforeAck' /\ AnsweredBeforeMark'
        BY <1>t, <1>m, <2>k, <3>1, <3>2, <4>1
           DEF EntriesLogged, Kept, ConcludedBeforeAck, AnsweredBeforeMark, WorkerTypeOK,
               Goto, Conclude, Holding
      <4>3. MarkerMeansAnswered'
        <5>1. MessageOf(cur[w]) = log[cur[w].copy].msg /\ log[cur[w].copy].msg \in Messages
          <6>1. log \in Seq(Payload) /\ cur[w].copy \in 1..Len(log)
            BY <1>t, <4>1 DEF QueueTypeOK, Copies
          <6>2. log[cur[w].copy] \in Payload
            BY <6>1, ElementOfSeq
          <6> QED
            BY <6>2 DEF MessageOf, Payload
        <5>2. Answered(log[cur[w].copy].msg)
          BY <3>2, <5>1 DEF IsProcessed, MarkerMeansAnswered
        <5>3. \A x : Answered(x)' <=> Answered(x)
          BY <2>k, <2>n, <3>1 DEF Answered
        <5>4. \A c \in Copies : "skipped" \in outcome'[c] =>
                  "skipped" \in outcome[c] \/ c = cur[w].copy
          BY <1>t, <1>m, <3>2 DEF Conclude, WorkerTypeOK
        <5> QED
          BY <2>k, <2>n, <3>1, <5>2, <5>3, <5>4 DEF MarkerMeansAnswered
      <4> QED
        BY <1>t, <2>k, <4>2, <4>3
    <3>3. CASE Goto(w, "stale") /\ UNCHANGED <<outcome, cur, delivered>>
      <4>1. pc[w] \in Holding
        BY <2>5 DEF CheckProcessed, Holding
      <4>2. EntriesLogged' /\ Kept' /\ ConcludedBeforeAck' /\ AnsweredBeforeMark'
        BY <1>t, <2>k, <3>1, <3>3, <4>1
           DEF EntriesLogged, Kept, ConcludedBeforeAck, AnsweredBeforeMark, WorkerTypeOK,
               Goto, Holding
      <4> QED
        BY <1>t, <2>a, <2>k, <3>1, <3>3, <4>2
    <3>4. CASE Release(w, "idle") /\ UNCHANGED outcome
      <4>2. EntriesLogged' /\ Kept' /\ ConcludedBeforeAck' /\ AnsweredBeforeMark'
        BY <1>t, <2>k, <3>1, <3>4
           DEF EntriesLogged, Kept, ConcludedBeforeAck, AnsweredBeforeMark, WorkerTypeOK,
               Release, Goto, Holding
      <4> QED
        BY <1>t, <2>a, <2>k, <3>1, <3>4, <4>2
    <3> QED
      BY <2>5, <3>2, <3>3, <3>4 DEF CheckProcessed
  <2>v. ASSUME NEW how \in {"expired", "answered", "failed"}, pc[w] \in Holding,
               Conclude(cur[w].copy, how), UNCHANGED <<done, answers>>, Queued' = Queued
        PROVE  /\ Kept' /\ MarkerMeansAnswered'
               /\ \A c \in 1..MaxCopies : outcome'[c] # {} => c \in Copies'
               /\ outcome'[cur[w].copy] # {}
               /\ \A c : outcome[c] # {} => outcome'[c] # {}
    <3>1. cur[w].copy \in Copies /\ cur[w].copy \in 1..MaxCopies
      BY <1>m, <2>h, <2>v
    <3>2. /\ \A c \in 1..MaxCopies \ {cur[w].copy} : outcome'[c] = outcome[c]
          /\ outcome'[cur[w].copy] = outcome[cur[w].copy] \cup {how}
          /\ \A c : c \notin 1..MaxCopies => outcome'[c] = outcome[c]
      BY <1>t, <2>v, <3>1 DEF Conclude, WorkerTypeOK
    <3>3. \A c \in Copies : "skipped" \in outcome'[c] => "skipped" \in outcome[c]
      BY <1>m, <2>v, <3>2
    <3>4. \A x : Answered(x)' <=> Answered(x)
      BY <2>k, <2>n, <2>v DEF Answered
    <3>5. Kept' /\ MarkerMeansAnswered'
      BY <1>m, <2>k, <2>n, <2>v, <3>2, <3>3, <3>4 DEF Kept, MarkerMeansAnswered
    <3> QED
      BY <2>k, <3>1, <3>2, <3>5 DEF EntriesLogged
  <2>6. CASE CheckStale(w)
    <3>1. Queued' = Queued /\ UNCHANGED <<done, answers, cur, delivered>> /\ pc[w] = "stale"
      BY <1>q, <2>6 DEF CheckStale, queueVars
    <3>2. CASE Conclude(cur[w].copy, "expired") /\ Goto(w, "ack")
      <4>1. /\ Kept' /\ MarkerMeansAnswered'
            /\ \A c \in 1..MaxCopies : outcome'[c] # {} => c \in Copies'
            /\ outcome'[cur[w].copy] # {}
            /\ \A c : outcome[c] # {} => outcome'[c] # {}
        BY <2>v, <3>1, <3>2 DEF Holding
      <4>2. EntriesLogged' /\ ConcludedBeforeAck' /\ AnsweredBeforeMark'
        BY <1>t, <2>k, <3>1, <3>2, <4>1
           DEF EntriesLogged, ConcludedBeforeAck, AnsweredBeforeMark, WorkerTypeOK,
               Goto, Holding
      <4> QED
        BY <1>t, <2>k, <4>1, <4>2
    <3>3. CASE Goto(w, "process") /\ UNCHANGED outcome
      <4>2. EntriesLogged' /\ Kept' /\ ConcludedBeforeAck' /\ AnsweredBeforeMark'
        BY <1>t, <2>k, <3>1, <3>3
           DEF EntriesLogged, Kept, ConcludedBeforeAck, AnsweredBeforeMark, WorkerTypeOK,
               Goto, Holding
      <4> QED
        BY <1>t, <2>a, <2>k, <3>1, <3>3, <4>2
    <3> QED
      BY <2>6, <3>2, <3>3 DEF CheckStale
  <2>7. CASE Deliver(w)
    <3>1. Queued' = Queued /\ UNCHANGED <<pc, cur, outcome, done>> /\ pc[w] = "process"
      BY <1>q, <2>7 DEF Deliver, queueVars
    <3>2. cur[w].copy \in 1..MaxCopies
      BY <1>m, <2>h, <3>1 DEF Holding
    <3>3. /\ \A c \in 1..MaxCopies : answers[c] > 0 => answers'[c] > 0
          /\ answers'[cur[w].copy] > 0
      BY <1>t, <2>7, <3>2 DEF Deliver, WorkerTypeOK
    <3>4. EntriesLogged' /\ Kept' /\ ConcludedBeforeAck'
      BY <2>k, <3>1 DEF EntriesLogged, Kept, ConcludedBeforeAck
    <3>5. AnsweredBeforeMark'
      <4>1. \A v \in Workers : pc[v] \in Holding => cur[v].copy \in 1..MaxCopies
        BY <1>m DEF EntriesLogged
      <4>2. \A v \in Workers : delivered'[v] => delivered[v] \/ v = w
        BY <1>t, <2>7 DEF Deliver, WorkerTypeOK
      <4> QED
        BY <3>1, <3>3, <4>1, <4>2 DEF AnsweredBeforeMark, Holding
    <3>6. MarkerMeansAnswered'
      <4>1. \A x : Answered(x) => Answered(x)'
        BY <1>m, <2>k, <2>n, <3>3 DEF Answered
      <4> QED
        BY <2>k, <2>n, <3>1, <4>1 DEF MarkerMeansAnswered
    <3> QED
      BY <1>t, <2>k, <3>4, <3>5, <3>6
  <2>8. CASE ProcessReturns(w)
    <3>1. /\ Queued' = Queued /\ UNCHANGED <<done, answers, cur, delivered>>
          /\ pc[w] = "process" /\ delivered[w]
          /\ Conclude(cur[w].copy, "answered") /\ Goto(w, "mark")
      BY <1>q, <2>8 DEF ProcessReturns, TakeAsAnswered, queueVars
    <3>2. /\ Kept' /\ MarkerMeansAnswered'
          /\ \A c \in 1..MaxCopies : outcome'[c] # {} => c \in Copies'
          /\ outcome'[cur[w].copy] # {}
          /\ \A c : outcome[c] # {} => outcome'[c] # {}
      BY <2>v, <3>1 DEF Holding
    <3>3. EntriesLogged' /\ ConcludedBeforeAck' /\ AnsweredBeforeMark'
      BY <1>t, <2>k, <3>1, <3>2
         DEF EntriesLogged, ConcludedBeforeAck, AnsweredBeforeMark, WorkerTypeOK,
             Goto, Holding
    <3> QED
      BY <1>t, <2>k, <3>2, <3>3
  <2>9. CASE ProcessRaises(w)
    <3>1. /\ Queued' = Queued /\ UNCHANGED <<done, answers, cur, delivered>>
          /\ pc[w] = "process"
      BY <1>q, <2>9 DEF ProcessRaises, queueVars
    <3>2. CASE Goto(w, "requeue") /\ UNCHANGED outcome
      <4>1. EntriesLogged' /\ Kept' /\ ConcludedBeforeAck' /\ AnsweredBeforeMark'
        BY <1>t, <2>k, <3>1, <3>2
           DEF EntriesLogged, Kept, ConcludedBeforeAck, AnsweredBeforeMark, WorkerTypeOK,
               Goto, Holding
      <4> QED
        BY <1>t, <2>a, <2>k, <3>1, <3>2, <4>1
    <3>3. CASE Goto(w, "ack") /\ Conclude(cur[w].copy, "failed")
      <4>1. /\ Kept' /\ MarkerMeansAnswered'
            /\ \A c \in 1..MaxCopies : outcome'[c] # {} => c \in Copies'
            /\ outcome'[cur[w].copy] # {}
            /\ \A c : outcome[c] # {} => outcome'[c] # {}
        BY <2>v, <3>1, <3>3 DEF Holding
      <4>2. EntriesLogged' /\ ConcludedBeforeAck' /\ AnsweredBeforeMark'
        BY <1>t, <2>k, <3>1, <3>3, <4>1
           DEF EntriesLogged, ConcludedBeforeAck, AnsweredBeforeMark, WorkerTypeOK,
               Goto, Holding
      <4> QED
        BY <1>t, <2>k, <4>1, <4>2
    <3> QED
      BY <2>9, <3>2, <3>3 DEF ProcessRaises
  <2>10. CASE MarkBestEffort(w)
    <3>1. /\ UNCHANGED <<cur, delivered, outcome, answers, ready, processing>>
          /\ pc[w] = "mark" /\ Goto(w, "ack")
      BY <2>10 DEF MarkBestEffort, MarkProcessed, queueVars
    <3>2. Queued' = Queued
      BY <3>1 DEF Queued
    <3>3. EntriesLogged' /\ Kept' /\ ConcludedBeforeAck' /\ AnsweredBeforeMark'
      BY <1>t, <2>k, <3>1, <3>2
         DEF EntriesLogged, Kept, ConcludedBeforeAck, AnsweredBeforeMark, WorkerTypeOK,
             Goto, Holding
    <3>4. MarkerMeansAnswered'
      <4>1. \A x : Answered(x)' <=> Answered(x)
        BY <2>k, <2>n, <3>1 DEF Answered
      <4>2. Answered(MessageOf(cur[w]))
        <5>1. cur[w].copy \in Copies /\ answers[cur[w].copy] > 0
          BY <2>h, <3>1 DEF Holding, AnsweredBeforeMark
        <5> QED
          BY <5>1 DEF Answered, MessageOf
      <4>3. \A x \in Messages : done'[x] # NoKey => done[x] # NoKey \/ x = MessageOf(cur[w])
        BY <1>t, <2>10 DEF MarkBestEffort, MarkProcessed, queueVars, QueueTypeOK
      <4> QED
        BY <2>k, <2>n, <3>1, <4>1, <4>2, <4>3 DEF MarkerMeansAnswered
    <3> QED
      BY <1>t, <2>k, <3>3, <3>4
  <2>11. CASE AckMessage(w)
    <3>1. /\ UNCHANGED <<outcome, answers, done, now>>
          /\ pc[w] = "ack" /\ Release(w, "idle")
      BY <2>11 DEF AckMessage, Acknowledge, queueVars, history
    <3>2. Acknowledge(cur[w]) => Queued' \subseteq Queued /\ Queued \subseteq Queued' \cup {cur[w]}
      BY <1>t, <1>f, <3>1, AcknowledgeEffect
    <3>3. Queued' \subseteq Queued /\ Queued \subseteq Queued' \cup {cur[w]}
      BY <1>q, <2>11, <3>2 DEF AckMessage
    <3>4. Kept'
      BY <2>k, <3>1, <3>3 DEF Kept, ConcludedBeforeAck
    <3>5. EntriesLogged' /\ ConcludedBeforeAck' /\ AnsweredBeforeMark'
      BY <1>t, <2>k, <3>1, <3>3
         DEF EntriesLogged, ConcludedBeforeAck, AnsweredBeforeMark, WorkerTypeOK,
             Release, Goto, Holding
    <3> QED
      BY <1>t, <2>a, <2>k, <3>1, <3>4, <3>5
  <2>12. CASE RequeueMessage(w)
    <3> DEFINE n == cur[w].attempt + 1
               r == [cur[w] EXCEPT !.attempt = n]
    <3>1. /\ UNCHANGED <<outcome, answers, done, now>>
          /\ pc[w] = "requeue" /\ Release(w, "idle")
      BY <2>12 DEF RequeueMessage, Requeue, queueVars, history
    <3>2. cur[w] \in Entry /\ cur[w].copy \in Copies /\ n \in Nat /\ r.copy = cur[w].copy
      BY <2>h, <3>1 DEF Holding, Entry
    <3>3. Requeue(cur[w], n) =>
             /\ Queued' \subseteq Queued \cup {r}
             /\ Queued \subseteq Queued' \cup {cur[w]}
             /\ r \in Queued'
      BY <1>t, <1>f, <3>1, <3>2, RequeueEffect
    <3>4. \/ Queued' = Queued
          \/ /\ Queued' \subseteq Queued \cup {r}
             /\ Queued \subseteq Queued' \cup {cur[w]}
             /\ r \in Queued'
      BY <1>q, <2>12, <3>3 DEF RequeueMessage
    <3> HIDE DEF r
    <3>5. Kept'
      BY <2>k, <3>1, <3>2, <3>4 DEF Kept
    <3>6. EntriesLogged' /\ ConcludedBeforeAck' /\ AnsweredBeforeMark'
      <4>1. \A e \in Queued' : e.copy \in Copies'
        BY <2>k, <3>2, <3>4 DEF EntriesLogged
      <4> QED
        BY <1>t, <2>k, <3>1, <4>1
           DEF EntriesLogged, ConcludedBeforeAck, AnsweredBeforeMark, WorkerTypeOK,
               Release, Goto, Holding
    <3> QED
      BY <1>t, <2>a, <2>k, <3>1, <3>5, <3>6
  <2>13. CASE Crash(w)
    <3>1. /\ UNCHANGED <<outcome, answers, done>> /\ Queued' = Queued
          /\ Release(w, "down")
      BY <1>q, <2>13 DEF Crash, queueVars, history
    <3>2. EntriesLogged' /\ Kept' /\ ConcludedBeforeAck' /\ AnsweredBeforeMark'
      BY <1>t, <2>k, <3>1
         DEF EntriesLogged, Kept, ConcludedBeforeAck, AnsweredBeforeMark, WorkerTypeOK,
             Release, Goto, Holding
    <3> QED
      BY <1>t, <2>a, <2>k, <3>1, <3>2
  <2> QED
    BY <1>2, <2>2, <2>3, <2>4, <2>5, <2>6, <2>7, <2>8, <2>9, <2>10, <2>11, <2>12, <2>13
       DEF WorkerStep
<1>3. CASE Tick /\ UNCHANGED <<workerVars, told>>
  <2>1. /\ UNCHANGED <<ready, processing, log>>
        /\ \A m \in Messages : dedup'[m] = dedup[m] \/ dedup'[m] = NoKey
        /\ \A m \in Messages : done'[m] = done[m] \/ done'[m] = NoKey
    BY <1>t, <1>3, TickEffect
  <2>2. Queued' = Queued /\ Copies' = Copies
    BY <2>1 DEF Queued, Copies
  <2>3. \A x : Answered(x)' <=> Answered(x)
    BY <1>3, <2>1, <2>2 DEF Answered, workerVars
  <2> QED
    BY <1>t, <1>3, <2>1, <2>2, <2>3
       DEF EntriesLogged, KeysLogged, Kept, ConcludedBeforeAck, AnsweredBeforeMark,
           MarkerMeansAnswered, workerVars
<1>4. CASE UNCHANGED vars
  BY <1>t, <1>q, <1>4
     DEF vars, workerVars, queueVars, EntriesLogged, KeysLogged, Kept, ConcludedBeforeAck,
         AnsweredBeforeMark, MarkerMeansAnswered, Answered
<1> QED
  BY <1>1, <1>2, <1>3, <1>4 DEF Next

(***************************************************************************)
(* The strengthened invariant holds in every reachable state.              *)
(***************************************************************************)
THEOREM Safety == Spec => []SafetyInv
<1>1. Init => SafetyInv
  BY InitSafe
<1>2. SafetyInv /\ [Next]_vars => SafetyInv'
  BY NextSafe
<1> QED
  BY <1>1, <1>2, PTL DEF Spec

(***************************************************************************)
(* No accepted message is lost, with any number of workers, crashes,       *)
(* failing Redis calls and redeliveries.                                   *)
(***************************************************************************)
THEOREM NothingLost == Spec => []AcceptedNotLost
BY Safety, SafetyInvImplies, PTL

(***************************************************************************)
(* A processed marker always stands for a delivered answer, and a payload  *)
(* is skipped as a duplicate only if its user did get the answer.          *)
(***************************************************************************)
THEOREM MarkersTruthful == Spec => []MarkerMeansAnswered
<1>1. SafetyInv => MarkerMeansAnswered
  BY DEF SafetyInv
<1> QED
  BY <1>1, Safety, PTL

----------------------------------------------------------------------------
(* Deduplication: at most one payload of a message is fit to be processed. *)

Keyed(c) == log[c].msg \notin Anonymous /\ log[c].at # NoTimestamp

\* Payloads carry times of the past; the dedup key covers DedupTTL from each
\* of them; so two payloads of a message are at least DedupTTL apart.
DedupInv ==
    /\ TypeOK
    /\ \A c \in Copies : log[c].at <= now
    /\ \A c \in Copies :
          Keyed(c) /\ now < log[c].at + DedupTTL
          => dedup[log[c].msg] >= log[c].at + DedupTTL
    /\ \A c1, c2 \in Copies :
          Keyed(c1) /\ Keyed(c2) /\ log[c1].msg = log[c2].msg /\ c1 < c2
          => log[c1].at + DedupTTL <= log[c2].at

(***************************************************************************)
(* The fields of a logged payload.                                         *)
(***************************************************************************)
LEMMA LogFields ==
    ASSUME QueueTypeOK, NEW c \in Copies
    PROVE  /\ log[c].msg \in Messages /\ log[c].at \in Int /\ c \in Nat
           /\ log[c].at # NoTimestamp => log[c].at \in Nat
<1>1. c \in 1..Len(log) /\ log \in Seq(Payload) /\ Len(log) \in Nat
  BY LenProperties DEF Copies, QueueTypeOK
<1>2. log[c] \in Payload
  BY <1>1, ElementOfSeq
<1> QED
  BY <1>1, <1>2 DEF Payload, NoTimestamp

(***************************************************************************)
(* The backlog has no timestamps.                                          *)
(***************************************************************************)
LEMMA InitDeduplicated == Init => DedupInv
<1> SUFFICES ASSUME Init PROVE DedupInv
  OBVIOUS
<1>1. TypeOK /\ now = 0
  BY InitTyped DEF Init, QueueInit
<1>2. \A c \in Copies : log[c].at = NoTimestamp
  <2>1. PICK b \in {<<>>} \cup {<<m>> : m \in Messages} :
           log = [c \in 1..Len(b) |-> [msg |-> b[c], at |-> NoTimestamp]]
    BY DEF Init, QueueInit
  <2>2. DOMAIN log = Copies
    BY <1>1, LenProperties DEF TypeOK, QueueTypeOK, Copies
  <2> QED
    BY <2>1, <2>2
<1> QED
  BY <1>1, <1>2 DEF DedupInv, Keyed, NoTimestamp

(***************************************************************************)
(* Every step keeps the invariant; only enqueueing and the clock matter.   *)
(***************************************************************************)
LEMMA NextDeduplicated == DedupInv /\ [Next]_vars => DedupInv'
<1> SUFFICES ASSUME DedupInv, [Next]_vars PROVE DedupInv'
  OBVIOUS
<1>t. TypeOK /\ QueueTypeOK /\ TypeOK' /\ now \in Nat /\ DedupTTL \in Nat \ {0}
  BY NextTyped, QueueAssumption DEF DedupInv, TypeOK, QueueTypeOK
<1>l. \A c \in Copies : log[c].msg \in Messages /\ log[c].at \in Int /\ c \in Nat
  BY <1>t, LogFields
<1>f. faults' \in 0..MaxFaults
  BY <1>t DEF TypeOK, QueueTypeOK
<1>1. ASSUME UNCHANGED <<log, dedup, now>> PROVE DedupInv'
  BY <1>t, <1>1 DEF DedupInv, Keyed, Copies
<1>2. ASSUME NEW m \in Messages, EnqueueUnique(m), UNCHANGED now PROVE DedupInv'
  <2>0. PICK n : n = Len(log) + 1
    OBVIOUS
  <2>1. /\ Copies' = Copies \cup {n} /\ n \in Nat
        /\ \A c \in Copies : log'[c] = log[c] /\ c < n
        /\ log'[n].msg = m /\ log'[n].at = now
    <3>1. /\ Len(log) \in Nat /\ Len(log') = n
          /\ \A c \in Copies : log'[c] = log[c]
          /\ log'[n] = [msg |-> m, at |-> now]
      BY <1>t, <1>f, <1>2, <2>0, EnqueueEffect
    <3>2. 1..n = (1..Len(log)) \cup {n}
      BY <2>0, <3>1
    <3> QED
      BY <2>0, <3>1, <3>2 DEF Copies
  <2>2. \A x \in Messages : dedup'[x] = IF x = m /\ m \notin Anonymous THEN now + DedupTTL
                                                                      ELSE dedup[x]
    BY <1>t, <1>2 DEF EnqueueUnique, Enqueue, NewEntry, QueueTypeOK
  <2>3. m \notin Anonymous => dedup[m] = 0
    BY <1>2 DEF EnqueueUnique, Enqueue, NewEntry, IsDuplicate, NoKey
  <2>4. \A c \in Copies : Keyed(c) /\ log[c].msg = m => log[c].at + DedupTTL <= now
    <3> SUFFICES ASSUME NEW c \in Copies, Keyed(c), log[c].msg = m
                 PROVE  log[c].at + DedupTTL <= now
      OBVIOUS
    <3>1. dedup[m] = 0
      BY <2>3 DEF Keyed
    <3>2. log[c].at \in Nat
      BY <1>t, LogFields DEF Keyed
    <3> QED
      BY <1>t, <3>1, <3>2 DEF DedupInv
  <2>5. \A c \in Copies : Keyed(c)' <=> Keyed(c)
    BY <2>1 DEF Keyed
  <2>6. \A c \in Copies' : log'[c].at <= now
    BY <1>t, <2>1 DEF DedupInv
  <2>7. \A c \in Copies' :
           Keyed(c)' /\ now < log'[c].at + DedupTTL
           => dedup'[log'[c].msg] >= log'[c].at + DedupTTL
    <3>1. ASSUME NEW c \in Copies, Keyed(c), now < log[c].at + DedupTTL
          PROVE  dedup'[log[c].msg] >= log[c].at + DedupTTL
      <4>1. log[c].msg # m /\ log[c].msg \in Messages
        BY <1>t, <1>l, <2>4, <3>1
      <4> QED
        BY <2>2, <3>1, <4>1 DEF DedupInv
    <3>2. ASSUME Keyed(n)' PROVE dedup'[log'[n].msg] >= log'[n].at + DedupTTL
      <4>1. m \notin Anonymous
        BY <2>1, <3>2 DEF Keyed
      <4>2. dedup'[m] = now + DedupTTL
        BY <2>2, <4>1
      <4> QED
        BY <1>t, <2>1, <4>2
    <3> SUFFICES ASSUME NEW c \in Copies', Keyed(c)', now < log'[c].at + DedupTTL
                 PROVE  dedup'[log'[c].msg] >= log'[c].at + DedupTTL
      OBVIOUS
    <3>3. CASE c \in Copies
      BY <2>1, <2>5, <3>1, <3>3
    <3> QED
      BY <2>1, <3>2, <3>3
  <2>8. \A c1, c2 \in Copies' :
           Keyed(c1)' /\ Keyed(c2)' /\ log'[c1].msg = log'[c2].msg /\ c1 < c2
           => log'[c1].at + DedupTTL <= log'[c2].at
    <3> SUFFICES ASSUME NEW c1 \in Copies', NEW c2 \in Copies',
                        Keyed(c1)', Keyed(c2)', log'[c1].msg = log'[c2].msg, c1 < c2
                 PROVE  log'[c1].at + DedupTTL <= log'[c2].at
      OBVIOUS
    <3>1. c1 \in Copies
      BY <1>l, <2>1
    <3>2. CASE c2 \in Copies
      BY <2>1, <2>5, <3>1, <3>2 DEF DedupInv
    <3>3. CASE c2 = n
      BY <2>1, <2>4, <2>5, <3>1, <3>3
    <3> QED
      BY <2>1, <3>2, <3>3
  <2> QED
    BY <1>t, <1>2, <2>6, <2>7, <2>8 DEF DedupInv
<1>3. CASE Tick
  <2>1. /\ UNCHANGED log /\ now' = now + 1
        /\ \A m \in Messages : dedup'[m] = dedup[m] \/ (dedup'[m] = NoKey /\ dedup[m] <= now')
    BY <1>t, <1>3, TickEffect
  <2>2. Copies' = Copies /\ \A c \in Copies : Keyed(c)' <=> Keyed(c)
    BY <2>1 DEF Copies, Keyed
  <2>3. \A c \in Copies' : log'[c].at <= now'
    BY <1>t, <1>l, <2>1, <2>2 DEF DedupInv
  <2>4. ASSUME NEW c \in Copies, Keyed(c), now' < log[c].at + DedupTTL
        PROVE  dedup'[log[c].msg] >= log[c].at + DedupTTL
    <3>1. log[c].msg \in Messages /\ log[c].at \in Int /\ dedup[log[c].msg] \in Nat
      BY <1>t, <1>l DEF QueueTypeOK
    <3>2. dedup[log[c].msg] >= log[c].at + DedupTTL
      BY <1>t, <2>1, <2>4, <3>1 DEF DedupInv
    <3>3. ~(dedup[log[c].msg] <= now')
      BY <1>t, <2>1, <2>4, <3>1, <3>2
    <3> QED
      BY <2>1, <3>1, <3>2, <3>3
  <2> QED
    BY <1>t, <2>1, <2>2, <2>3, <2>4 DEF DedupInv
<1>4. ASSUME NEW w \in Workers, WorkerStep(w) \/ Crash(w) PROVE UNCHANGED <<log, dedup, now>>
  BY <1>4 DEF WorkerStep, Start, Recover, DequeueMessage, CheckProcessed, CheckStale,
       Deliver, ProcessReturns, TakeAsAnswered, ProcessRaises, MarkBestEffort, AckMessage,
       RequeueMessage, Crash, queueVars, RecoverOne, Dequeue, MarkProcessed,
       Acknowledge, Requeue
<1>5. ASSUME NEW m \in Messages, AcceptCubeMessage(m) PROVE DedupInv'
  BY <1>1, <1>2, <1>5 DEF AcceptCubeMessage, queueVars
<1>6. CASE UNCHANGED vars
  BY <1>1, <1>6 DEF vars, queueVars
<1> QED
  BY <1>1, <1>3, <1>4, <1>5, <1>6 DEF Next

(***************************************************************************)
(* When the dedup key outlives the message TTL, at most one payload of a   *)
(* message is queued and fit to be processed, however often and whenever   *)
(* Cube repeats the webhook.                                               *)
(***************************************************************************)
THEOREM Deduplication ==
    ASSUME 0 < MessageTTL, MessageTTL < DedupTTL
    PROVE  Spec => []OneFreshCopy
<1>1. DedupInv => OneFreshCopy
  <2> SUFFICES ASSUME DedupInv, NEW c1 \in Copies, NEW c2 \in Copies,
                      log[c1].msg = log[c2].msg, log[c1].msg \notin Anonymous,
                      ~IsStale(c1), ~IsStale(c2)
               PROVE  c1 = c2
    BY DEF OneFreshCopy
  <2>1. now \in Nat /\ DedupTTL \in Nat /\ MessageTTL \in Int
    BY QueueAssumption, WorkerAssumption DEF DedupInv, TypeOK, QueueTypeOK
  <2>2. \A c \in Copies : log[c].at \in Int /\ c \in Nat
    BY LogFields DEF DedupInv, TypeOK
  <2>3. ASSUME NEW a \in Copies, NEW b \in Copies, log[a].msg = log[b].msg,
               log[a].msg \notin Anonymous, ~IsStale(a), ~IsStale(b)
        PROVE  ~(a < b)
    <3>1. /\ Keyed(a) /\ Keyed(b) /\ now - log[a].at <= MessageTTL
          /\ log[b].at <= now
      BY <2>1, <2>2, <2>3 DEF IsStale, Keyed, DedupInv
    <3> QED
      BY <2>1, <2>2, <2>3, <3>1 DEF DedupInv
  <2> QED
    BY <2>2, <2>3
<1>2. Init => DedupInv
  BY InitDeduplicated
<1>3. DedupInv /\ [Next]_vars => DedupInv'
  BY NextDeduplicated
<1> QED
  BY <1>1, <1>2, <1>3, PTL DEF Spec

----------------------------------------------------------------------------
(* Order: the list serves first what came first.                           *)

\* Neither a retry nor set back by a recovery, R being what was set back.
Fresh(e, R) == e.attempt = 0 /\ e.copy \notin R

\* The copy c came before all fresh payloads of the list.
CameBefore(c, s, R) == \A e \in ToSet(s) : Fresh(e, R) => c < e.copy

\* A fresh payload came after what is in front of it and what was set back.
InOrder(s, R) ==
    \A i, j \in DOMAIN s :
        Fresh(s[i], R) /\ (i < j \/ ~Fresh(s[j], R)) => s[j].copy < s[i].copy

OrderInv ==
    /\ SafetyInv
    /\ recovered \subseteq Copies
    /\ InOrder(ready, recovered)
    /\ \A e \in ToSet(processing) : CameBefore(e.copy, ready, recovered)
    /\ \A w \in Workers : pc[w] \in Holding => CameBefore(cur[w].copy, ready, recovered)

(***************************************************************************)
(* LPUSH of the newest payload.                                            *)
(***************************************************************************)
LEMMA PushNewest ==
    ASSUME NEW s \in Seq(Entry), NEW e \in Entry, NEW R,
           InOrder(s, R), Fresh(e, R), \A f \in ToSet(s) : f.copy < e.copy
    PROVE  InOrder(Cons(e, s), R)
<1> DEFINE t == Cons(e, s)
<1>1. /\ DOMAIN t = 1..(1 + Len(s)) /\ DOMAIN s = 1..Len(s) /\ Len(s) \in Nat
      /\ \A i \in 1..(1 + Len(s)) : t[i] = IF i = 1 THEN e ELSE s[i - 1]
  BY ConsPositions
<1> HIDE DEF t
<1>2. \A i \in DOMAIN s : s[i].copy < e.copy
  BY DEF ToSet
<1>3. ASSUME NEW i \in DOMAIN t, NEW j \in DOMAIN t, Fresh(t[i], R), i < j \/ ~Fresh(t[j], R)
      PROVE  t[j].copy < t[i].copy
  <2>1. CASE i = 1
    <3>1. j # 1
      BY <1>1, <1>3, <2>1
    <3>2. j - 1 \in DOMAIN s /\ t[j] = s[j - 1] /\ t[i] = e
      BY <1>1, <2>1, <3>1
    <3> QED
      BY <1>2, <3>2
  <2>2. CASE i # 1
    <3>1. j # 1
      BY <1>1, <1>3, <2>2
    <3>2. /\ i - 1 \in DOMAIN s /\ t[i] = s[i - 1] /\ j - 1 \in DOMAIN s /\ t[j] = s[j - 1]
          /\ i < j => i - 1 < j - 1
      BY <1>1, <2>2, <3>1
    <3>3. Fresh(s[i - 1], R) /\ (i - 1 < j - 1 \/ ~Fresh(s[j - 1], R))
      BY <1>3, <3>2
    <3> QED
      BY <3>2, <3>3 DEF InOrder
  <2> QED
    BY <2>1, <2>2
<1> QED
  BY <1>3 DEF InOrder, t

(***************************************************************************)
(* LPUSH of a payload that was set back.                                   *)
(***************************************************************************)
LEMMA PushBack ==
    ASSUME NEW s \in Seq(Entry), NEW e \in Entry, NEW R, NEW Q, R \subseteq Q, Q \subseteq R \cup {e.copy},
           InOrder(s, R), CameBefore(e.copy, s, R), ~Fresh(e, Q)
    PROVE  InOrder(Cons(e, s), Q)
<1> DEFINE t == Cons(e, s)
<1>1. /\ DOMAIN t = 1..(1 + Len(s)) /\ DOMAIN s = 1..Len(s) /\ Len(s) \in Nat
      /\ \A i \in 1..(1 + Len(s)) : t[i] = IF i = 1 THEN e ELSE s[i - 1]
  BY ConsPositions
<1> HIDE DEF t
<1>2. \A f : Fresh(f, Q) => Fresh(f, R)
  BY DEF Fresh
<1>3. \A i \in DOMAIN s : Fresh(s[i], Q) => e.copy < s[i].copy
  BY <1>2 DEF CameBefore, ToSet
<1>4. ASSUME NEW i \in DOMAIN t, NEW j \in DOMAIN t, Fresh(t[i], Q), i < j \/ ~Fresh(t[j], Q)
      PROVE  t[j].copy < t[i].copy
  <2>1. i # 1 /\ i - 1 \in DOMAIN s /\ t[i] = s[i - 1]
    BY <1>1, <1>4
  <2>2. CASE j = 1
    BY <1>1, <1>3, <1>4, <2>1, <2>2
  <2>3. CASE j # 1
    <3>1. j - 1 \in DOMAIN s /\ t[j] = s[j - 1] /\ (i < j => i - 1 < j - 1)
      BY <1>1, <2>3
    <3>2. CASE Fresh(s[j - 1], R) /\ ~Fresh(s[j - 1], Q)
      <4>1. s[j - 1].copy = e.copy
        BY <3>2 DEF Fresh
      <4> QED
        BY <1>3, <1>4, <2>1, <3>1, <4>1
    <3>3. CASE ~Fresh(s[j - 1], R) \/ Fresh(s[j - 1], Q)
      <4>1. i - 1 < j - 1 \/ ~Fresh(s[j - 1], R)
        BY <1>4, <3>1, <3>3
      <4>2. Fresh(s[i - 1], R)
        BY <1>2, <1>4, <2>1
      <4> QED
        BY <2>1, <3>1, <4>1, <4>2 DEF InOrder
    <3> QED
      BY <3>2, <3>3
  <2> QED
    BY <2>2, <2>3
<1> QED
  BY <1>4 DEF InOrder, t

(***************************************************************************)
(* RPOP takes what came before all fresh payloads left.                    *)
(***************************************************************************)
LEMMA PopOldest ==
    ASSUME NEW s \in Seq(Entry), s # <<>>, NEW R, InOrder(s, R)
    PROVE  InOrder(Front(s), R) /\ CameBefore(Last(s).copy, Front(s), R)
<1> DEFINE t == Front(s)
<1>1. /\ Len(s) \in Nat \ {0} /\ DOMAIN s = 1..Len(s)
      /\ Last(s) = s[Len(s)]
      /\ DOMAIN t = 1..(Len(s) - 1)
      /\ \A i \in 1..(Len(s) - 1) : t[i] = s[i]
  BY FrontPositions
<1> HIDE DEF t
<1>2. InOrder(t, R)
  BY <1>1 DEF InOrder
<1>3. ASSUME NEW i \in DOMAIN t, Fresh(t[i], R) PROVE Last(s).copy < t[i].copy
  <2>1. i \in DOMAIN s /\ Len(s) \in DOMAIN s /\ i < Len(s) /\ t[i] = s[i] /\ Last(s) = s[Len(s)]
    BY <1>1
  <2> QED
    BY <1>3, <2>1 DEF InOrder
<1> QED
  BY <1>2, <1>3 DEF CameBefore, ToSet, t

(***************************************************************************)
(* Fewer payloads, fewer of them fresh.                                    *)
(***************************************************************************)
LEMMA CameBeforeFewer ==
    ASSUME NEW s, NEW t, NEW R, NEW Q, NEW c, CameBefore(c, s, R), R \subseteq Q,
           \A e \in ToSet(t) : Fresh(e, Q) => e \in ToSet(s)
    PROVE  CameBefore(c, t, Q)
BY DEF CameBefore, Fresh

(***************************************************************************)
(* The backlog is at most one payload.                                     *)
(***************************************************************************)
LEMMA InitOrdered == Init => OrderInv
<1> SUFFICES ASSUME Init PROVE OrderInv
  OBVIOUS
<1>1. PICK b \in {<<>>} \cup {<<m>> : m \in Messages} :
         ready = [c \in 1..Len(b) |-> [copy |-> c, attempt |-> 0]]
  BY DEF Init, QueueInit
<1>2. DOMAIN ready = 1..Len(b) /\ (Len(b) = 0 \/ Len(b) = 1)
  <2>1. DOMAIN ready = 1..Len(b)
    BY <1>1
  <2>2. b = <<>> => Len(b) = 0
    OBVIOUS
  <2>3. ASSUME NEW m \in Messages, b = <<m>> PROVE Len(b) = 1
    BY <2>3
  <2> QED
    BY <2>1, <2>2, <2>3
<1>3. \A i \in DOMAIN ready : i = 1
  <2>1. CASE Len(b) = 0
    <3>1. DOMAIN ready = 1..0
      BY <1>2, <2>1
    <3> QED
      BY <3>1
  <2>2. CASE Len(b) = 1
    <3>1. DOMAIN ready = 1..1
      BY <1>2, <2>2
    <3> QED
      BY <3>1
  <2> QED
    BY <1>2, <2>1, <2>2
<1>4. /\ recovered = {} /\ processing = <<>> /\ ToSet(processing) = {}
      /\ pc = [w \in Workers |-> "down"]
  BY DEF Init, QueueInit, WorkerInit, ToSet
<1>5. InOrder(ready, recovered)
  BY <1>3 DEF InOrder
<1> QED
  BY <1>4, <1>5, InitSafe DEF OrderInv, Holding

(***************************************************************************)
(* Every step keeps the order.                                             *)
(***************************************************************************)
LEMMA NextOrdered == OrderInv /\ [Next]_vars => OrderInv'
<1> SUFFICES ASSUME OrderInv, [Next]_vars PROVE OrderInv'
  OBVIOUS
<1>s. SafetyInv'
  BY NextSafe DEF OrderInv
<1>t. TypeOK /\ TypeOK' /\ QueueTypeOK /\ WorkerTypeOK /\ QueueTypeOK' /\ WorkerTypeOK'
  BY <1>s DEF OrderInv, SafetyInv, TypeOK
<1>l. ready \in Seq(Entry) /\ processing \in Seq(Entry) /\ ready' \in Seq(Entry) /\ faults' \in 0..MaxFaults
  BY <1>t DEF QueueTypeOK
\* A step that leaves both lists and what was set back alone.
<1>a. ASSUME UNCHANGED <<ready, processing, recovered, log>>,
             \A w \in Workers : pc'[w] \in Holding =>
                 (pc[w] \in Holding /\ cur'[w] = cur[w])
      PROVE  OrderInv'
  BY <1>s, <1>a DEF OrderInv, Copies
<1>1. ASSUME NEW m \in Messages, AcceptCubeMessage(m) PROVE OrderInv'
  <2>1. UNCHANGED <<pc, cur, recovered, now>>
    BY <1>1 DEF AcceptCubeMessage, workerVars
  <2>2. CASE UNCHANGED queueVars
    BY <1>a, <2>1, <2>2 DEF queueVars
  <2>3. CASE EnqueueUnique(m)
    <3>0. PICK n : n = [copy |-> Len(log) + 1, attempt |-> 0]
      OBVIOUS
    <3>1. /\ Len(log) \in Nat /\ Len(log') = Len(log) + 1
          /\ ready' = Cons(n, ready) /\ processing' = processing
      BY <1>l, <1>t, <2>1, <2>3, <3>0, EnqueueEffect DEF EnqueueUnique, Enqueue, NewEntry
    <3>2. /\ n \in Entry /\ n.attempt = 0 /\ n.copy = Len(log) + 1
          /\ \A c \in Copies : c < n.copy
          /\ Copies \subseteq Copies'
      BY <1>t, <2>3, <3>0, <3>1, QueueAssumption DEF EnqueueUnique, Enqueue, Entry, Copies
    <3>3. ToSet(ready') = {n} \cup ToSet(ready)
      BY <1>l, <3>1, <3>2, ConsElements
    <3>4. n.copy \notin recovered
      BY <3>2 DEF OrderInv, Copies
    <3>5. Fresh(n, recovered)
      BY <3>2, <3>4 DEF Fresh
    <3>6. InOrder(ready', recovered)
      BY <1>l, <3>1, <3>2, <3>5, PushNewest DEF OrderInv, SafetyInv, EntriesLogged, Queued
    <3>7. ASSUME NEW c \in Copies, CameBefore(c, ready, recovered)
          PROVE  CameBefore(c, ready', recovered)
      BY <3>2, <3>3, <3>7 DEF CameBefore
    <3>8. \A e \in ToSet(processing) : CameBefore(e.copy, ready', recovered)
      BY <3>7 DEF OrderInv, SafetyInv, EntriesLogged, Queued
    <3>9. \A w \in Workers : pc[w] \in Holding => CameBefore(cur[w].copy, ready', recovered)
      BY <3>7 DEF OrderInv, SafetyInv, EntriesLogged
    <3>10. recovered \subseteq Copies'
      BY <3>2 DEF OrderInv
    <3> QED
      BY <1>s, <2>1, <3>1, <3>6, <3>8, <3>9, <3>10 DEF OrderInv
  <2> QED
    BY <1>1, <2>2, <2>3 DEF AcceptCubeMessage
<1>2. ASSUME NEW w \in Workers, Recover(w) PROVE OrderInv'
  <2>1. UNCHANGED <<cur, log>> /\ Copies' = Copies
    BY <1>2 DEF Recover, RecoverOne, queueVars, Copies
  <2>2. \A v \in Workers : pc'[v] \in Holding => pc[v] \in Holding
    BY <1>t, <1>2 DEF Recover, Goto, WorkerTypeOK, Holding
  <2>3. CASE UNCHANGED <<ready, processing, recovered>>
    BY <1>a, <2>1, <2>2, <2>3
  <2>4. CASE RecoverOne /\ recovered' = recovered \cup {Last(processing).copy}
    <3>0. PICK e : e = Last(processing)
      OBVIOUS
    <3>1. /\ e \in Entry /\ e \in ToSet(processing)
          /\ ToSet(processing) = ToSet(processing') \cup {e}
          /\ ready' = Cons(e, ready) /\ recovered' = recovered \cup {e.copy}
      BY <1>l, <2>4, <3>0, LastFrontElements DEF RecoverOne
    <3>2. ~Fresh(e, recovered')
      BY <3>1 DEF Fresh
    <3>3. InOrder(ready', recovered')
      BY <1>l, <3>1, <3>2, PushBack DEF OrderInv
    <3>4. ToSet(ready') = {e} \cup ToSet(ready)
      BY <1>l, <3>1, ConsElements
    <3>5. \A c : CameBefore(c, ready, recovered) => CameBefore(c, ready', recovered')
      BY <3>1, <3>2, <3>4, CameBeforeFewer
    <3>6. e.copy \in Copies
      BY <3>1 DEF OrderInv, SafetyInv, EntriesLogged, Queued
    <3>7. recovered' \subseteq Copies'
      BY <2>1, <3>1, <3>6 DEF OrderInv
    <3>8. \A f \in ToSet(processing') : CameBefore(f.copy, ready', recovered')
      BY <3>1, <3>5 DEF OrderInv
    <3>9. \A v \in Workers : pc'[v] \in Holding => CameBefore(cur'[v].copy, ready', recovered')
      BY <2>1, <2>2, <3>5 DEF OrderInv
    <3> QED
      BY <1>s, <3>3, <3>7, <3>8, <3>9 DEF OrderInv
  <2> QED
    BY <1>2, <2>3, <2>4 DEF Recover, queueVars
<1>3. ASSUME NEW w \in Workers, DequeueMessage(w) PROVE OrderInv'
  <2>1. UNCHANGED <<recovered, log>> /\ Copies' = Copies
    BY <1>3 DEF DequeueMessage, Dequeue, queueVars, history, Copies
  <2>2. CASE UNCHANGED queueVars /\ UNCHANGED <<pc, cur>>
    BY <1>a, <2>1, <2>2 DEF queueVars
  <2>3. ASSUME NEW e, Dequeue(e),
               \/ UNCHANGED <<pc, cur>>
               \/ cur' = [cur EXCEPT ![w] = e] /\ Goto(w, "check")
        PROVE  OrderInv'
    <3>1. /\ e = Last(ready) /\ ready # <<>> /\ e \in Entry
          /\ ready' = Front(ready) /\ processing' = Cons(e, processing)
          /\ ToSet(ready) = ToSet(ready') \cup {e}
      BY <1>l, <2>3, LastFrontElements DEF Dequeue
    <3>2. InOrder(ready', recovered) /\ CameBefore(e.copy, ready', recovered)
      BY <1>l, <3>1, PopOldest DEF OrderInv
    <3>3. \A c : CameBefore(c, ready, recovered) => CameBefore(c, ready', recovered)
      BY <3>1, CameBeforeFewer
    <3>4. ToSet(Cons(e, processing)) = {e} \cup ToSet(processing)
      <4>1. e \in Entry /\ processing \in Seq(Entry)
        BY <1>l, <3>1
      <4> QED
        BY <4>1, ConsElements
    <3>5. \A f \in ToSet(processing') : CameBefore(f.copy, ready', recovered)
      BY <3>1, <3>2, <3>3, <3>4 DEF OrderInv
    <3>6. \A v \in Workers : pc'[v] \in Holding =>
             \/ pc[v] \in Holding /\ cur'[v] = cur[v]
             \/ cur'[v] = e
      BY <1>t, <2>3 DEF Goto, WorkerTypeOK
    <3>7. \A v \in Workers : pc'[v] \in Holding => CameBefore(cur'[v].copy, ready', recovered)
      BY <3>2, <3>3, <3>6 DEF OrderInv
    <3> QED
      BY <1>s, <2>1, <3>2, <3>5, <3>7 DEF OrderInv
  <2> QED
    BY <1>3, <2>2, <2>3 DEF DequeueMessage
<1>4. ASSUME NEW w \in Workers, AckMessage(w) PROVE OrderInv'
  <2>1. UNCHANGED <<ready, recovered, log>> /\ Copies' = Copies
    BY <1>4 DEF AckMessage, Acknowledge, queueVars, history, Copies
  <2>2. ToSet(processing') \subseteq ToSet(processing)
    BY <1>l, <1>4, RemoveFirstElements DEF AckMessage, Acknowledge, queueVars
  <2>3. \A v \in Workers : pc'[v] \in Holding => pc[v] \in Holding /\ cur'[v] = cur[v]
    BY <1>t, <1>4 DEF AckMessage, Release, Goto, WorkerTypeOK, Holding
  <2> QED
    BY <1>s, <2>1, <2>2, <2>3 DEF OrderInv
<1>5. ASSUME NEW w \in Workers, RequeueMessage(w) PROVE OrderInv'
  <2>1. UNCHANGED <<recovered, log>> /\ Copies' = Copies /\ pc[w] = "requeue"
    BY <1>5 DEF RequeueMessage, Requeue, queueVars, history, Copies
  <2>2. \A v \in Workers : pc'[v] \in Holding => pc[v] \in Holding /\ cur'[v] = cur[v]
    BY <1>t, <1>5 DEF RequeueMessage, Release, Goto, WorkerTypeOK, Holding
  <2>3. CASE UNCHANGED queueVars
    BY <1>a, <2>1, <2>2, <2>3 DEF queueVars
  <2>4. CASE Requeue(cur[w], cur[w].attempt + 1)
    <3>0. PICK r : r = [cur[w] EXCEPT !.attempt = cur[w].attempt + 1]
      OBVIOUS
    <3>1. /\ r \in Entry /\ r.copy = cur[w].copy /\ r.attempt # 0
          /\ CameBefore(r.copy, ready, recovered)
      <4>1. cur[w] \in Entry /\ CameBefore(cur[w].copy, ready, recovered)
        BY <1>t, <2>1 DEF WorkerTypeOK, OrderInv, Holding
      <4>2. cur[w].attempt \in Nat
        BY <4>1 DEF Entry
      <4> QED
        BY <3>0, <4>1, <4>2 DEF Entry
    <3>2. ready' = Cons(r, ready) /\ ToSet(processing') \subseteq ToSet(processing)
      BY <1>l, <2>4, <3>0, RemoveFirstElements DEF Requeue
    <3>3. ~Fresh(r, recovered)
      BY <3>1 DEF Fresh
    <3>4. InOrder(ready', recovered)
      BY <1>l, <3>1, <3>2, <3>3, PushBack DEF OrderInv
    <3>5. ToSet(ready') = {r} \cup ToSet(ready)
      BY <1>l, <3>1, <3>2, ConsElements
    <3>6. \A c : CameBefore(c, ready, recovered) => CameBefore(c, ready', recovered)
      BY <3>3, <3>5, CameBeforeFewer
    <3> QED
      BY <1>s, <2>1, <2>2, <3>2, <3>4, <3>6 DEF OrderInv
  <2> QED
    BY <1>5, <2>3, <2>4 DEF RequeueMessage
<1>6. ASSUME NEW w \in Workers,
             \/ Start(w) \/ CheckProcessed(w) \/ CheckStale(w) \/ Deliver(w)
             \/ ProcessReturns(w) \/ ProcessRaises(w) \/ MarkBestEffort(w) \/ Crash(w)
      PROVE  OrderInv'
  <2>1. UNCHANGED <<ready, processing, recovered, log>>
    BY <1>6 DEF Start, CheckProcessed, CheckStale, Deliver, ProcessReturns, TakeAsAnswered,
                ProcessRaises, MarkBestEffort, MarkProcessed, Crash, queueVars, history
  <2>2. \A v \in Workers : pc'[v] \in Holding => pc[v] \in Holding /\ cur'[v] = cur[v]
    BY <1>t, <1>6
       DEF Start, CheckProcessed, CheckStale, Deliver, ProcessReturns, TakeAsAnswered,
           ProcessRaises, MarkBestEffort, Crash, Release, Goto, WorkerTypeOK, Holding
  <2> QED
    BY <1>a, <2>1, <2>2
<1>7. CASE (Tick /\ UNCHANGED <<workerVars, told>>) \/ UNCHANGED vars
  <2>1. UNCHANGED <<ready, processing, recovered, log, pc, cur>>
    BY <1>7 DEF Tick, vars, queueVars, workerVars
  <2> QED
    BY <1>a, <2>1
<1> QED
  BY <1>1, <1>2, <1>3, <1>4, <1>5, <1>6, <1>7 DEF Next, WorkerStep

(***************************************************************************)
(* A payload that is run has no fresh payload before it in the ready list, *)
(* with any number of workers: only a retry or a recovery is overtaken.    *)
(***************************************************************************)
THEOREM ServedInOrder == Spec => FirstComeFirstServed
<1> DEFINE Served == \A c \in Copies :
                        runs'[c] # runs[c] => \A earlier \in 1..(c - 1) : ~Waiting(earlier)
<1>1. OrderInv /\ [Next]_vars => [Served]_vars
  <2> SUFFICES ASSUME OrderInv, [Next]_vars, NEW c \in Copies, runs'[c] # runs[c],
                      NEW earlier \in 1..(c - 1), Waiting(earlier)
               PROVE  FALSE
    BY DEF vars
  <2>1. PICK w \in Workers : CheckStale(w) /\ runs' = [runs EXCEPT ![cur[w].copy] = @ + 1]
    BY DEF Next, vars, workerVars, AcceptCubeMessage, Tick, WorkerStep, Start, Recover,
           DequeueMessage, CheckProcessed, CheckStale, Deliver, ProcessReturns,
           TakeAsAnswered, ProcessRaises, MarkBestEffort, AckMessage, RequeueMessage,
           Crash, history
  <2>2. WorkerTypeOK /\ QueueTypeOK /\ c \in 1..MaxCopies
    BY LenProperties, QueueAssumption DEF OrderInv, SafetyInv, TypeOK, QueueTypeOK, Copies
  <2>3. c = cur[w].copy /\ pc[w] = "stale"
    BY <2>1, <2>2 DEF CheckStale, WorkerTypeOK
  <2>4. CameBefore(c, ready, recovered)
    BY <2>3 DEF OrderInv, Holding
  <2>5. PICK e \in ToSet(ready) : e = [copy |-> earlier, attempt |-> 0]
    BY DEF Waiting
  <2>6. Fresh(e, recovered) /\ e.copy = earlier
    BY <2>5 DEF Waiting, Fresh
  <2> QED
    BY <2>2, <2>4, <2>5, <2>6 DEF CameBefore
<1>2. Init => OrderInv
  BY InitOrdered
<1>3. OrderInv /\ [Next]_vars => OrderInv'
  BY NextOrdered
<1> QED
  BY <1>1, <1>2, <1>3, PTL DEF Spec, FirstComeFirstServed

----------------------------------------------------------------------------
(***************************************************************************)
(* A single worker.                                                        *)
(***************************************************************************)
SingleWorker == \A v, w \in Workers : v = w

----------------------------------------------------------------------------
(* Lists without twins.                                                    *)

NoTwins(s) == \A i, j \in DOMAIN s : s[i].copy = s[j].copy => i = j

\* No payload of the one list has the copy of one of the other.
Apart(s, t) == \A e \in ToSet(s), f \in ToSet(t) : e.copy # f.copy

(***************************************************************************)
(* LPUSH of another copy.                                                  *)
(***************************************************************************)
LEMMA ConsApart ==
    ASSUME NEW S, NEW s \in Seq(S), NEW e \in S, NoTwins(s),
           \A f \in ToSet(s) : f.copy # e.copy
    PROVE  NoTwins(Cons(e, s))
<1> DEFINE t == Cons(e, s)
<1>1. /\ DOMAIN t = 1..(1 + Len(s)) /\ DOMAIN s = 1..Len(s) /\ Len(s) \in Nat
      /\ \A i \in 1..(1 + Len(s)) : t[i] = IF i = 1 THEN e ELSE s[i - 1]
  BY ConsPositions
<1> HIDE DEF t
<1>2. \A i \in 1..Len(s) : s[i].copy # e.copy
  BY <1>1 DEF ToSet
<1>3. ASSUME NEW i \in DOMAIN t, NEW j \in DOMAIN t, t[i].copy = t[j].copy PROVE i = j
  <2>1. CASE i = 1 \/ j = 1
    BY <1>1, <1>2, <1>3, <2>1
  <2>2. CASE i # 1 /\ j # 1
    <3>1. i - 1 \in DOMAIN s /\ j - 1 \in DOMAIN s /\ s[i - 1].copy = s[j - 1].copy
      BY <1>1, <1>3, <2>2
    <3>2. i - 1 = j - 1
      BY <3>1 DEF NoTwins
    <3> QED
      BY <1>1, <3>2
  <2> QED
    BY <2>1, <2>2
<1> QED
  BY <1>3 DEF NoTwins, t

(***************************************************************************)
(* RPOP.                                                                   *)
(***************************************************************************)
LEMMA FrontApart ==
    ASSUME NEW S, NEW s \in Seq(S), s # <<>>, NoTwins(s)
    PROVE  /\ NoTwins(Front(s))
           /\ \A f \in ToSet(Front(s)) : f.copy # Last(s).copy
<1> DEFINE t == Front(s)
<1>1. /\ Len(s) \in Nat \ {0} /\ DOMAIN s = 1..Len(s)
      /\ Last(s) = s[Len(s)]
      /\ DOMAIN t = 1..(Len(s) - 1)
      /\ \A i \in 1..(Len(s) - 1) : t[i] = s[i]
  BY FrontPositions
<1> HIDE DEF t
<1>2. NoTwins(t)
  BY <1>1 DEF NoTwins
<1>3. \A i \in DOMAIN t : t[i].copy # Last(s).copy
  BY <1>1 DEF NoTwins
<1> QED
  BY <1>2, <1>3 DEF t, ToSet

(***************************************************************************)
(* LREM of a payload that is there.                                        *)
(***************************************************************************)
LEMMA RemoveApart ==
    ASSUME NEW S, NEW s \in Seq(S), NEW e \in ToSet(s), NoTwins(s)
    PROVE  /\ NoTwins(RemoveFirst(s, e))
           /\ ToSet(RemoveFirst(s, e)) = ToSet(s) \ {e}
           /\ \A f \in ToSet(RemoveFirst(s, e)) : f.copy # e.copy
<1> DEFINE t == RemoveFirst(s, e)
<1>1. \E i \in 1..Len(s) : s[i] = e
  BY LenProperties DEF ToSet
<1>2. Len(s) \in Nat /\ DOMAIN s = 1..Len(s) /\ DOMAIN t = 1..(Len(s) - 1)
  BY <1>1, RemoveFirstPositions
<1>3. PICK k \in 1..Len(s) :
         /\ s[k] = e
         /\ \A i \in 1..(Len(s) - 1) : t[i] = IF i <= k - 1 THEN s[i] ELSE s[i + 1]
  BY <1>1, RemoveFirstPositions
<1>4. ToSet(t) \subseteq ToSet(s) /\ ToSet(s) \subseteq ToSet(t) \cup {e}
  BY RemoveFirstElements
<1> HIDE DEF t
<1>5. ASSUME NEW i \in DOMAIN t PROVE t[i].copy # e.copy
  <2>1. CASE i <= k - 1
    <3>1. t[i] = s[i] /\ i \in DOMAIN s /\ k \in DOMAIN s /\ i # k
      BY <1>2, <1>3, <2>1
    <3> QED
      BY <1>3, <3>1 DEF NoTwins
  <2>2. CASE ~(i <= k - 1)
    <3>1. t[i] = s[i + 1] /\ i + 1 \in DOMAIN s /\ k \in DOMAIN s /\ i + 1 # k
      BY <1>2, <1>3, <2>2
    <3> QED
      BY <1>3, <3>1 DEF NoTwins
  <2> QED
    BY <2>1, <2>2
<1>6. ASSUME NEW i \in DOMAIN t, NEW j \in DOMAIN t, t[i].copy = t[j].copy PROVE i = j
  <2> DEFINE at(x) == IF x <= k - 1 THEN x ELSE x + 1
  <2>1. \A x \in DOMAIN t : at(x) \in DOMAIN s /\ t[x] = s[at(x)]
    BY <1>2, <1>3
  <2>2. at(i) = at(j)
    BY <1>6, <2>1 DEF NoTwins
  <2> QED
    BY <1>2, <2>2
<1>7. \A f \in ToSet(t) : f.copy # e.copy
  BY <1>5 DEF ToSet
<1> QED
  BY <1>4, <1>6, <1>7 DEF NoTwins, t

(***************************************************************************)
(* Two lists apart and without twins are QueuedOnce.                       *)
(***************************************************************************)
LEMMA ApartOnce ==
    ASSUME QueueTypeOK, NoTwins(ready), NoTwins(processing), Apart(ready, processing)
    PROVE  QueuedOnce
<1> DEFINE q == ready \o processing
<1>1. ready \in Seq(Entry) /\ processing \in Seq(Entry)
  BY DEF QueueTypeOK
<1>2. /\ DOMAIN ready = 1..Len(ready) /\ Len(ready) \in Nat
      /\ DOMAIN processing = 1..Len(processing) /\ Len(processing) \in Nat
  BY <1>1, LenProperties
<1>3. /\ q \in Seq(Entry) /\ Len(q) = Len(ready) + Len(processing)
      /\ \A i \in 1..(Len(ready) + Len(processing)) :
            q[i] = IF i <= Len(ready) THEN ready[i] ELSE processing[i - Len(ready)]
  BY <1>1, ConcatProperties
<1>4. DOMAIN q = 1..(Len(ready) + Len(processing))
  BY <1>3, LenProperties
<1> HIDE DEF q
<1>5. \A i \in DOMAIN ready, j \in DOMAIN processing : ready[i].copy # processing[j].copy
  BY DEF Apart, ToSet
<1>6. ASSUME NEW i \in DOMAIN q, NEW j \in DOMAIN q, q[i].copy = q[j].copy PROVE i = j
  <2>1. \A x \in DOMAIN q :
           \/ x <= Len(ready) /\ x \in DOMAIN ready /\ q[x] = ready[x]
           \/ x > Len(ready) /\ x - Len(ready) \in DOMAIN processing /\ q[x] = processing[x - Len(ready)]
    BY <1>2, <1>3, <1>4
  <2>2. CASE i <= Len(ready) /\ j <= Len(ready)
    BY <1>2, <1>4, <1>6, <2>1, <2>2 DEF NoTwins
  <2>3. CASE i > Len(ready) /\ j > Len(ready)
    <3>1. i - Len(ready) = j - Len(ready)
      BY <1>2, <1>4, <1>6, <2>1, <2>3 DEF NoTwins
    <3> QED
      BY <1>2, <1>4, <3>1
  <2>4. CASE ~(i <= Len(ready) <=> j <= Len(ready))
    BY <1>2, <1>4, <1>5, <1>6, <2>1, <2>4
  <2> QED
    BY <1>2, <1>4, <2>2, <2>3, <2>4
<1> QED
  BY <1>6 DEF QueuedOnce, q

----------------------------------------------------------------------------
(* What the calls do to the two lists.                                     *)

ListsApart == NoTwins(ready) /\ NoTwins(processing) /\ Apart(ready, processing)

(***************************************************************************)
(* A payload is enqueued.                                                  *)
(***************************************************************************)
LEMMA EnqueueApart ==
    ASSUME QueueTypeOK, ListsApart, \A e \in Queued : e.copy \in Copies,
           NEW m \in Messages, EnqueueUnique(m)
    PROVE  ListsApart'
<1> DEFINE n == [copy |-> Len(log) + 1, attempt |-> 0]
<1>1. ready' = Cons(n, ready) /\ processing' = processing
  BY DEF EnqueueUnique, Enqueue, NewEntry
<1>2. n \in Entry /\ ready \in Seq(Entry) /\ n.copy \notin Copies
  BY LenProperties, QueueAssumption DEF QueueTypeOK, EnqueueUnique, Enqueue, Entry, Copies
<1>3. ToSet(Cons(n, ready)) = {n} \cup ToSet(ready)
  BY <1>2, ConsElements
<1> HIDE DEF n
<1>4. \A f \in ToSet(ready) \cup ToSet(processing) : f.copy # n.copy
  BY <1>2 DEF Queued
<1>5. NoTwins(Cons(n, ready))
  BY <1>2, <1>4, ConsApart DEF ListsApart
<1>6. Apart(Cons(n, ready), processing)
  BY <1>3, <1>4 DEF ListsApart, Apart
<1> QED
  BY <1>1, <1>5, <1>6 DEF ListsApart

(***************************************************************************)
(* The worker takes a payload; nothing leaves the processing list.         *)
(***************************************************************************)
LEMMA DequeueApart ==
    ASSUME QueueTypeOK, ListsApart, NEW e, Dequeue(e)
    PROVE  ListsApart' /\ e \in ToSet(processing')
<1>1. ready \in Seq(Entry) /\ processing \in Seq(Entry) /\ ready # <<>>
  BY DEF QueueTypeOK, Dequeue
<1>2. /\ e \in Entry /\ ready' = Front(ready) /\ processing' = Cons(e, processing)
      /\ ToSet(ready) = ToSet(ready') \cup {e}
      /\ e = Last(ready)
  BY <1>1, LastFrontElements DEF Dequeue
<1>3. ToSet(processing') = {e} \cup ToSet(processing)
  <2>1. e \in Entry /\ processing \in Seq(Entry) /\ processing' = Cons(e, processing)
    BY <1>1, <1>2
  <2>2. ToSet(Cons(e, processing)) = {e} \cup ToSet(processing)
    BY <2>1, ConsElements
  <2> QED
    BY <2>1, <2>2
<1>4. NoTwins(ready') /\ \A f \in ToSet(ready') : f.copy # e.copy
  BY <1>1, <1>2, FrontApart DEF ListsApart
<1>5. \A f \in ToSet(processing) : f.copy # e.copy
  BY <1>2 DEF ListsApart, Apart
<1>6. NoTwins(processing')
  BY <1>1, <1>2, <1>5, ConsApart DEF ListsApart
<1>7. Apart(ready', processing')
  BY <1>2, <1>3, <1>4 DEF ListsApart, Apart
<1> QED
  BY <1>3, <1>4, <1>6, <1>7 DEF ListsApart

(***************************************************************************)
(* The recovery takes one back.                                            *)
(***************************************************************************)
LEMMA RecoverApart ==
    ASSUME QueueTypeOK, ListsApart, RecoverOne
    PROVE  ListsApart'
<1> DEFINE e == Last(processing)
<1>1. ready \in Seq(Entry) /\ processing \in Seq(Entry) /\ processing # <<>>
  BY DEF QueueTypeOK, RecoverOne
<1>2. /\ e \in Entry /\ processing' = Front(processing) /\ ready' = Cons(e, ready)
      /\ ToSet(processing) = ToSet(processing') \cup {e}
  BY <1>1, LastFrontElements DEF RecoverOne
<1>3. ToSet(ready') = {e} \cup ToSet(ready)
  BY <1>1, <1>2, ConsElements
<1>4. NoTwins(processing') /\ \A f \in ToSet(processing') : f.copy # e.copy
  BY <1>1, <1>2, FrontApart DEF ListsApart
<1>5. \A f \in ToSet(ready) : f.copy # e.copy
  BY <1>2 DEF ListsApart, Apart
<1>6. NoTwins(ready')
  BY <1>1, <1>2, <1>5, ConsApart DEF ListsApart
<1>7. Apart(ready', processing')
  BY <1>2, <1>3, <1>4 DEF ListsApart, Apart
<1> QED
  BY <1>4, <1>6, <1>7 DEF ListsApart

(***************************************************************************)
(* A payload is acknowledged: it leaves, and no other of its copy is there.*)
(***************************************************************************)
LEMMA AcknowledgeApart ==
    ASSUME QueueTypeOK, ListsApart, NEW e \in ToSet(processing), Acknowledge(e)
    PROVE  /\ ListsApart' /\ Queued' = Queued \ {e}
           /\ \A f \in Queued' : f.copy # e.copy
<1>1. /\ NoTwins(processing') /\ ready' = ready
      /\ ToSet(processing') = ToSet(processing) \ {e}
      /\ \A f \in ToSet(processing') : f.copy # e.copy
  BY RemoveApart DEF Acknowledge, QueueTypeOK, ListsApart
<1>2. \A f \in ToSet(ready) : f.copy # e.copy
  BY DEF ListsApart, Apart
<1>3. Apart(ready', processing')
  BY <1>1 DEF ListsApart, Apart
<1> QED
  BY <1>1, <1>2, <1>3 DEF ListsApart, Queued

(***************************************************************************)
(* A payload is requeued: its next attempt takes its place.                *)
(***************************************************************************)
LEMMA RequeueApart ==
    ASSUME QueueTypeOK, ListsApart, NEW e \in ToSet(processing), NEW n \in Nat, Requeue(e, n)
    PROVE  /\ ListsApart' /\ Queued' = (Queued \ {e}) \cup {[e EXCEPT !.attempt = n]}
           /\ \A f \in Queued \ {e} : f.copy # e.copy
<1> DEFINE r == [e EXCEPT !.attempt = n]
<1>1. /\ NoTwins(processing') /\ ready' = Cons(r, ready)
      /\ ToSet(processing') = ToSet(processing) \ {e}
      /\ \A f \in ToSet(processing') : f.copy # e.copy
  BY RemoveApart DEF Requeue, QueueTypeOK, ListsApart
<1>2. \A f \in ToSet(ready) : f.copy # e.copy
  BY DEF ListsApart, Apart
<1>3. e \in Entry
  BY QueuedEntries DEF Queued
<1>4. r \in Entry /\ r.copy = e.copy /\ ready \in Seq(Entry)
  BY <1>3 DEF Entry, QueueTypeOK
<1> HIDE DEF r
<1>5. NoTwins(ready') /\ ToSet(ready') = {r} \cup ToSet(ready)
  BY <1>1, <1>2, <1>4, ConsApart, ConsElements DEF ListsApart
<1>6. Apart(ready', processing')
  BY <1>1, <1>4, <1>5 DEF ListsApart, Apart
<1>7. Queued' = (Queued \ {e}) \cup {r}
  BY <1>1, <1>2, <1>5 DEF Queued
<1> QED
  BY <1>1, <1>2, <1>5, <1>6, <1>7 DEF ListsApart, Queued, r

----------------------------------------------------------------------------
(* The invariant.                                                          *)

\* What the worker holds is in the processing list.
HeldQueued == \A w \in Workers : pc[w] \in Holding => cur[w] \in ToSet(processing)

\* An attempt that is queued, or is about to be, is one of the budget.
AttemptsLeft ==
    /\ \A e \in Queued : e.attempt < MaxRetries
    /\ \A w \in Workers : pc[w] = "requeue" => cur[w].attempt + 1 < MaxRetries

\* The run of this attempt has begun.
InRun(e) == \E w \in Workers : pc[w] \in {"process", "mark", "ack", "requeue"} /\ cur[w] = e

\* Each run is that of another attempt, but for those that were cut short.
Spent(e, more) == runs[e.copy] <= e.attempt + more + crashes + faults

Allowed(e) ==
    \/ Spent(e, 0)
    \/ InRun(e) /\ Spent(e, 1)

RunsSpent == \A e \in Queued : Allowed(e)

RunsCounted ==
    /\ AttemptBudget
    /\ \A c \in 1..MaxCopies : c \notin Copies => runs[c] = 0

LedgerInv ==
    /\ SafetyInv
    /\ ListsApart
    /\ HeldQueued
    /\ AttemptsLeft
    /\ RunsSpent
    /\ RunsCounted

(***************************************************************************)
(* A copy is queued with one attempt.                                      *)
(***************************************************************************)
LEMMA OneAttempt ==
    ASSUME QueueTypeOK, ListsApart
    PROVE  \A e, f \in Queued : e.copy = f.copy => e = f
<1>1. ASSUME NEW s, NoTwins(s) PROVE \A e, f \in ToSet(s) : e.copy = f.copy => e = f
  BY <1>1 DEF NoTwins, ToSet
<1> QED
  BY <1>1 DEF ListsApart, Apart, Queued

(***************************************************************************)
(* Budgets only grow.                                                      *)
(***************************************************************************)
LEMMA CountsStay ==
    ASSUME TypeOK, TypeOK', RunsCounted, UNCHANGED runs, Copies \subseteq Copies',
           crashes <= crashes', faults <= faults'
    PROVE  RunsCounted'
<1>1. /\ Copies' \subseteq 1..MaxCopies
      /\ crashes \in Nat /\ crashes' \in Nat /\ faults \in Nat /\ faults' \in Nat
      /\ MaxRetries \in Nat
  BY LenProperties, QueueAssumption, WorkerAssumption
     DEF TypeOK, QueueTypeOK, WorkerTypeOK, Copies, MaxRetries
<1>2. ASSUME NEW c \in Copies' PROVE runs'[c] <= MaxRetries + crashes' + faults'
  <2>1. CASE c \in Copies
    <3>1. runs[c] <= MaxRetries + crashes + faults /\ runs[c] \in Nat /\ runs'[c] = runs[c]
      BY <1>1, <2>1 DEF RunsCounted, AttemptBudget, TypeOK, WorkerTypeOK
    <3> QED
      BY <1>1, <3>1
  <2>2. CASE c \notin Copies
    <3>1. runs'[c] <= 0 /\ runs'[c] \in Nat
      BY <1>1, <2>2 DEF RunsCounted
    <3> QED
      BY <1>1, <3>1
  <2> QED
    BY <2>1, <2>2
<1> QED
  BY <1>2 DEF RunsCounted, AttemptBudget

(***************************************************************************)
(* What was spent stays within what is allowed when no run begins.         *)
(***************************************************************************)
LEMMA SpentStays ==
    ASSUME TypeOK, TypeOK', UNCHANGED runs, crashes <= crashes', faults <= faults',
           NEW e \in Queued, NEW n \in Nat, Spent(e, n)
    PROVE  Spent(e, n)'
<1>1. /\ crashes \in Nat /\ crashes' \in Nat /\ faults \in Nat /\ faults' \in Nat
      /\ e \in Entry
  BY QueuedEntries, QueueAssumption, WorkerAssumption DEF TypeOK, QueueTypeOK, WorkerTypeOK
<1>2. runs[e.copy] \in Nat /\ e.attempt \in Nat
  BY <1>1 DEF Entry, TypeOK, WorkerTypeOK
<1> QED
  BY <1>1, <1>2 DEF Spent

(***************************************************************************)
(* Initially the backlog is queued, at attempt 0.                          *)
(***************************************************************************)
LEMMA InitLedger == Init => LedgerInv
<1> SUFFICES ASSUME Init PROVE LedgerInv
  OBVIOUS
<1>1. SafetyInv /\ TypeOK
  BY InitSafe, InitTyped
<1>2. PICK b \in {<<>>} \cup {<<m>> : m \in Messages} :
         /\ Len(b) <= MaxCopies
         /\ log = [c \in 1..Len(b) |-> [msg |-> b[c], at |-> NoTimestamp]]
         /\ ready = [c \in 1..Len(b) |-> [copy |-> c, attempt |-> 0]]
  BY DEF Init, QueueInit
<1>3. processing = <<>> /\ ToSet(processing) = {}
  BY DEF Init, QueueInit, ToSet
<1>4. /\ pc = [w \in Workers |-> "down"] /\ runs = [c \in 1..MaxCopies |-> 0]
      /\ crashes = 0 /\ faults = 0
  BY DEF Init, QueueInit, WorkerInit
<1>5. MaxRetries \in Nat \ {0} /\ MaxCopies \in Nat
  BY QueueAssumption, WorkerAssumption DEF MaxRetries
<1>6. DOMAIN ready = 1..Len(b) /\ \A c \in 1..Len(b) : ready[c] = [copy |-> c, attempt |-> 0]
  BY <1>2
<1>7. \A e \in Queued : e.attempt = 0 /\ e.copy \in 1..MaxCopies
  <2>1. \A e \in Queued : e.attempt = 0
    BY <1>3, <1>6 DEF Queued, ToSet
  <2> QED
    BY <1>1, <2>1, QueuedEntries DEF TypeOK, Entry
<1>8. NoTwins(ready) /\ NoTwins(processing) /\ Apart(ready, processing)
  BY <1>3, <1>6 DEF NoTwins, Apart
<1>9. HeldQueued /\ AttemptsLeft
  BY <1>4, <1>5, <1>7 DEF HeldQueued, AttemptsLeft, Holding
<1>10. RunsSpent
  BY <1>4, <1>7 DEF RunsSpent, Allowed, Spent
<1>11. RunsCounted
  <2>1. Copies \subseteq 1..MaxCopies
    BY <1>1, <1>5, LenProperties DEF TypeOK, QueueTypeOK, Copies
  <2> QED
    BY <1>4, <1>5, <2>1 DEF RunsCounted, AttemptBudget
<1> QED
  BY <1>1, <1>8, <1>9, <1>10, <1>11 DEF LedgerInv, ListsApart
----------------------------------------------------------------------------
(* The webhook.                                                            *)

(***************************************************************************)
(* A new payload is at attempt 0 and has not been run.                     *)
(***************************************************************************)
LEMMA AcceptLedger ==
    ASSUME LedgerInv, SafetyInv', NEW m \in Messages, AcceptCubeMessage(m)
    PROVE  LedgerInv'
<1>t. TypeOK /\ TypeOK' /\ QueueTypeOK /\ WorkerTypeOK
  BY DEF LedgerInv, SafetyInv, TypeOK
<1>f. faults' \in 0..MaxFaults /\ faults <= faults' /\ crashes <= crashes'
  BY <1>t, CallEffect, QueueAssumption, WorkerAssumption
     DEF AcceptCubeMessage, CallReturns, CallRaises, workerVars, QueueTypeOK, WorkerTypeOK
<1>w. UNCHANGED <<workerVars, now>>
  BY DEF AcceptCubeMessage
<1>1. CASE UNCHANGED queueVars
  <2>1. UNCHANGED <<ready, processing, log, pc, cur, runs>> /\ Queued' = Queued /\ Copies' = Copies
    BY <1>w, <1>1 DEF queueVars, workerVars, Queued, Copies
  <2>2. ListsApart' /\ HeldQueued' /\ AttemptsLeft'
    BY <2>1 DEF LedgerInv, ListsApart, NoTwins, Apart, HeldQueued, AttemptsLeft
  <2>3. RunsSpent'
    BY <1>t, <1>f, <2>1, SpentStays DEF LedgerInv, RunsSpent, Allowed, InRun
  <2>4. RunsCounted'
    BY <1>t, <1>f, <2>1, CountsStay DEF LedgerInv
  <2> QED
    BY <2>2, <2>3, <2>4 DEF LedgerInv
<1>2. CASE EnqueueUnique(m)
  <2>n. PICK n : n = [copy |-> Len(log) + 1, attempt |-> 0]
    OBVIOUS
  <2>1. /\ Len(log) \in Nat /\ Len(log') = Len(log) + 1
        /\ Queued' = Queued \cup {n} /\ processing' = processing
    BY <1>t, <1>f, <1>w, <1>2, <2>n, EnqueueEffect DEF EnqueueUnique, Enqueue
  <2>2. ListsApart'
    BY <1>t, <1>2, EnqueueApart DEF LedgerInv, SafetyInv, EntriesLogged
  <2>3. UNCHANGED <<pc, cur, runs>>
    BY <1>w DEF workerVars
  <2>4. HeldQueued'
    BY <2>1, <2>3 DEF LedgerInv, HeldQueued
  <2>5. n.attempt = 0 /\ n.copy = Len(log) + 1 /\ MaxRetries \in Nat \ {0}
    BY <2>n, WorkerAssumption DEF MaxRetries
  <2>6. Copies \subseteq Copies' /\ n.copy \notin Copies /\ n.copy \in 1..MaxCopies
    BY <1>t, <1>2, <2>1, <2>5, QueueAssumption DEF Copies, EnqueueUnique, Enqueue
  <2>7. AttemptsLeft'
    BY <2>1, <2>3, <2>5 DEF LedgerInv, AttemptsLeft
  <2>8. RunsCounted'
    BY <1>t, <1>f, <2>3, <2>6, CountsStay DEF LedgerInv
  <2>9. ASSUME NEW e \in Queued PROVE Allowed(e)'
    <3>1. Allowed(e)
      BY DEF LedgerInv, RunsSpent
    <3>2. InRun(e) => InRun(e)'
      BY <2>3 DEF InRun
    <3>3. /\ Spent(e, 0) => Spent(e, 0)'
          /\ Spent(e, 1) => Spent(e, 1)'
      BY <1>t, <1>f, <2>3, SpentStays
    <3> QED
      BY <3>1, <3>2, <3>3 DEF Allowed
  <2>10. RunsSpent'
    <3> SUFFICES ASSUME NEW e \in Queued' PROVE Allowed(e)'
      BY DEF RunsSpent
    <3>1. CASE e = n
      <4>1. runs'[e.copy] <= 0 /\ runs'[e.copy] \in Nat
        BY <2>3, <2>6, <3>1 DEF LedgerInv, RunsCounted
      <4>2. crashes' \in Nat /\ faults' \in Nat /\ e.attempt = 0
        BY <1>t, <2>5, <3>1, QueueAssumption, WorkerAssumption DEF TypeOK, QueueTypeOK, WorkerTypeOK
      <4>3. Spent(e, 0)'
        BY <4>1, <4>2 DEF Spent
      <4> QED
        BY <4>3 DEF Allowed
    <3>2. CASE e \in Queued
      BY <2>9, <3>2
    <3> QED
      BY <2>1, <3>1, <3>2
  <2> QED
    BY <2>2, <2>4, <2>7, <2>8, <2>10 DEF LedgerInv
<1> QED
  BY <1>1, <1>2 DEF AcceptCubeMessage

----------------------------------------------------------------------------
(* The worker.                                                             *)

KeepsLists ==
    /\ Queued' \subseteq Queued
    /\ ListsApart' /\ HeldQueued'
    /\ \A w \in Workers : pc'[w] = "requeue" => cur'[w].attempt + 1 < MaxRetries

BeginsNoRun == UNCHANGED <<runs, log>> /\ crashes <= crashes' /\ faults <= faults'

EndsNoRun == \A e \in Queued' : InRun(e) => InRun(e)'

\* A crash or a failed call.
Disturbed == crashes + faults + 1 <= crashes' + faults'

(***************************************************************************)
(* A step that begins no run and queues nothing new: what is allowed stays *)
(* allowed when no run ends either, or the end is paid for by a crash or a *)
(* failed call.                                                            *)
(***************************************************************************)
LEMMA NoRunLedger ==
    ASSUME LedgerInv, SafetyInv', KeepsLists, BeginsNoRun, EndsNoRun \/ Disturbed
    PROVE  LedgerInv'
<1> USE DEF KeepsLists, BeginsNoRun, EndsNoRun, Disturbed
<1>t. TypeOK /\ TypeOK' /\ QueueTypeOK /\ WorkerTypeOK
  BY DEF LedgerInv, SafetyInv, TypeOK
<1>1. AttemptsLeft'
  BY DEF LedgerInv, AttemptsLeft
<1>2. RunsCounted'
  BY <1>t, CountsStay DEF LedgerInv, Copies
<1>3. ASSUME NEW e \in Queued' PROVE Allowed(e)'
  <2>1. e \in Queued /\ Allowed(e)
    BY <1>3 DEF LedgerInv, RunsSpent
  <2>2. /\ Spent(e, 0) => Spent(e, 0)'
        /\ Spent(e, 1) => Spent(e, 1)'
    BY <1>t, <2>1, SpentStays
  <2>3. CASE InRun(e) => InRun(e)'
    BY <2>1, <2>2, <2>3 DEF Allowed
  <2>4. CASE Spent(e, 1) /\ crashes + faults + 1 <= crashes' + faults'
    <3>1. /\ crashes \in Nat /\ crashes' \in Nat /\ faults \in Nat /\ faults' \in Nat
          /\ e \in Entry
      BY <1>t, <2>1, QueuedEntries, QueueAssumption, WorkerAssumption
         DEF TypeOK, QueueTypeOK, WorkerTypeOK
    <3>2. runs[e.copy] \in Nat /\ e.attempt \in Nat
      BY <1>t, <3>1 DEF Entry, WorkerTypeOK
    <3>3. runs'[e.copy] = runs[e.copy] /\ runs[e.copy] <= e.attempt + 1 + crashes + faults
      BY <2>4 DEF Spent
    <3>4. Spent(e, 0)'
      BY <2>4, <3>1, <3>2, <3>3 DEF Spent
    <3> QED
      BY <3>4 DEF Allowed
  <2> QED
    BY <1>3, <2>1, <2>2, <2>3, <2>4 DEF Allowed
<1>4. RunsSpent'
  BY <1>3 DEF RunsSpent
<1> QED
  BY <1>1, <1>2, <1>4 DEF LedgerInv

(***************************************************************************)
(* The run begins: the attempt pays for it.                                *)
(***************************************************************************)
LEMMA RunLedger ==
    ASSUME SingleWorker, LedgerInv, SafetyInv', NEW w \in Workers, CheckStale(w), Goto(w, "process"),
           runs' = [runs EXCEPT ![cur[w].copy] = @ + 1]
    PROVE  LedgerInv'
<1>t. TypeOK /\ TypeOK' /\ QueueTypeOK /\ WorkerTypeOK /\ QueueTypeOK'
  BY DEF LedgerInv, SafetyInv, TypeOK
<1>1. PICK e : e = cur[w]
  OBVIOUS
<1>2. /\ UNCHANGED <<ready, processing, log, crashes, faults, cur>>
      /\ Queued' = Queued /\ Copies' = Copies /\ pc[w] = "stale"
  BY DEF CheckStale, queueVars, Queued, Copies
<1>3. e \in Queued /\ e \in ToSet(processing) /\ e \in Entry /\ e.copy \in Copies
  BY <1>t, <1>1, <1>2, QueuedEntries
     DEF LedgerInv, SafetyInv, HeldQueued, Holding, Queued, EntriesLogged
<1>4. /\ e.attempt \in Nat /\ e.copy \in 1..MaxCopies /\ e.attempt < MaxRetries
      /\ crashes \in Nat /\ faults \in Nat /\ MaxRetries \in Nat
  <2>1. e.attempt < MaxRetries
    BY <1>3 DEF LedgerInv, AttemptsLeft
  <2>2. crashes \in Nat /\ faults \in Nat /\ MaxRetries \in Nat
    BY <1>t, QueueAssumption, WorkerAssumption DEF MaxRetries, QueueTypeOK, WorkerTypeOK
  <2> QED
    BY <1>3, <2>1, <2>2 DEF Entry
<1>5. /\ runs[e.copy] \in Nat /\ runs'[e.copy] = runs[e.copy] + 1
      /\ \A c \in 1..MaxCopies : c # e.copy => runs'[c] = runs[c]
  BY <1>t, <1>1, <1>4 DEF WorkerTypeOK
<1>6. \A f \in Queued : Spent(f, 0)
  <2>1. \A v \in Workers : pc[v] = "stale"
    BY <1>2 DEF SingleWorker
  <2> QED
    BY <2>1 DEF LedgerInv, RunsSpent, Allowed, InRun
<1>7. runs[e.copy] <= e.attempt + 0 + crashes + faults
  BY <1>3, <1>6 DEF Spent
<1>8. ListsApart' /\ HeldQueued'
  <2>1. ListsApart'
    BY <1>2 DEF LedgerInv, ListsApart, NoTwins, Apart
  <2>2. HeldQueued'
    BY <1>2, <1>3, <1>1 DEF HeldQueued, SingleWorker
  <2> QED
    BY <2>1, <2>2
<1>9. AttemptsLeft'
  BY <1>t, <1>2 DEF LedgerInv, AttemptsLeft, Goto, WorkerTypeOK
<1>10. RunsSpent'
  <2>1. Spent(e, 1)'
    BY <1>2, <1>4, <1>5, <1>7 DEF Spent
  <2>2. pc'[w] = "process" /\ cur'[w] = e
    BY <1>t, <1>1, <1>2 DEF Goto, WorkerTypeOK
  <2>3. ASSUME NEW f \in Queued, f # e PROVE Spent(f, 0)'
    <3>1. f.copy # e.copy
      BY <1>t, <1>3, <2>3, OneAttempt DEF LedgerInv
    <3>2. f.copy \in 1..MaxCopies
      BY <1>t, <2>3, QueuedEntries DEF Entry
    <3>3. runs'[f.copy] = runs[f.copy]
      BY <1>5, <3>1, <3>2
    <3>4. Spent(f, 0)
      BY <1>6, <2>3
    <3> QED
      BY <1>2, <3>3, <3>4 DEF Spent
  <2>4. ASSUME NEW f \in Queued, f # e PROVE Allowed(f)'
    BY <2>3, <2>4 DEF Allowed
  <2>5. InRun(e)'
    BY <2>2 DEF InRun
  <2>6. Allowed(e)'
    BY <2>1, <2>5 DEF Allowed
  <2>7. ASSUME NEW f \in Queued' PROVE Allowed(f)'
    <3>1. CASE f = e
      <4>1. cur'[w] = f
        BY <2>2, <3>1
      <4>2. InRun(f)'
        BY <2>2, <4>1 DEF InRun
      <4>3. Spent(f, 1)'
        BY <1>2, <1>4, <1>5, <1>7, <3>1 DEF Spent
      <4> QED
        BY <4>2, <4>3 DEF Allowed
    <3>2. CASE f # e
      BY <1>2, <2>4, <2>7, <3>2
    <3> QED
      BY <3>1, <3>2
  <2> QED
    BY <2>7 DEF RunsSpent
<1>11. RunsCounted'
  <2>1. ASSUME NEW c \in Copies PROVE runs'[c] <= MaxRetries + crashes + faults
    <3>1. CASE c = e.copy
      BY <1>4, <1>5, <1>7, <3>1
    <3>2. CASE c # e.copy
      <4>1. c \in 1..MaxCopies
        BY <1>t, LenProperties, QueueAssumption DEF QueueTypeOK, Copies
      <4> QED
        BY <1>5, <3>2, <4>1 DEF LedgerInv, RunsCounted, AttemptBudget
    <3> QED
      BY <3>1, <3>2
  <2>2. ASSUME NEW c \in 1..MaxCopies, c \notin Copies PROVE runs'[c] = 0
    BY <1>3, <1>5, <2>2 DEF LedgerInv, RunsCounted
  <2> QED
    BY <1>2, <2>1, <2>2 DEF RunsCounted, AttemptBudget
<1> QED
  BY <1>8, <1>9, <1>10, <1>11 DEF LedgerInv

(***************************************************************************)
(* A failed attempt is over: the next one has its own run.                 *)
(***************************************************************************)
LEMMA RequeueLedger ==
    ASSUME SingleWorker, LedgerInv, SafetyInv', NEW w \in Workers, RequeueMessage(w),
           Requeue(cur[w], cur[w].attempt + 1)
    PROVE  LedgerInv'
<1>t. TypeOK /\ TypeOK' /\ QueueTypeOK /\ WorkerTypeOK /\ QueueTypeOK'
  BY DEF LedgerInv, SafetyInv, TypeOK
<1>1. PICK e : e = cur[w]
  OBVIOUS
<1>2. /\ UNCHANGED <<log, crashes, runs>> /\ Copies' = Copies /\ pc[w] = "requeue"
      /\ Release(w, "idle")
  BY DEF RequeueMessage, Requeue, queueVars, history, Copies
<1>f. faults \in Nat /\ faults' \in Nat /\ faults <= faults' /\ crashes \in Nat
  BY <1>t, QueueAssumption, WorkerAssumption
     DEF RequeueMessage, CallReturns, CallRaises, QueueTypeOK, WorkerTypeOK
<1>3. /\ e \in ToSet(processing) /\ e \in Queued /\ e \in Entry
      /\ e.attempt \in Nat /\ e.attempt + 1 < MaxRetries /\ e.copy \in 1..MaxCopies
  BY <1>t, <1>1, <1>2, QueuedEntries
     DEF LedgerInv, HeldQueued, Holding, Queued, Entry, AttemptsLeft
<1>4. PICK r : r = [e EXCEPT !.attempt = e.attempt + 1]
  OBVIOUS
<1>5. /\ ListsApart' /\ Queued' = (Queued \ {e}) \cup {r}
      /\ r.attempt = e.attempt + 1 /\ r.copy = e.copy
  BY <1>t, <1>1, <1>3, <1>4, RequeueApart DEF LedgerInv, Entry
<1>6. \A v \in Workers : pc'[v] = "idle"
  BY <1>t, <1>2 DEF SingleWorker, Release, Goto, WorkerTypeOK
<1>7. HeldQueued'
  BY <1>6 DEF HeldQueued, Holding
<1>8. AttemptsLeft'
  BY <1>3, <1>5, <1>6 DEF LedgerInv, AttemptsLeft
<1>9. ASSUME NEW f \in Queued' PROVE Allowed(f)'
  <2>1. CASE f \in Queued \ {e}
    <3>1. \A v \in Workers : cur[v] # f
      BY <1>1, <2>1 DEF SingleWorker
    <3>2. Spent(f, 0)
      BY <2>1, <3>1 DEF LedgerInv, RunsSpent, Allowed, InRun
    <3>3. Spent(f, 0)'
      BY <1>t, <1>2, <1>f, <2>1, <3>2, SpentStays
    <3> QED
      BY <3>3 DEF Allowed
  <2>2. CASE f = r
    <3>1. Spent(e, 0) \/ Spent(e, 1)
      BY <1>3 DEF LedgerInv, RunsSpent, Allowed
    <3>2. runs[e.copy] \in Nat /\ runs[e.copy] <= e.attempt + 1 + crashes + faults
      BY <1>t, <1>3, <1>f, <3>1 DEF Spent, WorkerTypeOK
    <3>3. f.copy = e.copy /\ f.attempt = e.attempt + 1
      BY <1>5, <2>2
    <3>4. runs'[f.copy] = runs[e.copy]
      BY <1>2, <3>3
    <3>5. Spent(f, 0)'
      BY <1>2, <1>3, <1>f, <3>2, <3>3, <3>4 DEF Spent
    <3> QED
      BY <3>5 DEF Allowed
  <2> QED
    BY <1>5, <1>9, <2>1, <2>2
<1>10. RunsSpent'
  BY <1>9 DEF RunsSpent
<1>11. RunsCounted'
  BY <1>t, <1>2, <1>f, CountsStay DEF LedgerInv
<1> QED
  BY <1>5, <1>7, <1>8, <1>10, <1>11 DEF LedgerInv

(***************************************************************************)
(* A step of the worker keeps the invariant.                               *)
(***************************************************************************)
LEMMA WorkerLedger ==
    ASSUME SingleWorker, LedgerInv, SafetyInv', NEW w \in Workers,
           WorkerStep(w) \/ Crash(w)
    PROVE  LedgerInv'
<1>t. TypeOK /\ TypeOK' /\ QueueTypeOK /\ WorkerTypeOK /\ QueueTypeOK'
  BY DEF LedgerInv, SafetyInv, TypeOK
<1>f. /\ faults \in Nat /\ faults' \in Nat /\ crashes \in Nat /\ crashes' \in Nat
      /\ faults' \in 0..MaxFaults
  BY <1>t, QueueAssumption, WorkerAssumption DEF QueueTypeOK, WorkerTypeOK, TypeOK
<1>w. \A v \in Workers : v = w
  BY DEF SingleWorker
\* Counts.
<1>n. ASSUME UNCHANGED <<runs, log, crashes>>, faults' = faults \/ CallReturns \/ CallRaises
      PROVE  BeginsNoRun
  BY <1>f, <1>n DEF BeginsNoRun, CallReturns, CallRaises
<1>d. ASSUME UNCHANGED crashes, CallRaises PROVE Disturbed
  BY <1>f, <1>d DEF Disturbed, CallRaises
<1>e. ASSUME pc[w] \notin {"process", "mark", "ack", "requeue"} PROVE EndsNoRun
  BY <1>w, <1>e DEF EndsNoRun, InRun
\* Lists.
<1>q. ASSUME UNCHANGED <<ready, processing>> PROVE Queued' = Queued /\ ListsApart'
  BY <1>q DEF Queued, LedgerInv, ListsApart, NoTwins, Apart
<1>l. ASSUME NEW l \in Locations, pc'[w] = l, UNCHANGED <<ready, processing, cur>>,
             l \in Holding => pc[w] \in Holding,
             l = "requeue" => cur[w].attempt + 1 < MaxRetries
      PROVE  KeepsLists
  <2>1. HeldQueued'
    BY <1>w, <1>l DEF LedgerInv, HeldQueued
  <2>2. \A v \in Workers : pc'[v] = "requeue" => cur'[v].attempt + 1 < MaxRetries
    BY <1>w, <1>l
  <2> QED
    BY <1>q, <1>l, <2>1, <2>2 DEF KeepsLists
<1>i. ASSUME pc'[w] \in {"process", "mark", "ack", "requeue"}, UNCHANGED cur PROVE EndsNoRun
  BY <1>w, <1>i DEF EndsNoRun, InRun
<1>r. ASSUME pc'[w] \in {"down", "idle", "recover"}, Queued' \subseteq Queued, ListsApart'
      PROVE  KeepsLists
  BY <1>w, <1>r DEF KeepsLists, HeldQueued, Holding
<1>1. CASE Start(w)
  <2>1. /\ UNCHANGED <<ready, processing, runs, log, crashes, faults>>
        /\ pc[w] = "down" /\ pc'[w] = "recover"
    BY <1>1, <1>t DEF Start, Goto, WorkerTypeOK, queueVars, history
  <2>2. BeginsNoRun /\ KeepsLists /\ EndsNoRun
    BY <1>n, <1>q, <1>r, <1>e, <2>1
  <2> QED
    BY <2>2, NoRunLedger
<1>2. CASE Recover(w)
  <2>1. /\ UNCHANGED <<now, runs, log, crashes>> /\ pc[w] = "recover"
        /\ CallReturns \/ CallRaises
    BY <1>2 DEF Recover, RecoverOne, queueVars
  <2>2. Queued' = Queued /\ ListsApart'
    BY <1>t, <1>f, <1>q, <1>2, <2>1, RecoverEffect, RecoverApart DEF Recover, queueVars, LedgerInv
  <2>3. pc'[w] \in {"recover", "idle", "down"}
    BY <1>2, <1>t, <2>1 DEF Recover, Goto, WorkerTypeOK
  <2>4. BeginsNoRun /\ KeepsLists /\ EndsNoRun
    BY <1>n, <1>r, <1>e, <2>1, <2>2, <2>3
  <2> QED
    BY <2>4, NoRunLedger
<1>3. CASE DequeueMessage(w)
  <2>1. /\ UNCHANGED <<now, runs, log, crashes>> /\ pc[w] = "idle"
        /\ CallReturns \/ CallRaises
    BY <1>3 DEF DequeueMessage, Dequeue, queueVars, history
  <2>2. BeginsNoRun /\ EndsNoRun
    BY <1>n, <1>e, <2>1
  <2>3. ASSUME NEW e, Dequeue(e) PROVE Queued' = Queued /\ ListsApart' /\ e \in ToSet(processing')
    BY <1>t, <1>f, <2>1, <2>3, DequeueEffect, DequeueApart DEF LedgerInv
  <2>4. Queued' = Queued /\ ListsApart'
    BY <1>q, <1>3, <2>3 DEF DequeueMessage, queueVars
  <2>5. CASE UNCHANGED pc
    <3>1. KeepsLists
      BY <1>r, <2>1, <2>4, <2>5
    <3> QED
      BY <2>2, <3>1, NoRunLedger
  <2>6. ASSUME NEW e, Dequeue(e), cur' = [cur EXCEPT ![w] = e], Goto(w, "check")
        PROVE  LedgerInv'
    <3>1. pc'[w] = "check" /\ cur'[w] = e
      BY <1>t, <2>6 DEF Goto, WorkerTypeOK
    <3>2. HeldQueued'
      BY <1>w, <2>3, <2>6, <3>1 DEF HeldQueued
    <3>3. KeepsLists
      BY <1>w, <2>4, <3>1, <3>2 DEF KeepsLists
    <3> QED
      BY <2>2, <3>3, NoRunLedger
  <2> QED
    BY <1>3, <2>5, <2>6 DEF DequeueMessage
<1>4. CASE CheckProcessed(w)
  <2>1. /\ UNCHANGED <<ready, processing, runs, log, crashes>> /\ pc[w] = "check"
        /\ CallReturns \/ CallRaises
    BY <1>4 DEF CheckProcessed, queueVars
  <2>2. BeginsNoRun /\ EndsNoRun
    BY <1>n, <1>e, <2>1
  <2>3. CASE (Goto(w, "ack") \/ Goto(w, "stale")) /\ UNCHANGED cur
    <3>1. pc'[w] \in {"ack", "stale"}
      BY <1>t, <2>3 DEF Goto, WorkerTypeOK
    <3>2. KeepsLists
      BY <1>l, <2>1, <2>3, <3>1 DEF Holding, Locations
    <3> QED
      BY <2>2, <3>2, NoRunLedger
  <2>4. CASE Release(w, "idle")
    <3>1. pc'[w] = "idle"
      BY <1>t, <2>4 DEF Release, Goto, WorkerTypeOK
    <3>2. KeepsLists
      BY <1>q, <1>r, <2>1, <3>1
    <3> QED
      BY <2>2, <3>2, NoRunLedger
  <2> QED
    BY <1>4, <2>3, <2>4 DEF CheckProcessed
<1>5. CASE CheckStale(w) /\ Goto(w, "process") /\ runs' = [runs EXCEPT ![cur[w].copy] = @ + 1]
  BY <1>5, RunLedger
\* The steps from one location that holds a payload to another.
<1>6. ASSUME UNCHANGED <<ready, processing, cur, runs, log, crashes>>,
             faults' = faults \/ CallReturns \/ CallRaises, pc[w] \in Holding,
             pc'[w] \in {"process", "mark", "ack", "requeue"},
             pc'[w] = "requeue" => cur[w].attempt + 1 < MaxRetries
      PROVE  LedgerInv'
  <2>1. BeginsNoRun /\ EndsNoRun
    BY <1>n, <1>i, <1>6
  <2>2. KeepsLists
    BY <1>l, <1>6 DEF Holding, Locations
  <2> QED
    BY <2>1, <2>2, NoRunLedger
<1>7. CASE \/ CheckStale(w) /\ Goto(w, "ack") /\ UNCHANGED runs
           \/ Deliver(w) \/ ProcessReturns(w) \/ ProcessRaises(w) \/ MarkBestEffort(w)
  <2>1. /\ UNCHANGED <<ready, processing, cur, runs, log, crashes>>
        /\ faults' = faults \/ CallReturns \/ CallRaises
    BY <1>7 DEF CheckStale, Deliver, ProcessReturns, TakeAsAnswered, ProcessRaises,
                MarkBestEffort, MarkProcessed, queueVars
  <2>2. /\ pc[w] \in {"stale", "process", "mark"}
        /\ \/ pc'[w] \in {"mark", "ack"}
           \/ pc'[w] = "process" /\ UNCHANGED pc
           \/ pc'[w] = "requeue" /\ cur[w].attempt + 1 < MaxRetries
    BY <1>t, <1>7 DEF CheckStale, Deliver, ProcessReturns, TakeAsAnswered, ProcessRaises,
                      MarkBestEffort, Goto, WorkerTypeOK
  <2> QED
    BY <1>6, <2>1, <2>2 DEF Holding
<1>8. CASE AckMessage(w)
  <2>1. /\ UNCHANGED <<runs, log, crashes>> /\ pc[w] = "ack" /\ pc'[w] = "idle"
        /\ CallReturns \/ CallRaises
    BY <1>8, <1>t DEF AckMessage, Acknowledge, Release, Goto, WorkerTypeOK, queueVars, history
  <2>2. BeginsNoRun
    BY <1>n, <2>1
  <2>3. CASE Acknowledge(cur[w])
    <3>1. ListsApart' /\ Queued' = Queued \ {cur[w]}
      <4>1. cur[w] \in ToSet(processing)
        BY <2>1 DEF LedgerInv, HeldQueued, Holding
      <4> QED
        BY <1>t, <2>3, <4>1, AcknowledgeApart DEF LedgerInv
    <3>2. EndsNoRun
      BY <1>w, <3>1 DEF EndsNoRun, InRun
    <3>3. KeepsLists
      BY <1>r, <2>1, <3>1
    <3> QED
      BY <2>2, <3>2, <3>3, NoRunLedger
  <2>4. CASE CallRaises /\ UNCHANGED queueVars
    <3>1. Disturbed /\ KeepsLists
      BY <1>d, <1>q, <1>r, <2>1, <2>4 DEF queueVars
    <3> QED
      BY <2>2, <3>1, NoRunLedger
  <2> QED
    BY <1>8, <2>3, <2>4 DEF AckMessage
<1>9. CASE RequeueMessage(w)
  <2>1. CASE Requeue(cur[w], cur[w].attempt + 1)
    BY <1>9, <2>1, RequeueLedger
  <2>2. CASE CallRaises /\ UNCHANGED queueVars
    <3>1. UNCHANGED <<ready, processing, runs, log, crashes>> /\ pc'[w] = "idle"
      BY <1>9, <1>t, <2>2 DEF RequeueMessage, Release, Goto, WorkerTypeOK, queueVars, history
    <3>2. BeginsNoRun /\ Disturbed /\ KeepsLists
      BY <1>n, <1>d, <1>q, <1>r, <2>2, <3>1
    <3> QED
      BY <3>2, NoRunLedger
  <2> QED
    BY <1>9, <2>1, <2>2 DEF RequeueMessage
<1>10. CASE Crash(w)
  <2>1. /\ UNCHANGED <<ready, processing, runs, log, faults>> /\ pc'[w] = "down"
        /\ crashes' = crashes + 1
    BY <1>10, <1>t DEF Crash, Release, Goto, WorkerTypeOK, queueVars, history
  <2>2. KeepsLists
    BY <1>q, <1>r, <2>1
  <2>3. BeginsNoRun /\ Disturbed
    BY <1>f, <2>1 DEF BeginsNoRun, Disturbed
  <2> QED
    BY <2>2, <2>3, NoRunLedger
<1>11. CASE CheckStale(w)
  BY <1>5, <1>7, <1>11 DEF CheckStale
<1> QED
  BY <1>1, <1>2, <1>3, <1>4, <1>7, <1>8, <1>9, <1>10, <1>11 DEF WorkerStep

(***************************************************************************)
(* Every step keeps the invariant.                                         *)
(***************************************************************************)
LEMMA NextLedger == SingleWorker /\ LedgerInv /\ [Next]_vars => LedgerInv'
<1> SUFFICES ASSUME SingleWorker, LedgerInv, [Next]_vars PROVE LedgerInv'
  OBVIOUS
<1>1. SafetyInv'
  BY NextSafe DEF LedgerInv
<1>2. ASSUME NEW m \in Messages, AcceptCubeMessage(m) PROVE LedgerInv'
  BY <1>1, <1>2, AcceptLedger
<1>3. ASSUME NEW w \in Workers, WorkerStep(w) \/ Crash(w) PROVE LedgerInv'
  BY <1>1, <1>3, WorkerLedger
<1>4. CASE (Tick /\ UNCHANGED <<workerVars, told>>) \/ UNCHANGED vars
  <2>1. UNCHANGED <<ready, processing, pc, cur, runs, log, crashes, faults>>
    BY <1>4 DEF Tick, vars, queueVars, workerVars
  <2>2. Queued' = Queued /\ ListsApart' /\ HeldQueued'
    BY <2>1 DEF Queued, LedgerInv, ListsApart, NoTwins, Apart, HeldQueued
  <2>3. KeepsLists
    BY <2>1, <2>2 DEF KeepsLists, LedgerInv, AttemptsLeft
  <2>4. EndsNoRun
    BY <2>1 DEF EndsNoRun, InRun
  <2>5. BeginsNoRun
    BY <2>1, QueueAssumption, WorkerAssumption
       DEF BeginsNoRun, LedgerInv, SafetyInv, TypeOK, QueueTypeOK, WorkerTypeOK
  <2> QED
    BY <1>1, <2>3, <2>4, <2>5, NoRunLedger
<1> QED
  BY <1>2, <1>3, <1>4 DEF Next

(***************************************************************************)
(* The strengthened invariant of a single worker.                          *)
(***************************************************************************)
THEOREM LedgerInvariant ==
    ASSUME SingleWorker
    PROVE  Spec => []LedgerInv
<1>1. Init => LedgerInv
  BY InitLedger
<1>2. LedgerInv /\ [Next]_vars => LedgerInv'
  BY NextLedger
<1> QED
  BY <1>1, <1>2, PTL DEF Spec

(***************************************************************************)
(* A single worker holds each payload once, with one attempt counter,      *)
(* whatever crashes, recoveries and failing Redis calls do to the lists.   *)
(***************************************************************************)
THEOREM EachQueuedOnce ==
    ASSUME SingleWorker
    PROVE  Spec => []QueuedOnce
<1>1. LedgerInv => QueuedOnce
  BY ApartOnce DEF LedgerInv, ListsApart, SafetyInv, TypeOK
<1> QED
  BY <1>1, LedgerInvariant, PTL

(***************************************************************************)
(* A single worker runs a payload at most CUBE_QUEUE_MAX_RETRIES times,    *)
(* plus once for each crash and each failed Redis call.                    *)
(***************************************************************************)
THEOREM BudgetKept ==
    ASSUME SingleWorker
    PROVE  Spec => []AttemptBudget
<1>1. LedgerInv => AttemptBudget
  BY DEF LedgerInv, RunsCounted
<1> QED
  BY <1>1, LedgerInvariant, PTL

----------------------------------------------------------------------------
(* Implementation of the ledger.                                           *)

LedgerStep == [Ledger!Next]_(Ledger!ledgerVars)

(***************************************************************************)
(* The backlog is the ledger's initial stock.                              *)
(***************************************************************************)
LEMMA InitImplements == Init => Ledger!Init
<1> SUFFICES ASSUME Init PROVE Ledger!Init
  OBVIOUS
<1>1. PICK b \in {<<>>} \cup {<<m>> : m \in Messages} :
         /\ Len(b) <= MaxCopies
         /\ log = [c \in 1..Len(b) |-> [msg |-> b[c], at |-> NoTimestamp]]
         /\ ready = [c \in 1..Len(b) |-> [copy |-> c, attempt |-> 0]]
  BY DEF Init, QueueInit
<1>2. /\ processing = <<>> /\ ToSet(processing) = {}
      /\ answers = [c \in 1..MaxCopies |-> 0] /\ outcome = [c \in 1..MaxCopies |-> {}]
  BY DEF Init, QueueInit, WorkerInit, ToSet
<1>3. Len(b) \in Nat
  BY LenProperties, EmptySeq
<1>4. Len(log) = Len(b)
  BY <1>1, <1>3
<1>5. ToSet(ready) = [copy : 1..Len(b), attempt : {0}]
  <2>1. ToSet(ready) = {[copy |-> c, attempt |-> 0] : c \in 1..Len(b)}
    BY <1>1, <1>3 DEF ToSet
  <2>2. ASSUME NEW c \in 1..Len(b)
        PROVE  [copy |-> c, attempt |-> 0] \in [copy : 1..Len(b), attempt : {0}]
    OBVIOUS
  <2>3. ASSUME NEW e \in [copy : 1..Len(b), attempt : {0}]
        PROVE  e.copy \in 1..Len(b) /\ e = [copy |-> e.copy, attempt |-> 0]
    OBVIOUS
  <2> QED
    BY <2>1, <2>2, <2>3
<1> QED
  BY <1>2, <1>3, <1>4, <1>5 DEF Ledger!Init

(***************************************************************************)
(* What the ledger does not see.                                           *)
(***************************************************************************)
LEMMA Unseen ==
    ASSUME UNCHANGED <<log, answers, outcome>>, Queued' = Queued
    PROVE  LedgerStep
BY DEF LedgerStep, Ledger!ledgerVars, Queued

(***************************************************************************)
(* A conclusion is a verdict.                                              *)
(***************************************************************************)
LEMMA ConcludeImplements ==
    ASSUME NEW e \in Queued, NEW how \in {"skipped", "expired", "failed", "answered"},
           how = "answered" => answers[e.copy] > 0,
           how = "failed" => e.attempt + 1 = MaxRetries,
           Conclude(e.copy, how), UNCHANGED <<log, answers>>, Queued' = Queued
    PROVE  LedgerStep
<1>1. Ledger!Judge(e, how)
  BY DEF Ledger!Judge, Conclude, Queued
<1> QED
  BY <1>1 DEF LedgerStep, Ledger!Next, Ledger!Verdicts, Queued

(***************************************************************************)
(* A step of the webhook adds an item, or the ledger does not see it.      *)
(***************************************************************************)
LEMMA AcceptImplements ==
    ASSUME SafetyInv, SafetyInv', NEW m \in Messages, AcceptCubeMessage(m)
    PROVE  LedgerStep
<1>t. QueueTypeOK /\ faults' \in 0..MaxFaults
  BY DEF SafetyInv, TypeOK, QueueTypeOK
<1>1. UNCHANGED <<answers, outcome, now>>
  BY DEF AcceptCubeMessage, workerVars
<1>2. CASE UNCHANGED queueVars
  BY <1>1, <1>2, Unseen DEF queueVars, Queued
<1>3. CASE EnqueueUnique(m)
  <2>1. /\ Len(log') = Len(log) + 1
        /\ Queued' = Queued \cup {[copy |-> Len(log) + 1, attempt |-> 0]}
    BY <1>t, <1>1, <1>3, EnqueueEffect
  <2>2. Ledger!Accept
    BY <1>1, <2>1 DEF Ledger!Accept, Queued
  <2> QED
    BY <2>2 DEF LedgerStep, Ledger!Next
<1> QED
  BY <1>2, <1>3 DEF AcceptCubeMessage

(***************************************************************************)
(* A step of the worker is one of the ledger, or the ledger does not see   *)
(* it: the verdicts come before the item is closed, an answer before the   *)
(* verdict, and the next attempt takes the place of the last.              *)
(***************************************************************************)
LEMMA WorkerImplements ==
    ASSUME LedgerInv, SafetyInv', NEW w \in Workers, WorkerStep(w) \/ Crash(w)
    PROVE  LedgerStep
<1>t. /\ QueueTypeOK /\ WorkerTypeOK /\ faults' \in 0..MaxFaults
  BY DEF LedgerInv, SafetyInv, TypeOK, QueueTypeOK
<1>q. ASSUME UNCHANGED <<ready, processing>> PROVE Queued' = Queued
  BY <1>q DEF Queued
<1>e. PICK e : e = cur[w]
  OBVIOUS
<1>h. pc[w] \in Holding => /\ e \in ToSet(processing) /\ e \in Queued /\ e \in Entry
                           /\ e.copy \in 1..MaxCopies /\ e.attempt \in Nat /\ e.attempt < MaxRetries
  BY <1>t, <1>e, QueuedEntries DEF LedgerInv, HeldQueued, AttemptsLeft, Queued, Entry
<1>1. CASE Start(w) \/ Crash(w)
  <2>1. UNCHANGED <<ready, processing, log, answers, outcome>>
    BY <1>1 DEF Start, Crash, queueVars, history
  <2> QED
    BY <1>q, <2>1, Unseen
<1>2. CASE Recover(w)
  <2>1. UNCHANGED <<now, log, answers, outcome>>
    BY <1>2 DEF Recover, RecoverOne, queueVars
  <2>2. Queued' = Queued
    BY <1>t, <1>q, <1>2, <2>1, RecoverEffect DEF Recover, queueVars
  <2> QED
    BY <2>1, <2>2, Unseen
<1>3. CASE DequeueMessage(w)
  <2>1. UNCHANGED <<now, log, answers, outcome>>
    BY <1>3 DEF DequeueMessage, Dequeue, queueVars, history
  <2>2. \A x : Dequeue(x) => Queued' = Queued
    BY <1>t, <2>1, DequeueEffect
  <2>3. Queued' = Queued
    BY <1>q, <1>3, <2>2 DEF DequeueMessage, queueVars
  <2> QED
    BY <2>1, <2>3, Unseen
<1>4. CASE CheckProcessed(w)
  <2>1. UNCHANGED <<ready, processing, log, answers>> /\ Queued' = Queued /\ pc[w] = "check"
    BY <1>4 DEF CheckProcessed, queueVars, Queued
  <2>2. CASE Conclude(e.copy, "skipped")
    BY <1>h, <2>1, <2>2, ConcludeImplements DEF Holding
  <2>3. CASE UNCHANGED outcome
    BY <2>1, <2>3, Unseen
  <2> QED
    BY <1>4, <1>e, <2>2, <2>3 DEF CheckProcessed
<1>5. CASE CheckStale(w)
  <2>1. UNCHANGED <<ready, processing, log, answers>> /\ Queued' = Queued /\ pc[w] = "stale"
    BY <1>5 DEF CheckStale, queueVars, Queued
  <2>2. CASE Conclude(e.copy, "expired")
    BY <1>h, <2>1, <2>2, ConcludeImplements DEF Holding
  <2>3. CASE UNCHANGED outcome
    BY <2>1, <2>3, Unseen
  <2> QED
    BY <1>5, <1>e, <2>2, <2>3 DEF CheckStale
<1>6. CASE Deliver(w)
  <2>1. /\ UNCHANGED <<log, outcome>> /\ Queued' = Queued /\ pc[w] = "process"
        /\ answers' = [answers EXCEPT ![e.copy] = @ + 1]
    BY <1>6, <1>e DEF Deliver, queueVars, Queued
  <2>2. e \in Queued /\ Ledger!Answer(e)
    BY <1>h, <2>1 DEF Ledger!Answer, Queued, Holding
  <2> QED
    BY <2>2 DEF LedgerStep, Ledger!Next, Queued
<1>7. CASE ProcessReturns(w)
  <2>1. /\ UNCHANGED <<log, answers>> /\ Queued' = Queued /\ pc[w] = "process"
        /\ Conclude(e.copy, "answered") /\ delivered[w]
    BY <1>7, <1>e DEF ProcessReturns, TakeAsAnswered, queueVars, Queued
  <2>2. answers[e.copy] > 0
    BY <1>e, <2>1 DEF LedgerInv, SafetyInv, AnsweredBeforeMark
  <2> QED
    BY <1>h, <2>1, <2>2, ConcludeImplements DEF Holding
<1>8. CASE ProcessRaises(w)
  <2>1. UNCHANGED <<log, answers>> /\ Queued' = Queued /\ pc[w] = "process"
    BY <1>8 DEF ProcessRaises, queueVars, Queued
  <2>2. CASE ~(e.attempt + 1 < MaxRetries) /\ Conclude(e.copy, "failed")
    <3>1. e \in Queued /\ e.attempt + 1 = MaxRetries
      BY <1>h, <2>1, <2>2, WorkerAssumption DEF Holding, MaxRetries
    <3> QED
      BY <2>1, <2>2, <3>1, ConcludeImplements
  <2>3. CASE UNCHANGED outcome
    BY <2>1, <2>3, Unseen
  <2> QED
    BY <1>8, <1>e, <2>2, <2>3 DEF ProcessRaises
<1>9. CASE MarkBestEffort(w)
  <2>1. UNCHANGED <<ready, processing, log, answers, outcome>>
    BY <1>9 DEF MarkBestEffort, MarkProcessed, queueVars
  <2> QED
    BY <1>q, <2>1, Unseen
<1>10. CASE AckMessage(w)
  <2>1. UNCHANGED <<log, answers, outcome>> /\ pc[w] = "ack"
    BY <1>10 DEF AckMessage, Acknowledge, queueVars, history
  <2>2. CASE UNCHANGED queueVars
    BY <1>q, <2>1, <2>2, Unseen DEF queueVars
  <2>3. CASE Acknowledge(e)
    <3>1. Queued' = Queued \ {e} /\ e \in Queued
      BY <1>t, <1>h, <2>1, <2>3, AcknowledgeApart DEF LedgerInv, Holding
    <3>2. outcome[e.copy] # {}
      BY <1>e, <2>1 DEF LedgerInv, SafetyInv, ConcludedBeforeAck
    <3>3. Ledger!Close(e)
      BY <2>1, <3>1, <3>2 DEF Ledger!Close, Queued
    <3> QED
      BY <3>1, <3>3 DEF LedgerStep, Ledger!Next, Queued
  <2> QED
    BY <1>10, <1>e, <2>2, <2>3 DEF AckMessage
<1>11. CASE RequeueMessage(w)
  <2>1. UNCHANGED <<log, answers, outcome>> /\ pc[w] = "requeue"
    BY <1>11 DEF RequeueMessage, Requeue, queueVars, history
  <2>2. CASE UNCHANGED queueVars
    BY <1>q, <2>1, <2>2, Unseen DEF queueVars
  <2>3. CASE Requeue(e, e.attempt + 1)
    <3>1. /\ e \in ToSet(processing) /\ e \in Queued /\ e \in Entry
          /\ e.attempt + 1 \in Nat /\ e.attempt + 1 < MaxRetries
      BY <1>h, <1>e, <2>1 DEF Holding, LedgerInv, AttemptsLeft
    <3>2. Queued' = (Queued \ {e}) \cup {[e EXCEPT !.attempt = e.attempt + 1]}
      BY <1>t, <2>3, <3>1, RequeueApart DEF LedgerInv
    <3>3. Ledger!Retry(e)
      BY <2>1, <3>1, <3>2 DEF Ledger!Retry, Queued
    <3> QED
      BY <3>1, <3>3 DEF LedgerStep, Ledger!Next, Queued
  <2> QED
    BY <1>11, <1>e, <2>2, <2>3 DEF RequeueMessage
<1> QED
  BY <1>1, <1>2, <1>3, <1>4, <1>5, <1>6, <1>7, <1>8, <1>9, <1>10, <1>11 DEF WorkerStep

(***************************************************************************)
(* With a single worker the queue and the worker implement the ledger, for *)
(* every set of messages, every setting, and any crashes, recoveries and   *)
(* failing Redis calls.                                                    *)
(***************************************************************************)
THEOREM ImplementationOfLedger ==
    ASSUME SingleWorker
    PROVE  Spec => ImplementsLedger
<1>1. Init => Ledger!Init
  BY InitImplements
<1>2. LedgerInv /\ LedgerInv' /\ [Next]_vars => [Ledger!Next]_(Ledger!ledgerVars)
  <2> SUFFICES ASSUME LedgerInv, LedgerInv', [Next]_vars PROVE LedgerStep
    BY DEF LedgerStep
  <2>1. SafetyInv /\ SafetyInv'
    BY DEF LedgerInv
  <2>2. ASSUME NEW m \in Messages, AcceptCubeMessage(m) PROVE LedgerStep
    BY <2>1, <2>2, AcceptImplements
  <2>3. ASSUME NEW w \in Workers, WorkerStep(w) \/ Crash(w) PROVE LedgerStep
    BY <2>1, <2>3, WorkerImplements
  <2>4. CASE (Tick /\ UNCHANGED <<workerVars, told>>) \/ UNCHANGED vars
    BY <2>4, Unseen DEF Tick, vars, workerVars, queueVars, Queued
  <2> QED
    BY <2>2, <2>3, <2>4 DEF Next
<1> QED
  BY <1>1, <1>2, LedgerInvariant, PTL DEF Spec, ImplementsLedger, Ledger!Spec

----------------------------------------------------------------------------
(* What is marked is not run again.                                        *)

\* The marker of a marked payload lives until the payload is too old.
MarkInv ==
    /\ SafetyInv
    /\ DedupInv
    /\ \A c \in marked :
          /\ c \in Copies /\ log[c].msg \notin Anonymous
          /\ IsStale(c) \/ done[log[c].msg] > log[c].at + MessageTTL
    /\ \A w \in Workers :
          pc[w] = "stale" /\ cur[w].copy \in marked => IsStale(cur[w].copy)

MarkerOutlives == 0 < MessageTTL /\ MessageTTL < ProcessedTTL

(***************************************************************************)
(* Every step keeps it: the clock drops a marker only when the payload is  *)
(* too old, and a worker that found no marker has one of these in hand.    *)
(***************************************************************************)
LEMMA NextMarked == SingleWorker /\ MarkerOutlives /\ MarkInv /\ [Next]_vars => MarkInv'
<1> SUFFICES ASSUME SingleWorker, MarkerOutlives, MarkInv, [Next]_vars PROVE MarkInv'
  OBVIOUS
<1>s. SafetyInv' /\ DedupInv'
  BY NextSafe, NextDeduplicated DEF MarkInv
<1>t. /\ QueueTypeOK /\ WorkerTypeOK /\ now \in Nat
      /\ MessageTTL \in Int /\ ProcessedTTL \in Int
  BY QueueAssumption, WorkerAssumption DEF MarkInv, SafetyInv, TypeOK, QueueTypeOK
<1>l. \A c \in Copies : log[c].msg \in Messages /\ log[c].at \in Int /\ log[c].at <= now
  BY <1>t, LogFields DEF MarkInv, DedupInv
<1>d. \A c \in Copies : done[log[c].msg] \in Nat
  BY <1>t, <1>l DEF QueueTypeOK
\* A step that leaves the log, the clock, the markers and what is marked.
<1>a. ASSUME UNCHANGED <<log, now, done, marked>>,
             \A w \in Workers : pc'[w] = "stale" => (pc[w] = "stale" /\ cur'[w] = cur[w])
      PROVE  MarkInv'
  <2>1. \A c : IsStale(c)' <=> IsStale(c)
    BY <1>a DEF IsStale
  <2> QED
    BY <1>s, <1>a, <2>1 DEF MarkInv, Copies
<1>1. ASSUME NEW m \in Messages, AcceptCubeMessage(m) PROVE MarkInv'
  <2>1. UNCHANGED <<pc, cur, marked, now, done>>
    BY <1>1 DEF AcceptCubeMessage, workerVars, EnqueueUnique, Enqueue, queueVars
  <2>2. CASE UNCHANGED queueVars
    BY <1>a, <2>1, <2>2 DEF queueVars
  <2>3. CASE EnqueueUnique(m)
    <3>1. faults' \in 0..MaxFaults
      BY <1>s DEF SafetyInv, TypeOK, QueueTypeOK
    <3>2. /\ Len(log) \in Nat /\ Len(log') = Len(log) + 1
          /\ \A c \in Copies : log'[c] = log[c]
      BY <1>t, <2>1, <2>3, <3>1, EnqueueEffect
    <3>3. /\ Copies \subseteq Copies'
          /\ \A c \in Copies : IsStale(c)' <=> IsStale(c)
      BY <2>1, <3>2 DEF Copies, IsStale
    <3>4. \A w \in Workers : pc[w] = "stale" => cur[w].copy \in Copies
      BY DEF MarkInv, SafetyInv, EntriesLogged, Holding
    <3> QED
      BY <1>s, <2>1, <3>2, <3>3, <3>4 DEF MarkInv
  <2> QED
    BY <1>1, <2>2, <2>3 DEF AcceptCubeMessage
<1>2. ASSUME NEW w \in Workers, CheckProcessed(w) PROVE MarkInv'
  <2>1. UNCHANGED <<log, now, done, marked>> /\ pc[w] = "check"
    BY <1>2 DEF CheckProcessed, queueVars
  <2>2. CASE ~IsProcessed(MessageOf(cur[w])) /\ Goto(w, "stale") /\ UNCHANGED cur
    <3>1. \A c : IsStale(c)' <=> IsStale(c)
      BY <2>1 DEF IsStale
    <3>2. cur[w].copy \in marked => IsStale(cur[w].copy)
      <4> SUFFICES ASSUME cur[w].copy \in marked, ~IsStale(cur[w].copy) PROVE FALSE
        OBVIOUS
      <4>0. PICK c : c = cur[w].copy
        OBVIOUS
      <4>1. c \in Copies /\ log[c].msg \notin Anonymous /\ done[log[c].msg] > log[c].at + MessageTTL
        BY <4>0 DEF MarkInv
      <4>2. done[log[c].msg] = 0
        BY <2>2, <4>0, <4>1 DEF IsProcessed, MessageOf, NoKey
      <4>3. log[c].at \in Nat
        BY <1>t, <4>0, <4>1, LogFields DEF IsStale, MarkerOutlives
      <4> QED
        BY <1>t, <4>1, <4>2, <4>3 DEF MarkerOutlives
    <3>3. \A v \in Workers : pc'[v] = "stale" => (pc[v] = "stale" \/ v = w) /\ cur'[v] = cur[v]
      BY <1>t, <2>2 DEF Goto, WorkerTypeOK
    <3> QED
      BY <1>s, <2>1, <3>1, <3>2, <3>3 DEF MarkInv, Copies
  <2>3. CASE Goto(w, "ack") /\ UNCHANGED cur
    BY <1>a, <1>t, <2>1, <2>3 DEF Goto, WorkerTypeOK
  <2>4. CASE Release(w, "idle")
    BY <1>a, <1>t, <2>1, <2>4 DEF Release, Goto, WorkerTypeOK
  <2> QED
    BY <1>2, <2>2, <2>3, <2>4 DEF CheckProcessed
<1>3. ASSUME NEW w \in Workers, MarkBestEffort(w) PROVE MarkInv'
  <2>0. PICK x : x = cur[w].copy
    OBVIOUS
  <2>1. /\ UNCHANGED <<log, now, cur>> /\ pc[w] = "mark" /\ Goto(w, "ack")
        /\ \/ UNCHANGED <<done, marked>>
           \/ /\ MarkProcessed(log[x].msg)
              /\ marked' = marked \/ (marked' = marked \cup {x} /\ log[x].msg \notin Anonymous)
    BY <1>3, <2>0 DEF MarkBestEffort, MarkProcessed, MessageOf, queueVars
  <2>2. x \in Copies
    BY <2>0, <2>1 DEF MarkInv, SafetyInv, EntriesLogged, Holding
  <2>3. \A v \in Workers : pc'[v] = "ack"
    BY <1>t, <2>1 DEF SingleWorker, Goto, WorkerTypeOK
  <2>4. CASE UNCHANGED <<done, marked>>
    BY <1>a, <2>1, <2>3, <2>4
  <2>5. CASE /\ MarkProcessed(log[x].msg)
             /\ marked' = marked \/ (marked' = marked \cup {x} /\ log[x].msg \notin Anonymous)
    <3>1. \A c \in marked' : c \in Copies /\ log[c].msg \notin Anonymous
      BY <2>2, <2>5 DEF MarkInv
    <3>2. ASSUME NEW c \in marked'
          PROVE  IsStale(c) \/ done'[log[c].msg] > log[c].at + MessageTTL
      <4>1. c \in Copies /\ log[c].msg \notin Anonymous /\ log[c].msg \in Messages
        BY <1>l, <3>1
      <4>2. CASE log[c].msg = log[x].msg
        <5>1. done'[log[c].msg] = now + MarkerTTL
          BY <1>t, <2>5, <4>1, <4>2 DEF MarkProcessed, QueueTypeOK
        <5>2. MarkerTTL = ProcessedTTL
          BY <1>t DEF MarkerTTL, MarkerOutlives
        <5> QED
          BY <1>t, <1>l, <4>1, <5>1, <5>2 DEF MarkerOutlives
      <4>3. CASE log[c].msg # log[x].msg
        <5>1. done'[log[c].msg] = done[log[c].msg]
          BY <1>t, <2>5, <4>1, <4>3 DEF MarkProcessed, QueueTypeOK
        <5>2. c \in marked
          BY <2>5, <4>3
        <5> QED
          BY <5>1, <5>2 DEF MarkInv
      <4> QED
        BY <4>2, <4>3
    <3>3. \A c : IsStale(c)' <=> IsStale(c)
      BY <2>1 DEF IsStale
    <3> QED
      BY <1>s, <2>1, <2>3, <3>1, <3>2, <3>3 DEF MarkInv, Copies
  <2> QED
    BY <2>1, <2>4, <2>5
<1>4. ASSUME NEW w \in Workers,
             \/ Start(w) \/ Recover(w) \/ DequeueMessage(w) \/ CheckStale(w) \/ Deliver(w)
             \/ ProcessReturns(w) \/ ProcessRaises(w) \/ AckMessage(w) \/ RequeueMessage(w)
             \/ Crash(w)
      PROVE  MarkInv'
  <2>1. UNCHANGED <<log, now, done, marked>>
    BY <1>4 DEF Start, Recover, RecoverOne, DequeueMessage, Dequeue, CheckStale, Deliver,
                ProcessReturns, TakeAsAnswered, ProcessRaises, AckMessage, Acknowledge,
                RequeueMessage, Requeue, Crash, queueVars, history
  <2>2. \A v \in Workers : pc'[v] = "stale" => (pc[v] = "stale" /\ cur'[v] = cur[v])
    BY <1>t, <1>4
       DEF Start, Recover, DequeueMessage, CheckStale, Deliver, ProcessReturns,
           TakeAsAnswered, ProcessRaises, AckMessage, RequeueMessage, Crash, Release, Goto,
           WorkerTypeOK
  <2> QED
    BY <1>a, <2>1, <2>2
<1>5. CASE Tick /\ UNCHANGED <<workerVars, told>>
  <2>1. /\ UNCHANGED <<log, pc, cur, marked>> /\ now' = now + 1 /\ Copies' = Copies
        /\ \A m \in Messages : done'[m] = done[m] \/ (done'[m] = NoKey /\ done[m] <= now')
    BY <1>t, <1>5 DEF Tick, Expire, workerVars, Copies, QueueTypeOK
  <2>2. ASSUME NEW c \in Copies, IsStale(c) PROVE IsStale(c)'
    BY <1>t, <1>l, <2>1, <2>2 DEF IsStale
  <2>3. ASSUME NEW c \in marked
        PROVE  IsStale(c)' \/ done'[log[c].msg] > log[c].at + MessageTTL
    <3>1. c \in Copies /\ log[c].msg \in Messages /\ log[c].at \in Int
      BY <1>l DEF MarkInv
    <3>2. CASE IsStale(c)
      BY <2>2, <3>1, <3>2
    <3>3. CASE ~IsStale(c)
      <4>1. done[log[c].msg] > log[c].at + MessageTTL /\ done[log[c].msg] \in Nat
        BY <1>d, <3>1, <3>3 DEF MarkInv
      <4>2. CASE done'[log[c].msg] = done[log[c].msg]
        BY <4>1, <4>2
      <4>3. CASE done[log[c].msg] <= now'
        <5>1. now' - log[c].at > MessageTTL
          BY <1>t, <2>1, <3>1, <4>1, <4>3
        <5>2. IsStale(c)'
          BY <2>1, <5>1 DEF IsStale, MarkerOutlives
        <5> QED
          BY <5>2
      <4> QED
        BY <2>1, <3>1, <4>2, <4>3
    <3> QED
      BY <3>2, <3>3
  <2>4. \A c \in marked' : /\ c \in Copies' /\ log'[c].msg \notin Anonymous
                           /\ IsStale(c)' \/ done'[log'[c].msg] > log'[c].at + MessageTTL
    BY <2>1, <2>3 DEF MarkInv
  <2>5. \A v \in Workers : pc[v] = "stale" /\ cur[v].copy \in marked =>
           IsStale(cur[v].copy) /\ cur[v].copy \in Copies
    BY DEF MarkInv
  <2>6. (\A v \in Workers : pc[v] = "stale" /\ cur[v].copy \in marked => IsStale(cur[v].copy))'
    BY <1>t, <1>l, <2>1, <2>5 DEF IsStale
  <2> QED
    BY <1>s, <2>4, <2>6 DEF MarkInv
<1>6. CASE UNCHANGED vars
  BY <1>a, <1>6 DEF vars, queueVars, workerVars
<1> QED
  BY <1>1, <1>2, <1>3, <1>4, <1>5, <1>6 DEF Next, WorkerStep

(***************************************************************************)
(* A single worker never runs a payload again whose marker it has written, *)
(* if the marker outlives the age at which payloads are discarded.         *)
(***************************************************************************)
THEOREM MarkersHold ==
    ASSUME SingleWorker, 0 < MessageTTL, MessageTTL < ProcessedTTL
    PROVE  Spec => MarkedNeverRerun
<1> DEFINE Unmarked == \A c \in 1..MaxCopies : runs'[c] # runs[c] => c \notin marked
<1>1. MarkInv /\ [Next]_vars => [Unmarked]_vars
  <2> SUFFICES ASSUME MarkInv, [Next]_vars, NEW c \in 1..MaxCopies, runs'[c] # runs[c]
               PROVE  c \notin marked
    BY DEF vars
  <2>1. PICK w \in Workers : CheckStale(w) /\ runs' = [runs EXCEPT ![cur[w].copy] = @ + 1]
                             /\ ~IsStale(cur[w].copy)
    BY DEF Next, vars, workerVars, AcceptCubeMessage, Tick, WorkerStep, Start, Recover,
           DequeueMessage, CheckProcessed, CheckStale, Deliver, ProcessReturns,
           TakeAsAnswered, ProcessRaises, MarkBestEffort, AckMessage, RequeueMessage,
           Crash, history
  <2>2. c = cur[w].copy /\ pc[w] = "stale"
    BY <2>1 DEF CheckStale, MarkInv, SafetyInv, TypeOK, WorkerTypeOK
  <2> QED
    BY <2>1, <2>2 DEF MarkInv
<1>2. Init => MarkInv
  BY InitSafe, InitDeduplicated DEF Init, WorkerInit, MarkInv
<1>3. MarkInv /\ [Next]_vars => MarkInv'
  BY NextMarked DEF MarkerOutlives
<1> QED
  BY <1>1, <1>2, <1>3, PTL DEF Spec, MarkedNeverRerun
============================================================================
