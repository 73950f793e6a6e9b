----------------------------- MODULE CubeQueue -----------------------------
(***************************************************************************)
(* The Redis-backed Cube message queue, api/cube/queue.py.                 *)
(*                                                                         *)
(* Redis executes one command (a Lua script, a MULTI block) at a time, so  *)
(* each backend method that talks to Redis once is one atomic action here. *)
(* A method that fails raises CubeQueueError; whether Redis had already    *)
(* executed the command when the connection broke is not known to the      *)
(* caller, so the modules that use these actions offer both outcomes.      *)
(*                                                                         *)
(* The two lists are oriented as in Redis: position 1 is the left end.     *)
(* LPUSH is Cons, RPOP takes Last and leaves Front, LREM with a positive   *)
(* count removes the leftmost match (RemoveFirst).                         *)
(***************************************************************************)
EXTENDS Integers, SequencesExt

CONSTANTS
    Messages,       \* webhook messages, one per (user_id, message_id) key
    Anonymous,      \* the messages whose message_id is empty: no dedup, no marker
    DedupTTL,       \* CUBE_MESSAGE_DEDUP_TTL_SECONDS
    ProcessedTTL,   \* CUBE_MESSAGE_PROCESSED_TTL_SECONDS, before the lower bound of 1
    MaxTime,        \* bound: the clock stops here
    MaxCopies,      \* bound: how many payloads are ever enqueued
    MaxFaults       \* bound: how many Redis calls fail

ASSUME QueueAssumption ==
    /\ Anonymous \subseteq Messages
    /\ DedupTTL \in Nat \ {0}
    /\ ProcessedTTL \in Int
    /\ MaxTime \in Nat /\ MaxCopies \in Nat /\ MaxFaults \in Nat

VARIABLES
    ready,        \* the list CUBE_QUEUE_NAME
    processing,   \* the list CUBE_QUEUE_PROCESSING_NAME
    dedup,        \* expiry time of each message's dedup key, NoKey when absent
    done,         \* expiry time of each message's processed marker, or NoKey
    now,          \* wall clock and Redis clock, in abstract seconds
    log,          \* every payload ever enqueued: its message and enqueued_at
    faults        \* Redis calls that have failed so far

queueVars == <<ready, processing, dedup, done, log>>

----------------------------------------------------------------------------
NoKey == 0

\* enqueued_at of a payload written before the field existed (None).
NoTimestamp == -1

\* A serialised payload. The incoming message and enqueued_at never change
\* between attempts, so an entry refers to them by the number of its copy.
Entry == [copy : 1..MaxCopies, attempt : Nat]

Payload == [msg : Messages, at : Nat \cup {NoTimestamp}]

Copies == 1..Len(log)

MessageOf(e) == log[e.copy].msg

\* The backlog found at start-up: payloads an older release left in the
\* ready list, without timestamp and without dedup key.
QueueInit ==
    /\ \E backlog \in {<<>>} \cup {<<m>> : m \in Messages} :
          /\ Len(backlog) <= MaxCopies
          /\ log = [c \in 1..Len(backlog) |-> [msg |-> backlog[c], at |-> NoTimestamp]]
          /\ ready = [c \in 1..Len(backlog) |-> [copy |-> c, attempt |-> 0]]
    /\ processing = <<>>
    /\ dedup = [m \in Messages |-> NoKey]
    /\ done = [m \in Messages |-> NoKey]
    /\ now = 0
    /\ faults = 0

----------------------------------------------------------------------------
\* The outcome of a Redis call: it returns, or it raises CubeQueueError.
CallReturns == UNCHANGED faults

CallRaises ==
    /\ faults < MaxFaults
    /\ faults' = faults + 1

\* Faulty: ask the processed marker instead of the dedup key.
IsDuplicateByMarker(m) == m \notin Anonymous /\ done[m] # NoKey

\* SET NX on the dedup key would not reserve it.
IsDuplicate(m) == m \notin Anonymous /\ dedup[m] # NoKey

\* What the enqueue script writes, push being the new ready list.
Enqueue(m, ttl, push) ==
    /\ Len(log) < MaxCopies
    /\ ~IsDuplicate(m)
    /\ dedup' = IF m \in Anonymous THEN dedup
                ELSE [dedup EXCEPT ![m] = now + ttl]
    /\ log' = Append(log, [msg |-> m, at |-> now])
    /\ ready' = push
    /\ UNCHANGED <<processing, done>>

NewEntry == [copy |-> Len(log) + 1, attempt |-> 0]

\* Faulty: two Redis calls instead of one script, the second may not come.
EnqueueInTwoCalls(m) ==
    \/ Enqueue(m, DedupTTL, Cons(NewEntry, ready))
    \/ /\ ~IsDuplicate(m)
       /\ dedup' = IF m \in Anonymous THEN dedup
                   ELSE [dedup EXCEPT ![m] = now + DedupTTL]
       /\ UNCHANGED <<ready, processing, done, log>>

\* Faulty: RPUSH, the end the worker pops.
EnqueueAtHead(m) == Enqueue(m, DedupTTL, Append(ready, NewEntry))

\* The enqueue script: reserve the key and push the payload in one script.
EnqueueUnique(m) == Enqueue(m, DedupTTL, Cons(NewEntry, ready))

\* (B)RPOPLPUSH ready -> processing; e is the payload that moves.
Dequeue(e) ==
    /\ ready # <<>>
    /\ e = Last(ready)
    /\ ready' = Front(ready)
    /\ processing' = Cons(e, processing)
    /\ UNCHANGED <<dedup, done, log>>

\* LREM processing 1 raw.
Acknowledge(e) ==
    /\ processing' = RemoveFirst(processing, e)
    /\ UNCHANGED <<ready, dedup, done, log>>

\* Faulty: the old payload is not removed.
RequeueWithoutRemoval(e, nextAttempt) ==
    /\ ready' = Cons([e EXCEPT !.attempt = nextAttempt], ready)
    /\ UNCHANGED <<processing, dedup, done, log>>

\* Faulty: the payload goes back as it was, its attempt not counted.
RequeueSameAttempt(e, nextAttempt) ==
    /\ processing' = RemoveFirst(processing, e)
    /\ ready' = Cons(e, ready)
    /\ UNCHANGED <<dedup, done, log>>

\* MULTI: LREM processing 1 raw; LPUSH ready replacement. The LPUSH is
\* executed whether or not the LREM found the payload.
Requeue(e, nextAttempt) ==
    /\ processing' = RemoveFirst(processing, e)
    /\ ready' = Cons([e EXCEPT !.attempt = nextAttempt], ready)
    /\ UNCHANGED <<dedup, done, log>>

\* One turn of the recovery loop: RPOPLPUSH processing -> ready.
RecoverOne ==
    /\ processing # <<>>
    /\ ready' = Cons(Last(processing), ready)
    /\ processing' = Front(processing)
    /\ UNCHANGED <<dedup, done, log>>

\* Faulty: the setting is ignored.
MarkerTTLMinimum == 1

MarkerTTL == IF ProcessedTTL < 1 THEN 1 ELSE ProcessedTTL

\* SET done-key EX ttl; a message without id is not recorded.
MarkProcessed(m) ==
    /\ done' = IF m \in Anonymous THEN done
               ELSE [done EXCEPT ![m] = now + MarkerTTL]
    /\ UNCHANGED <<ready, processing, dedup, log>>

\* EXISTS done-key.
IsProcessed(m) == m \notin Anonymous /\ done[m] # NoKey

\* A second passes: Redis drops every key whose expiry is reached.
Expire(keys, t) == [m \in Messages |-> IF keys[m] <= t THEN NoKey ELSE keys[m]]

Tick ==
    /\ now < MaxTime
    /\ now' = now + 1
    /\ dedup' = Expire(dedup, now')
    /\ done' = Expire(done, now')
    /\ UNCHANGED <<ready, processing, log, faults>>

----------------------------------------------------------------------------
QueueTypeOK ==
    /\ ready \in Seq(Entry)
    /\ processing \in Seq(Entry)
    /\ dedup \in [Messages -> Nat]
    /\ done \in [Messages -> Nat]
    /\ now \in Nat
    /\ log \in Seq(Payload)
    /\ Len(log) <= MaxCopies
    /\ faults \in 0..MaxFaults

InReady(c) == \E e \in ToSet(ready) : e.copy = c

InProcessing(c) == \E e \in ToSet(processing) : e.copy = c

InQueue(c) == InReady(c) \/ InProcessing(c)
============================================================================
