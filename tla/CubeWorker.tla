----------------------------- MODULE CubeWorker -----------------------------
(***************************************************************************)
(* The Cube queue worker, api/cube/worker.py: run_worker and               *)
(* process_next_queued_message, one action per call they make.             *)
(*                                                                         *)
(* What process_queued_message does (store, workflow, delivery, store) is  *)
(* abstracted here to what the worker can see of it and what the user can  *)
(* see of it: it delivers the whole answer or not, and returns or raises.  *)
(* Module CubePipeline opens it up.                                        *)
(*                                                                         *)
(* uWSGI attaches one worker process; Workers may hold more, because       *)
(* nothing in the code stops an overlapping one (a reload, a manual run).  *)
(***************************************************************************)
EXTENDS CubeQueue

CONSTANTS
    Workers,          \* worker processes
    MessageTTL,       \* CUBE_QUEUE_MESSAGE_TTL_SECONDS; 0 or less disables the check
    RetrySetting,     \* CUBE_QUEUE_MAX_RETRIES, before the lower bound of 1
    MaxCrashes        \* bound: how many times worker processes die

ASSUME WorkerAssumption ==
    /\ MessageTTL \in Int
    /\ RetrySetting \in Int
    /\ MaxCrashes \in Nat

VARIABLES
    pc,           \* where each worker is
    cur,          \* the dequeued payload each worker holds
    delivered,    \* whether the current run has delivered the whole answer
    crashes,      \* deaths of worker processes so far
    \* History, read by the properties only:
    outcome,      \* how each copy was concluded
    answers,      \* how many whole answers each copy produced
    runs,         \* how many times each copy was handed to process_queued_message
    marked,       \* copies whose processed marker is known to be written
    recovered     \* copies a restart moved back to the ready list

workerVars ==
    <<pc, cur, delivered, crashes, outcome, answers, runs, marked, recovered>>

Locations ==
    {"down", "recover", "idle", "check", "stale", "process", "mark", "ack", "requeue"}

Outcomes == {"skipped", "expired", "failed", "answered"}

NoEntry == [copy |-> 0, attempt |-> 0]

\* A location in which the worker holds a dequeued payload.
Holding == {"check", "stale", "process", "mark", "ack", "requeue"}

MaxRetries == IF RetrySetting < 1 THEN 1 ELSE RetrySetting

IsStale(c) ==
    /\ MessageTTL > 0
    /\ \/ log[c].at = NoTimestamp
       \/ now - log[c].at > MessageTTL

WorkerInit ==
    /\ pc = [w \in Workers |-> "down"]
    /\ cur = [w \in Workers |-> NoEntry]
    /\ delivered = [w \in Workers |-> FALSE]
    /\ crashes = 0
    /\ outcome = [c \in 1..MaxCopies |-> {}]
    /\ answers = [c \in 1..MaxCopies |-> 0]
    /\ runs = [c \in 1..MaxCopies |-> 0]
    /\ marked = {}
    /\ recovered = {}

----------------------------------------------------------------------------
Goto(w, l) == pc' = [pc EXCEPT ![w] = l]

\* The worker forgets the payload it held and goes on to location l.
Release(w, l) ==
    /\ Goto(w, l)
    /\ cur' = [cur EXCEPT ![w] = NoEntry]
    /\ delivered' = [delivered EXCEPT ![w] = FALSE]

Conclude(c, how) == outcome' = [outcome EXCEPT ![c] = @ \cup {how}]

history == <<outcome, answers, runs, marked, recovered>>

\* Faulty: a restarted worker goes straight to the ready list.
StartWithoutRecovery(w) ==
    /\ pc[w] = "down"
    /\ Goto(w, "idle")
    /\ UNCHANGED <<cur, delivered, crashes, history, queueVars, now, faults>>

\* The process is (re)spawned by uWSGI and enters run_worker.
Start(w) ==
    /\ pc[w] = "down"
    /\ Goto(w, "recover")
    /\ UNCHANGED <<cur, delivered, crashes, history, queueVars, now, faults>>

\* Faulty: recovery takes back one payload only.
RecoverOnce(w) ==
    /\ pc[w] = "recover"
    /\ \/ RecoverOne /\ recovered' = recovered \cup {Last(processing).copy}
       \/ processing = <<>> /\ UNCHANGED <<queueVars, recovered>>
    /\ CallReturns
    /\ Goto(w, "idle")
    /\ UNCHANGED <<cur, delivered, crashes, outcome, answers, runs, marked, now>>

\* recover_processing_messages, one Redis call at a time. A failure is not
\* caught by run_worker and ends the process.
Recover(w) ==
    /\ pc[w] = "recover"
    /\ \/ /\ processing # <<>> /\ RecoverOne /\ CallReturns
          /\ recovered' = recovered \cup {Last(processing).copy}
          /\ UNCHANGED pc
       \/ /\ processing = <<>> /\ CallReturns
          /\ Goto(w, "idle")
          /\ UNCHANGED <<queueVars, recovered>>
       \/ /\ CallRaises
          /\ \/ UNCHANGED <<queueVars, recovered>>
             \/ RecoverOne /\ recovered' = recovered \cup {Last(processing).copy}
          /\ Goto(w, "down")
    /\ UNCHANGED <<cur, delivered, crashes, outcome, answers, runs, marked, now>>

\* dequeue_queued_message. When the reply is lost after Redis moved the
\* payload, run_worker sleeps and continues: nobody holds the payload.
DequeueMessage(w) ==
    /\ pc[w] = "idle"
    /\ \/ \E e \in ToSet(ready) :
             /\ Dequeue(e) /\ CallReturns
             /\ cur' = [cur EXCEPT ![w] = e]
             /\ Goto(w, "check")
       \/ /\ CallRaises
          /\ \/ UNCHANGED queueVars
             \/ \E e \in ToSet(ready) : Dequeue(e)
          /\ UNCHANGED <<cur, pc>>
    /\ UNCHANGED <<delivered, crashes, history, now>>

\* is_message_processed. On CubeQueueError run_worker drops the payload from
\* its hands and continues with the next one.
CheckProcessed(w) ==
    /\ pc[w] = "check"
    /\ \/ /\ CallReturns
          /\ IsProcessed(MessageOf(cur[w]))
          /\ Conclude(cur[w].copy, "skipped")
          /\ Goto(w, "ack")
          /\ UNCHANGED <<cur, delivered>>
       \/ /\ CallReturns
          /\ ~IsProcessed(MessageOf(cur[w]))
          /\ Goto(w, "stale")
          /\ UNCHANGED <<outcome, cur, delivered>>
       \/ /\ CallRaises
          /\ Release(w, "idle")
          /\ UNCHANGED outcome
    /\ UNCHANGED <<crashes, answers, runs, marked, recovered, queueVars, now>>

\* _is_stale_message, then either the discard or process_queued_message.
CheckStale(w) ==
    /\ pc[w] = "stale"
    /\ \/ /\ IsStale(cur[w].copy)
          /\ Conclude(cur[w].copy, "expired")
          /\ Goto(w, "ack")
          /\ UNCHANGED runs
       \/ /\ ~IsStale(cur[w].copy)
          /\ Goto(w, "process")
          /\ runs' = [runs EXCEPT ![cur[w].copy] = @ + 1]
          /\ UNCHANGED outcome
    /\ UNCHANGED <<cur, delivered, crashes, answers, marked, recovered,
                   queueVars, now, faults>>

\* The last part of the answer reaches the user.
Deliver(w) ==
    /\ pc[w] = "process"
    /\ ~delivered[w]
    /\ delivered' = [delivered EXCEPT ![w] = TRUE]
    /\ answers' = [answers EXCEPT ![cur[w].copy] = @ + 1]
    /\ UNCHANGED <<pc, cur, crashes, outcome, runs, marked, recovered,
                   queueVars, now, faults>>

\* The worker's reaction to a return: the message counts as answered.
TakeAsAnswered(w) ==
    /\ pc[w] = "process"
    /\ Conclude(cur[w].copy, "answered")
    /\ Goto(w, "mark")
    /\ UNCHANGED <<cur, delivered, crashes, answers, runs, marked, recovered,
                   queueVars, now, faults>>

\* Faulty: a failed delivery is logged and the call returns normally.
ProcessSwallows(w) ==
    /\ pc[w] = "process"
    /\ Conclude(cur[w].copy, "answered")
    /\ Goto(w, "mark")
    /\ UNCHANGED <<cur, delivered, crashes, answers, runs, marked, recovered,
                   queueVars, now, faults>>

\* process_queued_message returns: only after it delivered the answer.
ProcessReturns(w) ==
    /\ delivered[w]
    /\ TakeAsAnswered(w)

\* Faulty: one retry too many.
ProcessRaisesOffByOne(w) ==
    /\ pc[w] = "process"
    /\ IF cur[w].attempt < MaxRetries
       THEN /\ Goto(w, "requeue")
            /\ UNCHANGED outcome
       ELSE /\ Goto(w, "ack")
            /\ Conclude(cur[w].copy, "failed")
    /\ UNCHANGED <<cur, delivered, crashes, answers, runs, marked, recovered,
                   queueVars, now, faults>>

\* process_queued_message raises, before or after the answer was delivered.
ProcessRaises(w) ==
    /\ pc[w] = "process"
    /\ IF cur[w].attempt + 1 < MaxRetries
       THEN /\ Goto(w, "requeue")
            /\ UNCHANGED outcome
       ELSE /\ Goto(w, "ack")
            /\ Conclude(cur[w].copy, "failed")
    /\ UNCHANGED <<cur, delivered, crashes, answers, runs, marked, recovered,
                   queueVars, now, faults>>

\* _mark_processed_best_effort: a failure is logged and swallowed.
MarkBestEffort(w) ==
    /\ pc[w] = "mark"
    /\ \/ /\ MarkProcessed(MessageOf(cur[w])) /\ CallReturns
          /\ marked' = IF MessageOf(cur[w]) \in Anonymous THEN marked
                       ELSE marked \cup {cur[w].copy}
       \/ /\ CallRaises
          /\ UNCHANGED queueVars \/ MarkProcessed(MessageOf(cur[w]))
          /\ UNCHANGED marked
    /\ Goto(w, "ack")
    /\ UNCHANGED <<cur, delivered, crashes, outcome, answers, runs, recovered, now>>

\* acknowledge_queued_message. Returning or raising, the worker goes on; if
\* the LREM was not executed the payload stays in the processing list.
AckMessage(w) ==
    /\ pc[w] = "ack"
    /\ \/ Acknowledge(cur[w]) /\ CallReturns
       \/ /\ CallRaises
          /\ UNCHANGED queueVars \/ Acknowledge(cur[w])
    /\ Release(w, "idle")
    /\ UNCHANGED <<crashes, history, now>>

\* requeue_queued_message with attempt + 1.
RequeueMessage(w) ==
    /\ pc[w] = "requeue"
    /\ LET retry == Requeue(cur[w], cur[w].attempt + 1)
       IN  \/ retry /\ CallReturns
           \/ /\ CallRaises
              /\ UNCHANGED queueVars \/ retry
    /\ Release(w, "idle")
    /\ UNCHANGED <<crashes, history, now>>

\* The process dies: killed by a reload, the OOM killer, an operator.
Crash(w) ==
    /\ pc[w] # "down"
    /\ crashes < MaxCrashes
    /\ crashes' = crashes + 1
    /\ Release(w, "down")
    /\ UNCHANGED <<history, queueVars, now, faults>>

\* Everything the worker process does by itself.
WorkerStep(w) ==
    \/ Start(w) \/ Recover(w)
    \/ DequeueMessage(w) \/ CheckProcessed(w) \/ CheckStale(w)
    \/ Deliver(w) \/ ProcessReturns(w) \/ ProcessRaises(w)
    \/ MarkBestEffort(w) \/ AckMessage(w) \/ RequeueMessage(w)

WorkerTypeOK ==
    /\ pc \in [Workers -> Locations]
    /\ cur \in [Workers -> Entry \cup {NoEntry}]
    /\ delivered \in [Workers -> BOOLEAN]
    /\ crashes \in 0..MaxCrashes
    /\ outcome \in [1..MaxCopies -> SUBSET Outcomes]
    /\ answers \in [1..MaxCopies -> Nat]
    /\ runs \in [1..MaxCopies -> Nat]
    /\ marked \subseteq 1..MaxCopies
    /\ recovered \subseteq 1..MaxCopies
    /\ \A w \in Workers :
          IF pc[w] \in Holding THEN cur[w] \in Entry ELSE cur[w] = NoEntry
============================================================================
