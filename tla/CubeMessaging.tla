---------------------------- MODULE CubeMessaging ----------------------------
(***************************************************************************)
(* The Cube message path as deployed: webhook requests handled by the web  *)
(* threads (accept_cube_message, api/cube/service.py) feed the Redis queue *)
(* of CubeQueue, which the worker processes of CubeWorker consume.         *)
(*                                                                         *)
(* Messages are the events that get past parsing and past the blank and    *)
(* wake-up filters: the others change no state.                            *)
(***************************************************************************)
EXTENDS CubeWorker

VARIABLE told     \* messages whose webhook was answered accepted or duplicate

vars == <<queueVars, now, faults, workerVars, told>>

----------------------------------------------------------------------------
\* One webhook request. Cube may send the same message again at any time
\* (after a 503, a lost response, or for no reason the server knows of).
AcceptCubeMessage(m) ==
    /\ \/ \* enqueue_unique returns True: accepted
          /\ EnqueueUnique(m) /\ CallReturns
          /\ told' = told \cup {m}
       \/ \* it returns False: duplicate
          /\ IsDuplicate(m) /\ CallReturns
          /\ told' = told \cup {m}
          /\ UNCHANGED queueVars
       \/ \* CubeQueueError: 503, whether or not the script was executed
          /\ CallRaises
          /\ UNCHANGED queueVars \/ EnqueueUnique(m)
          /\ UNCHANGED told
    /\ UNCHANGED <<workerVars, now>>

Init == QueueInit /\ WorkerInit /\ told = {}

Next ==
    \/ \E m \in Messages : AcceptCubeMessage(m)
    \/ \E w \in Workers : (WorkerStep(w) \/ Crash(w)) /\ UNCHANGED told
    \/ Tick /\ UNCHANGED <<workerVars, told>>

Spec == Init /\ [][Next]_vars

\* The worker loop never waits for anything but Redis and the bounded calls
\* of process_queued_message, and uWSGI respawns a dead daemon: a worker
\* process that can take a step without a Redis failure eventually takes one.
\* Failures, webhooks, crashes and the clock owe us nothing.
Fairness == \A w \in Workers : WF_vars(WorkerStep(w) /\ CallReturns /\ UNCHANGED told)

FairSpec == Spec /\ Fairness

----------------------------------------------------------------------------
TypeOK ==
    /\ QueueTypeOK
    /\ WorkerTypeOK
    /\ told \subseteq Messages

(***************************************************************************)
(* No accepted message is lost. A message Cube was told is accepted (or a  *)
(* duplicate of an accepted one) was enqueued, and every payload ever      *)
(* enqueued sits in one of the two lists until its handling has been       *)
(* concluded: answered, given up, too old, or already answered. It holds   *)
(* across crashes, lost replies of Redis and overlapping workers, which is *)
(* what the processing list and its recovery are for.                      *)
(***************************************************************************)
AcceptedNotLost ==
    /\ \A m \in told : \E c \in Copies : log[c].msg = m
    /\ \A c \in Copies : InQueue(c) \/ outcome[c] # {}

(***************************************************************************)
(* A processed marker is never a lie: while it exists, or once a payload   *)
(* was skipped because of it, some payload of that message did produce a   *)
(* whole answer. Skipping a message (worker.py:138) never leaves its user  *)
(* without an answer.                                                      *)
(***************************************************************************)
Answered(m) == \E c \in Copies : log[c].msg = m /\ answers[c] > 0

MarkerMeansAnswered ==
    /\ \A m \in Messages : done[m] # NoKey => Answered(m)
    /\ \A c \in Copies : "skipped" \in outcome[c] => Answered(log[c].msg)

(***************************************************************************)
(* Webhook deduplication outlives the queue: of the payloads of a message  *)
(* at most one is both waiting in the queue and young enough to be         *)
(* processed. It needs DedupTTL > MessageTTL > 0, as in config.py.         *)
(***************************************************************************)
OneFreshCopy ==
    \A c1, c2 \in Copies :
        /\ log[c1].msg = log[c2].msg /\ log[c1].msg \notin Anonymous
        /\ InQueue(c1) /\ InQueue(c2)
        /\ ~IsStale(c1) /\ ~IsStale(c2)
        => c1 = c2

(***************************************************************************)
(* With a single worker a payload is queued once: no two positions of the  *)
(* two lists hold the same copy, so it has one attempt counter.            *)
(***************************************************************************)
QueuedOnce ==
    LET queued == ready \o processing
    IN  \A i, j \in DOMAIN queued : queued[i].copy = queued[j].copy => i = j

(***************************************************************************)
(* The retry budget survives recovery: a payload is processed at most      *)
(* CUBE_QUEUE_MAX_RETRIES times, plus once for each process death or Redis *)
(* failure that interrupted the handling (single worker).                  *)
(***************************************************************************)
AttemptBudget ==
    \A c \in Copies : runs[c] <= MaxRetries + crashes + faults

(***************************************************************************)
(* A payload whose marker was written is never processed again, not even   *)
(* after the marker expires: it is too old by then (single worker;         *)
(* ProcessedTTL > MessageTTL > 0).                                         *)
(***************************************************************************)
MarkedNeverRerun ==
    [][\A c \in 1..MaxCopies : runs'[c] # runs[c] => c \notin marked]_vars

(***************************************************************************)
(* First come, first served: processing of a payload starts only when no   *)
(* earlier one waits in the ready list, unless that one was set back by a  *)
(* retry or a recovery.                                                    *)
(***************************************************************************)
Waiting(c) == c \notin recovered /\ \E e \in ToSet(ready) : e = [copy |-> c, attempt |-> 0]

FirstComeFirstServed ==
    [][\A c \in Copies :
          runs'[c] # runs[c] => \A earlier \in 1..(c - 1) : ~Waiting(earlier)]_vars

(***************************************************************************)
(* config.py:95 on the processed marker: it keeps a restart's recovery     *)
(* from processing an already answered message again.                      *)
(***************************************************************************)
RecoveredAnsweredNotRerun ==
    [][\A c \in Copies :
          runs'[c] # runs[c] => ~(c \in recovered /\ answers[c] > 0)]_vars

----------------------------------------------------------------------------
\* The payload is out of both lists and its handling concluded.
Settled(c) == c \in Copies /\ ~InQueue(c) /\ outcome[c] # {}

\* A Redis call has failed, and the payload is in the processing list, in the
\* hands of nobody, with every worker past recovery: only the next restart
\* will look at it.
Stranded(c) ==
    /\ faults > 0
    /\ InProcessing(c)
    /\ \A w \in Workers : pc[w] \notin {"down", "recover"} /\ cur[w].copy # c

(***************************************************************************)
(* Every payload is eventually settled, or stranded by a failed Redis call *)
(* (run_worker drops it from its hands and does not look back).            *)
(***************************************************************************)
EventuallySettledOrStranded ==
    \A c \in 1..MaxCopies : c \in Copies ~> (Settled(c) \/ Stranded(c))

(***************************************************************************)
(* Recovery is complete: once Redis calls stop failing, a restart brings   *)
(* every payload of that moment to its end.                                *)
(***************************************************************************)
RestartSettlesAll ==
    \A c \in 1..MaxCopies, w \in Workers :
        (faults = MaxFaults /\ pc[w] = "recover" /\ c \in Copies) ~> Settled(c)
============================================================================
