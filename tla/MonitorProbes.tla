---------------------------- MODULE MonitorProbes ----------------------------
(***************************************************************************)
(* The checks of the monitoring page that call something outside,          *)
(* api/monitoring_service.py: a round trip through the Cube queue, the     *)
(* scheduler lock and the file metadata under keys of its own, a ping of   *)
(* MongoDB and a question to the language model. Each is a few calls, any  *)
(* of which may raise, with or without its effect; Redis may come back     *)
(* empty between two of them. (The metadata in process memory never fail   *)
(* and are left out.)                                                      *)
(***************************************************************************)
EXTENDS Sequences

VARIABLES
    check,      \* the check that runs
    calls,      \* the calls it has still to make
    traces,     \* what it has left in Redis so far
    doubt,      \* an answer was not the one expected
    raised,     \* a call raised
    uncleared,  \* the clean-up failed
    entry       \* the status on the page

probeVars == <<check, calls, traces, doubt, raised, uncleared, entry>>

\* What each check asks of its store.
QueueCalls == <<"push", "move", "remove">>

LockCalls == <<"acquire", "release", "look">>

MetadataCalls == <<"set key", "add id", "get", "list", "delete key", "delete id", "get again">>

\* The conversation store and the checkpoints are only asked for a sign of life.
MongoCalls == <<"ping">>

\* check_llm_health; an empty answer is taken like a call that raises.
LlmCalls == <<"ask">>

\* One check after the other, each with keys of its own (uuid4).
Calls ==
    [queue |-> QueueCalls, lock |-> LockCalls, metadata |-> MetadataCalls, mongo |-> MongoCalls, llm |-> LlmCalls]

Checks == DOMAIN Calls

\* The checks with a finally that deletes their keys.
Clearing == {"queue", "lock"}

ProbeInit ==
    /\ check = "mongo" /\ calls = <<>> /\ traces = {}
    /\ doubt = FALSE /\ raised = FALSE /\ uncleared = FALSE
    /\ entry = "none"

----------------------------------------------------------------------------
\* What a call does to the keys.
Effect(call) ==
    CASE call = "push"       -> traces \cup {"ready"}
      [] call = "move"       -> IF "ready" \in traces THEN (traces \ {"ready"}) \cup {"processing"} ELSE traces
      [] call = "remove"     -> traces \ {"processing"}
      [] call = "acquire"    -> traces \cup {"lock"}
      [] call = "release"    -> traces \ {"lock"}
      [] call = "set key"    -> traces \cup {"key"}
      [] call = "add id"     -> traces \cup {"id"}
      [] call = "delete key" -> traces \ {"key"}
      [] call = "delete id"  -> traces \ {"id"}
      [] OTHER               -> traces

\* Faulty: the answers are not compared.
ExpectedAny(call) == TRUE

\* The answer the check wants to see.
Expected(call) ==
    CASE call = "move"      -> "ready" \in traces
      [] call = "remove"    -> "processing" \in traces
      [] call = "look"      -> "lock" \notin traces
      [] call = "get"       -> "key" \in traces
      [] call = "list"      -> "id" \in traces
      [] call = "get again" -> "key" \notin traces
      [] OTHER              -> TRUE

\* get_monitoring_snapshot: a check begins. Without a URL there is none.
BeginCheck(c) ==
    /\ entry # "checking"
    /\ check' = c /\ traces' = {}
    /\ doubt' = FALSE /\ raised' = FALSE /\ uncleared' = FALSE
    /\ \/ entry' = "checking" /\ calls' = Calls[c]
       \/ entry' = "not configured" /\ calls' = <<>>

Answered ==
    /\ calls # <<>>
    /\ calls' = Tail(calls)
    /\ traces' = Effect(Head(calls))
    /\ doubt' = (doubt \/ ~Expected(Head(calls)))
    /\ UNCHANGED <<check, raised, uncleared, entry>>

\* The check is over, except that release() logs and goes on.
CallRaises ==
    /\ calls # <<>>
    /\ traces' \in {traces, Effect(Head(calls))}
    /\ \/ Head(calls) = "release" /\ calls' = Tail(calls) /\ UNCHANGED raised
       \/ Head(calls) # "release" /\ calls' = <<>> /\ raised' = TRUE
    /\ UNCHANGED <<check, doubt, uncleared, entry>>

\* Faulty: the keys of a failed check are kept.
ClearUpIfWorking ==
    /\ UNCHANGED <<traces, uncleared>>

\* The finally block; an exception in it is swallowed.
ClearUp ==
    \/ check \in Clearing /\ traces' = {} /\ UNCHANGED uncleared
    \/ check \in Clearing /\ UNCHANGED traces /\ uncleared' = TRUE
    \/ check \notin Clearing /\ UNCHANGED <<traces, uncleared>>

EndCheck ==
    /\ entry = "checking" /\ calls = <<>>
    /\ entry' = IF raised \/ doubt THEN "failed" ELSE "working"
    /\ ClearUp
    /\ UNCHANGED <<check, calls, doubt, raised>>

\* Redis restarts without its data.
RedisForgets ==
    /\ entry = "checking" /\ traces # {}
    /\ traces' = {}
    /\ UNCHANGED <<check, calls, doubt, raised, uncleared, entry>>

ProbeNext == (\E c \in Checks : BeginCheck(c)) \/ Answered \/ CallRaises \/ EndCheck \/ RedisForgets

ProbeSpec == ProbeInit /\ [][ProbeNext]_probeVars

----------------------------------------------------------------------------
(***************************************************************************)
(* A check that reports a working store has taken back whatever it wrote   *)
(* there, although release() swallows its errors. A failed check leaves    *)
(* keys in Redis only if its clean-up failed, too, or if it has none: the  *)
(* check of the metadata. (The cleanup of the store goes by the index, so  *)
(* it removes what that check leaves only if key and id are both there; a  *)
(* key without its id, or an id without its key, stays.)                   *)
(***************************************************************************)
ChecksLeaveNothing ==
    traces # {} /\ entry # "checking" =>
        /\ entry = "failed"
        /\ uncleared \/ (check = "metadata" /\ raised)
============================================================================
