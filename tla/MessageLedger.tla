---------------------------- MODULE MessageLedger ----------------------------
(***************************************************************************)
(* What the Cube queue and its worker promise together, without lists,     *)
(* clocks, markers, failures or processes. Every accepted payload is one   *)
(* work item with one attempt counter. An item is answered only while it   *)
(* is open; a failed attempt replaces it by the next one, within the retry *)
(* budget; it is closed only after a verdict, and then never comes back.   *)
(*                                                                         *)
(* CubeRefinement shows that CubeMessaging with one worker implements it.  *)
(***************************************************************************)
EXTENDS Integers

CONSTANT MaxAttempts      \* how many attempts an item has

VARIABLES
    accepted,    \* how many items have been accepted
    open,        \* the open items, each with its attempt
    answersTo,   \* how many whole answers each item has produced
    verdicts     \* the verdicts passed on each item

ledgerVars == <<accepted, open, answersTo, verdicts>>

Verdicts == {"answered", "failed", "expired", "skipped"}

\* Items may be open already when the system is started.
Init ==
    /\ accepted \in Nat
    /\ open = [copy : 1..accepted, attempt : {0}]
    /\ \A c \in DOMAIN answersTo : answersTo[c] = 0
    /\ \A c \in DOMAIN verdicts : verdicts[c] = {}

Accept ==
    /\ accepted' = accepted + 1
    /\ open' = open \cup {[copy |-> accepted', attempt |-> 0]}
    /\ UNCHANGED <<answersTo, verdicts>>

Answer(item) ==
    /\ item \in open
    /\ answersTo' = [answersTo EXCEPT ![item.copy] = @ + 1]
    /\ UNCHANGED <<accepted, open, verdicts>>

Retry(item) ==
    /\ item \in open
    /\ item.attempt + 1 < MaxAttempts
    /\ open' = (open \ {item}) \cup {[item EXCEPT !.attempt = @ + 1]}
    /\ UNCHANGED <<accepted, answersTo, verdicts>>

\* Answered needs an answer, failed the last attempt; the ledger does not
\* say when an item is too old or made redundant by another answer.
Judge(item, verdict) ==
    /\ item \in open
    /\ verdict = "answered" => answersTo[item.copy] > 0
    /\ verdict = "failed" => item.attempt + 1 = MaxAttempts
    /\ verdicts' = [verdicts EXCEPT ![item.copy] = @ \cup {verdict}]
    /\ UNCHANGED <<accepted, open, answersTo>>

Close(item) ==
    /\ item \in open
    /\ verdicts[item.copy] # {}
    /\ open' = open \ {item}
    /\ UNCHANGED <<accepted, answersTo, verdicts>>

Next ==
    \/ Accept
    \/ \E item \in open :
          \/ Answer(item) \/ Retry(item) \/ Close(item)
          \/ \E verdict \in Verdicts : Judge(item, verdict)

Spec == Init /\ [][Next]_ledgerVars
============================================================================
