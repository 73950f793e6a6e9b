--------------------------- MODULE CubeRefinement ---------------------------
(***************************************************************************)
(* CubeMessaging implements MessageLedger: the open items are the payloads *)
(* in the two Redis lists, wherever they are.                              *)
(***************************************************************************)
EXTENDS CubeMessaging

Ledger == INSTANCE MessageLedger WITH
    MaxAttempts <- MaxRetries,
    accepted <- Len(log),
    open <- ToSet(ready) \cup ToSet(processing),
    answersTo <- answers,
    verdicts <- outcome

(***************************************************************************)
(* With one worker every behaviour of the queue and the worker, crashes,   *)
(* recoveries and failing Redis calls included, is one of the ledger: a    *)
(* payload is never worked on twice at a time, answered after its end, or  *)
(* given back an attempt it has used.                                      *)
(***************************************************************************)
ImplementsLedger == Ledger!Spec
============================================================================
