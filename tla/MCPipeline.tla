----------------------------- MODULE MCPipeline -----------------------------
(***************************************************************************)
(* Instances of CubePipeline for TLC: all messages in one conversation, or *)
(* one of them, Quiet, in a conversation of its own. The other messages    *)
(* are interchangeable.                                                    *)
(***************************************************************************)
EXTENDS CubePipeline

CONSTANTS channel1, channel2, Quiet

OneChannel == [m \in Messages |-> channel1]

TwoChannels == [m \in Messages |-> IF m = Quiet THEN channel2 ELSE channel1]

Symmetry == Permutations(Messages \ {Quiet})

(***************************************************************************)
(* Bounds. The stores that outlive the process see two payloads of one     *)
(* conversation and answers of several parts; the memory store sees three  *)
(* payloads of both conversations, answers of one part and one attempt.    *)
(***************************************************************************)
Instance ==
    IF backend = "memory"
    THEN /\ \A w \in Workers : parts[w] <= 1
         /\ \A e \in ToSet(ready) : e.attempt = 0
    ELSE Len(log) <= 2 /\ \A c \in Copies : log[c].msg # Quiet
============================================================================
