------------------------------- MODULE Lists -------------------------------
(***************************************************************************)
(* A list made of some elements of another one, in their order:            *)
(* [e for e in s if ...] in Python.                                        *)
(***************************************************************************)
EXTENDS Integers, Sequences

\* The elements of s at these places.
Picked(s, places) ==
    LET picked[n \in 0..Len(s)] ==
            IF n = 0 THEN <<>>
            ELSE IF n \in places THEN Append(picked[n - 1], s[n]) ELSE picked[n - 1]
    IN picked[Len(s)]

\* The elements of s that pass a test.
Only(s, Test(_)) == Picked(s, {i \in DOMAIN s : Test(s[i])})
=============================================================================
