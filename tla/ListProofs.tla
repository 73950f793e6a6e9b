----------------------------- MODULE ListProofs -----------------------------
(***************************************************************************)
(* Facts about lists that the proofs about the chunker and the forms use:  *)
(* induction over lists, the functions behind recursion and folds, and the *)
(* laws of Picked and FlattenSeq.                                          *)
(***************************************************************************)
EXTENDS Lists, SequencesExt, FiniteSetsExt, SequenceTheorems, WellFoundedInduction, TLAPS

----------------------------------------------------------------------------
(* Induction and recursion on the natural numbers up to n.                 *)

(***************************************************************************)
(* What holds of 0 and of each successor holds up to n.                    *)
(***************************************************************************)
LEMMA UpTo ==
    ASSUME NEW n \in Nat, NEW T, 0 \in T, \A k \in 1..n : k - 1 \in T => k \in T
    PROVE  \A k \in 0..n : k \in T
<1> DEFINE Bad == {k \in 0..n : k \notin T}
<1>1. SUFFICES ASSUME Bad # {} PROVE FALSE
  OBVIOUS
<1> DEFINE R == {ss \in Nat \X Nat : ss[1] < ss[2]}
<1>2. IsWellFoundedOn(R, Nat)
  BY NatLessThanWellFounded DEF OpToRel
<1> HIDE DEF R
<1>3. PICK x \in Bad : \A y \in Bad : ~ (<<y, x>> \in R)
  <2>1. Bad \subseteq Nat
    OBVIOUS
  <2> HIDE DEF Bad
  <2> QED
    BY <1>1, <1>2, <2>1, WFMin
<1>4. x \in 1..n
  BY <1>3
<1>5. x - 1 \in Bad
  BY <1>3, <1>4
<1>6. <<x - 1, x>> \in R
  BY <1>4 DEF R
<1> QED
  BY <1>3, <1>5, <1>6

(***************************************************************************)
(* The largest of the first n numbers.                                     *)
(***************************************************************************)
LEMMA MaxUpTo ==
    ASSUME NEW n \in Nat, NEW s \in SUBSET (1..n), s # {}
    PROVE  Max(s) \in s /\ \A y \in s : y <= Max(s)
<1> DEFINE T == {k \in 0..n : \A u \in SUBSET (1..k) : u # {} => \E x \in u : \A y \in u : y <= x}
<1>1. 0 \in T
  <2>1. \A u \in SUBSET (1..0) : u = {}
    OBVIOUS
  <2>2. \A u \in SUBSET (1..0) : u # {} => \E x \in u : \A y \in u : y <= x
    BY <2>1
  <2>3. 0 \in 0..n
    OBVIOUS
  <2> QED
    BY <2>2, <2>3
<1>2. ASSUME NEW k \in 1..n, k - 1 \in T PROVE k \in T
  <2> SUFFICES ASSUME NEW u \in SUBSET (1..k), u # {} PROVE \E x \in u : \A y \in u : y <= x
    OBVIOUS
  <2>1. CASE k \in u
    BY <2>1
  <2>2. CASE k \notin u
    <3>1. u \in SUBSET (1..(k - 1))
      BY <2>2
    <3> QED
      BY <3>1, <1>2
  <2> QED
    BY <2>1, <2>2
<1> HIDE DEF T
<1>3. n \in T
  BY <1>1, <1>2, UpTo
<1>4. \E x \in s : \A y \in s : x >= y
  BY <1>3 DEF T
<1> QED
  BY <1>4 DEF Max

\* f is defined by recursion on the numbers up to n.
Recursive(f, n, base, step) == f[0] = base /\ \A k \in 1..n : f[k] = step[<<k, f[k - 1]>>]

\* f is the function behind a fold over a sequence of length n.
Folding(f, n, base, step) == \A s \in SUBSET (1..n) :
    f[s] = IF s = {} THEN base ELSE step[<<Max(s), f[s \ {Max(s)}]>>]

(***************************************************************************)
(* A function that is defined by recursion on the numbers up to n exists.  *)
(***************************************************************************)
LEMMA Recursion ==
    ASSUME NEW n \in Nat, NEW B, NEW base \in B, NEW step \in [(1..n) \X B -> B]
    PROVE  \E f \in [0..n -> B] : Recursive(f, n, base, step)
<1> DEFINE Rec(f, m) == f[0] = base /\ \A k \in 1..m : f[k] = step[<<k, f[k - 1]>>]
           T == {m \in 0..n : \E f \in [0..m -> B] : Rec(f, m)}
<1>1. 0 \in T
  <2> DEFINE f == [k \in 0..0 |-> base]
  <2>1. f \in [0..0 -> B] /\ Rec(f, 0)
    OBVIOUS
  <2>2. \E h \in [0..0 -> B] : Rec(h, 0)
    BY <2>1
  <2> HIDE DEF Rec, f
  <2> QED
    BY <2>2
<1>2. ASSUME NEW m \in 1..n, m - 1 \in T PROVE m \in T
  <2>1. PICK f \in [0..(m - 1) -> B] : Rec(f, m - 1)
    BY <1>2
  <2> DEFINE g == [k \in 0..m |-> IF k = m THEN step[<<m, f[m - 1]>>] ELSE f[k]]
  <2>2. g \in [0..m -> B]
    OBVIOUS
  <2>3. ASSUME NEW k \in 1..m PROVE g[k] = step[<<k, g[k - 1]>>]
    <3>1. CASE k = m
      <4>1. k - 1 \in 0..m /\ k - 1 # m
        BY <3>1
      <4> QED
        BY <3>1, <4>1
    <3>2. CASE k # m
      <4>1. k \in 1..(m - 1) /\ g[k] = f[k] /\ g[k - 1] = f[k - 1]
        BY <3>2
      <4>2. f[k] = step[<<k, f[k - 1]>>]
        BY <2>1, <4>1
      <4> QED
        BY <4>1, <4>2
    <3> QED
      BY <3>1, <3>2
  <2>4. Rec(g, m)
    <3>1. g[0] = base
      BY <2>1
    <3> QED
      BY <2>3, <3>1
  <2>5. \E h \in [0..m -> B] : Rec(h, m)
    BY <2>2, <2>4
  <2> HIDE DEF Rec, g
  <2> QED
    BY <2>5
<1> HIDE DEF T
<1>3. n \in T
  BY <1>1, <1>2, UpTo
<1>4. PICK f \in [0..n -> B] : Rec(f, n)
  BY <1>3 DEF T
<1>5. Recursive(f, n, base, step)
  BY <1>4 DEF Recursive
<1> QED
  BY <1>5

(***************************************************************************)
(* So does the function behind a fold over a sequence of length n, which   *)
(* takes the elements from the last to the first.                          *)
(***************************************************************************)
LEMMA FoldExists ==
    ASSUME NEW n \in Nat, NEW B, NEW base \in B, NEW step \in [(1..n) \X B -> B]
    PROVE  \E f \in [SUBSET (1..n) -> B] : Folding(f, n, base, step)
<1> DEFINE Rec(f, m) == \A s \in SUBSET (1..m) :
                            f[s] = IF s = {} THEN base ELSE step[<<Max(s), f[s \ {Max(s)}]>>]
           Has(m) == \E f \in [SUBSET (1..m) -> B] : Rec(f, m)
           T == {m \in 0..n : Has(m)}
<1>1. 0 \in T
  <2> DEFINE f == [s \in SUBSET (1..0) |-> base]
  <2>1. \A s \in SUBSET (1..0) : s = {}
    OBVIOUS
  <2>2. f \in [SUBSET (1..0) -> B] /\ Rec(f, 0)
    BY <2>1
  <2>3. Has(0)
    <3> HIDE DEF f, Rec
    <3> QED
      BY <2>2
  <2> HIDE DEF Has
  <2> QED
    BY <2>3
<1>2. ASSUME NEW m \in 1..n, m - 1 \in T PROVE m \in T
  <2>1. PICK f \in [SUBSET (1..(m - 1)) -> B] : Rec(f, m - 1)
    BY <1>2
  <2> DEFINE g == [s \in SUBSET (1..m) |->
                      IF m \in s THEN step[<<m, f[s \ {m}]>>] ELSE f[s]]
  <2>2. \A s \in SUBSET (1..m) : IF m \in s THEN s \ {m} \in SUBSET (1..(m - 1)) ELSE s \in SUBSET (1..(m - 1))
    OBVIOUS
  <2>3. g \in [SUBSET (1..m) -> B]
    BY <2>2
  <2>4. ASSUME NEW s \in SUBSET (1..m)
        PROVE  g[s] = IF s = {} THEN base ELSE step[<<Max(s), g[s \ {Max(s)}]>>]
    <3>1. CASE m \in s
      <4>1. Max(s) = m
        <5>1. m \in Nat /\ s # {}
          BY <3>1
        <5>2. Max(s) \in s /\ \A y \in s : y <= Max(s)
          BY <5>1, MaxUpTo
        <5>3. Max(s) \in 1..m /\ m <= Max(s)
          BY <3>1, <5>2
        <5> HIDE DEF g
        <5> QED
          BY <5>1, <5>3
      <4>2. s \ {m} \in SUBSET (1..m) /\ m \notin s \ {m}
        OBVIOUS
      <4>3. g[s \ {m}] = f[s \ {m}]
        BY <4>2
      <4> QED
        BY <3>1, <4>1, <4>3
    <3>2. CASE m \notin s
      <4>1. s \in SUBSET (1..(m - 1)) /\ g[s] = f[s]
        BY <2>2, <3>2
      <4>2. CASE s = {}
        BY <2>1, <4>1, <4>2
      <4>3. CASE s # {}
        <5>1. Max(s) \in s
          BY <4>3, MaxUpTo, m \in Nat
        <5> DEFINE u == s \ {Max(s)}
        <5>2. u \in SUBSET (1..(m - 1)) /\ u \in SUBSET (1..m) /\ m \notin u
          BY <2>2, <3>2, <4>1
        <5>3. g[u] = f[u]
          BY <5>2
        <5>4. f[s] = step[<<Max(s), f[u]>>]
          BY <2>1, <4>1, <4>3
        <5> QED
          BY <4>1, <4>3, <5>3, <5>4
      <4> QED
        BY <4>2, <4>3
    <3> QED
      BY <3>1, <3>2
  <2>5. Rec(g, m)
    BY <2>4
  <2>6. Has(m)
    <3> HIDE DEF g, Rec
    <3> QED
      BY <2>3, <2>5
  <2> HIDE DEF Has
  <2> QED
    BY <2>6
<1> HIDE DEF T
<1>3. n \in T
  BY <1>1, <1>2, UpTo
<1>4. PICK f \in [SUBSET (1..n) -> B] : Rec(f, n)
  BY <1>3 DEF T
<1>5. Folding(f, n, base, step)
  BY <1>4 DEF Folding
<1> QED
  BY <1>5

(***************************************************************************)
(* The first k numbers are the k-th and the first k - 1.                   *)
(***************************************************************************)
LEMMA Intervals ==
    ASSUME NEW n \in Nat
    PROVE  /\ 1..0 = {} /\ 1..0 \in SUBSET (1..n)
           /\ \A k \in 1..n : /\ 1..k \in SUBSET (1..n) /\ 1..k # {}
                              /\ Max(1..k) = k /\ (1..k) \ {k} = 1..(k - 1)
<1>1. ASSUME NEW k \in 1..n
      PROVE  1..k \in SUBSET (1..n) /\ 1..k # {} /\ Max(1..k) = k /\ (1..k) \ {k} = 1..(k - 1)
  <2>1. 1..k \in SUBSET (1..n) /\ 1..k # {} /\ k \in 1..k
    OBVIOUS
  <2>2. Max(1..k) \in 1..k /\ \A y \in 1..k : y <= Max(1..k)
    BY <2>1, MaxUpTo
  <2>3. Max(1..k) = k
    BY <2>1, <2>2
  <2> QED
    BY <2>1, <2>3
<1> QED
  BY <1>1

(***************************************************************************)
(* What holds of the empty list, and of a list with one more element if it *)
(* holds of the list, holds of all lists.                                  *)
(***************************************************************************)
LEMMA ListInduction ==
    ASSUME NEW S, NEW T, <<>> \in T,
           \A s \in Seq(S), e \in S : s \in T => Append(s, e) \in T
    PROVE  Seq(S) \subseteq T
<1> SUFFICES ASSUME NEW s \in Seq(S) PROVE s \in T
  OBVIOUS
<1> DEFINE n == Len(s)
           K == {k \in 0..n : \A t \in Seq(S) : Len(t) = k => t \in T}
<1>1. n \in Nat
  BY LenProperties
<1>2. 0 \in K
  BY <1>1, EmptySeq
<1>3. ASSUME NEW k \in 1..n, k - 1 \in K PROVE k \in K
  <2> SUFFICES ASSUME NEW t \in Seq(S), Len(t) = k PROVE t \in T
    BY <1>1
  <2>1. t # <<>>
    BY EmptySeq
  <2>2. PICK u \in Seq(S), e \in S : t = Append(u, e)
    BY <2>1, SequenceEmptyOrAppend
  <2>3. Len(u) = k - 1
    BY <2>2, AppendProperties, LenProperties
  <2> QED
    BY <1>3, <2>2, <2>3
<1>4. n \in K
  <2>1. n \in 0..n
    BY <1>1
  <2> HIDE DEF K, n
  <2> QED
    BY <1>1, <1>2, <1>3, <2>1, UpTo
<1> QED
  BY <1>4 DEF K

(***************************************************************************)
(* The first k elements of a list.                                         *)
(***************************************************************************)
LEMMA FirstElements ==
    ASSUME NEW S, NEW s \in Seq(S)
    PROVE  /\ Len(s) \in Nat /\ DOMAIN s = 1..Len(s)
           /\ SubSeq(s, 1, 0) = <<>> /\ SubSeq(s, 1, Len(s)) = s
           /\ \A k \in 0..Len(s) : SubSeq(s, 1, k) \in Seq(S) /\ Len(SubSeq(s, 1, k)) = k
           /\ \A k \in 1..Len(s) : /\ s[k] \in S
                                   /\ SubSeq(s, 1, k) = Append(SubSeq(s, 1, k - 1), s[k])
<1>1. Len(s) \in Nat /\ DOMAIN s = 1..Len(s) /\ \A i \in 1..Len(s) : s[i] \in S
  BY LenProperties, ElementOfSeq
<1>2. SubSeq(s, 1, 0) = <<>> /\ SubSeq(s, 1, Len(s)) = s
  BY SubSeqEmpty, SubSeqFull
<1>3. ASSUME NEW k \in 0..Len(s) PROVE SubSeq(s, 1, k) \in Seq(S) /\ Len(SubSeq(s, 1, k)) = k
  <2>1. \A i \in 1..k : s[i] \in S
    BY <1>1
  <2>2. SubSeq(s, 1, k) \in Seq(S) /\ Len(SubSeq(s, 1, k)) = IF 1 <= k THEN k - 1 + 1 ELSE 0
    BY <1>1, <2>1, SubSeqProperties
  <2> QED
    BY <1>1, <2>2
<1>4. ASSUME NEW k \in 1..Len(s) PROVE SubSeq(s, 1, k) = Append(SubSeq(s, 1, k - 1), s[k])
  <2>1. SubSeq(s, 1, k) = SubSeq(s, 1, k - 1) \o <<s[k]>>
    <3>1. 1 \in 1..Len(s) /\ k \in 1..Len(s)
      BY <1>1
    <3> QED
      BY <3>1, SubSeqRecursiveSecond
  <2>2. SubSeq(s, 1, k - 1) \in Seq(S) /\ s[k] \in S
    BY <1>1, <1>3
  <2> QED
    BY <2>1, <2>2, AppendIsConcat
<1> QED
  BY <1>1, <1>2, <1>3, <1>4

----------------------------------------------------------------------------
(* Picked and Only.                                                        *)

\* f is the function behind Picked.
Picking(f, s, places) ==
    /\ f[0] = <<>>
    /\ \A k \in 1..Len(s) : f[k] = IF k \in places THEN Append(f[k - 1], s[k]) ELSE f[k - 1]

(***************************************************************************)
(* Picked goes through the list.                                           *)
(***************************************************************************)
LEMMA PickedSteps ==
    ASSUME NEW S, NEW s \in Seq(S), NEW places
    PROVE  \E f : /\ Picking(f, s, places)
                  /\ \A k \in 0..Len(s) : f[k] \in Seq(S)
                  /\ Picked(s, places) = f[Len(s)]
<1> DEFINE n == Len(s)
           Rec(f) == f = [k \in 0..n |->
                             IF k = 0 THEN <<>>
                             ELSE IF k \in places THEN Append(f[k - 1], s[k]) ELSE f[k - 1]]
           step == [p \in (1..n) \X Seq(S) |-> IF p[1] \in places THEN Append(p[2], s[p[1]]) ELSE p[2]]
<1>1. n \in Nat /\ \A k \in 1..n : s[k] \in S
  BY LenProperties, ElementOfSeq
<1>2. step \in [(1..n) \X Seq(S) -> Seq(S)]
  BY <1>1, AppendProperties
<1>3. <<>> \in Seq(S)
  BY EmptySeq
<1>4. Picked(s, places) = (CHOOSE f : Rec(f))[n]
  BY DEF Picked
<1>5. \E f : Rec(f)
  <2>1. PICK f \in [0..n -> Seq(S)] : f[0] = <<>> /\ \A k \in 1..n : f[k] = step[<<k, f[k - 1]>>]
    <3> DEFINE B == Seq(S)
               base == <<>>
    <3>1. n \in Nat /\ step \in [(1..n) \X B -> B] /\ base \in B
      BY <1>1, <1>2, <1>3
    <3> HIDE DEF step, n, B, base
    <3>2. PICK f \in [0..n -> B] : Recursive(f, n, base, step)
      BY <3>1, Recursion
    <3>3. f[0] = base /\ \A k \in 1..n : f[k] = step[<<k, f[k - 1]>>]
      BY <3>2 DEF Recursive
    <3> QED
      BY <3>3 DEF B, base
  <2>2. ASSUME NEW k \in 1..n
        PROVE  step[<<k, f[k - 1]>>] = IF k \in places THEN Append(f[k - 1], s[k]) ELSE f[k - 1]
    <3>1. k - 1 \in 0..n
      BY <1>1
    <3>2. f[k - 1] \in Seq(S)
      BY <2>1, <3>1
    <3> QED
      BY <3>2
  <2>3. Rec(f)
    <3> HIDE DEF step
    <3>1. \A k \in 0..n : k # 0 => k \in 1..n
      BY <1>1
    <3> QED
      BY <2>1, <2>2, <3>1
  <2> QED
    BY <2>3
<1> DEFINE c == CHOOSE f : Rec(f)
<1>6. Rec(c)
  <2> HIDE DEF Rec
  <2> QED
    BY <1>5
<1>7. Picked(s, places) = c[n]
  BY <1>4
<1> HIDE DEF c
<1>8. c[0] = <<>>
  BY <1>1, <1>6
<1>9. ASSUME NEW k \in 1..n PROVE c[k] = IF k \in places THEN Append(c[k - 1], s[k]) ELSE c[k - 1]
  <2>1. k \in 0..n /\ k # 0
    BY <1>1
  <2> QED
    BY <1>6, <2>1
<1> DEFINE T == {k \in 0..n : c[k] \in Seq(S)}
<1>10. \A k \in 0..n : k \in T
  <2>1. 0 \in T
    <3>1. 0 \in 0..n /\ c[0] \in Seq(S)
      BY <1>1, <1>3, <1>8
    <3> HIDE DEF n
    <3> QED
      BY <3>1
  <2>2. ASSUME NEW k \in 1..n, k - 1 \in T PROVE k \in T
    <3>1. c[k - 1] \in Seq(S) /\ s[k] \in S /\ k \in 0..n
      BY <1>1, <2>2
    <3>2. Append(c[k - 1], s[k]) \in Seq(S)
      BY <3>1, AppendProperties
    <3>3. c[k] \in Seq(S)
      BY <1>9, <3>1, <3>2
    <3> QED
      BY <3>1, <3>3
  <2> HIDE DEF T
  <2> QED
    BY <1>1, <2>1, <2>2, UpTo
<1>11. Picking(c, s, places)
  BY <1>8, <1>9 DEF Picking
<1> QED
  BY <1>7, <1>10, <1>11

(***************************************************************************)
(* Nothing is picked from the empty list.                                  *)
(***************************************************************************)
LEMMA PickedNone == \A p : Picked(<<>>, p) = <<>>
<1> SUFFICES ASSUME NEW p PROVE Picked(<<>>, p) = <<>>
  OBVIOUS
<1>1. <<>> \in Seq({}) /\ Len(<<>>) = 0
  BY EmptySeq
<1> DEFINE s == <<>>
<1>2. PICK f : Picking(f, s, p) /\ Picked(s, p) = f[Len(s)]
  <2> HIDE DEF s
  <2>1. s \in Seq({})
    BY <1>1 DEF s
  <2> QED
    BY <2>1, PickedSteps
<1>3. f[0] = <<>>
  BY <1>2 DEF Picking
<1> QED
  BY <1>1, <1>2, <1>3

(***************************************************************************)
(* Of a list with one more element, the same elements and maybe that one.  *)
(***************************************************************************)
LEMMA PickedAppend ==
    ASSUME NEW S, NEW s \in Seq(S), NEW e \in S, NEW p, NEW q,
           \A k \in 1..Len(s) : k \in p <=> k \in q
    PROVE  /\ Picked(s, p) \in Seq(S)
           /\ Picked(Append(s, e), q)
                 = IF Len(s) + 1 \in q THEN Append(Picked(s, p), e) ELSE Picked(s, p)
<1> DEFINE n == Len(s)
           t == Append(s, e)
<1>1. n \in Nat /\ t \in Seq(S) /\ Len(t) = n + 1 /\ t[n + 1] = e /\ \A k \in 1..n : t[k] = s[k]
  BY LenProperties, AppendProperties
<1>2. PICK f : Picking(f, s, p) /\ (\A k \in 0..n : f[k] \in Seq(S)) /\ Picked(s, p) = f[n]
  BY PickedSteps
<1>3. PICK g : Picking(g, t, q) /\ Picked(t, q) = g[Len(t)]
  <2>1. t \in Seq(S)
    BY <1>1
  <2> HIDE DEF t
  <2> QED
    BY <2>1, PickedSteps
<1>f. /\ f[0] = <<>>
      /\ \A k \in 1..n : f[k] = IF k \in p THEN Append(f[k - 1], s[k]) ELSE f[k - 1]
  BY <1>2 DEF Picking
<1>g. /\ g[0] = <<>>
      /\ \A k \in 1..(n + 1) : g[k] = IF k \in q THEN Append(g[k - 1], t[k]) ELSE g[k - 1]
  <2> HIDE DEF t, n
  <2> QED
    BY <1>1, <1>3 DEF Picking
<1> DEFINE T == {k \in 0..n : f[k] = g[k]}
<1>4. \A k \in 0..n : k \in T
  <2>1. 0 \in T
    BY <1>1, <1>f, <1>g
  <2>2. ASSUME NEW k \in 1..n, k - 1 \in T PROVE k \in T
    <3>1. f[k - 1] = g[k - 1] /\ t[k] = s[k] /\ (k \in p <=> k \in q) /\ k \in 1..(n + 1)
      BY <1>1, <2>2
    <3>2. f[k] = g[k]
      BY <1>f, <1>g, <3>1
    <3> QED
      BY <3>2
  <2> HIDE DEF T
  <2> QED
    BY <1>1, <2>1, <2>2, UpTo
<1>5. g[n] = f[n] /\ n + 1 \in 1..(n + 1) /\ n \in 0..n
  BY <1>1, <1>4
<1>6. Picked(t, q) = IF n + 1 \in q THEN Append(f[n], e) ELSE f[n]
  BY <1>1, <1>3, <1>g, <1>5
<1> QED
  BY <1>1, <1>2, <1>6

\* The elements of s that are in a set.
Those(s, set) == Picked(s, {i \in DOMAIN s : s[i] \in set})

(***************************************************************************)
(* Those of a list, element by element.                                    *)
(***************************************************************************)
LEMMA ThoseNone == \A set : Those(<<>>, set) = <<>>
BY PickedNone DEF Those

LEMMA ThoseTyped ==
    ASSUME NEW S, NEW set, NEW s \in Seq(S)
    PROVE  Those(s, set) \in Seq(S)
<1> DEFINE p == {i \in DOMAIN s : s[i] \in set}
<1>1. Len(s) \in 0..Len(s)
  BY LenProperties
<1>2. Picked(s, p) \in Seq(S)
  <2> HIDE DEF p
  <2> QED
    BY <1>1, PickedSteps
<1> QED
  BY <1>2 DEF Those

LEMMA ThoseAppend ==
    ASSUME NEW S, NEW set, NEW s \in Seq(S), NEW e \in S
    PROVE  Those(Append(s, e), set) = IF e \in set THEN Append(Those(s, set), e) ELSE Those(s, set)
<1> DEFINE P(u) == {i \in DOMAIN u : u[i] \in set}
<1> DEFINE t == Append(s, e)
<1>1. /\ Len(s) \in Nat /\ DOMAIN s = 1..Len(s) /\ DOMAIN t = 1..(Len(s) + 1)
      /\ t[Len(s) + 1] = e /\ \A k \in 1..Len(s) : t[k] = s[k]
  <2>1. t \in Seq(S) /\ Len(t) = Len(s) + 1
    BY AppendProperties
  <2>2. DOMAIN t = 1..Len(t)
    BY <2>1, LenProperties
  <2> QED
    BY <2>1, <2>2, LenProperties, AppendProperties
<1>2. \A k \in 1..Len(s) : k \in P(s) <=> k \in P(t)
  <2> HIDE DEF t
  <2> QED
    BY <1>1
<1>3. Len(s) + 1 \in P(t) <=> e \in set
  <2> HIDE DEF t
  <2> QED
    BY <1>1
<1> DEFINE p == P(s)
           q == P(t)
<1>4. Picked(t, q) = IF Len(s) + 1 \in q THEN Append(Picked(s, p), e) ELSE Picked(s, p)
  <2>1. \A k \in 1..Len(s) : k \in p <=> k \in q
    BY <1>2
  <2> HIDE DEF p, q
  <2> QED
    BY <2>1, PickedAppend
<1> QED
  BY <1>3, <1>4 DEF Those

(***************************************************************************)
(* Concatenation and Append.                                               *)
(***************************************************************************)
LEMMA ConcatAppend ==
    ASSUME NEW S, NEW s \in Seq(S), NEW t \in Seq(S), NEW e \in S
    PROVE  s \o Append(t, e) = Append(s \o t, e)
<1>1. s \o t \in Seq(S) /\ <<e>> \in Seq(S)
  <2>1. <<>> \in Seq(S) /\ <<e>> = Append(<<>>, e)
    BY EmptySeq
  <2> QED
    BY <2>1, ConcatProperties, AppendProperties
<1>2. Append(t, e) = t \o <<e>> /\ Append(s \o t, e) = (s \o t) \o <<e>>
  BY <1>1, AppendIsConcat
<1> QED
  BY <1>1, <1>2, ConcatAssociative

(***************************************************************************)
(* Those of two lists.                                                     *)
(***************************************************************************)
LEMMA ThoseConcat ==
    ASSUME NEW S, NEW set, NEW s \in Seq(S), NEW t \in Seq(S)
    PROVE  Those(s \o t, set) = Those(s, set) \o Those(t, set)
<1> DEFINE T == {u \in Seq(S) : Those(s \o u, set) = Those(s, set) \o Those(u, set)}
<1>1. Those(s, set) \in Seq(S)
  BY ThoseTyped
<1>2. <<>> \in T
  <2>1. s \o <<>> = s /\ Those(s, set) \o <<>> = Those(s, set) /\ <<>> \in Seq(S)
    BY <1>1, ConcatEmptySeq, EmptySeq
  <2>2. Those(<<>>, set) = <<>>
    BY ThoseNone
  <2> QED
    BY <2>1, <2>2
<1>3. ASSUME NEW u \in Seq(S), NEW e \in S, u \in T PROVE Append(u, e) \in T
  <2>1. s \o u \in Seq(S) /\ Append(u, e) \in Seq(S)
    BY ConcatProperties, AppendProperties
  <2>2. s \o Append(u, e) = Append(s \o u, e)
    BY ConcatAppend
  <2>3. Those(Append(u, e), set) = IF e \in set THEN Append(Those(u, set), e) ELSE Those(u, set)
    BY ThoseAppend
  <2> DEFINE su == s \o u
             a == Those(s, set)
             b == Those(u, set)
  <2>4. Those(Append(su, e), set) = IF e \in set THEN Append(Those(su, set), e) ELSE Those(su, set)
    <3>1. su \in Seq(S)
      BY <2>1
    <3> HIDE DEF su
    <3> QED
      BY <3>1, ThoseAppend
  <2>5. a \o Append(b, e) = Append(a \o b, e)
    <3>1. a \in Seq(S) /\ b \in Seq(S)
      BY ThoseTyped
    <3> HIDE DEF a, b
    <3> QED
      BY <3>1, ConcatAppend
  <2> QED
    BY <1>3, <2>1, <2>2, <2>3, <2>4, <2>5
<1> HIDE DEF T
<1>4. t \in T
  BY <1>2, <1>3, ListInduction
<1> QED
  BY <1>4 DEF T

(***************************************************************************)
(* The elements of a list.                                                 *)
(***************************************************************************)
LEMMA Elements ==
    ASSUME NEW S
    PROVE  /\ ToSet(<<>>) = {}
           /\ \A s \in Seq(S) : ToSet(s) \subseteq S
           /\ \A s \in Seq(S), e \in S : ToSet(Append(s, e)) = ToSet(s) \union {e}
           /\ \A s \in Seq(S), t \in Seq(S) : ToSet(s \o t) = ToSet(s) \union ToSet(t)
<1>1. ToSet(<<>>) = {}
  BY DEF ToSet
<1>2. ASSUME NEW s \in Seq(S) PROVE ToSet(s) \subseteq S
  BY LenProperties, ElementOfSeq DEF ToSet
<1>3. ASSUME NEW s \in Seq(S), NEW e \in S PROVE ToSet(Append(s, e)) = ToSet(s) \union {e}
  <2> DEFINE t == Append(s, e)
             n == Len(s)
  <2>1. t \in Seq(S) /\ Len(t) = n + 1 /\ t[n + 1] = e /\ \A k \in 1..n : t[k] = s[k]
    BY AppendProperties
  <2>2. n \in Nat /\ DOMAIN s = 1..n /\ DOMAIN t = 1..(n + 1)
    BY <2>1, LenProperties
  <2> HIDE DEF t, n
  <2>3. ToSet(t) = ToSet(s) \union {e}
    BY <2>1, <2>2 DEF ToSet
  <2> QED
    BY <2>3 DEF t
<1>4. ASSUME NEW s \in Seq(S), NEW t \in Seq(S) PROVE ToSet(s \o t) = ToSet(s) \union ToSet(t)
  <2> DEFINE u == s \o t
             n == Len(s)
             m == Len(t)
  <2>1. u \in Seq(S) /\ Len(u) = n + m /\ \A k \in 1..(n + m) : u[k] = IF k <= n THEN s[k] ELSE t[k - n]
    BY ConcatProperties
  <2>2. n \in Nat /\ m \in Nat /\ DOMAIN s = 1..n /\ DOMAIN t = 1..m /\ DOMAIN u = 1..(n + m)
    BY <2>1, LenProperties
  <2> HIDE DEF u, n, m
  <2>3. ASSUME NEW x \in ToSet(u) PROVE x \in ToSet(s) \union ToSet(t)
    <3>1. PICK k \in 1..(n + m) : x = u[k]
      BY <2>2 DEF ToSet
    <3>2. CASE k <= n
      BY <2>1, <2>2, <3>1, <3>2 DEF ToSet
    <3>3. CASE ~(k <= n)
      <4>1. k - n \in 1..m /\ x = t[k - n]
        BY <2>1, <2>2, <3>1, <3>3
      <4> QED
        BY <2>2, <4>1 DEF ToSet
    <3> QED
      BY <3>2, <3>3
  <2>4. ASSUME NEW x \in ToSet(s) PROVE x \in ToSet(u)
    BY <2>1, <2>2 DEF ToSet
  <2>5. ASSUME NEW x \in ToSet(t) PROVE x \in ToSet(u)
    <3>1. PICK k \in 1..m : x = t[k]
      BY <2>2 DEF ToSet
    <3>2. k + n \in 1..(n + m) /\ u[k + n] = x
      BY <2>1, <2>2, <3>1
    <3> QED
      BY <2>2, <3>2 DEF ToSet
  <2> QED
    BY <2>3, <2>4, <2>5 DEF u
<1> QED
  BY <1>1, <1>2, <1>3, <1>4

(***************************************************************************)
(* The elements of those.                                                  *)
(***************************************************************************)
LEMMA ThoseElements ==
    ASSUME NEW S, NEW set, NEW s \in Seq(S)
    PROVE  ToSet(Those(s, set)) = ToSet(s) \intersect set
<1> DEFINE T == {u \in Seq(S) : ToSet(Those(u, set)) = ToSet(u) \intersect set}
<1>1. <<>> \in T
  BY ThoseNone, EmptySeq, Elements
<1>2. ASSUME NEW u \in Seq(S), NEW e \in S, u \in T PROVE Append(u, e) \in T
  <2>1. Those(Append(u, e), set) = IF e \in set THEN Append(Those(u, set), e) ELSE Those(u, set)
    BY ThoseAppend
  <2>2. Those(u, set) \in Seq(S) /\ Append(u, e) \in Seq(S)
    BY ThoseTyped, AppendProperties
  <2>3. ToSet(Append(u, e)) = ToSet(u) \union {e}
    BY Elements
  <2>4. ToSet(Append(Those(u, set), e)) = ToSet(Those(u, set)) \union {e}
    BY <2>2, Elements
  <2> QED
    BY <1>2, <2>1, <2>2, <2>3, <2>4
<1> HIDE DEF T
<1>3. s \in T
  BY <1>1, <1>2, ListInduction
<1> QED
  BY <1>3 DEF T

----------------------------------------------------------------------------
(* FlattenSeq.                                                             *)

\* f is the function behind FlattenSeq.
Flattening(f, ss) == f[1] = ss[1] /\ \A k \in 2..Len(ss) : f[k] = f[k - 1] \o ss[k]

(***************************************************************************)
(* FlattenSeq puts the lists one behind the other.                         *)
(***************************************************************************)
LEMMA FlattenSteps ==
    ASSUME NEW S, NEW ss \in Seq(Seq(S)), ss # <<>>
    PROVE  \E f : /\ Flattening(f, ss)
                  /\ \A k \in 1..Len(ss) : f[k] \in Seq(S)
                  /\ FlattenSeq(ss) = f[Len(ss)]
<1> DEFINE n == Len(ss)
           B == Seq(S)
           Rec(f) == f = [i \in 1..n |-> IF i = 1 THEN ss[i] ELSE f[i - 1] \o ss[i]]
           step == [p \in (1..n) \X B |-> p[2] \o ss[p[1]]]
           base == <<>>
<1>1. n \in Nat \ {0} /\ \A k \in 1..n : ss[k] \in B
  BY EmptySeq, ElementOfSeq
<1>2. step \in [(1..n) \X B -> B] /\ base \in B
  BY <1>1, ConcatProperties, EmptySeq
<1>3. PICK h \in [0..n -> B] : Recursive(h, n, base, step)
  <2> HIDE DEF step, n, B, base
  <2> QED
    BY <1>1, <1>2, Recursion
<1>4. h[0] = base /\ \A k \in 1..n : h[k] = step[<<k, h[k - 1]>>]
  BY <1>3 DEF Recursive
<1>5. ASSUME NEW k \in 1..n PROVE h[k] = h[k - 1] \o ss[k] /\ h[k - 1] \in B
  <2>1. k - 1 \in 0..n
    BY <1>1
  <2>2. h[k - 1] \in B /\ h[k] = step[<<k, h[k - 1]>>]
    <3> HIDE DEF step, B
    <3> QED
      BY <1>3, <1>4, <2>1
  <2>3. <<k, h[k - 1]>> \in (1..n) \X B
    <3> HIDE DEF B
    <3> QED
      BY <2>2
  <2> QED
    BY <2>2, <2>3
<1>6. h[1] = ss[1]
  <2>1. 1 \in 1..n /\ 1 - 1 = 0
    BY <1>1
  <2>2. h[1] = h[0] \o ss[1] /\ ss[1] \in B
    <3> HIDE DEF B, n
    <3> QED
      BY <1>1, <1>5, <2>1
  <2>3. h[1] = <<>> \o ss[1]
    BY <1>4, <2>2
  <2> QED
    BY <2>2, <2>3, ConcatEmptySeq
<1>7. \E f : Rec(f)
  <2> DEFINE f == [i \in 1..n |-> h[i]]
  <2>1. Rec(f)
    <3>1. ASSUME NEW i \in 1..n PROVE h[i] = IF i = 1 THEN ss[i] ELSE f[i - 1] \o ss[i]
      <4>1. CASE i = 1
        BY <1>6, <4>1
      <4>2. CASE i # 1
        <5>1. i - 1 \in 1..n /\ f[i - 1] = h[i - 1]
          BY <1>1, <4>2
        <5> QED
          BY <1>5, <4>2, <5>1
      <4> QED
        BY <4>1, <4>2
    <3> QED
      BY <3>1
  <2> HIDE DEF Rec, f
  <2> QED
    BY <2>1
<1> DEFINE c == CHOOSE f : Rec(f)
<1>8. Rec(c)
  <2> HIDE DEF Rec
  <2> QED
    BY <1>7
<1>9. FlattenSeq(ss) = c[n]
  BY <1>1 DEF FlattenSeq
<1> HIDE DEF c
<1>10. \A k \in 1..n : c[k] = IF k = 1 THEN ss[k] ELSE c[k - 1] \o ss[k]
  BY <1>8
<1>11. Flattening(c, ss)
  <2>1. 1 \in 1..n /\ \A k \in 2..n : k \in 1..n /\ k # 1
    BY <1>1
  <2>2. c[1] = ss[1] /\ \A k \in 2..n : c[k] = c[k - 1] \o ss[k]
    <3> HIDE DEF n
    <3> QED
      BY <1>10, <2>1
  <2> QED
    BY <2>2 DEF Flattening
<1> DEFINE T == {k \in 0..n : k # 0 => c[k] \in Seq(S)}
<1>12. \A k \in 0..n : k \in T
  <2>1. 0 \in T
    BY <1>1
  <2>2. ASSUME NEW k \in 1..n, k - 1 \in T PROVE k \in T
    <3>1. CASE k = 1
      BY <1>1, <1>10, <3>1, SMTT(30)
    <3>2. CASE k # 1
      <4>1. k - 1 # 0 /\ k \in 0..n /\ ss[k] \in Seq(S) /\ c[k] = c[k - 1] \o ss[k]
        <5>1. ss[k] \in Seq(S)
          BY <1>1
        <5> HIDE DEF n
        <5>2. k - 1 # 0 /\ k \in 0..n
          BY <1>1, <3>2
        <5>3. c[k] = c[k - 1] \o ss[k]
          BY <1>10, <3>2
        <5> QED
          BY <5>1, <5>2, <5>3
      <4>2. c[k - 1] \in Seq(S)
        BY <2>2, <4>1
      <4>3. c[k] \in Seq(S)
        BY <4>1, <4>2, ConcatProperties
      <4> HIDE DEF n
      <4> QED
        BY <4>1, <4>3
    <3> QED
      BY <3>1, <3>2
  <2> HIDE DEF T
  <2> QED
    BY <1>1, <2>1, <2>2, UpTo
<1> QED
  BY <1>1, <1>9, <1>11, <1>12

LEMMA FlattenNone == FlattenSeq(<<>>) = <<>>
BY DEF FlattenSeq

LEMMA FlattenTyped ==
    ASSUME NEW S, NEW ss \in Seq(Seq(S))
    PROVE  FlattenSeq(ss) \in Seq(S)
<1>1. CASE ss = <<>>
  BY <1>1, FlattenNone, EmptySeq
<1>2. CASE ss # <<>>
  <2>1. Len(ss) \in 1..Len(ss)
    BY <1>2, EmptySeq
  <2> QED
    BY <1>2, <2>1, FlattenSteps
<1> QED
  BY <1>1, <1>2

(***************************************************************************)
(* One list more.                                                          *)
(***************************************************************************)
LEMMA FlattenAppend ==
    ASSUME NEW S, NEW ss \in Seq(Seq(S)), NEW x \in Seq(S)
    PROVE  FlattenSeq(Append(ss, x)) = FlattenSeq(ss) \o x
<1> DEFINE t == Append(ss, x)
           n == Len(ss)
<1>1. /\ n \in Nat /\ t \in Seq(Seq(S)) /\ t # <<>> /\ Len(t) = n + 1
      /\ t[n + 1] = x /\ \A k \in 1..n : t[k] = ss[k]
  BY LenProperties, AppendProperties
<1>2. PICK g : Flattening(g, t) /\ FlattenSeq(t) = g[Len(t)]
  <2> HIDE DEF t, n
  <2> QED
    BY <1>1, FlattenSteps
<1>3. g[1] = t[1] /\ \A k \in 2..(n + 1) : g[k] = g[k - 1] \o t[k]
  <2> HIDE DEF t, n
  <2> QED
    BY <1>1, <1>2 DEF Flattening
<1>4. CASE ss = <<>>
  <2>1. n = 0 /\ FlattenSeq(ss) = <<>>
    BY <1>4, EmptySeq, FlattenNone
  <2>2. FlattenSeq(t) = x
    <3> HIDE DEF t, n
    <3> QED
      BY <1>1, <1>2, <1>3, <2>1
  <2> QED
    BY <2>1, <2>2, ConcatEmptySeq
<1>5. CASE ss # <<>>
  <2>1. PICK f : Flattening(f, ss) /\ FlattenSeq(ss) = f[n]
    BY <1>5, FlattenSteps
  <2>2. f[1] = ss[1] /\ \A k \in 2..n : f[k] = f[k - 1] \o ss[k]
    BY <2>1 DEF Flattening
  <2>3. n \in Nat \ {0}
    BY <1>5, EmptySeq
  <2> DEFINE T == {k \in 0..n : k # 0 => f[k] = g[k]}
  <2>4. \A k \in 0..n : k \in T
    <3>1. 0 \in T
      BY <1>1
    <3>2. ASSUME NEW k \in 1..n, k - 1 \in T PROVE k \in T
      <4> HIDE DEF t, n
      <4>1. CASE k = 1
        BY <1>1, <1>3, <2>2, <4>1
      <4>2. CASE k # 1
        <5>1. f[k - 1] = g[k - 1] /\ k \in 2..n /\ k \in 2..(n + 1) /\ t[k] = ss[k]
          BY <1>1, <3>2, <4>2
        <5>2. f[k] = g[k]
          BY <1>3, <2>2, <5>1
        <5> QED
          BY <5>2
      <4> QED
        BY <4>1, <4>2
    <3> HIDE DEF T
    <3> QED
      BY <1>1, <3>1, <3>2, UpTo
  <2>5. f[n] = g[n] /\ n + 1 \in 2..(n + 1)
    BY <2>3, <2>4
  <2> DEFINE k == n + 1
  <2> HIDE DEF t, n
  <2>6. FlattenSeq(t) = g[n] \o x
    <3>1. k \in 2..(n + 1) /\ k - 1 = n
      BY <1>1, <2>5
    <3> HIDE DEF k
    <3>2. g[k] = g[k - 1] \o t[k]
      BY <1>3, <3>1
    <3> QED
      BY <1>1, <1>2, <3>1, <3>2 DEF k
  <2> QED
    BY <2>1, <2>5, <2>6 DEF t
<1> QED
  BY <1>4, <1>5

(***************************************************************************)
(* Two lists of lists.                                                     *)
(***************************************************************************)
LEMMA FlattenConcat ==
    ASSUME NEW S, NEW ss \in Seq(Seq(S)), NEW tt \in Seq(Seq(S))
    PROVE  FlattenSeq(ss \o tt) = FlattenSeq(ss) \o FlattenSeq(tt)
<1> DEFINE B == Seq(S)
           T == {u \in Seq(B) : FlattenSeq(ss \o u) = FlattenSeq(ss) \o FlattenSeq(u)}
           a == FlattenSeq(ss)
<1>1. a \in Seq(S)
  BY FlattenTyped
<1>2. <<>> \in T
  <2>1. ss \o <<>> = ss /\ a \o <<>> = a /\ <<>> \in Seq(B)
    BY <1>1, ConcatEmptySeq, EmptySeq
  <2> QED
    BY <2>1, FlattenNone
<1>3. ASSUME NEW u \in Seq(B), NEW e \in B, u \in T PROVE Append(u, e) \in T
  <2>1. ss \o u \in Seq(B) /\ Append(u, e) \in Seq(B)
    BY ConcatProperties, AppendProperties
  <2>2. ss \o Append(u, e) = Append(ss \o u, e)
    BY ConcatAppend
  <2> DEFINE su == ss \o u
             b == FlattenSeq(u)
  <2>3. FlattenSeq(Append(su, e)) = FlattenSeq(su) \o e
    <3>1. su \in Seq(Seq(S)) /\ e \in Seq(S)
      BY <2>1
    <3> HIDE DEF su
    <3> QED
      BY <3>1, FlattenAppend
  <2>4. FlattenSeq(Append(u, e)) = b \o e
    BY FlattenAppend
  <2>5. (a \o b) \o e = a \o (b \o e)
    <3>1. b \in Seq(S)
      BY FlattenTyped
    <3> HIDE DEF a, b
    <3> QED
      BY <1>1, <3>1, ConcatAssociative, SMTT(30)
  <2>6. FlattenSeq(su) = a \o b
    BY <1>3
  <2>7. FlattenSeq(ss \o Append(u, e)) = a \o FlattenSeq(Append(u, e))
    <3> HIDE DEF a, b
    <3> QED
      BY <2>2, <2>3, <2>4, <2>5, <2>6
  <2> QED
    BY <2>1, <2>7
<1> HIDE DEF T
<1>4. tt \in T
  <2> HIDE DEF B
  <2>1. tt \in Seq(B)
    BY DEF B
  <2> QED
    BY <1>2, <1>3, <2>1, ListInduction
<1> QED
  BY <1>4 DEF T

(***************************************************************************)
(* One list.                                                               *)
(***************************************************************************)
LEMMA FlattenOne ==
    ASSUME NEW S, NEW x \in Seq(S)
    PROVE  <<x>> \in Seq(Seq(S)) /\ FlattenSeq(<<x>>) = x
<1>1. <<>> \in Seq(Seq(S)) /\ Append(<<>>, x) = <<x>>
  BY EmptySeq
<1>2. FlattenSeq(Append(<<>>, x)) = <<>> \o x
  BY <1>1, FlattenAppend, FlattenNone
<1> QED
  BY <1>1, <1>2, ConcatEmptySeq, AppendProperties

(***************************************************************************)
(* The end of a list.                                                      *)
(***************************************************************************)
LEMMA Ends ==
    ASSUME NEW S, NEW s \in Seq(S), s # <<>>
    PROVE  Last(s) \in S /\ Front(s) \in Seq(S) /\ s = Append(Front(s), Last(s)) /\ Len(Front(s)) = Len(s) - 1
<1>1. Len(s) \in Nat \ {0}
  BY EmptySeq
<1>2. Len(s) \in 1..Len(s) /\ Len(s) - 1 \in 0..Len(s)
  BY <1>1
<1> QED
  BY <1>2, FirstElements DEF Last, Front

----------------------------------------------------------------------------
(* Lists made element by element.                                          *)

\* What f makes of each element of s.
Mapped(s, f) == [i \in DOMAIN s |-> f[s[i]]]

\* The functions from S to B.
Maps(S, B) == [S -> B]

LEMMA MappedNone == \A f : Mapped(<<>>, f) = <<>>
BY DEF Mapped

(***************************************************************************)
(* One element more.                                                       *)
(***************************************************************************)
LEMMA MappedAppend ==
    ASSUME NEW S, NEW B, NEW f \in Maps(S, B), NEW s \in Seq(S), NEW e \in S
    PROVE  Mapped(s, f) \in Seq(B) /\ Mapped(Append(s, e), f) = Append(Mapped(s, f), f[e])
<1>0. f \in [S -> B]
  BY DEF Maps
<1> DEFINE n == Len(s)
           t == Append(s, e)
           ms == Mapped(s, f)
           mt == Mapped(t, f)
<1>1. /\ n \in Nat /\ DOMAIN s = 1..n /\ \A k \in 1..n : s[k] \in S
      /\ t \in Seq(S) /\ Len(t) = n + 1 /\ t[n + 1] = e /\ \A k \in 1..n : t[k] = s[k]
  BY LenProperties, ElementOfSeq, AppendProperties
<1>2. DOMAIN t = 1..(n + 1)
  BY <1>1, LenProperties
<1> HIDE DEF n, t
<1>3. ms = [k \in 1..n |-> f[s[k]]] /\ mt = [k \in 1..(n + 1) |-> f[t[k]]]
  BY <1>1, <1>2 DEF Mapped
<1>4. ms \in Seq(B) /\ Len(ms) = n
  <2>1. \A k \in 1..n : f[s[k]] \in B
    BY <1>0, <1>1
  <2> QED
    BY <1>1, <1>3, <2>1
<1>5. f[e] \in B
  BY <1>0
<1> HIDE DEF ms, mt
<1> DEFINE x == f[e]
           u == Append(ms, x)
<1>6. u \in Seq(B) /\ Len(u) = n + 1 /\ u[n + 1] = x /\ \A k \in 1..n : u[k] = ms[k]
  <2> HIDE DEF x
  <2>1. x \in B
    BY <1>5 DEF x
  <2> QED
    BY <1>4, <2>1, AppendProperties
<1>7. mt \in Seq(B) /\ Len(mt) = n + 1
  <2>1. \A k \in 1..(n + 1) : t[k] \in S
    BY <1>1
  <2>2. \A k \in 1..(n + 1) : f[t[k]] \in B
    BY <1>0, <2>1
  <2> QED
    BY <1>1, <1>3, <2>2
<1>8. \A k \in 1..(n + 1) : mt[k] = u[k]
  <2> SUFFICES ASSUME NEW k \in 1..(n + 1) PROVE mt[k] = u[k]
    OBVIOUS
  <2> HIDE DEF u
  <2>1. CASE k = n + 1
    BY <1>1, <1>3, <1>6, <2>1 DEF x
  <2>2. CASE k \in 1..n
    BY <1>1, <1>3, <1>6, <2>2
  <2> QED
    BY <1>1, <2>1, <2>2
<1>9. mt = u
  <2> HIDE DEF u
  <2> QED
    BY <1>6, <1>7, <1>8, SeqEqual
<1> QED
  BY <1>4, <1>9 DEF ms, mt, t, u, x

(***************************************************************************)
(* The elements of what is made of a list.                                 *)
(***************************************************************************)
LEMMA MappedElements ==
    ASSUME NEW s, NEW f
    PROVE  ToSet(Mapped(s, f)) = {f[x] : x \in ToSet(s)} /\ DOMAIN Mapped(s, f) = DOMAIN s
BY DEF ToSet, Mapped

(***************************************************************************)
(* A list is one of its own elements.                                      *)
(***************************************************************************)
LEMMA OwnElements ==
    ASSUME NEW S, NEW s \in Seq(S)
    PROVE  s \in Seq(ToSet(s))
<1>1. Len(s) \in Nat /\ s = [k \in 1..Len(s) |-> s[k]] /\ \A k \in 1..Len(s) : s[k] \in ToSet(s)
  BY LenProperties DEF ToSet
<1> QED
  BY <1>1

(***************************************************************************)
(* Those of a list whose elements are all in the set.                      *)
(***************************************************************************)
LEMMA ThoseAll ==
    ASSUME NEW set, NEW s \in Seq(set)
    PROVE  Those(s, set) = s
<1> DEFINE T == {u \in Seq(set) : Those(u, set) = u}
<1>1. <<>> \in T
  BY ThoseNone, EmptySeq
<1>2. ASSUME NEW u \in Seq(set), NEW e \in set, u \in T PROVE Append(u, e) \in T
  <2>1. Those(Append(u, e), set) = Append(Those(u, set), e) /\ Append(u, e) \in Seq(set)
    BY ThoseAppend, AppendProperties
  <2> QED
    BY <1>2, <2>1
<1> HIDE DEF T
<1>3. s \in T
  BY <1>1, <1>2, ListInduction
<1> QED
  BY <1>3 DEF T

(***************************************************************************)
(* The elements of lists one behind the other.                             *)
(***************************************************************************)
LEMMA FlattenElements ==
    ASSUME NEW S, NEW ss \in Seq(Seq(S))
    PROVE  ToSet(FlattenSeq(ss)) = UNION {ToSet(x) : x \in ToSet(ss)}
<1> DEFINE B == Seq(S)
           T == {u \in Seq(B) : ToSet(FlattenSeq(u)) = UNION {ToSet(x) : x \in ToSet(u)}}
<1>1. <<>> \in T
  <2>1. <<>> \in Seq(B) /\ ToSet(<<>>) = {} /\ FlattenSeq(<<>>) = <<>>
    BY FlattenNone, EmptySeq, Elements
  <2> QED
    BY <2>1
<1>2. ASSUME NEW u \in Seq(B), NEW e \in B, u \in T PROVE Append(u, e) \in T
  <2>1. FlattenSeq(Append(u, e)) = FlattenSeq(u) \o e /\ FlattenSeq(u) \in Seq(S) /\ Append(u, e) \in Seq(B)
    BY FlattenAppend, FlattenTyped, AppendProperties
  <2>2. ToSet(Append(u, e)) = ToSet(u) \union {e}
    <3> HIDE DEF B
    <3> QED
      BY Elements
  <2> DEFINE a == FlattenSeq(u)
  <2>3. ToSet(a \o e) = ToSet(a) \union ToSet(e)
    <3>1. a \in Seq(S)
      BY <2>1
    <3> HIDE DEF a
    <3> QED
      BY <3>1, Elements
  <2> QED
    BY <1>2, <2>1, <2>2, <2>3
<1> HIDE DEF T
<1>3. ss \in T
  <2> HIDE DEF B
  <2>1. ss \in Seq(B)
    BY DEF B
  <2> QED
    BY <1>1, <1>2, <2>1, ListInduction
<1> QED
  BY <1>3 DEF T

(***************************************************************************)
(* One element more, of which f makes a list.                              *)
(***************************************************************************)
LEMMA FlattenMapped ==
    ASSUME NEW S, NEW R, NEW f \in Maps(S, Seq(R)), NEW s \in Seq(S), NEW e \in S
    PROVE  /\ FlattenSeq(Mapped(s, f)) \in Seq(R)
           /\ FlattenSeq(Mapped(Append(s, e), f)) = FlattenSeq(Mapped(s, f)) \o f[e]
<1> DEFINE ms == Mapped(s, f)
           x == f[e]
           t == Append(s, e)
<1>1. ms \in Seq(Seq(R)) /\ Mapped(t, f) = Append(ms, x)
  BY MappedAppend
<1>2. x \in Seq(R)
  BY DEF Maps
<1> HIDE DEF ms, x, t
<1>3. FlattenSeq(Append(ms, x)) = FlattenSeq(ms) \o x /\ FlattenSeq(ms) \in Seq(R)
  BY <1>1, <1>2, FlattenAppend, FlattenTyped
<1> QED
  BY <1>1, <1>3 DEF ms, x, t
============================================================================
