--------------------------- MODULE ChunkerProofs ---------------------------
(***************************************************************************)
(* What the chunker does to every text, whatever its length and limit.     *)
(* The loops of the code are folds over lines, blocks and items; each has  *)
(* an invariant, which holds by induction on the elements read so far.     *)
(***************************************************************************)
EXTENDS MCChunker, ListProofs

Blocks == [kind : {"text", "table", "code"}, lines : Seq(Line)]

----------------------------------------------------------------------------
(* The loops, element by element.                                          *)

TableAcc == [blocks : Seq(Blocks), kind : {"text", "table"}, buf : Seq(Line)]

NoTables == [blocks |-> <<>>, kind |-> "text", buf |-> <<>>]

(***************************************************************************)
(* A block of some lines.                                                  *)
(***************************************************************************)
LEMMA FlushTyped ==
    ASSUME NEW kind \in {"text", "table", "code"}, NEW lines \in Seq(Line)
    PROVE  Flush(kind, lines) \in Seq(Blocks)
<1>1. CASE lines = <<>>
  BY <1>1, EmptySeq DEF Flush
<1>2. CASE lines # <<>>
  <2>1. Block(kind, lines) \in Blocks
    BY DEF Block, Blocks
  <2> DEFINE b == Block(kind, lines)
  <2>2. <<b>> \in Seq(Blocks)
    BY <2>1
  <2> QED
    BY <1>2, <2>2 DEF Flush
<1> QED
  BY <1>1, <1>2

LEMMA NextTextLineTyped ==
    ASSUME NEW acc \in TableAcc, NEW line \in Line
    PROVE  NextTextLine(acc, line) \in TableAcc
<1> DEFINE inTable == acc.kind = "table"
           done == IF inTable THEN acc.blocks \o Flush("table", acc.buf) ELSE acc.blocks
           prose == IF inTable THEN <<>> ELSE acc.buf
           head == IF prose # <<>> /\ IsRow(Last(prose)) THEN <<Last(prose)>> ELSE <<>>
           above == SubSeq(prose, 1, Len(prose) - Len(head))
<1>1. acc.blocks \in Seq(Blocks) /\ acc.buf \in Seq(Line)
  BY DEF TableAcc
<1>2. done \in Seq(Blocks)
  <2>1. Flush("table", acc.buf) \in Seq(Blocks)
    BY <1>1, FlushTyped
  <2> QED
    BY <1>1, <2>1, ConcatProperties
<1>3. prose \in Seq(Line)
  BY <1>1, EmptySeq
<1>4. head \in Seq(Line) /\ above \in Seq(Line)
  <2> HIDE DEF prose
  <2>1. CASE prose # <<>> /\ IsRow(Last(prose))
    <3>1. Last(prose) \in Line /\ Front(prose) \in Seq(Line)
      BY <1>3, <2>1, Ends
    <3>2. head = <<Last(prose)>> /\ Len(head) = 1
      BY <2>1
    <3> QED
      BY <3>1, <3>2 DEF Front
  <2>2. CASE ~(prose # <<>> /\ IsRow(Last(prose)))
    <3>1. head = <<>> /\ Len(head) = 0
      BY <2>2
    <3>2. Len(prose) \in Nat
      BY <1>3, LenProperties
    <3>3. above = prose
      BY <1>3, <3>1, <3>2, SubSeqFull
    <3> QED
      BY <1>3, <3>1, <3>3, EmptySeq
  <2> QED
    BY <2>1, <2>2
<1>5. NextTextLine(acc, line)
         = CASE inTable /\ IsRow(line) -> [acc EXCEPT !.buf = Append(@, line)]
             [] ~(inTable /\ IsRow(line)) /\ IsRule(line) ->
                  [blocks |-> done \o Flush("text", above), kind |-> "table", buf |-> Append(head, line)]
             [] OTHER -> [blocks |-> done, kind |-> "text", buf |-> Append(prose, line)]
  BY DEF NextTextLine
<1>6. done \o Flush("text", above) \in Seq(Blocks)
  <2>1. Flush("text", above) \in Seq(Blocks)
    BY <1>4, FlushTyped
  <2> HIDE DEF done
  <2> QED
    BY <1>2, <2>1, ConcatProperties
<1>7. Append(acc.buf, line) \in Seq(Line) /\ Append(head, line) \in Seq(Line) /\ Append(prose, line) \in Seq(Line)
  <2> HIDE DEF head, prose
  <2> QED
    BY <1>1, <1>3, <1>4, AppendProperties
<1> HIDE DEF inTable, done, prose, head, above
<1>8. CASE inTable /\ IsRow(line)
  BY <1>5, <1>7, <1>8 DEF TableAcc
<1>9. CASE ~(inTable /\ IsRow(line)) /\ IsRule(line)
  BY <1>5, <1>6, <1>7, <1>9 DEF TableAcc
<1>10. CASE ~(inTable /\ IsRow(line)) /\ ~IsRule(line)
  BY <1>2, <1>5, <1>7, <1>10 DEF TableAcc
<1> QED
  BY <1>8, <1>9, <1>10

(***************************************************************************)
(* _split_text_and_tables, line by line.                                   *)
(***************************************************************************)
LEMMA TextLoop ==
    ASSUME NEW s \in Seq(Line), NEW T, <<NoTables, <<>>>> \in T,
           \A acc \in TableAcc, pre \in Seq(Line), x \in Line :
              <<acc, pre>> \in T => <<NextTextLine(acc, x), Append(pre, x)>> \in T
    PROVE  LET fold == FoldLeft(NextTextLine, NoTables, s) IN fold \in TableAcc /\ <<fold, s>> \in T
<1> DEFINE n == Len(s)
           Rec(f) == f = [t \in SUBSET (1..n) |->
                             IF t = {} THEN NoTables ELSE NextTextLine(f[t \ {Max(t)}], s[Max(t)])]
           step == [p \in (1..n) \X TableAcc |-> NextTextLine(p[2], s[p[1]])]
<1>1. n \in Nat /\ DOMAIN s = 1..n /\ \A k \in 1..n : s[k] \in Line
  BY LenProperties, ElementOfSeq
<1>2. step \in [(1..n) \X TableAcc -> TableAcc]
  BY <1>1, NextTextLineTyped
<1>3. NoTables \in TableAcc
  BY EmptySeq DEF NoTables, TableAcc
<1>4. FoldLeft(NextTextLine, NoTables, s) = (CHOOSE f : Rec(f))[1..n]
  BY <1>1 DEF FoldLeft, MapThenFoldSet
<1>5. \E f : Rec(f)
  <2>1. PICK h \in [SUBSET (1..n) -> TableAcc] : Folding(h, n, NoTables, step)
    <3> HIDE DEF step, n
    <3> QED
      BY <1>1, <1>2, <1>3, FoldExists
  <2>2. \A t \in SUBSET (1..n) : h[t] = IF t = {} THEN NoTables ELSE step[<<Max(t), h[t \ {Max(t)}]>>]
    BY <2>1 DEF Folding
  <2>3. ASSUME NEW t \in SUBSET (1..n), t # {}
        PROVE  h[t] = NextTextLine(h[t \ {Max(t)}], s[Max(t)])
    <3>1. Max(t) \in 1..n
      BY <1>1, <2>3, MaxUpTo
    <3>2. h[t \ {Max(t)}] \in TableAcc
      BY <2>1
    <3>3. h[t] = step[<<Max(t), h[t \ {Max(t)}]>>]
      BY <2>2, <2>3
    <3> QED
      BY <3>1, <3>2, <3>3
  <2> DEFINE f == [t \in SUBSET (1..n) |-> h[t]]
  <2>4. Rec(f)
    <3>1. ASSUME NEW t \in SUBSET (1..n)
          PROVE  h[t] = IF t = {} THEN NoTables ELSE NextTextLine(f[t \ {Max(t)}], s[Max(t)])
      <4>1. CASE t = {}
        BY <2>2, <4>1
      <4>2. CASE t # {}
        <5>1. f[t \ {Max(t)}] = h[t \ {Max(t)}]
          OBVIOUS
        <5> QED
          BY <2>3, <4>2, <5>1
      <4> QED
        BY <4>1, <4>2
    <3> QED
      BY <3>1
  <2> HIDE DEF Rec, f
  <2> QED
    BY <2>4
<1> DEFINE c == CHOOSE f : Rec(f)
<1>6. Rec(c)
  <2> HIDE DEF Rec
  <2> QED
    BY <1>5
<1>7. FoldLeft(NextTextLine, NoTables, s) = c[1..n]
  BY <1>4
<1> HIDE DEF c
<1> DEFINE K == {k \in 0..n : c[1..k] \in TableAcc /\ <<c[1..k], SubSeq(s, 1, k)>> \in T}
<1>8. 0 \in K
  <2>1. c[1..0] = NoTables
    BY <1>1, <1>6, Intervals
  <2>2. SubSeq(s, 1, 0) = <<>>
    BY FirstElements
  <2> HIDE DEF n
  <2> QED
    BY <1>1, <1>3, <2>1, <2>2
<1>9. ASSUME NEW k \in 1..n, k - 1 \in K PROVE k \in K
  <2>1. 1..k \in SUBSET (1..n) /\ 1..k # {} /\ Max(1..k) = k /\ (1..k) \ {k} = 1..(k - 1)
    BY <1>1, Intervals
  <2> DEFINE acc == c[1..(k - 1)]
             pre == SubSeq(s, 1, k - 1)
             x == s[k]
  <2>2. c[1..k] = NextTextLine(acc, x)
    <3> HIDE DEF n
    <3> QED
      BY <1>6, <2>1
  <2>3. SubSeq(s, 1, k) = Append(pre, x) /\ x \in Line
    BY FirstElements
  <2>4. pre \in Seq(Line) /\ k \in 0..n
    <3>1. k - 1 \in 0..n /\ k \in 0..n
      BY <1>1
    <3> QED
      BY <3>1, FirstElements
  <2>5. acc \in TableAcc /\ <<acc, pre>> \in T
    BY <1>9
  <2> HIDE DEF acc, pre, x, n
  <2>6. NextTextLine(acc, x) \in TableAcc
    BY <2>3, <2>5, NextTextLineTyped
  <2>7. <<NextTextLine(acc, x), Append(pre, x)>> \in T
    BY <2>3, <2>4, <2>5
  <2> QED
    BY <2>2, <2>3, <2>4, <2>6, <2>7
<1>10. n \in K
  <2>1. n \in 0..n
    BY <1>1
  <2> HIDE DEF K, n
  <2> QED
    BY <1>1, <1>8, <1>9, <2>1, UpTo
<1>11. SubSeq(s, 1, n) = s
  BY FirstElements
<1> QED
  BY <1>7, <1>10, <1>11

----------------------------------------------------------------------------
(* The lines of blocks and items.                                          *)

LinesOf(bs) == FlattenSeq([i \in DOMAIN bs |-> bs[i].lines])

(***************************************************************************)
(* The lists of lines of some records.                                     *)
(***************************************************************************)
LEMMA LinesList ==
    ASSUME NEW R, \A r \in R : r.lines \in Seq(Line), NEW bs \in Seq(R)
    PROVE  /\ [i \in DOMAIN bs |-> bs[i].lines] \in Seq(Seq(Line))
           /\ Len([i \in DOMAIN bs |-> bs[i].lines]) = Len(bs)
<1>1. Len(bs) \in Nat /\ DOMAIN bs = 1..Len(bs) /\ \A i \in 1..Len(bs) : bs[i] \in R
  BY LenProperties, ElementOfSeq
<1> DEFINE n == Len(bs)
           ls == [i \in 1..n |-> bs[i].lines]
<1>2. ls \in [1..n -> Seq(Line)]
  BY <1>1
<1>3. ls \in Seq(Seq(Line)) /\ Len(ls) = n
  <2> DEFINE S == Seq(Line)
  <2>1. ls \in [1..n -> S]
    BY <1>2
  <2>2. DOMAIN ls = 1..n /\ n \in Nat
    BY <1>1
  <2> HIDE DEF n, S, ls
  <2>3. ls \in Seq(S)
    <3>1. [1..n -> S] \in {[1..k -> S] : k \in Nat}
      BY <2>2
    <3>2. ls \in UNION {[1..k -> S] : k \in Nat}
      BY <2>1, <3>1
    <3> QED
      BY <3>2, SeqDef
  <2>4. Len(ls) \in Nat /\ DOMAIN ls = 1..Len(ls)
    BY <2>3, LenProperties
  <2>5. Len(ls) = n
    <3> DEFINE k == Len(ls)
    <3>1. k \in Nat /\ 1..k = 1..n
      BY <2>2, <2>4
    <3> HIDE DEF k
    <3>2. ~(k < n) /\ ~(n < k)
      <4>1. k < n => n \in 1..n /\ n \notin 1..k
        BY <2>2, <3>1
      <4>2. n < k => k \in 1..k /\ k \notin 1..n
        BY <2>2, <3>1
      <4> QED
        BY <3>1, <4>1, <4>2
    <3> QED
      BY <2>2, <3>1, <3>2 DEF k
  <2> QED
    BY <2>3, <2>5 DEF S
<1> QED
  BY <1>1, <1>3

LEMMA LinesOfNone == LinesOf(<<>>) = <<>>
<1>1. [i \in DOMAIN <<>> |-> <<>>[i].lines] = <<>>
  OBVIOUS
<1> QED
  BY <1>1, FlattenNone DEF LinesOf

LEMMA LinesOfTyped ==
    ASSUME NEW R, \A r \in R : r.lines \in Seq(Line), NEW bs \in Seq(R)
    PROVE  LinesOf(bs) \in Seq(Line)
BY LinesList, FlattenTyped DEF LinesOf

(***************************************************************************)
(* One record more.                                                        *)
(***************************************************************************)
LEMMA LinesOfAppend ==
    ASSUME NEW R, \A r \in R : r.lines \in Seq(Line), NEW bs \in Seq(R), NEW b \in R
    PROVE  LinesOf(Append(bs, b)) = LinesOf(bs) \o b.lines
<1> DEFINE t == Append(bs, b)
           n == Len(bs)
           ls == [i \in DOMAIN bs |-> bs[i].lines]
           lt == [i \in DOMAIN t |-> t[i].lines]
<1>1. n \in Nat /\ t \in Seq(R) /\ Len(t) = n + 1 /\ t[n + 1] = b /\ \A k \in 1..n : t[k] = bs[k]
  BY LenProperties, AppendProperties
<1>2. DOMAIN bs = 1..n /\ DOMAIN t = 1..(n + 1)
  BY <1>1, LenProperties
<1>3. ls \in Seq(Seq(Line)) /\ Len(ls) = n
  BY LinesList
<1>4. lt \in Seq(Seq(Line)) /\ Len(lt) = n + 1
  <2> HIDE DEF t, n
  <2> QED
    BY <1>1, LinesList
<1> DEFINE x == b.lines
           la == Append(ls, x)
<1>5. x \in Seq(Line)
  OBVIOUS
<1>6. \A k \in 1..(n + 1) : lt[k] = IF k = n + 1 THEN x ELSE ls[k]
  <2> HIDE DEF t, n
  <2> QED
    BY <1>1, <1>2
<1>7. la \in Seq(Seq(Line)) /\ Len(la) = n + 1 /\ \A k \in 1..(n + 1) : la[k] = IF k = n + 1 THEN x ELSE ls[k]
  <2> HIDE DEF ls, n, x
  <2> QED
    BY <1>1, <1>3, <1>5, AppendProperties
<1>8. lt = la
  <2> HIDE DEF ls, lt, la, n, x
  <2> QED
    BY <1>1, <1>4, <1>6, <1>7, SeqEqual
<1>9. FlattenSeq(la) = FlattenSeq(ls) \o x
  <2> HIDE DEF ls, x
  <2> QED
    BY <1>3, <1>5, FlattenAppend
<1> QED
  BY <1>8, <1>9 DEF LinesOf

(***************************************************************************)
(* Two lists of records, and one record.                                   *)
(***************************************************************************)
LEMMA LinesOfConcat ==
    ASSUME NEW R, \A r \in R : r.lines \in Seq(Line), NEW bs \in Seq(R), NEW cs \in Seq(R)
    PROVE  LinesOf(bs \o cs) = LinesOf(bs) \o LinesOf(cs)
<1> DEFINE T == {u \in Seq(R) : LinesOf(bs \o u) = LinesOf(bs) \o LinesOf(u)}
           a == LinesOf(bs)
<1>1. a \in Seq(Line)
  BY LinesOfTyped
<1>2. <<>> \in T
  <2>1. bs \o <<>> = bs /\ a \o <<>> = a /\ <<>> \in Seq(R)
    BY <1>1, ConcatEmptySeq, EmptySeq
  <2> QED
    BY <2>1, LinesOfNone
<1>3. ASSUME NEW u \in Seq(R), NEW e \in R, u \in T PROVE Append(u, e) \in T
  <2>1. bs \o u \in Seq(R) /\ Append(u, e) \in Seq(R)
    BY ConcatProperties, AppendProperties
  <2>2. bs \o Append(u, e) = Append(bs \o u, e)
    BY ConcatAppend
  <2> DEFINE bu == bs \o u
             b == LinesOf(u)
             x == e.lines
  <2>3. LinesOf(Append(bu, e)) = LinesOf(bu) \o x
    <3>1. bu \in Seq(R) /\ e \in R
      BY <2>1
    <3> HIDE DEF bu
    <3> QED
      BY <3>1, LinesOfAppend
  <2>4. LinesOf(Append(u, e)) = b \o x
    BY LinesOfAppend
  <2>5. (a \o b) \o x = a \o (b \o x)
    <3>1. b \in Seq(Line) /\ x \in Seq(Line)
      BY LinesOfTyped
    <3> HIDE DEF a, b, x
    <3> QED
      BY <1>1, <3>1, ConcatAssociative, SMTT(30)
  <2>6. LinesOf(bu) = a \o b
    BY <1>3
  <2>7. LinesOf(bs \o Append(u, e)) = a \o LinesOf(Append(u, e))
    <3> HIDE DEF a, b, x
    <3> QED
      BY <2>2, <2>3, <2>4, <2>5, <2>6
  <2> QED
    BY <2>1, <2>7
<1> HIDE DEF T
<1>4. cs \in T
  BY <1>2, <1>3, ListInduction
<1> QED
  BY <1>4 DEF T

LEMMA LinesOfOne ==
    ASSUME NEW R, \A r \in R : r.lines \in Seq(Line), NEW b \in R
    PROVE  <<b>> \in Seq(R) /\ LinesOf(<<b>>) = b.lines
<1>1. <<>> \in Seq(R) /\ Append(<<>>, b) = <<b>>
  BY EmptySeq
<1>2. LinesOf(Append(<<>>, b)) = <<>> \o b.lines
  BY <1>1, LinesOfAppend, LinesOfNone
<1> QED
  BY <1>1, <1>2, ConcatEmptySeq, AppendProperties

----------------------------------------------------------------------------
(* Text and tables.                                                        *)

\* A table has a rule in its first line or in its second one.
Headed(lines) ==
    /\ lines # <<>>
    /\ IsRule(lines[1]) \/ (Len(lines) >= 2 /\ IsRule(lines[2]))

Shaped(bs) == \A b \in ToSet(bs) : b.kind = "table" => Headed(b.lines)

(***************************************************************************)
(* The block of some lines.                                                *)
(***************************************************************************)
LEMMA FlushLines ==
    ASSUME NEW kind \in {"text", "table", "code"}, NEW lines \in Seq(Line),
           kind = "table" => lines # <<>> /\ Headed(lines)
    PROVE  /\ Flush(kind, lines) \in Seq(Blocks) /\ LinesOf(Flush(kind, lines)) = lines
           /\ Shaped(Flush(kind, lines))
<1>1. CASE lines = <<>>
  BY <1>1, EmptySeq, LinesOfNone, Elements DEF Flush, Shaped
<1>2. CASE lines # <<>>
  <2> DEFINE b == Block(kind, lines)
  <2>1. b \in Blocks /\ b.lines = lines /\ b.kind = kind /\ \A r \in Blocks : r.lines \in Seq(Line)
    BY DEF Block, Blocks
  <2>2. Flush(kind, lines) = <<b>>
    BY <1>2 DEF Flush
  <2> HIDE DEF b
  <2>3. <<b>> \in Seq(Blocks) /\ LinesOf(<<b>>) = lines
    BY <2>1, LinesOfOne
  <2>4. ToSet(<<b>>) = {b}
    BY DEF ToSet
  <2> QED
    BY <2>1, <2>2, <2>3, <2>4 DEF Shaped
<1> QED
  BY <1>1, <1>2

(***************************************************************************)
(* What _split_text_and_tables keeps: the lines so far are in the blocks   *)
(* and the buffer, and tables have a rule at their head.                   *)
(***************************************************************************)
TableInv(acc, pre) ==
    /\ LinesOf(acc.blocks) \o acc.buf = pre
    /\ Shaped(acc.blocks)
    /\ acc.kind = "table" => Headed(acc.buf)

LEMMA BlockRecords == \A r \in Blocks : r.lines \in Seq(Line)
BY DEF Blocks

LEMMA ShapedConcat ==
    ASSUME NEW a \in Seq(Blocks), NEW b \in Seq(Blocks), Shaped(a), Shaped(b)
    PROVE  Shaped(a \o b)
<1>1. ToSet(a \o b) = ToSet(a) \union ToSet(b)
  BY Elements
<1> QED
  BY <1>1 DEF Shaped

LEMMA HeadedAppend ==
    ASSUME NEW lines \in Seq(Line), NEW line \in Line, Headed(lines)
    PROVE  Headed(Append(lines, line))
<1> DEFINE t == Append(lines, line)
<1>1. Len(lines) \in Nat \ {0}
  BY EmptySeq DEF Headed
<1>2. t # <<>> /\ Len(t) = Len(lines) + 1 /\ \A i \in 1..Len(lines) : t[i] = lines[i]
  BY AppendProperties
<1>3. 1 \in 1..Len(lines)
  BY <1>1
<1>4. CASE IsRule(lines[1])
  BY <1>2, <1>3, <1>4 DEF Headed
<1>5. CASE Len(lines) >= 2 /\ IsRule(lines[2])
  <2>1. 2 \in 1..Len(lines) /\ Len(t) >= 2
    BY <1>1, <1>2, <1>5
  <2> HIDE DEF t
  <2>2. Headed(t)
    BY <1>2, <1>5, <2>1 DEF Headed
  <2> QED
    BY <2>2 DEF t
<1> QED
  BY <1>4, <1>5 DEF Headed

LEMMA TableStep ==
    ASSUME NEW acc \in TableAcc, NEW pre \in Seq(Line), NEW line \in Line, TableInv(acc, pre)
    PROVE  TableInv(NextTextLine(acc, line), Append(pre, line))
<1> DEFINE inTable == acc.kind = "table"
           done == IF inTable THEN acc.blocks \o Flush("table", acc.buf) ELSE acc.blocks
           prose == IF inTable THEN <<>> ELSE acc.buf
           head == IF prose # <<>> /\ IsRow(Last(prose)) THEN <<Last(prose)>> ELSE <<>>
           above == SubSeq(prose, 1, Len(prose) - Len(head))
           next == NextTextLine(acc, line)
<1>1. acc.blocks \in Seq(Blocks) /\ acc.buf \in Seq(Line) /\ LinesOf(acc.blocks) \in Seq(Line)
  <2>1. acc.blocks \in Seq(Blocks) /\ acc.buf \in Seq(Line)
    BY DEF TableAcc
  <2> QED
    BY <2>1, BlockRecords, LinesOfTyped
<1>2. /\ LinesOf(acc.blocks) \o acc.buf = pre /\ Shaped(acc.blocks)
      /\ inTable => Headed(acc.buf)
  BY DEF TableInv
<1>3. done \in Seq(Blocks) /\ prose \in Seq(Line) /\ LinesOf(done) \o prose = pre /\ Shaped(done)
  <2>1. CASE inTable
    <3> DEFINE f == Flush("table", acc.buf)
    <3>1. f \in Seq(Blocks) /\ LinesOf(f) = acc.buf /\ Shaped(f)
      BY <1>1, <1>2, <2>1, FlushLines DEF Headed
    <3>2. done = acc.blocks \o f /\ prose = <<>>
      BY <2>1
    <3> HIDE DEF f
    <3>3. acc.blocks \o f \in Seq(Blocks) /\ LinesOf(acc.blocks \o f) = LinesOf(acc.blocks) \o LinesOf(f)
      BY <1>1, <3>1, BlockRecords, ConcatProperties, LinesOfConcat
    <3>4. Shaped(acc.blocks \o f)
      BY <1>1, <1>2, <3>1, ShapedConcat
    <3>5. LinesOf(done) = pre /\ pre \o <<>> = pre
      BY <1>2, <3>1, <3>2, <3>3, ConcatEmptySeq
    <3> QED
      BY <3>2, <3>3, <3>4, <3>5, EmptySeq
  <2>2. CASE ~inTable
    BY <1>1, <1>2, <2>2
  <2> QED
    BY <2>1, <2>2
<1>4. /\ head \in Seq(Line) /\ above \in Seq(Line) /\ above \o head = prose
      /\ head = <<>> \/ Len(head) = 1
  <2> HIDE DEF prose
  <2>1. CASE prose # <<>> /\ IsRow(Last(prose))
    <3>1. Last(prose) \in Line /\ Front(prose) \in Seq(Line) /\ prose = Append(Front(prose), Last(prose))
      BY <1>3, <2>1, Ends
    <3>2. head = <<Last(prose)>> /\ Len(head) = 1
      BY <2>1
    <3>3. above = Front(prose)
      BY <3>2 DEF Front
    <3> DEFINE a == Front(prose)
               e == Last(prose)
    <3>4. a \o <<e>> = prose
      <4>1. a \in Seq(Line) /\ e \in Line /\ prose = Append(a, e)
        BY <3>1
      <4> HIDE DEF a, e
      <4> QED
        BY <4>1, AppendIsConcat
    <3>5. head \in Seq(Line)
      BY <3>1, <3>2
    <3>6. above \o head = prose
      BY <3>2, <3>3, <3>4
    <3> QED
      BY <3>1, <3>2, <3>3, <3>5, <3>6
  <2>2. CASE ~(prose # <<>> /\ IsRow(Last(prose)))
    <3>1. head = <<>> /\ Len(head) = 0
      BY <2>2
    <3>2. Len(prose) \in Nat
      BY <1>3, LenProperties
    <3>3. above = prose
      BY <1>3, <3>1, <3>2, SubSeqFull
    <3>4. prose \o <<>> = prose
      BY <1>3, ConcatEmptySeq
    <3> QED
      BY <1>3, <3>1, <3>3, <3>4, EmptySeq
  <2> QED
    BY <2>1, <2>2
<1>5. next = CASE inTable /\ IsRow(line) -> [acc EXCEPT !.buf = Append(@, line)]
               [] ~(inTable /\ IsRow(line)) /\ IsRule(line) ->
                    [blocks |-> done \o Flush("text", above), kind |-> "table", buf |-> Append(head, line)]
               [] OTHER -> [blocks |-> done, kind |-> "text", buf |-> Append(prose, line)]
  BY DEF NextTextLine
<1>6. CASE inTable /\ IsRow(line)
  <2> DEFINE a == LinesOf(acc.blocks)
             b == acc.buf
  <2>1. next.blocks = acc.blocks /\ next.buf = Append(b, line)
    BY <1>5, <1>6 DEF TableAcc
  <2>2. a \o Append(b, line) = Append(a \o b, line)
    <3>1. a \in Seq(Line) /\ b \in Seq(Line)
      BY <1>1
    <3> HIDE DEF a, b
    <3> QED
      BY <3>1, ConcatAppend
  <2>3. Headed(Append(b, line))
    <3>1. b \in Seq(Line) /\ Headed(b)
      BY <1>1, <1>2, <1>6
    <3> HIDE DEF b
    <3> QED
      BY <3>1, HeadedAppend
  <2> HIDE DEF next
  <2> QED
    BY <1>2, <2>1, <2>2, <2>3 DEF next, TableInv
<1>7. CASE ~(inTable /\ IsRow(line)) /\ IsRule(line)
  <2> DEFINE f == Flush("text", above)
             a == LinesOf(done)
  <2> HIDE DEF above, head, done, prose, f
  <2>1. next = [blocks |-> done \o f, kind |-> "table", buf |-> Append(head, line)]
    BY <1>5, <1>7 DEF f
  <2>2. f \in Seq(Blocks) /\ LinesOf(f) = above /\ Shaped(f)
    BY <1>4, FlushLines DEF f
  <2>3. LinesOf(done \o f) = a \o above /\ Shaped(done \o f)
    BY <1>3, <2>2, BlockRecords, LinesOfConcat, ShapedConcat
  <2>4. a \in Seq(Line) /\ a \o above \in Seq(Line)
    <3>1. a \in Seq(Line)
      BY <1>3, BlockRecords, LinesOfTyped
    <3> QED
      BY <1>4, <3>1, ConcatProperties
  <2> DEFINE b == a \o above
  <2>5. b \o Append(head, line) = Append(b \o head, line)
    <3> HIDE DEF b
    <3> QED
      BY <1>4, <2>4, ConcatAppend, SMTT(30)
  <2>6. b \o head = a \o (above \o head)
    <3>1. a \in Seq(Line) /\ above \in Seq(Line) /\ head \in Seq(Line)
      BY <1>4, <2>4
    <3> HIDE DEF a
    <3> QED
      BY <3>1, ConcatAssociative, SMTT(30)
  <2>7. LinesOf(done \o f) \o Append(head, line) = Append(pre, line)
    BY <1>3, <1>4, <2>3, <2>5, <2>6
  <2>8. Headed(Append(head, line))
    <3> DEFINE t == Append(head, line)
    <3>1. t # <<>> /\ Len(t) = Len(head) + 1 /\ t[Len(head) + 1] = line
      BY <1>4, AppendProperties
    <3>2. Len(head) = 0 \/ Len(head) = 1
      BY <1>4, EmptySeq
    <3> HIDE DEF t
    <3>3. Headed(t)
      <4>1. CASE Len(head) = 0
        BY <1>7, <3>1, <4>1 DEF Headed
      <4>2. CASE Len(head) = 1
        <5>1. Len(t) = 2 /\ t[2] = line
          BY <3>1, <4>2
        <5> QED
          BY <1>7, <3>1, <5>1 DEF Headed
      <4> QED
        BY <3>2, <4>1, <4>2
    <3> QED
      BY <3>3 DEF t
  <2>9. next.blocks = done \o f /\ next.buf = Append(head, line)
    BY <2>1
  <2> HIDE DEF next
  <2>10. TableInv(next, Append(pre, line))
    BY <2>3, <2>7, <2>8, <2>9 DEF TableInv
  <2> QED
    BY <2>10 DEF next
<1>8. CASE ~(inTable /\ IsRow(line)) /\ ~IsRule(line)
  <2> DEFINE a == LinesOf(done)
  <2> HIDE DEF above, head, done, prose
  <2>1. next = [blocks |-> done, kind |-> "text", buf |-> Append(prose, line)]
    BY <1>5, <1>8
  <2>2. a \in Seq(Line)
    BY <1>3, BlockRecords, LinesOfTyped
  <2>3. a \o Append(prose, line) = Append(a \o prose, line)
    <3> HIDE DEF a
    <3> QED
      BY <1>3, <2>2, ConcatAppend
  <2>4. next.blocks = done /\ next.kind = "text" /\ next.buf = Append(prose, line)
    BY <2>1
  <2> HIDE DEF next
  <2>5. TableInv(next, Append(pre, line))
    BY <1>3, <2>3, <2>4 DEF TableInv
  <2> QED
    BY <2>5 DEF next
<1> QED
  BY <1>6, <1>7, <1>8

(***************************************************************************)
(* _split_text_and_tables keeps the lines.                                 *)
(***************************************************************************)
LEMMA SplitTablesKeeps ==
    ASSUME NEW lines \in Seq(Line)
    PROVE  /\ SplitTables(lines) \in Seq(Blocks) /\ LinesOf(SplitTables(lines)) = lines
           /\ Shaped(SplitTables(lines))
<1> DEFINE T == {p \in TableAcc \X Seq(Line) : TableInv(p[1], p[2])}
           acc == FoldLeft(NextTextLine, NoTables, lines)
<1>1. <<NoTables, <<>>>> \in T
  <2>1. NoTables \in TableAcc /\ <<>> \in Seq(Line)
    BY EmptySeq DEF NoTables, TableAcc
  <2>2. TableInv(NoTables, <<>>)
    BY LinesOfNone, Elements, ConcatEmptySeq, EmptySeq DEF NoTables, TableInv, Shaped
  <2> QED
    BY <2>1, <2>2
<1>2. ASSUME NEW a \in TableAcc, NEW pre \in Seq(Line), NEW x \in Line, <<a, pre>> \in T
      PROVE  <<NextTextLine(a, x), Append(pre, x)>> \in T
  <2>1. TableInv(a, pre)
    BY <1>2
  <2>2. TableInv(NextTextLine(a, x), Append(pre, x))
    BY <2>1, TableStep
  <2>3. NextTextLine(a, x) \in TableAcc /\ Append(pre, x) \in Seq(Line)
    BY NextTextLineTyped, AppendProperties
  <2> QED
    BY <2>2, <2>3
<1>3. acc \in TableAcc /\ <<acc, lines>> \in T
  <2> HIDE DEF T
  <2> QED
    BY <1>1, <1>2, TextLoop
<1>4. SplitTables(lines) = acc.blocks \o Flush(acc.kind, acc.buf)
  BY DEF SplitTables, NoTables
<1> HIDE DEF acc
<1>5. /\ acc.blocks \in Seq(Blocks) /\ acc.kind \in {"text", "table"} /\ acc.buf \in Seq(Line)
      /\ LinesOf(acc.blocks) \o acc.buf = lines /\ Shaped(acc.blocks)
      /\ acc.kind = "table" => Headed(acc.buf)
  BY <1>3 DEF TableAcc, TableInv
<1> DEFINE f == Flush(acc.kind, acc.buf)
<1>6. f \in Seq(Blocks) /\ LinesOf(f) = acc.buf /\ Shaped(f)
  BY <1>5, FlushLines DEF Headed
<1> HIDE DEF f
<1>7. acc.blocks \o f \in Seq(Blocks) /\ LinesOf(acc.blocks \o f) = LinesOf(acc.blocks) \o LinesOf(f)
  BY <1>5, <1>6, BlockRecords, ConcatProperties, LinesOfConcat
<1>8. Shaped(acc.blocks \o f)
  BY <1>5, <1>6, ShapedConcat
<1> QED
  BY <1>4, <1>5, <1>6, <1>7, <1>8 DEF f

----------------------------------------------------------------------------
(* Code, text and tables.                                                  *)

LineAcc == [blocks : Seq(Blocks), open : Nat, buf : Seq(Line)]

NoBlocks == [blocks |-> <<>>, open |-> 0, buf |-> <<>>]

\* The lines so far are in the blocks and the buffer.
LineInv(acc, pre) == LinesOf(acc.blocks) \o acc.buf = pre /\ Shaped(acc.blocks)

LEMMA FenceNat == \A line : FenceLength(line) \in Nat
BY DEF FenceLength

LEMMA CodeBlock ==
    ASSUME NEW lines \in Seq(Line)
    PROVE  /\ <<Block("code", lines)>> \in Seq(Blocks) /\ Shaped(<<Block("code", lines)>>)
           /\ LinesOf(<<Block("code", lines)>>) = lines
<1> DEFINE b == Block("code", lines)
<1>1. b \in Blocks /\ b.lines = lines /\ b.kind = "code"
  BY DEF Block, Blocks
<1> HIDE DEF b
<1>2. <<b>> \in Seq(Blocks) /\ LinesOf(<<b>>) = lines
  BY <1>1, BlockRecords, LinesOfOne
<1>3. ToSet(<<b>>) = {b}
  BY DEF ToSet
<1>4. Shaped(<<b>>)
  BY <1>1, <1>3 DEF Shaped
<1> QED
  BY <1>2, <1>4 DEF b

(***************************************************************************)
(* What _parse_blocks keeps in a step.                                     *)
(***************************************************************************)
LEMMA LineStep ==
    ASSUME NEW acc \in LineAcc, NEW line \in Line
    PROVE  /\ NextLine(acc, line) \in LineAcc
           /\ \A pre \in Seq(Line) : LineInv(acc, pre) => LineInv(NextLine(acc, line), Append(pre, line))
<1> DEFINE a == acc.blocks
           b == acc.buf
           la == LinesOf(a)
           next == NextLine(acc, line)
<1>1. a \in Seq(Blocks) /\ b \in Seq(Line) /\ la \in Seq(Line)
  <2>1. a \in Seq(Blocks) /\ b \in Seq(Line)
    BY DEF LineAcc
  <2> QED
    BY <2>1, BlockRecords, LinesOfTyped
<1>2. Append(b, line) \in Seq(Line) /\ la \o Append(b, line) = Append(la \o b, line)
  <2> HIDE DEF a, b, la
  <2> QED
    BY <1>1, AppendProperties, ConcatAppend
<1>3. CASE acc.open = 0 /\ FenceLength(line) > 0
  <2> DEFINE s == SplitTables(b)
  <2>1. s \in Seq(Blocks) /\ LinesOf(s) = b /\ Shaped(s)
    BY <1>1, SplitTablesKeeps
  <2>2. next.blocks = a \o s /\ next.open = FenceLength(line) /\ next.buf = <<line>>
        /\ next = [blocks |-> a \o s, open |-> FenceLength(line), buf |-> <<line>>]
    BY <1>3 DEF NextLine
  <2> HIDE DEF a, b, s, la
  <2>3. a \o s \in Seq(Blocks) /\ LinesOf(a \o s) = la \o b
    BY <1>1, <2>1, BlockRecords, ConcatProperties, LinesOfConcat DEF la
  <2>4. (la \o b) \o <<line>> = Append(la \o b, line)
    <3> DEFINE ab == la \o b
    <3>1. ab \in Seq(Line)
      BY <1>1, ConcatProperties
    <3> HIDE DEF ab
    <3> QED
      BY <3>1, AppendIsConcat
  <2>5. <<line>> \in Seq(Line)
    OBVIOUS
  <2>6. next \in LineAcc
    BY <2>2, <2>3, <2>5, FenceNat DEF LineAcc
  <2>7. Shaped(a) => Shaped(a \o s)
    BY <1>1, <2>1, ShapedConcat
  <2> HIDE DEF next
  <2>8. ASSUME NEW pre \in Seq(Line), LineInv(acc, pre) PROVE LineInv(next, Append(pre, line))
    BY <2>2, <2>3, <2>4, <2>7, <2>8 DEF LineInv, a, b, la
  <2> QED
    BY <2>6, <2>8 DEF next
<1>4. CASE ~(acc.open = 0 /\ FenceLength(line) > 0) /\ acc.open > 0 /\ Closes(line, acc.open)
  <2> DEFINE x == Append(b, line)
             k == <<Block("code", x)>>
  <2>1. k \in Seq(Blocks) /\ LinesOf(k) = x /\ Shaped(k)
    BY <1>2, CodeBlock
  <2>2. Append(a, Block("code", x)) = a \o k
    <3> DEFINE e == Block("code", x)
    <3>1. e \in Blocks
      BY <1>2 DEF Block, Blocks
    <3> HIDE DEF a, e
    <3>2. Append(a, e) = a \o <<e>>
      BY <1>1, <3>1, AppendIsConcat
    <3> QED
      BY <3>2 DEF e
  <2>3. next = [blocks |-> Append(a, Block("code", x)), open |-> 0, buf |-> <<>>]
    BY <1>4 DEF NextLine
  <2>4. next.blocks = a \o k /\ next.open = 0 /\ next.buf = <<>>
        /\ next = [blocks |-> a \o k, open |-> 0, buf |-> <<>>]
    <3> HIDE DEF a, k, next
    <3> QED
      BY <2>2, <2>3
  <2> HIDE DEF a, b, k, la, x
  <2>5. a \o k \in Seq(Blocks) /\ LinesOf(a \o k) = la \o x
    BY <1>1, <2>1, BlockRecords, ConcatProperties, LinesOfConcat DEF la
  <2>6. (la \o x) \o <<>> = la \o x
    BY <1>1, <1>2, ConcatProperties, ConcatEmptySeq DEF x
  <2>7. next \in LineAcc
    BY <2>4, <2>5, EmptySeq DEF LineAcc
  <2>8. Shaped(a) => Shaped(a \o k)
    BY <1>1, <2>1, ShapedConcat
  <2> HIDE DEF next
  <2>9. ASSUME NEW pre \in Seq(Line), LineInv(acc, pre) PROVE LineInv(next, Append(pre, line))
    <3>1. la \o b = pre /\ Shaped(a)
      BY <2>9 DEF LineInv, a, b, la
    <3>2. la \o x = Append(pre, line)
      BY <1>2, <3>1 DEF x
    <3> QED
      BY <2>4, <2>5, <2>6, <2>8, <3>1, <3>2 DEF LineInv
  <2> QED
    BY <2>7, <2>9 DEF next
<1>5. CASE ~(acc.open = 0 /\ FenceLength(line) > 0) /\ ~(acc.open > 0 /\ Closes(line, acc.open))
  <2>1. next = [acc EXCEPT !.buf = Append(@, line)]
    BY <1>5 DEF NextLine
  <2>2. next \in LineAcc /\ next.blocks = a /\ next.buf = Append(b, line)
    BY <1>2, <2>1 DEF LineAcc
  <2> HIDE DEF next
  <2>3. ASSUME NEW pre \in Seq(Line), LineInv(acc, pre) PROVE LineInv(next, Append(pre, line))
    BY <1>2, <2>2, <2>3 DEF LineInv
  <2> QED
    BY <2>2, <2>3 DEF next
<1> QED
  BY <1>3, <1>4, <1>5

(***************************************************************************)
(* _parse_blocks, line by line.                                            *)
(***************************************************************************)
LEMMA LineLoop ==
    ASSUME NEW s \in Seq(Line), NEW T, <<NoBlocks, <<>>>> \in T,
           \A acc \in LineAcc, pre \in Seq(Line), x \in Line :
              <<acc, pre>> \in T => <<NextLine(acc, x), Append(pre, x)>> \in T
    PROVE  LET fold == FoldLeft(NextLine, NoBlocks, s) IN fold \in LineAcc /\ <<fold, s>> \in T
<1> DEFINE n == Len(s)
           Rec(f) == f = [t \in SUBSET (1..n) |->
                             IF t = {} THEN NoBlocks ELSE NextLine(f[t \ {Max(t)}], s[Max(t)])]
           step == [p \in (1..n) \X LineAcc |-> NextLine(p[2], s[p[1]])]
<1>1. n \in Nat /\ DOMAIN s = 1..n /\ \A k \in 1..n : s[k] \in Line
  BY LenProperties, ElementOfSeq
<1>2. step \in [(1..n) \X LineAcc -> LineAcc]
  BY <1>1, LineStep
<1>3. NoBlocks \in LineAcc
  BY EmptySeq DEF NoBlocks, LineAcc
<1>4. FoldLeft(NextLine, NoBlocks, s) = (CHOOSE f : Rec(f))[1..n]
  BY <1>1 DEF FoldLeft, MapThenFoldSet
<1>5. \E f : Rec(f)
  <2>1. PICK h \in [SUBSET (1..n) -> LineAcc] : Folding(h, n, NoBlocks, step)
    <3> HIDE DEF step, n
    <3> QED
      BY <1>1, <1>2, <1>3, FoldExists
  <2>2. \A t \in SUBSET (1..n) : h[t] = IF t = {} THEN NoBlocks ELSE step[<<Max(t), h[t \ {Max(t)}]>>]
    BY <2>1 DEF Folding
  <2>3. ASSUME NEW t \in SUBSET (1..n), t # {}
        PROVE  h[t] = NextLine(h[t \ {Max(t)}], s[Max(t)])
    <3>1. Max(t) \in 1..n
      BY <1>1, <2>3, MaxUpTo
    <3>2. h[t \ {Max(t)}] \in LineAcc
      BY <2>1
    <3>3. h[t] = step[<<Max(t), h[t \ {Max(t)}]>>]
      BY <2>2, <2>3
    <3> QED
      BY <3>1, <3>2, <3>3
  <2> DEFINE f == [t \in SUBSET (1..n) |-> h[t]]
  <2>4. Rec(f)
    <3>1. ASSUME NEW t \in SUBSET (1..n)
          PROVE  h[t] = IF t = {} THEN NoBlocks ELSE NextLine(f[t \ {Max(t)}], s[Max(t)])
      <4>1. CASE t = {}
        BY <2>2, <4>1
      <4>2. CASE t # {}
        <5>1. f[t \ {Max(t)}] = h[t \ {Max(t)}]
          OBVIOUS
        <5> QED
          BY <2>3, <4>2, <5>1
      <4> QED
        BY <4>1, <4>2
    <3> QED
      BY <3>1
  <2> HIDE DEF Rec, f
  <2> QED
    BY <2>4
<1> DEFINE c == CHOOSE f : Rec(f)
<1>6. Rec(c)
  <2> HIDE DEF Rec
  <2> QED
    BY <1>5
<1>7. FoldLeft(NextLine, NoBlocks, s) = c[1..n]
  BY <1>4
<1> HIDE DEF c
<1> DEFINE K == {k \in 0..n : c[1..k] \in LineAcc /\ <<c[1..k], SubSeq(s, 1, k)>> \in T}
<1>8. 0 \in K
  <2>1. c[1..0] = NoBlocks
    BY <1>1, <1>6, Intervals
  <2>2. SubSeq(s, 1, 0) = <<>>
    BY FirstElements
  <2> HIDE DEF n
  <2> QED
    BY <1>1, <1>3, <2>1, <2>2
<1>9. ASSUME NEW k \in 1..n, k - 1 \in K PROVE k \in K
  <2>1. 1..k \in SUBSET (1..n) /\ 1..k # {} /\ Max(1..k) = k /\ (1..k) \ {k} = 1..(k - 1)
    BY <1>1, Intervals
  <2> DEFINE acc == c[1..(k - 1)]
             pre == SubSeq(s, 1, k - 1)
             x == s[k]
  <2>2. c[1..k] = NextLine(acc, x)
    <3> HIDE DEF n
    <3> QED
      BY <1>6, <2>1
  <2>3. SubSeq(s, 1, k) = Append(pre, x) /\ x \in Line
    BY FirstElements
  <2>4. pre \in Seq(Line) /\ k \in 0..n
    <3>1. k - 1 \in 0..n /\ k \in 0..n
      BY <1>1
    <3> QED
      BY <3>1, FirstElements
  <2>5. acc \in LineAcc /\ <<acc, pre>> \in T
    BY <1>9
  <2> HIDE DEF acc, pre, x, n
  <2>6. NextLine(acc, x) \in LineAcc
    BY <2>3, <2>5, LineStep
  <2>7. <<NextLine(acc, x), Append(pre, x)>> \in T
    BY <2>3, <2>4, <2>5
  <2> QED
    BY <2>2, <2>3, <2>4, <2>6, <2>7
<1>10. n \in K
  <2>1. n \in 0..n
    BY <1>1
  <2> HIDE DEF K, n
  <2> QED
    BY <1>1, <1>8, <1>9, <2>1, UpTo
<1>11. SubSeq(s, 1, n) = s
  BY FirstElements
<1> QED
  BY <1>7, <1>10, <1>11

----------------------------------------------------------------------------
(* Lines that are not blank.                                               *)

Words == {l \in Line : ~IsBlank(l)}

LEMMA NonBlankIs == ASSUME NEW lines \in Seq(Line) PROVE NonBlank(lines) = Those(lines, Words)
<1>1. \A i \in DOMAIN lines : lines[i] \in Line
  BY LenProperties, ElementOfSeq
<1>2. {i \in DOMAIN lines : ~IsBlank(lines[i])} = {i \in DOMAIN lines : lines[i] \in Words}
  BY <1>1 DEF Words
<1> QED
  BY <1>2 DEF NonBlank, Only, Those

LEMMA NonBlankTyped == ASSUME NEW lines \in Seq(Line) PROVE NonBlank(lines) \in Seq(Line)
BY NonBlankIs, ThoseTyped

LEMMA NonBlankNone == NonBlank(<<>>) = <<>>
BY NonBlankIs, EmptySeq, ThoseNone

LEMMA NonBlankConcat ==
    ASSUME NEW a \in Seq(Line), NEW b \in Seq(Line)
    PROVE  NonBlank(a \o b) = NonBlank(a) \o NonBlank(b)
<1>1. a \o b \in Seq(Line)
  BY ConcatProperties
<1>2. Those(a \o b, Words) = Those(a, Words) \o Those(b, Words)
  BY ThoseConcat
<1>3. NonBlank(a) = Those(a, Words) /\ NonBlank(b) = Those(b, Words)
  BY NonBlankIs
<1> DEFINE ab == a \o b
<1>4. NonBlank(ab) = Those(ab, Words)
  <2> HIDE DEF ab
  <2> QED
    BY <1>1, NonBlankIs DEF ab
<1> QED
  BY <1>2, <1>3, <1>4

(***************************************************************************)
(* Lists without words.                                                    *)
(***************************************************************************)
LEMMA AllBlankIs ==
    ASSUME NEW lines \in Seq(Line)
    PROVE  /\ AllBlank(lines) <=> NonBlank(lines) = <<>>
           /\ AllBlank(lines) <=> ToSet(lines) \intersect Words = {}
<1> DEFINE w == Those(lines, Words)
<1>1. w \in Seq(Line) /\ ToSet(w) = ToSet(lines) \intersect Words
  BY ThoseTyped, ThoseElements
<1>2. AllBlank(lines) <=> ToSet(lines) \intersect Words = {}
  BY LenProperties, ElementOfSeq DEF AllBlank, ToSet, Words
<1>3. w = <<>> <=> ToSet(w) = {}
  <2> HIDE DEF w
  <2>1. w # <<>> => Last(w) \in ToSet(w)
    <3> SUFFICES ASSUME w # <<>> PROVE Last(w) \in ToSet(w)
      OBVIOUS
    <3>1. Len(w) \in DOMAIN w
      BY <1>1, EmptySeq, LenProperties
    <3> QED
      BY <3>1 DEF Last, ToSet
  <2> QED
    BY <2>1, Elements
<1> QED
  BY <1>1, <1>2, <1>3, NonBlankIs

\* The blocks of _parse_blocks that are not left out.
Speaking == {b \in Blocks : ~AllBlank(b.lines)}

(***************************************************************************)
(* Leaving out blank blocks leaves out no words.                           *)
(***************************************************************************)
LEMMA SpeakingKeeps ==
    ASSUME NEW bs \in Seq(Blocks)
    PROVE  NonBlank(LinesOf(Those(bs, Speaking))) = NonBlank(LinesOf(bs))
<1> DEFINE T == {u \in Seq(Blocks) : NonBlank(LinesOf(Those(u, Speaking))) = NonBlank(LinesOf(u))}
<1>1. <<>> \in T
  BY EmptySeq, ThoseNone
<1>2. ASSUME NEW u \in Seq(Blocks), NEW e \in Blocks, u \in T PROVE Append(u, e) \in T
  <2> DEFINE w == Those(u, Speaking)
             x == e.lines
             lu == LinesOf(u)
             lw == LinesOf(w)
             ue == Append(u, e)
  <2>1. w \in Seq(Blocks) /\ x \in Seq(Line) /\ ue \in Seq(Blocks)
    BY ThoseTyped, BlockRecords, AppendProperties
  <2>2. lu \in Seq(Line) /\ lw \in Seq(Line)
    <3> HIDE DEF w
    <3> QED
      BY <2>1, BlockRecords, LinesOfTyped
  <2>3. Those(ue, Speaking) = IF e \in Speaking THEN Append(w, e) ELSE w
    BY ThoseAppend
  <2>4. LinesOf(ue) = lu \o x
    BY BlockRecords, LinesOfAppend
  <2>5. LinesOf(Append(w, e)) = lw \o x
    <3> HIDE DEF w
    <3> QED
      BY <2>1, BlockRecords, LinesOfAppend
  <2>6. NonBlank(lw) = NonBlank(lu)
    BY <1>2
  <2>7. NonBlank(lu \o x) = NonBlank(lu) \o NonBlank(x) /\ NonBlank(lw \o x) = NonBlank(lw) \o NonBlank(x)
    <3> HIDE DEF lu, lw, x
    <3> QED
      BY <2>1, <2>2, NonBlankConcat
  <2>8. NonBlank(LinesOf(Those(ue, Speaking))) = NonBlank(LinesOf(ue))
    <3> HIDE DEF lu, lw, ue, w
    <3>1. CASE e \in Speaking
      BY <2>3, <2>4, <2>5, <2>6, <2>7, <3>1
    <3>2. CASE e \notin Speaking
      <4>1. NonBlank(x) = <<>>
        BY <2>1, <3>2, AllBlankIs DEF Speaking
      <4> DEFINE nu == NonBlank(lu)
      <4>2. nu \o <<>> = nu
        <5>1. nu \in Seq(Line)
          BY <2>2, NonBlankTyped
        <5> HIDE DEF nu
        <5> QED
          BY <5>1, ConcatEmptySeq
      <4>3. NonBlank(LinesOf(ue)) = nu
        BY <2>4, <2>7, <4>1, <4>2
      <4> QED
        BY <2>3, <2>6, <3>2, <4>3 DEF lw
    <3> QED
      BY <3>1, <3>2
  <2> QED
    BY <2>1, <2>8
<1> HIDE DEF T
<1>3. bs \in T
  BY <1>1, <1>2, ListInduction
<1> QED
  BY <1>3 DEF T

(***************************************************************************)
(* _parse_blocks cuts the text into blocks and leaves out the blank ones.  *)
(***************************************************************************)
LEMMA ParseBlocksKeeps ==
    ASSUME NEW lines \in Seq(Line)
    PROVE  \E bs \in Seq(Blocks) :
              /\ LinesOf(bs) = lines /\ Shaped(bs)
              /\ ParseBlocks(lines) = Those(bs, Speaking)
<1> DEFINE T == {p \in LineAcc \X Seq(Line) : LineInv(p[1], p[2])}
           acc == FoldLeft(NextLine, NoBlocks, lines)
<1>1. <<NoBlocks, <<>>>> \in T
  <2>1. NoBlocks \in LineAcc /\ <<>> \in Seq(Line)
    BY EmptySeq DEF NoBlocks, LineAcc
  <2>2. LineInv(NoBlocks, <<>>)
    BY LinesOfNone, Elements, ConcatEmptySeq, EmptySeq DEF NoBlocks, LineInv, Shaped
  <2> QED
    BY <2>1, <2>2
<1>2. ASSUME NEW a \in LineAcc, NEW pre \in Seq(Line), NEW x \in Line, <<a, pre>> \in T
      PROVE  <<NextLine(a, x), Append(pre, x)>> \in T
  <2>1. LineInv(a, pre)
    BY <1>2
  <2>2. NextLine(a, x) \in LineAcc /\ LineInv(NextLine(a, x), Append(pre, x))
    BY <2>1, LineStep
  <2>3. Append(pre, x) \in Seq(Line)
    BY AppendProperties
  <2> QED
    BY <2>2, <2>3
<1>3. acc \in LineAcc /\ <<acc, lines>> \in T
  <2> HIDE DEF T
  <2> QED
    BY <1>1, <1>2, LineLoop
<1> DEFINE rest == IF acc.open > 0 THEN <<Block("code", acc.buf)>> ELSE SplitTables(acc.buf)
           bs == acc.blocks \o rest
<1>4. ParseBlocks(lines) = Only(bs, LAMBDA b : ~AllBlank(b.lines))
  BY DEF ParseBlocks, NoBlocks
<1> HIDE DEF acc
<1>5. /\ acc.blocks \in Seq(Blocks) /\ acc.buf \in Seq(Line)
      /\ LinesOf(acc.blocks) \o acc.buf = lines /\ Shaped(acc.blocks)
  BY <1>3 DEF LineAcc, LineInv
<1>6. rest \in Seq(Blocks) /\ LinesOf(rest) = acc.buf /\ Shaped(rest)
  BY <1>5, CodeBlock, SplitTablesKeeps
<1>7. bs \in Seq(Blocks) /\ LinesOf(bs) = lines /\ Shaped(bs)
  <2> HIDE DEF rest
  <2>1. bs \in Seq(Blocks) /\ LinesOf(bs) = LinesOf(acc.blocks) \o LinesOf(rest)
    BY <1>5, <1>6, BlockRecords, ConcatProperties, LinesOfConcat
  <2>2. Shaped(bs)
    BY <1>5, <1>6, ShapedConcat
  <2> QED
    BY <1>5, <1>6, <2>1, <2>2
<1>8. Only(bs, LAMBDA b : ~AllBlank(b.lines)) = Those(bs, Speaking)
  <2> HIDE DEF bs
  <2>1. \A i \in DOMAIN bs : bs[i] \in Blocks
    BY <1>7, LenProperties, ElementOfSeq
  <2>2. {i \in DOMAIN bs : ~AllBlank(bs[i].lines)} = {i \in DOMAIN bs : bs[i] \in Speaking}
    BY <2>1 DEF Speaking
  <2> QED
    BY <2>2 DEF Only, Those
<1> HIDE DEF bs
<1> QED
  BY <1>4, <1>7, <1>8

----------------------------------------------------------------------------
(* Parts of a list.                                                        *)

Inside(part, lines) == \E a \in Seq(Line), b \in Seq(Line) : lines = (a \o part) \o b

Joined(a, b) == a \o b

(***************************************************************************)
(* Three lists of lines.                                                   *)
(***************************************************************************)
LEMMA JoinedAssociative ==
    ASSUME NEW a \in Seq(Line), NEW b \in Seq(Line), NEW c \in Seq(Line)
    PROVE  Joined(a, b) \in Seq(Line) /\ Joined(Joined(a, b), c) = Joined(a, Joined(b, c))
<1>1. (a \o b) \o c = a \o (b \o c)
  BY ConcatAssociative, SMTT(30)
<1>2. a \o b \in Seq(Line)
  BY ConcatProperties, SMTT(30)
<1> QED
  BY <1>1, <1>2 DEF Joined

LEMMA InsideSelf == ASSUME NEW p \in Seq(Line) PROVE Inside(p, p)
<1>1. <<>> \in Seq(Line) /\ p = (<<>> \o p) \o <<>>
  BY EmptySeq, ConcatEmptySeq
<1> QED
  BY <1>1 DEF Inside

LEMMA InsideBefore ==
    ASSUME NEW p \in Seq(Line), NEW q \in Seq(Line), NEW r \in Seq(Line), Inside(p, q)
    PROVE  Inside(p, q \o r)
<1>1. PICK a \in Seq(Line), b \in Seq(Line) : q = (a \o p) \o b
  BY DEF Inside
<1> DEFINE ap == Joined(a, p)
           br == Joined(b, r)
<1>2. ap \in Seq(Line) /\ br \in Seq(Line) /\ Joined(Joined(ap, b), r) = Joined(ap, br)
  BY JoinedAssociative
<1>3. q = Joined(ap, b)
  BY <1>1 DEF Joined
<1>4. Joined(q, r) = Joined(ap, br)
  BY <1>2, <1>3
<1>5. q \o r = (a \o p) \o br
  <2> HIDE DEF br
  <2> QED
    BY <1>4 DEF Joined
<1> HIDE DEF br
<1> QED
  BY <1>2, <1>5 DEF Inside

LEMMA InsideBehind ==
    ASSUME NEW p \in Seq(Line), NEW q \in Seq(Line), NEW r \in Seq(Line), Inside(p, q)
    PROVE  Inside(p, r \o q)
<1>1. PICK a \in Seq(Line), b \in Seq(Line) : q = (a \o p) \o b
  BY DEF Inside
<1> DEFINE ap == Joined(a, p)
           ra == Joined(r, a)
<1>2. /\ ap \in Seq(Line) /\ ra \in Seq(Line)
      /\ Joined(r, ap) = Joined(ra, p) /\ Joined(Joined(r, ap), b) = Joined(r, Joined(ap, b))
  BY JoinedAssociative
<1>3. q = Joined(ap, b)
  BY <1>1 DEF Joined
<1>4. Joined(r, q) = Joined(Joined(ra, p), b)
  BY <1>2, <1>3
<1>5. r \o q = (ra \o p) \o b
  <2> HIDE DEF ra
  <2> QED
    BY <1>4 DEF Joined
<1> HIDE DEF ra
<1> QED
  BY <1>2, <1>5 DEF Inside

LEMMA InsideInside ==
    ASSUME NEW p \in Seq(Line), NEW q \in Seq(Line), NEW r \in Seq(Line), Inside(p, q), Inside(q, r)
    PROVE  Inside(p, r)
<1>1. PICK a \in Seq(Line), b \in Seq(Line) : r = (a \o q) \o b
  BY DEF Inside
<1> DEFINE aq == a \o q
<1>2. aq \in Seq(Line) /\ Inside(p, aq)
  BY ConcatProperties, InsideBehind
<1>3. Inside(p, aq \o b)
  <2> HIDE DEF aq
  <2> QED
    BY <1>2, InsideBefore
<1> QED
  BY <1>1, <1>3

(***************************************************************************)
(* A part of the lines is within them.                                     *)
(***************************************************************************)
LEMMA InsideWithin ==
    ASSUME NEW p \in Seq(Line), NEW q \in Seq(Line), Inside(p, q)
    PROVE  Within(p, q)
<1>1. PICK a \in Seq(Line), b \in Seq(Line) : q = (a \o p) \o b
  BY DEF Inside
<1> DEFINE ap == a \o p
           i == Len(a)
           n == Len(p)
           s == SubSeq(q, i + 1, i + n)
<1>2. /\ ap \in Seq(Line) /\ Len(ap) = i + n
      /\ \A k \in 1..(i + n) : ap[k] = IF k <= i THEN a[k] ELSE p[k - i]
  BY ConcatProperties
<1>3. /\ Len(q) = Len(ap) + Len(b)
      /\ \A k \in 1..(Len(ap) + Len(b)) : q[k] = IF k <= Len(ap) THEN ap[k] ELSE b[k - Len(ap)]
  <2> HIDE DEF ap
  <2> QED
    BY <1>1, <1>2, ConcatProperties DEF ap
<1>4. i \in Nat /\ n \in Nat /\ Len(b) \in Nat
  BY LenProperties
<1>5. ASSUME NEW k \in 1..n PROVE q[i + k] = p[k] /\ i + k \in 1..Len(q)
  <2> DEFINE j == i + k
  <2>1. j \in 1..(i + n) /\ j \in 1..(Len(ap) + Len(b)) /\ j <= Len(ap) /\ ~(j <= i) /\ j - i = k
    <3> HIDE DEF ap, i, n
    <3> QED
      BY <1>2, <1>4
  <2> HIDE DEF j, ap, i
  <2>2. q[j] = ap[j] /\ ap[j] = p[k] /\ j \in 1..Len(q)
    BY <1>2, <1>3, <2>1
  <2> QED
    BY <2>2 DEF j
<1>6. s \in Seq(Line) /\ Len(s) = n /\ \A k \in 1..n : s[k] = p[k]
  <2>1. \A k \in (i + 1)..(i + n) : q[k] \in Line
    <3> SUFFICES ASSUME NEW k \in (i + 1)..(i + n) PROVE q[k] \in Line
      OBVIOUS
    <3>1. k \in 1..Len(q)
      <4> HIDE DEF ap, i, n
      <4> QED
        BY <1>2, <1>3, <1>4
    <3> QED
      BY <3>1, ElementOfSeq
  <2> HIDE DEF i, n
  <2> DEFINE lo == i + 1
             hi == i + n
  <2>2. /\ SubSeq(q, lo, hi) \in Seq(Line) /\ Len(SubSeq(q, lo, hi)) = IF lo <= hi THEN hi - lo + 1 ELSE 0
        /\ \A k \in 1..(hi - lo + 1) : SubSeq(q, lo, hi)[k] = q[lo + k - 1]
    <3>1. lo \in Int /\ hi \in Int /\ \A k \in lo..hi : q[k] \in Line
      BY <1>4, <2>1
    <3> HIDE DEF lo, hi
    <3> QED
      BY <3>1, SubSeqProperties
  <2>3. hi - lo + 1 = n /\ (\A k \in 1..n : lo + k - 1 = i + k) /\ (IF lo <= hi THEN hi - lo + 1 ELSE 0) = n
    BY <1>4
  <2>4. Len(s) = n
    BY <2>2, <2>3
  <2> QED
    BY <1>5, <2>2, <2>3, <2>4
<1>7. s = p
  <2> HIDE DEF s, n
  <2> QED
    BY <1>6, SeqEqual DEF n
<1>8. i \in 0..(Len(q) - Len(p))
  <2> HIDE DEF ap, i
  <2> QED
    BY <1>2, <1>3, <1>4
<1> HIDE DEF i
<1> QED
  BY <1>7, <1>8 DEF Within

----------------------------------------------------------------------------
(* Paragraphs.                                                             *)

ParaAcc == [paras : Seq(Seq(Line)), buf : Seq(Line)]

NoParas == [paras |-> <<>>, buf |-> <<>>]

Solid(lines) == \A i \in DOMAIN lines : ~IsBlank(lines[i])

Full(lines) == lines # <<>> /\ Solid(lines)

\* The words so far are in the paragraphs and the buffer; the paragraphs
\* are parts of the lines so far, and the buffer is their end.
ParaInv(acc, pre) ==
    /\ NonBlank(FlattenSeq(acc.paras) \o acc.buf) = NonBlank(pre)
    /\ \A p \in ToSet(acc.paras) : Full(p) /\ Inside(p, pre)
    /\ Solid(acc.buf)
    /\ \E a \in Seq(Line) : pre = a \o acc.buf

LEMMA NonBlankAppend ==
    ASSUME NEW lines \in Seq(Line), NEW line \in Line
    PROVE  NonBlank(Append(lines, line)) = IF IsBlank(line) THEN NonBlank(lines) ELSE Append(NonBlank(lines), line)
<1> DEFINE t == Append(lines, line)
<1>1. t \in Seq(Line)
  BY AppendProperties
<1>2. NonBlank(t) = Those(t, Words)
  <2> HIDE DEF t
  <2> QED
    BY <1>1, NonBlankIs
<1>3. Those(t, Words) = IF line \in Words THEN Append(Those(lines, Words), line) ELSE Those(lines, Words)
  BY ThoseAppend
<1>4. NonBlank(lines) = Those(lines, Words) /\ (line \in Words <=> ~IsBlank(line))
  BY NonBlankIs DEF Words
<1> QED
  BY <1>2, <1>3, <1>4

\* The paragraphs with the one in the buffer.
Done(acc) == IF acc.buf = <<>> THEN acc.paras ELSE Append(acc.paras, acc.buf)

(***************************************************************************)
(* The paragraph in the buffer becomes one of the paragraphs.              *)
(***************************************************************************)
LEMMA DoneKeeps ==
    ASSUME NEW acc \in ParaAcc
    PROVE  /\ Done(acc) \in Seq(Seq(Line))
           /\ \A pre \in Seq(Line) : ParaInv(acc, pre) =>
                 /\ NonBlank(FlattenSeq(Done(acc))) = NonBlank(pre)
                 /\ \A p \in ToSet(Done(acc)) : Full(p) /\ Inside(p, pre)
<1> DEFINE d == Done(acc)
           ps == acc.paras
           b == acc.buf
           f == FlattenSeq(ps)
<1>1. ps \in Seq(Seq(Line)) /\ b \in Seq(Line)
  BY DEF ParaAcc
<1>2. d \in Seq(Seq(Line)) /\ FlattenSeq(d) = f \o b /\ (b = <<>> => ToSet(d) = ToSet(ps))
      /\ (b # <<>> => ToSet(d) = ToSet(ps) \union {b})
  <2> HIDE DEF ps, b
  <2>1. f \in Seq(Line)
    BY <1>1, FlattenTyped
  <2>2. CASE b = <<>>
    <3>1. d = ps
      BY <2>2 DEF Done, ps, b
    <3>2. f \o <<>> = f
      BY <2>1, ConcatEmptySeq
    <3> QED
      BY <1>1, <2>2, <3>1, <3>2
  <2>3. CASE b # <<>>
    <3>1. d = Append(ps, b)
      BY <2>3 DEF Done, ps, b
    <3> HIDE DEF d
    <3>2. Append(ps, b) \in Seq(Seq(Line)) /\ FlattenSeq(Append(ps, b)) = f \o b
      BY <1>1, AppendProperties, FlattenAppend
    <3>3. ToSet(Append(ps, b)) = ToSet(ps) \union {b}
      BY <1>1, Elements
    <3> QED
      BY <2>3, <3>1, <3>2, <3>3
  <2> QED
    BY <2>2, <2>3
<1>3. ASSUME NEW pre \in Seq(Line), ParaInv(acc, pre)
      PROVE  NonBlank(FlattenSeq(d)) = NonBlank(pre) /\ \A p \in ToSet(d) : Full(p) /\ Inside(p, pre)
  <2>1. NonBlank(f \o b) = NonBlank(pre) /\ Solid(b) /\ \A p \in ToSet(ps) : Full(p) /\ Inside(p, pre)
    BY <1>3 DEF ParaInv
  <2>2. Inside(b, pre)
    <3>1. PICK a \in Seq(Line) : pre = a \o b
      BY <1>3 DEF ParaInv
    <3> HIDE DEF b
    <3>2. Inside(b, a \o b)
      BY <1>1, InsideSelf, InsideBehind
    <3> QED
      BY <3>1, <3>2
  <2> HIDE DEF d, ps, b, f
  <2> QED
    BY <1>2, <2>1, <2>2 DEF Full
<1> QED
  BY <1>2, <1>3

(***************************************************************************)
(* What _split_paragraphs keeps in a step.                                 *)
(***************************************************************************)
LEMMA ParaStep ==
    ASSUME NEW acc \in ParaAcc, NEW line \in Line
    PROVE  /\ NextParagraphLine(acc, line) \in ParaAcc
           /\ \A pre \in Seq(Line) :
                 ParaInv(acc, pre) => ParaInv(NextParagraphLine(acc, line), Append(pre, line))
<1> DEFINE d == Done(acc)
           b == acc.buf
           next == NextParagraphLine(acc, line)
           fd == FlattenSeq(d)
<1>1. d \in Seq(Seq(Line)) /\ b \in Seq(Line) /\ acc.paras \in Seq(Seq(Line)) /\ fd \in Seq(Line)
  <2>1. d \in Seq(Seq(Line)) /\ b \in Seq(Line) /\ acc.paras \in Seq(Seq(Line))
    BY DoneKeeps DEF ParaAcc
  <2> HIDE DEF d
  <2> QED
    BY <2>1, FlattenTyped
<1>2. Append(b, line) \in Seq(Line) /\ <<line>> \in Seq(Line)
  <2> HIDE DEF b
  <2> QED
    BY <1>1, AppendProperties
<1>3. ASSUME NEW pre \in Seq(Line), ParaInv(acc, pre)
      PROVE  /\ NonBlank(fd) = NonBlank(pre) /\ \A p \in ToSet(d) : Full(p) /\ Inside(p, pre)
             /\ \A p \in Seq(Line) : Inside(p, pre) => Inside(p, Append(pre, line))
             /\ Append(pre, line) \in Seq(Line) /\ pre \o <<line>> = Append(pre, line)
  <2>1. NonBlank(fd) = NonBlank(pre) /\ \A p \in ToSet(d) : Full(p) /\ Inside(p, pre)
    BY <1>3, DoneKeeps
  <2>2. Append(pre, line) \in Seq(Line) /\ Append(pre, line) = pre \o <<line>>
    BY AppendProperties, AppendIsConcat
  <2>3. ASSUME NEW p \in Seq(Line), Inside(p, pre) PROVE Inside(p, pre \o <<line>>)
    BY <1>2, <2>3, InsideBefore
  <2> QED
    BY <2>1, <2>2, <2>3
<1>4. \A p \in ToSet(d) : p \in Seq(Line)
  <2> HIDE DEF d
  <2> QED
    BY <1>1, Elements
<1>5. CASE IsBlank(line)
  <2>1. next = [paras |-> d, buf |-> <<>>]
    BY <1>5 DEF NextParagraphLine, Done, IsBlank
  <2>2. next \in ParaAcc /\ next.paras = d /\ next.buf = <<>>
    <3> HIDE DEF d
    <3> QED
      BY <1>1, <2>1, EmptySeq DEF ParaAcc
  <2> HIDE DEF next, d
  <2>3. ASSUME NEW pre \in Seq(Line), ParaInv(acc, pre) PROVE ParaInv(next, Append(pre, line))
    <3> DEFINE t == Append(pre, line)
    <3>1. NonBlank(fd) = NonBlank(pre) /\ (\A p \in ToSet(d) : Full(p) /\ Inside(p, t)) /\ t \in Seq(Line)
      BY <1>3, <1>4, <2>3
    <3>2. NonBlank(t) = NonBlank(pre)
      BY <1>5, NonBlankAppend
    <3> HIDE DEF t
    <3>3. fd \o <<>> = fd /\ t \o <<>> = t
      BY <1>1, <3>1, ConcatEmptySeq
    <3>4. ParaInv(next, t)
      BY <2>2, <3>1, <3>2, <3>3 DEF ParaInv, Solid
    <3> QED
      BY <3>4 DEF t
  <2> QED
    BY <2>2, <2>3 DEF next
<1>6. CASE ~IsBlank(line) /\ KindOf(line) = "header"
  <2>1. next = [paras |-> d, buf |-> <<line>>]
    BY <1>6 DEF NextParagraphLine, Done
  <2>2. next \in ParaAcc /\ next.paras = d /\ next.buf = <<line>>
    <3> HIDE DEF d
    <3> QED
      BY <1>1, <1>2, <2>1 DEF ParaAcc
  <2> HIDE DEF next, d
  <2>3. ASSUME NEW pre \in Seq(Line), ParaInv(acc, pre) PROVE ParaInv(next, Append(pre, line))
    <3> DEFINE t == Append(pre, line)
               w == <<line>>
    <3>1. /\ NonBlank(fd) = NonBlank(pre) /\ (\A p \in ToSet(d) : Full(p) /\ Inside(p, t)) /\ t \in Seq(Line)
          /\ pre \o w = t
      BY <1>3, <1>4, <2>3
    <3>2. w \in Seq(Line)
      BY <1>2
    <3>3. Solid(w)
      BY <1>6 DEF Solid
    <3> HIDE DEF t, w, fd
    <3>4. NonBlank(fd \o w) = NonBlank(fd) \o NonBlank(w) /\ NonBlank(pre \o w) = NonBlank(pre) \o NonBlank(w)
      BY <1>1, <3>2, NonBlankConcat
    <3>5. next.buf = w
      BY <2>2 DEF w
    <3>6. ParaInv(next, t)
      BY <2>2, <3>1, <3>3, <3>4, <3>5 DEF ParaInv, fd
    <3> QED
      BY <3>6 DEF t
  <2> QED
    BY <2>2, <2>3 DEF next
<1>7. CASE ~IsBlank(line) /\ KindOf(line) # "header"
  <2>1. next = [acc EXCEPT !.buf = Append(@, line)]
    BY <1>7 DEF NextParagraphLine
  <2> DEFINE x == Append(b, line)
             f == FlattenSeq(acc.paras)
  <2>2. next \in ParaAcc /\ next.paras = acc.paras /\ next.buf = x
    BY <1>2, <2>1 DEF ParaAcc
  <2> HIDE DEF next, d
  <2>3. ASSUME NEW pre \in Seq(Line), ParaInv(acc, pre) PROVE ParaInv(next, Append(pre, line))
    <3> DEFINE t == Append(pre, line)
    <3>1. /\ NonBlank(f \o b) = NonBlank(pre) /\ Solid(b)
          /\ \A p \in ToSet(acc.paras) : Full(p) /\ Inside(p, pre)
      BY <2>3 DEF ParaInv
    <3>2. f \in Seq(Line) /\ \A p \in ToSet(acc.paras) : p \in Seq(Line)
      BY <1>1, FlattenTyped, Elements
    <3>3. PICK a \in Seq(Line) : pre = a \o b
      BY <2>3 DEF ParaInv
    <3>4. \A p \in Seq(Line) : Inside(p, pre) => Inside(p, t)
      BY <1>3, <2>3
    <3> HIDE DEF b, f
    <3>5. f \o x = Append(f \o b, line) /\ a \o x = Append(a \o b, line)
      <4>1. f \in Seq(Line) /\ b \in Seq(Line)
        BY <1>1, <3>2
      <4>2. f \o x = Append(f \o b, line)
        BY <4>1, ConcatAppend
      <4>3. a \o x = Append(a \o b, line)
        BY <4>1, ConcatAppend
      <4> QED
        BY <4>2, <4>3
    <3>6. NonBlank(f \o x) = NonBlank(t)
      <4> DEFINE fb == f \o b
      <4>1. fb \in Seq(Line)
        BY <1>1, <3>2, ConcatProperties
      <4>2. NonBlank(fb) = NonBlank(pre)
        BY <3>1
      <4> HIDE DEF fb
      <4>3. NonBlank(Append(fb, line)) = Append(NonBlank(fb), line) /\ NonBlank(t) = Append(NonBlank(pre), line)
        BY <1>7, <4>1, NonBlankAppend
      <4> QED
        BY <3>5, <4>2, <4>3 DEF fb
    <3>7. Solid(x)
      <4>1. DOMAIN b = 1..Len(b) /\ DOMAIN x = 1..(Len(b) + 1) /\ Len(b) \in Nat
        <5>1. x \in Seq(Line) /\ Len(x) = Len(b) + 1
          BY <1>1, AppendProperties
        <5> HIDE DEF x
        <5> QED
          BY <1>1, <5>1, LenProperties
      <4>2. x[Len(b) + 1] = line /\ \A i \in 1..Len(b) : x[i] = b[i]
        BY <1>1, AppendProperties
      <4> HIDE DEF x
      <4> QED
        BY <1>7, <3>1, <4>1, <4>2 DEF Solid
    <3>8. t = a \o x
      BY <3>3, <3>5
    <3> HIDE DEF t, x
    <3>9. ParaInv(next, t)
      BY <2>2, <3>1, <3>2, <3>4, <3>6, <3>7, <3>8 DEF ParaInv, f
    <3> QED
      BY <3>9 DEF t
  <2> QED
    BY <2>2, <2>3 DEF next
<1> QED
  BY <1>5, <1>6, <1>7

(***************************************************************************)
(* _split_paragraphs, line by line.                                        *)
(***************************************************************************)
LEMMA ParaLoop ==
    ASSUME NEW s \in Seq(Line), NEW T, <<NoParas, <<>>>> \in T,
           \A acc \in ParaAcc, pre \in Seq(Line), x \in Line :
              <<acc, pre>> \in T => <<NextParagraphLine(acc, x), Append(pre, x)>> \in T
    PROVE  LET fold == FoldLeft(NextParagraphLine, NoParas, s) IN fold \in ParaAcc /\ <<fold, s>> \in T
<1> DEFINE n == Len(s)
           Rec(f) == f = [t \in SUBSET (1..n) |->
                             IF t = {} THEN NoParas ELSE NextParagraphLine(f[t \ {Max(t)}], s[Max(t)])]
           step == [p \in (1..n) \X ParaAcc |-> NextParagraphLine(p[2], s[p[1]])]
<1>1. n \in Nat /\ DOMAIN s = 1..n /\ \A k \in 1..n : s[k] \in Line
  BY LenProperties, ElementOfSeq
<1>2. step \in [(1..n) \X ParaAcc -> ParaAcc]
  BY <1>1, ParaStep
<1>3. NoParas \in ParaAcc
  BY EmptySeq DEF NoParas, ParaAcc
<1>4. FoldLeft(NextParagraphLine, NoParas, s) = (CHOOSE f : Rec(f))[1..n]
  BY <1>1 DEF FoldLeft, MapThenFoldSet
<1>5. \E f : Rec(f)
  <2>1. PICK h \in [SUBSET (1..n) -> ParaAcc] : Folding(h, n, NoParas, step)
    <3> HIDE DEF step, n
    <3> QED
      BY <1>1, <1>2, <1>3, FoldExists
  <2>2. \A t \in SUBSET (1..n) : h[t] = IF t = {} THEN NoParas ELSE step[<<Max(t), h[t \ {Max(t)}]>>]
    BY <2>1 DEF Folding
  <2>3. ASSUME NEW t \in SUBSET (1..n), t # {}
        PROVE  h[t] = NextParagraphLine(h[t \ {Max(t)}], s[Max(t)])
    <3>1. Max(t) \in 1..n
      BY <1>1, <2>3, MaxUpTo
    <3>2. h[t \ {Max(t)}] \in ParaAcc
      BY <2>1
    <3>3. h[t] = step[<<Max(t), h[t \ {Max(t)}]>>]
      BY <2>2, <2>3
    <3> QED
      BY <3>1, <3>2, <3>3
  <2> DEFINE f == [t \in SUBSET (1..n) |-> h[t]]
  <2>4. Rec(f)
    <3>1. ASSUME NEW t \in SUBSET (1..n)
          PROVE  h[t] = IF t = {} THEN NoParas ELSE NextParagraphLine(f[t \ {Max(t)}], s[Max(t)])
      <4>1. CASE t = {}
        BY <2>2, <4>1
      <4>2. CASE t # {}
        <5>1. f[t \ {Max(t)}] = h[t \ {Max(t)}]
          OBVIOUS
        <5> QED
          BY <2>3, <4>2, <5>1
      <4> QED
        BY <4>1, <4>2
    <3> QED
      BY <3>1
  <2> HIDE DEF Rec, f
  <2> QED
    BY <2>4
<1> DEFINE c == CHOOSE f : Rec(f)
<1>6. Rec(c)
  <2> HIDE DEF Rec
  <2> QED
    BY <1>5
<1>7. FoldLeft(NextParagraphLine, NoParas, s) = c[1..n]
  BY <1>4
<1> HIDE DEF c
<1> DEFINE K == {k \in 0..n : c[1..k] \in ParaAcc /\ <<c[1..k], SubSeq(s, 1, k)>> \in T}
<1>8. 0 \in K
  <2>1. c[1..0] = NoParas
    BY <1>1, <1>6, Intervals
  <2>2. SubSeq(s, 1, 0) = <<>>
    BY FirstElements
  <2> HIDE DEF n
  <2> QED
    BY <1>1, <1>3, <2>1, <2>2
<1>9. ASSUME NEW k \in 1..n, k - 1 \in K PROVE k \in K
  <2>1. 1..k \in SUBSET (1..n) /\ 1..k # {} /\ Max(1..k) = k /\ (1..k) \ {k} = 1..(k - 1)
    BY <1>1, Intervals
  <2> DEFINE acc == c[1..(k - 1)]
             pre == SubSeq(s, 1, k - 1)
             x == s[k]
  <2>2. c[1..k] = NextParagraphLine(acc, x)
    <3> HIDE DEF n
    <3> QED
      BY <1>6, <2>1
  <2>3. SubSeq(s, 1, k) = Append(pre, x) /\ x \in Line
    BY FirstElements
  <2>4. pre \in Seq(Line) /\ k \in 0..n
    <3>1. k - 1 \in 0..n /\ k \in 0..n
      BY <1>1
    <3> QED
      BY <3>1, FirstElements
  <2>5. acc \in ParaAcc /\ <<acc, pre>> \in T
    BY <1>9
  <2> HIDE DEF acc, pre, x, n
  <2>6. NextParagraphLine(acc, x) \in ParaAcc
    BY <2>3, <2>5, ParaStep
  <2>7. <<NextParagraphLine(acc, x), Append(pre, x)>> \in T
    BY <2>3, <2>4, <2>5
  <2> QED
    BY <2>2, <2>3, <2>4, <2>6, <2>7
<1>10. n \in K
  <2>1. n \in 0..n
    BY <1>1
  <2> HIDE DEF K, n
  <2> QED
    BY <1>1, <1>8, <1>9, <2>1, UpTo
<1>11. SubSeq(s, 1, n) = s
  BY FirstElements
<1> QED
  BY <1>7, <1>10, <1>11

(***************************************************************************)
(* _split_paragraphs keeps the words, and a paragraph is a part of the     *)
(* lines without a blank one.                                              *)
(***************************************************************************)
LEMMA SplitParagraphsKeeps ==
    ASSUME NEW lines \in Seq(Line)
    PROVE  /\ SplitParagraphs(lines) \in Seq(Seq(Line))
           /\ NonBlank(FlattenSeq(SplitParagraphs(lines))) = NonBlank(lines)
           /\ \A p \in ToSet(SplitParagraphs(lines)) : Full(p) /\ Inside(p, lines)
<1> DEFINE T == {p \in ParaAcc \X Seq(Line) : ParaInv(p[1], p[2])}
           acc == FoldLeft(NextParagraphLine, NoParas, lines)
<1>1. <<NoParas, <<>>>> \in T
  <2>1. NoParas \in ParaAcc /\ <<>> \in Seq(Line)
    BY EmptySeq DEF NoParas, ParaAcc
  <2>2. FlattenSeq(<<>>) \o <<>> = <<>> /\ <<>> \o <<>> = <<>> /\ ToSet(<<>>) = {}
    BY FlattenNone, ConcatEmptySeq, EmptySeq, Elements
  <2>3. NonBlank(FlattenSeq(NoParas.paras) \o NoParas.buf) = NonBlank(<<>>)
    BY <2>2 DEF NoParas
  <2>4. ToSet(NoParas.paras) = {} /\ Solid(NoParas.buf)
    BY <2>2 DEF NoParas, Solid
  <2>5. \E a \in Seq(Line) : <<>> = a \o NoParas.buf
    BY <2>1, <2>2 DEF NoParas
  <2>6. ParaInv(NoParas, <<>>)
    BY <2>3, <2>4, <2>5 DEF ParaInv
  <2> QED
    BY <2>1, <2>6
<1>2. ASSUME NEW a \in ParaAcc, NEW pre \in Seq(Line), NEW x \in Line, <<a, pre>> \in T
      PROVE  <<NextParagraphLine(a, x), Append(pre, x)>> \in T
  <2>1. ParaInv(a, pre)
    BY <1>2
  <2>2. NextParagraphLine(a, x) \in ParaAcc /\ ParaInv(NextParagraphLine(a, x), Append(pre, x))
    BY <2>1, ParaStep
  <2>3. Append(pre, x) \in Seq(Line)
    BY AppendProperties
  <2> QED
    BY <2>2, <2>3
<1>3. acc \in ParaAcc /\ <<acc, lines>> \in T
  <2> HIDE DEF T
  <2> QED
    BY <1>1, <1>2, ParaLoop
<1>4. SplitParagraphs(lines) = Done(acc)
  BY DEF SplitParagraphs, NoParas, Done
<1> HIDE DEF acc
<1>5. ParaInv(acc, lines)
  BY <1>3
<1> QED
  BY <1>3, <1>4, <1>5, DoneKeeps

----------------------------------------------------------------------------
(* Pieces of a paragraph that is too long.                                 *)

(***************************************************************************)
(* So many pieces are enough, and none is empty.                           *)
(***************************************************************************)
LEMMA PieceCount ==
    ASSUME NEW m \in Nat \ {0}, NEW n \in Nat \ {0}
    PROVE  LET c == (n + m - 1) \div m
           IN  /\ c \in Nat \ {0} /\ n <= c * m
               /\ \A k \in 1..c : (k - 1) * m \in Nat /\ (k - 1) * m < n /\ k * m = (k - 1) * m + m
<1> DEFINE c == (n + m - 1) \div m
           r == (n + m - 1) % m
<1>1. c \in Int /\ r \in 0..(m - 1) /\ n + m - 1 = m * c + r
  OBVIOUS
<1> HIDE DEF c, r
<1>2. c >= 1
  <2>1. CASE c <= 0
    <3>1. m * c <= 0
      BY <1>1, <2>1
    <3> QED
      BY <1>1, <3>1
  <2> QED
    BY <1>1, <2>1
<1>3. c * m = m * c
  BY <1>1
<1>4. n <= c * m
  BY <1>1, <1>3
<1>5. ASSUME NEW k \in 1..c PROVE (k - 1) * m \in Nat /\ (k - 1) * m < n /\ k * m = (k - 1) * m + m
  <2>1. k * m = (k - 1) * m + m
    OBVIOUS
  <2>2. (k - 1) * m >= 0
    OBVIOUS
  <2>3. (c - k) * m >= 0 /\ (c - k) * m = c * m - k * m
    BY <1>1
  <2>4. k * m <= n + m - 1
    BY <1>1, <1>3, <2>3
  <2> QED
    BY <2>1, <2>2, <2>4
<1> QED
  BY <1>1, <1>2, <1>4, <1>5 DEF c

(***************************************************************************)
(* The pieces are short enough, and make up the paragraph.                 *)
(***************************************************************************)
LEMMA PiecesKeep ==
    ASSUME NEW m \in Nat \ {0}, NEW para \in Seq(Line), para # <<>>
    PROVE  /\ Pieces(para, m) \in Seq(Seq(Line)) /\ FlattenSeq(Pieces(para, m)) = para
           /\ \A c \in ToSet(Pieces(para, m)) : Len(c) <= m
<1> DEFINE n == Len(para)
           c == (n + m - 1) \div m
           B == Seq(Line)
           ps == Pieces(para, m)
           End(k) == IF k * m < n THEN k * m ELSE n
           Piece(k) == SubSeq(para, (k - 1) * m + 1, End(k))
<1>1. n \in Nat \ {0}
  BY EmptySeq
<1>2. /\ c \in Nat \ {0} /\ n <= c * m
      /\ \A k \in 1..c : (k - 1) * m \in Nat /\ (k - 1) * m < n /\ k * m = (k - 1) * m + m
  BY <1>1, PieceCount
<1>3. ps = [k \in 1..c |-> Piece(k)]
  BY DEF Pieces
<1> HIDE DEF c, n
<1>4. ASSUME NEW k \in 1..c
      PROVE  /\ End(k) \in 1..n /\ (k - 1) * m \in 0..(End(k) - 1) /\ End(k) <= (k - 1) * m + m
             /\ Piece(k) \in Seq(Line) /\ Len(Piece(k)) <= m
  <2> DEFINE lo == (k - 1) * m
             hi == End(k)
  <2>1. lo \in Nat /\ lo < n /\ k * m = lo + m
    BY <1>2
  <2> HIDE DEF lo
  <2>2. hi \in 1..n /\ lo \in 0..(hi - 1) /\ hi <= lo + m
    BY <1>1, <2>1
  <2> HIDE DEF hi
  <2> DEFINE from == lo + 1
  <2>3. from \in Int /\ hi \in Int /\ \A i \in from..hi : para[i] \in Line
    <3>1. \A i \in from..hi : i \in 1..n
      BY <1>1, <2>1, <2>2
    <3> QED
      BY <2>1, <2>2, <3>1, ElementOfSeq DEF n
  <2>4. hi - from + 1 <= m /\ from <= hi
    BY <2>1, <2>2
  <2> HIDE DEF from
  <2>5. SubSeq(para, from, hi) \in Seq(Line) /\ Len(SubSeq(para, from, hi)) = IF from <= hi THEN hi - from + 1 ELSE 0
    BY <2>3, SubSeqProperties
  <2> QED
    BY <2>2, <2>4, <2>5 DEF lo, hi, from
<1>5. ps \in Seq(B) /\ Len(ps) = c /\ \A k \in 1..c : ps[k] = Piece(k)
  <2>1. ps \in [1..c -> B]
    BY <1>3, <1>4
  <2>2. \A k \in 1..c : ps[k] = Piece(k)
    BY <1>3
  <2> HIDE DEF ps, B, Piece
  <2>3. [1..c -> B] \in {[1..k -> B] : k \in Nat}
    BY <1>2
  <2>4. ps \in UNION {[1..k -> B] : k \in Nat}
    BY <2>1, <2>3
  <2>5. ps \in Seq(B)
    BY <2>4, SeqDef
  <2>6. Len(ps) \in Nat /\ DOMAIN ps = 1..Len(ps) /\ DOMAIN ps = 1..c
    BY <2>1, <2>5, LenProperties
  <2>7. Len(ps) = c
    <3> DEFINE k == Len(ps)
    <3>1. k \in Nat /\ 1..k = 1..c
      BY <2>6
    <3> HIDE DEF k
    <3>2. k < c => c \in 1..c /\ c \notin 1..k
      BY <1>2, <3>1
    <3>3. c < k => k \in 1..k /\ k \notin 1..c
      BY <1>2, <3>1
    <3>4. k = c
      BY <1>2, <3>1, <3>2, <3>3
    <3> QED
      BY <3>4 DEF k
  <2> QED
    BY <2>2, <2>5, <2>7
<1> HIDE DEF ps
<1>6. \A x \in ToSet(ps) : Len(x) <= m
  <2>1. DOMAIN ps = 1..c
    BY <1>5, LenProperties
  <2> HIDE DEF Piece, End
  <2> QED
    BY <1>4, <1>5, <2>1 DEF ToSet
<1>7. PICK f : Flattening(f, ps) /\ FlattenSeq(ps) = f[c]
  <2>1. ps \in Seq(Seq(Line)) /\ ps # <<>>
    BY <1>2, <1>5, EmptySeq
  <2> QED
    BY <1>5, <2>1, FlattenSteps
<1>8. f[1] = ps[1] /\ \A k \in 2..c : f[k] = f[k - 1] \o ps[k]
  BY <1>5, <1>7 DEF Flattening
<1> DEFINE T == {k \in 0..c : k # 0 => f[k] = SubSeq(para, 1, End(k))}
<1>9. \A k \in 0..c : k \in T
  <2>1. 0 \in T
    BY <1>2
  <2>2. ASSUME NEW k \in 1..c, k - 1 \in T PROVE k \in T
    <3>1. End(k) \in 1..n /\ (k - 1) * m \in 0..(End(k) - 1) /\ k \in 0..c
      <4>1. k \in 0..c
        BY <1>2
      <4> HIDE DEF End, Piece, T
      <4> QED
        BY <1>4, <4>1
    <3>2. CASE k = 1
      <4>1. f[k] = ps[k] /\ ps[k] = Piece(k)
        BY <1>5, <1>8, <3>2
      <4>2. (k - 1) * m + 1 = 1
        BY <3>2
      <4>3. f[k] = SubSeq(para, 1, End(k))
        <5> HIDE DEF End
        <5> QED
          BY <4>1, <4>2
      <4> QED
        BY <3>1, <4>3
    <3>3. CASE k # 1
      <4>1. k - 1 \in 1..c /\ k \in 2..c /\ k - 1 # 0
        BY <1>2, <3>3
      <4> DEFINE lo == (k - 1) * m
                 hi == End(k)
      <4>2. End(k - 1) = lo
        BY <1>2
      <4>3. f[k - 1] = SubSeq(para, 1, lo)
        BY <2>2, <4>1, <4>2
      <4>4. f[k] = f[k - 1] \o SubSeq(para, lo + 1, hi)
        <5>1. f[k] = f[k - 1] \o ps[k] /\ ps[k] = Piece(k)
          BY <1>5, <1>8, <4>1
        <5> QED
          BY <5>1
      <4> HIDE DEF lo, hi
      <4>5. 1 \in 1..(Len(para) + 1) /\ lo \in (1 - 1)..Len(para) /\ hi \in lo..Len(para)
        BY <1>1, <3>1 DEF lo, hi, n
      <4>6. SubSeq(para, 1, lo) \o SubSeq(para, lo + 1, hi) = SubSeq(para, 1, hi)
        BY <4>5, ConcatAdjacentSubSeq
      <4>7. f[k] = SubSeq(para, 1, hi)
        BY <4>3, <4>4, <4>6
      <4> QED
        BY <3>1, <4>7 DEF hi
    <3> QED
      BY <3>2, <3>3
  <2> HIDE DEF T
  <2> QED
    BY <1>2, <2>1, <2>2, UpTo
<1>10. f[c] = para
  <2>1. c \in 0..c /\ c # 0 /\ End(c) = n
    BY <1>1, <1>2, <1>4
  <2>2. f[c] = SubSeq(para, 1, n)
    BY <1>9, <2>1
  <2> QED
    BY <2>2, SubSeqFull DEF n
<1> QED
  BY <1>5, <1>6, <1>7, <1>10 DEF ps

----------------------------------------------------------------------------
(* Chunks.                                                                 *)

LEMMA JoinedNone ==
    ASSUME NEW a \in Seq(Line)
    PROVE  Joined(a, <<>>) = a /\ Joined(<<>>, a) = a
BY ConcatEmptySeq DEF Joined

LEMMA NonBlankJoined ==
    ASSUME NEW a \in Seq(Line), NEW b \in Seq(Line)
    PROVE  NonBlank(Joined(a, b)) = Joined(NonBlank(a), NonBlank(b))
BY NonBlankConcat DEF Joined

LEMMA FlattenJoined ==
    ASSUME NEW a \in Seq(Seq(Line)), NEW b \in Seq(Seq(Line))
    PROVE  FlattenSeq(a \o b) = Joined(FlattenSeq(a), FlattenSeq(b))
BY FlattenConcat DEF Joined

\* The chunks that are not left out.
Spoken == {c \in Seq(Line) : ~AllBlank(c)}

(***************************************************************************)
(* Leaving out blank chunks leaves out no words.                           *)
(***************************************************************************)
LEMMA SpokenKeeps ==
    ASSUME NEW cs \in Seq(Seq(Line))
    PROVE  NonBlank(FlattenSeq(Those(cs, Spoken))) = NonBlank(FlattenSeq(cs))
<1> DEFINE B == Seq(Line)
           T == {u \in Seq(B) : NonBlank(FlattenSeq(Those(u, Spoken))) = NonBlank(FlattenSeq(u))}
<1>1. <<>> \in T
  BY EmptySeq, ThoseNone
<1>2. ASSUME NEW u \in Seq(B), NEW x \in B, u \in T PROVE Append(u, x) \in T
  <2> DEFINE w == Those(u, Spoken)
             fu == FlattenSeq(u)
             fw == FlattenSeq(w)
             ux == Append(u, x)
  <2>1. w \in Seq(Seq(Line)) /\ x \in Seq(Line) /\ ux \in Seq(B)
    BY ThoseTyped, AppendProperties
  <2>2. fu \in Seq(Line) /\ fw \in Seq(Line)
    <3> HIDE DEF w
    <3> QED
      BY <2>1, FlattenTyped
  <2>3. Those(ux, Spoken) = IF x \in Spoken THEN Append(w, x) ELSE w
    BY ThoseAppend
  <2>4. FlattenSeq(ux) = Joined(fu, x)
    BY FlattenAppend DEF Joined
  <2>5. FlattenSeq(Append(w, x)) = Joined(fw, x)
    <3> HIDE DEF w
    <3> QED
      BY <2>1, FlattenAppend DEF Joined
  <2>6. NonBlank(fw) = NonBlank(fu)
    BY <1>2
  <2>7. /\ NonBlank(Joined(fu, x)) = Joined(NonBlank(fu), NonBlank(x))
        /\ NonBlank(Joined(fw, x)) = Joined(NonBlank(fw), NonBlank(x))
        /\ NonBlank(fu) \in Seq(Line)
    <3> HIDE DEF fu, fw
    <3> QED
      BY <2>1, <2>2, NonBlankJoined, NonBlankTyped
  <2>8. NonBlank(FlattenSeq(Those(ux, Spoken))) = NonBlank(FlattenSeq(ux))
    <3> HIDE DEF fu, fw, ux, w
    <3>1. CASE x \in Spoken
      BY <2>3, <2>4, <2>5, <2>6, <2>7, <3>1
    <3>2. CASE x \notin Spoken
      <4>1. NonBlank(x) = <<>>
        BY <2>1, <3>2, AllBlankIs DEF Spoken
      <4>2. NonBlank(FlattenSeq(ux)) = NonBlank(fu)
        BY <2>4, <2>7, <4>1, JoinedNone
      <4> QED
        BY <2>3, <2>6, <3>2, <4>2 DEF fw
    <3> QED
      BY <3>1, <3>2
  <2> QED
    BY <2>1, <2>8
<1> HIDE DEF T
<1>3. cs \in T
  <2> HIDE DEF B
  <2>1. cs \in Seq(B)
    BY DEF B
  <2> QED
    BY <1>1, <1>2, <2>1, ListInduction
<1> QED
  BY <1>3 DEF T

(***************************************************************************)
(* A paragraph makes whatever it is inside of one that is not left out.    *)
(***************************************************************************)
LEMMA FullInside ==
    ASSUME NEW p \in Seq(Line), NEW c \in Seq(Line), Full(p), Inside(p, c)
    PROVE  c \in Spoken /\ c # <<>>
<1>1. PICK a \in Seq(Line), b \in Seq(Line) : c = (a \o p) \o b
  BY DEF Inside
<1> DEFINE ap == a \o p
<1>2. ap \in Seq(Line) /\ ToSet(ap) = ToSet(a) \union ToSet(p)
  BY ConcatProperties, Elements
<1>3. ToSet(ap \o b) = ToSet(ap) \union ToSet(b)
  <2> HIDE DEF ap
  <2> QED
    BY <1>2, Elements
<1>4. ToSet(p) \subseteq ToSet(c)
  BY <1>1, <1>2, <1>3
<1>5. 1 \in DOMAIN p /\ p[1] \in Line
  <2>1. Len(p) \in Nat \ {0} /\ DOMAIN p = 1..Len(p)
    BY EmptySeq, LenProperties DEF Full
  <2>2. 1 \in 1..Len(p)
    BY <2>1
  <2> QED
    BY <2>1, <2>2, ElementOfSeq
<1>6. p[1] \in ToSet(c) \intersect Words
  BY <1>4, <1>5 DEF Full, Solid, Words, ToSet
<1>7. ToSet(c) # {} /\ ToSet(c) \intersect Words # {}
  BY <1>6
<1>8. ~AllBlank(c)
  BY <1>7, AllBlankIs
<1>9. c # <<>>
  BY <1>7, Elements
<1> QED
  BY <1>8, <1>9 DEF Spoken

ChunkAcc == [chunks : Seq(Seq(Line)), buf : Seq(Line)]

NoChunks == [chunks |-> <<>>, buf |-> <<>>]

\* The words of the paragraphs so far are in the chunks and the buffer,
\* which keep to the limit; and a paragraph that fits is in one of them.
ChunkInv(acc, pre, m) ==
    /\ NonBlank(Joined(FlattenSeq(acc.chunks), acc.buf)) = NonBlank(FlattenSeq(pre))
    /\ (\A c \in ToSet(acc.chunks) : Len(c) <= m) /\ Len(acc.buf) <= m
    /\ \A p \in ToSet(pre) : Len(p) <= m =>
          Inside(p, acc.buf) \/ \E c \in ToSet(acc.chunks) : Inside(p, c)

LEMMA NonEmptyIs ==
    ASSUME NEW b \in Seq(Line)
    PROVE  /\ NonEmpty(b) \in Seq(Seq(Line)) /\ FlattenSeq(NonEmpty(b)) = b
           /\ ToSet(NonEmpty(b)) = IF b = <<>> THEN {} ELSE {b}
<1>1. CASE b = <<>>
  BY <1>1, EmptySeq, FlattenNone, Elements DEF NonEmpty
<1>2. CASE b # <<>>
  <2>1. NonEmpty(b) = <<b>> /\ ToSet(<<b>>) = {b}
    BY <1>2 DEF NonEmpty, ToSet
  <2> QED
    BY <1>2, <2>1, FlattenOne
<1> QED
  BY <1>1, <1>2

LEMMA BlankLineIs == BlankLine \in Line /\ <<BlankLine>> \in Seq(Line) /\ NonBlank(<<BlankLine>>) = <<>>
<1>1. BlankLine \in Line /\ IsBlank(BlankLine)
  BY DEF BlankLine, Line, Kinds, IsBlank, KindOf
<1> DEFINE b == BlankLine
<1>2. <<>> \in Seq(Line) /\ Append(<<>>, b) = <<b>>
  BY EmptySeq
<1> HIDE DEF b
<1>3. <<b>> \in Seq(Line)
  BY <1>1 DEF b
<1>4. NonBlank(Append(<<>>, b)) = NonBlank(<<>>)
  BY <1>1, <1>2, NonBlankAppend DEF b
<1> QED
  BY <1>1, <1>2, <1>3, <1>4, NonBlankNone DEF b

LEMMA AddParagraphTyped ==
    ASSUME NEW m \in Nat \ {0}, NEW acc \in ChunkAcc, NEW para \in Seq(Line)
    PROVE  AddParagraph(acc, para, m) \in ChunkAcc
<1> DEFINE next == AddParagraph(acc, para, m)
<1>1. acc.chunks \in Seq(Seq(Line)) /\ acc.buf \in Seq(Line) /\ Len(para) \in Nat
  BY LenProperties DEF ChunkAcc
<1>2. acc.chunks \o NonEmpty(acc.buf) \in Seq(Seq(Line))
  BY <1>1, NonEmptyIs, ConcatProperties
<1>3. CASE Len(para) > m
  <2>1. para # <<>>
    BY <1>3, EmptySeq
  <2>2. Pieces(para, m) \in Seq(Seq(Line))
    BY <2>1, PiecesKeep
  <2> DEFINE cn == acc.chunks \o NonEmpty(acc.buf)
             ps == Pieces(para, m)
  <2>3. cn \o ps \in Seq(Seq(Line))
    <3> HIDE DEF cn, ps
    <3> QED
      BY <1>2, <2>2, ConcatProperties DEF cn, ps
  <2>4. next = [chunks |-> cn \o ps, buf |-> <<>>]
    BY <1>1, <1>3 DEF AddParagraph
  <2> HIDE DEF cn, ps
  <2> QED
    BY <2>3, <2>4, EmptySeq DEF ChunkAcc
<1>4. CASE ~(Len(para) > m) /\ acc.buf # <<>> /\ Len(acc.buf) + 1 + Len(para) <= m
  <2> DEFINE b == acc.buf
             bl == b \o <<BlankLine>>
  <2>1. next = [acc EXCEPT !.buf = @ \o <<BlankLine>> \o para]
    BY <1>1, <1>4 DEF AddParagraph
  <2>2. bl \in Seq(Line)
    <3> HIDE DEF b
    <3> QED
      BY <1>1, BlankLineIs, ConcatProperties DEF b
  <2>3. bl \o para \in Seq(Line)
    <3> HIDE DEF bl
    <3> QED
      BY <2>2, ConcatProperties
  <2>4. next = [acc EXCEPT !.buf = bl \o para]
    BY <2>1
  <2> HIDE DEF bl
  <2> QED
    BY <2>3, <2>4 DEF ChunkAcc
<1>5. CASE ~(Len(para) > m) /\ ~(acc.buf # <<>> /\ Len(acc.buf) + 1 + Len(para) <= m)
  <2>1. next = [chunks |-> acc.chunks \o NonEmpty(acc.buf), buf |-> para]
    BY <1>1, <1>5 DEF AddParagraph
  <2> DEFINE cn == acc.chunks \o NonEmpty(acc.buf)
  <2> HIDE DEF cn
  <2> QED
    BY <1>2, <2>1 DEF ChunkAcc, cn
<1> QED
  BY <1>3, <1>4, <1>5

(***************************************************************************)
(* What _chunk_text keeps in a round of its loop.                          *)
(***************************************************************************)
LEMMA AddParagraphStep ==
    ASSUME NEW m \in Nat \ {0}, NEW acc \in ChunkAcc, NEW pre \in Seq(Seq(Line)), NEW para \in Seq(Line),
           ChunkInv(acc, pre, m)
    PROVE  ChunkInv(AddParagraph(acc, para, m), Append(pre, para), m)
<1> DEFINE next == AddParagraph(acc, para, m)
           b == acc.buf
           f == FlattenSeq(acc.chunks)
           g == FlattenSeq(pre)
           cn == acc.chunks \o NonEmpty(b)
           t == Append(pre, para)
<1>1. /\ acc.chunks \in Seq(Seq(Line)) /\ b \in Seq(Line) /\ f \in Seq(Line) /\ g \in Seq(Line)
      /\ Len(para) \in Nat /\ Len(b) \in Nat
  <2>1. acc.chunks \in Seq(Seq(Line)) /\ b \in Seq(Line) /\ Len(para) \in Nat
    BY LenProperties DEF ChunkAcc
  <2> QED
    BY <2>1, FlattenTyped, LenProperties
<1>2. /\ NonBlank(Joined(f, b)) = NonBlank(g)
      /\ (\A c \in ToSet(acc.chunks) : Len(c) <= m) /\ Len(b) <= m
      /\ \A p \in ToSet(pre) : Len(p) <= m => Inside(p, b) \/ \E c \in ToSet(acc.chunks) : Inside(p, c)
  BY DEF ChunkInv
<1>3. FlattenSeq(t) = Joined(g, para) /\ ToSet(t) = ToSet(pre) \union {para}
  BY FlattenAppend, Elements DEF Joined
<1>4. /\ cn \in Seq(Seq(Line)) /\ FlattenSeq(cn) = Joined(f, b)
      /\ ToSet(cn) = ToSet(acc.chunks) \union (IF b = <<>> THEN {} ELSE {b})
  <2> DEFINE a == acc.chunks
             nb == NonEmpty(b)
  <2>1. nb \in Seq(Seq(Line)) /\ FlattenSeq(nb) = b /\ ToSet(nb) = IF b = <<>> THEN {} ELSE {b}
    BY <1>1, NonEmptyIs
  <2> HIDE DEF a, nb
  <2>2. a \o nb \in Seq(Seq(Line)) /\ FlattenSeq(a \o nb) = Joined(FlattenSeq(a), FlattenSeq(nb))
        /\ ToSet(a \o nb) = ToSet(a) \union ToSet(nb)
    BY <1>1, <2>1, ConcatProperties, FlattenJoined, Elements DEF a
  <2> QED
    BY <2>1, <2>2 DEF a, nb
<1>5. ASSUME NEW p \in Seq(Line), Inside(p, b), b = <<>> PROVE p = <<>>
  <2>1. PICK x \in Seq(Line), y \in Seq(Line) : b = (x \o p) \o y
    BY <1>5 DEF Inside
  <2> DEFINE xp == x \o p
  <2>2. xp \in Seq(Line)
    BY ConcatProperties
  <2>3. xp = <<>>
    <3> HIDE DEF xp
    <3> QED
      BY <1>5, <2>1, <2>2, ConcatEqualIffEmpty DEF xp
  <2> QED
    BY <2>3, ConcatEqualIffEmpty
<1>6. \A p \in Seq(Line) : p \in ToSet(pre) => p \in Seq(Line)
  OBVIOUS
<1> HIDE DEF b, f, g, cn, t
\* The words of the paragraphs so far and of this one.
<1>7. NonBlank(FlattenSeq(t)) = NonBlank(Joined(Joined(f, b), para))
  <2>1. Joined(f, b) \in Seq(Line)
    BY <1>1, JoinedAssociative
  <2>2. NonBlank(Joined(g, para)) = Joined(NonBlank(g), NonBlank(para))
    BY <1>1, NonBlankJoined
  <2>3. NonBlank(Joined(Joined(f, b), para)) = Joined(NonBlank(Joined(f, b)), NonBlank(para))
    BY <2>1, NonBlankJoined
  <2> QED
    BY <1>2, <1>3, <2>2, <2>3
<1>8. CASE Len(para) > m
  <2> DEFINE ps == Pieces(para, m)
  <2>1. ps \in Seq(Seq(Line)) /\ FlattenSeq(ps) = para /\ \A c \in ToSet(ps) : Len(c) <= m
    <3>1. para # <<>>
      BY <1>8, EmptySeq
    <3> QED
      BY <3>1, PiecesKeep
  <2>2. next = [chunks |-> cn \o ps, buf |-> <<>>]
    BY <1>1, <1>8 DEF AddParagraph, cn, b
  <2> HIDE DEF ps, next
  <2>3. FlattenSeq(cn \o ps) = Joined(Joined(f, b), para) /\ ToSet(cn \o ps) = ToSet(cn) \union ToSet(ps)
    BY <1>4, <2>1, FlattenJoined, Elements
  <2>4. next.chunks = cn \o ps /\ next.buf = <<>>
    BY <2>2
  <2>5. NonBlank(Joined(FlattenSeq(next.chunks), next.buf)) = NonBlank(FlattenSeq(t))
    <3>1. Joined(Joined(f, b), para) \in Seq(Line)
      BY <1>1, JoinedAssociative
    <3> QED
      BY <1>7, <2>3, <2>4, <3>1, JoinedNone
  <2>6. (\A c \in ToSet(next.chunks) : Len(c) <= m) /\ Len(next.buf) <= m
    BY <1>2, <1>4, <2>1, <2>3, <2>4, EmptySeq
  <2>7. ASSUME NEW p \in ToSet(t), Len(p) <= m
        PROVE  Inside(p, next.buf) \/ \E c \in ToSet(next.chunks) : Inside(p, c)
    <3>1. p \in ToSet(pre) /\ p \in Seq(Line)
      <4>1. p # para
        BY <1>1, <1>8, <2>7
      <4> QED
        BY <1>3, <4>1, Elements
    <3>2. CASE Inside(p, b)
      <4>1. CASE b = <<>>
        BY <1>5, <2>4, <3>1, <3>2, <4>1
      <4>2. CASE b # <<>>
        BY <1>4, <2>3, <2>4, <3>2, <4>2
      <4> QED
        BY <4>1, <4>2
    <3>3. CASE \E c \in ToSet(acc.chunks) : Inside(p, c)
      BY <1>4, <2>3, <2>4, <3>3
    <3> QED
      BY <1>2, <2>7, <3>1, <3>2, <3>3
  <2>8. ChunkInv(next, t, m)
    BY <2>5, <2>6, <2>7 DEF ChunkInv
  <2> QED
    BY <2>8 DEF next, t
<1>9. CASE ~(Len(para) > m) /\ b # <<>> /\ Len(b) + 1 + Len(para) <= m
  <2> DEFINE bl == Joined(b, <<BlankLine>>)
             x == Joined(bl, para)
  <2>1. bl \in Seq(Line) /\ x \in Seq(Line)
    <3> DEFINE w == <<BlankLine>>
    <3>1. w \in Seq(Line)
      BY BlankLineIs
    <3> HIDE DEF w
    <3>2. Joined(b, w) \in Seq(Line)
      BY <1>1, <3>1, JoinedAssociative
    <3>3. Joined(Joined(b, w), para) \in Seq(Line)
      BY <3>2, JoinedAssociative
    <3> QED
      BY <3>2, <3>3 DEF w
  <2>2. Len(x) = Len(b) + 1 + Len(para)
    <3>1. Len(bl) = Len(b) + 1
      <4> DEFINE w == <<BlankLine>>
      <4>1. w \in Seq(Line) /\ Len(w) = 1
        BY BlankLineIs
      <4> HIDE DEF w
      <4>2. Len(b \o w) = Len(b) + 1
        BY <1>1, <4>1, ConcatProperties, ZenonT(40)
      <4> QED
        BY <4>2 DEF w, Joined
    <3> HIDE DEF bl
    <3>2. Len(bl \o para) = Len(bl) + Len(para)
      BY <2>1, ConcatProperties
    <3> QED
      BY <3>1, <3>2 DEF Joined
  <2>3. next = [acc EXCEPT !.buf = x]
    BY <1>1, <1>9 DEF AddParagraph, b, Joined
  <2>4. next.chunks = acc.chunks /\ next.buf = x
    BY <2>3 DEF ChunkAcc
  <2>5. NonBlank(Joined(f, x)) = NonBlank(FlattenSeq(t))
    <3> DEFINE nf == NonBlank(f)
               nb == NonBlank(b)
               np == NonBlank(para)
    <3>1. nf \in Seq(Line) /\ nb \in Seq(Line) /\ np \in Seq(Line)
      BY <1>1, NonBlankTyped
    <3> DEFINE w == <<BlankLine>>
    <3>2. NonBlank(bl) = nb
      <4>1. w \in Seq(Line) /\ NonBlank(w) = <<>>
        BY BlankLineIs
      <4> HIDE DEF w, nb
      <4>2. NonBlank(Joined(b, w)) = Joined(nb, <<>>)
        BY <1>1, <4>1, NonBlankJoined DEF nb
      <4> QED
        BY <3>1, <4>2, JoinedNone DEF w
    <3> HIDE DEF bl
    <3>3. NonBlank(x) = Joined(nb, np)
      BY <2>1, <3>2, NonBlankJoined
    <3> HIDE DEF x
    <3>4. NonBlank(Joined(f, x)) = Joined(nf, Joined(nb, np))
      BY <1>1, <2>1, <3>3, NonBlankJoined
    <3>5. Joined(f, b) \in Seq(Line) /\ NonBlank(Joined(f, b)) = Joined(nf, nb)
      BY <1>1, NonBlankJoined, JoinedAssociative
    <3>6. NonBlank(Joined(Joined(f, b), para)) = Joined(Joined(nf, nb), np)
      BY <3>5, NonBlankJoined
    <3>7. Joined(Joined(nf, nb), np) = Joined(nf, Joined(nb, np))
      BY <3>1, JoinedAssociative
    <3> QED
      BY <1>7, <3>4, <3>6, <3>7
  <2>6. Inside(para, x) /\ \A p \in Seq(Line) : Inside(p, b) => Inside(p, x)
    <3>1. Inside(para, x)
      <4> HIDE DEF bl
      <4>1. Inside(para, bl \o para)
        BY <2>1, InsideSelf, InsideBehind
      <4> QED
        BY <4>1 DEF Joined
    <3>2. ASSUME NEW p \in Seq(Line), Inside(p, b) PROVE Inside(p, x)
      <4> DEFINE w == <<BlankLine>>
      <4>1. Inside(p, b \o w)
        <5>1. w \in Seq(Line)
          BY BlankLineIs
        <5> HIDE DEF w
        <5> QED
          BY <1>1, <3>2, <5>1, InsideBefore
      <4>2. Inside(p, bl)
        BY <4>1 DEF Joined
      <4> HIDE DEF bl
      <4>3. Inside(p, bl \o para)
        BY <2>1, <4>2, InsideBefore
      <4> QED
        BY <4>3 DEF Joined
    <3> QED
      BY <3>1, <3>2
  <2> HIDE DEF x, bl, next
  <2>7. NonBlank(Joined(FlattenSeq(next.chunks), next.buf)) = NonBlank(FlattenSeq(t))
    BY <2>4, <2>5 DEF f
  <2>8. (\A c \in ToSet(next.chunks) : Len(c) <= m) /\ Len(next.buf) <= m
    BY <1>2, <1>9, <2>2, <2>4
  <2>9. ASSUME NEW p \in ToSet(t), Len(p) <= m
        PROVE  Inside(p, next.buf) \/ \E c \in ToSet(next.chunks) : Inside(p, c)
    <3>1. CASE p = para
      BY <2>4, <2>6, <3>1
    <3>2. CASE p \in ToSet(pre)
      <4>1. p \in Seq(Line)
        BY <3>2, Elements
      <4> QED
        BY <1>2, <2>4, <2>6, <2>9, <3>2, <4>1
    <3> QED
      BY <1>3, <3>1, <3>2
  <2>10. ChunkInv(next, t, m)
    BY <2>7, <2>8, <2>9 DEF ChunkInv
  <2> QED
    BY <2>10 DEF next, t
<1>10. CASE ~(Len(para) > m) /\ ~(b # <<>> /\ Len(b) + 1 + Len(para) <= m)
  <2>1. next = [chunks |-> cn, buf |-> para]
    BY <1>1, <1>10 DEF AddParagraph, b, cn
  <2> HIDE DEF next
  <2>2. next.chunks = cn /\ next.buf = para
    BY <2>1
  <2>3. NonBlank(Joined(FlattenSeq(next.chunks), next.buf)) = NonBlank(FlattenSeq(t))
    BY <1>4, <1>7, <2>2
  <2>4. (\A c \in ToSet(next.chunks) : Len(c) <= m) /\ Len(next.buf) <= m
    BY <1>1, <1>2, <1>4, <1>10, <2>2
  <2>5. ASSUME NEW p \in ToSet(t), Len(p) <= m
        PROVE  Inside(p, next.buf) \/ \E c \in ToSet(next.chunks) : Inside(p, c)
    <3>1. CASE p = para
      BY <2>2, <3>1, InsideSelf
    <3>2. CASE p \in ToSet(pre)
      <4>1. p \in Seq(Line)
        BY <3>2, Elements
      <4>2. CASE Inside(p, b)
        <5>1. CASE b = <<>>
          <6>1. p = <<>>
            BY <1>5, <4>1, <4>2, <5>1
          <6>2. para = (<<>> \o <<>>) \o para
            BY EmptySeq, ConcatEmptySeq
          <6>3. <<>> \in Seq(Line)
            BY EmptySeq
          <6>4. Inside(p, para)
            BY <6>1, <6>2, <6>3 DEF Inside
          <6> QED
            BY <2>2, <6>4
        <5>2. CASE b # <<>>
          BY <1>4, <2>2, <4>2, <5>2
        <5> QED
          BY <5>1, <5>2
      <4>3. CASE \E c \in ToSet(acc.chunks) : Inside(p, c)
        BY <1>4, <2>2, <4>3
      <4> QED
        BY <1>2, <2>5, <3>2, <4>2, <4>3
    <3> QED
      BY <1>3, <3>1, <3>2
  <2>6. ChunkInv(next, t, m)
    BY <2>3, <2>4, <2>5 DEF ChunkInv
  <2> QED
    BY <2>6 DEF next, t
<1> QED
  BY <1>8, <1>9, <1>10

(***************************************************************************)
(* _chunk_text, paragraph by paragraph.                                    *)
(***************************************************************************)
LEMMA ChunkLoop ==
    ASSUME NEW m \in Nat \ {0}, NEW s \in Seq(Seq(Line)), NEW T, <<NoChunks, <<>>>> \in T,
           \A acc \in ChunkAcc, pre \in Seq(Seq(Line)), x \in Seq(Line) :
              <<acc, pre>> \in T => <<AddParagraph(acc, x, m), Append(pre, x)>> \in T
    PROVE  LET fold == FoldLeft(LAMBDA a, para : AddParagraph(a, para, m), NoChunks, s) IN fold \in ChunkAcc /\ <<fold, s>> \in T
<1> DEFINE n == Len(s)
           Rec(f) == f = [t \in SUBSET (1..n) |->
                             IF t = {} THEN NoChunks ELSE AddParagraph(f[t \ {Max(t)}], s[Max(t)], m)]
           step == [p \in (1..n) \X ChunkAcc |-> AddParagraph(p[2], s[p[1]], m)]
<1>1. n \in Nat /\ DOMAIN s = 1..n /\ \A k \in 1..n : s[k] \in Seq(Line)
  BY LenProperties, ElementOfSeq
<1>2. step \in [(1..n) \X ChunkAcc -> ChunkAcc]
  BY <1>1, AddParagraphTyped
<1>3. NoChunks \in ChunkAcc
  BY EmptySeq DEF NoChunks, ChunkAcc
<1>4. FoldLeft(LAMBDA a, para : AddParagraph(a, para, m), NoChunks, s) = (CHOOSE f : Rec(f))[1..n]
  BY <1>1 DEF FoldLeft, MapThenFoldSet
<1>5. \E f : Rec(f)
  <2>1. PICK h \in [SUBSET (1..n) -> ChunkAcc] : Folding(h, n, NoChunks, step)
    <3> HIDE DEF step, n
    <3> QED
      BY <1>1, <1>2, <1>3, FoldExists
  <2>2. \A t \in SUBSET (1..n) : h[t] = IF t = {} THEN NoChunks ELSE step[<<Max(t), h[t \ {Max(t)}]>>]
    BY <2>1 DEF Folding
  <2>3. ASSUME NEW t \in SUBSET (1..n), t # {}
        PROVE  h[t] = AddParagraph(h[t \ {Max(t)}], s[Max(t)], m)
    <3>1. Max(t) \in 1..n
      BY <1>1, <2>3, MaxUpTo
    <3>2. h[t \ {Max(t)}] \in ChunkAcc
      BY <2>1
    <3>3. h[t] = step[<<Max(t), h[t \ {Max(t)}]>>]
      BY <2>2, <2>3
    <3> QED
      BY <3>1, <3>2, <3>3
  <2> DEFINE f == [t \in SUBSET (1..n) |-> h[t]]
  <2>4. Rec(f)
    <3>1. ASSUME NEW t \in SUBSET (1..n)
          PROVE  h[t] = IF t = {} THEN NoChunks ELSE AddParagraph(f[t \ {Max(t)}], s[Max(t)], m)
      <4>1. CASE t = {}
        BY <2>2, <4>1
      <4>2. CASE t # {}
        <5>1. f[t \ {Max(t)}] = h[t \ {Max(t)}]
          OBVIOUS
        <5> QED
          BY <2>3, <4>2, <5>1
      <4> QED
        BY <4>1, <4>2
    <3> QED
      BY <3>1
  <2> HIDE DEF Rec, f
  <2> QED
    BY <2>4
<1> DEFINE c == CHOOSE f : Rec(f)
<1>6. Rec(c)
  <2> HIDE DEF Rec
  <2> QED
    BY <1>5
<1>7. FoldLeft(LAMBDA a, para : AddParagraph(a, para, m), NoChunks, s) = c[1..n]
  BY <1>4
<1> HIDE DEF c
<1> DEFINE K == {k \in 0..n : c[1..k] \in ChunkAcc /\ <<c[1..k], SubSeq(s, 1, k)>> \in T}
<1>8. 0 \in K
  <2>1. c[1..0] = NoChunks
    BY <1>1, <1>6, Intervals
  <2>2. SubSeq(s, 1, 0) = <<>>
    BY FirstElements
  <2> HIDE DEF n
  <2> QED
    BY <1>1, <1>3, <2>1, <2>2
<1>9. ASSUME NEW k \in 1..n, k - 1 \in K PROVE k \in K
  <2>1. 1..k \in SUBSET (1..n) /\ 1..k # {} /\ Max(1..k) = k /\ (1..k) \ {k} = 1..(k - 1)
    BY <1>1, Intervals
  <2> DEFINE acc == c[1..(k - 1)]
             pre == SubSeq(s, 1, k - 1)
             x == s[k]
  <2>2. c[1..k] = AddParagraph(acc, x, m)
    <3> HIDE DEF n
    <3> QED
      BY <1>6, <2>1
  <2>3. SubSeq(s, 1, k) = Append(pre, x) /\ x \in Seq(Line)
    BY FirstElements
  <2>4. pre \in Seq(Seq(Line)) /\ k \in 0..n
    <3>1. k - 1 \in 0..n /\ k \in 0..n
      BY <1>1
    <3> QED
      BY <3>1, FirstElements
  <2>5. acc \in ChunkAcc /\ <<acc, pre>> \in T
    BY <1>9
  <2> HIDE DEF acc, pre, x, n
  <2>6. AddParagraph(acc, x, m) \in ChunkAcc
    BY <2>3, <2>5, AddParagraphTyped
  <2>7. <<AddParagraph(acc, x, m), Append(pre, x)>> \in T
    BY <2>3, <2>4, <2>5
  <2> QED
    BY <2>2, <2>3, <2>4, <2>6, <2>7
<1>10. n \in K
  <2>1. n \in 0..n
    BY <1>1
  <2> HIDE DEF K, n
  <2> QED
    BY <1>1, <1>8, <1>9, <2>1, UpTo
<1>11. SubSeq(s, 1, n) = s
  BY FirstElements
<1> QED
  BY <1>7, <1>10, <1>11

(***************************************************************************)
(* _chunk_text keeps the words and the limit, and what fits into one       *)
(* message is inside of a chunk.                                           *)
(***************************************************************************)
LEMMA ChunksKeep ==
    ASSUME NEW m \in Nat \ {0}, NEW lines \in Seq(Line)
    PROVE  /\ Chunks(lines, m) \in Seq(Seq(Line))
           /\ NonBlank(FlattenSeq(Chunks(lines, m))) = NonBlank(lines)
           /\ \A c \in ToSet(Chunks(lines, m)) : Len(c) <= m
           /\ Len(lines) <= m => Chunks(lines, m) = <<lines>>
           /\ Len(lines) > m => \A p \in ToSet(SplitParagraphs(lines)) : Len(p) <= m =>
                                   \E c \in ToSet(Chunks(lines, m)) : Inside(p, c)
<1>1. Len(lines) \in Nat
  BY LenProperties
<1>2. CASE Len(lines) <= m
  <2>1. Chunks(lines, m) = <<lines>> /\ ToSet(<<lines>>) = {lines}
    BY <1>2 DEF Chunks, ToSet
  <2> QED
    BY <1>1, <1>2, <2>1, FlattenOne
<1>3. CASE ~(Len(lines) <= m)
  <2> DEFINE ps == SplitParagraphs(lines)
             acc == FoldLeft(LAMBDA a, para : AddParagraph(a, para, m), NoChunks, ps)
             all == acc.chunks \o NonEmpty(acc.buf)
             B == Seq(Line)
             T == {p \in ChunkAcc \X Seq(B) : ChunkInv(p[1], p[2], m)}
  <2>1. ps \in Seq(Seq(Line)) /\ NonBlank(FlattenSeq(ps)) = NonBlank(lines) /\ \A p \in ToSet(ps) : Full(p)
    BY SplitParagraphsKeeps
  <2>2. Chunks(lines, m) = Only(all, LAMBDA c : ~AllBlank(c))
    BY <1>3 DEF Chunks, NoChunks
  <2> HIDE DEF ps
  <2>3. <<NoChunks, <<>>>> \in T
    <3>1. NoChunks \in ChunkAcc /\ <<>> \in Seq(B) /\ <<>> \in Seq(Line)
      BY EmptySeq DEF NoChunks, ChunkAcc
    <3>2. NoChunks.chunks = <<>> /\ NoChunks.buf = <<>>
      BY DEF NoChunks
    <3>3. Joined(FlattenSeq(<<>>), <<>>) = FlattenSeq(<<>>)
      BY <3>1, FlattenNone, JoinedNone
    <3>4. ToSet(<<>>) = {} /\ Len(<<>>) = 0
      BY Elements, EmptySeq
    <3>5. ChunkInv(NoChunks, <<>>, m)
      BY <3>2, <3>3, <3>4 DEF ChunkInv
    <3> QED
      BY <3>1, <3>5
  <2>4. ASSUME NEW a \in ChunkAcc, NEW pre \in Seq(B), NEW x \in B, <<a, pre>> \in T
        PROVE  <<AddParagraph(a, x, m), Append(pre, x)>> \in T
    <3>1. ChunkInv(a, pre, m)
      BY <2>4
    <3>2. ChunkInv(AddParagraph(a, x, m), Append(pre, x), m)
      BY <3>1, AddParagraphStep
    <3>3. AddParagraph(a, x, m) \in ChunkAcc
      BY AddParagraphTyped
    <3>4. Append(pre, x) \in Seq(B)
      BY AppendProperties
    <3> QED
      BY <3>2, <3>3, <3>4
  <2>5. acc \in ChunkAcc /\ <<acc, ps>> \in T
    <3> HIDE DEF T
    <3> QED
      BY <2>1, <2>3, <2>4, ChunkLoop
  <2> HIDE DEF acc
  <2>6. /\ NonBlank(Joined(FlattenSeq(acc.chunks), acc.buf)) = NonBlank(FlattenSeq(ps))
        /\ (\A c \in ToSet(acc.chunks) : Len(c) <= m) /\ Len(acc.buf) <= m
        /\ \A p \in ToSet(ps) : Len(p) <= m =>
              Inside(p, acc.buf) \/ \E c \in ToSet(acc.chunks) : Inside(p, c)
        /\ acc.chunks \in Seq(Seq(Line)) /\ acc.buf \in Seq(Line)
    <3>1. ChunkInv(acc, ps, m)
      BY <2>5
    <3> QED
      BY <2>5, <3>1 DEF ChunkInv, ChunkAcc
  <2> DEFINE nb == NonEmpty(acc.buf)
  <2>7. nb \in Seq(Seq(Line)) /\ FlattenSeq(nb) = acc.buf /\ ToSet(nb) = IF acc.buf = <<>> THEN {} ELSE {acc.buf}
    BY <2>6, NonEmptyIs
  <2>8. /\ all \in Seq(Seq(Line)) /\ FlattenSeq(all) = Joined(FlattenSeq(acc.chunks), acc.buf)
        /\ ToSet(all) = ToSet(acc.chunks) \union ToSet(nb)
    <3> DEFINE a == acc.chunks
    <3> HIDE DEF nb, a
    <3>1. a \in Seq(Seq(Line))
      BY <2>6 DEF a
    <3>2. a \o nb \in Seq(Seq(Line)) /\ FlattenSeq(a \o nb) = Joined(FlattenSeq(a), FlattenSeq(nb))
      BY <2>7, <3>1, ConcatProperties, FlattenJoined
    <3>3. ToSet(a \o nb) = ToSet(a) \union ToSet(nb)
      BY <2>7, <3>1, Elements
    <3> QED
      BY <2>7, <3>2, <3>3 DEF a, nb
  <2> HIDE DEF all, nb
  <2>9. Only(all, LAMBDA c : ~AllBlank(c)) = Those(all, Spoken)
    <3>1. \A i \in DOMAIN all : all[i] \in Seq(Line)
      BY <2>8, LenProperties, ElementOfSeq
    <3>2. {i \in DOMAIN all : ~AllBlank(all[i])} = {i \in DOMAIN all : all[i] \in Spoken}
      BY <3>1 DEF Spoken
    <3> QED
      BY <3>2 DEF Only, Those
  <2>10. /\ Those(all, Spoken) \in Seq(Seq(Line)) /\ ToSet(Those(all, Spoken)) = ToSet(all) \intersect Spoken
         /\ NonBlank(FlattenSeq(Those(all, Spoken))) = NonBlank(FlattenSeq(all))
    BY <2>8, ThoseTyped, ThoseElements, SpokenKeeps
  <2>11. ASSUME NEW p \in ToSet(ps), Len(p) <= m PROVE \E c \in ToSet(Those(all, Spoken)) : Inside(p, c)
    <3>1. p \in Seq(Line) /\ Full(p)
      BY <2>1, Elements
    <3>2. PICK c \in ToSet(acc.chunks) \union {acc.buf} : Inside(p, c)
      BY <2>6, <2>11
    <3>3. c \in Seq(Line)
      BY <2>6, Elements
    <3>4. c \in Spoken /\ c # <<>>
      BY <3>1, <3>2, <3>3, FullInside
    <3>5. c \in ToSet(all)
      BY <2>7, <2>8, <3>4
    <3> QED
      BY <2>10, <3>2, <3>4, <3>5
  <2>12. \A c \in ToSet(Those(all, Spoken)) : Len(c) <= m
    BY <2>6, <2>7, <2>8, <2>10
  <2> QED
    BY <1>3, <2>1, <2>2, <2>6, <2>8, <2>9, <2>10, <2>11, <2>12 DEF ps
<1> QED
  BY <1>2, <1>3

----------------------------------------------------------------------------
(* Items.                                                                  *)

ItemSet == [method : {"multi", "rich"}, kind : {"text", "table", "code"}, lines : Seq(Line)]

LEMMA ItemRecords == \A r \in ItemSet : r.lines \in Seq(Line)
BY DEF ItemSet

ItemLists == Seq(ItemSet)

NoItems == <<>>

\* What may be sent: multi messages keep to the limit, and a table that is
\* sent as a grid has a rule at its head.
Good(item, m) ==
    /\ item.method = "multi" => Len(item.lines) <= m
    /\ item.method = "rich" /\ item.kind = "table" => Headed(item.lines)

\* What need not be cut.
FittingIn(lines, m) ==
    IF Len(lines) <= m THEN {lines} ELSE {p \in ToSet(SplitParagraphs(lines)) : Len(p) <= m}

LEMMA FittingInside ==
    ASSUME NEW m \in Nat \ {0}, NEW lines \in Seq(Line), NEW p \in FittingIn(lines, m)
    PROVE  p \in Seq(Line) /\ Inside(p, lines)
<1>1. CASE Len(lines) <= m
  BY <1>1, InsideSelf DEF FittingIn
<1>2. CASE ~(Len(lines) <= m)
  <2>1. p \in ToSet(SplitParagraphs(lines))
    BY <1>2 DEF FittingIn
  <2> QED
    BY <2>1, SplitParagraphsKeeps, Elements
<1> QED
  BY <1>1, <1>2

(***************************************************************************)
(* The items of a block have its words, and what fits is not cut.          *)
(***************************************************************************)
LEMMA ItemsKeep ==
    ASSUME NEW m \in Nat \ {0}, NEW r \in BOOLEAN, NEW b \in Blocks
    PROVE  /\ Items(b, m, r) \in ItemLists
           /\ NonBlank(LinesOf(Items(b, m, r))) = NonBlank(b.lines)
           /\ (b.kind = "table" => Headed(b.lines)) => \A item \in ToSet(Items(b, m, r)) : Good(item, m)
           /\ \A p \in FittingIn(b.lines, m) : \E item \in ToSet(Items(b, m, r)) : Inside(p, item.lines)
<1> DEFINE its == Items(b, m, r)
<1>1. b.lines \in Seq(Line) /\ b.kind \in {"text", "table", "code"}
  BY DEF Blocks
<1>2. CASE r /\ b.kind \in {"code", "table"}
  <2> DEFINE it == Item("rich", b.kind, b.lines)
  <2>1. its = <<it>>
    BY <1>2 DEF Items
  <2>2. it \in ItemSet /\ it.lines = b.lines /\ it.method = "rich" /\ it.kind = b.kind
    BY <1>1 DEF Item, ItemSet
  <2> HIDE DEF it
  <2>3. <<it>> \in ItemLists /\ LinesOf(<<it>>) = b.lines
    BY <2>2, ItemRecords, LinesOfOne DEF ItemLists
  <2>4. ToSet(<<it>>) = {it}
    BY DEF ToSet
  <2>5. (b.kind = "table" => Headed(b.lines)) => Good(it, m)
    BY <2>2 DEF Good
  <2>6. \A p \in FittingIn(b.lines, m) : Inside(p, it.lines)
    BY <1>1, <2>2, FittingInside
  <2> HIDE DEF its
  <2>7. /\ its \in ItemLists
        /\ NonBlank(LinesOf(its)) = NonBlank(b.lines)
        /\ (b.kind = "table" => Headed(b.lines)) => \A item \in ToSet(its) : Good(item, m)
        /\ \A p \in FittingIn(b.lines, m) : \E item \in ToSet(its) : Inside(p, item.lines)
    BY <2>1, <2>3, <2>4, <2>5, <2>6
  <2> QED
    BY <2>7 DEF its
<1>3. CASE ~(r /\ b.kind \in {"code", "table"})
  <2> DEFINE cs == Chunks(b.lines, m)
             n == Len(cs)
  <2>1. /\ cs \in Seq(Seq(Line)) /\ NonBlank(FlattenSeq(cs)) = NonBlank(b.lines)
        /\ \A c \in ToSet(cs) : Len(c) <= m
        /\ Len(b.lines) <= m => cs = <<b.lines>>
        /\ Len(b.lines) > m => \A p \in ToSet(SplitParagraphs(b.lines)) : Len(p) <= m =>
                                  \E c \in ToSet(cs) : Inside(p, c)
    BY <1>1, ChunksKeep
  <2>2. its = [i \in DOMAIN cs |-> Item("multi", b.kind, cs[i])]
    BY <1>3 DEF Items
  <2> HIDE DEF cs
  <2>3. n \in Nat /\ DOMAIN cs = 1..n /\ \A i \in 1..n : cs[i] \in Seq(Line)
    BY <2>1, LenProperties, ElementOfSeq
  <2> HIDE DEF n
  <2>4. /\ its \in [1..n -> ItemSet] /\ DOMAIN its = 1..n
        /\ \A i \in 1..n : its[i].lines = cs[i] /\ its[i].method = "multi"
    BY <1>1, <2>2, <2>3 DEF Item, ItemSet
  <2> HIDE DEF its
  <2>5. its \in ItemLists
    <3>1. [1..n -> ItemSet] \in {[1..k -> ItemSet] : k \in Nat}
      BY <2>3
    <3>2. its \in UNION {[1..k -> ItemSet] : k \in Nat}
      BY <2>4, <3>1
    <3> QED
      BY <3>2, SeqDef DEF ItemLists
  <2>6. [i \in DOMAIN its |-> its[i].lines] = cs
    <3>1. cs \in [1..n -> Seq(Line)]
      BY <2>1, LenProperties DEF n
    <3> QED
      BY <2>4, <3>1
  <2>7. NonBlank(LinesOf(its)) = NonBlank(b.lines)
    BY <2>1, <2>6 DEF LinesOf
  <2>8. ToSet(its) = {its[i] : i \in 1..n} /\ ToSet(cs) = {cs[i] : i \in 1..n}
    BY <2>3, <2>4 DEF ToSet
  <2>9. \A item \in ToSet(its) : Good(item, m)
    BY <2>1, <2>4, <2>8 DEF Good
  <2>10. \A c \in ToSet(cs) : \E item \in ToSet(its) : item.lines = c
    BY <2>4, <2>8
  <2>11. ASSUME NEW p \in FittingIn(b.lines, m) PROVE \E c \in ToSet(cs) : Inside(p, c)
    <3>1. CASE Len(b.lines) <= m
      <4>1. ToSet(cs) = {b.lines}
        BY <2>1, <3>1 DEF ToSet
      <4> QED
        BY <1>1, <2>11, <4>1, FittingInside
    <3>2. CASE ~(Len(b.lines) <= m)
      <4>1. p \in ToSet(SplitParagraphs(b.lines)) /\ Len(p) <= m
        BY <2>11, <3>2 DEF FittingIn
      <4>2. Len(b.lines) > m
        BY <1>1, <3>2, LenProperties
      <4> QED
        BY <2>1, <4>1, <4>2
    <3> QED
      BY <3>1, <3>2
  <2>12. \A p \in FittingIn(b.lines, m) : \E item \in ToSet(its) : Inside(p, item.lines)
    <3> SUFFICES ASSUME NEW p \in FittingIn(b.lines, m) PROVE \E item \in ToSet(its) : Inside(p, item.lines)
      OBVIOUS
    <3>1. PICK c \in ToSet(cs) : Inside(p, c)
      BY <2>11
    <3>2. PICK item \in ToSet(its) : item.lines = c
      BY <2>10
    <3> QED
      BY <3>1, <3>2
  <2> QED
    BY <2>5, <2>7, <2>9, <2>12 DEF its
<1> QED
  BY <1>2, <1>3

LEMMA AddItemsTyped ==
    ASSUME NEW m \in Nat \ {0}, NEW r \in BOOLEAN, NEW acc \in ItemLists, NEW b \in Blocks
    PROVE  acc \o Items(b, m, r) \in ItemLists
<1>1. Items(b, m, r) \in Seq(ItemSet) /\ acc \in Seq(ItemSet)
  BY ItemsKeep DEF ItemLists
<1> DEFINE its == Items(b, m, r)
<1> HIDE DEF its
<1>2. acc \o its \in Seq(ItemSet)
  BY <1>1, ConcatProperties DEF its
<1> QED
  BY <1>2 DEF its, ItemLists

(***************************************************************************)
(* plan_delivery, block by block.                                          *)
(***************************************************************************)
LEMMA ItemLoop ==
    ASSUME NEW m \in Nat \ {0}, NEW r \in BOOLEAN, NEW s \in Seq(Blocks), NEW T, <<NoItems, <<>>>> \in T,
           \A acc \in ItemLists, pre \in Seq(Blocks), x \in Blocks :
              <<acc, pre>> \in T => <<acc \o Items(x, m, r), Append(pre, x)>> \in T
    PROVE  LET fold == FoldLeft(LAMBDA items, block : items \o Items(block, m, r), NoItems, s) IN fold \in ItemLists /\ <<fold, s>> \in T
<1> DEFINE n == Len(s)
           Rec(f) == f = [t \in SUBSET (1..n) |->
                             IF t = {} THEN NoItems ELSE f[t \ {Max(t)}] \o Items(s[Max(t)], m, r)]
           step == [p \in (1..n) \X ItemLists |-> p[2] \o Items(s[p[1]], m, r)]
<1>1. n \in Nat /\ DOMAIN s = 1..n /\ \A k \in 1..n : s[k] \in Blocks
  BY LenProperties, ElementOfSeq
<1>2. step \in [(1..n) \X ItemLists -> ItemLists]
  BY <1>1, AddItemsTyped
<1>3. NoItems \in ItemLists
  BY EmptySeq DEF NoItems, ItemLists
<1>4. FoldLeft(LAMBDA items, block : items \o Items(block, m, r), NoItems, s) = (CHOOSE f : Rec(f))[1..n]
  BY <1>1 DEF FoldLeft, MapThenFoldSet
<1>5. \E f : Rec(f)
  <2>1. PICK h \in [SUBSET (1..n) -> ItemLists] : Folding(h, n, NoItems, step)
    <3> HIDE DEF step, n
    <3> QED
      BY <1>1, <1>2, <1>3, FoldExists
  <2>2. \A t \in SUBSET (1..n) : h[t] = IF t = {} THEN NoItems ELSE step[<<Max(t), h[t \ {Max(t)}]>>]
    BY <2>1 DEF Folding
  <2>3. ASSUME NEW t \in SUBSET (1..n), t # {}
        PROVE  h[t] = h[t \ {Max(t)}] \o Items(s[Max(t)], m, r)
    <3>1. Max(t) \in 1..n
      BY <1>1, <2>3, MaxUpTo
    <3>2. h[t \ {Max(t)}] \in ItemLists
      BY <2>1
    <3>3. h[t] = step[<<Max(t), h[t \ {Max(t)}]>>]
      BY <2>2, <2>3
    <3> QED
      BY <3>1, <3>2, <3>3
  <2> DEFINE f == [t \in SUBSET (1..n) |-> h[t]]
  <2>4. Rec(f)
    <3>1. ASSUME NEW t \in SUBSET (1..n)
          PROVE  h[t] = IF t = {} THEN NoItems ELSE f[t \ {Max(t)}] \o Items(s[Max(t)], m, r)
      <4>1. CASE t = {}
        BY <2>2, <4>1
      <4>2. CASE t # {}
        <5>1. f[t \ {Max(t)}] = h[t \ {Max(t)}]
          OBVIOUS
        <5> QED
          BY <2>3, <4>2, <5>1
      <4> QED
        BY <4>1, <4>2
    <3> QED
      BY <3>1
  <2> HIDE DEF Rec, f
  <2> QED
    BY <2>4
<1> DEFINE c == CHOOSE f : Rec(f)
<1>6. Rec(c)
  <2> HIDE DEF Rec
  <2> QED
    BY <1>5
<1>7. FoldLeft(LAMBDA items, block : items \o Items(block, m, r), NoItems, s) = c[1..n]
  BY <1>4
<1> HIDE DEF c
<1> DEFINE K == {k \in 0..n : c[1..k] \in ItemLists /\ <<c[1..k], SubSeq(s, 1, k)>> \in T}
<1>8. 0 \in K
  <2>1. c[1..0] = NoItems
    BY <1>1, <1>6, Intervals
  <2>2. SubSeq(s, 1, 0) = <<>>
    BY FirstElements
  <2> HIDE DEF n
  <2> QED
    BY <1>1, <1>3, <2>1, <2>2
<1>9. ASSUME NEW k \in 1..n, k - 1 \in K PROVE k \in K
  <2>1. 1..k \in SUBSET (1..n) /\ 1..k # {} /\ Max(1..k) = k /\ (1..k) \ {k} = 1..(k - 1)
    BY <1>1, Intervals
  <2> DEFINE acc == c[1..(k - 1)]
             pre == SubSeq(s, 1, k - 1)
             x == s[k]
  <2>2. c[1..k] = acc \o Items(x, m, r)
    <3> HIDE DEF n
    <3> QED
      BY <1>6, <2>1
  <2>3. SubSeq(s, 1, k) = Append(pre, x) /\ x \in Blocks
    BY FirstElements
  <2>4. pre \in Seq(Blocks) /\ k \in 0..n
    <3>1. k - 1 \in 0..n /\ k \in 0..n
      BY <1>1
    <3> QED
      BY <3>1, FirstElements
  <2>5. acc \in ItemLists /\ <<acc, pre>> \in T
    BY <1>9
  <2> HIDE DEF acc, pre, x, n
  <2>6. acc \o Items(x, m, r) \in ItemLists
    BY <2>3, <2>5, AddItemsTyped
  <2>7. <<acc \o Items(x, m, r), Append(pre, x)>> \in T
    BY <2>3, <2>4, <2>5
  <2> QED
    BY <2>2, <2>3, <2>4, <2>6, <2>7
<1>10. n \in K
  <2>1. n \in 0..n
    BY <1>1
  <2> HIDE DEF K, n
  <2> QED
    BY <1>1, <1>8, <1>9, <2>1, UpTo
<1>11. SubSeq(s, 1, n) = s
  BY FirstElements
<1> QED
  BY <1>7, <1>10, <1>11

(***************************************************************************)
(* The items of some blocks have their words, and what fits is not cut.    *)
(***************************************************************************)
LEMMA AllItemsKeep ==
    ASSUME NEW m \in Nat \ {0}, NEW r \in BOOLEAN, NEW bs \in Seq(Blocks), Shaped(bs)
    PROVE  LET its == FoldLeft(LAMBDA items, block : items \o Items(block, m, r), NoItems, bs)
           IN  /\ its \in ItemLists
               /\ NonBlank(LinesOf(its)) = NonBlank(LinesOf(bs))
               /\ \A item \in ToSet(its) : Good(item, m)
               /\ \A b \in ToSet(bs) : \A p \in FittingIn(b.lines, m) :
                     \E item \in ToSet(its) : Inside(p, item.lines)
<1> DEFINE Holds(acc, pre) ==
              /\ NonBlank(LinesOf(acc)) = NonBlank(LinesOf(pre))
              /\ Shaped(pre) => \A item \in ToSet(acc) : Good(item, m)
              /\ \A b \in ToSet(pre) : \A p \in FittingIn(b.lines, m) :
                    \E item \in ToSet(acc) : Inside(p, item.lines)
           T == {p \in ItemLists \X Seq(Blocks) : Holds(p[1], p[2])}
           its == FoldLeft(LAMBDA items, block : items \o Items(block, m, r), NoItems, bs)
<1>1. <<NoItems, <<>>>> \in T
  <2>1. NoItems \in ItemLists /\ <<>> \in Seq(Blocks) /\ NoItems = <<>>
    BY EmptySeq DEF NoItems, ItemLists
  <2>2. Holds(NoItems, <<>>)
    BY <2>1, Elements
  <2> HIDE DEF Holds
  <2> QED
    BY <2>1, <2>2
<1>2. ASSUME NEW acc \in ItemLists, NEW pre \in Seq(Blocks), NEW x \in Blocks, <<acc, pre>> \in T
      PROVE  <<acc \o Items(x, m, r), Append(pre, x)>> \in T
  <2> DEFINE xs == Items(x, m, r)
             l == x.lines
             t == Append(pre, x)
             new == acc \o xs
  <2>1. Holds(acc, pre)
    <3> HIDE DEF Holds
    <3> QED
      BY <1>2
  <2>2. /\ xs \in Seq(ItemSet) /\ NonBlank(LinesOf(xs)) = NonBlank(l)
        /\ (x.kind = "table" => Headed(l)) => \A item \in ToSet(xs) : Good(item, m)
        /\ \A p \in FittingIn(l, m) : \E item \in ToSet(xs) : Inside(p, item.lines)
    BY ItemsKeep DEF ItemLists
  <2>3. acc \in Seq(ItemSet) /\ l \in Seq(Line) /\ t \in Seq(Blocks)
    BY BlockRecords, AppendProperties DEF ItemLists
  <2>4. LinesOf(t) = Joined(LinesOf(pre), l) /\ ToSet(t) = ToSet(pre) \union {x}
    BY BlockRecords, LinesOfAppend, Elements DEF Joined
  <2> HIDE DEF xs, l
  <2>5. new \in Seq(ItemSet) /\ LinesOf(new) = Joined(LinesOf(acc), LinesOf(xs)) /\ ToSet(new) = ToSet(acc) \union ToSet(xs)
    BY <2>2, <2>3, ItemRecords, ConcatProperties, LinesOfConcat, Elements DEF Joined
  <2>6. LinesOf(pre) \in Seq(Line) /\ LinesOf(acc) \in Seq(Line) /\ LinesOf(xs) \in Seq(Line)
    BY <2>2, <2>3, BlockRecords, ItemRecords, LinesOfTyped
  <2>7. NonBlank(LinesOf(new)) = NonBlank(LinesOf(t))
    <3>1. NonBlank(LinesOf(new)) = Joined(NonBlank(LinesOf(acc)), NonBlank(LinesOf(xs)))
      BY <2>5, <2>6, NonBlankJoined
    <3>2. NonBlank(LinesOf(t)) = Joined(NonBlank(LinesOf(pre)), NonBlank(l))
      BY <2>3, <2>4, <2>6, NonBlankJoined
    <3> QED
      BY <2>1, <2>2, <3>1, <3>2
  <2> HIDE DEF new, t
  <2>8. Shaped(t) => \A item \in ToSet(new) : Good(item, m)
    <3>1. Shaped(t) => Shaped(pre) /\ (x.kind = "table" => Headed(l))
      BY <2>4 DEF Shaped, l
    <3> QED
      BY <2>1, <2>2, <2>5, <3>1
  <2>9. ASSUME NEW b \in ToSet(t), NEW p \in FittingIn(b.lines, m)
        PROVE  \E item \in ToSet(new) : Inside(p, item.lines)
    <3>1. CASE b = x
      <4>1. p \in FittingIn(l, m)
        BY <2>9, <3>1 DEF l
      <4>2. PICK item \in ToSet(xs) : Inside(p, item.lines)
        BY <2>2, <4>1
      <4> QED
        BY <2>5, <4>2
    <3>2. CASE b \in ToSet(pre)
      <4>1. PICK item \in ToSet(acc) : Inside(p, item.lines)
        BY <2>1, <2>9, <3>2
      <4> QED
        BY <2>5, <4>1
    <3> QED
      BY <2>4, <3>1, <3>2
  <2>10. Holds(new, t)
    BY <2>7, <2>8, <2>9
  <2> HIDE DEF Holds
  <2>11. <<new, t>> \in T
    BY <2>3, <2>5, <2>10 DEF ItemLists
  <2> QED
    BY <2>11 DEF new, t, xs
<1>3. its \in ItemLists /\ <<its, bs>> \in T
  <2> HIDE DEF T
  <2> QED
    BY <1>1, <1>2, ItemLoop
<1> HIDE DEF its
<1>4. Holds(its, bs)
  <2> HIDE DEF Holds
  <2> QED
    BY <1>3
<1>5. /\ its \in ItemLists
      /\ NonBlank(LinesOf(its)) = NonBlank(LinesOf(bs))
      /\ \A item \in ToSet(its) : Good(item, m)
      /\ \A b \in ToSet(bs) : \A p \in FittingIn(b.lines, m) : \E item \in ToSet(its) : Inside(p, item.lines)
  BY <1>3, <1>4
<1> QED
  BY <1>5 DEF its


----------------------------------------------------------------------------
(* The loop of _merge_adjacent.                                            *)

\* Two neighbours that do not fit into one message.
Far(a, b, m) == a.method = "multi" /\ b.method = "multi" => Len(a.lines) + Len(b.lines) > m

Apart(items, m) == \A i \in 1..(Len(items) - 1) : Far(items[i], items[i + 1], m)

LEMMA ApartAppend ==
    ASSUME NEW m \in Nat \ {0}, NEW s \in ItemLists, NEW e \in ItemSet
    PROVE  Apart(Append(s, e), m) <=> Apart(s, m) /\ (s # <<>> => Far(Last(s), e, m))
<1> DEFINE t == Append(s, e)
           n == Len(s)
<1>1. s \in Seq(ItemSet) /\ n \in Nat /\ DOMAIN s = 1..n
  BY LenProperties DEF ItemLists
<1>2. t \in Seq(ItemSet) /\ Len(t) = n + 1 /\ t[n + 1] = e /\ \A k \in 1..n : t[k] = s[k]
  BY <1>1, AppendProperties
<1>3. s # <<>> <=> n > 0
  BY <1>1, EmptySeq
<1>4. Last(s) = s[n]
  BY DEF Last
<1> HIDE DEF t, n
<1>5. ASSUME Apart(t, m) PROVE Apart(s, m) /\ (n > 0 => Far(s[n], e, m))
  <2>1. ASSUME NEW i \in 1..(n - 1) PROVE Far(s[i], s[i + 1], m)
    <3>1. i \in 1..(Len(t) - 1) /\ i \in 1..n /\ i + 1 \in 1..n
      BY <1>1, <1>2
    <3> QED
      BY <1>2, <1>5, <3>1 DEF Apart
  <2>2. n > 0 => Far(s[n], e, m)
    <3>1. n > 0 => n \in 1..(Len(t) - 1) /\ n \in 1..n
      BY <1>1, <1>2
    <3> QED
      BY <1>2, <1>5, <3>1 DEF Apart
  <2> QED
    BY <2>1, <2>2 DEF Apart, n
<1>6. ASSUME Apart(s, m), n > 0 => Far(s[n], e, m) PROVE Apart(t, m)
  <2>1. ASSUME NEW i \in 1..n PROVE Far(t[i], t[i + 1], m)
    <3>1. CASE i = n
      BY <1>1, <1>2, <1>6, <3>1
    <3>2. CASE i # n
      <4>1. i \in 1..(n - 1) /\ i + 1 \in 1..n
        BY <1>1, <3>2
      <4>2. Far(s[i], s[i + 1], m)
        BY <1>6, <4>1 DEF Apart, n
      <4> QED
        BY <1>2, <4>1, <4>2
    <3> QED
      BY <3>1, <3>2
  <2>2. Len(t) - 1 = n
    BY <1>1, <1>2
  <2> QED
    BY <2>1, <2>2 DEF Apart
<1> QED
  BY <1>3, <1>4, <1>5, <1>6 DEF t, n

\* The condition of the merge.
Merges(acc, x, m) ==
    /\ acc # <<>> /\ Last(acc).method = "multi" /\ x.method = "multi"
    /\ Len(Last(acc).lines) + Len(x.lines) <= m

\* The items so far are all in the merged ones.
MergeInv(acc, pre, m) ==
    /\ LinesOf(acc) = LinesOf(pre)
    /\ (\A item \in ToSet(pre) : Good(item, m)) => \A item \in ToSet(acc) : Good(item, m)
    /\ \A item \in ToSet(pre) : \E it \in ToSet(acc) : Inside(item.lines, it.lines)
    /\ Apart(acc, m)

(***************************************************************************)
(* Two items become one.                                                   *)
(***************************************************************************)
LEMMA MergedItem ==
    ASSUME NEW m \in Nat \ {0}, NEW acc \in ItemLists, NEW x \in ItemSet, Merges(acc, x, m)
    PROVE  LET f == Front(acc)
               l == Last(acc)
               it == Item("multi", "text", l.lines \o x.lines)
           IN  /\ f \in ItemLists /\ l \in ItemSet /\ it \in ItemSet
               /\ acc = Append(f, l) /\ MergeItem(acc, x, m) = Append(f, it)
               /\ it.method = "multi" /\ it.lines = Joined(l.lines, x.lines)
               /\ Len(it.lines) = Len(l.lines) + Len(x.lines)
<1> DEFINE f == Front(acc)
           l == Last(acc)
           it == Item("multi", "text", l.lines \o x.lines)
<1>1. f \in ItemLists /\ l \in ItemSet /\ acc = Append(f, l)
  BY Ends DEF ItemLists, Merges
<1>2. MergeItem(acc, x, m) = Append(f, it)
  BY DEF MergeItem, Merges
<1> HIDE DEF f, l
<1> DEFINE a == l.lines
           b == x.lines
<1>3. a \in Seq(Line) /\ b \in Seq(Line)
  BY <1>1, ItemRecords
<1> HIDE DEF a, b
<1>4. a \o b \in Seq(Line) /\ Len(a \o b) = Len(a) + Len(b)
  BY <1>3, ConcatProperties
<1> DEFINE ab == a \o b
<1> HIDE DEF ab
<1>5. it = [method |-> "multi", kind |-> "text", lines |-> ab]
  BY DEF Item, a, b, ab
<1>6. it \in ItemSet /\ it.method = "multi" /\ it.lines = ab
  <2>1. ab \in Seq(Line)
    BY <1>4 DEF ab
  <2> QED
    BY <1>5, <2>1 DEF ItemSet
<1> HIDE DEF it
<1>7. /\ f \in ItemLists /\ l \in ItemSet /\ it \in ItemSet
      /\ acc = Append(f, l) /\ MergeItem(acc, x, m) = Append(f, it)
      /\ it.method = "multi" /\ it.lines = Joined(l.lines, x.lines)
      /\ Len(it.lines) = Len(l.lines) + Len(x.lines)
  BY <1>1, <1>2, <1>4, <1>6 DEF Joined, a, b, ab
<1> QED
  BY <1>7 DEF f, l, it

LEMMA MergeItemTyped ==
    ASSUME NEW m \in Nat \ {0}, NEW acc \in ItemLists, NEW x \in ItemSet
    PROVE  MergeItem(acc, x, m) \in ItemLists
<1>1. CASE Merges(acc, x, m)
  <2> DEFINE f == Front(acc)
             it == Item("multi", "text", Last(acc).lines \o x.lines)
  <2>1. f \in ItemLists /\ it \in ItemSet /\ MergeItem(acc, x, m) = Append(f, it)
    BY <1>1, MergedItem
  <2> HIDE DEF f, it
  <2> QED
    BY <2>1, AppendProperties DEF ItemLists
<1>2. CASE ~Merges(acc, x, m)
  <2>1. MergeItem(acc, x, m) = Append(acc, x)
    BY <1>2 DEF MergeItem, Merges
  <2> QED
    BY <2>1, AppendProperties DEF ItemLists
<1> QED
  BY <1>1, <1>2

(***************************************************************************)
(* What _merge_adjacent keeps in a step.                                   *)
(***************************************************************************)
LEMMA MergeStep ==
    ASSUME NEW m \in Nat \ {0}, NEW acc \in ItemLists, NEW pre \in ItemLists, NEW x \in ItemSet,
           MergeInv(acc, pre, m)
    PROVE  MergeInv(MergeItem(acc, x, m), Append(pre, x), m)
<1> DEFINE t == Append(pre, x)
           lx == x.lines
           lp == LinesOf(pre)
           new == MergeItem(acc, x, m)
<1>1. /\ LinesOf(acc) = lp
      /\ (\A item \in ToSet(pre) : Good(item, m)) => \A item \in ToSet(acc) : Good(item, m)
      /\ \A item \in ToSet(pre) : \E it \in ToSet(acc) : Inside(item.lines, it.lines)
      /\ Apart(acc, m)
  BY DEF MergeInv
<1>2. acc \in Seq(ItemSet) /\ pre \in Seq(ItemSet) /\ t \in Seq(ItemSet) /\ lx \in Seq(Line) /\ lp \in Seq(Line)
  <2>1. acc \in Seq(ItemSet) /\ pre \in Seq(ItemSet)
    BY DEF ItemLists
  <2>2. t \in Seq(ItemSet)
    BY <2>1, AppendProperties
  <2>3. lp \in Seq(Line)
    BY <2>1, ItemRecords, LinesOfTyped
  <2>4. lx \in Seq(Line)
    BY ItemRecords
  <2> QED
    BY <2>1, <2>2, <2>3, <2>4
<1>3. LinesOf(t) = Joined(lp, lx) /\ ToSet(t) = ToSet(pre) \union {x}
  <2>1. LinesOf(t) = Joined(lp, lx)
    BY <1>2, ItemRecords, LinesOfAppend, SMTT(30) DEF Joined
  <2>2. ToSet(t) = ToSet(pre) \union {x}
    BY <1>2, Elements, SMTT(30)
  <2> QED
    BY <2>1, <2>2
<1>4. Inside(lx, lx)
  BY <1>2, InsideSelf
<1>5. CASE Merges(acc, x, m)
  <2> DEFINE f == Front(acc)
             l == Last(acc)
             it == Item("multi", "text", l.lines \o x.lines)
             ll == l.lines
  <2>1. /\ f \in ItemLists /\ l \in ItemSet /\ it \in ItemSet
        /\ acc = Append(f, l) /\ new = Append(f, it)
        /\ it.method = "multi" /\ it.lines = Joined(ll, lx)
        /\ Len(it.lines) = Len(ll) + Len(lx)
    BY <1>5, MergedItem
  <2>2. l.method = "multi" /\ x.method = "multi" /\ Len(ll) + Len(lx) <= m
    BY <1>5 DEF Merges
  <2> HIDE DEF f, l, it, ll, lx, lp, t, new
  <2> DEFINE lf == LinesOf(f)
  <2>3. f \in Seq(ItemSet) /\ ll \in Seq(Line) /\ lf \in Seq(Line)
    BY <2>1, ItemRecords, LinesOfTyped DEF ItemLists, ll
  <2>4. LinesOf(acc) = Joined(lf, ll) /\ LinesOf(new) = Joined(lf, Joined(ll, lx))
    <3>1. LinesOf(Append(f, l)) = lf \o l.lines /\ LinesOf(Append(f, it)) = lf \o it.lines
      BY <2>1, <2>3, ItemRecords, LinesOfAppend
    <3> HIDE DEF lf
    <3> QED
      BY <2>1, <3>1 DEF Joined, ll
  <2>5. LinesOf(new) = LinesOf(t)
    <3> HIDE DEF lf
    <3>1. Joined(Joined(lf, ll), lx) = Joined(lf, Joined(ll, lx))
      BY <1>2, <2>3, JoinedAssociative
    <3> QED
      BY <1>1, <1>3, <2>4, <3>1
  <2>6. ToSet(acc) = ToSet(f) \union {l} /\ ToSet(new) = ToSet(f) \union {it}
    BY <2>1, <2>3, Elements
  <2>7. Good(it, m)
    BY <2>1, <2>2 DEF Good
  <2>8. (\A item \in ToSet(t) : Good(item, m)) => \A item \in ToSet(new) : Good(item, m)
    BY <1>1, <1>3, <2>6, <2>7
  <2>9. Inside(ll, it.lines) /\ Inside(lx, it.lines)
    <3>1. Inside(ll, ll \o lx) /\ Inside(lx, ll \o lx)
      BY <1>2, <1>4, <2>3, InsideSelf, InsideBefore, InsideBehind
    <3> QED
      BY <2>1, <3>1 DEF Joined
  <2>10. ASSUME NEW item \in ToSet(t) PROVE \E jt \in ToSet(new) : Inside(item.lines, jt.lines)
    <3>1. CASE item = x
      BY <2>6, <2>9, <3>1 DEF lx
    <3>2. CASE item \in ToSet(pre)
      <4>1. PICK jt \in ToSet(acc) : Inside(item.lines, jt.lines)
        BY <1>1, <3>2
      <4>2. CASE jt \in ToSet(f)
        BY <2>6, <4>1, <4>2
      <4>3. CASE jt = l
        <5>1. item.lines \in Seq(Line) /\ it.lines \in Seq(Line)
          BY <1>2, <2>1, <3>2, Elements, ItemRecords
        <5>2. Inside(item.lines, ll)
          BY <4>1, <4>3 DEF ll
        <5>3. Inside(item.lines, it.lines)
          BY <2>3, <2>9, <5>1, <5>2, InsideInside
        <5> QED
          BY <2>6, <5>3
      <4> QED
        BY <2>6, <4>1, <4>2, <4>3
    <3> QED
      BY <1>3, <3>1, <3>2
  <2>11. Apart(new, m)
    <3>1. Apart(f, m) /\ (f # <<>> => Far(Last(f), l, m))
      BY <1>1, <2>1, ApartAppend
    <3>2. f # <<>> => Far(Last(f), it, m)
      <4> SUFFICES ASSUME f # <<>> PROVE Far(Last(f), it, m)
        OBVIOUS
      <4> DEFINE e == Last(f)
      <4>1. e \in ItemSet
        BY <2>3, Ends
      <4>2. Far(e, l, m)
        BY <3>1
      <4> HIDE DEF e
      <4>3. Len(e.lines) \in Nat /\ Len(ll) \in Nat /\ Len(lx) \in Nat
        BY <1>2, <2>3, <4>1, ItemRecords, LenProperties
      <4>4. ASSUME e.method = "multi" PROVE Len(e.lines) + Len(it.lines) > m
        <5>1. Len(e.lines) + Len(ll) > m
          BY <2>2, <4>2, <4>4 DEF Far, ll
        <5> DEFINE k == Len(e.lines)
        <5>2. k \in Nat /\ Len(ll) \in Nat /\ Len(lx) \in Nat /\ k + Len(ll) > m /\ Len(it.lines) = Len(ll) + Len(lx)
          BY <2>1, <4>3, <5>1
        <5> HIDE DEF k
        <5>3. k + Len(it.lines) > m
          BY <5>2
        <5> QED
          BY <5>3 DEF k
      <4>5. Far(e, it, m)
        BY <4>4 DEF Far
      <4> QED
        BY <4>5 DEF e
    <3> QED
      BY <2>1, <3>1, <3>2, ApartAppend
  <2>12. MergeInv(new, t, m)
    BY <2>5, <2>8, <2>10, <2>11 DEF MergeInv
  <2> QED
    BY <2>12 DEF new, t
<1>6. CASE ~Merges(acc, x, m)
  <2>1. new = Append(acc, x)
    BY <1>6 DEF MergeItem, Merges
  <2> HIDE DEF t, lp, new
  <2>2. LinesOf(new) = LinesOf(t) /\ ToSet(new) = ToSet(acc) \union {x}
    <3>1. LinesOf(Append(acc, x)) = LinesOf(acc) \o lx
      BY <1>2, ItemRecords, LinesOfAppend
    <3>2. ToSet(Append(acc, x)) = ToSet(acc) \union {x}
      BY <1>2, Elements
    <3> QED
      BY <1>1, <1>3, <2>1, <3>1, <3>2 DEF Joined
  <2>3. acc # <<>> => Far(Last(acc), x, m)
    <3> SUFFICES ASSUME acc # <<>> PROVE Far(Last(acc), x, m)
      OBVIOUS
    <3> DEFINE e == Last(acc)
    <3>1. e \in ItemSet /\ e.lines \in Seq(Line)
      <4>1. e \in ItemSet
        BY <1>2, Ends
      <4> HIDE DEF e
      <4> QED
        BY <4>1, ItemRecords
    <3>2. ~(e.method = "multi" /\ x.method = "multi" /\ Len(e.lines) + Len(x.lines) <= m)
      BY <1>6 DEF Merges
    <3> HIDE DEF e
    <3>3. Len(e.lines) \in Nat /\ Len(x.lines) \in Nat
      BY <1>2, <3>1, LenProperties
    <3>4. ASSUME e.method = "multi", x.method = "multi" PROVE Len(e.lines) + Len(x.lines) > m
      <4> DEFINE k == Len(e.lines)
                 n == Len(x.lines)
      <4>1. k \in Nat /\ n \in Nat /\ ~(k + n <= m)
        BY <3>2, <3>3, <3>4
      <4> HIDE DEF k, n
      <4>2. k + n > m
        BY <4>1
      <4> QED
        BY <4>2 DEF k, n
    <3>5. Far(e, x, m)
      BY <3>4 DEF Far
    <3> QED
      BY <3>5 DEF e
  <2>4. Apart(new, m)
    BY <1>1, <2>1, <2>3, ApartAppend
  <2>5. (\A item \in ToSet(t) : Good(item, m)) => \A item \in ToSet(new) : Good(item, m)
    BY <1>1, <1>3, <2>2
  <2>6. \A item \in ToSet(t) : \E jt \in ToSet(new) : Inside(item.lines, jt.lines)
    BY <1>1, <1>3, <1>4, <2>2
  <2>7. MergeInv(new, t, m)
    BY <2>2, <2>4, <2>5, <2>6 DEF MergeInv
  <2> QED
    BY <2>7 DEF new, t
<1> QED
  BY <1>5, <1>6

(***************************************************************************)
(* _merge_adjacent, item by item.                                          *)
(***************************************************************************)
LEMMA MergeLoop ==
    ASSUME NEW m \in Nat \ {0}, NEW s \in Seq(ItemSet), NEW T, <<NoItems, <<>>>> \in T,
           \A acc \in ItemLists, pre \in Seq(ItemSet), x \in ItemSet :
              <<acc, pre>> \in T => <<MergeItem(acc, x, m), Append(pre, x)>> \in T
    PROVE  LET fold == FoldLeft(LAMBDA merged, item : MergeItem(merged, item, m), NoItems, s) IN fold \in ItemLists /\ <<fold, s>> \in T
<1> DEFINE n == Len(s)
           Rec(f) == f = [t \in SUBSET (1..n) |->
                             IF t = {} THEN NoItems ELSE MergeItem(f[t \ {Max(t)}], s[Max(t)], m)]
           step == [p \in (1..n) \X ItemLists |-> MergeItem(p[2], s[p[1]], m)]
<1>1. n \in Nat /\ DOMAIN s = 1..n /\ \A k \in 1..n : s[k] \in ItemSet
  BY LenProperties, ElementOfSeq
<1>2. step \in [(1..n) \X ItemLists -> ItemLists]
  BY <1>1, MergeItemTyped
<1>3. NoItems \in ItemLists
  BY EmptySeq DEF NoItems, ItemLists
<1>4. FoldLeft(LAMBDA merged, item : MergeItem(merged, item, m), NoItems, s) = (CHOOSE f : Rec(f))[1..n]
  BY <1>1 DEF FoldLeft, MapThenFoldSet
<1>5. \E f : Rec(f)
  <2>1. PICK h \in [SUBSET (1..n) -> ItemLists] : Folding(h, n, NoItems, step)
    <3> HIDE DEF step, n
    <3> QED
      BY <1>1, <1>2, <1>3, FoldExists
  <2>2. \A t \in SUBSET (1..n) : h[t] = IF t = {} THEN NoItems ELSE step[<<Max(t), h[t \ {Max(t)}]>>]
    BY <2>1 DEF Folding
  <2>3. ASSUME NEW t \in SUBSET (1..n), t # {}
        PROVE  h[t] = MergeItem(h[t \ {Max(t)}], s[Max(t)], m)
    <3>1. Max(t) \in 1..n
      BY <1>1, <2>3, MaxUpTo
    <3>2. h[t \ {Max(t)}] \in ItemLists
      BY <2>1
    <3>3. h[t] = step[<<Max(t), h[t \ {Max(t)}]>>]
      BY <2>2, <2>3
    <3> QED
      BY <3>1, <3>2, <3>3
  <2> DEFINE f == [t \in SUBSET (1..n) |-> h[t]]
  <2>4. Rec(f)
    <3>1. ASSUME NEW t \in SUBSET (1..n)
          PROVE  h[t] = IF t = {} THEN NoItems ELSE MergeItem(f[t \ {Max(t)}], s[Max(t)], m)
      <4>1. CASE t = {}
        BY <2>2, <4>1
      <4>2. CASE t # {}
        <5>1. f[t \ {Max(t)}] = h[t \ {Max(t)}]
          OBVIOUS
        <5> QED
          BY <2>3, <4>2, <5>1
      <4> QED
        BY <4>1, <4>2
    <3> QED
      BY <3>1
  <2> HIDE DEF Rec, f
  <2> QED
    BY <2>4
<1> DEFINE c == CHOOSE f : Rec(f)
<1>6. Rec(c)
  <2> HIDE DEF Rec
  <2> QED
    BY <1>5
<1>7. FoldLeft(LAMBDA merged, item : MergeItem(merged, item, m), NoItems, s) = c[1..n]
  BY <1>4
<1> HIDE DEF c
<1> DEFINE K == {k \in 0..n : c[1..k] \in ItemLists /\ <<c[1..k], SubSeq(s, 1, k)>> \in T}
<1>8. 0 \in K
  <2>1. c[1..0] = NoItems
    BY <1>1, <1>6, Intervals
  <2>2. SubSeq(s, 1, 0) = <<>>
    BY FirstElements
  <2> HIDE DEF n
  <2> QED
    BY <1>1, <1>3, <2>1, <2>2
<1>9. ASSUME NEW k \in 1..n, k - 1 \in K PROVE k \in K
  <2>1. 1..k \in SUBSET (1..n) /\ 1..k # {} /\ Max(1..k) = k /\ (1..k) \ {k} = 1..(k - 1)
    BY <1>1, Intervals
  <2> DEFINE acc == c[1..(k - 1)]
             pre == SubSeq(s, 1, k - 1)
             x == s[k]
  <2>2. c[1..k] = MergeItem(acc, x, m)
    <3> HIDE DEF n
    <3> QED
      BY <1>6, <2>1
  <2>3. SubSeq(s, 1, k) = Append(pre, x) /\ x \in ItemSet
    BY FirstElements
  <2>4. pre \in Seq(ItemSet) /\ k \in 0..n
    <3>1. k - 1 \in 0..n /\ k \in 0..n
      BY <1>1
    <3> QED
      BY <3>1, FirstElements
  <2>5. acc \in ItemLists /\ <<acc, pre>> \in T
    BY <1>9
  <2> HIDE DEF acc, pre, x, n
  <2>6. MergeItem(acc, x, m) \in ItemLists
    BY <2>3, <2>5, MergeItemTyped
  <2>7. <<MergeItem(acc, x, m), Append(pre, x)>> \in T
    BY <2>3, <2>4, <2>5
  <2> QED
    BY <2>2, <2>3, <2>4, <2>6, <2>7
<1>10. n \in K
  <2>1. n \in 0..n
    BY <1>1
  <2> HIDE DEF K, n
  <2> QED
    BY <1>1, <1>8, <1>9, <2>1, UpTo
<1>11. SubSeq(s, 1, n) = s
  BY FirstElements
<1> QED
  BY <1>7, <1>10, <1>11

(***************************************************************************)
(* _merge_adjacent keeps the lines, keeps to the limit and leaves no       *)
(* neighbours that would fit into one message.                             *)
(***************************************************************************)
LEMMA MergeAdjacentKeeps ==
    ASSUME NEW m \in Nat \ {0}, NEW its \in ItemLists
    PROVE  MergeAdjacent(its, m) \in ItemLists /\ MergeInv(MergeAdjacent(its, m), its, m)
<1> DEFINE T == {p \in ItemLists \X ItemLists : MergeInv(p[1], p[2], m)}
           merged == FoldLeft(LAMBDA a, item : MergeItem(a, item, m), NoItems, its)
<1>1. <<NoItems, <<>>>> \in T
  <2>1. NoItems \in ItemLists /\ <<>> \in ItemLists /\ NoItems = <<>>
    BY EmptySeq DEF NoItems, ItemLists
  <2>2. MergeInv(<<>>, <<>>, m)
    <3>1. Len(<<>>) = 0 /\ ToSet(<<>>) = {}
      BY EmptySeq, Elements
    <3> QED
      BY <3>1 DEF MergeInv, Apart
  <2> QED
    BY <2>1, <2>2
<1>2. ASSUME NEW acc \in ItemLists, NEW pre \in Seq(ItemSet), NEW x \in ItemSet, <<acc, pre>> \in T
      PROVE  <<MergeItem(acc, x, m), Append(pre, x)>> \in T
  <2>1. MergeInv(acc, pre, m) /\ pre \in ItemLists
    BY <1>2 DEF ItemLists
  <2>2. MergeInv(MergeItem(acc, x, m), Append(pre, x), m) /\ MergeItem(acc, x, m) \in ItemLists
    BY <2>1, MergeStep, MergeItemTyped
  <2>3. Append(pre, x) \in ItemLists
    BY AppendProperties DEF ItemLists
  <2> QED
    BY <2>2, <2>3
<1>3. merged \in ItemLists /\ <<merged, its>> \in T
  <2>1. its \in Seq(ItemSet)
    BY DEF ItemLists
  <2> HIDE DEF T
  <2> QED
    BY <1>1, <1>2, <2>1, MergeLoop
<1>4. MergeAdjacent(its, m) = merged
  BY DEF MergeAdjacent, NoItems
<1> HIDE DEF merged
<1> QED
  BY <1>3, <1>4


----------------------------------------------------------------------------
(* The plan of a text.                                                     *)

LEMMA InsideElements ==
    ASSUME NEW p \in Seq(Line), NEW c \in Seq(Line), Inside(p, c)
    PROVE  ToSet(p) \subseteq ToSet(c)
<1>1. PICK a \in Seq(Line), b \in Seq(Line) : c = (a \o p) \o b
  BY DEF Inside
<1> DEFINE ap == a \o p
<1>2. ap \in Seq(Line) /\ ToSet(ap) = ToSet(a) \union ToSet(p)
  BY ConcatProperties, Elements
<1>3. ToSet(ap \o b) = ToSet(ap) \union ToSet(b)
  <2> HIDE DEF ap
  <2> QED
    BY <1>2, Elements
<1> QED
  BY <1>1, <1>2, <1>3

(***************************************************************************)
(* A block is a part of the lines of its list.                             *)
(***************************************************************************)
LEMMA BlockInside ==
    ASSUME NEW bs \in Seq(Blocks)
    PROVE  \A b \in ToSet(bs) : Inside(b.lines, LinesOf(bs))
<1> DEFINE T == {u \in Seq(Blocks) : \A b \in ToSet(u) : Inside(b.lines, LinesOf(u))}
<1>1. <<>> \in T
  BY EmptySeq, Elements
<1>2. ASSUME NEW u \in Seq(Blocks), NEW e \in Blocks, u \in T PROVE Append(u, e) \in T
  <2> DEFINE ue == Append(u, e)
             lu == LinesOf(u)
             x == e.lines
  <2>1. ue \in Seq(Blocks) /\ lu \in Seq(Line) /\ x \in Seq(Line)
    BY AppendProperties, BlockRecords, LinesOfTyped
  <2>2. LinesOf(ue) = lu \o x /\ ToSet(ue) = ToSet(u) \union {e}
    BY BlockRecords, LinesOfAppend, Elements
  <2>3. \A b \in ToSet(u) : b.lines \in Seq(Line) /\ Inside(b.lines, lu)
    BY <1>2, BlockRecords, Elements
  <2> HIDE DEF ue, lu, x
  <2>4. \A b \in ToSet(u) : Inside(b.lines, lu \o x)
    BY <2>1, <2>3, InsideBefore
  <2>5. Inside(x, lu \o x)
    BY <2>1, InsideSelf, InsideBehind
  <2>6. \A b \in ToSet(ue) : Inside(b.lines, LinesOf(ue))
    BY <2>2, <2>4, <2>5 DEF x
  <2> QED
    BY <2>1, <2>6 DEF ue
<1> HIDE DEF T
<1>3. bs \in T
  BY <1>1, <1>2, ListInduction
<1> QED
  BY <1>3 DEF T

(***************************************************************************)
(* The blocks of _parse_blocks: parts of the text with words in them, and  *)
(* all its words.                                                          *)
(***************************************************************************)
LEMMA ParsedBlocks ==
    ASSUME NEW lines \in Seq(Line)
    PROVE  /\ ParseBlocks(lines) \in Seq(Blocks) /\ Shaped(ParseBlocks(lines))
           /\ NonBlank(LinesOf(ParseBlocks(lines))) = NonBlank(lines)
           /\ \A b \in ToSet(ParseBlocks(lines)) :
                 b \in Blocks /\ Inside(b.lines, lines) /\ ~AllBlank(b.lines)
<1>1. PICK bs \in Seq(Blocks) :
         LinesOf(bs) = lines /\ Shaped(bs) /\ ParseBlocks(lines) = Those(bs, Speaking)
  BY ParseBlocksKeeps
<1> DEFINE ps == ParseBlocks(lines)
<1>2. ps \in Seq(Blocks) /\ ToSet(ps) = ToSet(bs) \intersect Speaking
  BY <1>1, ThoseTyped, ThoseElements
<1>3. NonBlank(LinesOf(ps)) = NonBlank(lines)
  BY <1>1, SpeakingKeeps
<1> HIDE DEF ps
<1>4. Shaped(ps)
  BY <1>1, <1>2 DEF Shaped
<1>5. \A b \in ToSet(ps) : b \in Blocks /\ Inside(b.lines, lines) /\ ~AllBlank(b.lines)
  BY <1>1, <1>2, BlockInside DEF Speaking
<1> QED
  BY <1>2, <1>3, <1>4, <1>5 DEF ps

(***************************************************************************)
(* A plan of one message.                                                  *)
(***************************************************************************)
LEMMA OneItem ==
    ASSUME NEW m \in Nat \ {0}, NEW lines \in Seq(Line), Len(lines) <= m
    PROVE  LET plan == <<Item("multi", "text", lines)>>
           IN  /\ plan \in ItemLists /\ LinesOf(plan) = lines /\ Apart(plan, m)
               /\ \A item \in ToSet(plan) : Good(item, m) /\ item.lines = lines
               /\ ToSet(plan) # {}
<1> DEFINE it == Item("multi", "text", lines)
<1>1. it \in ItemSet /\ it.lines = lines /\ it.method = "multi" /\ it.kind = "text"
  BY DEF Item, ItemSet
<1> HIDE DEF it
<1>2. <<it>> \in ItemLists /\ LinesOf(<<it>>) = lines
  BY <1>1, ItemRecords, LinesOfOne DEF ItemLists
<1>3. ToSet(<<it>>) = {it} /\ Len(<<it>>) = 1
  BY DEF ToSet
<1>4. Good(it, m)
  BY <1>1 DEF Good
<1> DEFINE plan == <<it>>
<1> HIDE DEF plan
<1>5. Apart(plan, m)
  <2>1. Len(plan) = 1
    BY <1>3 DEF plan
  <2> QED
    BY <2>1 DEF Apart
<1>6. /\ plan \in ItemLists /\ LinesOf(plan) = lines /\ Apart(plan, m)
      /\ \A item \in ToSet(plan) : Good(item, m) /\ item.lines = lines
      /\ ToSet(plan) # {}
  BY <1>1, <1>2, <1>3, <1>4, <1>5 DEF plan
<1> QED
  BY <1>6 DEF plan, it

(***************************************************************************)
(* What plan_delivery keeps of a text.                                     *)
(***************************************************************************)
LEMMA PlanKeeps ==
    ASSUME NEW m \in Nat \ {0}, NEW r \in BOOLEAN, NEW t \in Seq(Line)
    PROVE  LET plan == PlanDelivery(t, m, r)
           IN  /\ plan \in ItemLists /\ NonBlank(LinesOf(plan)) = NonBlank(t)
               /\ \A item \in ToSet(plan) : Good(item, m)
               /\ Apart(plan, m)
               /\ \A b \in ToSet(ParseBlocks(t)) : \A p \in FittingIn(b.lines, m) :
                     \E item \in ToSet(plan) : Inside(p, item.lines)
<1> DEFINE plan == PlanDelivery(t, m, r)
           bs == ParseBlocks(t)
<1>1. /\ bs \in Seq(Blocks) /\ Shaped(bs) /\ NonBlank(LinesOf(bs)) = NonBlank(t)
      /\ \A b \in ToSet(bs) : b \in Blocks /\ Inside(b.lines, t) /\ ~AllBlank(b.lines)
  BY ParsedBlocks
<1>2. CASE AllBlank(t)
  <2> DEFINE w == <<BlankLine>>
  <2>1. w \in Seq(Line) /\ NonBlank(w) = <<>> /\ Len(w) = 1
    BY BlankLineIs
  <2>2. plan = <<Item("multi", "text", w)>>
    BY <1>2 DEF PlanDelivery
  <2> HIDE DEF w
  <2>3. Len(w) <= m
    BY <2>1
  <2>4. /\ plan \in ItemLists /\ LinesOf(plan) = w /\ Apart(plan, m)
        /\ \A item \in ToSet(plan) : Good(item, m)
    BY <2>1, <2>2, <2>3, OneItem
  <2>5. NonBlank(t) = <<>> /\ ToSet(t) \intersect Words = {}
    BY <1>2, AllBlankIs
  <2>6. ASSUME NEW b \in ToSet(bs) PROVE FALSE
    <3>1. b \in Blocks /\ Inside(b.lines, t) /\ ~AllBlank(b.lines)
      BY <1>1, <2>6
    <3> DEFINE l == b.lines
    <3>2. l \in Seq(Line)
      BY <3>1, BlockRecords
    <3> HIDE DEF l
    <3>3. ToSet(l) \subseteq ToSet(t)
      BY <3>1, <3>2, InsideElements DEF l
    <3>4. ToSet(l) \intersect Words # {}
      BY <3>1, <3>2, AllBlankIs DEF l
    <3> QED
      BY <2>5, <3>3, <3>4
  <2> HIDE DEF plan, bs
  <2>7. /\ plan \in ItemLists /\ NonBlank(LinesOf(plan)) = NonBlank(t)
        /\ \A item \in ToSet(plan) : Good(item, m)
        /\ Apart(plan, m)
        /\ \A b \in ToSet(bs) : \A p \in FittingIn(b.lines, m) :
              \E item \in ToSet(plan) : Inside(p, item.lines)
    BY <2>1, <2>4, <2>5, <2>6
  <2> QED
    BY <2>7 DEF plan, bs
<1>3. CASE ~AllBlank(t) /\ Len(t) <= m /\ ~r
  <2>1. plan = <<Item("multi", "text", t)>>
    BY <1>3 DEF PlanDelivery
  <2>2. /\ plan \in ItemLists /\ LinesOf(plan) = t /\ Apart(plan, m)
        /\ \A item \in ToSet(plan) : Good(item, m) /\ item.lines = t
        /\ ToSet(plan) # {}
    BY <1>3, <2>1, OneItem
  <2>3. ASSUME NEW b \in ToSet(bs), NEW p \in FittingIn(b.lines, m) PROVE Inside(p, t)
    <3>1. b \in Blocks /\ Inside(b.lines, t)
      BY <1>1, <2>3
    <3> DEFINE l == b.lines
    <3>2. l \in Seq(Line)
      BY <3>1, BlockRecords
    <3>3. Inside(l, t) /\ p \in FittingIn(l, m)
      BY <2>3, <3>1
    <3> HIDE DEF l
    <3>4. p \in Seq(Line) /\ Inside(p, l)
      BY <3>2, <3>3, FittingInside
    <3> QED
      BY <3>2, <3>3, <3>4, InsideInside
  <2> HIDE DEF plan, bs
  <2>4. /\ plan \in ItemLists /\ NonBlank(LinesOf(plan)) = NonBlank(t)
        /\ \A item \in ToSet(plan) : Good(item, m)
        /\ Apart(plan, m)
        /\ \A b \in ToSet(bs) : \A p \in FittingIn(b.lines, m) :
              \E item \in ToSet(plan) : Inside(p, item.lines)
    BY <2>2, <2>3
  <2> QED
    BY <2>4 DEF plan, bs
<1>4. CASE ~AllBlank(t) /\ ~(Len(t) <= m /\ ~r)
  <2> DEFINE its == FoldLeft(LAMBDA items, block : items \o Items(block, m, r), NoItems, bs)
  <2>1. plan = MergeAdjacent(its, m)
    BY <1>4 DEF PlanDelivery, NoItems
  <2>2. /\ its \in ItemLists /\ NonBlank(LinesOf(its)) = NonBlank(LinesOf(bs))
        /\ \A item \in ToSet(its) : Good(item, m)
        /\ \A b \in ToSet(bs) : \A p \in FittingIn(b.lines, m) :
              \E item \in ToSet(its) : Inside(p, item.lines)
    <3>1. bs \in Seq(Blocks) /\ Shaped(bs)
      BY <1>1
    <3> HIDE DEF bs
    <3> QED
      BY <3>1, AllItemsKeep, ZenonT(40)
  <2> HIDE DEF its
  <2>3. plan \in ItemLists /\ MergeInv(plan, its, m)
    BY <2>1, <2>2, MergeAdjacentKeeps
  <2> HIDE DEF plan
  <2>4. /\ LinesOf(plan) = LinesOf(its) /\ Apart(plan, m)
        /\ \A item \in ToSet(plan) : Good(item, m)
        /\ \A item \in ToSet(its) : \E it \in ToSet(plan) : Inside(item.lines, it.lines)
    BY <2>2, <2>3 DEF MergeInv
  <2>5. ASSUME NEW b \in ToSet(bs), NEW p \in FittingIn(b.lines, m)
        PROVE  \E item \in ToSet(plan) : Inside(p, item.lines)
    <3>1. PICK item \in ToSet(its) : Inside(p, item.lines)
      BY <2>2, <2>5
    <3>2. PICK it \in ToSet(plan) : Inside(item.lines, it.lines)
      BY <2>4, <3>1
    <3>3. item.lines \in Seq(Line) /\ it.lines \in Seq(Line)
      BY <2>2, <2>3, <3>1, <3>2, Elements, ItemRecords DEF ItemLists
    <3>4. p \in Seq(Line)
      <4> DEFINE l == b.lines
      <4>1. l \in Seq(Line) /\ p \in FittingIn(l, m)
        BY <1>1, <2>5, BlockRecords
      <4> HIDE DEF l
      <4> QED
        BY <4>1, FittingInside
    <3>5. Inside(p, it.lines)
      BY <3>1, <3>2, <3>3, <3>4, InsideInside
    <3> QED
      BY <3>2, <3>5
  <2> HIDE DEF bs
  <2>6. /\ plan \in ItemLists /\ NonBlank(LinesOf(plan)) = NonBlank(t)
        /\ \A item \in ToSet(plan) : Good(item, m)
        /\ Apart(plan, m)
        /\ \A b \in ToSet(bs) : \A p \in FittingIn(b.lines, m) :
              \E item \in ToSet(plan) : Inside(p, item.lines)
    BY <1>1, <2>2, <2>3, <2>4, <2>5
  <2> QED
    BY <2>6 DEF plan, bs
<1> QED
  BY <1>2, <1>3, <1>4

(***************************************************************************)
(* What chunk_text keeps of a text.                                        *)
(***************************************************************************)
LEMMA ChunkTextKeeps ==
    ASSUME NEW m \in Nat \ {0}, NEW t \in Seq(Line)
    PROVE  /\ NonBlank(FlattenSeq(ChunkText(t, m))) = NonBlank(t)
           /\ \A c \in ToSet(ChunkText(t, m)) : Len(c) <= m
<1>1. CASE AllBlank(t)
  <2>1. ChunkText(t, m) = <<>>
    BY <1>1 DEF ChunkText
  <2>2. NonBlank(t) = <<>> /\ NonBlank(<<>>) = <<>> /\ FlattenSeq(<<>>) = <<>> /\ ToSet(<<>>) = {}
    BY <1>1, AllBlankIs, NonBlankNone, FlattenNone, Elements
  <2> QED
    BY <2>1, <2>2
<1>2. CASE ~AllBlank(t)
  <2>1. ChunkText(t, m) = Chunks(t, m)
    BY <1>2 DEF ChunkText
  <2> QED
    BY <2>1, ChunksKeep
<1> QED
  BY <1>1, <1>2

(***************************************************************************)
(* What a table is sent as: a table was made of its first or second line,  *)
(* so without a separator row below them the grid takes the second, or     *)
(* there is none.                                                          *)
(***************************************************************************)
LEMMA GridOfTable ==
    ASSUME NEW item \in ItemSet, item.kind = "table", Headed(item.lines), ~Misread(item.lines)
    PROVE  RichLines(item) = Unruled(item.lines)
<1> DEFINE l == item.lines
           rules == {i \in DOMAIN l : i > 1 /\ IsSeparatorRow(l[i])}
<1>1. l \in Seq(Line) /\ Len(l) \in Nat /\ DOMAIN l = 1..Len(l)
  <2>1. l \in Seq(Line)
    BY ItemRecords
  <2> HIDE DEF l
  <2> QED
    BY <2>1, LenProperties
<1>2. l # <<>> /\ (IsRule(l[1]) \/ (Len(l) >= 2 /\ IsRule(l[2]))) /\ ~Misread(l)
  BY DEF Headed
<1>3. /\ RichLines(item) = IF TableRows(l) # <<>> THEN TableRows(l) ELSE l
      /\ TableRows(l) = IF rules = {} THEN <<>>
                        ELSE <<l[Min(rules) - 1]>> \o SubSeq(l, Min(rules) + 1, Len(l))
  BY DEF RichLines, TableRows
<1> HIDE DEF l
<1>4. CASE Len(l) >= 2 /\ IsSeparatorRow(l[2])
  <2>1. 2 \in rules /\ \A i \in rules : i \in Nat /\ i >= 2
    BY <1>1, <1>4
  <2> HIDE DEF rules
  <2>2. Min(rules) = 2
    <3>1. \A x \in rules : (\A y \in rules : x <= y) => x = 2
      BY <2>1
    <3>2. \E x \in rules : \A y \in rules : x <= y
      BY <2>1
    <3> QED
      BY <3>1, <3>2 DEF Min
  <2> DEFINE rest == SubSeq(l, 3, Len(l))
  <2>3. TableRows(l) = <<l[1]>> \o rest
    BY <1>3, <2>1, <2>2
  <2>4. rest \in Seq(Line) /\ l[1] \in Line
    <3>1. \A k \in 1..Len(l) : l[k] \in Line
      BY <1>1, ElementOfSeq
    <3> DEFINE n == Len(l)
               lo == 3
    <3>2. SubSeq(l, lo, n) \in Seq(Line)
      <4>1. lo \in Int /\ n \in Int /\ \A k \in lo..n : l[k] \in Line
        BY <1>1, <3>1
      <4> HIDE DEF lo, n
      <4> QED
        BY <4>1, SubSeqProperties
    <3> QED
      BY <1>1, <1>4, <3>1, <3>2
  <2> HIDE DEF rest
  <2>5. TableRows(l) # <<>>
    <3> DEFINE one == <<l[1]>>
    <3>1. one \in Seq(Line) /\ Len(one) = 1 /\ Len(rest) \in Nat
      BY <2>4, LenProperties
    <3> HIDE DEF one
    <3>2. Len(one \o rest) = Len(one) + Len(rest)
      BY <2>4, <3>1, ConcatProperties
    <3>3. one \o rest # <<>>
      BY <3>1, <3>2, EmptySeq
    <3> QED
      BY <2>3, <3>3 DEF one
  <2>6. Unruled(l) = <<l[1]>> \o rest
    BY <1>4 DEF Unruled, rest
  <2> QED
    BY <1>3, <2>3, <2>5, <2>6 DEF l
<1>5. CASE ~(Len(l) >= 2 /\ IsSeparatorRow(l[2]))
  <2>1. ASSUME NEW i \in rules PROVE FALSE
    <3>1. i \in 1..Len(l) /\ i > 1 /\ IsSeparatorRow(l[i])
      BY <1>1
    <3>2. i # 2 /\ i \in 3..Len(l) /\ Len(l) >= 2
      BY <1>1, <1>5, <3>1
    <3>3. Misread(l)
      BY <1>2, <1>5, <3>1, <3>2 DEF Misread
    <3> QED
      BY <1>2, <3>3
  <2> HIDE DEF rules
  <2>2. RichLines(item) = l
    BY <1>3, <2>1
  <2>3. Unruled(l) = l
    BY <1>5 DEF Unruled
  <2> QED
    BY <2>2, <2>3 DEF l
<1> QED
  BY <1>4, <1>5

----------------------------------------------------------------------------
(***************************************************************************)
(* Theorems.                                                               *)
(***************************************************************************)
TextInv == text \in Seq(Line) /\ limit \in Nat \ {0} /\ rich \in BOOLEAN

(***************************************************************************)
(* plan_delivery is called with lines and with a limit of at least one.    *)
(***************************************************************************)
THEOREM TextTyped == TextSpec => []TextInv
<1>1. TextInit => TextInv
  BY ChunkerAssumption, EmptySeq DEF TextInit, TextInv
<1>2. TextInv /\ [WriteLine]_textVars => TextInv'
  <2> SUFFICES ASSUME TextInv, [WriteLine]_textVars PROVE TextInv'
    OBVIOUS
  <2>1. CASE WriteLine
    <3>1. PICK kind \in TextKinds : text' = Append(text, <<Len(text) + 1, kind>>)
      BY <2>1 DEF WriteLine
    <3> DEFINE e == <<Len(text) + 1, kind>>
    <3>2. e \in Line
      <4>1. Len(text) \in Nat /\ kind \in Kinds
        BY ChunkerAssumption, LenProperties DEF TextInv
      <4> HIDE DEF Kinds
      <4> QED
        BY <4>1 DEF Line
    <3> HIDE DEF e
    <3>3. Append(text, e) \in Seq(Line)
      BY <3>2, AppendProperties DEF TextInv
    <3> QED
      BY <2>1, <3>1, <3>3 DEF TextInv, WriteLine, e
  <2>2. CASE UNCHANGED textVars
    BY <2>2 DEF TextInv, textVars
  <2> QED
    BY <2>1, <2>2
<1> QED
  BY <1>1, <1>2, PTL DEF TextSpec

LEMMA KeptHere == TextInv => LinesKept
<1> SUFFICES ASSUME TextInv PROVE LinesKept
  OBVIOUS
<1> DEFINE plan == Plan
           tables == {item \in ToSet(plan) : item.method = "rich" /\ item.kind = "table"}
<1>1. text \in Seq(Line) /\ limit \in Nat \ {0} /\ rich \in BOOLEAN
  BY DEF TextInv
<1>2. plan \in ItemLists /\ NonBlank(LinesOf(plan)) = NonBlank(text) /\ \A item \in ToSet(plan) : Good(item, limit)
  BY <1>1, PlanKeeps DEF Plan
<1>3. NonBlank(FlattenSeq(ChunkText(text, limit))) = NonBlank(text)
  BY <1>1, ChunkTextKeeps
<1> HIDE DEF plan
<1>4. NonBlank(FlattenSeq([i \in DOMAIN plan |-> plan[i].lines])) = NonBlank(text)
  BY <1>2 DEF LinesOf
<1>5. ASSUME NEW item \in tables
      PROVE  Misread(item.lines) \/ RichLines(item) = Unruled(item.lines)
  <2>1. item \in ToSet(plan) /\ item.method = "rich" /\ item.kind = "table"
    BY <1>5
  <2>2. item \in ItemSet /\ Headed(item.lines)
    BY <1>2, <2>1, Elements DEF ItemLists, Good
  <2> QED
    BY <2>1, <2>2, GridOfTable
<1> HIDE DEF tables
<1> QED
  BY <1>3, <1>4, <1>5 DEF LinesKept, plan, tables

(***************************************************************************)
(* LinesKept: whatever the text, the limit and the routing, no line of an  *)
(* answer is lost, repeated or moved by cutting and merging, and a grid    *)
(* leaves out the rule below the head of its table and nothing else, unless*)
(* the two tests of a rule differ on the table (Misread).                  *)
(***************************************************************************)
THEOREM NoLineLost == TextSpec => []LinesKept
BY TextTyped, KeptHere, PTL

LEMMA FitHere == TextInv => PartsFit
<1> SUFFICES ASSUME TextInv PROVE PartsFit
  OBVIOUS
<1> DEFINE plan == Plan
<1>1. text \in Seq(Line) /\ limit \in Nat \ {0} /\ rich \in BOOLEAN
  BY DEF TextInv
<1>2. /\ plan \in ItemLists /\ Apart(plan, limit) /\ \A item \in ToSet(plan) : Good(item, limit)
      /\ \A b \in ToSet(ParseBlocks(text)) : \A p \in FittingIn(b.lines, limit) :
            \E item \in ToSet(plan) : Inside(p, item.lines)
  BY <1>1, PlanKeeps DEF Plan
<1> HIDE DEF plan
<1>3. WithinLimit(plan)
  BY <1>1, <1>2, ChunkTextKeeps DEF WithinLimit, Good
<1>4. plan \in Seq(ItemSet) /\ DOMAIN plan = 1..Len(plan) /\ ToSet(plan) = {plan[i] : i \in DOMAIN plan}
  BY <1>2, LenProperties DEF ItemLists, ToSet
<1>5. ASSUME NEW block \in ToSet(ParseBlocks(text)), NEW p \in FittingIn(block.lines, limit)
      PROVE  \E i \in DOMAIN plan : Within(p, plan[i].lines)
  <2>1. PICK item \in ToSet(plan) : Inside(p, item.lines)
    BY <1>2, <1>5
  <2>2. PICK i \in DOMAIN plan : item = plan[i]
    BY <1>4, <2>1
  <2> DEFINE l == item.lines
  <2>3. l \in Seq(Line) /\ Inside(p, l)
    BY <1>4, <2>1, Elements, ItemRecords
  <2> HIDE DEF l
  <2>4. p \in Seq(Line)
    <3> DEFINE b == block.lines
    <3>1. b \in Seq(Line) /\ p \in FittingIn(b, limit)
      BY <1>1, <1>5, ParsedBlocks, BlockRecords
    <3> HIDE DEF b
    <3> QED
      BY <1>1, <3>1, FittingInside
  <2>5. Within(p, l)
    BY <2>3, <2>4, InsideWithin
  <2> QED
    BY <2>2, <2>5 DEF l
<1>6. \A i \in 1..(Len(plan) - 1) :
         plan[i].method = "multi" /\ plan[i + 1].method = "multi"
            => Len(plan[i].lines) + Len(plan[i + 1].lines) > limit
  BY <1>2 DEF Apart, Far
<1>7. NoNeedlessCuts(plan)
  <2> HIDE DEF Within
  <2> QED
    BY <1>5, <1>6 DEF NoNeedlessCuts, FittingIn
<1> QED
  BY <1>3, <1>7 DEF PartsFit, plan

(***************************************************************************)
(* PartsFit: whatever the text, the limit and the routing, the parts keep  *)
(* to the limit, and nothing is cut or sent apart that would have fitted.  *)
(***************************************************************************)
THEOREM AllPartsFit == TextSpec => []PartsFit
BY TextTyped, FitHere, PTL
============================================================================
