--------------------------- MODULE CubeFormsProofs ---------------------------
(***************************************************************************)
(* What becomes of every reply of blocks, and of every answer to it,       *)
(* whatever the blocks, the words and the order of the posts.              *)
(***************************************************************************)
EXTENDS CubeForms, ListProofs, FiniteSetTheorems

Row == Seq(AnyCell)

AnyContent ==
    [rows : Seq(Row), bodystyle : {None, "grid"}, callback : BOOLEAN, mandatory : Seq(AnyText), requestid : Seq(AnyText)]

Part == [kind : {"form"}, content : AnyContent] \union [kind : {"text"}, content : Seq(AnyText)]

----------------------------------------------------------------------------
(* Blocks.                                                                 *)

LEMMA TextsTyped == "" \in AnyText /\ None \in AnyText
BY DEF AnyText

LEMMA CellTyped ==
    ASSUME NEW type \in CellType, NEW processid \in AnyText, NEW text \in AnyText, NEW value \in AnyText,
           NEW options \in Seq(Option)
    PROVE  /\ Cell(type, processid, text, value) \in AnyCell
           /\ [Cell(type, processid, text, value) EXCEPT !.options = options] \in AnyCell
<1>1. <<>> \in Seq(Option)
  BY EmptySeq
<1> QED
  BY <1>1 DEF Cell, AnyCell

(***************************************************************************)
(* A block of one cell.                                                    *)
(***************************************************************************)
LEMMA RowTyped ==
    ASSUME NEW cell \in AnyCell, NEW mandatory \in Seq(AnyText), NEW requestid \in Seq(AnyText)
    PROVE  AddRow(<<cell>>, mandatory, requestid) \in AnyBlock
<1>1. <<cell>> \in Row
  BY DEF Row
<1> DEFINE row == <<cell>>
<1>2. <<row>> \in Seq(Row)
  <2> HIDE DEF row
  <2> QED
    BY <1>1 DEF row
<1> QED
  BY <1>2 DEF AddRow, BlockOf, AnyBlock, Row

LEMMA MandatoryTyped ==
    ASSUME NEW processid \in AnyText, NEW required \in BOOLEAN
    PROVE  Mandatory(processid, required) \in Seq(AnyText) /\ <<processid>> \in Seq(AnyText) /\ <<>> \in Seq(AnyText)
BY EmptySeq DEF Mandatory

(***************************************************************************)
(* The question, and an option in each row.                                *)
(***************************************************************************)
LEMMA ChoiceTyped ==
    ASSUME NEW question \in AnyText, NEW options \in Seq(Option), NEW processid \in AnyText,
           NEW multi \in BOOLEAN, NEW required \in BOOLEAN
    PROVE  AddChoice(question, options, processid, multi, required) \in AnyBlock
<1> DEFINE OptionCell(o) == IF multi THEN CheckboxCell(o.label, o.value, processid)
                                     ELSE RadioCell(o.label, o.value, processid)
           head == LabelCell(question)
           top == <<head>>
           others == [i \in DOMAIN options |-> <<OptionCell(options[i])>>]
           rows == <<top>> \o others
<1>1. ASSUME NEW o \in Option PROVE OptionCell(o) \in AnyCell
  <2>1. o.label \in AnyText /\ o.value \in AnyText /\ <<>> \in Seq(Option)
    BY EmptySeq DEF Option
  <2> QED
    BY <2>1, CellTyped, TextsTyped DEF CheckboxCell, RadioCell, CellType
<1>2. others \in Seq(Row)
  <2>1. Len(options) \in Nat /\ DOMAIN options = 1..Len(options) /\ \A i \in 1..Len(options) : options[i] \in Option
    BY LenProperties, ElementOfSeq
  <2> DEFINE c == [i \in DOMAIN options |-> OptionCell(options[i])]
  <2>2. \A i \in 1..Len(options) : c[i] \in AnyCell
    BY <1>1, <2>1
  <2>3. others = [i \in 1..Len(options) |-> <<c[i]>>]
    BY <2>1
  <2> HIDE DEF c, OptionCell
  <2>4. \A i \in 1..Len(options) : <<c[i]>> \in Row
    BY <2>2 DEF Row
  <2> QED
    BY <2>1, <2>3, <2>4
<1>3. top \in Row
  <2>1. head \in AnyCell
    BY CellTyped, TextsTyped, EmptySeq DEF LabelCell, CellType
  <2> HIDE DEF head
  <2> QED
    BY <2>1 DEF Row
<1>4. rows \in Seq(Row)
  <2> HIDE DEF others, top
  <2>1. <<top>> \in Seq(Row)
    BY <1>3
  <2> DEFINE one == <<top>>
  <2> HIDE DEF one
  <2>2. one \in Seq(Row)
    BY <2>1 DEF one
  <2>3. one \o others \in Seq(Row)
    BY <1>2, <2>2, ConcatProperties
  <2> QED
    BY <2>3 DEF one
<1>5. AddChoice(question, options, processid, multi, required)
         = BlockOf(rows, Mandatory(processid, required), <<processid>>, None)
  BY DEF AddChoice
<1> HIDE DEF rows
<1> QED
  BY <1>4, <1>5, MandatoryTyped DEF BlockOf, AnyBlock, Row

(***************************************************************************)
(* The longest row.                                                        *)
(***************************************************************************)
LEMMA LengthsBounded ==
    ASSUME NEW S, NEW rows \in Seq(Seq(S))
    PROVE  \E n \in Nat : \A r \in DOMAIN rows : Len(rows[r]) \in 0..n
<1> DEFINE B == Seq(S)
           T == {u \in Seq(B) : \E n \in Nat : \A r \in DOMAIN u : Len(u[r]) \in 0..n}
<1>1. <<>> \in T
  <2>1. DOMAIN <<>> = {} /\ <<>> \in Seq(B) /\ 0 \in Nat
    BY EmptySeq
  <2> QED
    BY <2>1
<1>2. ASSUME NEW u \in Seq(B), NEW e \in B, u \in T PROVE Append(u, e) \in T
  <2>1. PICK n \in Nat : \A r \in DOMAIN u : Len(u[r]) \in 0..n
    BY <1>2
  <2>2. Len(e) \in Nat
    BY LenProperties
  <2> DEFINE t == Append(u, e)
  <2>3. /\ t \in Seq(B) /\ Len(t) = Len(u) + 1 /\ t[Len(u) + 1] = e
        /\ \A k \in 1..Len(u) : t[k] = u[k]
    BY AppendProperties
  <2>4. DOMAIN u = 1..Len(u) /\ DOMAIN t = 1..Len(t) /\ Len(u) \in Nat
    BY <2>3, LenProperties
  <2> HIDE DEF t, B
  <2>5. \A r \in DOMAIN t : Len(t[r]) \in 0..(n + Len(e))
    <3> SUFFICES ASSUME NEW r \in DOMAIN t PROVE Len(t[r]) \in 0..(n + Len(e))
      OBVIOUS
    <3>1. CASE r = Len(u) + 1
      BY <2>2, <2>3, <3>1
    <3>2. CASE r # Len(u) + 1
      <4>1. r \in DOMAIN u /\ t[r] = u[r]
        BY <2>3, <2>4, <3>2
      <4> QED
        BY <2>1, <2>2, <4>1
    <3> QED
      BY <3>1, <3>2
  <2>6. n + Len(e) \in Nat
    BY <2>2
  <2> QED
    BY <2>3, <2>5, <2>6 DEF t
<1> HIDE DEF T
<1>3. rows \in T
  <2> HIDE DEF B
  <2>1. rows \in Seq(B)
    BY DEF B
  <2> QED
    BY <1>1, <1>2, <2>1, ListInduction
<1> QED
  BY <1>3 DEF T

LEMMA LargestNumber ==
    ASSUME NEW n \in Nat, NEW s \in SUBSET (0..n), s # {}
    PROVE  Max(s) \in s /\ \A y \in s : y <= Max(s)
<1> DEFINE t == {k \in 1..(n + 1) : k - 1 \in s}
<1>1. t \in SUBSET (1..(n + 1)) /\ n + 1 \in Nat
  OBVIOUS
<1>2. t # {}
  <2>1. PICK x \in s : TRUE
    OBVIOUS
  <2>2. x + 1 \in t
    OBVIOUS
  <2> QED
    BY <2>2
<1>3. Max(t) \in t /\ \A y \in t : y <= Max(t)
  <2> HIDE DEF t
  <2> QED
    BY <1>1, <1>2, MaxUpTo
<1> DEFINE x == Max(t) - 1
<1>4. x \in s
  BY <1>3
<1>5. ASSUME NEW y \in s PROVE x >= y
  <2>1. y + 1 \in t /\ y \in 0..n
    OBVIOUS
  <2> HIDE DEF t
  <2>2. y + 1 <= Max(t)
    BY <1>3, <2>1
  <2>3. Max(t) \in 1..(n + 1)
    BY <1>1, <1>3
  <2> QED
    BY <2>1, <2>2, <2>3
<1> HIDE DEF x
<1>6. \E z \in s : \A y \in s : z >= y
  BY <1>4, <1>5
<1> QED
  BY <1>6 DEF Max

LEMMA TableTyped ==
    ASSUME NEW headers \in Seq(AnyText), NEW rows \in Seq(Seq(AnyText))
    PROVE  AddTable(headers, rows) \in AnyBlock
<1> DEFINE lengths == {Len(headers)} \union {Len(rows[r]) : r \in DOMAIN rows}
           columns == Max(lengths)
           TextAt(row, i) == IF i \in DOMAIN row THEN row[i] ELSE ""
           InCells(row) == [i \in 1..columns |-> LabelCell(TextAt(row, i))]
           top == InCells(headers)
           others == [r \in DOMAIN rows |-> InCells(rows[r])]
<1>1. columns \in Nat
  <2>1. PICK n \in Nat : \A r \in DOMAIN rows : Len(rows[r]) \in 0..n
    BY LengthsBounded
  <2>2. Len(headers) \in Nat
    BY LenProperties
  <2> DEFINE m == n + Len(headers)
  <2>3. lengths \in SUBSET (0..m) /\ lengths # {} /\ m \in Nat
    BY <2>1, <2>2
  <2> HIDE DEF lengths, m
  <2>4. Max(lengths) \in lengths
    BY <2>3, LargestNumber
  <2>5. m \in Nat /\ lengths \subseteq 0..m
    BY <2>3
  <2>6. \A k \in lengths : k \in Nat
    BY <2>5
  <2>7. Max(lengths) \in Nat
    BY <2>4, <2>6
  <2> QED
    BY <2>7 DEF lengths
<1> HIDE DEF columns
<1>2. ASSUME NEW row \in Seq(AnyText) PROVE InCells(row) \in Row
  <2>1. ASSUME NEW i \in 1..columns PROVE LabelCell(TextAt(row, i)) \in AnyCell
    <3>1. TextAt(row, i) \in AnyText
      BY LenProperties, ElementOfSeq, TextsTyped
    <3> HIDE DEF TextAt
    <3> QED
      BY <3>1, CellTyped, TextsTyped, EmptySeq DEF LabelCell, CellType
  <2> DEFINE c == [i \in 1..columns |-> LabelCell(TextAt(row, i))]
  <2>2. \A i \in 1..columns : c[i] \in AnyCell
    BY <2>1
  <2>3. InCells(row) = [i \in 1..columns |-> c[i]]
    OBVIOUS
  <2> HIDE DEF c, InCells
  <2> QED
    BY <1>1, <2>2, <2>3 DEF Row
<1> HIDE DEF InCells
<1>3. top \in Row /\ others \in Seq(Row)
  <2>1. Len(rows) \in Nat /\ DOMAIN rows = 1..Len(rows) /\ \A r \in 1..Len(rows) : rows[r] \in Seq(AnyText)
    BY LenProperties, ElementOfSeq
  <2>2. \A r \in 1..Len(rows) : InCells(rows[r]) \in Row
    BY <1>2, <2>1
  <2>3. others = [r \in 1..Len(rows) |-> InCells(rows[r])]
    BY <2>1
  <2> QED
    BY <1>2, <2>1, <2>2, <2>3
<1>4. AddTable(headers, rows)
         = IF columns = 0 THEN BlockOf(<<>>, <<>>, <<>>, "grid")
           ELSE BlockOf(<<top>> \o others, <<>>, <<>>, "grid")
  BY DEF AddTable, columns, InCells
<1> HIDE DEF top, others
<1> DEFINE one == <<top>>
<1>5. one \in Seq(Row)
  BY <1>3
<1> HIDE DEF one
<1>6. one \o others \in Seq(Row)
  BY <1>3, <1>5, ConcatProperties
<1> DEFINE all == <<top>> \o others
<1>7. all \in Seq(Row)
  BY <1>6 DEF one
<1> HIDE DEF all
<1>8. AddTable(headers, rows)
         = IF columns = 0 THEN BlockOf(<<>>, <<>>, <<>>, "grid") ELSE BlockOf(all, <<>>, <<>>, "grid")
  BY <1>4 DEF all
<1>9. <<>> \in Seq(Row) /\ <<>> \in Seq(AnyText)
  BY EmptySeq
<1> QED
  BY <1>7, <1>8, <1>9 DEF BlockOf, AnyBlock, Row

(***************************************************************************)
(* intent_to_block makes a block of every intent.                          *)
(***************************************************************************)
LEMMA BlockTyped ==
    ASSUME NEW intent \in Intent
    PROVE  IntentToBlock(intent) \in AnyBlock
<1>0. <<>> \in Seq(AnyText) /\ <<>> \in Seq(Option)
  BY EmptySeq
<1>1. CASE intent \in [kind : {"text", "image"}, text : AnyText]
  <2>1. intent.kind \in {"text", "image"} /\ intent.text \in AnyText
    BY <1>1
  <2>2. LabelCell(intent.text) \in AnyCell /\ ImageCell(intent.text) \in AnyCell
    BY <2>1, CellTyped, TextsTyped, <1>0 DEF LabelCell, ImageCell, CellType
  <2>3. AddText(intent.text) \in AnyBlock /\ AddImage(intent.text) \in AnyBlock
    BY <2>2, <1>0, RowTyped DEF AddText, AddImage
  <2> QED
    BY <2>1, <2>3 DEF IntentToBlock
<1>2. CASE intent \in [kind : {"table"}, headers : Seq(AnyText), rows : Seq(Seq(AnyText))]
  <2>1. intent.kind = "table" /\ intent.headers \in Seq(AnyText) /\ intent.rows \in Seq(Seq(AnyText))
    BY <1>2
  <2>2. AddTable(intent.headers, intent.rows) \in AnyBlock
    BY <2>1, TableTyped
  <2> QED
    BY <2>1, <2>2 DEF IntentToBlock
<1>3. CASE intent \in [kind : {"choice"}, text : AnyText, options : Seq(Option), multi : BOOLEAN,
                       processid : AnyText, required : BOOLEAN]
  <2>1. /\ intent.kind = "choice" /\ intent.text \in AnyText /\ intent.options \in Seq(Option)
        /\ intent.multi \in BOOLEAN /\ intent.processid \in AnyText /\ intent.required \in BOOLEAN
    BY <1>3
  <2>2. AddChoice(intent.text, intent.options, intent.processid, intent.multi, intent.required) \in AnyBlock
    BY <2>1, ChoiceTyped
  <2> QED
    BY <2>1, <2>2 DEF IntentToBlock
<1>4. CASE intent \in [kind : {"input", "date"}, text : AnyText, processid : AnyText, required : BOOLEAN]
  <2>1. /\ intent.kind \in {"input", "date"} /\ intent.text \in AnyText
        /\ intent.processid \in AnyText /\ intent.required \in BOOLEAN
    BY <1>4
  <2>2. /\ InputCell(intent.text, intent.processid) \in AnyCell
        /\ DatepickerCell(intent.text, intent.processid) \in AnyCell
    BY <2>1, CellTyped, TextsTyped, <1>0 DEF InputCell, DatepickerCell, CellType
  <2>3. /\ Mandatory(intent.processid, intent.required) \in Seq(AnyText)
        /\ <<intent.processid>> \in Seq(AnyText)
    BY <2>1, MandatoryTyped
  <2>4. /\ AddInput(intent.text, intent.processid, intent.required) \in AnyBlock
        /\ AddDatepicker(intent.text, intent.processid, intent.required) \in AnyBlock
    BY <2>2, <2>3, RowTyped DEF AddInput, AddDatepicker
  <2> QED
    BY <2>1, <2>4 DEF IntentToBlock
<1>5. CASE intent \in [kind : {"button"}, text : AnyText, processid : AnyText, value : AnyText]
  <2>1. /\ intent.kind = "button" /\ intent.text \in AnyText
        /\ intent.processid \in AnyText /\ intent.value \in AnyText
    BY <1>5
  <2>2. ButtonCell(intent.text, intent.processid, intent.value) \in AnyCell
    BY <2>1, CellTyped, <1>0 DEF ButtonCell, CellType
  <2>3. <<intent.processid>> \in Seq(AnyText)
    BY <2>1
  <2>4. AddButton(intent.text, intent.processid, intent.value) \in AnyBlock
    BY <1>0, <2>2, <2>3, RowTyped DEF AddButton
  <2> QED
    BY <2>1, <2>4 DEF IntentToBlock
<1>6. CASE intent \in [kind : {"raw_block"}, block : AnyBlock]
  BY <1>6 DEF IntentToBlock
<1> QED
  BY <1>1, <1>2, <1>3, <1>4, <1>5, <1>6 DEF Intent

----------------------------------------------------------------------------
(* Messages.                                                               *)

NonBlank == AnyText \ {""}

\* The rows of a block, of a text, of an intent and of a message.
RowsOf == [block \in AnyBlock |-> block.rows]

TextRow == [text \in AnyText |-> AddText(text).rows[1]]

MeantBy == [intent \in Intent |-> Meant(intent)]

ShownBy == [part \in Part |-> Shown(part)]

\* The rows of what waits, and of what was sent.
BlockRows(blocks) == FlattenSeq(Mapped(blocks, RowsOf))

TextRows(texts) == Mapped(Those(texts, NonBlank), TextRow)

SentRows(sent) == FlattenSeq(Mapped(sent, ShownBy))

LEMMA RowFunctions ==
    /\ RowsOf \in [AnyBlock -> Seq(Row)]
    /\ TextRow \in [AnyText -> Row]
    /\ MeantBy \in [Intent -> Seq(Row)]
    /\ ShownBy \in [Part -> Seq(Row)]
<1>1. ASSUME NEW block \in AnyBlock PROVE block.rows \in Seq(Row)
  BY DEF AnyBlock, Row
<1>2. ASSUME NEW text \in AnyText PROVE AddText(text).rows[1] \in Row
  <2>1. LabelCell(text) \in AnyCell
    BY CellTyped, TextsTyped, EmptySeq DEF LabelCell, CellType
  <2>2. AddText(text).rows[1] = <<LabelCell(text)>>
    BY DEF AddText, AddRow, BlockOf
  <2> QED
    BY <2>1, <2>2 DEF Row
<1>3. ASSUME NEW intent \in Intent PROVE Meant(intent) \in Seq(Row)
  BY <1>1, BlockTyped, EmptySeq DEF Meant
<1>4. ASSUME NEW part \in Part PROVE Shown(part) \in Seq(Row)
  <2>1. CASE part \in [kind : {"form"}, content : AnyContent]
    <3>1. part.kind = "form" /\ part.content.rows \in Seq(Row)
      BY <2>1 DEF AnyContent
    <3> QED
      BY <3>1 DEF Shown
  <2>2. CASE part \in [kind : {"text"}, content : Seq(AnyText)]
    <3> DEFINE texts == part.content
    <3>1. part.kind = "text" /\ texts \in Seq(AnyText)
      BY <2>2
    <3>2. Shown(part) = [i \in DOMAIN texts |-> AddText(texts[i]).rows[1]]
      BY <3>1 DEF Shown
    <3> HIDE DEF texts
    <3>3. Len(texts) \in Nat /\ DOMAIN texts = 1..Len(texts) /\ \A i \in 1..Len(texts) : texts[i] \in AnyText
      BY <3>1, LenProperties, ElementOfSeq
    <3>4. \A i \in 1..Len(texts) : AddText(texts[i]).rows[1] \in Row
      BY <1>2, <3>3
    <3> QED
      BY <3>2, <3>3, <3>4
  <2> QED
    BY <2>1, <2>2 DEF Part
<1> QED
  BY <1>1, <1>2, <1>3, <1>4 DEF RowsOf, TextRow, MeantBy, ShownBy

(***************************************************************************)
(* dict.fromkeys keeps every element.                                      *)
(***************************************************************************)
LEMMA WithoutRepeatsElements ==
    ASSUME NEW S, NEW s \in Seq(S)
    PROVE  WithoutRepeats(s) \in Seq(S) /\ ToSet(WithoutRepeats(s)) = ToSet(s)
<1> DEFINE P(u) == {i \in DOMAIN u : \A j \in 1..(i - 1) : u[j] # u[i]}
           T == {u \in Seq(S) : /\ WithoutRepeats(u) \in Seq(S)
                                /\ ToSet(WithoutRepeats(u)) = ToSet(u)}
<1>1. <<>> \in T
  BY PickedNone, EmptySeq DEF WithoutRepeats
<1>2. ASSUME NEW u \in Seq(S), NEW e \in S, u \in T PROVE Append(u, e) \in T
  <2> DEFINE t == Append(u, e)
             n == Len(u)
             p == P(u)
             q == P(t)
  <2>1. /\ n \in Nat /\ DOMAIN u = 1..n /\ t \in Seq(S) /\ Len(t) = n + 1
        /\ t[n + 1] = e /\ \A k \in 1..n : t[k] = u[k]
    BY LenProperties, AppendProperties
  <2>2. DOMAIN t = 1..(n + 1)
    BY <2>1, LenProperties
  <2>3. \A k \in 1..n : k \in p <=> k \in q
    <3> HIDE DEF t, n
    <3> QED
      BY <2>1, <2>2
  <2>4. n + 1 \in q <=> e \notin ToSet(u)
    <3> HIDE DEF t, n
    <3> QED
      BY <2>1, <2>2 DEF ToSet
  <2>5. /\ Picked(u, p) \in Seq(S)
        /\ Picked(t, q) = IF n + 1 \in q THEN Append(Picked(u, p), e) ELSE Picked(u, p)
    <3> HIDE DEF p, q
    <3> QED
      BY <2>3, PickedAppend
  <2>6. WithoutRepeats(u) = Picked(u, p) /\ WithoutRepeats(t) = Picked(t, q)
    BY DEF WithoutRepeats
  <2> HIDE DEF t, n, p, q
  <2>7. ToSet(t) = ToSet(u) \union {e}
    BY Elements DEF t
  <2> DEFINE w == Picked(u, p)
             wt == Picked(t, q)
  <2>8. w \in Seq(S) /\ ToSet(w) = ToSet(u)
    BY <1>2, <2>6
  <2>9. wt \in Seq(S) /\ ToSet(wt) = ToSet(t)
    <3>1. wt = IF n + 1 \in q THEN Append(w, e) ELSE w
      BY <2>5
    <3> HIDE DEF w, wt
    <3>2. ToSet(Append(w, e)) = ToSet(w) \union {e} /\ Append(w, e) \in Seq(S)
      BY <2>8, Elements, AppendProperties
    <3>3. e \in ToSet(u) => ToSet(u) \union {e} = ToSet(u)
      OBVIOUS
    <3> QED
      BY <2>4, <2>7, <2>8, <3>1, <3>2, <3>3
  <2> QED
    BY <2>1, <2>6, <2>9 DEF t
<1> HIDE DEF T
<1>3. s \in T
  BY <1>1, <1>2, ListInduction
<1> QED
  BY <1>3 DEF T

LEMMA SystemIdsTyped == SystemRequestIds \in Seq(AnyText)
<1>1. SystemRequestIds \in Seq({"cubeuniquename", "cubechannelid", "cubeaccountid", "cubelanguagetype",
                               "cubemessageid"})
  BY DEF SystemRequestIds
<1>2. SystemRequestIds \in Seq(ToSet(SystemRequestIds))
  BY <1>1, OwnElements
<1>3. ToSet(SystemRequestIds) \subseteq AnyText
  BY DEF AnyText
<1> HIDE DEF SystemRequestIds
<1> QED
  BY <1>2, <1>3

(***************************************************************************)
(* add_container: the rows of the blocks, and the ids they and Cube need.  *)
(***************************************************************************)
LEMMA ContainerTyped ==
    ASSUME NEW blocks \in Seq(AnyBlock), NEW callback \in BOOLEAN
    PROVE  LET content == AddContainer(blocks, callback)
           IN /\ content \in AnyContent
              /\ content.rows = BlockRows(blocks)
              /\ ToSet(content.requestid)
                    = (UNION {ToSet(block.requestid) : block \in ToSet(blocks)}) \union ToSet(SystemRequestIds)
<1> DEFINE mandatoryOf == [block \in AnyBlock |-> block.mandatory]
           requestidOf == [block \in AnyBlock |-> block.requestid]
           content == AddContainer(blocks, callback)
           n == Len(blocks)
<1>1. n \in Nat /\ DOMAIN blocks = 1..n /\ \A b \in DOMAIN blocks : blocks[b] \in AnyBlock
  BY LenProperties, ElementOfSeq
<1>2. /\ mandatoryOf \in [AnyBlock -> Seq(AnyText)]
      /\ requestidOf \in [AnyBlock -> Seq(AnyText)]
      /\ RowsOf \in [AnyBlock -> Seq(Row)]
  BY RowFunctions DEF AnyBlock
<1>3. /\ [b \in DOMAIN blocks |-> blocks[b].rows] = Mapped(blocks, RowsOf)
      /\ [b \in DOMAIN blocks |-> blocks[b].mandatory] = Mapped(blocks, mandatoryOf)
      /\ [b \in DOMAIN blocks |-> blocks[b].requestid] = Mapped(blocks, requestidOf)
  BY <1>1 DEF Mapped, RowsOf
<1> HIDE DEF mandatoryOf, requestidOf
<1> DEFINE rows == Mapped(blocks, RowsOf)
           mandatory == Mapped(blocks, mandatoryOf)
           requestid == Mapped(blocks, requestidOf)
<1>4. rows \in Seq(Seq(Row)) /\ mandatory \in Seq(Seq(AnyText)) /\ requestid \in Seq(Seq(AnyText))
  <2>1. \A b \in 1..n : RowsOf[blocks[b]] \in Seq(Row)
    BY <1>1, <1>2
  <2>2. \A b \in 1..n : mandatoryOf[blocks[b]] \in Seq(AnyText) /\ requestidOf[blocks[b]] \in Seq(AnyText)
    BY <1>1, <1>2
  <2>3. /\ rows = [b \in 1..n |-> RowsOf[blocks[b]]]
        /\ mandatory = [b \in 1..n |-> mandatoryOf[blocks[b]]]
        /\ requestid = [b \in 1..n |-> requestidOf[blocks[b]]]
    BY <1>1 DEF Mapped
  <2> QED
    BY <1>1, <2>1, <2>2, <2>3
<1>5. content = [rows |-> FlattenSeq(rows),
                 bodystyle |-> IF \E b \in DOMAIN blocks : blocks[b].bodystyle = "grid" THEN "grid" ELSE None,
                 callback |-> callback,
                 mandatory |-> FlattenSeq(mandatory),
                 requestid |-> WithoutRepeats(FlattenSeq(requestid) \o SystemRequestIds)]
  BY <1>3 DEF AddContainer
<1> HIDE DEF rows, mandatory, requestid
<1> DEFINE wanted == FlattenSeq(requestid)
           ids == wanted \o SystemRequestIds
<1>6. FlattenSeq(rows) \in Seq(Row) /\ FlattenSeq(mandatory) \in Seq(AnyText) /\ wanted \in Seq(AnyText)
  BY <1>4, FlattenTyped
<1>7. ids \in Seq(AnyText) /\ ToSet(ids) = ToSet(wanted) \union ToSet(SystemRequestIds)
  <2> HIDE DEF wanted
  <2> QED
    BY <1>6, SystemIdsTyped, ConcatProperties, Elements
<1>8. WithoutRepeats(ids) \in Seq(AnyText) /\ ToSet(WithoutRepeats(ids)) = ToSet(ids)
  <2> HIDE DEF ids
  <2> QED
    BY <1>7, WithoutRepeatsElements
<1>9. ToSet(wanted) = UNION {ToSet(block.requestid) : block \in ToSet(blocks)}
  <2>1. ToSet(wanted) = UNION {ToSet(x) : x \in ToSet(requestid)}
    BY <1>4, FlattenElements
  <2>2. ToSet(requestid) = {requestidOf[block] : block \in ToSet(blocks)}
    BY MappedElements DEF requestid
  <2>3. \A block \in ToSet(blocks) : block \in AnyBlock
    BY <1>1 DEF ToSet
  <2>4. \A block \in ToSet(blocks) : requestidOf[block] = block.requestid
    BY <2>3 DEF requestidOf
  <2> HIDE DEF wanted
  <2> QED
    BY <2>1, <2>2, <2>4
<1> HIDE DEF wanted, ids
<1>10. content \in AnyContent
  <2> DEFINE style == IF \E b \in DOMAIN blocks : blocks[b].bodystyle = "grid" THEN "grid" ELSE None
             r == FlattenSeq(rows)
             m == FlattenSeq(mandatory)
             q == WithoutRepeats(ids)
  <2>1. style \in {None, "grid"}
    OBVIOUS
  <2>2. content = [rows |-> r, bodystyle |-> style, callback |-> callback, mandatory |-> m, requestid |-> q]
    BY <1>5 DEF ids, wanted
  <2>3. r \in Seq(Row) /\ m \in Seq(AnyText) /\ q \in Seq(AnyText)
    BY <1>6, <1>8
  <2> HIDE DEF style, r, m, q, content
  <2> QED
    BY <2>1, <2>2, <2>3 DEF AnyContent
<1>11. content.rows = BlockRows(blocks)
  BY <1>5 DEF BlockRows, rows
<1>12. content.requestid = WithoutRepeats(ids)
  BY <1>5 DEF ids, wanted
<1> HIDE DEF content
<1>13. ToSet(content.requestid)
          = (UNION {ToSet(block.requestid) : block \in ToSet(blocks)}) \union ToSet(SystemRequestIds)
  BY <1>7, <1>8, <1>9, <1>12
<1> QED
  BY <1>10, <1>11, <1>13 DEF content

(***************************************************************************)
(* _send_structured_intent_group: a form with the rows of the blocks.      *)
(***************************************************************************)
LEMMA SentAppend ==
    ASSUME NEW sent \in Seq(Part), NEW part \in Part
    PROVE  /\ SentRows(sent) \in Seq(Row)
           /\ SentRows(Append(sent, part)) = SentRows(sent) \o Shown(part)
<1>1. ShownBy \in Maps(Part, Seq(Row))
  BY RowFunctions DEF Maps
<1>2. /\ FlattenSeq(Mapped(sent, ShownBy)) \in Seq(Row)
      /\ FlattenSeq(Mapped(Append(sent, part), ShownBy)) = FlattenSeq(Mapped(sent, ShownBy)) \o ShownBy[part]
  BY <1>1, FlattenMapped
<1>3. ShownBy[part] = Shown(part)
  BY DEF ShownBy
<1> QED
  BY <1>2, <1>3 DEF SentRows

LEMMA BlocksSent ==
    ASSUME NEW sent \in Seq(Part), NEW blocks \in Seq(AnyBlock)
    PROVE  /\ BlockRows(blocks) \in Seq(Row)
           /\ blocks = <<>> => BlockRows(blocks) = <<>>
           /\ SendBlocks(sent, blocks) \in Seq(Part)
           /\ SentRows(SendBlocks(sent, blocks)) = SentRows(sent) \o BlockRows(blocks)
           /\ blocks # <<>> => Notification(blocks) \in Part /\ Notification(blocks).kind = "form"
<1> DEFINE callback == \E b \in DOMAIN blocks : blocks[b].requestid # <<>>
           content == AddContainer(blocks, callback)
           part == Notification(blocks)
<1>1. content \in AnyContent /\ content.rows = BlockRows(blocks)
  <2>1. callback \in BOOLEAN
    OBVIOUS
  <2> HIDE DEF callback
  <2> QED
    BY <2>1, ContainerTyped
<1>2. part \in Part /\ Shown(part) = BlockRows(blocks) /\ part.kind = "form"
  <2>1. part = [kind |-> "form", content |-> content]
    BY DEF Notification
  <2> HIDE DEF content, part
  <2> QED
    BY <1>1, <2>1 DEF Part, Shown
<1>3. BlockRows(blocks) \in Seq(Row)
  <2> HIDE DEF content
  <2> QED
    BY <1>1 DEF AnyContent
<1>4. SentRows(sent) \in Seq(Row) /\ SentRows(Append(sent, part)) = SentRows(sent) \o BlockRows(blocks)
  <2> HIDE DEF part
  <2> QED
    BY <1>2, SentAppend
<1>5. blocks = <<>> => BlockRows(blocks) = <<>>
  BY MappedNone, FlattenNone DEF BlockRows
<1>6. SentRows(sent) \o <<>> = SentRows(sent)
  BY <1>4, ConcatEmptySeq
<1>7. SendBlocks(sent, blocks) = IF blocks = <<>> THEN sent ELSE Append(sent, part)
  BY DEF SendBlocks
<1>8. Append(sent, part) \in Seq(Part)
  <2> HIDE DEF part
  <2> QED
    BY <1>2, AppendProperties
<1> HIDE DEF part, content
<1>9. SendBlocks(sent, blocks) \in Seq(Part)
  BY <1>7, <1>8
<1>10. SentRows(SendBlocks(sent, blocks)) = SentRows(sent) \o BlockRows(blocks)
  BY <1>4, <1>5, <1>6, <1>7
<1> QED
  BY <1>2, <1>3, <1>5, <1>9, <1>10 DEF part

(***************************************************************************)
(* _send_text_intent_group: a message with the texts that are not blank.   *)
(***************************************************************************)
LEMMA TextsSent ==
    ASSUME NEW sent \in Seq(Part), NEW texts \in Seq(AnyText)
    PROVE  /\ TextRows(texts) \in Seq(Row)
           /\ texts = <<>> => TextRows(texts) = <<>>
           /\ SendTexts(sent, texts) \in Seq(Part)
           /\ SentRows(SendTexts(sent, texts)) = SentRows(sent) \o TextRows(texts)
           /\ texts = <<>> => SendTexts(sent, texts) = sent
           /\ texts # <<>> /\ texts \in Seq(NonBlank) =>
                 SendTexts(sent, texts) = Append(sent, [kind |-> "text", content |-> texts])
<1> DEFINE kept == Those(texts, NonBlank)
           part == [kind |-> "text", content |-> kept]
<1>1. kept \in Seq(AnyText)
  BY ThoseTyped
<1>2. Only(texts, LAMBDA text : text # "") = kept
  <2>1. \A i \in DOMAIN texts : texts[i] \in AnyText
    BY LenProperties, ElementOfSeq
  <2>2. {i \in DOMAIN texts : texts[i] # ""} = {i \in DOMAIN texts : texts[i] \in NonBlank}
    BY <2>1 DEF NonBlank
  <2> QED
    BY <2>2 DEF Only, Those
<1>3. SendTexts(sent, texts) = IF kept = <<>> THEN sent ELSE Append(sent, part)
  BY <1>2 DEF SendTexts
<1>4. part \in Part
  <2> HIDE DEF kept
  <2> QED
    BY <1>1 DEF Part
<1>5. Mapped(kept, TextRow) \in Seq(Row) /\ Shown(part) = Mapped(kept, TextRow)
  <2> HIDE DEF kept
  <2>1. Len(kept) \in Nat /\ DOMAIN kept = 1..Len(kept) /\ \A i \in 1..Len(kept) : kept[i] \in AnyText
    BY <1>1, LenProperties, ElementOfSeq
  <2>2. \A i \in 1..Len(kept) : TextRow[kept[i]] = AddText(kept[i]).rows[1] /\ TextRow[kept[i]] \in Row
    BY <2>1, RowFunctions DEF TextRow
  <2>3. Shown(part) = [i \in DOMAIN kept |-> AddText(kept[i]).rows[1]]
    BY DEF Shown
  <2>4. Mapped(kept, TextRow) = [i \in 1..Len(kept) |-> TextRow[kept[i]]]
    BY <2>1 DEF Mapped
  <2>5. Mapped(kept, TextRow) \in Seq(Row)
    BY <2>1, <2>2, <2>4
  <2>6. Shown(part) = [i \in 1..Len(kept) |-> AddText(kept[i]).rows[1]]
    BY <2>1, <2>3
  <2>7. Shown(part) = Mapped(kept, TextRow)
    BY <2>2, <2>4, <2>6
  <2> QED
    BY <2>5, <2>7
<1>6. TextRows(texts) = Mapped(kept, TextRow)
  BY DEF TextRows
<1>7. SentRows(sent) \in Seq(Row) /\ SentRows(Append(sent, part)) = SentRows(sent) \o TextRows(texts)
  <2>1. part \in Part /\ Shown(part) = TextRows(texts)
    BY <1>4, <1>5, <1>6
  <2> HIDE DEF part
  <2> QED
    BY <2>1, SentAppend
<1>8. kept = <<>> => TextRows(texts) = <<>>
  BY <1>6, MappedNone
<1>9. SentRows(sent) \o <<>> = SentRows(sent)
  BY <1>7, ConcatEmptySeq
<1>10. Append(sent, part) \in Seq(Part)
  <2> HIDE DEF part
  <2> QED
    BY <1>4, AppendProperties
<1>11. texts = <<>> => kept = <<>>
  BY ThoseNone
<1>12. texts \in Seq(NonBlank) => kept = texts
  BY ThoseAll
<1> HIDE DEF kept
<1>13. texts # <<>> /\ texts \in Seq(NonBlank) =>
          SendTexts(sent, texts) = Append(sent, [kind |-> "text", content |-> texts])
  BY <1>3, <1>12
<1> HIDE DEF part
<1>14. SendTexts(sent, texts) \in Seq(Part)
  BY <1>3, <1>10
<1>15. SentRows(SendTexts(sent, texts)) = SentRows(sent) \o TextRows(texts)
  BY <1>3, <1>7, <1>8, <1>9
<1> QED
  BY <1>3, <1>5, <1>6, <1>8, <1>11, <1>13, <1>14, <1>15

----------------------------------------------------------------------------
(* The loop over the blocks of a reply.                                    *)

Pending == [sent : Seq(Part), texts : Seq(AnyText), blocks : Seq(AnyBlock)]

Nothing == [sent |-> <<>>, texts |-> <<>>, blocks |-> <<>>]

(***************************************************************************)
(* A text has the row of its text, unless it is blank.                     *)
(***************************************************************************)
LEMMA TextMeant ==
    ASSUME NEW intent \in Intent, intent.kind = "text"
    PROVE  /\ intent.text \in AnyText
           /\ intent = TextIntent("") <=> intent.text = ""
           /\ Meant(intent) = IF intent.text = "" THEN <<>> ELSE <<TextRow[intent.text]>>
<1>1. intent \in [kind : {"text", "image"}, text : AnyText]
  BY DEF Intent
<1>2. intent.text \in AnyText /\ intent = [kind |-> "text", text |-> intent.text]
  BY <1>1
<1>3. intent = TextIntent("") <=> intent.text = ""
  <2>1. TextIntent("").text = ""
    BY DEF TextIntent
  <2>2. intent.text = "" => intent = TextIntent("")
    BY <1>2 DEF TextIntent
  <2> QED
    BY <2>1, <2>2
<1>4. AddText(intent.text).rows = <<TextRow[intent.text]>>
  <2>1. AddText(intent.text).rows = <<<<LabelCell(intent.text)>>>>
    BY DEF AddText, AddRow, BlockOf
  <2> DEFINE row == <<LabelCell(intent.text)>>
  <2>2. TextRow[intent.text] = AddText(intent.text).rows[1]
    BY <1>2 DEF TextRow
  <2>3. AddText(intent.text).rows = <<row>>
    BY <2>1
  <2> HIDE DEF row
  <2> QED
    BY <2>2, <2>3
<1>5. IntentToBlock(intent) = AddText(intent.text)
  BY DEF IntentToBlock
<1> QED
  BY <1>2, <1>3, <1>4, <1>5 DEF Meant

LEMMA BlockMeant ==
    ASSUME NEW intent \in Intent, intent.kind # "text"
    PROVE  intent # TextIntent("") /\ Meant(intent) = IntentToBlock(intent).rows
<1>1. intent # TextIntent("")
  <2>1. TextIntent("").kind = "text"
    BY DEF TextIntent
  <2> QED
    BY <2>1
<1> QED
  BY <1>1 DEF Meant

LEMMA TakeIntentTyped ==
    ASSUME NEW acc \in Pending, NEW x \in Intent
    PROVE  TakeIntent(acc, x) \in Pending
<1>1. acc.sent \in Seq(Part) /\ acc.texts \in Seq(AnyText) /\ acc.blocks \in Seq(AnyBlock)
  BY DEF Pending
<1> DEFINE sb == SendBlocks(acc.sent, acc.blocks)
           st == SendTexts(acc.sent, acc.texts)
           block == IntentToBlock(x)
<1>2. sb \in Seq(Part) /\ st \in Seq(Part) /\ block \in AnyBlock
  BY <1>1, BlocksSent, TextsSent, BlockTyped
<1>3. <<>> \in Seq(AnyText) /\ <<>> \in Seq(AnyBlock)
  BY EmptySeq
<1>4. TakeIntent(acc, x)
         = IF x.kind = "text" THEN [sent |-> sb, blocks |-> <<>>, texts |-> Append(acc.texts, x.text)]
           ELSE [sent |-> st, texts |-> <<>>, blocks |-> Append(acc.blocks, block)]
  BY DEF TakeIntent
<1>5. x.kind = "text" => Append(acc.texts, x.text) \in Seq(AnyText)
  BY <1>1, TextMeant, AppendProperties
<1> HIDE DEF sb, st, block
<1>6. Append(acc.blocks, block) \in Seq(AnyBlock)
  BY <1>1, <1>2, AppendProperties
<1> QED
  BY <1>2, <1>3, <1>4, <1>5, <1>6 DEF Pending

\* What was sent and what waits show what the blocks so far mean; nothing
\* but texts, or nothing but other blocks, waits.
InOrder(acc, pre) ==
    /\ SentRows(acc.sent) \o (TextRows(acc.texts) \o BlockRows(acc.blocks)) = FlattenSeq(Mapped(pre, MeantBy))
    /\ acc.texts = <<>> \/ acc.blocks = <<>>

LEMMA SentTyped ==
    ASSUME NEW sent \in Seq(Part)
    PROVE  SentRows(sent) \in Seq(Row)
<1>1. ShownBy \in Maps(Part, Seq(Row))
  BY RowFunctions DEF Maps
<1>2. Mapped(sent, ShownBy) \in Seq(Seq(Row))
  <2>1. CASE sent = <<>>
    BY <2>1, MappedNone, EmptySeq
  <2>2. CASE sent # <<>>
    <3>1. Last(sent) \in Part
      BY <2>2, Ends
    <3> QED
      BY <1>1, <3>1, MappedAppend
  <2> QED
    BY <2>1, <2>2
<1> QED
  BY <1>2, FlattenTyped DEF SentRows

LEMMA MeantAppend ==
    ASSUME NEW pre \in Seq(Intent), NEW intent \in Intent
    PROVE  /\ FlattenSeq(Mapped(pre, MeantBy)) \in Seq(Row)
           /\ Meant(intent) \in Seq(Row)
           /\ FlattenSeq(Mapped(Append(pre, intent), MeantBy)) = FlattenSeq(Mapped(pre, MeantBy)) \o Meant(intent)
<1>1. MeantBy \in Maps(Intent, Seq(Row))
  BY RowFunctions DEF Maps
<1>2. /\ FlattenSeq(Mapped(pre, MeantBy)) \in Seq(Row)
      /\ FlattenSeq(Mapped(Append(pre, intent), MeantBy)) = FlattenSeq(Mapped(pre, MeantBy)) \o MeantBy[intent]
  BY <1>1, FlattenMapped
<1>3. MeantBy[intent] = Meant(intent) /\ MeantBy[intent] \in Seq(Row)
  BY RowFunctions DEF MeantBy
<1> QED
  BY <1>2, <1>3

LEMMA BlockRowsAppend ==
    ASSUME NEW blocks \in Seq(AnyBlock), NEW block \in AnyBlock
    PROVE  BlockRows(Append(blocks, block)) = BlockRows(blocks) \o block.rows
<1>1. RowsOf \in Maps(AnyBlock, Seq(Row))
  BY RowFunctions DEF Maps
<1>2. FlattenSeq(Mapped(Append(blocks, block), RowsOf)) = FlattenSeq(Mapped(blocks, RowsOf)) \o RowsOf[block]
  BY <1>1, FlattenMapped
<1>3. RowsOf[block] = block.rows
  BY DEF RowsOf
<1> QED
  BY <1>2, <1>3 DEF BlockRows

LEMMA TextRowsAppend ==
    ASSUME NEW texts \in Seq(AnyText), NEW intent \in Intent, intent.kind = "text"
    PROVE  TextRows(Append(texts, intent.text)) = TextRows(texts) \o Meant(intent)
<1> DEFINE kept == Those(texts, NonBlank)
           text == intent.text
           rows == Mapped(kept, TextRow)
<1>1. text \in AnyText /\ Meant(intent) = IF text = "" THEN <<>> ELSE <<TextRow[text]>>
  BY TextMeant
<1>2. kept \in Seq(AnyText)
  BY ThoseTyped
<1>3. TextRow \in Maps(AnyText, Row)
  BY RowFunctions DEF Maps
<1>3a. text \in AnyText /\ TextRow[text] \in Row
  BY <1>1, RowFunctions
<1>4. rows \in Seq(Row) /\ Mapped(Append(kept, text), TextRow) = Append(rows, TextRow[text])
  <2> HIDE DEF kept, text
  <2> QED
    BY <1>2, <1>3, <1>3a, MappedAppend
<1>5. Those(Append(texts, text), NonBlank) = IF text \in NonBlank THEN Append(kept, text) ELSE kept
  <2> HIDE DEF text
  <2> QED
    BY <1>3a, ThoseAppend
<1>6. text \in NonBlank <=> text # ""
  BY <1>1 DEF NonBlank
<1> DEFINE row == TextRow[text]
<1>7. rows \o <<>> = rows /\ rows \o <<row>> = Append(rows, row)
  <2>1. rows \in Seq(Row) /\ row \in Row
    BY <1>3a, <1>4
  <2> HIDE DEF rows, row
  <2> QED
    BY <2>1, ConcatEmptySeq, AppendIsConcat
<1>8. TextRows(texts) = rows
  BY DEF TextRows
<1>9. TextRows(Append(texts, text)) = IF text = "" THEN rows ELSE Append(rows, row)
  BY <1>4, <1>5, <1>6 DEF TextRows
<1>10. Meant(intent) = IF text = "" THEN <<>> ELSE <<row>>
  BY <1>1
<1> HIDE DEF rows, row, text, kept
<1>11. TextRows(Append(texts, text)) = rows \o Meant(intent)
  BY <1>7, <1>9, <1>10
<1> QED
  BY <1>8, <1>11 DEF text

(***************************************************************************)
(* Every block keeps the order.                                            *)
(***************************************************************************)
LEMMA OrderKept ==
    ASSUME NEW acc \in Pending, NEW pre \in Seq(Intent), NEW x \in Intent, InOrder(acc, pre)
    PROVE  InOrder(TakeIntent(acc, x), Append(pre, x))
<1> DEFINE sent == acc.sent
           texts == acc.texts
           blocks == acc.blocks
           sb == SendBlocks(sent, blocks)
           st == SendTexts(sent, texts)
           block == IntentToBlock(x)
           S == SentRows(sent)
           TR == TextRows(texts)
           BR == BlockRows(blocks)
           M == Meant(x)
           P == FlattenSeq(Mapped(pre, MeantBy))
           Q == FlattenSeq(Mapped(Append(pre, x), MeantBy))
<1>1. sent \in Seq(Part) /\ texts \in Seq(AnyText) /\ blocks \in Seq(AnyBlock)
  BY DEF Pending
<1>2. /\ TR \in Seq(Row) /\ BR \in Seq(Row)
      /\ texts = <<>> => TR = <<>>
      /\ blocks = <<>> => BR = <<>>
      /\ SentRows(sb) = S \o BR /\ SentRows(st) = S \o TR
  <2> HIDE DEF sent, texts, blocks
  <2> QED
    BY <1>1, BlocksSent, TextsSent
<1>3. M \in Seq(Row) /\ P \in Seq(Row) /\ Q = P \o M
  BY MeantAppend
<1>4. S \in Seq(Row)
  BY <1>1, SentTyped
<1>5. S \o (TR \o BR) = P /\ (texts = <<>> \/ blocks = <<>>)
  BY DEF InOrder
<1>6. TakeIntent(acc, x)
         = IF x.kind = "text" THEN [sent |-> sb, blocks |-> <<>>, texts |-> Append(texts, x.text)]
           ELSE [sent |-> st, texts |-> <<>>, blocks |-> Append(blocks, block)]
  BY DEF TakeIntent
<1>7. TextRows(<<>>) = <<>> /\ BlockRows(<<>>) = <<>>
  BY ThoseNone, MappedNone, FlattenNone DEF TextRows, BlockRows
<1>8. CASE x.kind = "text"
  <2> DEFINE more == Append(texts, x.text)
  <2>1. TextRows(more) = TR \o M
    <3> HIDE DEF texts, M
    <3> QED
      BY <1>1, <1>8, TextRowsAppend DEF M
  <2> HIDE DEF sb, more, sent, texts, blocks
  <2>2. /\ TakeIntent(acc, x).sent = sb /\ TakeIntent(acc, x).blocks = <<>>
        /\ TakeIntent(acc, x).texts = more
    BY <1>6, <1>8 DEF more, texts
  <2> HIDE DEF S, TR, BR, M, P, Q
  <2>3. (S \o BR) \o ((TR \o M) \o <<>>) = Q
    <3>1. (TR \o M) \o <<>> = TR \o M
      BY <1>2, <1>3, ConcatProperties, ConcatEmptySeq
    <3>2. S \o (TR \o BR) = (S \o BR) \o TR
      <4>1. CASE texts = <<>>
        <5>1. TR \o BR = BR /\ (S \o BR) \o TR = S \o BR
          BY <1>2, <1>4, <4>1, ConcatProperties, ConcatEmptySeq
        <5> QED
          BY <5>1
      <4>2. CASE blocks = <<>>
        <5>1. TR \o BR = TR /\ S \o BR = S
          BY <1>2, <1>4, <4>2, ConcatEmptySeq
        <5> QED
          BY <5>1
      <4> QED
        BY <1>5, <4>1, <4>2
    <3> DEFINE SB == S \o BR
    <3>3. SB \in Seq(Row) /\ P = SB \o TR
      BY <1>2, <1>4, <1>5, <3>2, ConcatProperties
    <3> HIDE DEF SB
    <3>4. (SB \o TR) \o M = SB \o (TR \o M)
      BY <1>2, <1>3, <3>3, ConcatAssociative, SMTT(30)
    <3>5. SB \o ((TR \o M) \o <<>>) = Q
      BY <1>3, <3>1, <3>3, <3>4, Zenon
    <3> QED
      BY <3>5 DEF SB
  <2> QED
    BY <1>2, <1>7, <2>1, <2>2, <2>3 DEF InOrder, Q
<1>9. CASE x.kind # "text"
  <2> DEFINE more == Append(blocks, block)
  <2>1. BlockRows(more) = BR \o M
    <3>1. block \in AnyBlock /\ M = block.rows
      BY <1>9, BlockTyped, BlockMeant
    <3> HIDE DEF blocks, block, M
    <3> QED
      BY <1>1, <3>1, BlockRowsAppend
  <2> HIDE DEF st, more, sent, texts, blocks
  <2>2. /\ TakeIntent(acc, x).sent = st /\ TakeIntent(acc, x).texts = <<>>
        /\ TakeIntent(acc, x).blocks = more
    BY <1>6, <1>9 DEF more, blocks
  <2> HIDE DEF S, TR, BR, M, P, Q
  <2>3. (S \o TR) \o (<<>> \o (BR \o M)) = Q
    <3>1. <<>> \o (BR \o M) = BR \o M
      BY <1>2, <1>3, ConcatProperties, ConcatEmptySeq
    <3>2. S \o (TR \o BR) = (S \o TR) \o BR
      BY <1>2, <1>4, ConcatAssociative, SMTT(30)
    <3> DEFINE ST == S \o TR
    <3>3. ST \in Seq(Row) /\ P = ST \o BR
      BY <1>2, <1>4, <1>5, <3>2, ConcatProperties
    <3> HIDE DEF ST
    <3>4. (ST \o BR) \o M = ST \o (BR \o M)
      <4>1. ST \in Seq(Row) /\ BR \in Seq(Row) /\ M \in Seq(Row)
        BY <1>2, <1>3, <3>3
      <4> QED
        BY <4>1, ConcatAssociative, SMTT(30)
    <3> QED
      BY <1>3, <3>1, <3>3, <3>4 DEF ST
  <2> QED
    BY <1>2, <1>7, <2>1, <2>2, <2>3 DEF InOrder, Q
<1> QED
  BY <1>8, <1>9

----------------------------------------------------------------------------
(* Texts and notifications alternate.                                      *)

Alternates(sent) == \A i \in 1..(Len(sent) - 1) : sent[i].kind # sent[i + 1].kind

EndsOther(sent, kind) == sent = <<>> \/ sent[Len(sent)].kind # kind

\* There is a blank text among the blocks.
HasBlank(pre) == TextIntent("") \in ToSet(pre)

\* Without blank texts, what waits is of the other kind than what was sent last.
Apart(acc, pre) ==
    ~HasBlank(pre) =>
        /\ acc.texts \in Seq(NonBlank)
        /\ Alternates(acc.sent)
        /\ acc.texts = <<>> \/ acc.blocks = <<>>
        /\ acc.texts # <<>> => EndsOther(acc.sent, "text")
        /\ acc.blocks # <<>> => EndsOther(acc.sent, "form")
        /\ acc.texts = <<>> /\ acc.blocks = <<>> => acc.sent = <<>>

LEMMA AlternatesAppend ==
    ASSUME NEW sent \in Seq(Part), NEW part \in Part, Alternates(sent), EndsOther(sent, part.kind)
    PROVE  /\ Alternates(Append(sent, part))
           /\ \A kind : kind # part.kind => EndsOther(Append(sent, part), kind)
<1> DEFINE n == Len(sent)
           t == Append(sent, part)
<1>1. /\ n \in Nat /\ t \in Seq(Part) /\ Len(t) = n + 1 /\ t[n + 1] = part
      /\ \A k \in 1..n : t[k] = sent[k]
  BY LenProperties, AppendProperties
<1>2. sent = <<>> <=> n = 0
  BY EmptySeq
<1>3. sent # <<>> => sent[n].kind # part.kind
  BY DEF EndsOther
<1>4. \A i \in 1..(n - 1) : sent[i].kind # sent[i + 1].kind
  BY DEF Alternates
<1> HIDE DEF n, t
<1>5. ASSUME NEW i \in 1..n PROVE t[i].kind # t[i + 1].kind
  <2>1. CASE i = n
    <3>1. t[i] = sent[n] /\ t[i + 1] = part /\ sent # <<>>
      BY <1>1, <1>2, <2>1
    <3> QED
      BY <1>3, <3>1
  <2>2. CASE i # n
    <3>1. i \in 1..(n - 1) /\ i + 1 \in 1..n
      BY <1>1, <2>2
    <3>2. t[i] = sent[i] /\ t[i + 1] = sent[i + 1]
      BY <1>1, <3>1
    <3> QED
      BY <1>4, <3>1, <3>2
  <2> QED
    BY <2>1, <2>2
<1>6. Len(t) - 1 = n
  BY <1>1
<1>7. Alternates(t)
  BY <1>5, <1>6 DEF Alternates
<1>8. \A kind : kind # part.kind => EndsOther(t, kind)
  BY <1>1 DEF EndsOther
<1> QED
  BY <1>7, <1>8 DEF t

(***************************************************************************)
(* Every block keeps them apart.                                           *)
(***************************************************************************)
LEMMA KeptApart ==
    ASSUME NEW acc \in Pending, NEW pre \in Seq(Intent), NEW x \in Intent, Apart(acc, pre)
    PROVE  Apart(TakeIntent(acc, x), Append(pre, x))
<1> SUFFICES ASSUME ~HasBlank(Append(pre, x))
             PROVE  LET next == TakeIntent(acc, x)
                    IN /\ next.texts \in Seq(NonBlank)
                       /\ Alternates(next.sent)
                       /\ next.texts = <<>> \/ next.blocks = <<>>
                       /\ next.texts # <<>> => EndsOther(next.sent, "text")
                       /\ next.blocks # <<>> => EndsOther(next.sent, "form")
                       /\ next.texts = <<>> /\ next.blocks = <<>> => next.sent = <<>>
  BY DEF Apart
<1> DEFINE sent == acc.sent
           texts == acc.texts
           blocks == acc.blocks
           sb == SendBlocks(sent, blocks)
           st == SendTexts(sent, texts)
           block == IntentToBlock(x)
           form == Notification(blocks)
           message == [kind |-> "text", content |-> texts]
<1>1. sent \in Seq(Part) /\ texts \in Seq(AnyText) /\ blocks \in Seq(AnyBlock)
  BY DEF Pending
<1>2. ~HasBlank(pre) /\ (x.kind = "text" => x.text # "")
  <2>1. ToSet(Append(pre, x)) = ToSet(pre) \union {x}
    BY Elements
  <2>2. ~HasBlank(pre) /\ x # TextIntent("")
    BY <2>1 DEF HasBlank
  <2> QED
    BY <2>2, TextMeant
<1>3. /\ texts \in Seq(NonBlank)
      /\ Alternates(sent)
      /\ texts = <<>> \/ blocks = <<>>
      /\ texts # <<>> => EndsOther(sent, "text")
      /\ blocks # <<>> => EndsOther(sent, "form")
      /\ texts = <<>> /\ blocks = <<>> => sent = <<>>
  BY <1>2 DEF Apart
<1>4. TakeIntent(acc, x)
         = IF x.kind = "text" THEN [sent |-> sb, blocks |-> <<>>, texts |-> Append(texts, x.text)]
           ELSE [sent |-> st, texts |-> <<>>, blocks |-> Append(blocks, block)]
  BY DEF TakeIntent
<1>5. /\ sb = IF blocks = <<>> THEN sent ELSE Append(sent, form)
      /\ blocks # <<>> => form \in Part /\ form.kind = "form"
  <2>1. sb = IF blocks = <<>> THEN sent ELSE Append(sent, form)
    BY DEF SendBlocks
  <2> HIDE DEF sent, blocks, sb
  <2>2. \E s \in Seq(Part) : TRUE
    BY <1>1
  <2> QED
    BY <1>1, <2>1, BlocksSent
<1>6. st = IF texts = <<>> THEN sent ELSE Append(sent, message)
  <2> HIDE DEF sent, texts
  <2> QED
    BY <1>1, <1>3, TextsSent
<1>7. message \in Part /\ message.kind = "text"
  <2> HIDE DEF texts
  <2> QED
    BY <1>1 DEF Part
<1> HIDE DEF sb, st, form, message, sent, texts, blocks, block
<1>8. CASE x.kind = "text"
  <2> DEFINE more == Append(texts, x.text)
  <2>1. x.text \in NonBlank
    <3>1. x.text \in AnyText
      BY <1>8, TextMeant
    <3> QED
      BY <1>2, <1>8, <3>1 DEF NonBlank
  <2>2. more \in Seq(NonBlank) /\ more # <<>>
    <3> DEFINE y == x.text
    <3>1. y \in NonBlank
      BY <2>1
    <3> HIDE DEF y
    <3>2. Append(texts, y) \in Seq(NonBlank) /\ Append(texts, y) # <<>>
      BY <1>3, <3>1, AppendProperties
    <3> QED
      BY <3>2 DEF y
  <2>3. Alternates(sb) /\ EndsOther(sb, "text")
    <3>1. CASE blocks = <<>>
      <4>1. texts = <<>> => EndsOther(sent, "text")
        BY <1>3, <3>1 DEF EndsOther
      <4> QED
        BY <1>3, <1>5, <3>1, <4>1
    <3>2. CASE blocks # <<>>
      <4>1. form \in Part /\ EndsOther(sent, form.kind) /\ "text" # form.kind
        BY <1>3, <1>5, <3>2
      <4>2. Alternates(Append(sent, form)) /\ EndsOther(Append(sent, form), "text")
        BY <1>1, <1>3, <4>1, AlternatesAppend
      <4> QED
        BY <1>5, <3>2, <4>2
    <3> QED
      BY <3>1, <3>2
  <2> HIDE DEF more
  <2>4. /\ TakeIntent(acc, x).sent = sb /\ TakeIntent(acc, x).blocks = <<>>
        /\ TakeIntent(acc, x).texts = more
    BY <1>4, <1>8 DEF more, texts
  <2> QED
    BY <2>2, <2>3, <2>4
<1>9. CASE x.kind # "text"
  <2> DEFINE more == Append(blocks, block)
  <2>1. more # <<>>
    <3>1. block \in AnyBlock
      BY BlockTyped DEF block
    <3>2. Append(blocks, block) \in Seq(AnyBlock) /\ Append(blocks, block) # <<>>
      <4>1. blocks \in Seq(AnyBlock)
        BY <1>1
      <4> QED
        BY <3>1, <4>1, AppendProperties
    <3> QED
      BY <3>2
  <2>2. Alternates(st) /\ EndsOther(st, "form")
    <3>1. CASE texts = <<>>
      <4>1. blocks = <<>> => EndsOther(sent, "form")
        BY <1>3, <3>1 DEF EndsOther
      <4> QED
        BY <1>3, <1>6, <3>1, <4>1
    <3>2. CASE texts # <<>>
      <4>1. message \in Part /\ EndsOther(sent, message.kind) /\ "form" # message.kind
        BY <1>3, <1>7, <3>2
      <4>2. Alternates(Append(sent, message)) /\ EndsOther(Append(sent, message), "form")
        BY <1>1, <1>3, <4>1, AlternatesAppend
      <4> QED
        BY <1>6, <3>2, <4>2
    <3> QED
      BY <3>1, <3>2
  <2>3. <<>> \in Seq(NonBlank)
    BY EmptySeq
  <2> HIDE DEF more
  <2>4. /\ TakeIntent(acc, x).sent = st /\ TakeIntent(acc, x).texts = <<>>
        /\ TakeIntent(acc, x).blocks = more
    BY <1>4, <1>9 DEF more, blocks
  <2> QED
    BY <2>1, <2>2, <2>3, <2>4
<1> QED
  BY <1>8, <1>9

(***************************************************************************)
(* A reply, block by block.                                                *)
(***************************************************************************)
LEMMA TakeIntentLoop ==
    ASSUME NEW s \in Seq(Intent), NEW T, <<Nothing, <<>>>> \in T,
           \A acc \in Pending, pre \in Seq(Intent), x \in Intent :
              <<acc, pre>> \in T => <<TakeIntent(acc, x), Append(pre, x)>> \in T
    PROVE  LET fold == FoldLeft(TakeIntent, Nothing, s) IN fold \in Pending /\ <<fold, s>> \in T
<1> DEFINE n == Len(s)
           Rec(f) == f = [t \in SUBSET (1..n) |->
                             IF t = {} THEN Nothing ELSE TakeIntent(f[t \ {Max(t)}], s[Max(t)])]
           step == [p \in (1..n) \X Pending |-> TakeIntent(p[2], s[p[1]])]
<1>1. n \in Nat /\ DOMAIN s = 1..n /\ \A k \in 1..n : s[k] \in Intent
  BY LenProperties, ElementOfSeq
<1>2. step \in [(1..n) \X Pending -> Pending]
  BY <1>1, TakeIntentTyped
<1>3. Nothing \in Pending
  BY EmptySeq DEF Nothing, Pending
<1>4. FoldLeft(TakeIntent, Nothing, s) = (CHOOSE f : Rec(f))[1..n]
  BY <1>1 DEF FoldLeft, MapThenFoldSet
<1>5. \E f : Rec(f)
  <2>1. PICK h \in [SUBSET (1..n) -> Pending] : Folding(h, n, Nothing, step)
    <3> HIDE DEF step, n
    <3> QED
      BY <1>1, <1>2, <1>3, FoldExists
  <2>2. \A t \in SUBSET (1..n) : h[t] = IF t = {} THEN Nothing ELSE step[<<Max(t), h[t \ {Max(t)}]>>]
    BY <2>1 DEF Folding
  <2>3. ASSUME NEW t \in SUBSET (1..n), t # {}
        PROVE  h[t] = TakeIntent(h[t \ {Max(t)}], s[Max(t)])
    <3>1. Max(t) \in 1..n
      BY <1>1, <2>3, MaxUpTo
    <3>2. h[t \ {Max(t)}] \in Pending
      BY <2>1
    <3>3. h[t] = step[<<Max(t), h[t \ {Max(t)}]>>]
      BY <2>2, <2>3
    <3> QED
      BY <3>1, <3>2, <3>3
  <2> DEFINE f == [t \in SUBSET (1..n) |-> h[t]]
  <2>4. Rec(f)
    <3>1. ASSUME NEW t \in SUBSET (1..n)
          PROVE  h[t] = IF t = {} THEN Nothing ELSE TakeIntent(f[t \ {Max(t)}], s[Max(t)])
      <4>1. CASE t = {}
        BY <2>2, <4>1
      <4>2. CASE t # {}
        <5>1. f[t \ {Max(t)}] = h[t \ {Max(t)}]
          OBVIOUS
        <5> QED
          BY <2>3, <4>2, <5>1
      <4> QED
        BY <4>1, <4>2
    <3> QED
      BY <3>1
  <2> HIDE DEF Rec, f
  <2> QED
    BY <2>4
<1> DEFINE c == CHOOSE f : Rec(f)
<1>6. Rec(c)
  <2> HIDE DEF Rec
  <2> QED
    BY <1>5
<1>7. FoldLeft(TakeIntent, Nothing, s) = c[1..n]
  BY <1>4
<1> HIDE DEF c
<1> DEFINE K == {k \in 0..n : c[1..k] \in Pending /\ <<c[1..k], SubSeq(s, 1, k)>> \in T}
<1>8. 0 \in K
  <2>1. c[1..0] = Nothing
    BY <1>1, <1>6, Intervals
  <2>2. SubSeq(s, 1, 0) = <<>>
    BY FirstElements
  <2> HIDE DEF n
  <2> QED
    BY <1>1, <1>3, <2>1, <2>2
<1>9. ASSUME NEW k \in 1..n, k - 1 \in K PROVE k \in K
  <2>1. 1..k \in SUBSET (1..n) /\ 1..k # {} /\ Max(1..k) = k /\ (1..k) \ {k} = 1..(k - 1)
    BY <1>1, Intervals
  <2> DEFINE acc == c[1..(k - 1)]
             pre == SubSeq(s, 1, k - 1)
             x == s[k]
  <2>2. c[1..k] = TakeIntent(acc, x)
    <3> HIDE DEF n
    <3> QED
      BY <1>6, <2>1
  <2>3. SubSeq(s, 1, k) = Append(pre, x) /\ x \in Intent
    BY FirstElements
  <2>4. pre \in Seq(Intent) /\ k \in 0..n
    <3>1. k - 1 \in 0..n /\ k \in 0..n
      BY <1>1
    <3> QED
      BY <3>1, FirstElements
  <2>5. acc \in Pending /\ <<acc, pre>> \in T
    BY <1>9
  <2> HIDE DEF acc, pre, x, n
  <2>6. TakeIntent(acc, x) \in Pending
    BY <2>3, <2>5, TakeIntentTyped
  <2>7. <<TakeIntent(acc, x), Append(pre, x)>> \in T
    BY <2>3, <2>4, <2>5
  <2> QED
    BY <2>2, <2>3, <2>4, <2>6, <2>7
<1>10. n \in K
  <2>1. n \in 0..n
    BY <1>1
  <2> HIDE DEF K, n
  <2> QED
    BY <1>1, <1>8, <1>9, <2>1, UpTo
<1>11. SubSeq(s, 1, n) = s
  BY FirstElements
<1> QED
  BY <1>7, <1>10, <1>11

(***************************************************************************)
(* What is sent shows what the blocks mean, in order.                      *)
(***************************************************************************)
LEMMA SentInOrder ==
    ASSUME NEW intents \in Seq(Intent)
    PROVE  /\ SendIntentReply(intents) \in Seq(Part)
           /\ SentRows(SendIntentReply(intents)) = FlattenSeq(Mapped(intents, MeantBy))
           /\ ~HasBlank(intents) => Alternates(SendIntentReply(intents))
<1> DEFINE T == {p \in Pending \X Seq(Intent) : InOrder(p[1], p[2]) /\ Apart(p[1], p[2])}
           last == FoldLeft(TakeIntent, Nothing, intents)
<1>1. <<Nothing, <<>>>> \in T
  <2>1. Nothing \in Pending /\ <<>> \in Seq(Intent) /\ <<>> \in Seq(NonBlank) /\ <<>> \in Seq(Row)
    BY EmptySeq DEF Nothing, Pending
  <2>2. SentRows(<<>>) = <<>> /\ TextRows(<<>>) = <<>> /\ BlockRows(<<>>) = <<>> /\ FlattenSeq(Mapped(<<>>, MeantBy)) = <<>>
    BY ThoseNone, MappedNone, FlattenNone DEF SentRows, TextRows, BlockRows
  <2>3. <<>> \o <<>> = <<>>
    BY <2>1, ConcatEmptySeq
  <2>4. Nothing.sent = <<>> /\ Nothing.texts = <<>> /\ Nothing.blocks = <<>>
    BY DEF Nothing
  <2>5. InOrder(Nothing, <<>>)
    BY <2>2, <2>3, <2>4 DEF InOrder
  <2>6. Alternates(<<>>)
    BY EmptySeq DEF Alternates
  <2>7. Apart(Nothing, <<>>)
    BY <2>1, <2>4, <2>6 DEF Apart
  <2> QED
    BY <2>1, <2>5, <2>7
<1>2. \A acc \in Pending, pre \in Seq(Intent), x \in Intent :
         <<acc, pre>> \in T => <<TakeIntent(acc, x), Append(pre, x)>> \in T
  <2> SUFFICES ASSUME NEW acc \in Pending, NEW pre \in Seq(Intent), NEW x \in Intent, <<acc, pre>> \in T
               PROVE  <<TakeIntent(acc, x), Append(pre, x)>> \in T
    OBVIOUS
  <2>1. InOrder(acc, pre) /\ Apart(acc, pre)
    OBVIOUS
  <2> DEFINE next == TakeIntent(acc, x)
             more == Append(pre, x)
  <2>2. next \in Pending
    BY TakeIntentTyped
  <2>3. more \in Seq(Intent)
    BY AppendProperties
  <2>4. InOrder(next, more) /\ Apart(next, more)
    BY <2>1, OrderKept, KeptApart
  <2> HIDE DEF next, more
  <2>5. <<next, more>> \in T
    BY <2>2, <2>3, <2>4
  <2> QED
    BY <2>5 DEF next, more
<1>3. last \in Pending /\ <<last, intents>> \in T
  <2> HIDE DEF T
  <2> QED
    BY <1>1, <1>2, TakeIntentLoop
<1> DEFINE sent == last.sent
           texts == last.texts
           blocks == last.blocks
           st == SendTexts(sent, texts)
           all == SendBlocks(st, blocks)
<1>4. SendIntentReply(intents) = all
  BY DEF SendIntentReply, Nothing
<1>5. InOrder(last, intents) /\ Apart(last, intents)
  <2> HIDE DEF last
  <2> QED
    BY <1>3
<1> HIDE DEF last
<1>6. sent \in Seq(Part) /\ texts \in Seq(AnyText) /\ blocks \in Seq(AnyBlock)
  BY <1>3 DEF Pending
<1> HIDE DEF sent, texts, blocks
<1> DEFINE S == SentRows(sent)
           TR == TextRows(texts)
           BR == BlockRows(blocks)
<1>7. st \in Seq(Part) /\ SentRows(st) = S \o TR /\ TR \in Seq(Row)
  BY <1>6, TextsSent
<1>8. all \in Seq(Part) /\ SentRows(all) = SentRows(st) \o BR /\ BR \in Seq(Row)
  <2>1. st \in Seq(Part) /\ blocks \in Seq(AnyBlock)
    BY <1>6, <1>7
  <2> HIDE DEF st
  <2> QED
    BY <2>1, BlocksSent
<1>9. S \in Seq(Row)
  BY <1>6, SentTyped
<1>10. S \o (TR \o BR) = FlattenSeq(Mapped(intents, MeantBy))
  BY <1>5 DEF InOrder, sent, texts, blocks
<1>11. SentRows(all) = FlattenSeq(Mapped(intents, MeantBy))
  <2>1. S \in Seq(Row) /\ TR \in Seq(Row) /\ BR \in Seq(Row)
    BY <1>7, <1>8, <1>9
  <2> HIDE DEF S, TR, BR, all, st
  <2>2. S \o (TR \o BR) = (S \o TR) \o BR
    BY <2>1, ConcatAssociative, SMTT(30)
  <2>3. SentRows(st) = S \o TR
    BY <1>7
  <2>4. SentRows(all) = SentRows(st) \o BR
    BY <1>8
  <2> QED
    BY <1>10, <2>2, <2>3, <2>4, Zenon
<1>12. ASSUME ~HasBlank(intents) PROVE Alternates(all)
  <2>1. /\ texts \in Seq(NonBlank)
        /\ Alternates(sent)
        /\ texts = <<>> \/ blocks = <<>>
        /\ texts # <<>> => EndsOther(sent, "text")
        /\ blocks # <<>> => EndsOther(sent, "form")
    BY <1>5, <1>12 DEF Apart, sent, texts, blocks
  <2>2. CASE texts # <<>>
    <3> DEFINE message == [kind |-> "text", content |-> texts]
    <3>1. message \in Part /\ message.kind = "text"
      BY <1>6 DEF Part
    <3>2. st = Append(sent, message)
      BY <1>6, <2>1, <2>2, TextsSent
    <3> HIDE DEF message
    <3>3. Alternates(Append(sent, message))
      BY <1>6, <2>1, <2>2, <3>1, AlternatesAppend
    <3>4. all = st
      BY <2>1, <2>2 DEF SendBlocks
    <3> QED
      BY <3>2, <3>3, <3>4
  <2>3. CASE texts = <<>> /\ blocks # <<>>
    <3> DEFINE form == Notification(blocks)
    <3>1. form \in Part /\ form.kind = "form"
      BY <1>6, <2>3, BlocksSent
    <3>2. st = sent
      BY <1>6, <2>3, TextsSent
    <3>3. all = Append(sent, form)
      BY <2>3, <3>2 DEF SendBlocks
    <3> HIDE DEF form
    <3>4. Alternates(Append(sent, form))
      BY <1>6, <2>1, <2>3, <3>1, AlternatesAppend
    <3> QED
      BY <3>3, <3>4
  <2>4. CASE texts = <<>> /\ blocks = <<>>
    <3>1. st = sent
      BY <1>6, <2>4, TextsSent
    <3>2. all = st
      BY <2>4 DEF SendBlocks
    <3> QED
      BY <2>1, <3>1, <3>2
  <2> QED
    BY <2>2, <2>3, <2>4
<1> HIDE DEF all
<1> QED
  BY <1>4, <1>8, <1>11, <1>12

----------------------------------------------------------------------------
(* The history.                                                            *)

DigestBy == [intent \in Intent |-> DigestOf(intent)]

\* The blocks that are no blank text.
Telling == Intent \ {TextIntent("")}

Kept(intents) == Those(intents, Telling)

(***************************************************************************)
(* intents_to_history_text: a line for each block that is not blank.       *)
(***************************************************************************)
LEMMA HistoryInOrder ==
    ASSUME NEW intents \in Seq(Intent)
    PROVE  LET history == HistoryText(intents)
           IN /\ Len(history) = Len(Kept(intents))
              /\ \A i \in DOMAIN Kept(intents) : history[i][1] = Kept(intents)[i].kind
<1> DEFINE D == {DigestOf(intent)[1] : intent \in Intent}
           H(s) == FlattenSeq(Mapped(s, DigestBy))
           Same(h, k) == Len(h) = Len(k) /\ \A i \in DOMAIN k : h[i][1] = k[i].kind
           T == {s \in Seq(Intent) : H(s) \in Seq(D) /\ Same(H(s), Kept(s))}
<1>1. ASSUME NEW x \in Intent
      PROVE  /\ x = TextIntent("") => DigestOf(x) = <<>>
             /\ x # TextIntent("") => DigestOf(x) = <<DigestOf(x)[1]>> /\ DigestOf(x)[1][1] = x.kind
  <2>1. CASE x.kind = "text"
    <3>1. x = TextIntent("") <=> x.text = ""
      BY <2>1, TextMeant
    <3>2. x.text = "" => DigestOf(x) = <<>>
      BY <2>1 DEF DigestOf
    <3> DEFINE d == <<x.kind, x.text>>
    <3>3. x.text # "" => DigestOf(x) = <<d>>
      BY <2>1 DEF DigestOf
    <3>4. d[1] = x.kind
      OBVIOUS
    <3> HIDE DEF d
    <3>5. ASSUME x.text # "" PROVE DigestOf(x) = <<DigestOf(x)[1]>> /\ DigestOf(x)[1][1] = x.kind
      <4>1. DigestOf(x) = <<d>>
        BY <3>3, <3>5
      <4>2. DigestOf(x)[1] = d
        BY <4>1
      <4> QED
        BY <3>4, <4>1, <4>2
    <3> QED
      BY <3>1, <3>2, <3>5
  <2>2. CASE x.kind # "text"
    <3>1. x # TextIntent("")
      BY <2>2, BlockMeant
    <3>2. \E d : DigestOf(x) = <<d>> /\ d[1] = x.kind
      <4>1. CASE x.kind = "table"
        <5> DEFINE d == <<"table", x.headers, Len(x.rows)>>
        <5>1. DigestOf(x) = <<d>> /\ d[1] = x.kind
          BY <2>2, <4>1 DEF DigestOf
        <5> QED
          BY <5>1
      <4>2. CASE x.kind = "raw_block"
        <5> DEFINE d == <<"raw_block", Len(x.block.rows)>>
        <5>1. DigestOf(x) = <<d>> /\ d[1] = x.kind
          BY <2>2, <4>2 DEF DigestOf
        <5> QED
          BY <5>1
      <4>3. CASE x.kind = "choice"
        <5> DEFINE d == <<"choice", x.text, [o \in DOMAIN x.options |-> x.options[o].label]>>
        <5>1. DigestOf(x) = <<d>> /\ d[1] = x.kind
          BY <2>2, <4>3 DEF DigestOf
        <5> QED
          BY <5>1
      <4>4. CASE x.kind \notin {"text", "table", "raw_block", "choice"}
        <5> DEFINE d == <<x.kind, x.text>>
        <5>1. DigestOf(x) = <<d>> /\ d[1] = x.kind
          BY <4>4 DEF DigestOf
        <5> QED
          BY <5>1
      <4> QED
        BY <2>2, <4>1, <4>2, <4>3, <4>4
    <3>3. PICK d : DigestOf(x) = <<d>> /\ d[1] = x.kind
      BY <3>2
    <3>4. DigestOf(x)[1] = d
      BY <3>3
    <3> QED
      BY <3>1, <3>3, <3>4
  <2> QED
    BY <2>1, <2>2
<1>2. DigestBy \in Maps(Intent, Seq(D))
  <2>1. ASSUME NEW x \in Intent PROVE DigestOf(x) \in Seq(D)
    <3>1. CASE x = TextIntent("")
      BY <1>1, <3>1, EmptySeq
    <3>2. CASE x # TextIntent("")
      <4> DEFINE d == DigestOf(x)[1]
      <4>1. d \in D
        OBVIOUS
      <4>2. DigestOf(x) = <<d>>
        BY <1>1, <3>2
      <4> HIDE DEF d, D
      <4> QED
        BY <4>1, <4>2
    <3> QED
      BY <3>1, <3>2
  <2> HIDE DEF D
  <2> QED
    BY <2>1 DEF Maps, DigestBy
<1> HIDE DEF D
<1>3. <<>> \in T
  <2>1. H(<<>>) = <<>> /\ Kept(<<>>) = <<>> /\ <<>> \in Seq(Intent) /\ <<>> \in Seq(D)
    BY MappedNone, FlattenNone, ThoseNone, EmptySeq DEF Kept
  <2>2. Same(<<>>, <<>>)
    OBVIOUS
  <2> HIDE DEF Same, H
  <2> QED
    BY <2>1, <2>2
<1>4. ASSUME NEW s \in Seq(Intent), NEW e \in Intent, s \in T PROVE Append(s, e) \in T
  <2> DEFINE t == Append(s, e)
             h == H(s)
             ht == H(t)
             k == Kept(s)
             kt == Kept(t)
  <2>1. t \in Seq(Intent)
    BY AppendProperties
  <2>2. ht = h \o DigestBy[e] /\ h \in Seq(D)
    BY <1>2, FlattenMapped
  <2>3. kt = IF e \in Telling THEN Append(k, e) ELSE k
    BY ThoseAppend DEF Kept
  <2>3a. e \in Telling <=> e # TextIntent("")
    BY DEF Telling
  <2>4. k \in Seq(Intent)
    BY ThoseTyped DEF Kept
  <2>5. Same(h, k)
    BY <1>4
  <2>6. DigestBy[e] = DigestOf(e)
    BY DEF DigestBy
  <2>7. CASE e = TextIntent("")
    <3>1. DigestOf(e) = <<>>
      BY <1>1, <2>7
    <3> HIDE DEF h, ht, k, kt
    <3>2. ht = h /\ kt = k
      BY <2>2, <2>3, <2>3a, <2>6, <2>7, <3>1, ConcatEmptySeq
    <3> HIDE DEF Same
    <3>3. ht \in Seq(D) /\ Same(ht, kt)
      BY <2>2, <2>5, <3>2
    <3> HIDE DEF t
    <3> QED
      BY <2>1, <3>3 DEF ht, kt, t
  <2>8. CASE e # TextIntent("")
    <3> DEFINE d == DigestOf(e)[1]
    <3>1. DigestOf(e) = <<d>> /\ d[1] = e.kind
      BY <1>1, <2>8
    <3>2. d \in D
      BY DEF D
    <3> HIDE DEF h, ht, k, kt, d
    <3>3. ht = Append(h, d)
      <4>1. ht = h \o <<d>>
        BY <2>2, <2>6, <3>1
      <4>2. h \in Seq(D)
        BY <2>2
      <4>3. Append(h, d) = h \o <<d>>
        BY <3>2, <4>2, AppendIsConcat
      <4> QED
        BY <4>1, <4>3
    <3>4. kt = Append(k, e)
      BY <2>3, <2>3a, <2>8
    <3>5. /\ ht \in Seq(D) /\ Len(ht) = Len(h) + 1 /\ ht[Len(h) + 1] = d
          /\ \A i \in 1..Len(h) : ht[i] = h[i]
      <4>1. h \in Seq(D)
        BY <2>2
      <4> QED
        BY <3>2, <3>3, <4>1, AppendProperties
    <3>6. /\ kt \in Seq(Intent) /\ Len(kt) = Len(k) + 1 /\ kt[Len(k) + 1] = e
          /\ \A i \in 1..Len(k) : kt[i] = k[i]
      BY <2>4, <3>4, AppendProperties
    <3>7. DOMAIN kt = 1..(Len(k) + 1) /\ DOMAIN k = 1..Len(k) /\ Len(k) \in Nat
      BY <2>4, <3>6, LenProperties
    <3>8. \A i \in DOMAIN kt : ht[i][1] = kt[i].kind
      <4> SUFFICES ASSUME NEW i \in DOMAIN kt PROVE ht[i][1] = kt[i].kind
        OBVIOUS
      <4>1. CASE i = Len(k) + 1
        <5>1. Len(h) = Len(k)
          BY <2>5
        <5>2. ht[i] = d /\ kt[i] = e
          BY <3>5, <3>6, <4>1, <5>1
        <5> QED
          BY <3>1, <5>2
      <4>2. CASE i # Len(k) + 1
        <5>1. i \in 1..Len(k)
          BY <3>7, <4>2
        <5>2. Len(h) = Len(k) /\ h[i][1] = k[i].kind
          BY <2>5, <3>7, <5>1
        <5>3. ht[i] = h[i] /\ kt[i] = k[i]
          BY <3>5, <3>6, <5>1, <5>2
        <5> QED
          BY <5>2, <5>3
      <4> QED
        BY <4>1, <4>2
    <3>9. Len(ht) = Len(kt)
      BY <2>5, <3>5, <3>6
    <3>10. ht \in Seq(D) /\ Same(ht, kt)
      BY <3>5, <3>8, <3>9
    <3> HIDE DEF Same, t
    <3> QED
      BY <2>1, <3>10 DEF ht, kt, t
  <2> QED
    BY <2>7, <2>8
<1> HIDE DEF T
<1>5. intents \in T
  BY <1>3, <1>4, ListInduction
<1>6. HistoryText(intents) = H(intents)
  <2>1. \A i \in DOMAIN intents : DigestBy[intents[i]] = DigestOf(intents[i])
    <3>1. \A i \in DOMAIN intents : intents[i] \in Intent
      BY LenProperties, ElementOfSeq
    <3> QED
      BY <3>1 DEF DigestBy
  <2>2. [i \in DOMAIN intents |-> DigestOf(intents[i])] = Mapped(intents, DigestBy)
    BY <2>1 DEF Mapped
  <2> QED
    BY <2>2 DEF HistoryText
<1> QED
  BY <1>5, <1>6 DEF T

----------------------------------------------------------------------------
(***************************************************************************)
(* What Cube posts does not change what was sent.                          *)
(***************************************************************************)
SentInv == reply \in Replies /\ parts = SendIntentReply(reply)

LEMMA SentInvHolds == FormsSpec => []SentInv
<1>1. FormsInit => SentInv
  BY DEF FormsInit, SentInv
<1>2. ASSUME SentInv, [FormsNext]_formVars PROVE SentInv'
  <2>1. reply' = reply /\ parts' = parts
    <3>1. CASE Press
      BY <3>1 DEF Press, Receive
    <3>2. CASE Write
      BY <3>2 DEF Write, Receive
    <3>3. CASE PostAgain
      BY <3>3 DEF PostAgain, Receive
    <3>4. CASE UNCHANGED formVars
      BY <3>4 DEF formVars
    <3> QED
      BY <1>2, <3>1, <3>2, <3>3, <3>4 DEF FormsNext
  <2> QED
    BY <1>2, <2>1 DEF SentInv
<1> QED
  BY <1>1, <1>2, PTL DEF FormsSpec

LEMMA InOrderAlways ==
    ASSUME SentInv
    PROVE  PartsInOrder
<1>1. reply \in Seq(Intent) /\ parts = SendIntentReply(reply)
  BY FormsAssumption DEF SentInv
<1>2. /\ parts \in Seq(Part)
      /\ SentRows(parts) = FlattenSeq(Mapped(reply, MeantBy))
      /\ ~HasBlank(reply) => Alternates(parts)
  BY <1>1, SentInOrder
<1>3. FlattenSeq([i \in DOMAIN parts |-> Shown(parts[i])]) = SentRows(parts)
  <2>1. \A i \in DOMAIN parts : parts[i] \in Part
    BY <1>2, LenProperties, ElementOfSeq
  <2>2. \A i \in DOMAIN parts : ShownBy[parts[i]] = Shown(parts[i])
    BY <2>1 DEF ShownBy
  <2>3. [i \in DOMAIN parts |-> Shown(parts[i])] = Mapped(parts, ShownBy)
    BY <2>2 DEF Mapped
  <2> QED
    BY <2>3 DEF SentRows
<1>4. FlattenSeq([i \in DOMAIN reply |-> Meant(reply[i])]) = FlattenSeq(Mapped(reply, MeantBy))
  <2>1. \A i \in DOMAIN reply : reply[i] \in Intent
    BY <1>1, LenProperties, ElementOfSeq
  <2>2. \A i \in DOMAIN reply : MeantBy[reply[i]] = Meant(reply[i])
    BY <2>1 DEF MeantBy
  <2>3. [i \in DOMAIN reply |-> Meant(reply[i])] = Mapped(reply, MeantBy)
    BY <2>2 DEF Mapped
  <2> QED
    BY <2>3
<1> DEFINE kept == Only(reply, LAMBDA intent : intent # TextIntent(""))
<1>5. kept = Kept(reply)
  <2>1. \A i \in DOMAIN reply : reply[i] \in Intent
    BY <1>1, LenProperties, ElementOfSeq
  <2>2. {i \in DOMAIN reply : reply[i] # TextIntent("")} = {i \in DOMAIN reply : reply[i] \in Telling}
    BY <2>1 DEF Telling
  <2> QED
    BY <2>2 DEF Only, Kept, Those
<1>6. Len(HistoryText(reply)) = Len(kept) /\ \A i \in DOMAIN kept : HistoryText(reply)[i][1] = kept[i].kind
  <2> HIDE DEF kept
  <2> QED
    BY <1>1, <1>5, HistoryInOrder
<1>7. TextIntent("") \notin ToSet(reply) => \A i \in 1..(Len(parts) - 1) : parts[i].kind # parts[i + 1].kind
  BY <1>2 DEF HasBlank, Alternates
<1>8. FlattenSeq([i \in DOMAIN parts |-> Shown(parts[i])]) = FlattenSeq([i \in DOMAIN reply |-> Meant(reply[i])])
  BY <1>2, <1>3, <1>4
<1> QED
  BY <1>6, <1>7, <1>8 DEF PartsInOrder

(***************************************************************************)
(* Whatever blocks a reply has, the messages show what the blocks show, in *)
(* order and each once, the history names the same blocks, and without     *)
(* blank texts messages and forms alternate.                               *)
(***************************************************************************)
THEOREM RepliesInOrder == FormsSpec => []PartsInOrder
<1>1. SentInv => PartsInOrder
  BY InOrderAlways
<1> QED
  BY <1>1, SentInvHolds, PTL

----------------------------------------------------------------------------
(* The forms of a reply.                                                   *)

BlocksOf(intents) == {IntentToBlock(intent) : intent \in ToSet(intents)}

\* A form is made of blocks of the reply.
IsForm(part, intents) ==
    part.kind = "form" => \E blocks \in Seq(AnyBlock) : part = Notification(blocks) /\ ToSet(blocks) \subseteq BlocksOf(intents)

Formed(acc, pre) ==
    /\ \A part \in ToSet(acc.sent) : IsForm(part, pre)
    /\ ToSet(acc.blocks) \subseteq BlocksOf(pre)

LEMMA BlocksOfAppend ==
    ASSUME NEW pre \in Seq(Intent), NEW x \in Intent
    PROVE  BlocksOf(Append(pre, x)) = BlocksOf(pre) \union {IntentToBlock(x)}
<1>1. ToSet(Append(pre, x)) = ToSet(pre) \union {x}
  BY Elements
<1> QED
  BY <1>1 DEF BlocksOf

LEMMA FormsSent ==
    ASSUME NEW sent \in Seq(Part), NEW blocks \in Seq(AnyBlock), NEW intents,
           \A part \in ToSet(sent) : IsForm(part, intents), ToSet(blocks) \subseteq BlocksOf(intents)
    PROVE  \A part \in ToSet(SendBlocks(sent, blocks)) : IsForm(part, intents)
<1> DEFINE form == Notification(blocks)
<1>1. SendBlocks(sent, blocks) = IF blocks = <<>> THEN sent ELSE Append(sent, form)
  BY DEF SendBlocks
<1>2. IsForm(form, intents)
  BY DEF IsForm
<1>3. blocks # <<>> => form \in Part
  BY BlocksSent
<1> HIDE DEF form
<1>4. blocks # <<>> => ToSet(Append(sent, form)) = ToSet(sent) \union {form}
  BY <1>3, Elements
<1> QED
  BY <1>1, <1>2, <1>4

LEMMA TextsNoForms ==
    ASSUME NEW sent \in Seq(Part), NEW texts \in Seq(AnyText), NEW intents,
           \A part \in ToSet(sent) : IsForm(part, intents)
    PROVE  \A part \in ToSet(SendTexts(sent, texts)) : IsForm(part, intents)
<1> DEFINE kept == Only(texts, LAMBDA text : text # "")
           part == [kind |-> "text", content |-> kept]
<1>1. SendTexts(sent, texts) = IF kept = <<>> THEN sent ELSE Append(sent, part)
  BY DEF SendTexts
<1>2. part \in Part /\ IsForm(part, intents)
  <2>1. kept \in Seq(AnyText)
    <3> DEFINE p == {i \in DOMAIN texts : texts[i] # ""}
    <3>1. kept = Picked(texts, p)
      BY DEF Only
    <3>2. Len(texts) \in 0..Len(texts)
      BY LenProperties
    <3> HIDE DEF p
    <3>3. Picked(texts, p) \in Seq(AnyText)
      BY <3>2, PickedSteps
    <3> QED
      BY <3>1, <3>3
  <2> HIDE DEF kept
  <2> QED
    BY <2>1 DEF Part, IsForm
<1> HIDE DEF kept, part
<1>3. ToSet(Append(sent, part)) = ToSet(sent) \union {part}
  BY <1>2, Elements
<1> QED
  BY <1>1, <1>2, <1>3

LEMMA StaysFormed ==
    ASSUME NEW acc \in Pending, NEW pre \in Seq(Intent), NEW x \in Intent, Formed(acc, pre)
    PROVE  Formed(TakeIntent(acc, x), Append(pre, x))
<1> DEFINE sent == acc.sent
           texts == acc.texts
           blocks == acc.blocks
           block == IntentToBlock(x)
           more == Append(pre, x)
<1>1. sent \in Seq(Part) /\ texts \in Seq(AnyText) /\ blocks \in Seq(AnyBlock)
  BY DEF Pending
<1>2. BlocksOf(more) = BlocksOf(pre) \union {block}
  BY BlocksOfAppend
<1>3. ToSet(blocks) \subseteq BlocksOf(more)
  BY <1>2 DEF Formed
<1>4. \A part \in ToSet(sent) : IsForm(part, more)
  BY <1>2 DEF Formed, IsForm
<1>5. TakeIntent(acc, x)
         = IF x.kind = "text"
           THEN [sent |-> SendBlocks(sent, blocks), blocks |-> <<>>, texts |-> Append(texts, x.text)]
           ELSE [sent |-> SendTexts(sent, texts), texts |-> <<>>, blocks |-> Append(blocks, block)]
  BY DEF TakeIntent
<1> HIDE DEF sent, texts, blocks, block, more
<1>6. \A part \in ToSet(SendBlocks(sent, blocks)) : IsForm(part, more)
  BY <1>1, <1>3, <1>4, FormsSent
<1>7. \A part \in ToSet(SendTexts(sent, texts)) : IsForm(part, more)
  BY <1>1, <1>4, TextsNoForms
<1>8. CASE x.kind = "text"
  <2>1. TakeIntent(acc, x).sent = SendBlocks(sent, blocks) /\ TakeIntent(acc, x).blocks = <<>>
    BY <1>5, <1>8
  <2>2. ToSet(<<>>) = {}
    BY Elements
  <2> QED
    BY <1>6, <2>1, <2>2 DEF Formed, more
<1>9. CASE x.kind # "text"
  <2> DEFINE longer == Append(blocks, block)
  <2>1. TakeIntent(acc, x).sent = SendTexts(sent, texts) /\ TakeIntent(acc, x).blocks = longer
    BY <1>5, <1>9
  <2>2. ToSet(longer) = ToSet(blocks) \union {block}
    <3>1. block \in AnyBlock
      BY BlockTyped DEF block
    <3>2. blocks \in Seq(AnyBlock)
      BY <1>1
    <3> QED
      BY <3>1, <3>2, Elements
  <2>3. ToSet(longer) \subseteq BlocksOf(more)
    BY <1>2, <1>3, <2>2
  <2> HIDE DEF longer
  <2> QED
    BY <1>7, <2>1, <2>3 DEF Formed, more
<1> QED
  BY <1>8, <1>9

LEMMA FormsOfReply ==
    ASSUME NEW intents \in Seq(Intent)
    PROVE  \A part \in ToSet(SendIntentReply(intents)) : IsForm(part, intents)
<1> DEFINE T == {p \in Pending \X Seq(Intent) : Formed(p[1], p[2])}
           last == FoldLeft(TakeIntent, Nothing, intents)
<1>1. <<Nothing, <<>>>> \in T
  <2>1. Nothing \in Pending /\ <<>> \in Seq(Intent)
    BY EmptySeq DEF Nothing, Pending
  <2>2. Formed(Nothing, <<>>)
    BY Elements DEF Formed, Nothing
  <2> QED
    BY <2>1, <2>2
<1>2. \A acc \in Pending, pre \in Seq(Intent), x \in Intent :
         <<acc, pre>> \in T => <<TakeIntent(acc, x), Append(pre, x)>> \in T
  <2> SUFFICES ASSUME NEW acc \in Pending, NEW pre \in Seq(Intent), NEW x \in Intent, <<acc, pre>> \in T
               PROVE  <<TakeIntent(acc, x), Append(pre, x)>> \in T
    OBVIOUS
  <2> DEFINE next == TakeIntent(acc, x)
             more == Append(pre, x)
  <2>1. next \in Pending /\ more \in Seq(Intent) /\ Formed(next, more)
    BY TakeIntentTyped, AppendProperties, StaysFormed
  <2> HIDE DEF next, more
  <2>2. <<next, more>> \in T
    BY <2>1
  <2> QED
    BY <2>2 DEF next, more
<1>3. last \in Pending /\ <<last, intents>> \in T
  <2> HIDE DEF T
  <2> QED
    BY <1>1, <1>2, TakeIntentLoop
<1> DEFINE sent == last.sent
           texts == last.texts
           blocks == last.blocks
           st == SendTexts(sent, texts)
<1>4. SendIntentReply(intents) = SendBlocks(st, blocks)
  BY DEF SendIntentReply, Nothing
<1> HIDE DEF last
<1>5. Formed(last, intents)
  BY <1>3
<1>6. sent \in Seq(Part) /\ texts \in Seq(AnyText) /\ blocks \in Seq(AnyBlock)
  BY <1>3 DEF Pending
<1>7. (\A part \in ToSet(sent) : IsForm(part, intents)) /\ ToSet(blocks) \subseteq BlocksOf(intents)
  BY <1>5 DEF Formed
<1> HIDE DEF sent, texts, blocks
<1>8. st \in Seq(Part) /\ \A part \in ToSet(st) : IsForm(part, intents)
  BY <1>6, <1>7, TextsSent, TextsNoForms
<1> HIDE DEF st
<1> QED
  BY <1>4, <1>6, <1>7, <1>8, FormsSent

\* The cells of all the blocks of a reply.
CellsOfReply(intents) == UNION {Cells(block) : block \in BlocksOf(intents)}

Asks(content) ==
    \A cell \in Cells(content) :
        cell.type \notin Passive => cell.processid \in ToSet(content.requestid) \ ToSet(SystemRequestIds)

(***************************************************************************)
(* A form shows cells of the blocks, and asks for its fields and buttons.  *)
(***************************************************************************)
LEMMA FormFacts ==
    ASSUME SentInv, NEW part \in DOMAIN parts, parts[part].kind = "form"
    PROVE  LET content == parts[part].content
           IN /\ content \in AnyContent
              /\ Cells(content) \subseteq CellsOfReply(reply)
              /\ Asks(content)
<1> DEFINE content == parts[part].content
<1>1. reply \in Replies /\ reply \in Seq(Intent) /\ parts = SendIntentReply(reply)
  BY FormsAssumption DEF SentInv
<1>2. parts[part] \in ToSet(parts)
  BY DEF ToSet
<1>3. PICK blocks \in Seq(AnyBlock) : parts[part] = Notification(blocks) /\ ToSet(blocks) \subseteq BlocksOf(reply)
  <2>1. \A p \in ToSet(parts) : IsForm(p, reply)
    BY <1>1, FormsOfReply
  <2> QED
    BY <1>2, <2>1 DEF IsForm
<1> DEFINE callback == \E b \in DOMAIN blocks : blocks[b].requestid # <<>>
<1>4. content = AddContainer(blocks, callback)
  BY <1>3 DEF Notification
<1>5. /\ content \in AnyContent
      /\ content.rows = BlockRows(blocks)
      /\ ToSet(content.requestid)
            = (UNION {ToSet(block.requestid) : block \in ToSet(blocks)}) \union ToSet(SystemRequestIds)
  <2>1. callback \in BOOLEAN
    OBVIOUS
  <2> HIDE DEF callback, content
  <2> QED
    BY <1>4, <2>1, ContainerTyped
<1>6. ToSet(content.rows) = UNION {ToSet(block.rows) : block \in ToSet(blocks)}
  <2>1. ToSet(BlockRows(blocks)) = UNION {ToSet(x) : x \in ToSet(Mapped(blocks, RowsOf))}
    <3>1. Mapped(blocks, RowsOf) \in Seq(Seq(Row))
      <4>1. RowsOf \in Maps(AnyBlock, Seq(Row))
        BY RowFunctions DEF Maps
      <4>2. CASE blocks = <<>>
        BY <4>2, MappedNone, EmptySeq
      <4>3. CASE blocks # <<>>
        <5>1. Last(blocks) \in AnyBlock
          BY <4>3, Ends
        <5> QED
          BY <4>1, <5>1, MappedAppend
      <4> QED
        BY <4>2, <4>3
    <3> QED
      BY <3>1, FlattenElements DEF BlockRows
  <2>2. ToSet(Mapped(blocks, RowsOf)) = {RowsOf[block] : block \in ToSet(blocks)}
    BY MappedElements
  <2>3. \A block \in ToSet(blocks) : block \in AnyBlock
    BY Elements
  <2>4. \A block \in ToSet(blocks) : RowsOf[block] = block.rows
    BY <2>3 DEF RowsOf
  <2> HIDE DEF content
  <2> QED
    BY <1>5, <2>1, <2>2, <2>4
<1> HIDE DEF content
<1>7. ASSUME NEW cell \in Cells(content)
      PROVE  \E block \in ToSet(blocks) : cell \in Cells(block)
  BY <1>6 DEF Cells
<1>8. Cells(content) \subseteq CellsOfReply(reply)
  BY <1>3, <1>7 DEF CellsOfReply
<1>9. ASSUME NEW cell \in Cells(content), cell.type \notin Passive
      PROVE  cell.processid \in ToSet(content.requestid) \ ToSet(SystemRequestIds)
  <2>1. PICK block \in ToSet(blocks) : cell \in Cells(block)
    BY <1>7
  <2>2. PICK intent \in ToSet(reply) : block = IntentToBlock(intent)
    BY <1>3 DEF BlocksOf
  <2>3. cell.processid \in ToSet(block.requestid) \ ToSet(SystemRequestIds)
    BY <1>1, <1>9, <2>1, <2>2, AskedAssumption
  <2> QED
    BY <1>5, <2>3
<1> QED
  BY <1>5, <1>8, <1>9 DEF Asks, content

----------------------------------------------------------------------------
(* What is posted of a press, and the lines made of it.                    *)

System == ToSet(SystemRequestIds)

\* The ids that are posted, and those a line is made of.
PostedIds(answers, button) == DOMAIN answers \union {button.processid} \union System

LineIds(answers, button) == DOMAIN answers \union {button.processid}

\* A press of a button of a form, with something left in every field.
IsPress(content, answers, button) ==
    /\ content \in AnyContent /\ Asks(content)
    /\ button \in Buttons(content) /\ DOMAIN answers = Fields(content)

\* The ids, their values and the lines of a press.
PressIds(content, answers, button) == Those(content.requestid, PostedIds(answers, button))

ValuesOf(answers, button, ids) == {ValueOf(answers, button, id) : id \in ids}

LinesOf(answers, button) == {LineOf(ValueOf(answers, button, id)) : id \in LineIds(answers, button)}

LEMMA IdsAsked ==
    ASSUME NEW content, NEW answers, NEW button, IsPress(content, answers, button)
    PROVE  /\ LineIds(answers, button) \subseteq ToSet(content.requestid)
           /\ LineIds(answers, button) \intersect System = {}
           /\ content.requestid \in Seq(AnyText)
<1>1. ASSUME NEW id \in DOMAIN answers PROVE id \in ToSet(content.requestid) \ System
  <2>1. PICK cell \in Cells(content) : cell.type \notin Passive \union {"button"} /\ id = cell.processid
    BY DEF IsPress, Fields
  <2> QED
    BY <2>1 DEF IsPress, Asks, System
<1>2. button.processid \in ToSet(content.requestid) \ System
  <2>1. button \in Cells(content) /\ button.type = "button"
    BY DEF IsPress, Buttons
  <2>2. button.type \notin Passive
    BY <2>1 DEF Passive
  <2> QED
    BY <2>1, <2>2 DEF IsPress, Asks, System
<1>3. content.requestid \in Seq(AnyText)
  BY DEF IsPress, AnyContent
<1> QED
  BY <1>1, <1>2, <1>3 DEF LineIds

(***************************************************************************)
(* The values of the ids that were asked for, in that order; the lines are *)
(* those of the ids that are not Cube's.                                   *)
(***************************************************************************)
LEMMA PressPosted ==
    ASSUME NEW content, NEW answers, NEW button, IsPress(content, answers, button)
    PROVE  /\ PressIds(content, answers, button) \in Seq(AnyText)
           /\ ToSet(PressIds(content, answers, button))
                 = ToSet(content.requestid) \intersect PostedIds(answers, button)
           /\ ResultData(content, answers, button) \in Seq(ValuesOf(answers, button, AnyText))
           /\ ToSet(ResultData(content, answers, button))
                 = ValuesOf(answers, button, ToSet(PressIds(content, answers, button)))
<1> DEFINE requestid == content.requestid
           P == PostedIds(answers, button)
           ids == Those(requestid, P)
           V == {ValueOf(answers, button, id) : id \in AnyText}
           data == ResultData(content, answers, button)
<1>1. requestid \in Seq(AnyText)
  BY IdsAsked
<1>2. data = [i \in DOMAIN ids |-> ValueOf(answers, button, ids[i])]
  <2>1. {i \in DOMAIN requestid : requestid[i] \in P}
           = {i \in DOMAIN requestid : requestid[i] \in DOMAIN answers \union {button.processid} \union ToSet(SystemRequestIds)}
    BY DEF PostedIds, System
  <2> QED
    BY <2>1 DEF ResultData, Only, Those
<1>3. ids \in Seq(AnyText) /\ ToSet(ids) = ToSet(requestid) \intersect P
  <2> HIDE DEF requestid, P
  <2> QED
    BY <1>1, ThoseTyped, ThoseElements
<1> HIDE DEF requestid, P, ids, data
<1>4. Len(ids) \in Nat /\ DOMAIN ids = 1..Len(ids) /\ \A i \in 1..Len(ids) : ids[i] \in AnyText
  BY <1>3, LenProperties, ElementOfSeq
<1>5. data \in Seq(V)
  <2>1. \A i \in 1..Len(ids) : ValueOf(answers, button, ids[i]) \in V
    BY <1>4
  <2>2. data = [i \in 1..Len(ids) |-> ValueOf(answers, button, ids[i])]
    BY <1>2, <1>4
  <2> HIDE DEF V
  <2> QED
    BY <1>4, <2>1, <2>2
<1>6. ToSet(data) = {ValueOf(answers, button, id) : id \in ToSet(ids)}
  BY <1>2 DEF ToSet
<1> QED
  BY <1>3, <1>5, <1>6 DEF requestid, P, ids, data, PressIds, ValuesOf

LEMMA PressLines ==
    ASSUME NEW content, NEW answers, NEW button, IsPress(content, answers, button),
           NEW payload, payload.resultdata = ResultData(content, answers, button)
    PROVE  /\ ToSet(MessageLines(payload)) = LinesOf(answers, button)
           /\ MessageLines(payload) # <<>>
           /\ CallbackMessage(payload) = MessageLines(payload)
<1> DEFINE ids == PressIds(content, answers, button)
           V == ValuesOf(answers, button, AnyText)
           data == ResultData(content, answers, button)
           W == {item \in V : item.requestid \notin System}
           items == Those(data, W)
           L == LineIds(answers, button)
<1>1. /\ data \in Seq(V) /\ ToSet(data) = ValuesOf(answers, button, ToSet(ids))
      /\ ToSet(ids) = ToSet(content.requestid) \intersect PostedIds(answers, button) /\ ids \in Seq(AnyText)
  BY PressPosted
<1>2. \A id : ValueOf(answers, button, id).requestid = id
  BY DEF ValueOf
<1>3. ToSet(ids) \ System = L
  <2> HIDE DEF ids
  <2> QED
    BY <1>1, IdsAsked DEF LineIds, PostedIds
<1>4. items \in Seq(V) /\ ToSet(items) = ToSet(data) \intersect W
  <2> HIDE DEF V, W, data
  <2> QED
    BY <1>1, ThoseTyped, ThoseElements
<1>5. MessageLines(payload) = [i \in DOMAIN items |-> LineOf(items[i])]
  <2>1. \A i \in DOMAIN data : data[i] \in V
    <3> HIDE DEF data, V
    <3> QED
      BY <1>1, LenProperties, ElementOfSeq
  <2>2. {i \in DOMAIN data : data[i] \in W} = {i \in DOMAIN data : ~SystemId(data[i].requestid)}
    <3> HIDE DEF data, V
    <3> QED
      BY <2>1 DEF SystemId, System
  <2>3. Only(data, LAMBDA item : ~SystemId(item.requestid)) = items
    <3> HIDE DEF data, V, W
    <3> QED
      BY <2>2 DEF Only, Those
  <2> HIDE DEF items, V, W
  <2> QED
    BY <2>3 DEF MessageLines
<1>6. ToSet(items) = ValuesOf(answers, button, L)
  <2> HIDE DEF ids, data, items
  <2>1. ToSet(ids) \subseteq AnyText
    BY <1>1, Elements
  <2> HIDE DEF L
  <2>2. ASSUME NEW item \in ToSet(items) PROVE \E id \in L : item = ValueOf(answers, button, id)
    <3>1. PICK id \in ToSet(ids) : item = ValueOf(answers, button, id)
      BY <1>1, <1>4 DEF ValuesOf
    <3>2. id \notin System
      BY <1>2, <1>4, <3>1
    <3> QED
      BY <1>3, <3>1, <3>2
  <2>3. ASSUME NEW id \in L PROVE ValueOf(answers, button, id) \in ToSet(items)
    <3>1. id \in ToSet(ids) /\ id \notin System
      BY <1>3
    <3>2. ValueOf(answers, button, id) \in ToSet(data)
      BY <1>1, <3>1 DEF ValuesOf
    <3>3. ValueOf(answers, button, id) \in W
      BY <1>2, <2>1, <3>1 DEF ValuesOf
    <3> HIDE DEF W
    <3> QED
      BY <1>4, <3>2, <3>3
  <2> HIDE DEF V, W
  <2> QED
    BY <2>2, <2>3 DEF ValuesOf
<1> HIDE DEF items, ids, V, data, W
<1>7. ToSet(MessageLines(payload)) = {LineOf(item) : item \in ToSet(items)}
  BY <1>5 DEF ToSet
<1>8. ToSet(MessageLines(payload)) = LinesOf(answers, button)
  BY <1>6, <1>7 DEF LinesOf, ValuesOf
<1>9. MessageLines(payload) # <<>>
  <2>1. button.processid \in L
    BY DEF LineIds
  <2>2. LineOf(ValueOf(answers, button, button.processid)) \in ToSet(MessageLines(payload))
    BY <1>8, <2>1 DEF LinesOf
  <2>3. ToSet(<<>>) = {}
    BY Elements
  <2> QED
    BY <2>2, <2>3
<1>10. CallbackMessage(payload) = MessageLines(payload)
  BY <1>9 DEF CallbackMessage
<1> QED
  BY <1>8, <1>9, <1>10

(***************************************************************************)
(* A message that says what was filled in and which button was pressed.    *)
(***************************************************************************)
Faithful(message, press) ==
    press # NoPress =>
        /\ {message[l].requestid : l \in DOMAIN message} = DOMAIN press.answers \union {press.button.processid}
        /\ \A l \in DOMAIN message :
              IF message[l].requestid \in DOMAIN press.answers
              THEN Tells(message[l], press.answers[message[l].requestid])
              ELSE Tells(message[l], Filled(<<press.button.value>>, <<press.button.text>>))

LEMMA LineTells ==
    ASSUME NEW item
    PROVE  LineOf(item).requestid = item.requestid /\ Tells(LineOf(item), item.of)
<1> DEFINE text == TextValues(item.of.text)
           value == TextValues(item.of.value)
           line == LineOf(item)
<1>1. /\ line.requestid = item.requestid
      /\ line.shown = IF text # <<>> THEN text ELSE value
      /\ line.value = IF text # <<>> /\ value # <<>> /\ text # value THEN value ELSE <<>>
  BY DEF LineOf
<1> HIDE DEF text, value, line
<1>2. line.value \in {<<>>, value} /\ (line.value = <<>> => value \in {<<>>, line.shown})
  BY <1>1
<1> QED
  BY <1>1, <1>2 DEF Tells, text, value, line

LEMMA PressFaithful ==
    ASSUME NEW content, NEW answers, NEW button, IsPress(content, answers, button),
           NEW payload, payload.resultdata = ResultData(content, answers, button),
           NEW press, press.answers = answers, press.button = button
    PROVE  Faithful(MessageLines(payload), press)
<1> DEFINE message == MessageLines(payload)
           L == LineIds(answers, button)
           lines == LinesOf(answers, button)
<1>1. ToSet(message) = lines
  BY PressLines
<1>1a. lines = {LineOf(ValueOf(answers, button, id)) : id \in L}
  BY DEF LinesOf
<1> HIDE DEF message, lines
<1>2. \A l \in DOMAIN message : message[l] \in lines
  BY <1>1 DEF ToSet
<1>3. \A id : /\ LineOf(ValueOf(answers, button, id)).requestid = id
              /\ Tells(LineOf(ValueOf(answers, button, id)), ValueOf(answers, button, id).of)
  BY LineTells DEF ValueOf
<1>4. {message[l].requestid : l \in DOMAIN message} = L
  <2>1. ASSUME NEW l \in DOMAIN message PROVE message[l].requestid \in L
    BY <1>1a, <1>2, <1>3
  <2>2. ASSUME NEW id \in L PROVE \E l \in DOMAIN message : message[l].requestid = id
    <3>1. LineOf(ValueOf(answers, button, id)) \in ToSet(message)
      BY <1>1, <1>1a
    <3>2. PICK l \in DOMAIN message : message[l] = LineOf(ValueOf(answers, button, id))
      BY <3>1 DEF ToSet
    <3> QED
      BY <1>3, <3>2
  <2> HIDE DEF L
  <2> QED
    BY <2>1, <2>2
<1>5. ASSUME NEW l \in DOMAIN message
      PROVE  IF message[l].requestid \in DOMAIN answers
             THEN Tells(message[l], answers[message[l].requestid])
             ELSE Tells(message[l], Filled(<<button.value>>, <<button.text>>))
  <2>1. PICK id \in L : message[l] = LineOf(ValueOf(answers, button, id))
    BY <1>1a, <1>2
  <2>2. message[l].requestid = id /\ Tells(message[l], ValueOf(answers, button, id).of)
    BY <1>3, <2>1
  <2>3. id \in DOMAIN answers => ValueOf(answers, button, id).of = answers[id]
    BY DEF ValueOf
  <2>4. id \notin DOMAIN answers => ValueOf(answers, button, id).of = Filled(<<button.value>>, <<button.text>>)
    BY <2>1 DEF ValueOf, LineIds
  <2> QED
    BY <2>2, <2>3, <2>4
<1> QED
  BY <1>4, <1>5 DEF Faithful, LineIds, message

(***************************************************************************)
(* The messages in the queue are those of the posts that were accepted.    *)
(***************************************************************************)
IsAccepted(post) == post.status = "accepted"

AcceptedOf(s) == Only(s, LAMBDA post : post.status = "accepted")

ArriveInv ==
    /\ posts \in Seq(ToSet(posts)) /\ queued \in Seq(ToSet(queued))
    /\ \A post \in ToSet(posts) : Faithful(RequestFields(post.payload).message, post.press)
    /\ Len(queued) = Len(Accepted)
    /\ \A i \in DOMAIN queued : queued[i] = RequestFields(Accepted[i].payload).message

LEMMA AcceptedAppend ==
    ASSUME NEW S, NEW s \in Seq(S), NEW x \in S
    PROVE  /\ AcceptedOf(s) \in Seq(S)
           /\ ToSet(AcceptedOf(s)) \subseteq ToSet(s)
           /\ AcceptedOf(Append(s, x)) = IF IsAccepted(x) THEN Append(AcceptedOf(s), x) ELSE AcceptedOf(s)
<1> DEFINE A == {post \in S : IsAccepted(post)}
<1>1. ASSUME NEW t \in Seq(S) PROVE AcceptedOf(t) = Those(t, A)
  <2>1. \A i \in DOMAIN t : t[i] \in S
    BY LenProperties, ElementOfSeq
  <2>2. {i \in DOMAIN t : t[i].status = "accepted"} = {i \in DOMAIN t : t[i] \in A}
    BY <2>1 DEF IsAccepted
  <2> HIDE DEF A
  <2> QED
    BY <2>2 DEF AcceptedOf, Only, Those
<1> DEFINE t == Append(s, x)
<1>2. t \in Seq(S)
  BY AppendProperties
<1>3. AcceptedOf(s) = Those(s, A) /\ AcceptedOf(t) = Those(t, A)
  BY <1>1, <1>2
<1>4. x \in A <=> IsAccepted(x)
  OBVIOUS
<1> HIDE DEF A
<1>5. Those(t, A) = IF x \in A THEN Append(Those(s, A), x) ELSE Those(s, A)
  BY ThoseAppend
<1>6. Those(s, A) \in Seq(S) /\ ToSet(Those(s, A)) \subseteq ToSet(s)
  BY ThoseTyped, ThoseElements
<1> QED
  BY <1>3, <1>4, <1>5, <1>6

LEMMA AcceptedIs == Accepted = AcceptedOf(posts) /\ Accepted' = AcceptedOf(posts')
<1>1. Accepted = AcceptedOf(posts)
  BY DEF Accepted, AcceptedOf
<1>2. Accepted' = AcceptedOf(posts')
  BY DEF Accepted, AcceptedOf, Only
<1> QED
  BY <1>1, <1>2

LEMMA Received ==
    ASSUME NEW payload, NEW press, Receive(payload, press), ArriveInv,
           Faithful(RequestFields(payload).message, press)
    PROVE  ArriveInv'
<1> DEFINE new == [payload |-> payload, press |-> press, status |-> Status(payload)]
           message == RequestFields(payload).message
           S == ToSet(posts) \union {new}
           M == ToSet(queued) \union {message}
           acc == Accepted
           acc2 == Accepted'
           more == Append(posts, new)
<1>1. posts' = more
  BY DEF Receive
<1>2. IsAccepted(new) <=> Status(payload) = "accepted"
  BY DEF IsAccepted
<1>3. IF IsAccepted(new) THEN queued' = Append(queued, message) ELSE queued' = queued
  BY <1>2 DEF Receive
<1>4. posts \in Seq(S) /\ new \in S /\ queued \in Seq(M) /\ message \in M
  <2>1. posts \in Seq(ToSet(posts)) /\ queued \in Seq(ToSet(queued))
    BY DEF ArriveInv
  <2> HIDE DEF new, message
  <2> QED
    BY <2>1
<1>5. new.payload = payload /\ new.press = press
  OBVIOUS
<1> HIDE DEF new, message, S, M
<1>6. more \in Seq(S) /\ ToSet(more) = ToSet(posts) \union {new}
  <2>1. posts \in Seq(S) /\ new \in S
    BY <1>4
  <2> QED
    BY <2>1, AppendProperties, Elements
<1>7. posts' \in Seq(ToSet(posts'))
  BY <1>1, <1>6, OwnElements
<1>8. \A post \in ToSet(posts') : Faithful(RequestFields(post.payload).message, post.press)
  BY <1>1, <1>5, <1>6 DEF ArriveInv, message
<1>9. /\ acc \in Seq(S) /\ ToSet(acc) \subseteq ToSet(posts)
      /\ acc2 = IF IsAccepted(new) THEN Append(acc, new) ELSE acc
  <2>1. posts \in Seq(S) /\ new \in S
    BY <1>4
  <2>2. acc = AcceptedOf(posts) /\ acc2 = AcceptedOf(more)
    BY <1>1, AcceptedIs
  <2> HIDE DEF acc, acc2
  <2> QED
    BY <2>1, <2>2, AcceptedAppend
<1>10. Len(queued) = Len(acc) /\ \A i \in DOMAIN queued : queued[i] = RequestFields(acc[i].payload).message
  BY DEF ArriveInv
<1> HIDE DEF acc, acc2, more
<1>11. CASE IsAccepted(new)
  <2> DEFINE q == Append(queued, message)
             a == Append(acc, new)
  <2>1. queued' = q /\ acc2 = a
    BY <1>3, <1>9, <1>11
  <2>2. /\ q \in Seq(M) /\ Len(q) = Len(queued) + 1 /\ q[Len(queued) + 1] = message
        /\ \A i \in 1..Len(queued) : q[i] = queued[i]
    <3>1. queued \in Seq(M) /\ message \in M
      BY <1>4
    <3> QED
      BY <3>1, AppendProperties
  <2>3. /\ Len(a) = Len(acc) + 1 /\ a[Len(acc) + 1] = new
        /\ \A i \in 1..Len(acc) : a[i] = acc[i]
    <3>1. acc \in Seq(S) /\ new \in S
      BY <1>4, <1>9
    <3> QED
      BY <3>1, AppendProperties
  <2>4. DOMAIN q = 1..(Len(queued) + 1) /\ Len(queued) \in Nat /\ DOMAIN queued = 1..Len(queued)
    BY <1>4, <2>2, LenProperties
  <2> HIDE DEF q, a
  <2>5. \A i \in DOMAIN q : q[i] = RequestFields(a[i].payload).message
    <3> SUFFICES ASSUME NEW i \in DOMAIN q PROVE q[i] = RequestFields(a[i].payload).message
      OBVIOUS
    <3>1. CASE i = Len(queued) + 1
      <4>1. q[i] = message /\ a[i] = new
        BY <1>10, <2>2, <2>3, <3>1
      <4> QED
        BY <1>5, <4>1 DEF message
    <3>2. CASE i # Len(queued) + 1
      <4>1. i \in 1..Len(queued) /\ i \in DOMAIN queued
        BY <2>4, <3>2
      <4>2. q[i] = queued[i] /\ a[i] = acc[i]
        BY <1>10, <2>2, <2>3, <4>1
      <4> QED
        BY <1>10, <4>1, <4>2
    <3> QED
      BY <3>1, <3>2
  <2>6. Len(q) = Len(a)
    BY <1>10, <2>2, <2>3
  <2>7. queued' \in Seq(ToSet(queued'))
    BY <2>1, <2>2, OwnElements
  <2> QED
    BY <1>7, <1>8, <2>1, <2>5, <2>6, <2>7 DEF ArriveInv, acc2
<1>12. CASE ~IsAccepted(new)
  <2>1. queued' = queued /\ acc2 = acc
    BY <1>3, <1>9, <1>12
  <2>2. queued' \in Seq(ToSet(queued'))
    BY <2>1 DEF ArriveInv
  <2> QED
    BY <1>7, <1>8, <1>10, <2>1, <2>2 DEF ArriveInv, acc2
<1> QED
  BY <1>11, <1>12

(***************************************************************************)
(* What is posted of a press is all that was filled in, and the button.    *)
(***************************************************************************)
LEMMA PressReceived ==
    ASSUME SentInv, ArriveInv, Press
    PROVE  ArriveInv'
<1>1. PICK part \in DOMAIN parts :
        /\ parts[part].kind = "form"
        /\ \E button \in Buttons(parts[part].content), shape \in {"wrapped", "flat"},
              answers \in {a \in [Fields(parts[part].content)
                                    -> UNION {Answers(parts[part].content, id) : id \in Fields(parts[part].content)}] :
                              \A id \in Fields(parts[part].content) : a[id] \in Answers(parts[part].content, id)} :
             Receive(CallbackPayload(part, answers, button, shape),
                     [part |-> part, answers |-> answers, button |-> button])
  BY DEF Press
<1> DEFINE content == parts[part].content
<1>2. PICK button \in Buttons(content), shape \in {"wrapped", "flat"},
           answers \in {a \in [Fields(content) -> UNION {Answers(content, id) : id \in Fields(content)}] :
                           \A id \in Fields(content) : a[id] \in Answers(content, id)} :
        Receive(CallbackPayload(part, answers, button, shape),
                [part |-> part, answers |-> answers, button |-> button])
  BY <1>1
<1> DEFINE payload == CallbackPayload(part, answers, button, shape)
           press == [part |-> part, answers |-> answers, button |-> button]
<1>3. IsPress(content, answers, button)
  BY <1>1, <1>2, FormFacts DEF IsPress
<1>4. /\ payload.shape = shape /\ payload.processdata = ""
      /\ payload.resultdata = ResultData(content, answers, button)
  BY DEF CallbackPayload, Payload
<1>5. press.answers = answers /\ press.button = button
  OBVIOUS
<1>6. Receive(payload, press)
  BY <1>2
<1> HIDE DEF content, payload, press
<1>7. CallbackMessage(payload) = MessageLines(payload)
  BY <1>3, <1>4, PressLines
<1>8. RequestFields(payload).message = CallbackMessage(payload)
  <2>1. CASE payload.shape = "wrapped"
    BY <1>4, <2>1 DEF RequestFields
  <2>2. CASE payload.shape = "flat"
    BY <1>4, <2>2 DEF RequestFields
  <2> QED
    BY <1>2, <1>4, <2>1, <2>2
<1>9. Faithful(MessageLines(payload), press)
  BY <1>3, <1>4, <1>5, PressFaithful
<1>10. Faithful(RequestFields(payload).message, press)
  BY <1>7, <1>8, <1>9
<1> QED
  BY <1>6, <1>10, Received

LEMMA ArriveInvHolds == FormsSpec => []ArriveInv
<1>1. FormsInit => ArriveInv
  <2> SUFFICES ASSUME FormsInit PROVE ArriveInv
    OBVIOUS
  <2>1. posts = <<>> /\ queued = <<>>
    BY DEF FormsInit
  <2>2. Accepted = <<>>
    BY <2>1, PickedNone DEF Accepted, Only
  <2>3. <<>> \in Seq(ToSet(<<>>)) /\ ToSet(<<>>) = {} /\ DOMAIN <<>> = {}
    BY EmptySeq, Elements
  <2> QED
    BY <2>1, <2>2, <2>3 DEF ArriveInv
<1>2. ASSUME SentInv, ArriveInv, [FormsNext]_formVars PROVE ArriveInv'
  <2>1. \A message : Faithful(message, NoPress)
    BY DEF Faithful
  <2>2. CASE Press
    BY <1>2, <2>2, PressReceived
  <2>3. CASE Write
    <3>1. \E payload : Receive(payload, NoPress)
      BY <2>3 DEF Write
    <3> QED
      BY <1>2, <2>1, <3>1, Received
  <2>4. CASE PostAgain
    <3>1. PICK i \in DOMAIN posts : Receive(posts[i].payload, posts[i].press)
      BY <2>4 DEF PostAgain
    <3>2. posts[i] \in ToSet(posts)
      BY DEF ToSet
    <3>3. Faithful(RequestFields(posts[i].payload).message, posts[i].press)
      BY <1>2, <3>2 DEF ArriveInv
    <3> QED
      BY <1>2, <3>1, <3>3, Received
  <2>5. CASE UNCHANGED formVars
    <3>1. UNCHANGED <<posts, queued>>
      BY <2>5 DEF formVars
    <3>2. Accepted' = Accepted
      BY <3>1, AcceptedIs
    <3> QED
      BY <1>2, <3>1, <3>2 DEF ArriveInv
  <2> QED
    BY <1>2, <2>2, <2>3, <2>4, <2>5 DEF FormsNext
<1> QED
  BY <1>1, <1>2, SentInvHolds, PTL DEF FormsSpec

(***************************************************************************)
(* Every message that was accepted for a press names every field of the    *)
(* form, with what was left in it, and the button, and nothing else.       *)
(***************************************************************************)
THEOREM AnswersReachTheQueue == FormsSpec => []AnswersArrive
<1>1. ArriveInv => AnswersArrive
  <2> SUFFICES ASSUME ArriveInv PROVE AnswersArrive
    OBVIOUS
  <2>1. posts \in Seq(ToSet(posts)) /\ queued \in Seq(ToSet(queued)) /\ Len(queued) = Len(Accepted)
    BY DEF ArriveInv
  <2>2. ASSUME NEW i \in DOMAIN queued PROVE Faithful(queued[i], Accepted[i].press)
    <3>1. Accepted[i] \in ToSet(posts)
      <4>1. Accepted \in Seq(ToSet(posts)) /\ ToSet(Accepted) \subseteq ToSet(posts)
        <5>1. CASE posts = <<>>
          <6>1. Accepted = <<>>
            BY <5>1, PickedNone DEF Accepted, Only
          <6> QED
            BY <6>1, EmptySeq, Elements
        <5>2. CASE posts # <<>>
          <6>1. Last(posts) \in ToSet(posts)
            BY <2>1, <5>2, Ends
          <6> QED
            BY <2>1, <6>1, AcceptedAppend, AcceptedIs
        <5> QED
          BY <5>1, <5>2
      <4>2. i \in 1..Len(Accepted)
        BY <2>1, LenProperties
      <4> QED
        BY <4>1, <4>2, LenProperties DEF ToSet
    <3>2. queued[i] = RequestFields(Accepted[i].payload).message
      BY DEF ArriveInv
    <3> QED
      BY <3>1, <3>2 DEF ArriveInv
  <2> QED
    BY <2>1, <2>2 DEF AnswersArrive, Faithful
<1> QED
  BY <1>1, ArriveInvHolds, PTL

----------------------------------------------------------------------------
(* What can be left in a field, and the line it gives.                     *)

\* What can be read off a line.
Legible == (AnyText \union Inputs) \ {""}

\* Nothing, or values that can be read.
FilledIn(of) ==
    \/ of = Empty
    \/ \E value \in Seq(Legible), text \in Seq(Legible) :
          value # <<>> /\ text # <<>> /\ of = Filled(value, text)

LEMMA LegibleFacts ==
    /\ \A v \in AnyText : v # "" => v \in Legible
    /\ \A v \in Inputs : v \in Legible
    /\ \A v \in Legible : v # ""
BY LegibleAssumption DEF Legible

LEMMA LegibleKept ==
    ASSUME NEW v \in Seq(Legible)
    PROVE  TextValues(v) = v
<1>1. \A i \in DOMAIN v : v[i] \in Legible
  BY LenProperties, ElementOfSeq
<1>2. {i \in DOMAIN v : v[i] # ""} = {i \in DOMAIN v : v[i] \in Legible}
  BY <1>1, LegibleFacts
<1>3. TextValues(v) = Those(v, Legible)
  BY <1>2 DEF TextValues, Only, Those
<1> QED
  BY <1>3, ThoseAll

(***************************************************************************)
(* A line tells what was left in the field.                                *)
(***************************************************************************)
LEMMA LineOfFilled ==
    ASSUME NEW id, NEW of, FilledIn(of)
    PROVE  LET line == LineOf([requestid |-> id, of |-> of])
           IN of = Filled(IF line.value = <<>> THEN line.shown ELSE line.value, line.shown)
<1> DEFINE item == [requestid |-> id, of |-> of]
           line == LineOf(item)
<1>1. /\ line.shown = IF TextValues(of.text) # <<>> THEN TextValues(of.text) ELSE TextValues(of.value)
      /\ line.value = IF /\ TextValues(of.text) # <<>> /\ TextValues(of.value) # <<>>
                         /\ TextValues(of.text) # TextValues(of.value)
                      THEN TextValues(of.value) ELSE <<>>
  BY DEF LineOf
<1> HIDE DEF line
<1>2. ASSUME NEW value \in Seq(Legible), NEW text \in Seq(Legible), of = Filled(value, text),
             text = <<>> => value = <<>>, value = <<>> => text = <<>>
      PROVE  of = Filled(IF line.value = <<>> THEN line.shown ELSE line.value, line.shown)
  <2>1. of.value = value /\ of.text = text
    BY <1>2 DEF Filled
  <2>2. TextValues(text) = text /\ TextValues(value) = value
    BY LegibleKept
  <2>3. line.shown = text
    BY <1>1, <1>2, <2>1, <2>2
  <2>4. (IF line.value = <<>> THEN line.shown ELSE line.value) = value
    BY <1>1, <1>2, <2>1, <2>2, <2>3
  <2> QED
    BY <1>2, <2>3, <2>4
<1>3. CASE of = Empty
  <2>1. <<>> \in Seq(Legible) /\ of = Filled(<<>>, <<>>)
    BY <1>3, EmptySeq DEF Empty
  <2> QED
    BY <1>2, <2>1 DEF line
<1>4. CASE of # Empty
  BY <1>2, <1>4 DEF FilledIn, line
<1> QED
  BY <1>3, <1>4

LEMMA LineDecides ==
    ASSUME NEW id, NEW a, NEW b, FilledIn(a), FilledIn(b),
           LineOf([requestid |-> id, of |-> a]) = LineOf([requestid |-> id, of |-> b])
    PROVE  a = b
<1> DEFINE la == LineOf([requestid |-> id, of |-> a])
           lb == LineOf([requestid |-> id, of |-> b])
<1>1. a = Filled(IF la.value = <<>> THEN la.shown ELSE la.value, la.shown)
  BY LineOfFilled
<1>2. b = Filled(IF lb.value = <<>> THEN lb.shown ELSE lb.value, lb.shown)
  BY LineOfFilled
<1>3. la = lb
  OBVIOUS
<1> HIDE DEF la, lb
<1> QED
  BY <1>1, <1>2, <1>3

(***************************************************************************)
(* A finite set as a list.                                                 *)
(***************************************************************************)
LEMMA SetAsList ==
    ASSUME NEW S, IsFiniteSet(S), S # {}
    PROVE  /\ SetToSeq(S) \in Seq(S)
           /\ SetToSeq(S) # <<>>
<1> DEFINE n == Cardinality(S)
           s == SetToSeq(S)
<1>1. n \in Nat /\ n # 0
  BY FS_CardinalityType, FS_EmptySet
<1>2. PICK f : f \in Bijection(1..n, S)
  BY FS_CardinalityType DEF ExistsBijection
<1>3. f \in [1..n -> S] /\ IsInjective(f)
  BY <1>2 DEF Bijection, Injection, IsInjective
<1>4. s \in [1..n -> S]
  BY <1>3 DEF SetToSeq
<1> HIDE DEF n, s
<1>5. s \in Seq(S) /\ Len(s) = n
  BY <1>1, <1>4
<1>6. s # <<>>
  BY <1>1, <1>5, EmptySeq
<1> QED
  BY <1>5, <1>6 DEF s

(***************************************************************************)
(* The cells of a content are finitely many.                               *)
(***************************************************************************)
LEMMA ElementsFinite ==
    ASSUME NEW S, NEW s \in Seq(S)
    PROVE  IsFiniteSet(ToSet(s))
<1> DEFINE T == {t \in Seq(S) : IsFiniteSet(ToSet(t))}
<1>1. <<>> \in T
  BY Elements, EmptySeq, FS_EmptySet
<1>2. ASSUME NEW t \in Seq(S), NEW e \in S, t \in T
      PROVE  Append(t, e) \in T
  <2>1. ToSet(Append(t, e)) = ToSet(t) \union {e}
    BY Elements
  <2>2. IsFiniteSet(ToSet(t) \union {e})
    BY <1>2, FS_AddElement
  <2>3. Append(t, e) \in Seq(S)
    BY AppendProperties
  <2> QED
    BY <2>1, <2>2, <2>3
<1> HIDE DEF T
<1>3. Seq(S) \subseteq T
  BY <1>1, <1>2, ListInduction
<1> QED
  BY <1>3 DEF T

LEMMA CellsFinite ==
    ASSUME NEW content \in AnyContent
    PROVE  Cells(content) \subseteq AnyCell /\ IsFiniteSet(Cells(content))
<1> DEFINE rows == content.rows
<1>1. rows \in Seq(Seq(AnyCell))
  BY DEF AnyContent, Row
<1>2. Cells(content) = UNION {ToSet(row) : row \in ToSet(rows)}
  BY DEF Cells
<1> HIDE DEF rows
<1>3. FlattenSeq(rows) \in Seq(AnyCell) /\ ToSet(FlattenSeq(rows)) = Cells(content)
  BY <1>1, <1>2, FlattenTyped, FlattenElements
<1> QED
  BY <1>3, ElementsFinite, Elements

(***************************************************************************)
(* What can be chosen in a form can be read, and buttons that look alike   *)
(* are alike.                                                              *)
(***************************************************************************)
IsClear(content) ==
    /\ \A cell \in Cells(content) :
          /\ cell.type \in {"radio", "checkbox"} => cell.text \in Legible /\ cell.value \in Legible
          /\ cell.type = "select" => \A o \in ToSet(cell.options) : o.label \in Legible /\ o.value \in Legible
    /\ \A one \in Buttons(content), other \in Buttons(content) :
          /\ one.text \in Legible
          /\ one.processid = other.processid /\ one.text = other.text => one.value = other.value

LEMMA FormClear ==
    ASSUME SentInv, NEW part \in DOMAIN parts, parts[part].kind = "form"
    PROVE  IsClear(parts[part].content)
<1> DEFINE content == parts[part].content
           cells == UNION {Cells(IntentToBlock(intent)) : intent \in ToSet(reply)}
<1>1. content \in AnyContent /\ Cells(content) \subseteq CellsOfReply(reply)
  BY FormFacts
<1>2. CellsOfReply(reply) = cells
  BY DEF CellsOfReply, BlocksOf
<1>3. reply \in Replies
  BY DEF SentInv
<1>4. /\ \A cell \in cells :
            /\ cell.type \in {"radio", "checkbox"} => cell.text # "" /\ cell.value # ""
            /\ cell.type = "select" => \A o \in ToSet(cell.options) : o.label # "" /\ o.value # ""
      /\ \A one, other \in {cell \in cells : cell.type = "button"} :
            /\ one.text # ""
            /\ one.processid = other.processid /\ one.text = other.text => one.value = other.value
  BY <1>3, LegibleAssumption
<1> HIDE DEF content, cells
<1>5. \A cell \in Cells(content) :
         /\ cell \in cells
         /\ cell.type \in CellType /\ cell.text \in AnyText /\ cell.value \in AnyText /\ cell.options \in Seq(Option)
  BY <1>1, <1>2, CellsFinite DEF AnyCell
<1>6. ASSUME NEW cell \in Cells(content)
      PROVE  /\ cell.type \in {"radio", "checkbox"} => cell.text \in Legible /\ cell.value \in Legible
             /\ cell.type = "select" => \A o \in ToSet(cell.options) : o.label \in Legible /\ o.value \in Legible
  <2>1. \A o \in ToSet(cell.options) : o.label \in AnyText /\ o.value \in AnyText
    <3>1. ToSet(cell.options) \subseteq Option
      BY <1>5, Elements
    <3> QED
      BY <3>1 DEF Option
  <2> QED
    BY <1>4, <1>5, <2>1, LegibleFacts
<1>7. ASSUME NEW one \in Buttons(content), NEW other \in Buttons(content)
      PROVE  /\ one.text \in Legible
             /\ one.processid = other.processid /\ one.text = other.text => one.value = other.value
  <2>1. /\ one \in Cells(content) /\ one.type = "button"
        /\ other \in Cells(content) /\ other.type = "button"
    BY DEF Buttons
  <2>2. one \in cells /\ other \in cells /\ one.text \in AnyText
    BY <1>5, <2>1
  <2> QED
    BY <1>4, <2>1, <2>2, LegibleFacts
<1> QED
  BY <1>6, <1>7 DEF IsClear, content

LEMMA OneFilledIn ==
    ASSUME NEW value \in Legible, NEW text \in Legible
    PROVE  FilledIn(Filled(<<value>>, <<text>>))
<1>1. <<value>> \in Seq(Legible) /\ <<text>> \in Seq(Legible)
  OBVIOUS
<1>2. <<value>> # <<>> /\ <<text>> # <<>>
  OBVIOUS
<1> QED
  BY <1>1, <1>2 DEF FilledIn

LEMMA AnswerFilledIn ==
    ASSUME NEW content \in AnyContent, IsClear(content), NEW id, NEW a \in Answers(content, id)
    PROVE  FilledIn(a)
<1> DEFINE of(types) == {cell \in Cells(content) : cell.processid = id /\ cell.type \in types}
           Chosen(cells) == LET s == SetToSeq(cells)
                            IN Filled([i \in DOMAIN s |-> s[i].value], [i \in DOMAIN s |-> s[i].text])
<1>1. \/ a = Empty
      \/ \E v \in Inputs : a = Filled(<<v>>, <<v>>)
      \/ \E cell \in of({"radio"}) : a = Filled(<<cell.value>>, <<cell.text>>)
      \/ \E s \in (SUBSET of({"checkbox"})) \ {{}} : a = Chosen(s)
      \/ \E cell \in of({"select"}) : \E o \in ToSet(cell.options) : a = Filled(<<o.value>>, <<o.label>>)
  BY DEF Answers
<1>2. CASE a = Empty
  BY <1>2 DEF FilledIn
<1>3. ASSUME NEW v \in Inputs, a = Filled(<<v>>, <<v>>) PROVE FilledIn(a)
  BY <1>3, LegibleFacts, OneFilledIn
<1>4. ASSUME NEW cell \in of({"radio"}), a = Filled(<<cell.value>>, <<cell.text>>) PROVE FilledIn(a)
  <2>1. cell.value \in Legible /\ cell.text \in Legible
    BY DEF IsClear
  <2> QED
    BY <1>4, <2>1, OneFilledIn
<1>5. ASSUME NEW s \in (SUBSET of({"checkbox"})) \ {{}}, a = Chosen(s) PROVE FilledIn(a)
  <2> DEFINE chosen == SetToSeq(s)
             value == [i \in DOMAIN chosen |-> chosen[i].value]
             text == [i \in DOMAIN chosen |-> chosen[i].text]
  <2>1. IsFiniteSet(s) /\ s # {}
    <3>1. s \in SUBSET Cells(content)
      OBVIOUS
    <3> QED
      BY <3>1, CellsFinite, FS_Subset
  <2>2. \A cell \in s : cell.value \in Legible /\ cell.text \in Legible
    BY DEF IsClear
  <2>3. chosen \in Seq(s) /\ chosen # <<>>
    BY <2>1, SetAsList
  <2>4. a = Filled(value, text)
    BY <1>5
  <2> HIDE DEF chosen
  <2>5. Len(chosen) \in Nat /\ DOMAIN chosen = 1..Len(chosen) /\ \A i \in 1..Len(chosen) : chosen[i] \in s
    BY <2>3, LenProperties, ElementOfSeq
  <2>6. Len(chosen) # 0
    BY <2>3, EmptySeq
  <2>7. value \in Seq(Legible) /\ Len(value) = Len(chosen)
    BY <2>2, <2>5
  <2>8. text \in Seq(Legible) /\ Len(text) = Len(chosen)
    BY <2>2, <2>5
  <2> HIDE DEF value, text
  <2>9. value # <<>> /\ text # <<>>
    BY <2>6, <2>7, <2>8, EmptySeq
  <2> QED
    BY <2>4, <2>7, <2>8, <2>9 DEF FilledIn
<1>6. ASSUME NEW cell \in of({"select"}), NEW o \in ToSet(cell.options), a = Filled(<<o.value>>, <<o.label>>)
      PROVE  FilledIn(a)
  <2>1. o.value \in Legible /\ o.label \in Legible
    BY DEF IsClear
  <2> QED
    BY <1>6, <2>1, OneFilledIn
<1> QED
  BY <1>1, <1>2, <1>3, <1>4, <1>5, <1>6

(***************************************************************************)
(* Two presses with the same lines post the same.                          *)
(***************************************************************************)
LEMMA ResultDataIs ==
    ASSUME NEW content, NEW answers, NEW button
    PROVE  LET ids == PressIds(content, answers, button)
           IN ResultData(content, answers, button) = [i \in DOMAIN ids |-> ValueOf(answers, button, ids[i])]
<1> DEFINE requestid == content.requestid
<1>1. {i \in DOMAIN requestid : requestid[i] \in PostedIds(answers, button)}
         = {i \in DOMAIN requestid : requestid[i] \in DOMAIN answers \union {button.processid} \union ToSet(SystemRequestIds)}
  BY DEF PostedIds, System
<1> QED
  BY <1>1 DEF ResultData, Only, PressIds, Those

LEMMA ButtonLine ==
    ASSUME NEW id, NEW value, NEW text \in Legible
    PROVE  LineOf([requestid |-> id, of |-> Filled(<<value>>, <<text>>)]).shown = <<text>>
<1> DEFINE item == [requestid |-> id, of |-> Filled(<<value>>, <<text>>)]
<1>1. item.of.text = <<text>>
  BY DEF Filled
<1>2. TextValues(<<text>>) = <<text>>
  <2>1. <<text>> \in Seq(Legible)
    OBVIOUS
  <2> QED
    BY <2>1, LegibleKept
<1>3. <<text>> # <<>>
  OBVIOUS
<1>4. LineOf(item).shown = IF TextValues(item.of.text) # <<>> THEN TextValues(item.of.text) ELSE TextValues(item.of.value)
  BY DEF LineOf
<1> HIDE DEF item
<1>5. LineOf(item).shown = <<text>>
  BY <1>1, <1>2, <1>3, <1>4
<1> QED
  BY <1>5 DEF item

LEMMA PressDecided ==
    ASSUME NEW content, IsClear(content),
           NEW answers, NEW button, IsPress(content, answers, button),
           NEW others, NEW other, IsPress(content, others, other),
           \A id \in DOMAIN answers : FilledIn(answers[id]),
           \A id \in DOMAIN others : FilledIn(others[id]),
           LinesOf(answers, button) = LinesOf(others, other)
    PROVE  ResultData(content, answers, button) = ResultData(content, others, other)
<1> DEFINE L == LineIds(answers, button)
           K == LineIds(others, other)
           V(id) == ValueOf(answers, button, id)
           W(id) == ValueOf(others, other, id)
<1>1. \A id : LineOf(V(id)).requestid = id /\ LineOf(W(id)).requestid = id
  BY LineTells DEF ValueOf
<1>2. LinesOf(answers, button) = {LineOf(V(id)) : id \in L} /\ LinesOf(others, other) = {LineOf(W(id)) : id \in K}
  BY DEF LinesOf
<1>3. \A id \in L : id \in K /\ LineOf(V(id)) = LineOf(W(id))
  <2> HIDE DEF V, W, L, K
  <2> SUFFICES ASSUME NEW id \in L PROVE id \in K /\ LineOf(V(id)) = LineOf(W(id))
    OBVIOUS
  <2>1. PICK k \in K : LineOf(V(id)) = LineOf(W(k))
    BY <1>2
  <2>2. k = id
    BY <1>1, <2>1
  <2> QED
    BY <2>1, <2>2
<1>4. \A id \in K : id \in L
  <2> HIDE DEF V, W, L, K
  <2> SUFFICES ASSUME NEW id \in K PROVE id \in L
    OBVIOUS
  <2>1. PICK l \in L : LineOf(W(id)) = LineOf(V(l))
    BY <1>2
  <2>2. l = id
    BY <1>1, <2>1
  <2> QED
    BY <2>2
<1>5. DOMAIN answers = DOMAIN others /\ L = K
  BY <1>3, <1>4 DEF IsPress
<1>6. ASSUME NEW id \in L PROVE V(id) = W(id)
  <2>1. LineOf(V(id)) = LineOf(W(id))
    BY <1>3
  <2>2. CASE id \in DOMAIN answers
    <3>1. V(id) = [requestid |-> id, of |-> answers[id]] /\ W(id) = [requestid |-> id, of |-> others[id]]
      BY <1>5, <2>2 DEF ValueOf
    <3>2. FilledIn(answers[id]) /\ FilledIn(others[id])
      BY <1>5, <2>2
    <3>3. LineOf([requestid |-> id, of |-> answers[id]]) = LineOf([requestid |-> id, of |-> others[id]])
      BY <2>1, <3>1
    <3>4. answers[id] = others[id]
      BY <3>2, <3>3, LineDecides
    <3> QED
      BY <3>1, <3>4
  <2>3. CASE id \notin DOMAIN answers
    <3>1. id = button.processid /\ id = other.processid /\ id \notin DOMAIN others
      BY <1>5, <2>3 DEF LineIds
    <3>2. /\ V(id) = [requestid |-> id, of |-> Filled(<<button.value>>, <<button.text>>)]
          /\ W(id) = [requestid |-> id, of |-> Filled(<<other.value>>, <<other.text>>)]
      BY <2>3, <3>1 DEF ValueOf
    <3>3. button \in Buttons(content) /\ other \in Buttons(content)
      BY DEF IsPress
    <3>4. button.text \in Legible /\ other.text \in Legible
      BY <3>3 DEF IsClear
    <3>5. LineOf(V(id)).shown = <<button.text>> /\ LineOf(W(id)).shown = <<other.text>>
      BY <3>2, <3>4, ButtonLine
    <3>6. button.text = other.text
      BY <2>1, <3>5
    <3>7. button.value = other.value
      BY <3>1, <3>3, <3>6 DEF IsClear
    <3> QED
      BY <3>2, <3>6, <3>7
  <2> QED
    BY <2>2, <2>3
<1>7. ASSUME NEW id \in System PROVE V(id) = W(id)
  <2>1. id \notin L /\ id \notin K
    BY IdsAsked
  <2> QED
    BY <2>1 DEF ValueOf, LineIds
<1>8. PostedIds(answers, button) = L \union System /\ PostedIds(others, other) = K \union System
  BY DEF PostedIds, LineIds
<1> DEFINE ids == PressIds(content, answers, button)
<1>9. PressIds(content, others, other) = ids
  BY <1>5, <1>8 DEF PressIds
<1>10. \A i \in DOMAIN ids : ids[i] \in L \union System
  <2>1. ToSet(ids) \subseteq PostedIds(answers, button)
    BY PressPosted
  <2>2. \A i \in DOMAIN ids : ids[i] \in ToSet(ids)
    BY DEF ToSet
  <2> QED
    BY <1>8, <2>1, <2>2
<1>11. \A i \in DOMAIN ids : V(ids[i]) = W(ids[i])
  <2> HIDE DEF ids, L, V, W
  <2> QED
    BY <1>6, <1>7, <1>10
<1>12. /\ ResultData(content, answers, button) = [i \in DOMAIN ids |-> V(ids[i])]
       /\ ResultData(content, others, other) = [i \in DOMAIN ids |-> W(ids[i])]
  BY <1>9, ResultDataIs
<1> QED
  BY <1>11, <1>12

----------------------------------------------------------------------------
(* What is posted, and the id it has.                                      *)

\* A press of a form that was sent, with what was left in its fields.
IsAnswered(part, answers, button) ==
    /\ IsPress(part.content, answers, button) /\ IsClear(part.content)
    /\ \A id \in DOMAIN answers : FilledIn(answers[id])

FlatPayload(sent, place, answers, button) ==
    Payload("flat", <<"notification", place>>, "", ResultData(sent[place].content, answers, button))

WakeUpPayload == Payload("wrapped", <<"-1">>, WakeUp, <<>>)

\* A post with a message id of its own, a flat one of a press, or the wake-up.
IsOwn(s, payload) ==
    /\ payload.shape \in {"wrapped", "plain", "broken"}
    /\ \E n \in DOMAIN s : payload.messageid = <<"message", n - 1>> /\ s[n].payload = payload

IsFlat(sent, payload) ==
    \E place \in DOMAIN sent : \E answers, button :
        IsAnswered(sent[place], answers, button) /\ payload = FlatPayload(sent, place, answers, button)

Known(s, sent, payload) == IsOwn(s, payload) \/ IsFlat(sent, payload) \/ payload = WakeUpPayload

IsIgnored(payload) == RequestFields(payload).message = <<>> \/ IsWakeUp(RequestFields(payload))

LEMMA StatusIs ==
    ASSUME NEW payload
    PROVE  Status(payload) = IF payload.shape = "broken" THEN "rejected"
                             ELSE IF IsIgnored(payload) THEN "ignored"
                             ELSE IF RequestFields(payload).messageid \in seen THEN "duplicate"
                             ELSE "accepted"
BY DEF Status, IsIgnored

LEMMA TupleFacts ==
    /\ \A a, b, c, d : <<a, b>> = <<c, d>> => a = c /\ b = d
    /\ \A a, b, c, d, e, f : <<a, b, c>> = <<d, e, f>> => a = d /\ b = e /\ c = f
    /\ \A a, b, c, d, e : <<a, b>> # <<c, d, e>>
<1>1. ASSUME NEW a, NEW b, NEW c, NEW d, NEW e PROVE <<a, b>> # <<c, d, e>>
  <2>1. Len(<<a, b>>) = 2 /\ Len(<<c, d, e>>) = 3
    OBVIOUS
  <2> QED
    BY <2>1
<1>2. ASSUME NEW a, NEW b, NEW c, NEW d, <<a, b>> = <<c, d>> PROVE a = c /\ b = d
  BY <1>2
<1>3. ASSUME NEW a, NEW b, NEW c, NEW d, NEW e, NEW f, <<a, b, c>> = <<d, e, f>> PROVE a = d /\ b = e /\ c = f
  BY <1>3
<1> QED
  BY <1>1, <1>2, <1>3

LEMMA WakeUpIgnored == IsIgnored(WakeUpPayload)
<1> DEFINE payload == WakeUpPayload
<1>1. payload.shape = "wrapped" /\ payload.messageid = <<"-1">> /\ payload.processdata = WakeUp
  BY DEF WakeUpPayload, Payload
<1>2. WakeUp # ""
  BY DEF WakeUp
<1> HIDE DEF payload
<1>2a. payload.processdata # ""
  BY <1>1, <1>2, Zenon
<1>3. RequestFields(payload)
         = [messageid |-> payload.messageid,
            message |-> IF payload.processdata # "" THEN Said(payload.processdata) ELSE CallbackMessage(payload)]
  BY <1>1 DEF RequestFields
<1>4. RequestFields(payload).messageid = <<"-1">> /\ RequestFields(payload).message = Said(WakeUp)
  <2>1. /\ RequestFields(payload).messageid = payload.messageid
        /\ RequestFields(payload).message = IF payload.processdata # "" THEN Said(payload.processdata)
                                            ELSE CallbackMessage(payload)
    <3> DEFINE id == payload.messageid
               message == IF payload.processdata # "" THEN Said(payload.processdata) ELSE CallbackMessage(payload)
    <3>1. RequestFields(payload) = [messageid |-> id, message |-> message]
      BY <1>3
    <3> HIDE DEF id, message
    <3>2. RequestFields(payload).messageid = id /\ RequestFields(payload).message = message
      BY <3>1
    <3> QED
      BY <3>2 DEF id, message
  <2>2. RequestFields(payload).message = Said(payload.processdata)
    BY <1>2a, <2>1, Zenon
  <2> QED
    BY <1>1, <2>1, <2>2, Zenon
<1>5. IsWakeUp(RequestFields(payload))
  BY <1>4 DEF IsWakeUp
<1> QED
  BY <1>5 DEF IsIgnored, payload

LEMMA OwnId ==
    ASSUME NEW payload, payload.shape \in {"wrapped", "plain"}
    PROVE  RequestFields(payload).messageid = payload.messageid
<1>1. CASE payload.shape = "wrapped"
  BY <1>1 DEF RequestFields
<1>2. CASE payload.shape = "plain"
  BY <1>2 DEF RequestFields
<1> QED
  BY <1>1, <1>2

LEMMA FlatId ==
    ASSUME NEW sent, NEW place, NEW answers, NEW button
    PROVE  LET payload == FlatPayload(sent, place, answers, button)
           IN RequestFields(payload).messageid = <<<<"notification", place>>, MessageLines(payload), "">>
<1> DEFINE payload == FlatPayload(sent, place, answers, button)
<1>1. payload.shape = "flat" /\ payload.messageid = <<"notification", place>> /\ payload.processdata = ""
  BY DEF FlatPayload, Payload
<1> HIDE DEF payload
<1>2. RequestFields(payload).messageid = CallbackMessageId(payload)
  BY <1>1 DEF RequestFields
<1> QED
  BY <1>1, <1>2 DEF CallbackMessageId, payload

(***************************************************************************)
(* Posts that count and have the same id are the same.                     *)
(***************************************************************************)
LEMMA SameId ==
    ASSUME NEW S, NEW s \in Seq(S), NEW sent,
           NEW one, Known(s, sent, one), one.shape # "broken", ~IsIgnored(one),
           NEW other, Known(s, sent, other), other.shape # "broken", ~IsIgnored(other),
           RequestFields(one).messageid = RequestFields(other).messageid
    PROVE  one = other
<1>1. one # WakeUpPayload /\ other # WakeUpPayload
  BY WakeUpIgnored
<1>2. ASSUME NEW payload, IsOwn(s, payload), payload.shape # "broken"
      PROVE  \E n \in DOMAIN s : RequestFields(payload).messageid = <<"message", n - 1>> /\ s[n].payload = payload
  BY <1>2, OwnId DEF IsOwn
<1>3. ASSUME NEW p, NEW q, IsOwn(s, p), p.shape # "broken", IsFlat(sent, q)
      PROVE  RequestFields(p).messageid # RequestFields(q).messageid
  <2>1. PICK n \in DOMAIN s : RequestFields(p).messageid = <<"message", n - 1>>
    BY <1>2, <1>3
  <2>2. \E place, lines : RequestFields(q).messageid = <<<<"notification", place>>, lines, "">>
    BY <1>3, FlatId DEF IsFlat
  <2>3. PICK place, lines : RequestFields(q).messageid = <<<<"notification", place>>, lines, "">>
    BY <2>2
  <2>4. <<"message", n - 1>> # <<<<"notification", place>>, lines, "">>
    BY TupleFacts, Zenon
  <2> QED
    BY <2>1, <2>3, <2>4, Zenon
<1>4. CASE IsOwn(s, one) /\ IsOwn(s, other)
  <2>1. PICK n \in DOMAIN s : RequestFields(one).messageid = <<"message", n - 1>> /\ s[n].payload = one
    BY <1>2, <1>4
  <2>2. PICK m \in DOMAIN s : RequestFields(other).messageid = <<"message", m - 1>> /\ s[m].payload = other
    BY <1>2, <1>4
  <2>3. <<"message", n - 1>> = <<"message", m - 1>>
    BY <2>1, <2>2, Zenon
  <2>4. n - 1 = m - 1
    BY <2>3, TupleFacts, Zenon
  <2>5. n \in Int /\ m \in Int
    BY LenProperties
  <2>6. n = m
    BY <2>4, <2>5
  <2> QED
    BY <2>1, <2>2, <2>6
<1>5. CASE IsFlat(sent, one) /\ IsFlat(sent, other)
  <2>1. PICK place \in DOMAIN sent : \E answers, button :
           IsAnswered(sent[place], answers, button) /\ one = FlatPayload(sent, place, answers, button)
    BY <1>5 DEF IsFlat
  <2>2. PICK place2 \in DOMAIN sent : \E answers, button :
           IsAnswered(sent[place2], answers, button) /\ other = FlatPayload(sent, place2, answers, button)
    BY <1>5 DEF IsFlat
  <2>3. PICK answers, button :
           IsAnswered(sent[place], answers, button) /\ one = FlatPayload(sent, place, answers, button)
    BY <2>1
  <2>4. PICK answers2, button2 :
           IsAnswered(sent[place2], answers2, button2) /\ other = FlatPayload(sent, place2, answers2, button2)
    BY <2>2
  <2>5. /\ RequestFields(one).messageid = <<<<"notification", place>>, MessageLines(one), "">>
        /\ RequestFields(other).messageid = <<<<"notification", place2>>, MessageLines(other), "">>
    BY <2>3, <2>4, FlatId
  <2>6. place = place2 /\ MessageLines(one) = MessageLines(other)
    <3> DEFINE lines == MessageLines(one)
               lines2 == MessageLines(other)
    <3>1. <<<<"notification", place>>, lines, "">> = <<<<"notification", place2>>, lines2, "">>
      BY <2>5, Zenon
    <3> HIDE DEF lines, lines2
    <3>2. <<"notification", place>> = <<"notification", place2>> /\ lines = lines2
      BY <3>1, TupleFacts, Zenon
    <3>3. place = place2
      BY <3>2, TupleFacts, Zenon
    <3> QED
      BY <3>2, <3>3 DEF lines, lines2
  <2> DEFINE content == sent[place].content
  <2>7. one.resultdata = ResultData(content, answers, button) /\ other.resultdata = ResultData(content, answers2, button2)
    BY <2>3, <2>4, <2>6 DEF FlatPayload, Payload
  <2>8. /\ IsPress(content, answers, button) /\ IsPress(content, answers2, button2) /\ IsClear(content)
        /\ \A id \in DOMAIN answers : FilledIn(answers[id])
        /\ \A id \in DOMAIN answers2 : FilledIn(answers2[id])
    BY <2>3, <2>4, <2>6 DEF IsAnswered
  <2>9. /\ ToSet(MessageLines(one)) = LinesOf(answers, button)
        /\ ToSet(MessageLines(other)) = LinesOf(answers2, button2)
    <3> HIDE DEF content
    <3> QED
      BY <2>7, <2>8, PressLines
  <2>10. ResultData(content, answers, button) = ResultData(content, answers2, button2)
    <3> HIDE DEF content
    <3>1. LinesOf(answers, button) = LinesOf(answers2, button2)
      BY <2>6, <2>9
    <3> QED
      BY <2>8, <3>1, PressDecided
  <2> QED
    BY <2>3, <2>4, <2>6, <2>10 DEF FlatPayload
<1> QED
  BY <1>1, <1>3, <1>4, <1>5 DEF Known

(***************************************************************************)
(* The answer to a post is decided by the post and the ids seen so far.    *)
(***************************************************************************)
IsJudged(post, ids) ==
    IF post.payload.shape = "broken" THEN post.status = "rejected"
    ELSE IF IsIgnored(post.payload) THEN post.status = "ignored"
    ELSE /\ post.status \in {"accepted", "duplicate"}
         /\ RequestFields(post.payload).messageid \in ids

CountInv ==
    /\ posts \in Seq(ToSet(posts))
    /\ \A post \in ToSet(posts) : Known(posts, parts, post.payload) /\ IsJudged(post, seen)
    /\ \A id \in seen : \E post \in ToSet(posts) :
          IsAccepted(post) /\ RequestFields(post.payload).messageid = id
    /\ PressCounted

\* A post is new, a repeat, or counts for nothing, as those of its kind did.
Before(s, i) == {j \in 1..(i - 1) : s[j].payload = s[i].payload}

CountsOnce(s, i) ==
    /\ s[i].status = "duplicate" => Before(s, i) # {}
    /\ s[i].status = "accepted" => Before(s, i) = {}
    /\ s[i].status # "duplicate" /\ s[i].status # "accepted" =>
          \A j \in Before(s, i) : s[j].status = s[i].status

LEMMA CountedIs ==
    /\ PressCounted <=> \A i \in DOMAIN posts : CountsOnce(posts, i)
    /\ PressCounted' <=> \A i \in DOMAIN posts' : CountsOnce(posts', i)
<1>1. PressCounted <=> \A i \in DOMAIN posts : CountsOnce(posts, i)
  BY DEF PressCounted, CountsOnce, Before
<1>2. PressCounted' <=> \A i \in DOMAIN posts' : CountsOnce(posts', i)
  BY DEF PressCounted, CountsOnce, Before
<1> QED
  BY <1>1, <1>2

(***************************************************************************)
(* A duplicate has the id of a post that was accepted, and is that post;   *)
(* a post that was there before has an id that was seen.                   *)
(***************************************************************************)
LEMMA Counted ==
    ASSUME CountInv, NEW payload, NEW press, Receive(payload, press),
           LET new == [payload |-> payload, press |-> press, status |-> Status(payload)]
           IN Known(Append(posts, new), parts, payload)
    PROVE  CountInv'
<1> DEFINE new == [payload |-> payload, press |-> press, status |-> Status(payload)]
           S == ToSet(posts) \union {new}
           more == Append(posts, new)
           n == Len(posts)
           id == RequestFields(payload).messageid
<1>1. posts' = more /\ parts' = parts
  BY DEF Receive
<1>2. seen' = IF Status(payload) = "accepted" THEN seen \union {id} ELSE seen
  BY DEF Receive
<1>3. new.payload = payload /\ new.status = Status(payload)
  OBVIOUS
<1>4. Known(more, parts, payload)
  OBVIOUS
<1>5. posts \in Seq(S) /\ new \in S
  <2>1. posts \in Seq(ToSet(posts))
    BY DEF CountInv
  <2> HIDE DEF new
  <2> QED
    BY <2>1
<1> HIDE DEF new, S
<1>6. /\ more \in Seq(S) /\ Len(more) = n + 1 /\ more[n + 1] = new
      /\ \A k \in 1..n : more[k] = posts[k]
  <2>1. posts \in Seq(S) /\ new \in S
    BY <1>5
  <2> QED
    BY <2>1, AppendProperties
<1>7. ToSet(more) = ToSet(posts) \union {new}
  <2>1. posts \in Seq(S) /\ new \in S
    BY <1>5
  <2> QED
    BY <2>1, Elements
<1>8. n \in Nat /\ DOMAIN posts = 1..n /\ DOMAIN more = 1..(n + 1)
  BY <1>5, <1>6, LenProperties
<1>9. more \in Seq(ToSet(more))
  BY <1>6, OwnElements
<1> HIDE DEF more, n, id
<1>10. ASSUME NEW p, Known(posts, parts, p) PROVE Known(more, parts, p)
  <2>1. \A k \in DOMAIN posts : k \in DOMAIN more /\ more[k] = posts[k]
    BY <1>6, <1>8
  <2>2. IsOwn(posts, p) => IsOwn(more, p)
    BY <2>1 DEF IsOwn
  <2> QED
    BY <1>10, <2>2 DEF Known
<1>11. seen \subseteq seen'
  BY <1>2
<1>12. IsJudged(new, seen')
  <2>1. Status(payload) = IF payload.shape = "broken" THEN "rejected"
                          ELSE IF IsIgnored(payload) THEN "ignored"
                          ELSE IF id \in seen THEN "duplicate"
                          ELSE "accepted"
    BY StatusIs DEF id
  <2>2. CASE payload.shape = "broken"
    BY <1>3, <2>1, <2>2 DEF IsJudged
  <2>3. CASE payload.shape # "broken" /\ IsIgnored(payload)
    BY <1>3, <2>1, <2>3 DEF IsJudged
  <2>4. CASE payload.shape # "broken" /\ ~IsIgnored(payload)
    <3>1. new.status \in {"accepted", "duplicate"}
      BY <1>3, <2>1, <2>4
    <3>2. id \in seen'
      BY <1>2, <2>1, <2>4
    <3> QED
      BY <1>3, <2>4, <3>1, <3>2 DEF IsJudged, id
  <2> QED
    BY <2>2, <2>3, <2>4
<1>13. ASSUME NEW post \in ToSet(more)
       PROVE  Known(more, parts, post.payload) /\ IsJudged(post, seen')
  <2>1. CASE post = new
    BY <1>3, <1>4, <1>12, <2>1 DEF more
  <2>2. CASE post # new
    <3>1. Known(posts, parts, post.payload) /\ IsJudged(post, seen)
      BY <1>7, <2>2 DEF CountInv
    <3>2. IsJudged(post, seen')
      BY <1>11, <3>1 DEF IsJudged
    <3> QED
      BY <1>10, <3>1, <3>2
  <2> QED
    BY <2>1, <2>2
<1>14. ASSUME NEW i \in seen'
       PROVE  \E post \in ToSet(more) : IsAccepted(post) /\ RequestFields(post.payload).messageid = i
  <2>1. CASE i \in seen
    BY <1>7, <2>1 DEF CountInv
  <2>2. CASE i \notin seen
    <3>1. i = id /\ Status(payload) = "accepted"
      BY <1>2, <2>2
    <3>2. IsAccepted(new) /\ RequestFields(new.payload).messageid = i
      BY <1>3, <3>1 DEF IsAccepted, id
    <3> QED
      BY <1>7, <3>2
  <2> QED
    BY <2>1, <2>2
<1>15. ASSUME NEW i \in DOMAIN more
       PROVE  CountsOnce(more, i)
  <2>1. CASE i \in DOMAIN posts
    <3>1. CountsOnce(posts, i)
      BY <2>1, CountedIs DEF CountInv
    <3>2. more[i] = posts[i] /\ \A j \in 1..(i - 1) : more[j] = posts[j]
      BY <1>6, <1>8, <2>1
    <3>3. Before(more, i) = Before(posts, i)
      BY <3>2 DEF Before
    <3>4. \A j \in Before(posts, i) : more[j] = posts[j]
      BY <3>2 DEF Before
    <3> QED
      BY <3>1, <3>2, <3>3, <3>4 DEF CountsOnce
  <2>2. CASE i = n + 1
    <3> DEFINE before == Before(more, i)
    <3>1. more[i] = new /\ i - 1 = n
      BY <1>6, <1>8, <2>2
    <3>2. ASSUME NEW j \in before
          PROVE  /\ more[j] \in ToSet(posts) /\ more[j].payload = payload
                 /\ IsJudged(more[j], seen)
      <4>1. j \in 1..n /\ more[j] = posts[j] /\ more[j].payload = payload
        BY <1>3, <1>6, <3>1 DEF Before
      <4>2. more[j] \in ToSet(posts)
        BY <1>8, <4>1 DEF ToSet
      <4> QED
        BY <4>1, <4>2 DEF CountInv
    <3>3. ASSUME NEW post \in ToSet(posts), post.payload = payload PROVE before # {}
      <4>1. PICK j \in DOMAIN posts : posts[j] = post
        BY DEF ToSet
      <4>2. j \in before
        BY <1>3, <1>6, <1>8, <3>1, <3>3, <4>1 DEF Before
      <4> QED
        BY <4>2
    <3> HIDE DEF before
    <3>4. Status(payload) = IF payload.shape = "broken" THEN "rejected"
                            ELSE IF IsIgnored(payload) THEN "ignored"
                            ELSE IF id \in seen THEN "duplicate"
                            ELSE "accepted"
      BY StatusIs DEF id
    <3>5. CASE new.status = "duplicate"
      <4>1. payload.shape # "broken" /\ ~IsIgnored(payload) /\ id \in seen
        BY <1>3, <3>4, <3>5
      <4>2. PICK post \in ToSet(posts) : IsAccepted(post) /\ RequestFields(post.payload).messageid = id
        BY <4>1 DEF CountInv
      <4>3. /\ Known(more, parts, post.payload)
            /\ post.payload.shape # "broken" /\ ~IsIgnored(post.payload)
        <5>1. Known(posts, parts, post.payload) /\ IsJudged(post, seen)
          BY DEF CountInv
        <5>2. post.payload.shape # "broken" /\ ~IsIgnored(post.payload)
          BY <4>2, <5>1 DEF IsJudged, IsAccepted
        <5> QED
          BY <1>10, <5>1, <5>2
      <4>4. Known(more, parts, payload)
        BY <1>4 DEF more
      <4>5. RequestFields(post.payload).messageid = RequestFields(payload).messageid
        BY <4>2 DEF id
      <4>6. post.payload = payload
        BY <1>6, <4>1, <4>3, <4>4, <4>5, SameId
      <4>7. before # {}
        BY <3>3, <4>6
      <4> QED
        BY <3>1, <3>5, <4>7 DEF before, CountsOnce
    <3>6. CASE new.status = "accepted"
      <4>1. payload.shape # "broken" /\ ~IsIgnored(payload) /\ id \notin seen
        BY <1>3, <3>4, <3>6
      <4>2. ASSUME NEW j \in before PROVE FALSE
        <5>1. IsJudged(more[j], seen) /\ more[j].payload = payload
          BY <3>2
        <5>2. id \in seen
          BY <4>1, <5>1 DEF IsJudged, id
        <5> QED
          BY <4>1, <5>2
      <4>3. before = {}
        BY <4>2
      <4> QED
        BY <3>1, <3>6, <4>3 DEF before, CountsOnce
    <3>7. CASE new.status # "duplicate" /\ new.status # "accepted"
      <4>1. ASSUME NEW j \in before PROVE more[j].status = new.status
        <5>1. IsJudged(more[j], seen) /\ more[j].payload = payload
          BY <3>2
        <5> QED
          BY <1>3, <3>4, <3>7, <5>1 DEF IsJudged
      <4> QED
        BY <3>1, <3>7, <4>1 DEF before, CountsOnce
    <3> QED
      BY <3>5, <3>6, <3>7
  <2> QED
    BY <1>8, <2>1, <2>2
<1>16. PressCounted'
  BY <1>1, <1>15, CountedIs
<1> QED
  BY <1>1, <1>9, <1>13, <1>14, <1>16 DEF CountInv

\* The id is made of the number of the post.
IsFresh(s, payload) ==
    payload.shape \in {"wrapped", "plain", "broken"} /\ payload.messageid = <<"message", Len(s)>>

(***************************************************************************)
(* A post with a new id of its own; and one that was there before.         *)
(***************************************************************************)
LEMMA FreshKnown ==
    ASSUME NEW s, s \in Seq(ToSet(s)), NEW sent, NEW new, IsFresh(s, new.payload)
    PROVE  Known(Append(s, new), sent, new.payload)
<1> DEFINE S == ToSet(s) \union {new}
           more == Append(s, new)
           n == Len(s) + 1
<1>1. s \in Seq(S) /\ new \in S
  OBVIOUS
<1> HIDE DEF S
<1>2. Len(s) \in Nat /\ more \in Seq(S) /\ Len(more) = Len(s) + 1 /\ more[Len(s) + 1] = new
  BY <1>1, LenProperties, AppendProperties
<1> HIDE DEF more
<1>3. n \in DOMAIN more /\ more[n] = new /\ n - 1 = Len(s)
  BY <1>2, LenProperties
<1> HIDE DEF n
<1>4. new.payload.messageid = <<"message", n - 1>>
  BY <1>3, Zenon DEF IsFresh
<1>5. IsOwn(more, new.payload)
  BY <1>3, <1>4 DEF IsOwn, IsFresh
<1> QED
  BY <1>5 DEF Known, more

LEMMA KnownStays ==
    ASSUME NEW s, s \in Seq(ToSet(s)), NEW sent, NEW new, NEW payload, Known(s, sent, payload)
    PROVE  Known(Append(s, new), sent, payload)
<1> DEFINE S == ToSet(s) \union {new}
           more == Append(s, new)
<1>1. s \in Seq(S) /\ new \in S
  OBVIOUS
<1> HIDE DEF S
<1>2. \A k \in DOMAIN s : k \in DOMAIN more /\ more[k] = s[k]
  BY <1>1, LenProperties, AppendProperties
<1> HIDE DEF more
<1>3. IsOwn(s, payload) => IsOwn(more, payload)
  BY <1>2 DEF IsOwn
<1> QED
  BY <1>3 DEF Known, more

(***************************************************************************)
(* A press, and a message that was written.                                *)
(***************************************************************************)
LEMMA PressKnown ==
    ASSUME SentInv, CountInv, Press
    PROVE  CountInv'
<1>1. PICK part \in DOMAIN parts :
        /\ parts[part].kind = "form"
        /\ \E button \in Buttons(parts[part].content), shape \in {"wrapped", "flat"},
              answers \in {a \in [Fields(parts[part].content)
                                    -> UNION {Answers(parts[part].content, id) : id \in Fields(parts[part].content)}] :
                              \A id \in Fields(parts[part].content) : a[id] \in Answers(parts[part].content, id)} :
             Receive(CallbackPayload(part, answers, button, shape),
                     [part |-> part, answers |-> answers, button |-> button])
  BY DEF Press
<1> DEFINE content == parts[part].content
<1>2. PICK button \in Buttons(content), shape \in {"wrapped", "flat"},
           answers \in {a \in [Fields(content) -> UNION {Answers(content, id) : id \in Fields(content)}] :
                           \A id \in Fields(content) : a[id] \in Answers(content, id)} :
        Receive(CallbackPayload(part, answers, button, shape),
                [part |-> part, answers |-> answers, button |-> button])
  BY <1>1
<1> DEFINE payload == CallbackPayload(part, answers, button, shape)
           press == [part |-> part, answers |-> answers, button |-> button]
           new == [payload |-> payload, press |-> press, status |-> Status(payload)]
<1>3. IsAnswered(parts[part], answers, button)
  <2>1. content \in AnyContent /\ Asks(content)
    BY <1>1, FormFacts
  <2>2. IsClear(content)
    BY <1>1, FormClear
  <2>3. DOMAIN answers = Fields(content) /\ \A id \in Fields(content) : answers[id] \in Answers(content, id)
    OBVIOUS
  <2> HIDE DEF content
  <2>4. \A id \in DOMAIN answers : FilledIn(answers[id])
    BY <2>1, <2>2, <2>3, AnswerFilledIn
  <2>5. IsPress(content, answers, button)
    BY <2>1, <2>3 DEF IsPress
  <2> QED
    BY <2>2, <2>4, <2>5 DEF IsAnswered, content
<1>4. Receive(payload, press)
  BY <1>2
<1>5. posts \in Seq(ToSet(posts))
  BY DEF CountInv
<1>6. new.payload = payload
  OBVIOUS
<1>7. Known(Append(posts, new), parts, payload)
  <2>1. CASE shape = "wrapped"
    <3>1. payload.shape = "wrapped" /\ payload.messageid = FreshId
      BY <2>1 DEF CallbackPayload, Payload
    <3>2. payload.messageid = <<"message", Len(posts)>>
      BY <3>1, Zenon DEF FreshId
    <3> HIDE DEF payload, new
    <3>3. IsFresh(posts, new.payload)
      BY <1>6, <3>1, <3>2, Zenon DEF IsFresh
    <3>4. Known(Append(posts, new), parts, new.payload)
      BY <1>5, <3>3, FreshKnown
    <3> QED
      BY <1>6, <3>4, Zenon
  <2>2. CASE shape = "flat"
    <3>1. payload = FlatPayload(parts, part, answers, button)
      BY <2>2 DEF CallbackPayload, FlatPayload
    <3> HIDE DEF payload, new
    <3>2. IsFlat(parts, payload)
      BY <1>3, <3>1 DEF IsFlat
    <3> QED
      BY <3>2 DEF Known
  <2> QED
    BY <2>1, <2>2
<1> HIDE DEF payload, press
<1> QED
  BY <1>4, <1>7, Counted

LEMMA WriteKnown ==
    ASSUME CountInv, Write
    PROVE  CountInv'
<1>1. posts \in Seq(ToSet(posts))
  BY DEF CountInv
<1>2. CASE \E word \in Words, shape \in {"wrapped", "plain", "broken"} :
             Receive(Payload(shape, FreshId, word, <<>>), NoPress)
  <2>1. PICK word \in Words, shape \in {"wrapped", "plain", "broken"} :
             Receive(Payload(shape, FreshId, word, <<>>), NoPress)
    BY <1>2
  <2> DEFINE payload == Payload(shape, FreshId, word, <<>>)
             new == [payload |-> payload, press |-> NoPress, status |-> Status(payload)]
  <2>2. payload.shape = shape /\ payload.messageid = FreshId
    BY DEF Payload
  <2>3. payload.messageid = <<"message", Len(posts)>>
    BY <2>2, Zenon DEF FreshId
  <2>4. new.payload = payload
    OBVIOUS
  <2>5. Receive(payload, NoPress)
    BY <2>1
  <2> HIDE DEF payload, new
  <2>6. IsFresh(posts, new.payload)
    BY <2>2, <2>3, <2>4, Zenon DEF IsFresh
  <2>7. Known(Append(posts, new), parts, new.payload)
    BY <1>1, <2>6, FreshKnown
  <2>8. Known(Append(posts, new), parts, payload)
    BY <2>4, <2>7, Zenon
  <2> QED
    BY <2>5, <2>8, Counted DEF new
<1>3. CASE Receive(Payload("wrapped", <<"-1">>, WakeUp, <<>>), NoPress)
  <2> DEFINE payload == WakeUpPayload
  <2>1. Receive(payload, NoPress)
    BY <1>3 DEF WakeUpPayload
  <2> HIDE DEF payload
  <2>2. \A s : Known(s, parts, payload)
    BY DEF Known, payload
  <2> QED
    BY <2>1, <2>2, Counted
<1> QED
  BY <1>2, <1>3 DEF Write

(***************************************************************************)
(* Every post is known, and was judged by the ids of those before it.      *)
(***************************************************************************)
LEMMA CountInvHolds == FormsSpec => []CountInv
<1>1. FormsInit => CountInv
  <2> SUFFICES ASSUME FormsInit PROVE CountInv
    OBVIOUS
  <2>1. posts = <<>> /\ seen = {}
    BY DEF FormsInit
  <2>2. <<>> \in Seq(ToSet(<<>>)) /\ ToSet(<<>>) = {} /\ DOMAIN <<>> = {}
    BY EmptySeq, Elements
  <2>3. PressCounted
    BY <2>1, <2>2, CountedIs
  <2> QED
    BY <2>1, <2>2, <2>3 DEF CountInv
<1>2. ASSUME SentInv, CountInv, [FormsNext]_formVars PROVE CountInv'
  <2>1. CASE Press
    BY <1>2, <2>1, PressKnown
  <2>2. CASE Write
    BY <1>2, <2>2, WriteKnown
  <2>3. CASE PostAgain
    <3>1. PICK i \in DOMAIN posts : Receive(posts[i].payload, posts[i].press)
      BY <2>3 DEF PostAgain
    <3>2. posts[i] \in ToSet(posts)
      BY DEF ToSet
    <3>3. Known(posts, parts, posts[i].payload) /\ posts \in Seq(ToSet(posts))
      BY <1>2, <3>2 DEF CountInv
    <3>4. \A new : Known(Append(posts, new), parts, posts[i].payload)
      BY <3>3, KnownStays
    <3> QED
      BY <1>2, <3>1, <3>4, Counted
  <2>4. CASE UNCHANGED formVars
    <3>1. UNCHANGED <<parts, posts, seen>>
      BY <2>4 DEF formVars
    <3>2. PressCounted'
      BY <1>2, <3>1, CountedIs DEF CountInv
    <3> QED
      BY <1>2, <3>1, <3>2 DEF CountInv
  <2> QED
    BY <1>2, <2>1, <2>2, <2>3, <2>4 DEF FormsNext
<1> QED
  BY <1>1, <1>2, SentInvHolds, PTL DEF FormsSpec

(***************************************************************************)
(* A press counts once, whichever route it took and however often Cube     *)
(* posts it, and no two presses are taken for one another.                 *)
(***************************************************************************)
THEOREM PressesCountOnce == FormsSpec => []PressCounted
<1>1. CountInv => PressCounted
  BY DEF CountInv
<1> QED
  BY <1>1, CountInvHolds, PTL
==============================================================================
