------------------------------ MODULE MCChunker ------------------------------
(***************************************************************************)
(* Chunker on every text up to a length: the text grows line by line, and  *)
(* the plan of every text is checked. The two settings are chosen first.   *)
(***************************************************************************)
EXTENDS Chunker, TLC

CONSTANTS
    TextKinds,      \* the kinds of lines that occur
    MaxText,        \* bound: the longest text (with rich routing, one line less)
    Limits          \* the values of CUBE_MESSAGE_MAX_LINES

ASSUME ChunkerAssumption == TextKinds \subseteq Kinds /\ MaxText \in Nat /\ Limits \subseteq Nat \ {0}

VARIABLES
    text,
    limit,      \* CUBE_MESSAGE_MAX_LINES
    rich        \* CUBE_RICH_ROUTING_ENABLED

TextInit == text = <<>> /\ limit \in Limits /\ rich \in BOOLEAN /\ (rich => limit = Min(Limits))

WriteLine ==
    /\ Len(text) < IF rich THEN MaxText - 1 ELSE MaxText
    /\ \E kind \in TextKinds : text' = Append(text, <<Len(text) + 1, kind>>)
    /\ UNCHANGED <<limit, rich>>

textVars == <<text, limit, rich>>

TextSpec == TextInit /\ [][WriteLine]_textVars

Plan == PlanDelivery(text, limit, rich)

NonBlank(lines) == Only(lines, LAMBDA l : ~IsBlank(l))

Within(lines, part) == \E i \in 0..(Len(part) - Len(lines)) :
    lines = SubSeq(part, i + 1, i + Len(lines))

----------------------------------------------------------------------------
\* A table as the user should see it: without the rule below its head.
Unruled(lines) ==
    IF Len(lines) >= 2 /\ IsSeparatorRow(lines[2])
    THEN <<lines[1]>> \o SubSeq(lines, 3, Len(lines)) ELSE lines

\* The line that made it a table is none below the head for the grid, as the
\* first line or for its other cells, and the grid finds one further below.
Misread(lines) ==
    /\ \E i \in 3..Len(lines) : IsSeparatorRow(lines[i])
    /\ IsRule(lines[1]) \/ IsRule(lines[2])
    /\ ~IsSeparatorRow(lines[2])

(***************************************************************************)
(* No line of the answer is lost, repeated or moved, whatever fences,      *)
(* tables and paragraphs it is cut at and merged again, nor when a table   *)
(* is sent as a grid: only the rule below the head goes. The exception are *)
(* the tables chunker.py:14 and service.py:245 do not agree on (Misread):  *)
(* one that begins with a rule, or has a row with a blank first cell below *)
(* its head, and a rule further below loses the lines above the head that  *)
(* the grid takes.                                                         *)
(***************************************************************************)
LinesKept ==
    LET plan == Plan
        tables == {item \in ToSet(plan) : item.method = "rich" /\ item.kind = "table"}
    IN /\ NonBlank(FlattenSeq([i \in DOMAIN plan |-> plan[i].lines])) = NonBlank(text)
       /\ NonBlank(FlattenSeq(ChunkText(text, limit))) = NonBlank(text)
       /\ \A item \in tables : Misread(item.lines) \/ RichLines(item) = Unruled(item.lines)

\* No multi message has more lines than the limit, neither by the blank
\* lines put in nor by merging.
WithinLimit(plan) ==
    /\ \A item \in ToSet(plan) : item.method = "multi" => Len(item.lines) <= limit
    /\ \A chunk \in ToSet(ChunkText(text, limit)) : Len(chunk) <= limit

\* A code block, a table or a paragraph that fits into one message is not
\* cut, and neighbours that fit into one message are sent as one.
NoNeedlessCuts(plan) ==
    LET Fitting(lines) == IF Len(lines) <= limit THEN {lines}
                          ELSE {p \in ToSet(SplitParagraphs(lines)) : Len(p) <= limit}
    IN /\ \A block \in ToSet(ParseBlocks(text)) : \A p \in Fitting(block.lines) :
             \E i \in DOMAIN plan : Within(p, plan[i].lines)
       /\ \A i \in 1..(Len(plan) - 1) :
             plan[i].method = "multi" /\ plan[i + 1].method = "multi"
                 => Len(plan[i].lines) + Len(plan[i + 1].lines) > limit

(***************************************************************************)
(* _chunk_text: "paragraph boundary before header before line boundary".   *)
(* Every message to Cube is a call of its own and has room for so many     *)
(* lines: the parts keep to the limit, and yet nothing is cut or sent apart*)
(* that would have fitted.                                                 *)
(***************************************************************************)
PartsFit == LET plan == Plan IN WithinLimit(plan) /\ NoNeedlessCuts(plan)
============================================================================
