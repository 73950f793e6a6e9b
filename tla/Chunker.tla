------------------------------- MODULE Chunker -------------------------------
(***************************************************************************)
(* api/cube/chunker.py: how the text of an answer is cut into the parts    *)
(* that are sent one by one. A text is a sequence of lines, a line is its  *)
(* number and its kind; joining lines with "\n" and splitting them again   *)
(* is concatenation. Line 0 is the empty line put between paragraphs.      *)
(*                                                                         *)
(* The kinds: a fence of 3 or 4 backquotes, with or without a language; a  *)
(* Markdown header; a table row; the rule below the head of a table, with  *)
(* a bar at its end or without ("ragged"); a stub, a row of which only the *)
(* first cell is like a rule's or blank, with a bar at its end or without; *)
(* a blank line; anything else.                                            *)
(***************************************************************************)
EXTENDS Lists, SequencesExt, FiniteSetsExt

Kinds == {"fence3", "fence4", "fence3lang", "header", "row", "rule", "ragged",
          "stub", "raggedstub", "blank", "plain"}

Line == Nat \X Kinds

KindOf(line) == line[2]

BlankLine == <<0, "blank">>

IsBlank(line) == KindOf(line) = "blank"

AllBlank(lines) == \A i \in DOMAIN lines : IsBlank(lines[i])

\* _CODE_FENCE_RE: the backquotes that open a fence, 0 for no fence.
FenceLength(line) ==
    CASE KindOf(line) \in {"fence3", "fence3lang"} -> 3
      [] KindOf(line) = "fence4"                   -> 4
      [] OTHER                                     -> 0

\* At least as many backquotes, and nothing behind them.
Closes(line, length) ==
    KindOf(line) \in {"fence3", "fence4"} /\ FenceLength(line) >= length

\* _TABLE_ROW_RE: a bar at both ends.
IsRow(line) == KindOf(line) \in {"row", "rule", "stub"}

\* _TABLE_SEP_RE looks at the first cell only.
IsRule(line) == KindOf(line) \in {"rule", "ragged", "stub", "raggedstub"}

\* _is_markdown_separator_row looks at every cell.
IsSeparatorRow(line) == KindOf(line) \in {"rule", "ragged"}

Block(kind, lines) == [kind |-> kind, lines |-> lines]

\* A block of the lines, if there are any.
Flush(kind, lines) == IF lines = <<>> THEN <<>> ELSE <<Block(kind, lines)>>

----------------------------------------------------------------------------
\* _split_text_and_tables: one line after the other. A rule starts a table,
\* with the row above it, and the rows below it belong to the table.
NextTextLine(acc, line) ==
    LET inTable == acc.kind = "table"
        done == IF inTable THEN acc.blocks \o Flush("table", acc.buf) ELSE acc.blocks
        prose == IF inTable THEN <<>> ELSE acc.buf
        head == IF prose # <<>> /\ IsRow(Last(prose)) THEN <<Last(prose)>> ELSE <<>>
        above == SubSeq(prose, 1, Len(prose) - Len(head))
    IN CASE inTable /\ IsRow(line) -> [acc EXCEPT !.buf = Append(@, line)]
         [] ~(inTable /\ IsRow(line)) /\ IsRule(line) ->
              [blocks |-> done \o Flush("text", above), kind |-> "table", buf |-> Append(head, line)]
         [] OTHER -> [blocks |-> done, kind |-> "text", buf |-> Append(prose, line)]

SplitTables(lines) ==
    LET acc == FoldLeft(NextTextLine, [blocks |-> <<>>, kind |-> "text", buf |-> <<>>], lines)
    IN acc.blocks \o Flush(acc.kind, acc.buf)

\* Faulty: the text before a fence is forgotten.
NextLineForgets(acc, line) ==
    IF acc.open = 0 /\ FenceLength(line) > 0
    THEN [blocks |-> acc.blocks, open |-> FenceLength(line), buf |-> <<line>>]
    ELSE IF acc.open > 0 /\ Closes(line, acc.open)
    THEN [blocks |-> Append(acc.blocks, Block("code", Append(acc.buf, line))), open |-> 0, buf |-> <<>>]
    ELSE [acc EXCEPT !.buf = Append(@, line)]

\* _parse_blocks: code from one fence to the next that closes it or to the
\* end; the rest is text and tables.
NextLine(acc, line) ==
    IF acc.open = 0 /\ FenceLength(line) > 0
    THEN [blocks |-> acc.blocks \o SplitTables(acc.buf), open |-> FenceLength(line), buf |-> <<line>>]
    ELSE IF acc.open > 0 /\ Closes(line, acc.open)
    THEN [blocks |-> Append(acc.blocks, Block("code", Append(acc.buf, line))), open |-> 0, buf |-> <<>>]
    ELSE [acc EXCEPT !.buf = Append(@, line)]

ParseBlocks(text) ==
    LET acc == FoldLeft(NextLine, [blocks |-> <<>>, open |-> 0, buf |-> <<>>], text)
        rest == IF acc.open > 0 THEN <<Block("code", acc.buf)>> ELSE SplitTables(acc.buf)
    IN Only(acc.blocks \o rest, LAMBDA b : ~AllBlank(b.lines))

----------------------------------------------------------------------------
\* _split_paragraphs: blank lines and headers begin a new one.
NextParagraphLine(acc, line) ==
    LET done == IF acc.buf = <<>> THEN acc.paras ELSE Append(acc.paras, acc.buf)
    IN CASE IsBlank(line)            -> [paras |-> done, buf |-> <<>>]
         [] KindOf(line) = "header"  -> [paras |-> done, buf |-> <<line>>]
         [] OTHER                    -> [acc EXCEPT !.buf = Append(@, line)]

SplitParagraphs(lines) ==
    LET acc == FoldLeft(NextParagraphLine, [paras |-> <<>>, buf |-> <<>>], lines)
    IN IF acc.buf = <<>> THEN acc.paras ELSE Append(acc.paras, acc.buf)

\* A paragraph that is too long, in pieces of limit lines.
Pieces(para, limit) ==
    [k \in 1..((Len(para) + limit - 1) \div limit) |->
        SubSeq(para, (k - 1) * limit + 1, IF k * limit < Len(para) THEN k * limit ELSE Len(para))]

NonEmpty(lines) == IF lines = <<>> THEN <<>> ELSE <<lines>>

\* Faulty: the blank line between the paragraphs is not counted.
AddParagraphUncounted(acc, para, limit) ==
    CASE Len(para) > limit ->
           [chunks |-> acc.chunks \o NonEmpty(acc.buf) \o Pieces(para, limit), buf |-> <<>>]
      [] Len(para) <= limit /\ acc.buf # <<>> /\ Len(acc.buf) + Len(para) <= limit ->
           [acc EXCEPT !.buf = @ \o <<BlankLine>> \o para]
      [] OTHER -> [chunks |-> acc.chunks \o NonEmpty(acc.buf), buf |-> para]

\* One round of the loop of _chunk_text.
AddParagraph(acc, para, limit) ==
    CASE Len(para) > limit ->
           [chunks |-> acc.chunks \o NonEmpty(acc.buf) \o Pieces(para, limit), buf |-> <<>>]
      [] Len(para) <= limit /\ acc.buf # <<>> /\ Len(acc.buf) + 1 + Len(para) <= limit ->
           [acc EXCEPT !.buf = @ \o <<BlankLine>> \o para]
      [] OTHER -> [chunks |-> acc.chunks \o NonEmpty(acc.buf), buf |-> para]

\* Faulty: lines are cut without regard to paragraphs.
ChunkLines(lines, limit) ==
    IF Len(lines) <= limit THEN <<lines>>
    ELSE Only(Pieces(lines, limit), LAMBDA c : ~AllBlank(c))

\* _chunk_text.
Chunks(lines, limit) ==
    IF Len(lines) <= limit THEN <<lines>>
    ELSE LET acc == FoldLeft(LAMBDA a, para : AddParagraph(a, para, limit),
                             [chunks |-> <<>>, buf |-> <<>>], SplitParagraphs(lines))
         IN Only(acc.chunks \o NonEmpty(acc.buf), LAMBDA c : ~AllBlank(c))

\* chunk_text.
ChunkText(text, limit) == IF AllBlank(text) THEN <<>> ELSE Chunks(text, limit)

----------------------------------------------------------------------------
Item(method, kind, lines) == [method |-> method, kind |-> kind, lines |-> lines]

\* The items of one block.
Items(block, limit, rich) ==
    IF rich /\ block.kind \in {"code", "table"}
    THEN <<Item("rich", block.kind, block.lines)>>
    ELSE LET chunks == Chunks(block.lines, limit)
         IN [i \in DOMAIN chunks |-> Item("multi", block.kind, chunks[i])]

\* Faulty: nothing is merged.
MergeItemNever(merged, item, limit) == Append(merged, item)

\* One round of the loop of _merge_adjacent.
MergeItem(merged, item, limit) ==
    IF /\ merged # <<>> /\ Last(merged).method = "multi" /\ item.method = "multi"
       /\ Len(Last(merged).lines) + Len(item.lines) <= limit
    THEN Append(Front(merged), Item("multi", "text", Last(merged).lines \o item.lines))
    ELSE Append(merged, item)

MergeAdjacent(items, limit) ==
    FoldLeft(LAMBDA merged, item : MergeItem(merged, item, limit), <<>>, items)

\* plan_delivery.
PlanDelivery(text, limit, rich) ==
    IF AllBlank(text) THEN <<Item("multi", "text", <<BlankLine>>)>>
    ELSE IF Len(text) <= limit /\ ~rich THEN <<Item("multi", "text", text)>>
    ELSE MergeAdjacent(
            FoldLeft(LAMBDA items, block : items \o Items(block, limit, rich), <<>>, ParseBlocks(text)),
            limit)

----------------------------------------------------------------------------
\* Faulty: the last rule of a table is the one below its head.
TableRowsLastRule(lines) ==
    LET rules == {i \in DOMAIN lines : i > 1 /\ IsSeparatorRow(lines[i])}
    IN IF rules = {} THEN <<>>
       ELSE <<lines[Max(rules) - 1]>> \o SubSeq(lines, Max(rules) + 1, Len(lines))

\* _markdown_table_to_block: the head is above the first separator row with
\* a line above it, the rows are below. <<>> if there is no such row.
TableRows(lines) ==
    LET rules == {i \in DOMAIN lines : i > 1 /\ IsSeparatorRow(lines[i])}
    IN IF rules = {} THEN <<>>
       ELSE <<lines[Min(rules) - 1]>> \o SubSeq(lines, Min(rules) + 1, Len(lines))

\* _send_rich_delivery_item: a grid of the rows, or the lines as they are.
RichLines(item) ==
    IF item.kind = "table" /\ TableRows(item.lines) # <<>> THEN TableRows(item.lines) ELSE item.lines
============================================================================
