------------------------------ MODULE RichBlocks ------------------------------
(***************************************************************************)
(* api/cube/rich_blocks.py, intents.py and intent_renderer.py: how the     *)
(* blocks of a reply become rows of cells, and a group of them one content *)
(* item of a rich notification. Of a cell its type, the id its value is    *)
(* returned under, its text and its value are kept; colours, sizes, links  *)
(* and the five languages are left out.                                    *)
(***************************************************************************)
EXTENDS Lists, FiniteSets, SequencesExt

None == "none"

SystemRequestIds == <<"cubeuniquename", "cubechannelid", "cubeaccountid", "cubelanguagetype", "cubemessageid">>

----------------------------------------------------------------------------
(***************************************************************************)
(* Cells. A row is a sequence of cells.                                    *)
(***************************************************************************)
Cell(type, processid, text, value) ==
    [type |-> type, processid |-> processid, text |-> text, value |-> value, options |-> <<>>]

LabelCell(text) == Cell("label", None, text, None)

ButtonCell(text, processid, value) == Cell("button", processid, text, value)

RadioCell(text, value, processid) == Cell("radio", processid, text, value)

CheckboxCell(text, value, processid) == Cell("checkbox", processid, text, value)

InputCell(label, processid) == Cell("inputtext", processid, label, None)

TextareaCell(label, processid) == Cell("textarea", processid, label, None)

\* The options of a select are in its cell.
SelectCell(label, options, processid) == [Cell("select", processid, label, None) EXCEPT !.options = options]

DatepickerCell(label, processid) == Cell("datepicker", processid, label, None)

DatetimepickerCell(label, processid) == Cell("datetimepicker", processid, label, None)

ImageCell(alt) == Cell("image", None, alt, None)

HypertextCell(text) == Cell("hypertext", None, text, None)

(***************************************************************************)
(* Blocks. requestid: the ids whose values are asked for; mandatory: those *)
(* without which a button cannot be pressed.                               *)
(***************************************************************************)
BlockOf(rows, mandatory, requestid, bodystyle) ==
    [rows |-> rows, mandatory |-> mandatory, requestid |-> requestid, bodystyle |-> bodystyle]

Mandatory(processid, required) == IF required THEN <<processid>> ELSE <<>>

AddRow(cells, mandatory, requestid) == BlockOf(<<cells>>, mandatory, requestid, None)

AddText(text) == AddRow(<<LabelCell(text)>>, <<>>, <<>>)

AddButton(text, processid, value) == AddRow(<<ButtonCell(text, processid, value)>>, <<>>, <<processid>>)

\* The question, and an option in each row.
AddChoice(question, options, processid, multi, required) ==
    LET OptionCell(o) == IF multi THEN CheckboxCell(o.label, o.value, processid)
                                  ELSE RadioCell(o.label, o.value, processid)
    IN BlockOf(<<<<LabelCell(question)>>>> \o [i \in DOMAIN options |-> <<OptionCell(options[i])>>],
               Mandatory(processid, required), <<processid>>, None)

AddInput(label, processid, required) ==
    AddRow(<<InputCell(label, processid)>>, Mandatory(processid, required), <<processid>>)

AddTextarea(label, processid, required) ==
    AddRow(<<TextareaCell(label, processid)>>, Mandatory(processid, required), <<processid>>)

AddSelect(label, options, processid, required) ==
    AddRow(<<SelectCell(label, options, processid)>>, Mandatory(processid, required), <<processid>>)

AddDatepicker(label, processid, required) ==
    AddRow(<<DatepickerCell(label, processid)>>, Mandatory(processid, required), <<processid>>)

AddDatetimepicker(label, processid, required) ==
    AddRow(<<DatetimepickerCell(label, processid)>>, Mandatory(processid, required), <<processid>>)

AddImage(alt) == AddRow(<<ImageCell(alt)>>, <<>>, <<>>)

\* Every row is as long as the longest.
AddTable(headers, rows) ==
    LET columns == Max({Len(headers)} \cup {Len(rows[r]) : r \in DOMAIN rows})
        Cells(row) == [i \in 1..columns |-> LabelCell(IF i \in DOMAIN row THEN row[i] ELSE "")]
    IN IF columns = 0 THEN BlockOf(<<>>, <<>>, <<>>, "grid")
       ELSE BlockOf(<<Cells(headers)>> \o [r \in DOMAIN rows |-> Cells(rows[r])], <<>>, <<>>, "grid")

\* dict.fromkeys
WithoutRepeats(s) == Picked(s, {i \in DOMAIN s : \A j \in 1..(i - 1) : s[j] # s[i]})

\* Faulty: the ids of the first block only.
AddContainerFirst(blocks, callback) ==
    [rows |-> FlattenSeq([b \in DOMAIN blocks |-> blocks[b].rows]),
     bodystyle |-> None, callback |-> callback,
     mandatory |-> FlattenSeq([b \in DOMAIN blocks |-> blocks[b].mandatory]),
     requestid |-> WithoutRepeats(blocks[1].requestid \o SystemRequestIds)]

\* add_container: the blocks become one content item.
AddContainer(blocks, callback) ==
    [rows |-> FlattenSeq([b \in DOMAIN blocks |-> blocks[b].rows]),
     bodystyle |-> IF \E b \in DOMAIN blocks : blocks[b].bodystyle = "grid" THEN "grid" ELSE None,
     callback |-> callback,
     mandatory |-> FlattenSeq([b \in DOMAIN blocks |-> blocks[b].mandatory]),
     requestid |-> WithoutRepeats(FlattenSeq([b \in DOMAIN blocks |-> blocks[b].requestid]) \o SystemRequestIds)]

----------------------------------------------------------------------------
(***************************************************************************)
(* Intents: the blocks a language model or a workflow fills in, with the   *)
(* defaults of intents.py.                                                 *)
(***************************************************************************)
TextIntent(text) == [kind |-> "text", text |-> text]

TableIntent(headers, rows) == [kind |-> "table", headers |-> headers, rows |-> rows]

ImageIntent(alt) == [kind |-> "image", text |-> alt]

ChoiceIntent(question, options, multi, processid, required) ==
    [kind |-> "choice", text |-> question, options |-> options, multi |-> multi,
     processid |-> processid, required |-> required]

InputIntent(label, processid, required) ==
    [kind |-> "input", text |-> label, processid |-> processid, required |-> required]

DatePickerIntent(label, processid, required) ==
    [kind |-> "date", text |-> label, processid |-> processid, required |-> required]

ButtonIntent(text, processid, value) == [kind |-> "button", text |-> text, processid |-> processid, value |-> value]

RawBlockIntent(block) == [kind |-> "raw_block", block |-> block]

(***************************************************************************)
(* The types. A block is written by hand only for a raw block, in the form *)
(* that add_* gives it.                                                    *)
(***************************************************************************)
\* Any string; those that are used here are named.
AnyText == {"", None} \cup ToSet(SystemRequestIds) \cup STRING

CellType ==
    {"label", "button", "radio", "checkbox", "inputtext", "textarea", "select", "datepicker", "datetimepicker",
     "image", "hypertext"}

Option == [label : AnyText, value : AnyText]

AnyCell == [type : CellType, processid : AnyText, text : AnyText, value : AnyText, options : Seq(Option)]

AnyBlock ==
    [rows : Seq(Seq(AnyCell)), mandatory : Seq(AnyText), requestid : Seq(AnyText), bodystyle : {None, "grid"}]

Intent ==
    [kind : {"text", "image"}, text : AnyText]
      \cup [kind : {"table"}, headers : Seq(AnyText), rows : Seq(Seq(AnyText))]
      \cup [kind : {"choice"}, text : AnyText, options : Seq(Option), multi : BOOLEAN,
            processid : AnyText, required : BOOLEAN]
      \cup [kind : {"input", "date"}, text : AnyText, processid : AnyText, required : BOOLEAN]
      \cup [kind : {"button"}, text : AnyText, processid : AnyText, value : AnyText]
      \cup [kind : {"raw_block"}, block : AnyBlock]

\* intent_to_block
IntentToBlock(intent) ==
    CASE intent.kind = "text"      -> AddText(intent.text)
      [] intent.kind = "table"     -> AddTable(intent.headers, intent.rows)
      [] intent.kind = "image"     -> AddImage(intent.text)
      [] intent.kind = "choice"    ->
           AddChoice(intent.text, intent.options, intent.processid, intent.multi, intent.required)
      [] intent.kind = "input"     -> AddInput(intent.text, intent.processid, intent.required)
      [] intent.kind = "date"      -> AddDatepicker(intent.text, intent.processid, intent.required)
      [] intent.kind = "button"    -> AddButton(intent.text, intent.processid, intent.value)
      [] intent.kind = "raw_block" -> intent.block

\* What is left of a block in the history.
DigestOf(intent) ==
    CASE intent.kind = "text" /\ intent.text = "" -> <<>>
      [] intent.kind = "table"                    -> <<<<"table", intent.headers, Len(intent.rows)>>>>
      [] intent.kind = "raw_block"                -> <<<<"raw_block", Len(intent.block.rows)>>>>
      [] intent.kind = "choice"                   ->
           <<<<"choice", intent.text, [o \in DOMAIN intent.options |-> intent.options[o].label]>>>>
      [] OTHER                                    -> <<<<intent.kind, intent.text>>>>

\* intents_to_history_text
HistoryText(intents) == FlattenSeq([i \in DOMAIN intents |-> DigestOf(intents[i])])

==============================================================================
