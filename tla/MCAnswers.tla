------------------------------ MODULE MCAnswers ------------------------------
(***************************************************************************)
(* Instances for TLC of the three stretches of an answer's way: what is    *)
(* made of the text of the language model (MCReplies), how a text is cut   *)
(* into messages (MCChunker), and how blocks become notifications whose    *)
(* values come back (CubeForms). A behaviour is about one of them; the     *)
(* variables of the others rest.                                           *)
(***************************************************************************)
EXTENDS MCReplies, MCChunker, CubeForms

CONSTANTS
    MaxReply     \* bound: the most blocks in a reply of CubeForms

VARIABLE stretch

answersVars == <<stretch, replyVars, textVars, formVars>>

Options == <<[label |-> "one", value |-> "1"], [label |-> "two", value |-> "two"]>>

\* Blocks that come alone: those that only show something, and the fields
\* that are filled in alike.
Similar ==
    {TableIntent(<<"head">>, <<<<"cell", "more">>>>), ImageIntent("picture"),
     RawBlockIntent(AddRow(<<HypertextCell("link")>>, <<>>, <<>>)),
     InputIntent("name", "name", FALSE), DatePickerIntent("when", "day", TRUE),
     RawBlockIntent(AddTextarea("note", "note", TRUE)), RawBlockIntent(AddDatetimepicker("at", "at", FALSE)),
     RawBlockIntent(AddSelect("size", Options, "size", FALSE))}

\* Blocks with ids of their own.
Intents ==
    Similar \cup
    {TextIntent("hello"), TextIntent(""),
     ChoiceIntent("which", Options, FALSE, "radio", TRUE),
     ChoiceIntent("which ones", Options, TRUE, "boxes", FALSE),
     ButtonIntent("send", "SendButton", ""),
     ButtonIntent("no", "Cancel", "cancel")}

MCReplySet ==
    {r \in SeqOf(Intents, MaxReply) :
        /\ r # <<>> /\ \A i, j \in DOMAIN r : r[i] = r[j] => i = j
        /\ Cardinality(ToSet(r) \cap Similar) <= 1}

----------------------------------------------------------------------------
RepliesRest == meant = <<>> /\ structured = Raised("error") /\ layout = "list" /\ habits = {} /\ cut = 0

TextRests == text = <<>> /\ limit = Min(Limits) /\ rich = FALSE

FormsRest == reply = <<>> /\ parts = <<>> /\ posts = <<>> /\ seen = {} /\ queued = <<>>

AnswersInit ==
    \/ stretch = "reply" /\ RepliesInit /\ TextRests /\ FormsRest
    \/ stretch = "text"  /\ TextInit /\ RepliesRest /\ FormsRest
    \/ stretch = "forms" /\ FormsInit /\ RepliesRest /\ TextRests

AnswersNext ==
    \/ stretch = "reply" /\ RepliesNext /\ UNCHANGED <<stretch, textVars, formVars>>
    \/ stretch = "text"  /\ WriteLine   /\ UNCHANGED <<stretch, replyVars, formVars>>
    \/ stretch = "forms" /\ FormsNext   /\ UNCHANGED <<stretch, replyVars, textVars>>

AnswersSpec == AnswersInit /\ [][AnswersNext]_answersVars
==============================================================================
