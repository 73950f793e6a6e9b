------------------------------ MODULE MCReplies ------------------------------
(***************************************************************************)
(* Answers of a language model for LlmReply: a reply, written with the     *)
(* habits of the models the repairs were made for, and cut off.            *)
(***************************************************************************)
EXTENDS LlmReply, FiniteSets

CONSTANTS
    MaxHabits,   \* bound: the most habits in a text of one block (of two blocks, one less)
    MaxCut       \* bound: the most tokens missing at the end

VARIABLES
    meant,         \* the blocks the model means to send
    structured,    \* what the call with the schema gave
    layout,        \* the form of the plain answer
    habits,        \* how it is written
    cut            \* the tokens missing at its end

replyVars == <<meant, structured, layout, habits, cut>>

PlainContents == {<<"it", SQ, "s">>, <<"say", DQ, "yes", DQ>>, <<"one", NL, "two">>, <<"nine", Degree>>}

\* Contents that look like the structure the repairs look for.
Lookalikes == {<<"hello", ",", "}">>, <<"hello", ",", "kind", ":", "of">>, <<"blocks", "=", "[", "x", "]">>, <<NL>>}

Meanings ==
    LET texts == {<<ReplyBlock("text", content)>> : content \in PlainContents \cup Lookalikes}
    IN texts \cup {Append(t, ReplyBlock("button", <<"send">>)) : t \in texts}

Layouts == {"object", "list", "block", "assignment"}

Inner == {"single quotes", "bare keys", "misquoted keys", "trailing commas", "raw lines", "hex escapes"}
Outer == {"fenced", "prose", "quoted", "doubled"}

----------------------------------------------------------------------------
Escape(quote, s) ==
    FlattenSeq([i \in DOMAIN s |->
        CASE s[i] \in {quote, BS} -> <<BS, s[i]>>
          [] s[i] = NL     -> <<IF "raw lines" \in habits THEN NL ELSE LineEscape>>
          [] s[i] = Degree -> <<IF "hex escapes" \in habits THEN Hex ELSE Degree>>
          [] OTHER         -> <<s[i]>>])

Quote == IF "single quotes" \in habits THEN SQ ELSE DQ

Quoted(quote, s) == <<quote>> \o Escape(quote, s) \o <<quote>>

Pair(key, value) ==
    CASE "bare keys" \in habits -> <<key, ":">> \o value
      [] "bare keys" \notin habits /\ "misquoted keys" \in habits -> <<DQ, key, ":">> \o value
      [] OTHER -> <<Quote, key, Quote, ":">> \o value

Comma == IF "trailing commas" \in habits THEN <<",">> ELSE <<>>

Braced(s) == IF "doubled" \in habits THEN <<"{", "{">> \o s \o Comma \o <<"}", "}">> ELSE <<"{">> \o s \o Comma \o <<"}">>

WrittenBlock(block) ==
    Braced(Pair("kind", Quoted(Quote, <<block.kind>>)) \o <<",">> \o Pair("text", Quoted(Quote, block.text)))

WrittenList ==
    <<"[">> \o FlattenSeq([i \in DOMAIN meant |-> (IF i = 1 THEN <<>> ELSE <<",">>) \o WrittenBlock(meant[i])])
            \o Comma \o <<"]">>

Body ==
    CASE layout = "object"     -> Braced(Pair("blocks", WrittenList))
      [] layout = "list"       -> WrittenList
      [] layout = "block"      -> WrittenBlock(meant[1])
      [] layout = "assignment" -> <<"blocks", "=">> \o WrittenList

Text ==
    LET quoted == IF "quoted" \in habits THEN Quoted(DQ, Body) ELSE Body
        fenced == IF "fenced" \in habits THEN <<Fence, "json", NL>> \o quoted \o <<NL, Fence>> ELSE quoted
        prosed == IF "prose" \in habits THEN <<"here", ":", NL>> \o fenced \o <<NL, "bye">> ELSE fenced
    IN SubSeq(prosed, 1, Len(prosed) - cut)

RepliesInit ==
    /\ meant \in Meanings
    /\ structured \in {Raised("error"), Reply(<<>>), Reply(<<ReplyBlock("text", <<NL>>)>>), Reply(meant)}
    /\ layout \in Layouts
    /\ layout = "block" => Len(meant) = 1
    /\ habits = {}
    /\ cut = 0

Acquire ==
    /\ Cardinality(habits) + Len(meant) <= MaxHabits /\ cut = 0 /\ structured = Raised("error")
    /\ \E habit \in (Inner \cup Outer) \ habits : habits' = habits \cup {habit}
    /\ UNCHANGED <<meant, structured, layout, cut>>

CutOff ==
    /\ cut < MaxCut /\ Cardinality(habits) <= 1
    /\ cut' = cut + 1
    /\ UNCHANGED <<meant, structured, layout, habits>>

RepliesNext == Acquire \/ CutOff

RepliesSpec == RepliesInit /\ [][RepliesNext]_replyVars

----------------------------------------------------------------------------
\* A model that reasons splits its answer into parts.
Content ==
    LET half == Len(Text) \div 2
        Part(type, text) == [type |-> type, text |-> text]
    IN <<Part("text", SubSeq(Text, 1, half)), Part("reasoning", <<"{">>), Part("text", SubSeq(Text, half + 1, Len(Text)))>>

Outcome == GenerateReplyIntent(structured, Content)

Clumsy(some) == some \subseteq habits

Breaks == \E i \in DOMAIN meant : NL \in ToSet(meant[i].text)

(***************************************************************************)
(* generate_reply_intent: a text that one of the three loaders takes as it *)
(* stands is shown word for word, also if its content looks like what the  *)
(* repairs repair; a repair must come after the loaders have failed.       *)
(* No loader takes raw line breaks between single quotes, and an           *)
(* introduction makes a span of two blocks out of a list. generate_json_   *)
(* reply finds the object in such a text as well.                          *)
(***************************************************************************)
WellFormedVerbatim ==
    (/\ meant # <<>> /\ cut = 0 /\ HasUsableContent(meant)
     /\ habits \subseteq {"single quotes", "trailing commas", "raw lines", "hex escapes", "fenced", "prose"})
    => /\ \/ Outcome = Reply(meant)
          \/ Clumsy({"single quotes", "raw lines"}) /\ Breaks
          \/ Clumsy({"prose"}) /\ layout = "list" /\ Len(meant) = 2
       /\ (layout \in {"object", "block"} /\ habits \subseteq {"fenced", "prose"})
             => GenerateJsonReply(Content) = [status |-> "reply", object |-> Load("json", Body)]

(***************************************************************************)
(* The repairs, one after the other, restore what was meant from any of the*)
(* habits they were made for together, with these exceptions.              *)
(***************************************************************************)
RepairsRestore ==
    (/\ meant # <<>> /\ cut = 0 /\ "doubled" \notin habits
     /\ \A i \in DOMAIN meant : meant[i].text \in PlainContents \cup {<<"send">>})
    => \/ Outcome = Reply(meant)
       \/ Clumsy({"misquoted keys"}) /\ layout = "object"
       \/ Clumsy({"misquoted keys", "single quotes"})
       \/ Clumsy({"prose"}) /\ layout = "list" /\ Len(meant) = 2
       \/ Clumsy({"quoted"}) /\ layout = "assignment"
       \/ Clumsy({"quoted", "prose"})
       \/ Clumsy({"single quotes", "raw lines"}) /\ Breaks
       \/ Clumsy({"quoted", "single quotes"}) /\ Breaks /\ layout = "list" /\ Len(meant) = 2

WordsOf(block) == [kind |-> block.kind, words |-> SelectSeq(block.text, IsName)]

WordsIn(blocks) == [i \in DOMAIN blocks |-> WordsOf(blocks[i])]

Truthful(outcome) ==
    \/ outcome.status = "LLMServiceError" /\ Strip(Text) = <<>>
    \/ outcome.status = "TypeError" /\ "doubled" \in habits
    \/ outcome = Reply(<<ReplyBlock("text", FallbackText)>>)
    \/ outcome.status = "reply" /\ IsPrefix(WordsIn(outcome.blocks), WordsIn(meant))
    \/ "quoted" \in habits /\ outcome = Reply(<<ReplyBlock("text", Strip(Text))>>)

(***************************************************************************)
(* Whatever the model wrote and wherever it was cut off, the user is shown *)
(* blocks that were meant, their kinds and words in their order, or the    *)
(* excuse, and no JSON; only a string of JSON that cannot be unwrapped is  *)
(* shown as it is. The docstring promises an answer for every text, yet    *)
(* doubled brackets make literal_eval raise a TypeError that nobody        *)
(* catches.                                                                *)
(***************************************************************************)
NothingInvented == meant # <<>> => Truthful(Outcome)
==============================================================================
