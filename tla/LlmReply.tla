------------------------------- MODULE LlmReply ------------------------------
(***************************************************************************)
(* api/llm/service.py: what generate_reply_intent makes of the answers of  *)
(* the model. Texts are sequences of tokens (Jsonish). Of the kinds of     *)
(* blocks of api/cube/intents.py two are told apart here, a text and one   *)
(* that is not; both have one required field.                              *)
(***************************************************************************)
EXTENDS Jsonish

BlockKinds == {"text", "button"}

ReplyBlock(kind, text) == [kind |-> kind, text |-> text]

Strip(s) ==
    LET kept == {i \in DOMAIN s : s[i] # NL}
    IN IF kept = {} THEN <<>> ELSE SubSeq(s, Min(kept), Max(kept))

\* _extract_content: the content of a response is a string, or a list of
\* strings and typed parts, of which the text parts count.
ExtractContent(parts) ==
    Strip(FlattenSeq([i \in DOMAIN parts |-> IF parts[i].type = "text" THEN parts[i].text ELSE <<>>]))

----------------------------------------------------------------------------
(***************************************************************************)
(* _extract_balanced_jsonish_region: the scanner with a stack of the       *)
(* brackets to come, the open quote and the escape. <<>> if the bracket at *)
(* start is not closed, or closed by the wrong one.                        *)
(***************************************************************************)
Closing(bracket) == IF bracket = "[" THEN "]" ELSE "}"

ScanToken(scan, token) ==
    LET next == [scan EXCEPT !.length = @ + 1]
    IN CASE scan.closed \/ scan.broken -> scan
         [] ~(scan.closed \/ scan.broken) /\ scan.quote # "none" ->
              [next EXCEPT !.escaped = (~scan.escaped /\ token = BS),
                           !.quote = IF ~scan.escaped /\ token = @ THEN "none" ELSE @]
         [] OTHER ->
              CASE token \in {DQ, SQ}   -> [next EXCEPT !.quote = token]
                [] token \in {"[", "{"} -> [next EXCEPT !.stack = Append(@, Closing(token))]
                [] token \in {"]", "}"} ->
                     IF Last(scan.stack) # token THEN [next EXCEPT !.broken = TRUE]
                     ELSE [next EXCEPT !.stack = Front(@), !.closed = (Len(scan.stack) = 1)]
                [] OTHER                -> next

BalancedRegion(s, start) ==
    LET scan == FoldLeft(ScanToken,
                    [stack |-> <<Closing(s[start])>>, quote |-> "none", escaped |-> FALSE,
                     closed |-> FALSE, broken |-> FALSE, length |-> 1],
                    SubSeq(s, start + 1, Len(s)))
    IN IF scan.closed THEN SubSeq(s, start, start + scan.length - 1) ELSE <<>>

\* _extract_blocks_assignment_value: what follows the first "blocks =".
AssignmentValue(s) ==
    LET matches == {i \in DOMAIN s : s[i] = "blocks" /\ At(s, Skip(s, i + 1)) = "="}
        value == Skip(s, Skip(s, Min(matches) + 1) + 1)
    IN IF matches # {} /\ At(s, value) \in {"[", "{"} THEN BalancedRegion(s, value) ELSE <<>>

----------------------------------------------------------------------------
\* _FENCED_BLOCK_PATTERN: the texts between two fences, without "json".
FencedTexts(s) ==
    LET fences == SetToSortSeq({i \in DOMAIN s : s[i] = Fence}, LAMBDA i, j : i < j)
        between(k) == SubSeq(s, fences[2 * k - 1] + 1, fences[2 * k] - 1)
    IN [k \in 1..(Len(fences) \div 2) |->
            IF At(between(k), 1) = "json" THEN Strip(Tail(between(k))) ELSE Strip(between(k))]

\* From the first { to the last }.
BraceSpan(s) ==
    LET opening == {i \in DOMAIN s : s[i] = "{"}
        ending == {i \in DOMAIN s : s[i] = "}"}
    IN IF opening # {} /\ ending # {} /\ Min(opening) < Max(ending)
       THEN SubSeq(s, Min(opening), Max(ending)) ELSE <<>>

\* _reply_intent_candidates. (The whole text is added again when it is in
\* brackets; dict.fromkeys drops the repetition.)
Candidates(raw) ==
    LET s == Strip(raw)
        fenced == FencedTexts(raw)
    IN SelectSeq(
           FlattenSeq([k \in DOMAIN fenced |-> <<fenced[k], AssignmentValue(fenced[k])>>])
             \o <<s, AssignmentValue(s), BraceSpan(s)>>,
           LAMBDA candidate : candidate # <<>>)

InBlocks(s) == <<"{", DQ, "blocks", DQ, ":">> \o s \o <<"}">>

\* _reply_intent_candidate_variants
CandidateVariants(candidate) ==
    LET value == AssignmentValue(candidate)
    IN <<candidate>>
         \o (IF value # <<>> THEN <<value, InBlocks(value)>> ELSE <<>>)
         \o (IF candidate[1] = "[" THEN <<InBlocks(candidate)>> ELSE <<>>)

----------------------------------------------------------------------------
(***************************************************************************)
(* The repairs: substitutions on the whole text, the inside of strings     *)
(* included.                                                               *)
(***************************************************************************)
\* The token before s[i], line breaks apart.
Before(s, i) ==
    LET earlier == {j \in 1..(i - 1) : s[j] # NL}
    IN IF earlier = {} THEN "start" ELSE s[Max(earlier)]

Substitute(s, Image(_)) == FlattenSeq([i \in DOMAIN s |-> Image(i)])

RepairHexEscapes(s) == [i \in DOMAIN s |-> IF s[i] = Hex THEN Unicode ELSE s[i]]

RemoveTrailingCommas(s) ==
    Substitute(s, LAMBDA i : IF s[i] = "," /\ At(s, Skip(s, i + 1)) \in {"}", "]"} THEN <<>> ELSE <<s[i]>>)

\* {"kind:" -> {"kind":"
RepairMisquotedKeys(s) ==
    Substitute(s, LAMBDA i :
        IF /\ s[i] = ":" /\ At(s, i + 1) = DQ
           /\ i > 2 /\ IsName(s[i - 1]) /\ s[i - 2] = DQ /\ Before(s, i - 2) \in {"{", "[", ","}
        THEN <<DQ, ":">> ELSE <<s[i]>>)

\* {kind: -> {"kind":
QuoteBareKeys(s) ==
    Substitute(s, LAMBDA i :
        IF IsName(s[i]) /\ Before(s, i) \in {"{", "[", ","} /\ At(s, Skip(s, i + 1)) = ":"
        THEN <<DQ, s[i], DQ>> ELSE <<s[i]>>)

\* Faulty: the repaired texts come before the text.
JsonishVariantsRepairedFirst(s) ==
    LET repaired == QuoteBareKeys(RepairMisquotedKeys(RemoveTrailingCommas(RepairHexEscapes(Strip(s)))))
    IN IF repaired = <<>> THEN <<>> ELSE <<repaired, Strip(s)>>

\* Faulty: each repair works on the text as it came.
JsonishVariantsApart(s) ==
    LET first == Strip(s)
    IN SelectSeq(<<first, RepairHexEscapes(first), RemoveTrailingCommas(first), RepairMisquotedKeys(first),
                   QuoteBareKeys(first)>>,
                 LAMBDA variant : variant # <<>>)

\* _jsonish_variants: each repair works on the result of the one before.
JsonishVariants(s) ==
    LET first == Strip(s)
        second == RepairHexEscapes(first)
        third == RemoveTrailingCommas(second)
        fourth == RepairMisquotedKeys(third)
        fifth == QuoteBareKeys(fourth)
    IN SelectSeq(<<first, second, third, fourth, fifth, RemoveTrailingCommas(fifth)>>,
                 LAMBDA variant : variant # <<>>)

(***************************************************************************)
(* _load_jsonish: every variant with every loader; the first value counts. *)
(* A string that holds an object or a list is unwrapped, once.             *)
(***************************************************************************)
RECURSIVE LoadJsonish(_, _), FirstLoaded(_, _)

HoldsJson(payload) == payload[1] = "str" /\ At(Strip(payload[2]), 1) \in {"{", "["}

Unwrapped(payload, depth) ==
    IF depth = 0 /\ HoldsJson(payload) THEN LoadJsonish(Strip(payload[2]), 1) ELSE payload

LoadedOr(result, attempts, depth) == IF result = Bad THEN FirstLoaded(attempts, depth) ELSE result

FirstLoaded(attempts, depth) ==
    IF attempts = <<>> THEN Bad
    ELSE LoadedOr(Unwrapped(Load(attempts[1].loader, attempts[1].variant), depth), Tail(attempts), depth)

Attempts(variants) ==
    FlattenSeq([v \in DOMAIN variants |->
        [l \in DOMAIN Loaders |-> [loader |-> Loaders[l], variant |-> variants[v]]]])

LoadJsonish(text, depth) == FirstLoaded(Attempts(JsonishVariants(text)), depth)

\* _normalize_reply_intent_payload: the value of "blocks".
BlocksOf(payload) ==
    CASE payload[1] = "list" -> payload
      [] payload[1] = "obj" /\ HasKey(payload, "blocks") ->
            LET blocks == ValueAt(payload, "blocks")
            IN IF blocks[1] = "obj" THEN <<"list", <<blocks>>>> ELSE blocks
      [] payload[1] = "obj" /\ ~HasKey(payload, "blocks") /\ HasKey(payload, "kind") -> <<"list", <<payload>>>>
      [] OTHER -> Bad

\* ReplyIntent.model_validate
IsBlock(value) ==
    /\ value[1] = "obj"
    /\ HasKey(value, "kind") /\ \E kind \in BlockKinds : ValueAt(value, "kind") = Str(<<kind>>)
    /\ HasKey(value, "text") /\ ValueAt(value, "text")[1] = "str"

IsReplyIntent(blocks) == blocks[1] = "list" /\ \A i \in DOMAIN blocks[2] : IsBlock(blocks[2][i])

ToReplyIntent(blocks) ==
    [i \in DOMAIN blocks[2] |-> ReplyBlock(ValueAt(blocks[2][i], "kind")[2][1], ValueAt(blocks[2][i], "text")[2])]

(***************************************************************************)
(* _parse_reply_intent_candidate and _parse_reply_intent_from_text: the    *)
(* first variant of a candidate that is a ReplyIntent; Bad if there is     *)
(* none, Raises if a loader raises first.                                  *)
(***************************************************************************)
RECURSIVE FirstReplyIntent(_)

IntentOr(payload, blocks, variants) ==
    CASE payload = Raises                             -> Raises
      [] payload # Raises /\ IsReplyIntent(blocks)    -> <<"intent", ToReplyIntent(blocks)>>
      [] payload # Raises /\ ~IsReplyIntent(blocks)   -> FirstReplyIntent(variants)

IntentIn(payload, variants) == IntentOr(payload, BlocksOf(payload), variants)

FirstReplyIntent(variants) ==
    IF variants = <<>> THEN Bad ELSE IntentIn(LoadJsonish(variants[1], 0), Tail(variants))

VariantsOfAll(candidates) == FlattenSeq([c \in DOMAIN candidates |-> CandidateVariants(candidates[c])])

ParseReplyIntent(raw) == FirstReplyIntent(VariantsOfAll(Candidates(raw)))

\* _has_usable_content
HasUsableContent(blocks) == \E i \in DOMAIN blocks : blocks[i].kind = "text" => Strip(blocks[i].text) # <<>>

\* Faulty: keys in double quotes only.
LooksLikeReplyIntentQuoted(s) ==
    \E i \in DOMAIN s : s[i] \in {"blocks", "kind"} /\ At(s, i + 1) = DQ /\ At(s, i + 2) \in {":", "="}

\* _looks_like_reply_intent_text
LooksLikeReplyIntent(s) ==
    \E i \in DOMAIN s :
        LET next == At(s, Skip(s, IF At(s, i + 1) \in {DQ, SQ} THEN i + 2 ELSE i + 1))
        IN \/ s[i] = "blocks" /\ next \in {":", "="}
           \/ s[i] = "kind" /\ next = ":"

\* _UNPARSEABLE_REPLY_INTENT_FALLBACK_TEXT
FallbackText == <<"could not be shown">>

(***************************************************************************)
(* generate_reply, generate_json_reply and generate_reply_intent give up   *)
(* on an empty answer and on a call that raised; both are a content        *)
(* without text here.                                                      *)
(***************************************************************************)
NoContent(content) == ExtractContent(content) = <<>>

Reply(blocks) == [status |-> "reply", blocks |-> blocks]
Raised(error) == [status |-> error, blocks |-> <<>>]

\* The blocks in a text that is no structured reply.
ShowParsed(parsed, text) ==
    CASE parsed = Raises -> Raised("TypeError")
      [] parsed[1] = "intent" /\ HasUsableContent(parsed[2]) -> Reply(parsed[2])
      [] OTHER -> Reply(<<ReplyBlock("text", IF LooksLikeReplyIntent(text) THEN FallbackText ELSE text)>>)

IntentFromText(text) == ShowParsed(ParseReplyIntent(text), text)

\* generate_reply_intent: structured is the result of the call with the
\* schema, content that of the plain call made when it is of no use.
GenerateReplyIntent(structured, content) ==
    LET usable == structured.status = "reply" /\ HasUsableContent(structured.blocks)
    IN CASE usable -> structured
         [] ~usable /\ NoContent(content)  -> Raised("LLMServiceError")
         [] ~usable /\ ~NoContent(content) -> IntentFromText(ExtractContent(content))

(***************************************************************************)
(* generate_json_reply: one object, strictly; anything else is an error.   *)
(* _JSON_BLOCK_PATTERN goes from the first fence before a { to the last    *)
(* fence behind a }.                                                       *)
(***************************************************************************)
InsideFence(s, i) == Skip(s, IF At(s, i + 1) = "json" THEN i + 2 ELSE i + 1)

JsonBlock(s) ==
    LET openings == {i \in DOMAIN s : s[i] = Fence /\ At(s, InsideFence(s, i)) = "{"}
        closings == {j \in DOMAIN s : s[j] = Fence /\ Before(s, j) = "}"}
    IN IF openings # {} /\ closings # {} /\ Min(openings) < Max(closings)
       THEN Strip(SubSeq(s, InsideFence(s, Min(openings)), Max(closings) - 1)) ELSE <<>>

ObjectText(s) ==
    CASE JsonBlock(s) # <<>> -> JsonBlock(s)
      [] JsonBlock(s) = <<>> /\ At(s, 1) # "{" /\ BraceSpan(s) # <<>> -> BraceSpan(s)
      [] OTHER -> s

ObjectOrBad(value) == IF value[1] = "obj" THEN value ELSE Bad

ExtractJsonObject(raw) == ObjectOrBad(Load("json", ObjectText(Strip(raw))))

ReplyOr(object) == IF object = Bad THEN Raised("LLMServiceError") ELSE [status |-> "reply", object |-> object]

GenerateJsonReply(content) ==
    IF NoContent(content) THEN Raised("LLMServiceError") ELSE ReplyOr(ExtractJsonObject(ExtractContent(content)))
==============================================================================
