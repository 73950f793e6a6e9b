------------------------------ MODULE CubeForms ------------------------------
(***************************************************************************)
(* A reply of blocks on its way to the user and the user's answer on its   *)
(* way back: _send_intent_reply of api/cube/service.py groups the blocks   *)
(* into text messages and rich notifications, Cube shows them, the user    *)
(* fills in fields and presses buttons, Cube posts the values to one of    *)
(* the two routes of api/cube/router.py, and payload.py makes a message of *)
(* them that accept_cube_message queues, once.                             *)
(*                                                                         *)
(* What Cube does is external: it shows a notification, lets a button be   *)
(* pressed if there is a callback address and every mandatory field has a  *)
(* value, and posts the values of the requested ids, wrapped like a        *)
(* message (with a message id of its own) or flat (with the id of the      *)
(* notification). It may post the same callback again.                     *)
(***************************************************************************)
EXTENDS RichBlocks

CONSTANTS
    Replies,     \* the replies, sequences of intents
    Inputs,      \* what a user types into a field
    Words,       \* what a user writes as a message
    MaxPosts     \* bound: the posts of Cube

ASSUME FormsAssumption ==
    /\ MaxPosts \in Nat /\ None \notin Inputs \cup Words
    /\ Replies \subseteq Seq(Intent)

VARIABLES
    reply,     \* the blocks of the reply
    parts,     \* what was sent to Cube, in order
    posts,     \* what Cube has posted, and the answer it got
    seen,      \* message ids in the window of the deduplication
    queued     \* the messages in the queue

formVars == <<reply, parts, posts, seen, queued>>

----------------------------------------------------------------------------
(***************************************************************************)
(* Sending. pending holds the texts and the blocks that wait.              *)
(***************************************************************************)
\* send_richnotification_blocks: values are wanted back if any block has ids.
Notification(blocks) ==
    [kind |-> "form",
     content |-> AddContainer(blocks, \E b \in DOMAIN blocks : blocks[b].requestid # <<>>)]

\* _send_structured_intent_group
SendBlocks(sent, blocks) == IF blocks = <<>> THEN sent ELSE Append(sent, Notification(blocks))

\* _send_text_intent_group (chunk_text: see Chunker)
SendTexts(sent, texts) ==
    LET kept == Only(texts, LAMBDA text : text # "")
    IN IF kept = <<>> THEN sent ELSE Append(sent, [kind |-> "text", content |-> kept])

\* Faulty: the blocks before a text wait for those behind it.
TakeIntentKeepsBlocks(pending, intent) ==
    IF intent.kind = "text"
    THEN [pending EXCEPT !.sent = SendBlocks(@, pending.blocks), !.texts = Append(@, intent.text)]
    ELSE [sent |-> SendTexts(pending.sent, pending.texts), texts |-> <<>>,
          blocks |-> Append(pending.blocks, IntentToBlock(intent))]

TakeIntent(pending, intent) ==
    IF intent.kind = "text"
    THEN [sent |-> SendBlocks(pending.sent, pending.blocks), blocks |-> <<>>,
          texts |-> Append(pending.texts, intent.text)]
    ELSE [sent |-> SendTexts(pending.sent, pending.texts), texts |-> <<>>,
          blocks |-> Append(pending.blocks, IntentToBlock(intent))]

SendIntentReply(intents) ==
    LET last == FoldLeft(TakeIntent, [sent |-> <<>>, texts |-> <<>>, blocks |-> <<>>], intents)
    IN SendBlocks(SendTexts(last.sent, last.texts), last.blocks)

----------------------------------------------------------------------------
(***************************************************************************)
(* Cube and the user.                                                      *)
(***************************************************************************)
Typed == {"inputtext", "textarea", "datepicker", "datetimepicker"}

Cells(content) == UNION {ToSet(row) : row \in ToSet(content.rows)}

\* Cells that are only looked at.
Passive == {"label", "image", "hypertext"}

Fields(content) == {cell.processid : cell \in {c \in Cells(content) : c.type \notin Passive \cup {"button"}}}

Buttons(content) == {cell \in Cells(content) : cell.type = "button"}

(***************************************************************************)
(* A block asks for the value of each of its fields and buttons: add_*     *)
(* does, and who writes a raw block has to. The ids that Cube fills in     *)
(* itself are no ids of fields: the code does not check that.              *)
(***************************************************************************)
ASSUME AskedAssumption ==
    \A r \in Replies : \A intent \in ToSet(r) :
        LET block == IntentToBlock(intent)
        IN \A cell \in Cells(block) :
              cell.type \notin Passive => cell.processid \in ToSet(block.requestid) \ ToSet(SystemRequestIds)

(***************************************************************************)
(* Nothing that can be chosen is blank, and buttons of a reply that look   *)
(* alike do the same: the lines made of a press tell what was pressed. The *)
(* code does not check that either.                                        *)
(***************************************************************************)
ASSUME LegibleAssumption ==
    /\ "" \notin Inputs
    /\ \A r \in Replies :
          LET cells == UNION {Cells(IntentToBlock(intent)) : intent \in ToSet(r)}
          IN /\ \A cell \in cells :
                   /\ cell.type \in {"radio", "checkbox"} => cell.text # "" /\ cell.value # ""
                   /\ cell.type = "select" => \A o \in ToSet(cell.options) : o.label # "" /\ o.value # ""
             /\ \A one, other \in {cell \in cells : cell.type = "button"} :
                   /\ one.text # ""
                   /\ one.processid = other.processid /\ one.text = other.text => one.value = other.value

Filled(values, texts) == [value |-> values, text |-> texts]

Empty == Filled(<<>>, <<>>)

\* What a user can leave in a field.
Answers(content, id) ==
    LET of(types) == {cell \in Cells(content) : cell.processid = id /\ cell.type \in types}
        Chosen(cells) == LET s == SetToSeq(cells)
                         IN Filled([i \in DOMAIN s |-> s[i].value], [i \in DOMAIN s |-> s[i].text])
    IN {Empty}
         \cup {Filled(<<v>>, <<v>>) : v \in IF of(Typed) # {} THEN Inputs ELSE {}}
         \cup {Filled(<<cell.value>>, <<cell.text>>) : cell \in of({"radio"})}
         \cup {Chosen(s) : s \in (SUBSET of({"checkbox"})) \ {{}}}
         \cup UNION {{Filled(<<o.value>>, <<o.label>>) : o \in ToSet(cell.options)} : cell \in of({"select"})}

\* The values that are posted: those of the fields and the button. A field
\* left empty is posted without values, the ids of Cube's own with some.
ValueOf(answers, button, id) ==
    [requestid |-> id,
     of |-> IF id \in DOMAIN answers THEN answers[id]
            ELSE IF id = button.processid THEN Filled(<<button.value>>, <<button.text>>)
            ELSE Filled(<<"of Cube">>, <<>>)]

ResultData(content, answers, button) ==
    LET posted(id) == id \in DOMAIN answers \cup {button.processid} \cup ToSet(SystemRequestIds)
        ids == Only(content.requestid, posted)
    IN [i \in DOMAIN ids |-> ValueOf(answers, button, ids[i])]

Payload(shape, messageid, processdata, resultdata) ==
    [shape |-> shape, messageid |-> messageid, processdata |-> processdata, resultdata |-> resultdata]

NoPress == [part |-> 0]

FreshId == <<"message", Len(posts)>>

CallbackPayload(part, answers, button, shape) ==
    Payload(shape, IF shape = "wrapped" THEN FreshId ELSE <<"notification", part>>, "",
            ResultData(parts[part].content, answers, button))

----------------------------------------------------------------------------
(***************************************************************************)
(* api/cube/payload.py                                                     *)
(***************************************************************************)
\* _extract_text_values: blank values do not count.
TextValues(values) == Only(values, LAMBDA v : v # "")

SystemId(id) == id \in ToSet(SystemRequestIds)

\* "id: text (value)", what there is of it.
LineOf(item) ==
    LET text == TextValues(item.of.text)
        value == TextValues(item.of.value)
    IN [requestid |-> item.requestid,
        shown |-> IF text # <<>> THEN text ELSE value,
        value |-> IF text # <<>> /\ value # <<>> /\ text # value THEN value ELSE <<>>]

\* _extract_callback_message_lines
MessageLines(payload) ==
    LET items == Only(payload.resultdata, LAMBDA item : ~SystemId(item.requestid))
    IN [i \in DOMAIN items |-> LineOf(items[i])]

\* A message is a sequence of lines; a blank one has none.
Said(words) == IF words = "" THEN <<>> ELSE <<[requestid |-> None, shown |-> <<words>>, value |-> <<>>]>>

\* _extract_callback_message
CallbackMessage(payload) ==
    IF MessageLines(payload) # <<>> THEN MessageLines(payload) ELSE Said(payload.processdata)

\* Faulty: the values are no part of the id.
CallbackMessageIdOfNotification(payload) == <<payload.messageid, <<>>, payload.processdata>>

\* _build_callback_message_id: a hash of all this.
CallbackMessageId(payload) == <<payload.messageid, MessageLines(payload), payload.processdata>>

\* extract_cube_request_fields
RequestFields(payload) ==
    CASE payload.shape = "wrapped" ->
           [messageid |-> payload.messageid,
            message |-> IF payload.processdata # "" THEN Said(payload.processdata) ELSE CallbackMessage(payload)]
      [] payload.shape = "flat"  -> [messageid |-> CallbackMessageId(payload), message |-> CallbackMessage(payload)]
      [] payload.shape = "plain" -> [messageid |-> payload.messageid, message |-> Said(payload.processdata)]

\* _is_wakeup_message
WakeUp == "wake up"
IsWakeUp(fields) == fields.messageid = <<"-1">> /\ fields.message = Said(WakeUp)

(***************************************************************************)
(* accept_cube_message: the status a payload gets, and its effect on the   *)
(* queue (enqueue_incoming_message: see CubeQueue).                        *)
(***************************************************************************)
Status(payload) ==
    IF payload.shape = "broken" THEN "rejected"
    ELSE LET fields == RequestFields(payload)
             ignored == fields.message = <<>> \/ IsWakeUp(fields)
         IN CASE ignored                                -> "ignored"
              [] ~ignored /\ fields.messageid \in seen -> "duplicate"
              [] OTHER                                  -> "accepted"

Receive(payload, press) ==
    /\ posts' = Append(posts, [payload |-> payload, press |-> press, status |-> Status(payload)])
    /\ IF Status(payload) = "accepted"
       THEN /\ seen' = seen \cup {RequestFields(payload).messageid}
            /\ queued' = Append(queued, RequestFields(payload).message)
       ELSE UNCHANGED <<seen, queued>>
    /\ UNCHANGED <<reply, parts>>

----------------------------------------------------------------------------
FormsInit ==
    /\ reply \in Replies
    /\ parts = SendIntentReply(reply)
    /\ posts = <<>> /\ seen = {} /\ queued = <<>>

\* A button is pressed.
Press ==
    \E part \in DOMAIN parts :
        /\ Len(posts) < MaxPosts
        /\ parts[part].kind = "form" /\ parts[part].content.callback
        /\ LET content == parts[part].content
           IN \E button \in Buttons(content), shape \in {"wrapped", "flat"},
                 answers \in {a \in [Fields(content) -> UNION {Answers(content, id) : id \in Fields(content)}] :
                                 \A id \in Fields(content) : a[id] \in Answers(content, id)} :
                 /\ \A i \in DOMAIN content.mandatory :
                       content.mandatory[i] \in DOMAIN answers => answers[content.mandatory[i]] # Empty
                 /\ Receive(CallbackPayload(part, answers, button, shape),
                            [part |-> part, answers |-> answers, button |-> button])

\* The user writes something, or Cube wakes the bot up.
Write ==
    /\ Len(posts) < MaxPosts
    /\ \/ \E word \in Words, shape \in {"wrapped", "plain", "broken"} :
             Receive(Payload(shape, FreshId, word, <<>>), NoPress)
       \/ Receive(Payload("wrapped", <<"-1">>, WakeUp, <<>>), NoPress)

\* Cube got no answer in time and posts the same again.
PostAgain ==
    /\ Len(posts) < MaxPosts
    /\ \E i \in DOMAIN posts : Receive(posts[i].payload, posts[i].press)

FormsNext == Press \/ Write \/ PostAgain

FormsSpec == FormsInit /\ [][FormsNext]_formVars

----------------------------------------------------------------------------
\* The rows a message shows, and those a block of the reply stands for.
Shown(part) ==
    IF part.kind = "form" THEN part.content.rows
    ELSE [i \in DOMAIN part.content |-> AddText(part.content[i]).rows[1]]

Meant(intent) == IF intent = TextIntent("") THEN <<>> ELSE IntentToBlock(intent).rows

(***************************************************************************)
(* _send_intent_reply: what the messages show, one after the other, is     *)
(* what the blocks of the reply show, in their order and each once, and    *)
(* what the history gets (intents_to_history_text) has the same blocks;    *)
(* with blocks that are not blank, texts and notifications alternate, so   *)
(* that fields and the button below them are one notification.             *)
(***************************************************************************)
PartsInOrder ==
    LET kept == Only(reply, LAMBDA intent : intent # TextIntent(""))
    IN /\ FlattenSeq([i \in DOMAIN parts |-> Shown(parts[i])]) = FlattenSeq([i \in DOMAIN reply |-> Meant(reply[i])])
       /\ Len(HistoryText(reply)) = Len(kept)
       /\ \A i \in DOMAIN kept : HistoryText(reply)[i][1] = kept[i].kind
       /\ TextIntent("") \notin ToSet(reply) =>
             \A i \in 1..(Len(parts) - 1) : parts[i].kind # parts[i + 1].kind

Accepted == Only(posts, LAMBDA post : post.status = "accepted")

Tells(line, answer) ==
    LET text == TextValues(answer.text)
        value == TextValues(answer.value)
    IN /\ line.shown = IF text # <<>> THEN text ELSE value
       /\ line.value \in {<<>>, value} /\ (line.value = <<>> => value \in {<<>>, line.shown})

(***************************************************************************)
(* What the user filled in and the button that was pressed reach the       *)
(* queue: a message that was accepted names every field of the             *)
(* notification, with what was left in it, and no other but the button.    *)
(* It depends on the ids of every block being asked for, by both routes.   *)
(***************************************************************************)
AnswersArrive ==
    /\ Len(queued) = Len(Accepted)
    /\ \A i \in DOMAIN queued :
          LET press == Accepted[i].press
              fields == DOMAIN press.answers
          IN press # NoPress =>
               /\ {queued[i][l].requestid : l \in DOMAIN queued[i]} = fields \cup {press.button.processid}
               /\ \A l \in DOMAIN queued[i] :
                     IF queued[i][l].requestid \in fields
                     THEN Tells(queued[i][l], press.answers[queued[i][l].requestid])
                     ELSE Tells(queued[i][l], Filled(<<press.button.value>>, <<press.button.text>>))

(***************************************************************************)
(* A press counts once: the same payload is not queued again, whichever    *)
(* route it took, and a press with other answers is never taken for one    *)
(* that was seen before.                                                   *)
(***************************************************************************)
PressCounted ==
    \A i \in DOMAIN posts :
        LET before == {j \in 1..(i - 1) : posts[j].payload = posts[i].payload}
        IN CASE posts[i].status = "duplicate" -> before # {}
             [] posts[i].status = "accepted"  -> before = {}
             [] OTHER                         -> \A j \in before : posts[j].status = posts[i].status
==============================================================================
