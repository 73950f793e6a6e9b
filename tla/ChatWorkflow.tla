---------------------------- MODULE ChatWorkflow ----------------------------
(***************************************************************************)
(* One conversation thread of the LangGraph workflow: handle_message of    *)
(* api/workflows/lg_orchestrator.py, the root graph start_chat and its     *)
(* subgraph translator. Every node reads the caller's copy of the state    *)
(* and commits the next checkpoint. Callers are the Cube worker, which     *)
(* tries a failed message again, and the threads of the web chat, which    *)
(* do not (MaxTries = 1); nothing keeps them apart.                        *)
(*                                                                         *)
(* A text is the message it was made from. What an LLM decides is chosen   *)
(* freely within what the code accepts.                                    *)
(***************************************************************************)
EXTENDS Integers, Sequences, FiniteSets

CONSTANTS
    Messages,      \* the user's messages to this thread
    Handoff,       \* those that contain a handoff keyword of the translator
    Callers,       \* the processes and threads that call handle_message
    MaxTries,      \* how often a message is tried
    MaxFailures,   \* bound: failed nodes, deliveries and dead processes
    None           \* no text

ASSUME WorkflowAssumption ==
    /\ Handoff \subseteq Messages
    /\ None \notin Messages
    /\ MaxTries \in Nat \ {0}
    /\ MaxFailures \in Nat

VARIABLES
    saved,      \* the newest checkpoint of the root graph
    threads,    \* the newest checkpoint of the subgraph, for each handoff
    call,       \* what each caller is doing
    todo,       \* the messages to be handled, or handled again
    tries,      \* how often each message was taken
    failures    \* how many failures there have been

flowVars == <<saved, threads, call, todo, tries, failures>>

Text == Messages \cup {None}

Workflows == {"start_chat", "translator"}

RootNodes == {"entry", "classify", "retrieve_context", "member_lookup",
              "generate_reply", "translator", "end"}

TranslatorNodes == {"resolve", "collect_source_text", "collect_target_language",
                    "translate", "end"}

\* StartChatState: user_message, the last of messages (the message it
\* answers, the workflow that wrote it and the slots it was made from), and
\* reply_intents (the message its card belongs to).
NoAnswer == [to |-> None, by |-> "start_chat", slots |-> {}]

EmptyRoot == [next |-> "end", message |-> None, active |-> "start_chat",
              answer |-> NoAnswer, card |-> None, handoff |-> 0]

\* TranslatorState, which starts empty at each handoff, with the question of
\* its last interrupt. since: the messages of this dialogue (history only).
NewDialogue(m) == [next |-> "resolve", message |-> m, source |-> None, target |-> None,
                   question |-> None, since |-> {m}]

Reply == [kind : {"none", "question", "answer"}, to : Text, by : Workflows,
          slots : SUBSET Text, card : Text]

NoReply == [kind |-> "none", to |-> None, by |-> "start_chat", slots |-> {}, card |-> None]

Idle == [at |-> "idle", turn |-> None, resuming |-> FALSE, rested |-> TRUE,
         token |-> FALSE, mine |-> EmptyRoot, dialogue |-> NewDialogue(None),
         reply |-> NoReply]

FlowInit ==
    /\ saved = EmptyRoot
    /\ threads = <<>>
    /\ call = [c \in Callers |-> Idle]
    /\ todo = Messages
    /\ tries = [m \in Messages |-> 0]
    /\ failures = 0

----------------------------------------------------------------------------
\* snapshot.tasks is not empty. That is so while the translator waits for
\* an answer, and after a node that did not finish.
HasTasks == saved.next # "end"

Interrupted ==
    /\ saved.next = "translator"
    /\ threads[saved.handoff].question # None
    /\ threads[saved.handoff].next \in {"collect_source_text", "collect_target_language"}

\* A message is handed to handle_message.
Take(c, m) ==
    /\ call[c].at = "idle" /\ m \in todo
    /\ todo' = todo \ {m}
    /\ tries' = [tries EXCEPT ![m] = @ + 1]
    /\ call' = [call EXCEPT ![c].at = "look", ![c].turn = m]
    /\ UNCHANGED <<saved, threads, failures>>

\* graph.get_state before the run.
LookAtState(c) ==
    /\ call[c].at = "look"
    /\ call' = [call EXCEPT ![c].at = "invoke",
                            ![c].resuming = HasTasks,
                            ![c].rested = ~HasTasks \/ Interrupted]
    /\ UNCHANGED <<saved, threads, todo, tries, failures>>

\* graph.invoke(Command(resume=...)): the pending node runs again on the
\* saved state. The message is only a token for the next interrupt of that
\* node. On a thread that has ended meanwhile nothing runs.
Resume(c) ==
    /\ call[c].at = "invoke" /\ call[c].resuming
    /\ call' = [call EXCEPT
          ![c].at = IF HasTasks THEN "run" ELSE "read",
          ![c].mine = saved,
          ![c].token = saved.next = "translator",
          ![c].dialogue = IF saved.next = "translator" THEN threads[saved.handoff] ELSE @]
    /\ UNCHANGED <<saved, threads, todo, tries, failures>>

\* graph.invoke({...}): a new run from the entry point. What the input does
\* not name is kept from the checkpoint.
StartRun(c) ==
    /\ call[c].at = "invoke" /\ ~call[c].resuming
    /\ saved' = [saved EXCEPT !.message = call[c].turn, !.next = "entry"]
    /\ call' = [call EXCEPT ![c].at = "run", ![c].mine = saved']
    /\ UNCHANGED <<threads, todo, tries, failures>>

----------------------------------------------------------------------------
Runs(c, node) == call[c].at = "run" /\ call[c].mine.next = node

InDialogue(c, nodes) == Runs(c, "translator") /\ call[c].dialogue.next \in nodes

\* A node of the root graph is done. The run ends at END.
CommitRoot(c, root) ==
    /\ saved' = root
    /\ call' = [call EXCEPT ![c].mine = root,
                            ![c].at = IF root.next = "end" THEN "read" ELSE "run"]
    /\ UNCHANGED <<todo, tries, failures>>

\* A node of the subgraph is done.
CommitDialogue(c, dialogue, token) ==
    /\ threads' = [threads EXCEPT ![call[c].mine.handoff] = dialogue]
    /\ call' = [call EXCEPT ![c].dialogue = dialogue, ![c].token = token]
    /\ UNCHANGED <<saved, todo, tries, failures>>

\* The subgraph ends, and with it the run: the values it shares with the
\* root graph go there, reply_intents as they were.
CommitLast(c, dialogue, answer) ==
    /\ CommitRoot(c, [call[c].mine EXCEPT !.next = "end", !.answer = answer])
    /\ threads' = [threads EXCEPT ![call[c].mine.handoff] = [dialogue EXCEPT !.next = "end"]]

\* The nodes that only prepare the answer.
Successor == [entry |-> "classify", retrieve_context |-> "member_lookup",
              member_lookup |-> "generate_reply"]

Prepare(c) ==
    /\ \E node \in DOMAIN Successor :
          /\ Runs(c, node)
          /\ CommitRoot(c, [call[c].mine EXCEPT !.next = Successor[node]])
    /\ UNCHANGED threads

\* classify_node and _route_after_classify. A handoff opens a dialogue.
Classify(c) ==
    LET root == call[c].mine
    IN  /\ Runs(c, "classify")
        /\ \/ /\ root.message \notin Handoff
              /\ CommitRoot(c, [root EXCEPT !.active = "start_chat", !.next = "retrieve_context"])
              /\ UNCHANGED threads
           \/ /\ root.message \in Handoff
              /\ threads' = Append(threads, NewDialogue(root.message))
              /\ saved' = [root EXCEPT !.active = "translator", !.next = "translator",
                                       !.handoff = Len(threads')]
              /\ call' = [call EXCEPT ![c].mine = saved', ![c].token = FALSE,
                                      ![c].dialogue = NewDialogue(root.message)]
              /\ UNCHANGED <<todo, tries, failures>>

\* Faulty: a plain answer leaves reply_intents alone.
GenerateReplyKeepsCard(c) ==
    LET root == call[c].mine
    IN  /\ Runs(c, "generate_reply")
        /\ \E card \in {root.card, root.message} :
              CommitRoot(c, [root EXCEPT !.next = "end", !.card = card,
                  !.answer = [to |-> root.message, by |-> "start_chat", slots |-> {}]])
        /\ UNCHANGED threads

\* generate_reply_node: an answer, with structured blocks or without.
GenerateReply(c) ==
    LET root == call[c].mine
    IN  /\ Runs(c, "generate_reply")
        /\ \E card \in {None, root.message} :
              CommitRoot(c, [root EXCEPT !.next = "end", !.card = card,
                  !.answer = [to |-> root.message, by |-> "start_chat", slots |-> {}]])
        /\ UNCHANGED threads

\* Faulty: what the model does not repeat is forgotten.
MergedUnmerged(old, new) == {None, new}

\* Faulty: a slot counts as filled when the model says so.
CompleteEither(source, target) == source # None \/ target # None

\* resolved or what was there: a slot, once filled, is never emptied.
Merged(old, new) == {old, new}

\* Both slots are there.
Complete(source, target) == source # None /\ target # None

\* resolve_node and _route_after_resolve: end_conversation empties the slots
\* and the dialogue ends, or they are merged and, unless both are there, one
\* of them is asked for.
Resolve(c) ==
    LET d == call[c].dialogue
    IN  /\ InDialogue(c, {"resolve"})
        /\ \/ CommitLast(c, [d EXCEPT !.source = None, !.target = None],
                         [to |-> d.message, by |-> "translator", slots |-> {}])
           \/ \E source \in Merged(d.source, d.message), target \in Merged(d.target, d.message) :
              \E next \in IF Complete(source, target) THEN {"translate"}
                          ELSE {"collect_source_text", "collect_target_language"} :
                 CommitDialogue(c, [d EXCEPT !.source = source, !.target = target,
                                             !.next = next], call[c].token)

\* Faulty: the token is not used up.
CollectKeepsToken(c) ==
    LET d == call[c].dialogue
    IN  /\ InDialogue(c, {"collect_source_text", "collect_target_language"})
        /\ call[c].token
        /\ CommitDialogue(c, [d EXCEPT !.message = call[c].turn, !.next = "resolve",
                                       !.since = @ \cup {call[c].turn}], TRUE)

\* interrupt returns the message of this call, once.
Collect(c) ==
    LET d == call[c].dialogue
    IN  /\ InDialogue(c, {"collect_source_text", "collect_target_language"})
        /\ call[c].token
        /\ CommitDialogue(c, [d EXCEPT !.message = call[c].turn, !.next = "resolve",
                                       !.since = @ \cup {call[c].turn}], FALSE)

\* interrupt stops the run with the question.
Interrupt(c) ==
    LET d == call[c].dialogue
    IN  /\ InDialogue(c, {"collect_source_text", "collect_target_language"})
        /\ ~call[c].token
        /\ threads' = [threads EXCEPT ![call[c].mine.handoff] = [d EXCEPT !.question = d.message]]
        /\ call' = [call EXCEPT ![c].at = "read"]
        /\ UNCHANGED <<saved, todo, tries, failures>>

\* translate_node, with a translation or with the tool's error message.
Translate(c) ==
    LET d == call[c].dialogue
    IN  /\ InDialogue(c, {"translate"})
        /\ CommitLast(c, d, [to |-> d.message, by |-> "translator",
                             slots |-> {d.source, d.target}])

----------------------------------------------------------------------------
AnswerReply == [kind |-> "answer", to |-> saved.answer.to, by |-> saved.answer.by,
                slots |-> saved.answer.slots, card |-> saved.card]

QuestionReply == [NoReply EXCEPT !.kind = "question", !.by = "translator",
                                 !.to = threads[saved.handoff].question]

\* Faulty: the last message is the reply, the thread waiting or not.
ReadReplyLastMessage(c) ==
    /\ call[c].at = "read"
    /\ call' = [call EXCEPT ![c].at = "deliver", ![c].reply = AnswerReply]
    /\ UNCHANGED <<saved, threads, todo, tries, failures>>

\* graph.get_state after the run: the question of the pending interrupt or
\* the last message, whoever's run it is from.
ReadReply(c) ==
    /\ call[c].at = "read"
    /\ \/ ~HasTasks /\ call' = [call EXCEPT ![c].at = "deliver", ![c].reply = AnswerReply]
       \/ /\ saved.next = "translator" /\ threads[saved.handoff].question # None
          /\ call' = [call EXCEPT ![c].at = "deliver", ![c].reply = QuestionReply]
    /\ UNCHANGED <<saved, threads, todo, tries, failures>>

\* The caller has sent the reply and takes the next message.
Delivered(c) ==
    /\ call[c].at = "deliver"
    /\ call' = [call EXCEPT ![c] = Idle]
    /\ UNCHANGED <<saved, threads, todo, tries, failures>>

\* Faulty: one try too many.
TryAgainOnceMore(c) ==
    /\ call' = [call EXCEPT ![c] = Idle]
    /\ todo' = IF tries[call[c].turn] <= MaxTries THEN todo \cup {call[c].turn} ELSE todo
    /\ UNCHANGED <<saved, threads, tries>>

\* The message is tried again, or given up.
TryAgain(c) ==
    /\ call' = [call EXCEPT ![c] = Idle]
    /\ todo' = IF tries[call[c].turn] < MaxTries THEN todo \cup {call[c].turn} ELSE todo
    /\ UNCHANGED <<saved, threads, tries>>

\* handle_message finds a pending node without an interrupt: IndexError.
ReadRaises(c) ==
    /\ call[c].at = "read"
    /\ HasTasks
    /\ saved.next = "translator" => threads[saved.handoff].question = None
    /\ TryAgain(c)
    /\ UNCHANGED failures

\* Faulty: handle_message logs the error and goes on.
FailSwallowed(c) ==
    /\ call[c].at = "run" /\ failures < MaxFailures
    /\ failures' = failures + 1
    /\ call' = [call EXCEPT ![c].at = "read"]
    /\ UNCHANGED <<saved, threads, todo, tries>>

\* A node or the checkpointer raises, the delivery fails, or the process
\* dies: what is committed stays, the pending node too.
Fail(c) ==
    /\ call[c].at # "idle" /\ failures < MaxFailures
    /\ failures' = failures + 1
    /\ TryAgain(c)

CallerStep(c) ==
    \/ LookAtState(c) \/ Resume(c) \/ StartRun(c)
    \/ Prepare(c) \/ Classify(c) \/ GenerateReply(c)
    \/ Resolve(c) \/ Collect(c) \/ Interrupt(c) \/ Translate(c)
    \/ ReadReply(c) \/ ReadRaises(c) \/ Delivered(c)

FlowNext ==
    \E c \in Callers : CallerStep(c) \/ Fail(c) \/ \E m \in Messages : Take(c, m)

FlowSpec == FlowInit /\ [][FlowNext]_flowVars

LiveFlowSpec == FlowSpec /\ \A c \in Callers : WF_flowVars(CallerStep(c))

----------------------------------------------------------------------------
Dialogue == [next : TranslatorNodes, message : Text, source : Text, target : Text,
             question : Text, since : SUBSET Text]

Answer == [to : Text, by : Workflows, slots : SUBSET Text]

Root == [next : RootNodes, message : Text, active : Workflows, answer : Answer,
         card : Text, handoff : 0..Len(threads)]

Locations == {"idle", "look", "invoke", "run", "read", "deliver"}

CallState == [at : Locations, turn : Text, resuming : BOOLEAN, rested : BOOLEAN,
              token : BOOLEAN, mine : Root, dialogue : Dialogue, reply : Reply]

(***************************************************************************)
(* The state is well typed, no message is tried more than MaxTries times,  *)
(* and a thread that waits in the translator has the dialogue of its last  *)
(* handoff to go on with.                                                  *)
(***************************************************************************)
FlowTypeOK ==
    /\ saved \in Root
    /\ threads \in Seq(Dialogue)
    /\ call \in [Callers -> CallState]
    /\ todo \subseteq Messages
    /\ tries \in [Messages -> 0..MaxTries]
    /\ failures \in 0..MaxFailures
    /\ saved.next = "translator" =>
          /\ saved.active = "translator" /\ saved.handoff > 0
          /\ threads[saved.handoff].next # "end"

(***************************************************************************)
(* The guard of lg_orchestrator.py:227 and lg_state.py:23: a card is sent  *)
(* only with the answer it was made for. A question of the translator has  *)
(* none, and an answer of start_chat its own or none, although             *)
(* reply_intents stays in the checkpoint from turn to turn. (The finished  *)
(* turns of the translator are a finding, TranslationShown.)               *)
(***************************************************************************)
CardsCurrent ==
    \A c \in Callers :
        LET r == call[c].reply
        IN  /\ r.kind = "question" => r.card = None
            /\ r.kind = "answer" /\ r.by = "start_chat" => r.card \in {None, r.to}

(***************************************************************************)
(* A translation is made from a text and a language that the user gave in  *)
(* this dialogue, whatever was saved by earlier dialogues or other runs.   *)
(***************************************************************************)
SlotsFromDialogue ==
    \A c \in Callers :
        LET d == call[c].dialogue
        IN  InDialogue(c, {"translate"}) =>
                None \notin {d.source, d.target} /\ {d.source, d.target} \subseteq d.since

(***************************************************************************)
(* With one caller what a dialogue has learned survives its questions,     *)
(* failures and retries: no step empties a slot that is filled, while the  *)
(* dialogue goes on, when it ends with a translation or after its end. Only*)
(* the end without a translation (end_conversation, translator/lg_graph.py:*)
(* 31-42) does, of both at once and of that dialogue alone, and the run of *)
(* the root graph ends with it.                                            *)
(***************************************************************************)
SlotsKept ==
    [][\A i \in 1..Len(threads) :
          LET d == threads[i]  e == threads'[i]
          IN  \/ /\ d.source # None => e.source # None
                 /\ d.target # None => e.target # None
              \/ /\ d.next # "end" /\ e.next = "end" /\ {e.source, e.target} = {None}
                 /\ saved'.next = "end" /\ saved'.answer.slots = {}]_flowVars

(***************************************************************************)
(* With one caller, a call that found the thread at rest (ended, or        *)
(* waiting for an answer) returns a reply that was made from its own       *)
(* message. A thread that a failed call left in the middle is the          *)
(* exception (NewInputUnlessInterrupted).                                  *)
(***************************************************************************)
OwnReply ==
    \A c \in Callers :
        call[c].at = "deliver" /\ call[c].rested => call[c].reply.to = call[c].turn

(***************************************************************************)
(* One caller never meets a pending node without an interrupt after a run  *)
(* that returned, so tasks[0].interrupts[0] is there (lg_orchestrator.py:209).   *)
(***************************************************************************)
ReplyReadable ==
    \A c \in Callers :
        call[c].at = "read" /\ saved.next # "end" =>
            saved.next = "translator" /\ threads[saved.handoff].question # None

(***************************************************************************)
(* Every call of handle_message ends: the questions of a dialogue cannot   *)
(* be answered by one message over and over.                               *)
(***************************************************************************)
EveryCallEnds == \A c \in Callers : call[c].at # "idle" ~> call[c].at = "idle"

(***************************************************************************)
(* data_pipeline.md:73-75: a thread that waits in an interrupt is resumed, *)
(* any other gets the message as new input.                                *)
(***************************************************************************)
NewInputUnlessInterrupted ==
    [][\A c \in Callers :
          call[c].at = "look" /\ call'[c].at = "invoke" => (call'[c].resuming <=> Interrupted)]_flowVars

(***************************************************************************)
(* workflow_catalog.md:31: a finished turn of the translator returns the   *)
(* translation. (The Cube service sends the card instead, if there is one.)*)
(***************************************************************************)
TranslationShown ==
    \A c \in Callers :
        LET r == call[c].reply
        IN  r.kind = "answer" /\ r.by = "translator" => r.card = None
============================================================================
