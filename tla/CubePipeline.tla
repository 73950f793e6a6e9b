----------------------------- MODULE CubePipeline -----------------------------
(***************************************************************************)
(* What the worker does with one message, process_incoming_message of      *)
(* api/cube/service.py: store the question, run the workflow, send the     *)
(* answer to Cube part by part, store the answer. It opens up the location *)
(* "process" of CubeWorker; the queue around it is that of CubeMessaging.  *)
(*                                                                         *)
(* The workflow is an oracle here: it reads the history for the prompt or  *)
(* not, and returns an answer in some number of parts or raises. The       *)
(* thinking message, which touches no state, is left out.                  *)
(***************************************************************************)
EXTENDS CubeMessaging, ConversationStore

CONSTANTS
    ConversationOf,   \* the conversation each message belongs to
    MaxParts          \* bound: the most parts an answer is sent in

ASSUME PipelineAssumption ==
    /\ ConversationOf \in [Messages -> Conversations]
    /\ MaxParts \in Nat \ {0}

VARIABLES
    stage,        \* where each worker is inside process_incoming_message
    connected,    \* the process has built its store backend (_backend is set)
    parts,        \* how many parts the answer has
    sent,         \* how many of them Cube has received in this run
    omitted       \* copy of the document left out of the LLM prompt, 0 if none

pipelineVars == <<stage, connected, parts, sent, omitted>>

allVars == <<vars, storeVars, pipelineVars>>

Stages == {"none", "store", "write", "workflow", "generate", "deliver", "record", "return"}

Question(c) ==
    UserDocument(IF log[c].msg \in Anonymous THEN EmptyId ELSE log[c].msg, c)

ConversationOfCopy(c) == ConversationOf[log[c].msg]

PipelineInit ==
    /\ Init
    /\ StoreInit
    /\ stage = [w \in Workers |-> "none"]
    /\ connected = [w \in Workers |-> FALSE]
    /\ parts = [w \in Workers |-> 0]
    /\ sent = [w \in Workers |-> 0]
    /\ omitted = [w \in Workers |-> 0]

----------------------------------------------------------------------------
At(w, s) == pc[w] = "process" /\ stage[w] = s

GotoStage(w, s) == stage' = [stage EXCEPT ![w] = s]

Connect(w) == connected' = [connected EXCEPT ![w] = TRUE]

Here(w) == ConversationOfCopy(cur[w].copy)

\* The run is over: nothing of it is kept.
LeavePipeline(w) ==
    /\ GotoStage(w, "none")
    /\ parts' = [parts EXCEPT ![w] = 0]
    /\ sent' = [sent EXCEPT ![w] = 0]
    /\ omitted' = [omitted EXCEPT ![w] = 0]

\* process_incoming_message raises.
Raise(w) == ProcessRaises(w) /\ LeavePipeline(w) /\ UNCHANGED told

\* The queue and the worker stay where they are.
Inside == UNCHANGED <<vars>>

\* append_message of the question. With the local backend the lookup is a
\* step of its own. It raises ConversationStoreError when the backend cannot
\* be built, and whatever the driver raises, inserted or not, afterwards.
StoreQuestion(w) ==
    LET doc == Question(cur[w].copy)
    IN  /\ At(w, "store")
        /\ \/ /\ backend # "local" \/ LocalIsDuplicate(Here(w), doc)
              /\ AppendMessage(Here(w), doc)
              /\ Connect(w) /\ GotoStage(w, "workflow")
              /\ Inside /\ UNCHANGED <<parts, sent, omitted>>
           \/ /\ backend = "local" /\ ~LocalIsDuplicate(Here(w), doc)
              /\ Connect(w) /\ GotoStage(w, "write")
              /\ Inside /\ UNCHANGED <<storeVars, parts, sent, omitted>>
           \/ /\ backend # "memory"
              /\ \/ UNCHANGED <<storeVars, connected>>
                 \/ Connect(w) /\ UNCHANGED storeVars
                 \/ Connect(w) /\ backend = "mongo" /\ AppendMessage(Here(w), doc)
              /\ Raise(w)

\* The local backend writes the line, or fails to.
WriteQuestion(w) ==
    /\ At(w, "write")
    /\ \/ /\ LocalWrite(Here(w), Question(cur[w].copy))
          /\ GotoStage(w, "workflow")
          /\ Inside /\ UNCHANGED <<connected, parts, sent, omitted>>
       \/ UNCHANGED <<storeVars, connected>> /\ Raise(w)

\* generate_reply_node reads the history and drops its last document when
\* that is a user's.
ReadHistory(w) ==
    /\ At(w, "workflow")
    /\ LET docs == GetHistory(Here(w))
       IN  omitted' = [omitted EXCEPT ![w] =
                IF docs # <<>> /\ Last(docs).role = "user" THEN Last(docs).copy ELSE 0]
    /\ MarkUsed(Here(w))
    /\ GotoStage(w, "generate")
    /\ Inside /\ UNCHANGED <<connected, parts, sent>>

\* handle_workflow_message returns an answer, with or without the history.
WorkflowReturns(w) ==
    /\ At(w, "workflow") \/ At(w, "generate")
    /\ \E n \in 1..MaxParts : parts' = [parts EXCEPT ![w] = n]
    /\ GotoStage(w, "deliver")
    /\ Inside /\ UNCHANGED <<storeVars, connected, sent, omitted>>

WorkflowRaises(w) ==
    /\ At(w, "workflow") \/ At(w, "generate")
    /\ Raise(w)
    /\ UNCHANGED <<storeVars, connected>>

\* One request of _send_intent_reply or _send_plain_text_reply reaches Cube.
SendPart(w) ==
    /\ At(w, "deliver")
    /\ sent[w] < parts[w]
    /\ sent' = [sent EXCEPT ![w] = @ + 1]
    /\ IF sent'[w] = parts[w] THEN Deliver(w) /\ UNCHANGED told ELSE Inside
    /\ UNCHANGED <<storeVars, stage, connected, parts, omitted>>

\* Faulty: the answer is stored when its first part is out.
DeliveryReturnsEarly(w) ==
    /\ At(w, "deliver")
    /\ sent[w] > 0
    /\ GotoStage(w, "record")
    /\ Inside /\ UNCHANGED <<storeVars, connected, parts, sent, omitted>>

\* The last send has returned.
DeliveryReturns(w) ==
    /\ At(w, "deliver")
    /\ sent[w] = parts[w]
    /\ GotoStage(w, "record")
    /\ Inside /\ UNCHANGED <<storeVars, connected, parts, sent, omitted>>

\* CubeClientError: a part was not received, or its response was lost.
DeliveryFails(w) ==
    /\ At(w, "deliver")
    /\ Raise(w)
    /\ UNCHANGED <<storeVars, connected>>

\* Faulty: a failing store is taken for success.
RecordAnswerBestEffort(w) ==
    /\ At(w, "record")
    /\ AppendMessage(Here(w), AssistantDocument(cur[w].copy)) \/ UNCHANGED storeVars
    /\ GotoStage(w, "return")
    /\ Inside /\ UNCHANGED <<connected, parts, sent, omitted>>

\* append_message of the answer. ConversationStoreError, the only error that
\* is caught, comes from building the backend, which is built by now; what
\* the driver raises goes through.
RecordAnswer(w) ==
    /\ At(w, "record")
    /\ \/ /\ AppendMessage(Here(w), AssistantDocument(cur[w].copy))
          /\ GotoStage(w, "return")
          /\ Inside /\ UNCHANGED <<connected, parts, sent, omitted>>
       \/ /\ backend # "memory"
          /\ \/ UNCHANGED storeVars
             \/ AppendMessage(Here(w), AssistantDocument(cur[w].copy))
          /\ Raise(w)
          /\ UNCHANGED connected

\* process_incoming_message returns.
PipelineReturns(w) ==
    /\ At(w, "return")
    /\ TakeAsAnswered(w) /\ UNCHANGED told
    /\ LeavePipeline(w)
    /\ UNCHANGED <<storeVars, connected>>

\* process_queued_message is called.
EnterPipeline(w) ==
    /\ CheckStale(w) /\ UNCHANGED told
    /\ GotoStage(w, IF pc'[w] = "process" THEN "store" ELSE "none")
    /\ UNCHANGED <<storeVars, connected, parts, sent, omitted>>

CrashPipeline(w) ==
    /\ Crash(w) /\ UNCHANGED told
    /\ LeavePipeline(w)
    /\ connected' = [connected EXCEPT ![w] = FALSE]
    /\ ForgetOnExit

\* The steps in which the worker is not inside process_incoming_message.
OutsideStep(w) ==
    \/ Start(w) \/ Recover(w) \/ DequeueMessage(w) \/ CheckProcessed(w)
    \/ MarkBestEffort(w) \/ AckMessage(w) \/ RequeueMessage(w)

PipelineStep(w) ==
    \/ EnterPipeline(w) \/ StoreQuestion(w) \/ WriteQuestion(w)
    \/ ReadHistory(w) \/ WorkflowReturns(w) \/ WorkflowRaises(w)
    \/ SendPart(w) \/ DeliveryReturns(w) \/ DeliveryFails(w)
    \/ RecordAnswer(w) \/ PipelineReturns(w)
    \/ CrashPipeline(w)

PipelineNext ==
    \/ \E w \in Workers : PipelineStep(w)
    \/ /\ \/ \E m \in Messages : AcceptCubeMessage(m)
          \/ \E w \in Workers : OutsideStep(w) /\ UNCHANGED told
          \/ Tick /\ UNCHANGED <<workerVars, told>>
       /\ UNCHANGED <<storeVars, pipelineVars>>

PipelineSpec == PipelineInit /\ [][PipelineNext]_allVars

----------------------------------------------------------------------------
DocumentsOf(c) == ToSet(documents[ConversationOfCopy(c)])

QuestionStored(c) == \E d \in DocumentsOf(c) :
                        d.role = "user" /\ log[d.copy].msg = log[c].msg

\* Before the first part is sent.
Preparing == {"store", "write", "workflow", "generate"}

\* A worker is in a stage while it processes a message; delivered is what the
\* sent parts say, and is false outside until the worker is done with it.
StagesKept ==
    /\ stage \in [Workers -> Stages]
    /\ parts \in [Workers -> Nat]
    /\ sent \in [Workers -> Nat]
    /\ \A w \in Workers :
          /\ stage[w] = "none" <=> pc[w] # "process"
          /\ pc[w] \notin {"process", "mark", "ack", "requeue"} => ~delivered[w]
          /\ stage[w] = "none" => sent[w] = 0
          /\ stage[w] \in Preparing => sent[w] = 0 /\ ~delivered[w]
          /\ stage[w] \in {"deliver", "record", "return"} =>
                parts[w] > 0 /\ sent[w] <= parts[w] /\ (delivered[w] <=> sent[w] = parts[w])
          /\ stage[w] \in {"record", "return"} => delivered[w]

\* Past the first stage the process has built its store.
PipelineTypeOK ==
    /\ StagesKept
    /\ connected \in [Workers -> BOOLEAN]
    /\ \A w \in Workers : stage[w] \notin {"none", "store"} => connected[w]

(***************************************************************************)
(* Inside the pipeline the message path is still that of CubeMessaging:    *)
(* the worker's view of process_queued_message (it delivers the whole      *)
(* answer or not, and returns only after it did) is what the stages do.    *)
(***************************************************************************)
ImplementsMessaging == Spec

(***************************************************************************)
(* conversation_service.py:88: a message with an id is stored once, however*)
(* often it is retried, recovered or sent again by Cube. (The memory store,*)
(* which does not outlive the process, has no index.)                      *)
(***************************************************************************)
UserStoredOnce ==
    backend # "memory" =>
    \A conv \in Conversations :
        \A i, j \in DOMAIN documents[conv] :
            /\ documents[conv][i].role = "user"
            /\ documents[conv][i].id \notin {EmptyId, NoIdField}
            /\ SameKey(documents[conv][i], documents[conv][j])
            => i = j

(***************************************************************************)
(* The history never claims more than the user has seen: a payload has at  *)
(* most as many stored answers as answers were delivered whole, and each   *)
(* stands behind its question (which the memory store may have trimmed).   *)
(***************************************************************************)
AnswersOf(c) == {i \in DOMAIN documents[ConversationOfCopy(c)] :
                    LET d == documents[ConversationOfCopy(c)][i]
                    IN  d.role = "assistant" /\ d.copy = c}

HistoryTruthful ==
    \A c \in Copies :
        /\ Cardinality(AnswersOf(c)) <= answers[c]
        /\ backend # "memory" => \A i \in AnswersOf(c) : \E j \in 1..(i - 1) :
              LET d == documents[ConversationOfCopy(c)][j]
              IN  d.role = "user" /\ log[d.copy].msg = log[c].msg

(***************************************************************************)
(* A payload concluded as answered left its question and its answer in the *)
(* history (the backends that outlive the process).                        *)
(***************************************************************************)
AnsweredIsRecorded ==
    backend # "memory" =>
    \A c \in Copies :
        "answered" \in outcome[c] => QuestionStored(c) /\ AnswersOf(c) # {}

(***************************************************************************)
(* The document left out of the prompt as the question being asked is that *)
(* question, when the message is handled for the first time. (A retried or *)
(* recovered message may find other documents behind its own.)             *)
(***************************************************************************)
OmittedIsQuestion ==
    \A w \in Workers :
        /\ stage[w] = "generate"
        /\ cur[w].attempt = 0 /\ cur[w].copy \notin recovered
        /\ runs[cur[w].copy] = 1
        /\ \A c \in Copies \ {cur[w].copy} : log[c].msg = log[cur[w].copy].msg => runs[c] = 0
        => omitted[w] = cur[w].copy

(***************************************************************************)
(* service.py:387 and 528: once the answer is out, a failure to store it   *)
(* is not raised again, so it does not make the worker retry the message.  *)
(***************************************************************************)
RecordFailureNotRaised ==
    [][\A w \in Workers :
          stage[w] = "record" /\ stage'[w] # "record" => pc'[w] \in {"process", "down"}]_allVars
============================================================================
