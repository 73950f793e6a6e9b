------------------------- MODULE CubePipelineProofs -------------------------
(***************************************************************************)
(* Inside process_incoming_message, for every set of messages, workers and *)
(* conversations and every setting: the stages keep the message path that  *)
(* of CubeMessaging, the backends that outlive the process keep what the   *)
(* answered messages need, the history holds no answer that was not given, *)
(* and where it can be told, answers follow their questions and the prompt *)
(* leaves out the right one.                                               *)
(***************************************************************************)
EXTENDS CubePipeline, CubeMessagingProofs, FiniteSetTheorems

\* The question is in the store.
QuestionStages == {"workflow", "generate", "deliver", "record", "return"}

----------------------------------------------------------------------------
(* The stages.                                                             *)

(***************************************************************************)
(* No worker is in the pipeline at first.                                  *)
(***************************************************************************)
LEMMA InitStages == PipelineInit => StagesKept
BY DEF PipelineInit, Init, WorkerInit, StagesKept, Stages, Preparing

(***************************************************************************)
(* Every stage is a step of the worker of CubeMessaging, or none of its    *)
(* business.                                                               *)
(***************************************************************************)
LEMMA StepIsMessaging == TypeOK /\ StagesKept /\ [PipelineNext]_allVars => [Next]_vars
<1> SUFFICES ASSUME TypeOK, StagesKept, [PipelineNext]_allVars PROVE [Next]_vars
  OBVIOUS
<1>1. ASSUME NEW w \in Workers, PipelineStep(w) PROVE [Next]_vars
  <2>1. ASSUME WorkerStep(w) \/ Crash(w), UNCHANGED told PROVE Next
    BY <2>1 DEF Next
  <2>2. ASSUME Inside PROVE [Next]_vars
    BY <2>2 DEF Inside
  <2>3. ASSUME Raise(w) PROVE Next
    BY <2>1, <2>3 DEF Raise, WorkerStep
  <2>4. CASE EnterPipeline(w)
    BY <2>1, <2>4 DEF EnterPipeline, WorkerStep
  <2>5. CASE StoreQuestion(w)
    BY <2>2, <2>3, <2>5 DEF StoreQuestion
  <2>6. CASE WriteQuestion(w)
    BY <2>2, <2>3, <2>6 DEF WriteQuestion
  <2>7. CASE ReadHistory(w)
    BY <2>2, <2>7 DEF ReadHistory
  <2>8. CASE WorkflowReturns(w)
    BY <2>2, <2>8 DEF WorkflowReturns
  <2>9. CASE WorkflowRaises(w)
    BY <2>3, <2>9 DEF WorkflowRaises
  <2>10. CASE SendPart(w)
    BY <2>1, <2>2, <2>10 DEF SendPart, WorkerStep
  <2>11. CASE DeliveryReturns(w)
    BY <2>2, <2>11 DEF DeliveryReturns
  <2>12. CASE DeliveryFails(w)
    BY <2>3, <2>12 DEF DeliveryFails
  <2>13. CASE RecordAnswer(w)
    BY <2>2, <2>3, <2>13 DEF RecordAnswer
  <2>14. CASE PipelineReturns(w)
    <3>1. delivered[w]
      BY <2>14 DEF PipelineReturns, At, StagesKept
    <3> QED
      BY <2>1, <2>14, <3>1 DEF PipelineReturns, ProcessReturns, WorkerStep
  <2>15. CASE CrashPipeline(w)
    BY <2>1, <2>15 DEF CrashPipeline
  <2> QED
    BY <1>1, <2>4, <2>5, <2>6, <2>7, <2>8, <2>9, <2>10, <2>11, <2>12, <2>13, <2>14, <2>15
       DEF PipelineStep
<1>2. ASSUME NEW m \in Messages, AcceptCubeMessage(m) PROVE Next
  BY <1>2 DEF Next
<1>3. ASSUME NEW w \in Workers, OutsideStep(w), UNCHANGED told PROVE Next
  BY <1>3 DEF Next, OutsideStep, WorkerStep
<1>4. ASSUME Tick, UNCHANGED <<workerVars, told>> PROVE Next
  BY <1>4 DEF Next
<1>5. ASSUME UNCHANGED allVars PROVE UNCHANGED vars
  BY <1>5 DEF allVars
<1> QED
  BY <1>1, <1>2, <1>3, <1>4, <1>5 DEF PipelineNext

(***************************************************************************)
(* Every step keeps the stages and what is delivered in line.              *)
(***************************************************************************)
LEMMA NextStages == TypeOK /\ StagesKept /\ [PipelineNext]_allVars => StagesKept'
<1> SUFFICES ASSUME TypeOK, StagesKept, [PipelineNext]_allVars PROVE StagesKept'
  OBVIOUS
<1>t. /\ pc \in [Workers -> Locations] /\ delivered \in [Workers -> BOOLEAN]
      /\ stage \in [Workers -> Stages]
      /\ parts \in [Workers -> Nat] /\ sent \in [Workers -> Nat]
  BY DEF TypeOK, WorkerTypeOK, StagesKept
<1>u. ASSUME UNCHANGED <<pc, delivered, stage, parts, sent>> PROVE StagesKept'
  BY <1>u DEF StagesKept
<1>1. ASSUME NEW w \in Workers, PipelineStep(w) PROVE StagesKept'
  <2>r. ASSUME Raise(w) PROVE StagesKept'
    BY <1>t, <2>r DEF Raise, ProcessRaises, LeavePipeline, GotoStage, Goto, StagesKept,
                      Stages, Preparing
  <2>i. ASSUME Inside PROVE UNCHANGED <<pc, delivered>>
    BY <2>i DEF Inside, vars, workerVars
  <2>4. CASE EnterPipeline(w)
    BY <1>t, <2>4 DEF EnterPipeline, CheckStale, GotoStage, Goto, StagesKept, Stages, Preparing
  <2>5. CASE StoreQuestion(w)
    <3>1. ASSUME Inside, UNCHANGED <<parts, sent>>,
                 GotoStage(w, "workflow") \/ GotoStage(w, "write")
          PROVE StagesKept'
      BY <1>t, <2>5, <2>i, <3>1 DEF StoreQuestion, At, GotoStage, StagesKept, Stages, Preparing
    <3> QED
      BY <2>5, <2>r, <3>1 DEF StoreQuestion
  <2>6. CASE WriteQuestion(w)
    BY <1>t, <2>6, <2>r, <2>i DEF WriteQuestion, At, GotoStage, StagesKept, Stages, Preparing
  <2>7. CASE ReadHistory(w)
    BY <1>t, <2>7, <2>i DEF ReadHistory, At, GotoStage, StagesKept, Stages, Preparing
  <2>8. CASE WorkflowReturns(w)
    <3>1. PICK n \in 1..MaxParts : parts' = [parts EXCEPT ![w] = n]
      BY <2>8 DEF WorkflowReturns
    <3>2. n \in Nat /\ n > 0
      BY PipelineAssumption
    <3> QED
      BY <1>t, <2>8, <2>i, <3>1, <3>2
         DEF WorkflowReturns, At, GotoStage, StagesKept, Stages, Preparing
  <2>9. CASE WorkflowRaises(w)
    BY <2>9, <2>r DEF WorkflowRaises
  <2>10. CASE SendPart(w)
    <3>1. /\ At(w, "deliver") /\ sent[w] < parts[w]
          /\ sent' = [sent EXCEPT ![w] = sent[w] + 1]
          /\ UNCHANGED <<stage, parts>>
      BY <2>10 DEF SendPart
    <3>2. /\ sent'[w] = sent[w] + 1 /\ sent'[w] \in Nat /\ ~delivered[w]
          /\ sent' \in [Workers -> Nat]
          /\ \A v \in Workers \ {w} : sent'[v] = sent[v]
      BY <1>t, <3>1 DEF At, StagesKept
    <3>3. /\ UNCHANGED pc
          /\ delivered'[w] <=> sent'[w] = parts[w]
          /\ \A v \in Workers \ {w} : delivered'[v] <=> delivered[v]
      <4>1. CASE sent'[w] = parts[w]
        BY <1>t, <2>10, <3>2, <4>1 DEF SendPart, Deliver
      <4>2. CASE sent'[w] # parts[w]
        BY <2>10, <2>i, <3>2, <4>2 DEF SendPart
      <4> QED
        BY <4>1, <4>2
    <3>4. sent'[w] <= parts[w]
      BY <1>t, <3>1, <3>2
    <3>5. stage[w] = "deliver" /\ pc[w] = "process" /\ parts[w] > 0
      BY <3>1 DEF At, StagesKept
    <3> QED
      BY <1>t, <3>1, <3>2, <3>3, <3>4, <3>5 DEF StagesKept, Preparing
  <2>11. CASE DeliveryReturns(w)
    BY <1>t, <2>11, <2>i DEF DeliveryReturns, At, GotoStage, StagesKept, Stages, Preparing
  <2>12. CASE DeliveryFails(w)
    BY <2>12, <2>r DEF DeliveryFails
  <2>13. CASE RecordAnswer(w)
    BY <1>t, <2>13, <2>r, <2>i DEF RecordAnswer, At, GotoStage, StagesKept, Stages, Preparing
  <2>14. CASE PipelineReturns(w)
    BY <1>t, <2>14 DEF PipelineReturns, TakeAsAnswered, LeavePipeline, GotoStage, Goto,
                       StagesKept, Stages, Preparing
  <2>15. CASE CrashPipeline(w)
    BY <1>t, <2>15 DEF CrashPipeline, Crash, Release, LeavePipeline, GotoStage, Goto,
                       StagesKept, Stages, Preparing
  <2> QED
    BY <1>1, <2>4, <2>5, <2>6, <2>7, <2>8, <2>9, <2>10, <2>11, <2>12, <2>13, <2>14, <2>15
       DEF PipelineStep
<1>2. ASSUME UNCHANGED <<workerVars, pipelineVars>> PROVE StagesKept'
  BY <1>2, <1>u DEF workerVars, pipelineVars
<1>3. ASSUME NEW w \in Workers, OutsideStep(w), UNCHANGED pipelineVars PROVE StagesKept'
  <2>1. UNCHANGED <<stage, parts, sent>>
    BY <1>3 DEF pipelineVars
  <2>2. CASE Start(w)
    BY <1>t, <2>1, <2>2 DEF Start, Goto, StagesKept, Stages, Preparing
  <2>3. CASE Recover(w)
    BY <1>t, <2>1, <2>3 DEF Recover, Goto, StagesKept, Stages, Preparing
  <2>4. CASE DequeueMessage(w)
    BY <1>t, <2>1, <2>4 DEF DequeueMessage, Goto, StagesKept, Stages, Preparing
  <2>5. CASE CheckProcessed(w)
    BY <1>t, <2>1, <2>5 DEF CheckProcessed, Release, Goto, StagesKept, Stages, Preparing
  <2>6. CASE MarkBestEffort(w)
    BY <1>t, <2>1, <2>6 DEF MarkBestEffort, Goto, StagesKept, Stages, Preparing
  <2>7. CASE AckMessage(w)
    BY <1>t, <2>1, <2>7 DEF AckMessage, Release, Goto, StagesKept, Stages, Preparing
  <2>8. CASE RequeueMessage(w)
    BY <1>t, <2>1, <2>8 DEF RequeueMessage, Release, Goto, StagesKept, Stages, Preparing
  <2> QED
    BY <1>3, <2>2, <2>3, <2>4, <2>5, <2>6, <2>7, <2>8 DEF OutsideStep
<1>4. ASSUME UNCHANGED allVars PROVE StagesKept'
  BY <1>4, <1>2 DEF allVars, vars
<1>5. ASSUME NEW m \in Messages, AcceptCubeMessage(m) PROVE UNCHANGED workerVars
  BY <1>5 DEF AcceptCubeMessage
<1> QED
  BY <1>1, <1>2, <1>3, <1>4, <1>5 DEF PipelineNext

(***************************************************************************)
(* The store is built in the first stage and lives as long as the process. *)
(***************************************************************************)
LEMMA NextConnected ==
    ASSUME TypeOK, PipelineTypeOK, [PipelineNext]_allVars
    PROVE  PipelineTypeOK'
<1> DEFINE Built == connected' \in [Workers -> BOOLEAN]
                    /\ \A v \in Workers : stage'[v] \notin {"none", "store"} => connected'[v]
<1>t. /\ StagesKept /\ stage \in [Workers -> Stages] /\ connected \in [Workers -> BOOLEAN]
      /\ \A v \in Workers : stage[v] \notin {"none", "store"} => connected[v]
  BY DEF PipelineTypeOK, StagesKept
<1>u. ASSUME UNCHANGED <<stage, connected>> PROVE Built
  BY <1>t, <1>u
<1>1. ASSUME NEW w \in Workers, PipelineStep(w) PROVE Built
  <2>1. ASSUME UNCHANGED connected, NEW s, GotoStage(w, s),
               s \in {"none", "store"} \/ stage[w] \notin {"none", "store"}
        PROVE  Built
    BY <1>t, <2>1 DEF GotoStage
  <2>2. ASSUME Connect(w), NEW s, GotoStage(w, s) PROVE Built
    BY <1>t, <2>2 DEF GotoStage, Connect
  <2>3. CASE EnterPipeline(w)
    BY <2>1, <2>3 DEF EnterPipeline
  <2>4. CASE StoreQuestion(w)
    <3>1. (UNCHANGED connected \/ Connect(w)) /\ LeavePipeline(w) => Built
      BY <2>1, <2>2 DEF LeavePipeline
    <3> QED
      BY <2>2, <2>4, <3>1 DEF StoreQuestion, Raise
  <2>5. CASE WriteQuestion(w) \/ RecordAnswer(w)
    BY <2>1, <2>5 DEF WriteQuestion, RecordAnswer, Raise, LeavePipeline, At
  <2>6. CASE ReadHistory(w) \/ WorkflowReturns(w) \/ DeliveryReturns(w)
    BY <2>1, <2>6 DEF ReadHistory, WorkflowReturns, DeliveryReturns, At
  <2>7. CASE WorkflowRaises(w) \/ DeliveryFails(w) \/ PipelineReturns(w)
    BY <2>1, <2>7 DEF WorkflowRaises, DeliveryFails, PipelineReturns, Raise, LeavePipeline
  <2>8. CASE SendPart(w)
    BY <1>u, <2>8 DEF SendPart
  <2>9. CASE CrashPipeline(w)
    BY <1>t, <2>9 DEF CrashPipeline, LeavePipeline, GotoStage
  <2> QED
    BY <1>1, <2>3, <2>4, <2>5, <2>6, <2>7, <2>8, <2>9 DEF PipelineStep
<1>2. Built
  BY <1>u, <1>1 DEF PipelineNext, allVars, pipelineVars
<1>3. StagesKept'
  BY <1>t, NextStages
<1> QED
  BY <1>2, <1>3 DEF PipelineTypeOK

(***************************************************************************)
(* Every state of the pipeline is well typed: its stages, its parts, what  *)
(* the worker may take for delivered, and the store that is built.         *)
(***************************************************************************)
THEOREM PipelineTyping == PipelineSpec => [](TypeOK /\ PipelineTypeOK)
<1>1. PipelineInit => TypeOK /\ PipelineTypeOK
  BY InitTyped, InitStages DEF PipelineInit, PipelineTypeOK
<1>2. TypeOK /\ PipelineTypeOK /\ [PipelineNext]_allVars => TypeOK' /\ PipelineTypeOK'
  <2> SUFFICES ASSUME TypeOK, PipelineTypeOK, [PipelineNext]_allVars
               PROVE  TypeOK' /\ PipelineTypeOK'
    OBVIOUS
  <2>1. StagesKept
    BY DEF PipelineTypeOK
  <2> QED
    BY <2>1, StepIsMessaging, NextTyped, NextConnected
<1> QED
  BY <1>1, <1>2, PTL DEF PipelineSpec

(***************************************************************************)
(* process_incoming_message keeps to what the worker expects of it: every  *)
(* behaviour of the pipeline is one of CubeMessaging, whose theorems hold  *)
(* of it.                                                                  *)
(***************************************************************************)
THEOREM PipelineImplementsMessaging == PipelineSpec => ImplementsMessaging
<1>1. PipelineInit => Init /\ TypeOK /\ StagesKept
  BY InitTyped, InitStages DEF PipelineInit
<1>2. TypeOK /\ StagesKept /\ [PipelineNext]_allVars => [Next]_vars /\ TypeOK' /\ StagesKept'
  BY StepIsMessaging, NextTyped, NextStages
<1> QED
  BY <1>1, <1>2, PTL DEF PipelineSpec, ImplementsMessaging, Spec

(***************************************************************************)
(* So no accepted message is lost in the pipeline either.                  *)
(***************************************************************************)
THEOREM PipelineLosesNothing == PipelineSpec => []AcceptedNotLost
BY PipelineImplementsMessaging, NothingLost, PTL DEF ImplementsMessaging

----------------------------------------------------------------------------
(* What is stored.                                                         *)

\* The documents process_incoming_message writes.
Written == {Question(c) : c \in Copies} \cup {AssistantDocument(c) : c \in Copies}

\* A document of payload c is added to its conversation.
Adds(c, doc) ==
    documents' = [documents EXCEPT ![ConversationOfCopy(c)] = Append(documents[ConversationOfCopy(c)], doc)]

\* Its conversation has a document of the same key.
Has(c, doc) == \E d \in DocumentsOf(c) : SameKey(d, doc)

Lasting == backend \in {"mongo", "local"}

\* What a lasting store holds of the messages being handled and answered.
Recorded ==
    /\ backend \in Backends
    /\ backend # "memory" =>
          /\ documents \in [Conversations -> Seq(Written)]
          /\ \A c \in Copies :
                /\ \A w \in Workers : cur[w].copy = c =>
                      /\ stage[w] \in QuestionStages => QuestionStored(c)
                      /\ stage[w] = "return" => AnswersOf(c) # {}
                /\ "answered" \in outcome[c] => QuestionStored(c) /\ AnswersOf(c) # {}

(***************************************************************************)
(* The log of payloads only grows.                                         *)
(***************************************************************************)
LEMMA LogGrows ==
    ASSUME TypeOK, [Next]_vars
    PROVE  Copies \subseteq Copies' /\ \A c \in Copies : log'[c] = log[c]
<1>1. ASSUME UNCHANGED log PROVE Copies \subseteq Copies' /\ \A c \in Copies : log'[c] = log[c]
  BY <1>1 DEF Copies
<1>2. ASSUME NEW m \in Messages, EnqueueUnique(m)
      PROVE  Copies \subseteq Copies' /\ \A c \in Copies : log'[c] = log[c]
  <2>1. log \in Seq(Payload) /\ now \in Nat
    BY DEF TypeOK, QueueTypeOK
  <2>2. log' = Append(log, [msg |-> m, at |-> now]) /\ [msg |-> m, at |-> now] \in Payload
    BY <1>2, <2>1 DEF EnqueueUnique, Enqueue, Payload
  <2> QED
    BY <2>1, <2>2, AppendProperties DEF Copies
<1>3. ASSUME NEW m \in Messages, AcceptCubeMessage(m) PROVE UNCHANGED log \/ EnqueueUnique(m)
  BY <1>3 DEF AcceptCubeMessage, queueVars
<1>4. ASSUME NEW w \in Workers, WorkerStep(w) \/ Crash(w) PROVE UNCHANGED log
  <2>1. CASE Start(w) \/ CheckProcessed(w) \/ CheckStale(w) \/ Crash(w)
    BY <2>1 DEF Start, CheckProcessed, CheckStale, Crash, queueVars
  <2>2. CASE Deliver(w) \/ ProcessReturns(w) \/ ProcessRaises(w)
    BY <2>2 DEF Deliver, ProcessReturns, TakeAsAnswered, ProcessRaises, queueVars
  <2>3. CASE Recover(w)
    BY <2>3 DEF Recover, RecoverOne, queueVars
  <2>4. CASE DequeueMessage(w)
    BY <2>4 DEF DequeueMessage, Dequeue, queueVars
  <2>5. CASE MarkBestEffort(w)
    BY <2>5 DEF MarkBestEffort, MarkProcessed, queueVars
  <2>6. CASE AckMessage(w)
    BY <2>6 DEF AckMessage, Acknowledge, queueVars
  <2>7. CASE RequeueMessage(w)
    BY <2>7 DEF RequeueMessage, Requeue, queueVars
  <2> QED
    BY <1>4, <2>1, <2>2, <2>3, <2>4, <2>5, <2>6, <2>7 DEF WorkerStep
<1>5. ASSUME Tick \/ UNCHANGED vars PROVE UNCHANGED log
  BY <1>5 DEF Tick, vars, queueVars
<1> QED
  BY <1>1, <1>2, <1>3, <1>4, <1>5 DEF Next

(***************************************************************************)
(* In the pipeline nothing is enqueued.                                    *)
(***************************************************************************)
LEMMA PipelineKeepsLog ==
    ASSUME NEW w \in Workers, PipelineStep(w)
    PROVE  UNCHANGED log
<1>1. ASSUME Inside PROVE UNCHANGED log
  BY <1>1 DEF Inside, vars, queueVars
<1>2. ASSUME Raise(w) PROVE UNCHANGED log
  BY <1>2 DEF Raise, ProcessRaises, queueVars
<1>3. EnterPipeline(w) \/ PipelineReturns(w) \/ CrashPipeline(w) => UNCHANGED log
  BY DEF EnterPipeline, CheckStale, PipelineReturns, TakeAsAnswered, CrashPipeline, Crash, queueVars
<1>4. SendPart(w) => UNCHANGED log
  BY <1>1 DEF SendPart, Deliver, queueVars
<1>5. StoreQuestion(w) \/ WriteQuestion(w) \/ ReadHistory(w) => UNCHANGED log
  BY <1>1, <1>2 DEF StoreQuestion, WriteQuestion, ReadHistory
<1>6. WorkflowReturns(w) \/ WorkflowRaises(w) \/ DeliveryReturns(w) => UNCHANGED log
  BY <1>1, <1>2 DEF WorkflowReturns, WorkflowRaises, DeliveryReturns
<1>7. DeliveryFails(w) \/ RecordAnswer(w) => UNCHANGED log
  BY <1>1, <1>2 DEF DeliveryFails, RecordAnswer
<1> QED
  BY <1>3, <1>4, <1>5, <1>6, <1>7 DEF PipelineStep

(***************************************************************************)
(* A lasting store appends the document, unless it has one of its key.     *)
(***************************************************************************)
LEMMA LastingAppend ==
    ASSUME Lasting, NEW c, NEW doc, AppendMessage(ConversationOfCopy(c), doc)
    PROVE  /\ UNCHANGED backend
           /\ \/ UNCHANGED documents /\ doc.id # NoIdField /\ Has(c, doc)
              \/ Adds(c, doc) /\ (doc.id \in {EmptyId, NoIdField} \/ ~Has(c, doc))
<1>1. CASE backend = "mongo"
  BY <1>1 DEF AppendMessage, MongoAppend, Adds, Has, DocumentsOf
<1>2. CASE backend = "local"
  BY <1>2 DEF AppendMessage, LocalIsDuplicate, LocalWrite, storeVars, Adds, Has, DocumentsOf
<1> QED
  BY <1>1, <1>2 DEF Lasting

(***************************************************************************)
(* Appending to a conversation keeps its documents where they are.         *)
(***************************************************************************)
LEMMA AddsKeeps ==
    ASSUME documents \in [Conversations -> Seq(Written)], NEW c \in Copies,
           ConversationOfCopy(c) \in Conversations,
           NEW doc \in Written, Adds(c, doc)
    PROVE  /\ documents' \in [Conversations -> Seq(Written)]
           /\ \A conv \in Conversations : \A i \in DOMAIN documents[conv] :
                 i \in DOMAIN documents'[conv] /\ documents'[conv][i] = documents[conv][i]
           /\ \E i \in DOMAIN documents'[ConversationOfCopy(c)] :
                 documents'[ConversationOfCopy(c)][i] = doc
<1> DEFINE own == ConversationOfCopy(c)
           docs == documents[own]
           more == Append(docs, doc)
<1>1. docs \in Seq(Written) /\ own \in Conversations
  OBVIOUS
<1>2. /\ more \in Seq(Written)
      /\ DOMAIN docs = 1..Len(docs) /\ DOMAIN more = 1..(Len(docs) + 1)
      /\ Len(docs) \in Nat
      /\ \A i \in 1..Len(docs) : more[i] = docs[i]
      /\ more[Len(docs) + 1] = doc
  BY <1>1, AppendProperties, LenProperties
<1>3. /\ \A i \in DOMAIN docs : i \in DOMAIN more /\ more[i] = docs[i]
      /\ \E i \in DOMAIN more : more[i] = doc
  BY <1>2
<1>4. documents' = [documents EXCEPT ![own] = more]
  BY DEF Adds
<1> HIDE DEF more, own
<1>5. documents' \in [Conversations -> Seq(Written)]
  BY <1>1, <1>2, <1>4
<1>6. documents'[own] = more /\ \A conv \in Conversations \ {own} : documents'[conv] = documents[conv]
  BY <1>1, <1>4
<1>7. \A conv \in Conversations : \A i \in DOMAIN documents[conv] :
         i \in DOMAIN documents'[conv] /\ documents'[conv][i] = documents[conv][i]
  BY <1>3, <1>6
<1> QED
  BY <1>3, <1>5, <1>6, <1>7 DEF own
(***************************************************************************)
(* What a step in the pipeline writes to a lasting store: nothing, its     *)
(* question on the way to the workflow, or its answer.                     *)
(***************************************************************************)
LEMMA StepStores ==
    ASSUME TypeOK, StagesKept, NEW w \in Workers, PipelineStep(w), Lasting,
           NEW c, c = cur[w].copy
    PROVE  /\ UNCHANGED backend
           /\ \/ UNCHANGED documents
              \/ /\ pc[w] = "process"
                 /\ Adds(c, Question(c)) \/ (stage[w] = "record" /\ Adds(c, AssistantDocument(c)))
           /\ stage[w] \in {"store", "write"} /\ stage'[w] \in QuestionStages =>
                 \/ Adds(c, Question(c))
                 \/ UNCHANGED documents /\ Has(c, Question(c))
           /\ stage'[w] = "return" => Adds(c, AssistantDocument(c))
<1>1. Here(w) = ConversationOfCopy(c)
  BY DEF Here
<1>2. ASSUME LocalWrite(ConversationOfCopy(c), Question(c))
      PROVE  UNCHANGED backend /\ Adds(c, Question(c))
  BY <1>2 DEF LocalWrite, Adds
<1>3. AssistantDocument(c).id = NoIdField
  BY DEF AssistantDocument
<1>s. stage \in [Workers -> Stages] /\ pc \in [Workers -> Locations]
  BY DEF StagesKept, TypeOK, WorkerTypeOK
<1>4. ASSUME UNCHANGED storeVars PROVE UNCHANGED backend /\ UNCHANGED documents
  BY <1>4 DEF storeVars
<1>r. ASSUME Raise(w) PROVE stage'[w] = "none"
  BY <1>s, <1>r DEF Raise, LeavePipeline, GotoStage
<1>p. StoreQuestion(w) \/ WriteQuestion(w) \/ RecordAnswer(w) => pc[w] = "process"
  BY DEF StoreQuestion, WriteQuestion, RecordAnswer, At
<1>5. CASE EnterPipeline(w)
  BY <1>s, <1>4, <1>5 DEF EnterPipeline, GotoStage, QuestionStages, CheckStale, StagesKept
<1>6. CASE StoreQuestion(w)
  <2>1. \/ AppendMessage(ConversationOfCopy(c), Question(c)) /\ GotoStage(w, "workflow")
        \/ UNCHANGED storeVars /\ GotoStage(w, "write")
        \/ UNCHANGED storeVars /\ Raise(w)
        \/ AppendMessage(ConversationOfCopy(c), Question(c)) /\ Raise(w)
    BY <1>1, <1>6 DEF StoreQuestion
  <2>2. AppendMessage(ConversationOfCopy(c), Question(c)) =>
           /\ UNCHANGED backend
           /\ \/ Adds(c, Question(c))
              \/ UNCHANGED documents /\ Has(c, Question(c))
    BY LastingAppend
  <2>3. \A x : GotoStage(w, x) => stage'[w] = x
    BY <1>s DEF GotoStage
  <2> QED
    BY <1>4, <1>6, <1>p, <1>r, <2>1, <2>2, <2>3 DEF QuestionStages
<1>7. CASE WriteQuestion(w)
  BY <1>1, <1>2, <1>4, <1>7, <1>p, <1>s, <1>r DEF WriteQuestion, GotoStage, QuestionStages
<1>8. CASE ReadHistory(w)
  BY <1>8, <1>s DEF ReadHistory, MarkUsed, At, GotoStage
<1>9. CASE WorkflowReturns(w) \/ WorkflowRaises(w)
  BY <1>4, <1>9, <1>s, <1>r DEF WorkflowReturns, WorkflowRaises, At, GotoStage, QuestionStages
<1>10. CASE SendPart(w) \/ DeliveryReturns(w) \/ DeliveryFails(w)
  BY <1>4, <1>10, <1>s, <1>r DEF SendPart, DeliveryReturns, DeliveryFails, At, GotoStage
<1>11. CASE RecordAnswer(w)
  <2>1. AppendMessage(ConversationOfCopy(c), AssistantDocument(c)) \/ UNCHANGED storeVars
    BY <1>1, <1>11 DEF RecordAnswer
  <2>2. /\ stage[w] = "record"
        /\ stage'[w] = "return" => AppendMessage(ConversationOfCopy(c), AssistantDocument(c))
    BY <1>1, <1>11, <1>s, <1>r DEF RecordAnswer, At, GotoStage
  <2>3. AppendMessage(ConversationOfCopy(c), AssistantDocument(c))
           => UNCHANGED backend /\ Adds(c, AssistantDocument(c))
    BY <1>3, LastingAppend
  <2> QED
    BY <1>4, <1>11, <1>p, <2>1, <2>2, <2>3 DEF QuestionStages
<1>12. CASE PipelineReturns(w) \/ CrashPipeline(w)
  BY <1>4, <1>12, <1>s DEF PipelineReturns, CrashPipeline, ForgetOnExit, LeavePipeline, GotoStage,
                     Lasting, QuestionStages
<1> QED
  BY <1>5, <1>6, <1>7, <1>8, <1>9, <1>10, <1>11, <1>12 DEF PipelineStep
(***************************************************************************)
(* No step chooses another store.                                          *)
(***************************************************************************)
LEMMA BackendFixed ==
    ASSUME TypeOK, StagesKept, NEW w \in Workers, PipelineStep(w), backend \in Backends
    PROVE  UNCHANGED backend
<1>1. CASE backend = "memory"
  BY <1>1 DEF PipelineStep, EnterPipeline, StoreQuestion, WriteQuestion, ReadHistory,
        WorkflowReturns, WorkflowRaises, SendPart, DeliveryReturns, DeliveryFails, RecordAnswer,
        PipelineReturns, CrashPipeline, ForgetOnExit, AppendMessage, MemoryAppend, LocalWrite,
        MarkUsed, storeVars
<1>2. CASE backend # "memory"
  BY <1>2, StoreAssumption, StepStores DEF Lasting
<1> QED
  BY <1>1, <1>2

(***************************************************************************)
(* What is stored for a payload stays stored, and so does what is known of *)
(* the payload.                                                            *)
(***************************************************************************)
LEMMA StoredStays ==
    ASSUME Copies \subseteq Copies', \A k \in Copies : log'[k] = log[k],
           documents \in [Conversations -> Seq(Written)],
           \A conv \in Conversations : \A i \in DOMAIN documents[conv] :
              i \in DOMAIN documents'[conv] /\ documents'[conv][i] = documents[conv][i],
           NEW c \in Copies, ConversationOfCopy(c) \in Conversations
    PROVE  /\ QuestionStored(c) => QuestionStored(c)'
           /\ AnswersOf(c) # {} => AnswersOf(c)' # {}
<1>1. ConversationOfCopy(c)' = ConversationOfCopy(c)
  BY DEF ConversationOfCopy
<1> DEFINE docs == documents[ConversationOfCopy(c)]
<1>2. \A i \in DOMAIN docs : docs[i] \in Written /\ docs[i].copy \in Copies
  <2>1. docs \in Seq(Written)
    OBVIOUS
  <2>2. \A i \in DOMAIN docs : docs[i] \in Written
    BY <2>1, LenProperties, ElementOfSeq
  <2>3. \A d \in Written : d.copy \in Copies
    BY DEF Written, Question, UserDocument, AssistantDocument
  <2> QED
    BY <2>2, <2>3
<1>3. ASSUME NEW i \in DOMAIN docs
      PROVE  /\ i \in DOMAIN documents'[ConversationOfCopy(c)']
             /\ documents'[ConversationOfCopy(c)'][i] = docs[i]
             /\ log'[docs[i].copy] = log[docs[i].copy]
  BY <1>1, <1>2
<1>4. QuestionStored(c) => QuestionStored(c)'
  <2> SUFFICES ASSUME QuestionStored(c) PROVE QuestionStored(c)'
    OBVIOUS
  <2>1. PICK i \in DOMAIN docs : docs[i].role = "user" /\ log[docs[i].copy].msg = log[c].msg
    BY DEF QuestionStored, DocumentsOf, ToSet
  <2> QED
    BY <1>3, <2>1 DEF QuestionStored, DocumentsOf, ToSet
<1>5. AnswersOf(c) # {} => AnswersOf(c)' # {}
  <2> SUFFICES ASSUME AnswersOf(c) # {} PROVE AnswersOf(c)' # {}
    OBVIOUS
  <2>1. PICK i \in DOMAIN docs : docs[i].role = "assistant" /\ docs[i].copy = c
    BY DEF AnswersOf
  <2> QED
    BY <1>3, <2>1 DEF AnswersOf
<1> QED
  BY <1>4, <1>5

(***************************************************************************)
(* A verdict is added to those of one payload.                             *)
(***************************************************************************)
LEMMA ConcludeAdds ==
    ASSUME TypeOK, NEW c, NEW how, Conclude(c, how)
    PROVE  \A k \in 1..MaxCopies :
              "answered" \in outcome'[k] => "answered" \in outcome[k] \/ (k = c /\ how = "answered")
<1>1. outcome \in [1..MaxCopies -> SUBSET Outcomes]
  BY DEF TypeOK, WorkerTypeOK
<1>2. outcome' = [outcome EXCEPT ![c] = outcome[c] \cup {how}]
  BY DEF Conclude
<1> SUFFICES ASSUME NEW k \in 1..MaxCopies
             PROVE  "answered" \in outcome'[k] => "answered" \in outcome[k] \/ (k = c /\ how = "answered")
  OBVIOUS
<1>3. outcome'[k] = IF k = c THEN outcome[c] \cup {how} ELSE outcome[k]
  BY <1>1, <1>2
<1> QED
  BY <1>3

(***************************************************************************)
(* What the worker knows of the payloads, one step of the pipeline later.  *)
(***************************************************************************)
LEMMA StepConcludes ==
    ASSUME TypeOK, StagesKept, NEW w \in Workers, PipelineStep(w)
    PROVE  /\ \A v \in Workers \ {w} : stage'[v] = stage[v] /\ cur'[v] = cur[v]
           /\ stage'[w] \in QuestionStages =>
                 cur'[w] = cur[w] /\ pc[w] = "process"
                 /\ stage[w] \in QuestionStages \cup {"store", "write"}
           /\ \A k \in 1..MaxCopies : "answered" \in outcome'[k] =>
                 \/ "answered" \in outcome[k]
                 \/ k = cur[w].copy /\ pc[w] = "process" /\ stage[w] = "return"
<1>s. /\ stage \in [Workers -> Stages]
      /\ outcome \in [1..MaxCopies -> SUBSET Outcomes]
  BY DEF StagesKept, TypeOK, WorkerTypeOK
<1>i. ASSUME Inside PROVE UNCHANGED <<cur, outcome>>
  BY <1>i DEF Inside, vars, workerVars
<1>r. ASSUME Raise(w)
      PROVE  /\ UNCHANGED cur /\ stage' = [stage EXCEPT ![w] = "none"]
             /\ \A k \in 1..MaxCopies : "answered" \in outcome'[k] => "answered" \in outcome[k]
  <2>1. UNCHANGED outcome \/ Conclude(cur[w].copy, "failed")
    BY <1>r DEF Raise, ProcessRaises
  <2>2. UNCHANGED cur /\ stage' = [stage EXCEPT ![w] = "none"]
    BY <1>r DEF Raise, ProcessRaises, LeavePipeline, GotoStage
  <2>3. Conclude(cur[w].copy, "failed") =>
           \A k \in 1..MaxCopies : "answered" \in outcome'[k] => "answered" \in outcome[k]
    BY ConcludeAdds
  <2> QED
    BY <2>1, <2>2, <2>3
<1>1. CASE EnterPipeline(w)
  <2>1. \A k \in 1..MaxCopies : "answered" \in outcome'[k] => "answered" \in outcome[k]
    BY <1>1, ConcludeAdds DEF EnterPipeline, CheckStale
  <2> QED
    BY <1>s, <1>1, <2>1 DEF EnterPipeline, CheckStale, GotoStage, QuestionStages
<1>2. CASE StoreQuestion(w) \/ WriteQuestion(w)
  BY <1>s, <1>i, <1>r, <1>2 DEF StoreQuestion, WriteQuestion, At, GotoStage, QuestionStages
<1>3. CASE ReadHistory(w) \/ WorkflowReturns(w) \/ WorkflowRaises(w)
  BY <1>s, <1>i, <1>r, <1>3 DEF ReadHistory, WorkflowReturns, WorkflowRaises, At, GotoStage,
                               QuestionStages
<1>4. CASE SendPart(w)
  <2>1. UNCHANGED <<cur, outcome>>
    BY <1>i, <1>4 DEF SendPart, Deliver
  <2> QED
    BY <1>s, <1>4, <2>1 DEF SendPart, At, QuestionStages
<1>5. CASE DeliveryReturns(w) \/ DeliveryFails(w) \/ RecordAnswer(w)
  BY <1>s, <1>i, <1>r, <1>5 DEF DeliveryReturns, DeliveryFails, RecordAnswer, At, GotoStage,
                               QuestionStages
<1>6. CASE PipelineReturns(w)
  BY <1>s, <1>6, ConcludeAdds DEF PipelineReturns, TakeAsAnswered, LeavePipeline, GotoStage, At,
                    QuestionStages
<1>7. CASE CrashPipeline(w)
  <2>1. cur \in [Workers -> Entry \cup {NoEntry}]
    BY DEF TypeOK, WorkerTypeOK
  <2> QED
    BY <1>s, <1>7, <2>1 DEF CrashPipeline, Crash, Release, history, LeavePipeline, GotoStage,
                            QuestionStages
<1> QED
  BY <1>1, <1>2, <1>3, <1>4, <1>5, <1>6, <1>7 DEF PipelineStep

(***************************************************************************)
(* Outside the pipeline nobody is in a stage that holds something, and no  *)
(* payload becomes answered.                                               *)
(***************************************************************************)
LEMMA OutsideConcludes ==
    ASSUME TypeOK, StagesKept, NEW w \in Workers, OutsideStep(w), UNCHANGED pipelineVars
    PROVE  /\ UNCHANGED stage
           /\ \A v \in Workers : stage[v] # "none" => cur'[v] = cur[v]
           /\ \A k \in 1..MaxCopies : "answered" \in outcome'[k] => "answered" \in outcome[k]
<1>s. /\ cur \in [Workers -> Entry \cup {NoEntry}]
      /\ outcome \in [1..MaxCopies -> SUBSET Outcomes]
      /\ \A v \in Workers : stage[v] # "none" => pc[v] = "process"
  BY DEF StagesKept, TypeOK, WorkerTypeOK
<1>1. UNCHANGED stage
  BY DEF pipelineVars
<1>2. CASE Start(w) \/ Recover(w)
  BY <1>s, <1>1, <1>2 DEF Start, Recover, history
<1>3. CASE DequeueMessage(w)
  BY <1>s, <1>1, <1>3 DEF DequeueMessage, history
<1>4. CASE CheckProcessed(w)
  <2>1. UNCHANGED outcome \/ Conclude(cur[w].copy, "skipped")
    BY <1>4 DEF CheckProcessed
  <2>2. \A v \in Workers : stage[v] # "none" => cur'[v] = cur[v]
    BY <1>s, <1>4 DEF CheckProcessed, Release
  <2>3. Conclude(cur[w].copy, "skipped") =>
           \A k \in 1..MaxCopies : "answered" \in outcome'[k] => "answered" \in outcome[k]
    BY ConcludeAdds
  <2> QED
    BY <1>1, <2>1, <2>2, <2>3
<1>5. CASE MarkBestEffort(w)
  BY <1>s, <1>1, <1>5 DEF MarkBestEffort
<1>6. CASE AckMessage(w) \/ RequeueMessage(w)
  BY <1>s, <1>1, <1>6 DEF AckMessage, RequeueMessage, Release, history
<1> QED
  BY <1>2, <1>3, <1>4, <1>5, <1>6 DEF OutsideStep
(***************************************************************************)
(* A document of the question's key is the question's, when no message     *)
(* comes without an id.                                                    *)
(***************************************************************************)
LEMMA HasIsStored ==
    ASSUME Anonymous = {}, documents \in [Conversations -> Seq(Written)], NEW c \in Copies,
           ConversationOfCopy(c) \in Conversations, Has(c, Question(c))
    PROVE  QuestionStored(c)
<1>1. PICK d \in DocumentsOf(c) : SameKey(d, Question(c))
  BY DEF Has
<1>2. d \in Written
  <2>1. documents[ConversationOfCopy(c)] \in Seq(Written)
    OBVIOUS
  <2> QED
    BY <1>1, <2>1, LenProperties, ElementOfSeq DEF DocumentsOf, ToSet
<1>3. d.role = "user" /\ d.id = log[c].msg
  BY <1>1 DEF SameKey, Question, UserDocument
<1>4. PICK k \in Copies : d = Question(k)
  BY <1>2, <1>3 DEF Written, AssistantDocument
<1>5. d.id = log[k].msg /\ d.copy = k
  BY <1>4 DEF Question, UserDocument
<1> QED
  BY <1>1, <1>3, <1>5 DEF QuestionStored

(***************************************************************************)
(* A step of the pipeline keeps what is recorded.                          *)
(***************************************************************************)
LEMMA StepRecorded ==
    ASSUME Anonymous = {}, SafetyInv, TypeOK', StagesKept, Recorded, backend # "memory",
           NEW w \in Workers, PipelineStep(w),
           Copies \subseteq Copies', \A k \in Copies : log'[k] = log[k]
    PROVE  Recorded'
<1>0. PICK c : c = cur[w].copy
  OBVIOUS
<1>t. /\ TypeOK
      /\ \A k \in Copies : ConversationOfCopy(k) \in Conversations
      /\ Lasting /\ documents \in [Conversations -> Seq(Written)]
  <2>1. TypeOK
    BY DEF SafetyInv
  <2>2. \A k \in Copies : log[k].msg \in Messages
    BY <2>1, LogFields DEF TypeOK
  <2> QED
    BY <2>1, <2>2, PipelineAssumption, StoreAssumption DEF ConversationOfCopy, Recorded, Lasting
<1>h. pc[w] = "process" => c \in Copies
  BY <1>0 DEF SafetyInv, EntriesLogged, Holding
<1>1. /\ UNCHANGED backend
      /\ \/ UNCHANGED documents
         \/ pc[w] = "process" /\ (Adds(c, Question(c)) \/ Adds(c, AssistantDocument(c)))
      /\ stage[w] \in {"store", "write"} /\ stage'[w] \in QuestionStages =>
            Adds(c, Question(c)) \/ (UNCHANGED documents /\ Has(c, Question(c)))
      /\ stage'[w] = "return" => Adds(c, AssistantDocument(c))
  BY <1>0, <1>t, StepStores
<1>2. /\ \A v \in Workers \ {w} : stage'[v] = stage[v] /\ cur'[v] = cur[v]
      /\ stage'[w] \in QuestionStages =>
            cur'[w] = cur[w] /\ pc[w] = "process"
            /\ stage[w] \in QuestionStages \cup {"store", "write"}
      /\ \A k \in 1..MaxCopies : "answered" \in outcome'[k] =>
            \/ "answered" \in outcome[k]
            \/ k = c /\ pc[w] = "process" /\ stage[w] = "return"
  BY <1>0, <1>t, StepConcludes
<1> DEFINE Grown == \A conv \in Conversations : \A i \in DOMAIN documents[conv] :
                       i \in DOMAIN documents'[conv] /\ documents'[conv][i] = documents[conv][i]
<1>3. ASSUME pc[w] = "process", NEW doc \in {Question(c), AssistantDocument(c)}, Adds(c, doc)
      PROVE  /\ documents' \in [Conversations -> Seq(Written)] /\ Grown
             /\ \E i \in DOMAIN documents'[ConversationOfCopy(c)] :
                   documents'[ConversationOfCopy(c)][i] = doc
  <2>1. doc \in Written
    BY <1>h, <1>3 DEF Written
  <2> QED
    BY <1>t, <1>h, <1>3, <2>1, AddsKeeps
<1>4. documents' \in [Conversations -> Seq(Written)] /\ Grown
  BY <1>t, <1>1, <1>3
<1>5. Written \subseteq Written'
  BY DEF Written, Question, AssistantDocument
<1>6. documents' \in [Conversations -> Seq(Written')]
  <2>1. Seq(Written) \subseteq Seq(Written')
    BY <1>5
  <2> QED
    BY <1>4, <2>1
<1>7. ASSUME NEW k \in Copies
      PROVE  /\ QuestionStored(k) => QuestionStored(k)'
             /\ AnswersOf(k) # {} => AnswersOf(k)' # {}
  BY <1>t, <1>4, <1>7, StoredStays
<1>8. ASSUME pc[w] = "process" PROVE log'[c] = log[c] /\ ConversationOfCopy(c)' = ConversationOfCopy(c)
  BY <1>h, <1>8 DEF ConversationOfCopy
<1>9. ASSUME pc[w] = "process", Adds(c, Question(c)) PROVE QuestionStored(c)'
  <2>1. PICK i \in DOMAIN documents'[ConversationOfCopy(c)] :
            documents'[ConversationOfCopy(c)][i] = Question(c)
    BY <1>3, <1>9
  <2>2. Question(c).role = "user" /\ Question(c).copy = c
    BY DEF Question, UserDocument
  <2> QED
    BY <1>8, <1>9, <2>1, <2>2 DEF QuestionStored, DocumentsOf, ToSet
<1>10. ASSUME pc[w] = "process", Adds(c, AssistantDocument(c)) PROVE AnswersOf(c)' # {}
  <2>1. PICK i \in DOMAIN documents'[ConversationOfCopy(c)] :
            documents'[ConversationOfCopy(c)][i] = AssistantDocument(c)
    BY <1>3, <1>10
  <2>2. AssistantDocument(c).role = "assistant" /\ AssistantDocument(c).copy = c
    BY DEF AssistantDocument
  <2> QED
    BY <1>8, <1>10, <2>1, <2>2 DEF AnswersOf
<1>11. ASSUME NEW k \in Copies', NEW v \in Workers, cur'[v].copy = k, stage'[v] \in QuestionStages
       PROVE  QuestionStored(k)' /\ (stage'[v] = "return" => AnswersOf(k)' # {})
  <2>1. CASE v = w
    <3>1. k = c /\ pc[w] = "process" /\ k \in Copies
      BY <1>0, <1>2, <1>11, <1>h, <2>1
    <3>2. CASE stage[w] \in QuestionStages
      BY <1>0, <1>1, <1>7, <1>10, <1>11, <2>1, <3>1, <3>2 DEF Recorded
    <3>3. CASE stage[w] \in {"store", "write"}
      <4>1. UNCHANGED documents /\ Has(c, Question(c)) => QuestionStored(c)'
        BY <1>7, <1>t, <3>1, HasIsStored
      <4> QED
        BY <1>1, <1>9, <1>10, <1>11, <2>1, <3>1, <3>3, <4>1
    <3> QED
      BY <1>2, <1>11, <2>1, <3>2, <3>3
  <2>2. CASE v # w
    <3>1. stage[v] = stage'[v] /\ cur[v].copy = k /\ pc[v] = "process"
      BY <1>2, <1>11, <2>2 DEF StagesKept, QuestionStages
    <3>2. k \in Copies
      BY <3>1 DEF SafetyInv, EntriesLogged, Holding
    <3>3. QuestionStored(k) /\ (stage[v] = "return" => AnswersOf(k) # {})
      BY <1>11, <3>1, <3>2 DEF Recorded
    <3> QED
      BY <1>7, <3>1, <3>2, <3>3
  <2> QED
    BY <2>1, <2>2
<1>13. ASSUME NEW k \in Copies', "answered" \in outcome'[k]
       PROVE  QuestionStored(k)' /\ AnswersOf(k)' # {}
  <2>1. k \in 1..MaxCopies
    <3>1. log' \in Seq(Payload) /\ Len(log') <= MaxCopies
      BY DEF TypeOK, QueueTypeOK
    <3>2. k \in 1..Len(log') /\ Len(log') \in Nat
      BY <3>1, LenProperties DEF Copies
    <3> QED
      BY <3>1, <3>2, QueueAssumption
  <2>2. CASE "answered" \in outcome[k]
    <3>1. k \in Copies
      BY <2>1, <2>2 DEF SafetyInv, EntriesLogged
    <3> QED
      BY <1>7, <2>2, <3>1 DEF Recorded
  <2>3. CASE k = c /\ pc[w] = "process" /\ stage[w] = "return"
    BY <1>0, <1>7, <1>h, <2>3 DEF Recorded, QuestionStages
  <2> QED
    BY <1>2, <1>13, <2>1, <2>2, <2>3
<1> QED
  BY <1>1, <1>6, <1>11, <1>13 DEF Recorded, QuestionStages
(***************************************************************************)
(* Every step keeps what is recorded.                                      *)
(***************************************************************************)
LEMMA NextRecorded ==
    ASSUME Anonymous = {}, SafetyInv, TypeOK', StagesKept, Recorded, [PipelineNext]_allVars
    PROVE  Recorded'
<1>1. Copies \subseteq Copies' /\ \A k \in Copies : log'[k] = log[k]
  BY StepIsMessaging, LogGrows DEF SafetyInv
<1>2. CASE backend = "memory"
  <2>1. ASSUME NEW w \in Workers, PipelineStep(w) PROVE UNCHANGED backend
    BY <2>1, BackendFixed DEF Recorded, SafetyInv
  <2>2. UNCHANGED backend
    BY <2>1 DEF PipelineNext, allVars, storeVars
  <2> QED
    BY <1>2, <2>2 DEF Recorded
<1>3. CASE backend # "memory"
  <2>1. ASSUME NEW w \in Workers, PipelineStep(w) PROVE Recorded'
    BY <1>1, <1>3, <2>1, StepRecorded
  <2>2. ASSUME UNCHANGED <<storeVars, stage>>,
               \A v \in Workers : stage[v] # "none" => cur'[v] = cur[v],
               \A k \in 1..MaxCopies : "answered" \in outcome'[k] => "answered" \in outcome[k]
        PROVE  Recorded'
    <3>1. UNCHANGED <<documents, backend>>
      BY <2>2 DEF storeVars
    <3>2. documents \in [Conversations -> Seq(Written)]
      BY <1>3 DEF Recorded
    <3>3. \A k \in Copies : ConversationOfCopy(k) \in Conversations
      <4>1. \A k \in Copies : log[k].msg \in Messages
        BY LogFields DEF SafetyInv, TypeOK
      <4> QED
        BY <4>1, PipelineAssumption DEF ConversationOfCopy
    <3>4. ASSUME NEW k \in Copies
          PROVE  /\ QuestionStored(k) => QuestionStored(k)'
                 /\ AnswersOf(k) # {} => AnswersOf(k)' # {}
      BY <1>1, <3>1, <3>2, <3>3, <3>4, StoredStays
    <3>5. documents' \in [Conversations -> Seq(Written')]
      <4>1. Written \subseteq Written'
        BY <1>1 DEF Written, Question, AssistantDocument
      <4>2. Seq(Written) \subseteq Seq(Written')
        BY <4>1
      <4> QED
        BY <3>1, <3>2, <4>2
    <3>6. ASSUME NEW k \in Copies', NEW v \in Workers, cur'[v].copy = k, stage'[v] \in QuestionStages
          PROVE  QuestionStored(k)' /\ (stage'[v] = "return" => AnswersOf(k)' # {})
      <4>1. stage[v] = stage'[v] /\ cur[v].copy = k /\ pc[v] = "process"
        BY <2>2, <3>6 DEF StagesKept, QuestionStages
      <4>2. k \in Copies
        BY <4>1 DEF SafetyInv, EntriesLogged, Holding
      <4>3. QuestionStored(k) /\ (stage[v] = "return" => AnswersOf(k) # {})
        BY <1>3, <3>6, <4>1, <4>2 DEF Recorded
      <4> QED
        BY <3>4, <4>1, <4>2, <4>3
    <3>7. ASSUME NEW k \in Copies', "answered" \in outcome'[k]
          PROVE  QuestionStored(k)' /\ AnswersOf(k)' # {}
      <4>1. k \in 1..MaxCopies
        <5>1. log' \in Seq(Payload) /\ Len(log') <= MaxCopies
          BY DEF TypeOK, QueueTypeOK
        <5>2. k \in 1..Len(log') /\ Len(log') \in Nat
          BY <5>1, LenProperties DEF Copies
        <5> QED
          BY <5>1, <5>2, QueueAssumption
      <4>2. k \in Copies /\ "answered" \in outcome[k]
        BY <2>2, <3>7, <4>1 DEF SafetyInv, EntriesLogged
      <4> QED
        BY <1>3, <3>4, <4>2 DEF Recorded
    <3> QED
      BY <3>1, <3>5, <3>6, <3>7 DEF Recorded, QuestionStages
  <2>3. ASSUME NEW w \in Workers, OutsideStep(w), UNCHANGED <<storeVars, pipelineVars>>
        PROVE  Recorded'
    BY <2>2, <2>3, OutsideConcludes DEF SafetyInv
  <2>4. ASSUME UNCHANGED <<workerVars, storeVars, pipelineVars>> PROVE Recorded'
    BY <2>2, <2>4 DEF workerVars, pipelineVars
  <2>5. ASSUME NEW m \in Messages, AcceptCubeMessage(m) PROVE UNCHANGED workerVars
    BY <2>5 DEF AcceptCubeMessage
  <2> QED
    BY <2>1, <2>3, <2>4, <2>5 DEF PipelineNext, allVars, vars
<1> QED
  BY <1>2, <1>3

(***************************************************************************)
(* Nothing is stored or answered at first.                                 *)
(***************************************************************************)
LEMMA InitRecorded == PipelineInit => Recorded
<1> SUFFICES ASSUME PipelineInit PROVE Recorded
  OBVIOUS
<1>1. documents \in [Conversations -> Seq(Written)] /\ backend \in Backends
  BY DEF PipelineInit, StoreInit
<1>2. TypeOK /\ Copies \subseteq 1..MaxCopies
  <2>1. TypeOK
    BY InitTyped DEF PipelineInit
  <2> QED
    BY <2>1, LenProperties, QueueAssumption DEF TypeOK, QueueTypeOK, Copies
<1>3. \A c \in Copies : "answered" \notin outcome[c]
  BY <1>2 DEF PipelineInit, Init, WorkerInit
<1> QED
  BY <1>1, <1>3 DEF PipelineInit, Recorded, QuestionStages

(***************************************************************************)
(* When every message has an id, an answered payload has its question and  *)
(* its answer in a store that outlives the process, whatever fails and     *)
(* however many workers there are. (With messages without id the unique    *)
(* index of MongoDB takes two of them for one, see ConversationStore.)     *)
(***************************************************************************)
THEOREM AnsweredRecorded ==
    ASSUME Anonymous = {}
    PROVE  PipelineSpec => []AnsweredIsRecorded
<1>1. PipelineInit => SafetyInv /\ StagesKept /\ Recorded
  BY InitSafe, InitStages, InitRecorded DEF PipelineInit
<1>2. SafetyInv /\ StagesKept /\ Recorded /\ [PipelineNext]_allVars
         => SafetyInv' /\ StagesKept' /\ Recorded'
  <2> SUFFICES ASSUME SafetyInv, StagesKept, Recorded, [PipelineNext]_allVars
               PROVE  SafetyInv' /\ StagesKept' /\ Recorded'
    OBVIOUS
  <2>1. TypeOK
    BY DEF SafetyInv
  <2>2. SafetyInv' /\ StagesKept'
    BY <2>1, StepIsMessaging, NextSafe, NextStages
  <2>3. TypeOK'
    BY <2>2 DEF SafetyInv
  <2> QED
    BY <2>2, <2>3, NextRecorded
<1>3. Recorded => AnsweredIsRecorded
  BY DEF Recorded, AnsweredIsRecorded
<1> QED
  BY <1>1, <1>2, <1>3, PTL DEF PipelineSpec

----------------------------------------------------------------------------
(* What is stored once.                                                    *)

Document ==
    [role : {"user"}, id : Messages \cup {EmptyId}, copy : Nat]
        \cup [role : {"assistant"}, id : {NoIdField}, copy : Nat]

\* Neither lasting store takes two questions of one id.
Once ==
    \A conv \in Conversations : \A i, j \in DOMAIN documents[conv] :
        /\ documents[conv][i].role = "user"
        /\ documents[conv][i].id \notin {EmptyId, NoIdField}
        /\ SameKey(documents[conv][i], documents[conv][j])
        => i = j

\* The question of payload c is there already.
Clash(c) == Question(c).id \notin {EmptyId, NoIdField} /\ Has(c, Question(c))

\* Between the lookup of the local backend and its write nothing comes in.
Unrepeated ==
    /\ backend \in Backends
    /\ backend # "memory" => documents \in [Conversations -> Seq(Document)] /\ Once
    /\ \A w \in Workers : stage[w] = "write" =>
          backend = "local" /\ \A c \in Copies : cur[w].copy = c => ~Clash(c)

(***************************************************************************)
(* Appending a document whose key is new keeps the keys apart.             *)
(***************************************************************************)
LEMMA AddsOnce ==
    ASSUME documents \in [Conversations -> Seq(Document)], Once,
           NEW c, ConversationOfCopy(c) \in Conversations,
           NEW doc \in Document, Adds(c, doc),
           doc.id \in {EmptyId, NoIdField} \/ ~Has(c, doc)
    PROVE  documents' \in [Conversations -> Seq(Document)] /\ Once'
<1>1. PICK own \in Conversations : own = ConversationOfCopy(c)
  OBVIOUS
<1>2. PICK docs \in Seq(Document) : docs = documents[own]
  BY <1>1
<1>3. PICK more \in Seq(Document) : more = Append(docs, doc)
  BY AppendProperties
<1>4. /\ DOMAIN docs = 1..Len(docs) /\ DOMAIN more = 1..(Len(docs) + 1)
      /\ Len(docs) \in Nat
      /\ \A i \in 1..Len(docs) : more[i] = docs[i]
      /\ more[Len(docs) + 1] = doc
  BY <1>3, AppendProperties, LenProperties
<1>5. documents' = [documents EXCEPT ![own] = more]
  BY <1>1, <1>2, <1>3 DEF Adds
<1>6. documents' \in [Conversations -> Seq(Document)]
  BY <1>5
<1>7. documents'[own] = more /\ \A conv \in Conversations \ {own} : documents'[conv] = documents[conv]
  BY <1>5
<1>8. ASSUME NEW i \in DOMAIN more, NEW j \in DOMAIN more,
             more[i].role = "user", more[i].id \notin {EmptyId, NoIdField},
             SameKey(more[i], more[j])
      PROVE  i = j
  <2>1. more[j].role = more[i].role /\ more[j].id = more[i].id
    BY <1>8 DEF SameKey
  <2>2. ASSUME NEW k \in DOMAIN docs PROVE ~(SameKey(docs[k], doc) /\ doc.id \notin {EmptyId, NoIdField})
    BY <1>1, <1>2 DEF Has, DocumentsOf, ToSet
  <2>3. CASE i \in DOMAIN docs /\ j \in DOMAIN docs
    BY <1>2, <1>4, <1>8, <2>3 DEF Once
  <2>4. CASE i = Len(docs) + 1 /\ j \in DOMAIN docs
    BY <1>4, <1>8, <2>1, <2>2, <2>4 DEF SameKey
  <2>5. CASE i \in DOMAIN docs /\ j = Len(docs) + 1
    BY <1>4, <1>8, <2>1, <2>2, <2>5 DEF SameKey
  <2> QED
    BY <1>4, <1>8, <2>3, <2>4, <2>5
<1>9. Once'
  <2> SUFFICES ASSUME NEW conv \in Conversations,
                      NEW i \in DOMAIN documents'[conv], NEW j \in DOMAIN documents'[conv],
                      documents'[conv][i].role = "user",
                      documents'[conv][i].id \notin {EmptyId, NoIdField},
                      SameKey(documents'[conv][i], documents'[conv][j])
               PROVE  i = j
    BY DEF Once, SameKey
  <2>1. CASE conv = own
    BY <1>7, <1>8, <2>1
  <2>2. CASE conv # own
    BY <1>7, <2>2 DEF Once
  <2> QED
    BY <2>1, <2>2
<1> QED
  BY <1>6, <1>9

(***************************************************************************)
(* A step of the pipeline, with the local backend the only worker's.       *)
(***************************************************************************)
LEMMA StepUnrepeated ==
    ASSUME "local" \notin Backends \/ \A v, u \in Workers : v = u,
           SafetyInv, StagesKept, Unrepeated, NEW w \in Workers, PipelineStep(w), UNCHANGED log
    PROVE  Unrepeated'
<1>0. PICK c : c = cur[w].copy
  OBVIOUS
<1>t. /\ TypeOK /\ stage \in [Workers -> Stages]
      /\ Here(w) = ConversationOfCopy(c)
  BY <1>0 DEF SafetyInv, StagesKept, Here
<1>h. ASSUME pc[w] = "process"
      PROVE  /\ c \in Copies /\ ConversationOfCopy(c) \in Conversations
             /\ Question(c) \in Document /\ AssistantDocument(c) \in Document
  <2>1. c \in Copies
    BY <1>0, <1>h DEF SafetyInv, EntriesLogged, Holding
  <2>2. log[c].msg \in Messages /\ c \in Nat
    BY <1>t, <2>1, LogFields DEF TypeOK
  <2> QED
    BY <2>1, <2>2, PipelineAssumption
       DEF ConversationOfCopy, Question, UserDocument, AssistantDocument, Document
<1>1. ASSUME StoreQuestion(w) \/ WriteQuestion(w) \/ RecordAnswer(w) PROVE pc[w] = "process"
  BY <1>1 DEF StoreQuestion, WriteQuestion, RecordAnswer, At
<1>2. UNCHANGED backend
  BY <1>t, BackendFixed DEF Unrepeated
<1>3. ASSUME stage'[w] = "write"
      PROVE  backend = "local" /\ UNCHANGED <<documents, cur>> /\ ~Clash(c)
  <2>1. ~EnterPipeline(w)
    BY <1>t, <1>3 DEF EnterPipeline, GotoStage
  <2>2. ~(ReadHistory(w) \/ WorkflowReturns(w) \/ SendPart(w) \/ DeliveryReturns(w))
    BY <1>t, <1>3 DEF ReadHistory, WorkflowReturns, SendPart, DeliveryReturns, At, GotoStage
  <2>3. ~(LeavePipeline(w) \/ GotoStage(w, "workflow") \/ GotoStage(w, "return"))
    BY <1>t, <1>3 DEF LeavePipeline, GotoStage
  <2>4. ~(WriteQuestion(w) \/ WorkflowRaises(w) \/ DeliveryFails(w) \/ RecordAnswer(w))
    BY <2>3 DEF WriteQuestion, WorkflowRaises, DeliveryFails, RecordAnswer, Raise
  <2>5. ~(PipelineReturns(w) \/ CrashPipeline(w))
    BY <2>3 DEF PipelineReturns, CrashPipeline
  <2>6. StoreQuestion(w)
    BY <2>1, <2>2, <2>4, <2>5 DEF PipelineStep
  <2>7. /\ backend = "local" /\ ~LocalIsDuplicate(ConversationOfCopy(c), Question(c))
        /\ UNCHANGED storeVars /\ Inside
    BY <1>0, <1>t, <2>3, <2>6 DEF StoreQuestion, Raise
  <2> QED
    BY <2>7 DEF LocalIsDuplicate, Clash, Has, DocumentsOf, storeVars, Inside, vars, workerVars
<1>4. ASSUME Lasting
      PROVE  \/ UNCHANGED documents
             \/ /\ pc[w] = "process"
                /\ \E doc \in Document :
                      Adds(c, doc) /\ (doc.id \in {EmptyId, NoIdField} \/ ~Has(c, doc))
  <2>1. ASSUME UNCHANGED storeVars PROVE UNCHANGED documents
    BY <2>1 DEF storeVars
  <2>2. ASSUME pc[w] = "process", NEW doc \in Document, AppendMessage(ConversationOfCopy(c), doc)
        PROVE  \/ UNCHANGED documents
               \/ Adds(c, doc) /\ (doc.id \in {EmptyId, NoIdField} \/ ~Has(c, doc))
    BY <1>4, <2>2, LastingAppend
  <2>3. CASE StoreQuestion(w)
    <3>1. AppendMessage(ConversationOfCopy(c), Question(c)) \/ UNCHANGED storeVars
      BY <1>0, <1>t, <2>3 DEF StoreQuestion
    <3> QED
      BY <1>1, <1>h, <2>1, <2>2, <2>3, <3>1
  <2>4. CASE RecordAnswer(w)
    <3>1. AppendMessage(ConversationOfCopy(c), AssistantDocument(c)) \/ UNCHANGED storeVars
      BY <1>0, <1>t, <2>4 DEF RecordAnswer
    <3> QED
      BY <1>1, <1>h, <2>1, <2>2, <2>4, <3>1
  <2>5. CASE WriteQuestion(w)
    <3>1. Adds(c, Question(c)) \/ UNCHANGED storeVars
      BY <1>0, <1>t, <2>5 DEF WriteQuestion, LocalWrite, Adds
    <3>2. ~Clash(c)
      BY <1>0, <1>1, <1>h, <2>5 DEF WriteQuestion, At, Unrepeated
    <3> QED
      BY <1>1, <1>h, <2>1, <2>5, <3>1, <3>2 DEF Clash
  <2>6. CASE ~(StoreQuestion(w) \/ RecordAnswer(w) \/ WriteQuestion(w))
    BY <1>4, <2>1, <2>6 DEF PipelineStep, EnterPipeline, ReadHistory, MarkUsed, WorkflowReturns,
          WorkflowRaises, SendPart, DeliveryReturns, DeliveryFails, PipelineReturns, CrashPipeline,
          ForgetOnExit, Lasting
  <2> QED
    BY <2>3, <2>4, <2>5, <2>6
<1>5. backend' # "memory" => documents' \in [Conversations -> Seq(Document)] /\ Once'
  <2> SUFFICES ASSUME backend # "memory"
               PROVE  documents' \in [Conversations -> Seq(Document)] /\ Once'
    BY <1>2
  <2>1. Lasting /\ documents \in [Conversations -> Seq(Document)] /\ Once
    BY StoreAssumption DEF Unrepeated, Lasting
  <2>2. CASE UNCHANGED documents
    BY <2>1, <2>2 DEF Once
  <2>3. CASE ~UNCHANGED documents
    <3>1. pc[w] = "process"
      BY <1>4, <2>1, <2>3
    <3>2. PICK doc \in Document : Adds(c, doc) /\ (doc.id \in {EmptyId, NoIdField} \/ ~Has(c, doc))
      BY <1>4, <2>1, <2>3
    <3> QED
      BY <1>h, <2>1, <3>1, <3>2, AddsOnce
  <2> QED
    BY <2>2, <2>3
<1>6. ASSUME NEW v \in Workers, stage'[v] = "write"
      PROVE  backend' = "local" /\ \A k \in Copies' : cur'[v].copy = k => ~Clash(k)'
  <2>1. v = w
    <3>1. v # w => stage[v] = "write"
      BY <1>t, <1>6, StepConcludes
    <3> QED
      BY <3>1, <1>6 DEF Unrepeated
  <2>2. cur'[v].copy = c /\ backend = "local" /\ UNCHANGED documents /\ ~Clash(c)
    BY <1>0, <1>3, <1>6, <2>1
  <2>3. Clash(c)' <=> Clash(c)
    BY <2>2 DEF Clash, Has, DocumentsOf, ConversationOfCopy, Question, UserDocument, SameKey, ToSet
  <2> QED
    BY <1>2, <2>2, <2>3
<1> QED
  BY <1>2, <1>5, <1>6 DEF Unrepeated
(***************************************************************************)
(* So does every other step.                                               *)
(***************************************************************************)
LEMMA NextUnrepeated ==
    ASSUME "local" \notin Backends \/ \A v, u \in Workers : v = u,
           SafetyInv, StagesKept, Unrepeated, [PipelineNext]_allVars
    PROVE  Unrepeated'
<1>t. TypeOK
  BY DEF SafetyInv
<1>1. Copies \subseteq Copies' /\ \A k \in Copies : log'[k] = log[k]
  BY <1>t, StepIsMessaging, LogGrows
<1>2. ASSUME NEW w \in Workers, PipelineStep(w) PROVE Unrepeated'
  BY <1>2, PipelineKeepsLog, StepUnrepeated
<1>3. ASSUME UNCHANGED <<storeVars, stage>>,
             \A v \in Workers : stage[v] # "none" => cur'[v] = cur[v]
      PROVE  Unrepeated'
  <2>1. UNCHANGED <<documents, backend>>
    BY <1>3 DEF storeVars
  <2>2. backend' # "memory" => documents' \in [Conversations -> Seq(Document)] /\ Once'
    BY <2>1 DEF Unrepeated, Once
  <2>3. ASSUME NEW v \in Workers, stage'[v] = "write"
        PROVE  backend' = "local" /\ \A k \in Copies' : cur'[v].copy = k => ~Clash(k)'
    <3>1. stage[v] = "write" /\ cur'[v] = cur[v] /\ pc[v] = "process"
      BY <1>3, <2>3 DEF StagesKept
    <3>2. cur[v].copy \in Copies
      BY <3>1 DEF SafetyInv, EntriesLogged, Holding
    <3>3. ASSUME NEW k \in Copies PROVE Clash(k)' <=> Clash(k)
      BY <1>1, <2>1 DEF Clash, Has, DocumentsOf, ConversationOfCopy, Question, UserDocument,
                        SameKey, ToSet
    <3> QED
      BY <2>1, <3>1, <3>2, <3>3 DEF Unrepeated
  <2> QED
    BY <2>1, <2>2, <2>3 DEF Unrepeated
<1>4. ASSUME NEW w \in Workers, OutsideStep(w), UNCHANGED <<storeVars, pipelineVars>>
      PROVE  Unrepeated'
  BY <1>t, <1>3, <1>4, OutsideConcludes
<1>5. ASSUME UNCHANGED <<workerVars, storeVars, pipelineVars>> PROVE Unrepeated'
  BY <1>3, <1>5 DEF workerVars, pipelineVars
<1>6. ASSUME NEW m \in Messages, AcceptCubeMessage(m) PROVE UNCHANGED workerVars
  BY <1>6 DEF AcceptCubeMessage
<1> QED
  BY <1>2, <1>4, <1>5, <1>6 DEF PipelineNext, allVars, vars

(***************************************************************************)
(* A message with an id is stored once, however often it is retried,       *)
(* recovered or sent again: by the unique index of MongoDB with any number *)
(* of workers, by the lookup of the local backend with a single one.       *)
(***************************************************************************)
THEOREM QuestionsStoredOnce ==
    ASSUME "local" \notin Backends \/ \A v, u \in Workers : v = u
    PROVE  PipelineSpec => []UserStoredOnce
<1>1. PipelineInit => SafetyInv /\ StagesKept /\ Unrepeated
  <2> SUFFICES ASSUME PipelineInit PROVE Unrepeated
    BY InitSafe, InitStages DEF PipelineInit
  <2> QED
    BY DEF PipelineInit, StoreInit, Unrepeated, Once
<1>2. SafetyInv /\ StagesKept /\ Unrepeated /\ [PipelineNext]_allVars
         => SafetyInv' /\ StagesKept' /\ Unrepeated'
  <2> SUFFICES ASSUME SafetyInv, StagesKept, Unrepeated, [PipelineNext]_allVars
               PROVE  SafetyInv' /\ StagesKept' /\ Unrepeated'
    OBVIOUS
  <2>1. TypeOK
    BY DEF SafetyInv
  <2> QED
    BY <2>1, StepIsMessaging, NextSafe, NextStages, NextUnrepeated
<1>3. Unrepeated => UserStoredOnce
  BY DEF Unrepeated, Once, UserStoredOnce, SameKey
<1> QED
  BY <1>1, <1>2, <1>3, PTL DEF PipelineSpec

----------------------------------------------------------------------------
(* Appending and trimming.                                                 *)

\* t is a piece of s.
PieceOf(s, t) == \E k \in Nat : \A i \in DOMAIN t : i + k \in DOMAIN s /\ t[i] = s[i + k]

(***************************************************************************)
(* A list and the empty one are pieces of it, and so are its last          *)
(* documents, the newest among them.                                       *)
(***************************************************************************)
LEMMA Pieces ==
    ASSUME NEW s \in Seq(Document), NEW n \in Nat
    PROVE  /\ PieceOf(s, s) /\ PieceOf(s, <<>>)
           /\ LastOf(s, n) \in Seq(Document) /\ PieceOf(s, LastOf(s, n))
           /\ n > 0 /\ s # <<>> => LastOf(s, n) # <<>> /\ Last(LastOf(s, n)) = s[Len(s)]
<1>1. DOMAIN s = 1..Len(s) /\ Len(s) \in Nat /\ DOMAIN <<>> = {}
  BY LenProperties
<1>2. PieceOf(s, s) /\ PieceOf(s, <<>>)
  <2>1. \A i \in DOMAIN s : i + 0 \in DOMAIN s /\ s[i] = s[i + 0]
    BY <1>1
  <2>2. \A i \in DOMAIN <<>> : i + 0 \in DOMAIN s /\ <<>>[i] = s[i + 0]
    BY <1>1
  <2> QED
    BY <2>1, <2>2 DEF PieceOf
<1> DEFINE from == IF Len(s) > n THEN Len(s) - n + 1 ELSE 1
           t    == SubSeq(s, from, Len(s))
<1>3. from \in 1..(Len(s) + 1) /\ (n > 0 /\ Len(s) > 0 => from <= Len(s))
  BY <1>1
<1> HIDE DEF from
<1>4. /\ t \in Seq(Document)
      /\ Len(t) = Len(s) - from + 1
      /\ \A i \in 1..Len(t) : t[i] = s[from + i - 1]
  BY <1>1, <1>3, SubSeqProperties
<1> HIDE DEF t
<1>5. PieceOf(s, t)
  <2>1. \A i \in DOMAIN t : i + (from - 1) \in DOMAIN s /\ t[i] = s[i + (from - 1)]
    <3> SUFFICES ASSUME NEW i \in 1..Len(t) PROVE i + (from - 1) \in 1..Len(s) /\ t[i] = s[i + (from - 1)]
      BY <1>1, <1>4, LenProperties
    <3>1. i + (from - 1) = from + i - 1 /\ i + (from - 1) \in 1..Len(s)
      BY <1>1, <1>3, <1>4
    <3> QED
      BY <1>4, <3>1
  <2>2. from - 1 \in Nat
    BY <1>1, <1>3
  <2> QED
    BY <2>1, <2>2 DEF PieceOf
<1>6. ASSUME n > 0, s # <<>> PROVE t # <<>> /\ Last(t) = s[Len(s)]
  <2>1. Len(s) > 0
    BY <1>1, <1>6, EmptySeq
  <2>0. from \in Int /\ from <= Len(s)
    BY <1>1, <1>3, <1>6, <2>1
  <2>2. Len(t) \in Nat /\ Len(t) > 0 /\ from + Len(t) - 1 = Len(s)
    BY <1>1, <1>4, <2>0
  <2>3. t[Len(t)] = s[Len(s)]
    BY <1>4, <2>2
  <2> QED
    BY <2>2, <2>3 DEF Last
<1>7. t = LastOf(s, n)
  BY DEF t, from, LastOf
<1> QED
  BY <1>2, <1>4, <1>5, <1>6, <1>7

LEMMA PieceOfPiece ==
    ASSUME NEW r, NEW s, NEW t \in Seq(Document), PieceOf(r, s), PieceOf(s, t)
    PROVE  PieceOf(r, t)
<1>1. PICK k \in Nat : \A i \in DOMAIN s : i + k \in DOMAIN r /\ s[i] = r[i + k]
  BY DEF PieceOf
<1>2. PICK l \in Nat : \A i \in DOMAIN t : i + l \in DOMAIN s /\ t[i] = s[i + l]
  BY DEF PieceOf
<1>3. \A i \in DOMAIN t : i + (l + k) \in DOMAIN r /\ t[i] = r[i + (l + k)]
  <2> SUFFICES ASSUME NEW i \in DOMAIN t PROVE i + (l + k) \in DOMAIN r /\ t[i] = r[i + (l + k)]
    OBVIOUS
  <2>1. (i + l) + k = i + (l + k)
    BY LenProperties
  <2> QED
    BY <1>1, <1>2, <2>1
<1>4. l + k \in Nat
  OBVIOUS
<1> QED
  BY <1>3, <1>4 DEF PieceOf

AnswersIn(s, c) == {i \in DOMAIN s : s[i].role = "assistant" /\ s[i].copy = c}

LEMMA AnswersFinite ==
    ASSUME NEW s \in Seq(Document), NEW c
    PROVE  IsFiniteSet(AnswersIn(s, c)) /\ Cardinality(AnswersIn(s, c)) \in Nat
<1>1. DOMAIN s = 1..Len(s) /\ Len(s) \in Nat
  BY LenProperties
<1>2. IsFiniteSet(1..Len(s))
  BY <1>1, FS_Interval
<1>3. AnswersIn(s, c) \in SUBSET (1..Len(s))
  BY <1>1 DEF AnswersIn
<1> QED
  BY <1>2, <1>3, FS_Subset, FS_CardinalityType

(***************************************************************************)
(* A piece of a conversation has no more answers.                          *)
(***************************************************************************)
LEMMA PieceAnswers ==
    ASSUME NEW s \in Seq(Document), NEW t \in Seq(Document), PieceOf(s, t), NEW c
    PROVE  Cardinality(AnswersIn(t, c)) <= Cardinality(AnswersIn(s, c))
<1>1. PICK k \in Nat : \A i \in DOMAIN t : i + k \in DOMAIN s /\ t[i] = s[i + k]
  BY DEF PieceOf
<1> DEFINE S == AnswersIn(t, c)
           T == AnswersIn(s, c)
           f == [i \in S |-> i + k]
<1>2. S \subseteq Nat /\ \A i \in S : i + k \in T
  BY <1>1, LenProperties DEF AnswersIn
<1>3. f \in Injection(S, T)
  BY <1>2 DEF Injection, IsInjective
<1>4. IsFiniteSet(T)
  BY AnswersFinite
<1> HIDE DEF f, S, T
<1>5. Cardinality(S) <= Cardinality(T)
  BY <1>3, <1>4, FS_Injection
<1> QED
  BY <1>5 DEF S, T

(***************************************************************************)
(* Appending an answer makes one more for its payload, and appending       *)
(* another document none.                                                  *)
(***************************************************************************)
LEMMA AppendedAnswers ==
    ASSUME NEW s \in Seq(Document), NEW d \in Document, NEW c
    PROVE  /\ Append(s, d) \in Seq(Document)
           /\ Cardinality(AnswersIn(Append(s, d), c)) =
                 Cardinality(AnswersIn(s, c)) + IF d.role = "assistant" /\ d.copy = c THEN 1 ELSE 0
<1>1. /\ Append(s, d) \in Seq(Document)
      /\ Len(s) \in Nat /\ DOMAIN s = 1..Len(s) /\ DOMAIN Append(s, d) = 1..(Len(s) + 1)
      /\ \A i \in 1..Len(s) : Append(s, d)[i] = s[i]
      /\ Append(s, d)[Len(s) + 1] = d
  BY AppendProperties, LenProperties
<1>2. IsFiniteSet(AnswersIn(s, c)) /\ Cardinality(AnswersIn(s, c)) \in Nat
  BY AnswersFinite
<1>3. Len(s) + 1 \notin AnswersIn(s, c)
  BY <1>1 DEF AnswersIn
<1>4. CASE d.role = "assistant" /\ d.copy = c
  <2>1. AnswersIn(Append(s, d), c) = AnswersIn(s, c) \cup {Len(s) + 1}
    BY <1>1, <1>4 DEF AnswersIn
  <2> QED
    BY <1>1, <1>2, <1>3, <1>4, <2>1, FS_AddElement
<1>5. CASE ~(d.role = "assistant" /\ d.copy = c)
  <2>1. AnswersIn(Append(s, d), c) = AnswersIn(s, c)
    BY <1>1, <1>5 DEF AnswersIn
  <2> QED
    BY <1>1, <1>2, <1>5, <2>1
<1> QED
  BY <1>4, <1>5

----------------------------------------------------------------------------
(* What the store does, with any backend.                                  *)

(***************************************************************************)
(* A document written goes to the end of its conversation.                 *)
(***************************************************************************)
LEMMA WriteStores ==
    ASSUME documents \in [Conversations -> Seq(Document)],
           NEW conv \in Conversations, NEW doc \in Document, LocalWrite(conv, doc)
    PROVE  /\ UNCHANGED backend
           /\ documents' \in [Conversations -> Seq(Document)]
           /\ \A k \in Conversations :
                 \/ PieceOf(documents[k], documents'[k])
                 \/ k = conv /\ PieceOf(Append(documents[k], doc), documents'[k])
<1> DEFINE more == Append(documents[conv], doc)
<1>1. more \in Seq(Document)
  BY AppendProperties
<1>2. documents' = [documents EXCEPT ![conv] = more] /\ UNCHANGED backend
  BY DEF LocalWrite
<1>3. 0 \in Nat /\ \A k \in Conversations : documents[k] \in Seq(Document)
  OBVIOUS
<1> HIDE DEF more
<1>4. PieceOf(more, more) /\ \A k \in Conversations : PieceOf(documents[k], documents[k])
  BY <1>1, <1>3, Pieces
<1>5. documents'[conv] = more /\ \A k \in Conversations \ {conv} : documents'[k] = documents[k]
  BY <1>1, <1>2
<1>6. documents' \in [Conversations -> Seq(Document)]
  BY <1>1, <1>2
<1> QED
  BY <1>2, <1>4, <1>5, <1>6 DEF more

(***************************************************************************)
(* append_message adds the document to the end of its conversation, or     *)
(* not, and every conversation keeps a piece of what it then has.          *)
(***************************************************************************)
LEMMA AppendStores ==
    ASSUME backend \in Backends, documents \in [Conversations -> Seq(Document)],
           NEW conv \in Conversations, NEW doc \in Document, AppendMessage(conv, doc)
    PROVE  /\ UNCHANGED backend
           /\ documents' \in [Conversations -> Seq(Document)]
           /\ \A k \in Conversations :
                 \/ PieceOf(documents[k], documents'[k])
                 \/ k = conv /\ PieceOf(Append(documents[k], doc), documents'[k])
<1>1. \A k \in Conversations : PieceOf(documents[k], documents[k]) /\ PieceOf(documents[k], <<>>)
  <2> SUFFICES ASSUME NEW k \in Conversations
               PROVE  PieceOf(documents[k], documents[k]) /\ PieceOf(documents[k], <<>>)
    OBVIOUS
  <2>1. documents[k] \in Seq(Document) /\ 0 \in Nat
    OBVIOUS
  <2> QED
    BY <2>1, Pieces
<1>2. \A s \in Seq(Document) : Append(s, doc) \in Seq(Document)
  BY AppendProperties
<1>3. CASE UNCHANGED storeVars
  BY <1>1, <1>3 DEF storeVars
<1>4. CASE LocalWrite(conv, doc)
  BY <1>4, WriteStores
<1>5. CASE MemoryAppend(conv, doc)
  <2> DEFINE evict == conv \notin ToSet(recency) /\ Len(recency) >= MaxUsers
             kept  == IF evict THEN [documents EXCEPT ![Head(recency)] = <<>>] ELSE documents
             more  == Append(kept[conv], doc)
             rest  == LastOf(more, HistoryLimit)
  <2>1. documents' = [kept EXCEPT ![conv] = rest] /\ UNCHANGED backend
    BY <1>5 DEF MemoryAppend
  <2>2. kept \in [Conversations -> Seq(Document)]
    <3>1. <<>> \in Seq(Document)
      OBVIOUS
    <3> HIDE DEF evict
    <3> QED
      BY <3>1
  <2>3. \A k \in Conversations : kept[k] = documents[k] \/ kept[k] = <<>>
    <3> HIDE DEF evict
    <3> QED
      OBVIOUS
  <2> HIDE DEF kept
  <2>4. more \in Seq(Document)
    BY <1>2, <2>2
  <2>5. PieceOf(Append(documents[conv], doc), more)
    <3>1. CASE kept[conv] = documents[conv]
      <4>1. 0 \in Nat
        OBVIOUS
      <4>2. PieceOf(more, more)
        <5> HIDE DEF more
        <5> QED
          BY <2>4, <4>1, Pieces
      <4> QED
        BY <3>1, <4>2
    <3>2. CASE kept[conv] = <<>>
      <4> DEFINE s == documents[conv]
                 k == Len(s)
      <4>1. more = <<doc>> /\ DOMAIN more = {1} /\ more[1] = doc
        BY <3>2
      <4>2. k \in Nat /\ 1 + k \in DOMAIN Append(s, doc) /\ Append(s, doc)[1 + k] = doc
        <5>1. s \in Seq(Document)
          OBVIOUS
        <5> HIDE DEF s
        <5> QED
          BY <5>1, AppendProperties, LenProperties
      <4>3. \A i \in DOMAIN more : i + k \in DOMAIN Append(s, doc) /\ more[i] = Append(s, doc)[i + k]
        <5> HIDE DEF more, s, k
        <5> QED
          BY <4>1, <4>2
      <4> HIDE DEF more, k
      <4> QED
        BY <4>2, <4>3 DEF PieceOf
    <3> QED
      BY <2>3, <3>1, <3>2
  <2> HIDE DEF more
  <2>6. rest \in Seq(Document) /\ PieceOf(more, rest)
    BY <2>4, Pieces, StoreAssumption
  <2> HIDE DEF rest
  <2>7. PieceOf(Append(documents[conv], doc), rest)
    BY <2>5, <2>6, PieceOfPiece
  <2>8. documents' \in [Conversations -> Seq(Document)]
    BY <2>1, <2>2, <2>6
  <2>9. documents'[conv] = rest /\ \A k \in Conversations \ {conv} : documents'[k] = kept[k]
    BY <2>1, <2>2
  <2>10. \A k \in Conversations \ {conv} : PieceOf(documents[k], documents'[k])
    BY <1>1, <2>3, <2>9
  <2> QED
    BY <2>1, <2>7, <2>8, <2>9, <2>10
<1>6. AppendMessage(conv, doc) => UNCHANGED storeVars \/ LocalWrite(conv, doc) \/ MemoryAppend(conv, doc)
  <2>1. backend \in {"mongo", "local", "memory"}
    BY StoreAssumption
  <2>2. MongoAppend(conv, doc) => UNCHANGED storeVars \/ LocalWrite(conv, doc)
    BY DEF MongoAppend, LocalWrite, storeVars
  <2> QED
    BY <2>1, <2>2 DEF AppendMessage
<1> QED
  BY <1>3, <1>4, <1>5, <1>6

\* A document of payload c may have been stored.
MayStore(c, doc) ==
    \A k \in Conversations :
        \/ PieceOf(documents[k], documents'[k])
        \/ k = ConversationOfCopy(c) /\ PieceOf(Append(documents[k], doc), documents'[k])

StoresNothing == \A k \in Conversations : PieceOf(documents[k], documents'[k])

\* What the store knows of the payloads.
StoreTyped ==
    /\ backend \in Backends
    /\ documents \in [Conversations -> Seq(Document)]

(***************************************************************************)
(* A worker stores its question before the workflow and its answer after   *)
(* the delivery; other steps, and other processes' ends, store nothing.    *)
(***************************************************************************)
LEMMA StepDocuments ==
    ASSUME TypeOK, StagesKept, StoreTyped, NEW w \in Workers, PipelineStep(w),
           NEW c, c = cur[w].copy,
           pc[w] = "process" => /\ ConversationOfCopy(c) \in Conversations
                                /\ Question(c) \in Document
                                /\ AssistantDocument(c) \in Document
    PROVE  /\ StoreTyped'
           /\ \/ StoresNothing
              \/ stage[w] \in {"store", "write"} /\ MayStore(c, Question(c))
              \/ stage[w] = "record" /\ MayStore(c, AssistantDocument(c))
<1>1. Here(w) = ConversationOfCopy(c)
  BY DEF Here
<1>2. ASSUME UNCHANGED <<documents, backend>> PROVE StoreTyped' /\ StoresNothing
  <2>1. ASSUME NEW k \in Conversations PROVE PieceOf(documents[k], documents[k])
    <3>1. documents[k] \in Seq(Document) /\ 0 \in Nat
      BY DEF StoreTyped
    <3> QED
      BY <3>1, Pieces
  <2> QED
    BY <1>2, <2>1 DEF StoreTyped, StoresNothing
<1>3. ASSUME UNCHANGED storeVars PROVE StoreTyped' /\ StoresNothing
  BY <1>2, <1>3 DEF storeVars
<1>4. ASSUME pc[w] = "process", NEW doc \in {Question(c), AssistantDocument(c)},
             AppendMessage(ConversationOfCopy(c), doc)
      PROVE  StoreTyped' /\ MayStore(c, doc)
  <2>1. doc \in Document /\ ConversationOfCopy(c) \in Conversations
    BY <1>4
  <2> QED
    BY <1>4, <2>1, AppendStores DEF StoreTyped, MayStore
<1>5. CASE StoreQuestion(w)
  <2>1. AppendMessage(ConversationOfCopy(c), Question(c)) \/ UNCHANGED storeVars
    BY <1>1, <1>5 DEF StoreQuestion
  <2>2. pc[w] = "process" /\ stage[w] = "store"
    BY <1>5 DEF StoreQuestion, At
  <2> QED
    BY <1>3, <1>4, <2>1, <2>2
<1>6. CASE WriteQuestion(w)
  <2>1. LocalWrite(ConversationOfCopy(c), Question(c)) \/ UNCHANGED storeVars
    BY <1>1, <1>6 DEF WriteQuestion
  <2>2. pc[w] = "process" /\ stage[w] = "write"
    BY <1>6 DEF WriteQuestion, At
  <2>3. Question(c) \in Document /\ ConversationOfCopy(c) \in Conversations
    BY <2>2
  <2>4. LocalWrite(ConversationOfCopy(c), Question(c)) => StoreTyped' /\ MayStore(c, Question(c))
    BY <2>3, WriteStores DEF StoreTyped, MayStore
  <2> QED
    BY <1>3, <2>1, <2>2, <2>4
<1>7. CASE RecordAnswer(w)
  <2>1. AppendMessage(ConversationOfCopy(c), AssistantDocument(c)) \/ UNCHANGED storeVars
    BY <1>1, <1>7 DEF RecordAnswer
  <2>2. pc[w] = "process" /\ stage[w] = "record"
    BY <1>7 DEF RecordAnswer, At
  <2> QED
    BY <1>3, <1>4, <2>1, <2>2
<1>8. CASE CrashPipeline(w)
  <2>1. CASE backend = "memory"
    <3>1. documents' = [k \in Conversations |-> <<>>] /\ UNCHANGED backend
      BY <1>8, <2>1 DEF CrashPipeline, ForgetOnExit
    <3>2. ASSUME NEW k \in Conversations PROVE PieceOf(documents[k], <<>>)
      <4>1. documents[k] \in Seq(Document) /\ 0 \in Nat
        BY DEF StoreTyped
      <4> QED
        BY <4>1, Pieces
    <3>3. <<>> \in Seq(Document)
      OBVIOUS
    <3> QED
      BY <3>1, <3>2, <3>3 DEF StoreTyped, StoresNothing
  <2> QED
    BY <1>3, <1>8, <2>1 DEF CrashPipeline, ForgetOnExit
<1>9. CASE ReadHistory(w)
  BY <1>2, <1>9 DEF ReadHistory, MarkUsed
<1>10. CASE EnterPipeline(w) \/ WorkflowReturns(w) \/ WorkflowRaises(w)
  BY <1>3, <1>10 DEF EnterPipeline, WorkflowReturns, WorkflowRaises
<1>11. CASE SendPart(w) \/ DeliveryReturns(w) \/ DeliveryFails(w) \/ PipelineReturns(w)
  BY <1>3, <1>11 DEF SendPart, DeliveryReturns, DeliveryFails, PipelineReturns
<1> QED
  BY <1>5, <1>6, <1>7, <1>8, <1>9, <1>10, <1>11 DEF PipelineStep

----------------------------------------------------------------------------
(* What the history claims.                                                *)

\* The whole answer is out and its document not yet stored.
Owes(w) == delivered[w] /\ stage[w] \in {"deliver", "record"}

Owing(c) == {w \in Workers : cur[w].copy = c /\ Owes(w)}

\* An answer is stored at most once each time it was delivered.
Claimed ==
    /\ StoreTyped
    /\ \A conv \in Conversations : \A i \in DOMAIN documents[conv] :
          documents[conv][i].copy \in Copies
    /\ \A c \in Copies :
          /\ IsFiniteSet(Owing(c))
          /\ Cardinality(AnswersOf(c)) + Cardinality(Owing(c)) <= answers[c]

(***************************************************************************)
(* A worker owes a document from its last part on, until it stores it, and *)
(* only the worker of that step makes an answer more.                      *)
(***************************************************************************)
LEMMA StepOwes ==
    ASSUME TypeOK, StagesKept, NEW w \in Workers, PipelineStep(w)
    PROVE  \/ /\ UNCHANGED answers
              /\ \A v \in Workers : Owes(v)' => Owes(v) /\ cur'[v] = cur[v]
              /\ stage[w] = "record" => Owes(w) /\ ~Owes(w)'
           \/ /\ pc[w] = "process" /\ stage[w] = "deliver" /\ ~Owes(w)
              /\ answers' = [answers EXCEPT ![cur[w].copy] = @ + 1]
              /\ UNCHANGED <<cur, documents, backend>>
              /\ \A v \in Workers \ {w} : Owes(v)' => Owes(v)
<1>t. /\ stage \in [Workers -> Stages] /\ delivered \in [Workers -> BOOLEAN]
      /\ stage[w] = "record" => Owes(w)
  BY DEF TypeOK, WorkerTypeOK, StagesKept, Owes
<1> DEFINE Same == /\ UNCHANGED answers
                   /\ \A v \in Workers : Owes(v)' => Owes(v) /\ cur'[v] = cur[v]
                   /\ stage[w] = "record" => Owes(w) /\ ~Owes(w)'
<1>1. ASSUME UNCHANGED <<cur, delivered, answers>>, NEW s, GotoStage(w, s),
             s \notin {"deliver", "record"} \/ (stage[w] = "deliver" /\ s = "record")
                \/ (stage[w] \in Preparing)
      PROVE  Same
  <2>1. stage'[w] = s /\ \A v \in Workers \ {w} : stage'[v] = stage[v]
    BY <1>t, <1>1 DEF GotoStage
  <2>2. stage[w] \in Preparing => ~delivered[w] /\ stage[w] # "record"
    BY DEF StagesKept, Preparing
  <2> QED
    BY <1>t, <1>1, <2>1, <2>2 DEF Owes
<1>i. ASSUME Inside PROVE UNCHANGED <<cur, delivered, answers>>
  BY <1>i DEF Inside, vars, workerVars
<1>r. ASSUME Raise(w) PROVE Same
  <2>1. UNCHANGED <<cur, delivered, answers>> /\ GotoStage(w, "none")
    BY <1>r DEF Raise, ProcessRaises, LeavePipeline
  <2> QED
    BY <1>1, <2>1
<1>2. CASE EnterPipeline(w)
  <2>1. UNCHANGED <<cur, delivered, answers>>
    BY <1>2 DEF EnterPipeline, CheckStale
  <2>2. PICK s \in {"store", "none"} : GotoStage(w, s)
    BY <1>2 DEF EnterPipeline
  <2> QED
    BY <1>1, <2>1, <2>2
<1>3. CASE StoreQuestion(w)
  <2>1. Raise(w) \/ (Inside /\ (GotoStage(w, "workflow") \/ GotoStage(w, "write")))
    BY <1>3 DEF StoreQuestion
  <2> QED
    BY <1>1, <1>i, <1>r, <2>1
<1>4. CASE WriteQuestion(w)
  <2>1. Raise(w) \/ (Inside /\ GotoStage(w, "workflow"))
    BY <1>4 DEF WriteQuestion
  <2> QED
    BY <1>1, <1>i, <1>r, <2>1
<1>5. CASE ReadHistory(w)
  <2>1. Inside /\ GotoStage(w, "generate")
    BY <1>5 DEF ReadHistory
  <2> QED
    BY <1>1, <1>i, <2>1
<1>6. CASE WorkflowReturns(w)
  <2>1. Inside /\ GotoStage(w, "deliver") /\ stage[w] \in Preparing
    BY <1>6 DEF WorkflowReturns, At, Preparing
  <2> QED
    BY <1>1, <1>i, <2>1
<1>7. CASE WorkflowRaises(w) \/ DeliveryFails(w)
  BY <1>7, <1>r DEF WorkflowRaises, DeliveryFails
<1>8. CASE DeliveryReturns(w)
  <2>1. Inside /\ GotoStage(w, "record") /\ stage[w] = "deliver"
    BY <1>8 DEF DeliveryReturns, At
  <2> QED
    BY <1>1, <1>i, <2>1
<1>9. CASE RecordAnswer(w)
  <2>1. Raise(w) \/ (Inside /\ GotoStage(w, "return"))
    BY <1>9 DEF RecordAnswer
  <2> QED
    BY <1>1, <1>i, <1>r, <2>1
<1>10. CASE PipelineReturns(w)
  <2>1. UNCHANGED <<cur, delivered, answers>> /\ GotoStage(w, "none")
    BY <1>10 DEF PipelineReturns, TakeAsAnswered, LeavePipeline
  <2> QED
    BY <1>1, <2>1
<1>11. CASE CrashPipeline(w)
  <2>1. cur \in [Workers -> Entry \cup {NoEntry}]
    BY DEF TypeOK, WorkerTypeOK
  <2>2. /\ UNCHANGED answers /\ stage' = [stage EXCEPT ![w] = "none"]
        /\ cur' = [cur EXCEPT ![w] = NoEntry] /\ delivered' = [delivered EXCEPT ![w] = FALSE]
    BY <1>11 DEF CrashPipeline, Crash, Release, LeavePipeline, GotoStage, history
  <2>3. ~Owes(w)' /\ \A v \in Workers \ {w} : cur'[v] = cur[v] /\ (Owes(v)' <=> Owes(v))
    BY <1>t, <2>1, <2>2 DEF Owes
  <2> QED
    BY <1>t, <2>2, <2>3
<1>12. CASE SendPart(w)
  <2>1. At(w, "deliver") /\ UNCHANGED <<stage, storeVars>>
    BY <1>12 DEF SendPart
  <2>2. CASE Inside
    <3>1. UNCHANGED <<cur, delivered, answers>>
      BY <1>i, <2>2
    <3> QED
      BY <2>1, <3>1 DEF Owes, At
  <2>3. CASE Deliver(w)
    <3>1. /\ ~delivered[w] /\ delivered' = [delivered EXCEPT ![w] = TRUE] /\ UNCHANGED cur
          /\ answers' = [answers EXCEPT ![cur[w].copy] = @ + 1]
      BY <2>3 DEF Deliver
    <3>2. \A v \in Workers \ {w} : delivered'[v] = delivered[v]
      BY <1>t, <3>1
    <3> QED
      BY <2>1, <3>1, <3>2 DEF Owes, At, storeVars
  <2> QED
    BY <1>12, <2>2, <2>3 DEF SendPart
<1> QED
  BY <1>2, <1>3, <1>4, <1>5, <1>6, <1>7, <1>8, <1>9, <1>10, <1>11, <1>12 DEF PipelineStep

(***************************************************************************)
(* The payloads are numbered up to the bound, those that a step adds too.  *)
(***************************************************************************)
LEMMA CopiesBounded == QueueTypeOK => Copies \subseteq 1..MaxCopies
BY LenProperties, QueueAssumption DEF QueueTypeOK, Copies

LEMMA LaterFields ==
    ASSUME QueueTypeOK', NEW k \in Copies'
    PROVE  log'[k].msg \in Messages /\ k \in 1..MaxCopies
<1>1. k \in 1..Len(log') /\ log' \in Seq(Payload) /\ Len(log') \in Nat /\ Len(log') <= MaxCopies
  BY LenProperties DEF Copies, QueueTypeOK
<1>2. log'[k] \in Payload
  BY <1>1, ElementOfSeq
<1>3. MaxCopies \in Nat
  BY QueueAssumption
<1> QED
  BY <1>1, <1>2, <1>3 DEF Payload

(***************************************************************************)
(* Outside the pipeline no answer is delivered, and the workers in it keep *)
(* what they have delivered.                                               *)
(***************************************************************************)
LEMMA OutsideKeeps ==
    ASSUME TypeOK, StagesKept, NEW w \in Workers, OutsideStep(w)
    PROVE  /\ UNCHANGED answers
           /\ \A v \in Workers : stage[v] # "none" => delivered'[v] = delivered[v]
<1>t. /\ delivered \in [Workers -> BOOLEAN]
      /\ \A v \in Workers : stage[v] # "none" => pc[v] = "process"
  BY DEF TypeOK, WorkerTypeOK, StagesKept
<1>1. CASE Start(w) \/ Recover(w) \/ DequeueMessage(w)
  BY <1>t, <1>1 DEF Start, Recover, DequeueMessage, history
<1>2. CASE CheckProcessed(w)
  BY <1>t, <1>2 DEF CheckProcessed, Release
<1>3. CASE MarkBestEffort(w)
  BY <1>t, <1>3 DEF MarkBestEffort
<1>4. CASE AckMessage(w) \/ RequeueMessage(w)
  BY <1>t, <1>4 DEF AckMessage, RequeueMessage, Release, history
<1> QED
  BY <1>1, <1>2, <1>3, <1>4 DEF OutsideStep

(***************************************************************************)
(* What the worker in the pipeline writes is a document of a payload.      *)
(***************************************************************************)
LEMMA HeldDocuments ==
    ASSUME SafetyInv, NEW w \in Workers, pc[w] = "process", NEW c, c = cur[w].copy
    PROVE  /\ c \in Copies /\ ConversationOfCopy(c) \in Conversations
           /\ Question(c) \in Document /\ AssistantDocument(c) \in Document
           /\ Question(c).role = "user" /\ Question(c).copy = c
           /\ AssistantDocument(c).copy = c
<1>1. c \in Copies
  BY DEF SafetyInv, EntriesLogged, Holding
<1>2. log[c].msg \in Messages /\ c \in Nat
  BY <1>1, LogFields DEF SafetyInv, TypeOK
<1> QED
  BY <1>1, <1>2, PipelineAssumption
     DEF ConversationOfCopy, Question, UserDocument, AssistantDocument, Document

(***************************************************************************)
(* A store step leaves a conversation with at most one more answer, that   *)
(* of the document it may have stored.                                     *)
(***************************************************************************)
LEMMA StoredAnswers ==
    ASSUME StoreTyped, StoreTyped', NEW conv \in Conversations, NEW c, NEW doc \in Document,
           \/ PieceOf(documents[conv], documents'[conv])
           \/ conv = ConversationOfCopy(c) /\ PieceOf(Append(documents[conv], doc), documents'[conv]),
           NEW k
    PROVE  /\ Cardinality(AnswersIn(documents[conv], k)) \in Nat
           /\ Cardinality(AnswersIn(documents'[conv], k)) \in Nat
           /\ Cardinality(AnswersIn(documents'[conv], k)) <= Cardinality(AnswersIn(documents[conv], k))
                  + IF doc.role = "assistant" /\ doc.copy = k THEN 1 ELSE 0
           /\ \A i \in DOMAIN documents'[conv] :
                 \/ documents'[conv][i] = doc
                 \/ \E j \in DOMAIN documents[conv] : documents'[conv][i] = documents[conv][j]
<1> DEFINE s == documents[conv]
           t == documents'[conv]
<1>1. s \in Seq(Document) /\ t \in Seq(Document)
  BY DEF StoreTyped
<1>2. /\ Append(s, doc) \in Seq(Document)
      /\ Cardinality(AnswersIn(Append(s, doc), k)) =
            Cardinality(AnswersIn(s, k)) + IF doc.role = "assistant" /\ doc.copy = k THEN 1 ELSE 0
  BY <1>1, AppendedAnswers
<1>3. Cardinality(AnswersIn(s, k)) \in Nat /\ Cardinality(AnswersIn(t, k)) \in Nat
  BY <1>1, AnswersFinite
<1>4. \/ PieceOf(s, t) /\ Cardinality(AnswersIn(t, k)) <= Cardinality(AnswersIn(s, k))
      \/ /\ PieceOf(Append(s, doc), t)
         /\ Cardinality(AnswersIn(t, k)) <= Cardinality(AnswersIn(Append(s, doc), k))
  <2> HIDE DEF s, t
  <2>1. PieceOf(s, t) \/ PieceOf(Append(s, doc), t)
    BY DEF s, t
  <2>2. PieceOf(s, t) => Cardinality(AnswersIn(t, k)) <= Cardinality(AnswersIn(s, k))
    BY <1>1, PieceAnswers
  <2>3. PieceOf(Append(s, doc), t)
           => Cardinality(AnswersIn(t, k)) <= Cardinality(AnswersIn(Append(s, doc), k))
    BY <1>1, <1>2, PieceAnswers
  <2> QED
    BY <2>1, <2>2, <2>3
<1>5. ASSUME NEW i \in DOMAIN t PROVE t[i] = doc \/ \E j \in DOMAIN s : t[i] = s[j]
  <2> HIDE DEF s, t
  <2>1. CASE PieceOf(s, t)
    BY <1>5, <2>1 DEF PieceOf
  <2>2. CASE PieceOf(Append(s, doc), t)
    <3>1. PICK j \in DOMAIN Append(s, doc) : t[i] = Append(s, doc)[j]
      BY <1>5, <2>2 DEF PieceOf
    <3>2. j \in 1..(Len(s) + 1) /\ DOMAIN s = 1..Len(s) /\ Len(s) \in Nat
      BY <1>1, <3>1, AppendProperties, LenProperties
    <3>3. j \in DOMAIN s => Append(s, doc)[j] = s[j]
      BY <1>1, <3>2, AppendProperties
    <3>4. j = Len(s) + 1 => Append(s, doc)[j] = doc
      BY <1>1, AppendProperties
    <3> QED
      BY <3>1, <3>2, <3>3, <3>4
  <2> QED
    BY <1>4, <2>1, <2>2
<1>6. Cardinality(AnswersIn(t, k)) <= Cardinality(AnswersIn(s, k))
         + IF doc.role = "assistant" /\ doc.copy = k THEN 1 ELSE 0
  BY <1>2, <1>3, <1>4
<1> QED
  BY <1>3, <1>5, <1>6

(***************************************************************************)
(* So does a step of the pipeline.                                         *)
(***************************************************************************)
LEMMA StepClaimed ==
    ASSUME SafetyInv, StagesKept, Claimed, NEW w \in Workers, PipelineStep(w), UNCHANGED log
    PROVE  Claimed'
<1>0. PICK c : c = cur[w].copy
  OBVIOUS
<1>1. /\ TypeOK /\ StoreTyped /\ Copies' = Copies
      /\ \A k : ConversationOfCopy(k)' = ConversationOfCopy(k)
      /\ \A k : AnswersOf(k) = AnswersIn(documents[ConversationOfCopy(k)], k)
      /\ \A k : AnswersOf(k)' = AnswersIn(documents'[ConversationOfCopy(k)], k)
      /\ \A k \in Copies : ConversationOfCopy(k) \in Conversations
      /\ answers \in [1..MaxCopies -> Nat] /\ Copies \subseteq 1..MaxCopies
  <2>1. TypeOK /\ StoreTyped
    BY DEF SafetyInv, Claimed
  <2>2. \A k \in Copies : log[k].msg \in Messages /\ k \in 1..MaxCopies
    BY <2>1, LogFields, CopiesBounded DEF TypeOK
  <2> QED
    BY <2>1, <2>2, PipelineAssumption
       DEF ConversationOfCopy, Copies, AnswersOf, AnswersIn, TypeOK, WorkerTypeOK
<1>2. pc[w] = "process" =>
         /\ c \in Copies /\ ConversationOfCopy(c) \in Conversations
         /\ Question(c) \in Document /\ AssistantDocument(c) \in Document
         /\ Question(c).role = "user" /\ Question(c).copy = c
         /\ AssistantDocument(c).copy = c
  BY <1>0, HeldDocuments
<1>3. /\ StoreTyped'
      /\ \/ StoresNothing
         \/ stage[w] \in {"store", "write"} /\ MayStore(c, Question(c))
         \/ stage[w] = "record" /\ MayStore(c, AssistantDocument(c))
  BY <1>0, <1>1, <1>2, StepDocuments
<1>4. stage[w] \in {"store", "write", "record"} => pc[w] = "process"
  BY DEF StagesKept
\* At most one answer more, and that of the payload in hand.
<1>5. PICK doc \in Document :
         /\ \A k \in Conversations :
               \/ PieceOf(documents[k], documents'[k])
               \/ k = ConversationOfCopy(c) /\ PieceOf(Append(documents[k], doc), documents'[k])
         /\ StoresNothing \/ doc.copy \in Copies
         /\ doc.role = "user" \/ (stage[w] = "record" /\ doc.copy = c)
  <2>1. CASE StoresNothing
    <3>1. UserDocument(EmptyId, 0) \in Document /\ UserDocument(EmptyId, 0).role = "user"
      BY DEF UserDocument, Document
    <3> QED
      BY <2>1, <3>1 DEF StoresNothing
  <2>2. CASE stage[w] \in {"store", "write"} /\ MayStore(c, Question(c))
    BY <1>2, <1>4, <2>2 DEF MayStore
  <2>3. CASE stage[w] = "record" /\ MayStore(c, AssistantDocument(c))
    BY <1>2, <1>4, <2>3 DEF MayStore
  <2> QED
    BY <1>3, <2>1, <2>2, <2>3
<1>6. \A conv \in Conversations : \A i \in DOMAIN documents'[conv] : documents'[conv][i].copy \in Copies
  <2> SUFFICES ASSUME NEW conv \in Conversations, NEW i \in DOMAIN documents'[conv]
               PROVE  documents'[conv][i].copy \in Copies
    OBVIOUS
  <2>1. CASE StoresNothing
    <3>1. PieceOf(documents[conv], documents'[conv])
      BY <2>1 DEF StoresNothing
    <3>2. PICK j \in DOMAIN documents[conv] : documents'[conv][i] = documents[conv][j]
      BY <3>1 DEF PieceOf
    <3> QED
      BY <3>2 DEF Claimed
  <2>2. CASE doc.copy \in Copies
    <3>1. \/ documents'[conv][i] = doc
          \/ \E j \in DOMAIN documents[conv] : documents'[conv][i] = documents[conv][j]
      BY <1>1, <1>3, <1>5, StoredAnswers
    <3> QED
      BY <2>2, <3>1 DEF Claimed
  <2> QED
    BY <1>5, <2>1, <2>2
<1>7. ASSUME NEW k \in Copies
      PROVE  /\ IsFiniteSet(Owing(k)')
             /\ Cardinality(AnswersOf(k)') + Cardinality(Owing(k)') <= answers'[k]
  <2> DEFINE more == IF doc.role = "assistant" /\ doc.copy = k THEN 1 ELSE 0
             a  == Cardinality(AnswersOf(k))
             a1 == Cardinality(AnswersOf(k)')
  <2>1. a \in Nat /\ a1 \in Nat /\ a1 <= a + more
    BY <1>1, <1>3, <1>5, StoredAnswers
  <2>2. IsFiniteSet(Owing(k)) /\ Cardinality(Owing(k)) \in Nat /\ a + Cardinality(Owing(k)) <= answers[k]
    BY FS_CardinalityType DEF Claimed
  <2>3. answers[k] \in Nat /\ more \in {0, 1}
    BY <1>1
  <2>4. CASE /\ UNCHANGED answers
             /\ \A v \in Workers : Owes(v)' => Owes(v) /\ cur'[v] = cur[v]
             /\ stage[w] = "record" => Owes(w) /\ ~Owes(w)'
    <3>1. Owing(k)' \in SUBSET Owing(k)
      BY <2>4 DEF Owing
    <3>2. IsFiniteSet(Owing(k)') /\ Cardinality(Owing(k)') \in Nat /\ Cardinality(Owing(k)') <= Cardinality(Owing(k))
      BY <2>2, <3>1, FS_Subset, FS_CardinalityType
    <3>3. CASE more = 0
      BY <2>1, <2>2, <2>3, <2>4, <3>2, <3>3
    <3>4. CASE more = 1
      <4>1. k = c /\ w \in Owing(k) /\ w \notin Owing(k)'
        <5>1. doc.role = "assistant" /\ doc.copy = k
          BY <3>4
        <5>2. stage[w] = "record" /\ k = c
          BY <1>5, <5>1
        <5> QED
          BY <1>0, <2>4, <5>2 DEF Owing
      <4>2. Cardinality(Owing(k)') # Cardinality(Owing(k))
        BY <2>2, <3>1, <4>1, FS_Subset
      <4>3. Cardinality(Owing(k)') + 1 <= Cardinality(Owing(k))
        BY <2>2, <3>2, <4>2
      <4> QED
        BY <2>1, <2>2, <2>3, <2>4, <3>2, <3>4, <4>3
    <3> QED
      BY <2>3, <3>3, <3>4
  <2>5. CASE /\ pc[w] = "process" /\ stage[w] = "deliver" /\ ~Owes(w)
             /\ answers' = [answers EXCEPT ![cur[w].copy] = @ + 1]
             /\ UNCHANGED <<cur, documents, backend>>
             /\ \A v \in Workers \ {w} : Owes(v)' => Owes(v)
    <3>1. a1 = a
      BY <1>1, <2>5
    <3>2. c \in 1..MaxCopies /\ answers'[k] = IF k = c THEN answers[k] + 1 ELSE answers[k]
      BY <1>0, <1>1, <1>2, <2>5
    <3>3. CASE k = c
      <4>1. Owing(k)' \in SUBSET (Owing(k) \cup {w})
        BY <2>5 DEF Owing
      <4>2. IsFiniteSet(Owing(k) \cup {w}) /\ Cardinality(Owing(k) \cup {w}) = Cardinality(Owing(k)) + 1
        <5>1. w \notin Owing(k)
          BY <2>5 DEF Owing
        <5> QED
          BY <2>2, <5>1, FS_AddElement
      <4>3. /\ IsFiniteSet(Owing(k)') /\ Cardinality(Owing(k)') \in Nat
            /\ Cardinality(Owing(k)') <= Cardinality(Owing(k)) + 1
        BY <4>1, <4>2, FS_Subset, FS_CardinalityType
      <4> QED
        BY <2>1, <2>2, <2>3, <3>1, <3>2, <3>3, <4>3
    <3>4. CASE k # c
      <4>1. Owing(k)' \in SUBSET Owing(k)
        BY <1>0, <2>5, <3>4 DEF Owing
      <4>2. /\ IsFiniteSet(Owing(k)') /\ Cardinality(Owing(k)') \in Nat
            /\ Cardinality(Owing(k)') <= Cardinality(Owing(k))
        BY <2>2, <4>1, FS_Subset, FS_CardinalityType
      <4> QED
        BY <2>1, <2>2, <2>3, <3>1, <3>2, <3>4, <4>2
    <3> QED
      BY <3>3, <3>4
  <2> QED
    BY <1>1, <2>4, <2>5, StepOwes
<1> QED
  BY <1>1, <1>3, <1>6, <1>7 DEF Claimed

(***************************************************************************)
(* And every other step.                                                   *)
(***************************************************************************)
LEMMA NextClaimed ==
    ASSUME SafetyInv, TypeOK', StagesKept, Claimed, [PipelineNext]_allVars
    PROVE  Claimed'
<1>t. TypeOK
  BY DEF SafetyInv
<1>1. Copies \subseteq Copies' /\ \A k \in Copies : log'[k] = log[k]
  BY <1>t, StepIsMessaging, LogGrows
<1>2. ASSUME NEW w \in Workers, PipelineStep(w) PROVE Claimed'
  BY <1>2, PipelineKeepsLog, StepClaimed
<1>3. ASSUME UNCHANGED <<storeVars, stage, answers>>,
             \A v \in Workers : stage[v] # "none" => cur'[v] = cur[v] /\ delivered'[v] = delivered[v]
      PROVE  Claimed'
  <2>1. UNCHANGED <<documents, backend>>
    BY <1>3 DEF storeVars
  <2>2. \A v \in Workers : Owes(v)' => Owes(v) /\ cur'[v] = cur[v] /\ cur[v].copy \in Copies
    BY <1>3 DEF Owes, SafetyInv, EntriesLogged, Holding, StagesKept
  <2>3. ASSUME NEW k \in Copies'
        PROVE  /\ IsFiniteSet(Owing(k)')
               /\ Cardinality(AnswersOf(k)') + Cardinality(Owing(k)') <= answers'[k]
    <3>1. CASE k \in Copies
      <4>1. AnswersOf(k)' = AnswersOf(k)
        BY <1>1, <2>1, <3>1 DEF AnswersOf, ConversationOfCopy
      <4>2. Owing(k)' \in SUBSET Owing(k) /\ IsFiniteSet(Owing(k))
        BY <2>2, <3>1 DEF Owing, Claimed
      <4>3. /\ IsFiniteSet(Owing(k)') /\ Cardinality(Owing(k)') \in Nat /\ Cardinality(Owing(k)) \in Nat
            /\ Cardinality(Owing(k)') <= Cardinality(Owing(k))
        BY <4>2, FS_Subset, FS_CardinalityType
      <4>4. Cardinality(AnswersOf(k)) + Cardinality(Owing(k)) <= answers[k]
        BY <3>1 DEF Claimed
      <4>5. Cardinality(AnswersOf(k)) \in Nat /\ answers[k] \in Nat
        <5>1. documents[ConversationOfCopy(k)] \in Seq(Document)
          <6>1. log[k].msg \in Messages
            BY <1>t, <3>1, LogFields DEF TypeOK
          <6> QED
            BY <6>1, PipelineAssumption DEF ConversationOfCopy, Claimed, StoreTyped
        <5>2. AnswersOf(k) = AnswersIn(documents[ConversationOfCopy(k)], k)
          BY DEF AnswersOf, AnswersIn
        <5>3. k \in 1..MaxCopies /\ answers \in [1..MaxCopies -> Nat]
          BY <1>t, <3>1, CopiesBounded DEF TypeOK, WorkerTypeOK
        <5> QED
          BY <5>1, <5>2, <5>3, AnswersFinite
      <4> QED
        BY <1>3, <4>1, <4>3, <4>4, <4>5
    <3>2. CASE k \notin Copies
      <4>1. log'[k].msg \in Messages /\ k \in 1..MaxCopies
        <5>1. QueueTypeOK'
          BY DEF TypeOK
        <5>2. QueueTypeOK' /\ k \in Copies' => log'[k].msg \in Messages /\ k \in 1..MaxCopies
          BY LaterFields
        <5> QED
          BY <5>1, <5>2
      <4>2. ConversationOfCopy(k)' \in Conversations
        BY <4>1, PipelineAssumption DEF ConversationOfCopy
      <4>3. AnswersOf(k)' = {}
        BY <2>1, <3>2, <4>2 DEF AnswersOf, Claimed
      <4>4. Owing(k)' = {}
        BY <2>2, <3>2 DEF Owing
      <4>5. answers'[k] \in Nat
        BY <1>3, <1>t, <4>1 DEF TypeOK, WorkerTypeOK
      <4> QED
        BY <4>3, <4>4, <4>5, FS_EmptySet
    <3> QED
      BY <3>1, <3>2
  <2> QED
    BY <1>1, <2>1, <2>3 DEF Claimed, StoreTyped
<1>4. ASSUME NEW w \in Workers, OutsideStep(w), UNCHANGED <<storeVars, pipelineVars>>
      PROVE  Claimed'
  <2>1. /\ UNCHANGED stage
        /\ \A v \in Workers : stage[v] # "none" => cur'[v] = cur[v]
    BY <1>t, <1>4, OutsideConcludes
  <2>2. UNCHANGED answers /\ \A v \in Workers : stage[v] # "none" => delivered'[v] = delivered[v]
    BY <1>t, <1>4, OutsideKeeps
  <2> QED
    BY <1>3, <1>4, <2>1, <2>2
<1>5. ASSUME UNCHANGED <<workerVars, storeVars, pipelineVars>> PROVE Claimed'
  BY <1>3, <1>5 DEF workerVars, pipelineVars
<1>6. ASSUME NEW m \in Messages, AcceptCubeMessage(m) PROVE UNCHANGED workerVars
  BY <1>6 DEF AcceptCubeMessage
<1> QED
  BY <1>2, <1>4, <1>5, <1>6 DEF PipelineNext, allVars, vars

----------------------------------------------------------------------------
(* The question comes before the answer.                                   *)

\* Every stored answer of payload c stands behind its question.
Behind(c) ==
    \A i \in AnswersOf(c) : \E j \in 1..(i - 1) :
        LET d == documents[ConversationOfCopy(c)][j]
        IN  d.role = "user" /\ log[d.copy].msg = log[c].msg

AnswersBehind == backend # "memory" => \A c \in Copies : Behind(c)

(***************************************************************************)
(* A question added to a conversation, or an answer whose question is      *)
(* there, leaves no answer without the question before it.                 *)
(***************************************************************************)
LEMMA AddsBehind ==
    ASSUME TypeOK, StoreTyped, NEW c \in Copies, ConversationOfCopy(c) \in Conversations,
           NEW doc \in Document, Adds(c, doc), UNCHANGED log,
           doc.role = "assistant" => doc.copy = c /\ QuestionStored(c),
           NEW k \in Copies, Behind(k)
    PROVE  Behind(k)'
<1> DEFINE own  == ConversationOfCopy(c)
           docs == documents[own]
           more == Append(docs, doc)
<1>1. /\ docs \in Seq(Document) /\ Len(docs) \in Nat
      /\ DOMAIN docs = 1..Len(docs) /\ DOMAIN more = 1..(Len(docs) + 1)
      /\ \A i \in 1..Len(docs) : more[i] = docs[i]
      /\ more[Len(docs) + 1] = doc
  <2>1. docs \in Seq(Document)
    BY DEF StoreTyped
  <2> QED
    BY <2>1, AppendProperties, LenProperties
<1>2. documents' = [documents EXCEPT ![own] = more]
  BY DEF Adds
<1> HIDE DEF more
<1>3. documents'[own] = more /\ \A conv \in Conversations \ {own} : documents'[conv] = documents[conv]
  BY <1>2 DEF StoreTyped
<1>4. ConversationOfCopy(k)' = ConversationOfCopy(k) /\ ConversationOfCopy(k) \in Conversations
  <2>1. log[k].msg \in Messages
    BY LogFields DEF TypeOK
  <2> QED
    BY <2>1, PipelineAssumption DEF ConversationOfCopy
<1>5. CASE ConversationOfCopy(k) # own
  <2>1. documents'[ConversationOfCopy(k)] = documents[ConversationOfCopy(k)]
    BY <1>3, <1>4, <1>5
  <2> QED
    BY <1>4, <2>1 DEF Behind, AnswersOf
<1>6. CASE ConversationOfCopy(k) = own
  <2> SUFFICES ASSUME NEW i \in DOMAIN more, more[i].role = "assistant", more[i].copy = k
               PROVE  \E j \in 1..(i - 1) : more[j].role = "user" /\ log[more[j].copy].msg = log[k].msg
    BY <1>3, <1>4, <1>6 DEF Behind, AnswersOf
  <2>1. CASE i \in 1..Len(docs)
    <3>1. i \in AnswersOf(k)
      BY <1>1, <1>6, <2>1 DEF AnswersOf
    <3>2. PICK j \in 1..(i - 1) : docs[j].role = "user" /\ log[docs[j].copy].msg = log[k].msg
      BY <1>6, <3>1 DEF Behind
    <3>3. j \in 1..Len(docs)
      BY <1>1, <2>1
    <3> QED
      BY <1>1, <3>2, <3>3
  <2>2. CASE i = Len(docs) + 1
    <3>1. k = c /\ QuestionStored(c)
      BY <1>1, <2>2
    <3>2. PICK d \in DocumentsOf(c) : d.role = "user" /\ log[d.copy].msg = log[c].msg
      BY <3>1 DEF QuestionStored
    <3>3. PICK j \in 1..Len(docs) : docs[j] = d
      BY <1>1, <3>2 DEF DocumentsOf, ToSet
    <3>4. j \in 1..(i - 1)
      BY <1>1, <2>2, <3>3
    <3> QED
      BY <1>1, <3>1, <3>2, <3>3, <3>4
  <2> QED
    BY <1>1, <2>1, <2>2
<1> QED
  BY <1>5, <1>6

(***************************************************************************)
(* An answer is stored by a worker whose question is stored.               *)
(***************************************************************************)
LEMMA NextInOrder ==
    ASSUME SafetyInv, StagesKept, Recorded, Claimed, AnswersBehind, [PipelineNext]_allVars
    PROVE  AnswersBehind'
<1>t. /\ TypeOK /\ StoreTyped
      /\ \A k \in Copies : ConversationOfCopy(k) \in Conversations
  <2>1. TypeOK /\ StoreTyped
    BY DEF SafetyInv, Claimed
  <2>2. \A k \in Copies : log[k].msg \in Messages
    BY <2>1, LogFields DEF TypeOK
  <2> QED
    BY <2>1, <2>2, PipelineAssumption DEF ConversationOfCopy
<1>1. Copies \subseteq Copies' /\ \A k \in Copies : log'[k] = log[k]
  BY <1>t, StepIsMessaging, LogGrows
<1>2. ASSUME NEW w \in Workers, PipelineStep(w), backend' # "memory", NEW k \in Copies'
      PROVE  Behind(k)'
  <2>0. PICK c : c = cur[w].copy
    OBVIOUS
  <2>1. UNCHANGED log /\ UNCHANGED backend /\ k \in Copies /\ Behind(k)
    <3>1. UNCHANGED log
      BY <1>2, PipelineKeepsLog
    <3>2. UNCHANGED backend
      BY <1>t, <1>2, BackendFixed DEF StoreTyped
    <3> QED
      BY <1>2, <3>1, <3>2 DEF Copies, AnswersBehind
  <2>2. Lasting
    BY <1>t, <1>2, <2>1, StoreAssumption DEF StoreTyped, Lasting
  <2>3. \/ UNCHANGED documents
        \/ /\ pc[w] = "process"
           /\ Adds(c, Question(c)) \/ (stage[w] = "record" /\ Adds(c, AssistantDocument(c)))
    BY <1>t, <1>2, <2>0, <2>2, StepStores
  <2>4. CASE UNCHANGED documents
    <3>1. ConversationOfCopy(k)' = ConversationOfCopy(k)
      BY <2>1 DEF ConversationOfCopy
    <3>2. AnswersOf(k)' = AnswersOf(k)
      BY <2>4, <3>1 DEF AnswersOf
    <3> QED
      BY <2>1, <2>4, <3>1, <3>2 DEF Behind
  <2>5. ASSUME pc[w] = "process"
        PROVE  /\ c \in Copies /\ Question(c) \in Document /\ AssistantDocument(c) \in Document
               /\ Question(c).role = "user" /\ AssistantDocument(c).copy = c
    <3>1. SafetyInv /\ w \in Workers /\ pc[w] = "process" /\ c = cur[w].copy
      BY <1>2, <2>0, <2>5
    <3> QED
      BY <3>1, HeldDocuments
  <2>6. CASE pc[w] = "process" /\ Adds(c, Question(c))
    BY <1>t, <2>1, <2>5, <2>6, AddsBehind
  <2>7. CASE pc[w] = "process" /\ stage[w] = "record" /\ Adds(c, AssistantDocument(c))
    <3>1. QuestionStored(c)
      BY <1>2, <2>0, <2>1, <2>5, <2>7 DEF Recorded, QuestionStages
    <3> QED
      BY <1>t, <2>1, <2>5, <2>7, <3>1, AddsBehind
  <2> QED
    BY <2>3, <2>4, <2>6, <2>7
<1>3. ASSUME UNCHANGED storeVars, backend' # "memory", NEW k \in Copies' PROVE Behind(k)'
  <2>1. UNCHANGED <<documents, backend>>
    BY <1>3 DEF storeVars
  <2>2. CASE k \in Copies
    <3> DEFINE docs == documents[ConversationOfCopy(k)]
    <3>1. ConversationOfCopy(k)' = ConversationOfCopy(k)
      BY <1>1, <2>2 DEF ConversationOfCopy
    <3>2. \A j \in DOMAIN docs : log'[docs[j].copy] = log[docs[j].copy]
      BY <1>1, <1>t, <2>2 DEF Claimed
    <3>3. Behind(k) /\ docs \in Seq(Document)
      BY <1>3, <1>t, <2>1, <2>2 DEF AnswersBehind, StoreTyped
    <3>4. \A i \in AnswersOf(k) : \A j \in 1..(i - 1) : j \in DOMAIN docs
      BY <3>3, LenProperties DEF AnswersOf
    <3>5. AnswersOf(k)' = AnswersOf(k)
      BY <2>1, <3>1 DEF AnswersOf
    <3>6. \A i \in AnswersOf(k) : \A j \in 1..(i - 1) : log'[docs[j].copy] = log[docs[j].copy]
      BY <3>2, <3>4
    <3>7. docs' = docs /\ log'[k] = log[k]
      BY <1>1, <2>1, <2>2, <3>1
    <3> QED
      BY <3>1, <3>3, <3>5, <3>6, <3>7 DEF Behind
  <2>3. CASE k \notin Copies
    <3>1. ConversationOfCopy(k)' \in Conversations
      <4>1. QueueTypeOK' /\ k \in Copies'
        BY <1>t, <1>3, StepIsMessaging, NextTyped DEF TypeOK
      <4>2. log'[k].msg \in Messages
        BY <4>1, LaterFields
      <4> QED
        BY <4>2, PipelineAssumption DEF ConversationOfCopy
    <3>2. AnswersOf(k)' = {}
      BY <2>1, <2>3, <3>1 DEF AnswersOf, Claimed
    <3> QED
      BY <3>2 DEF Behind
  <2> QED
    BY <2>2, <2>3
<1>4. ASSUME UNCHANGED allVars PROVE UNCHANGED storeVars
  BY <1>4 DEF allVars
<1> QED
  BY <1>2, <1>3, <1>4 DEF PipelineNext, AnswersBehind

LEMMA InitClaimed == PipelineInit => Claimed /\ AnswersBehind
<1> SUFFICES ASSUME PipelineInit PROVE Claimed /\ AnswersBehind
  OBVIOUS
<1>1. TypeOK
  BY InitTyped DEF PipelineInit
<1>2. documents = [k \in Conversations |-> <<>>] /\ StoreTyped
  BY DEF PipelineInit, StoreInit, StoreTyped
<1>3. \A k \in Conversations : DOMAIN documents[k] = {}
  BY <1>2
<1>4. \A c \in Copies : AnswersOf(c) = {}
  <2> SUFFICES ASSUME NEW c \in Copies PROVE AnswersOf(c) = {}
    OBVIOUS
  <2>1. log[c].msg \in Messages
    BY <1>1, LogFields DEF TypeOK
  <2> QED
    BY <1>3, <2>1, PipelineAssumption DEF AnswersOf, ConversationOfCopy
<1>5. \A c \in Copies : Owing(c) = {} /\ answers[c] = 0
  <2>1. Copies \subseteq 1..MaxCopies
    BY <1>1, CopiesBounded DEF TypeOK
  <2> QED
    BY <2>1 DEF PipelineInit, Init, WorkerInit, Owing, Owes
<1>6. Claimed
  <2>1. ASSUME NEW c \in Copies
        PROVE  IsFiniteSet(Owing(c)) /\ Cardinality(AnswersOf(c)) + Cardinality(Owing(c)) <= answers[c]
    <3>1. Owing(c) = {} /\ AnswersOf(c) = {} /\ answers[c] = 0
      BY <1>4, <1>5
    <3>2. IsFiniteSet({}) /\ Cardinality({}) = 0
      BY FS_EmptySet
    <3> QED
      BY <3>1, <3>2
  <2> QED
    BY <1>2, <1>3, <2>1 DEF Claimed
<1> QED
  BY <1>4, <1>6 DEF AnswersBehind, Behind

LEMMA ClaimedCounts ==
    ASSUME SafetyInv, Claimed, NEW c \in Copies
    PROVE  Cardinality(AnswersOf(c)) <= answers[c]
<1>1. TypeOK
  BY DEF SafetyInv
<1>2. documents[ConversationOfCopy(c)] \in Seq(Document)
  <2>1. log[c].msg \in Messages
    BY <1>1, LogFields DEF TypeOK
  <2> QED
    BY <2>1, PipelineAssumption DEF ConversationOfCopy, Claimed, StoreTyped
<1>3. AnswersOf(c) = AnswersIn(documents[ConversationOfCopy(c)], c)
  BY DEF AnswersOf, AnswersIn
<1>4. c \in 1..MaxCopies /\ answers \in [1..MaxCopies -> Nat]
  BY <1>1, CopiesBounded DEF TypeOK, WorkerTypeOK
<1>5. Cardinality(AnswersOf(c)) \in Nat /\ Cardinality(Owing(c)) \in Nat /\ answers[c] \in Nat
  BY <1>2, <1>3, <1>4, AnswersFinite, FS_CardinalityType DEF Claimed
<1> QED
  BY <1>5 DEF Claimed

(***************************************************************************)
(* However often a message is tried, sent again or recovered, by however   *)
(* many workers, and whatever the store trims: the history has no more     *)
(* answers to a payload than the user was given.                           *)
(***************************************************************************)
THEOREM AnswersWereGiven ==
    PipelineSpec => [](\A c \in Copies : Cardinality(AnswersOf(c)) <= answers[c])
<1> DEFINE Given == \A c \in Copies : Cardinality(AnswersOf(c)) <= answers[c]
<1>1. PipelineInit => SafetyInv /\ StagesKept /\ Claimed
  BY InitSafe, InitStages, InitClaimed DEF PipelineInit
<1>2. SafetyInv /\ StagesKept /\ Claimed /\ [PipelineNext]_allVars
         => SafetyInv' /\ StagesKept' /\ Claimed'
  <2> SUFFICES ASSUME SafetyInv, StagesKept, Claimed, [PipelineNext]_allVars
               PROVE  SafetyInv' /\ StagesKept' /\ Claimed'
    OBVIOUS
  <2>1. TypeOK
    BY DEF SafetyInv
  <2>2. SafetyInv' /\ StagesKept'
    BY <2>1, StepIsMessaging, NextSafe, NextStages
  <2>3. TypeOK'
    BY <2>2 DEF SafetyInv
  <2> QED
    BY <2>2, <2>3, NextClaimed
<1>3. SafetyInv /\ Claimed => Given
  BY ClaimedCounts
<1> QED
  BY <1>1, <1>2, <1>3, PTL DEF PipelineSpec

(***************************************************************************)
(* When every message has an id, each of these answers stands behind its   *)
(* question, in every store that outlives the process.                     *)
(***************************************************************************)
THEOREM HistoryTrue ==
    ASSUME Anonymous = {}
    PROVE  PipelineSpec => []HistoryTruthful
<1> DEFINE Inv == SafetyInv /\ StagesKept /\ Recorded /\ Claimed /\ AnswersBehind
<1>1. PipelineInit => Inv
  BY InitSafe, InitStages, InitRecorded, InitClaimed DEF PipelineInit
<1>2. Inv /\ [PipelineNext]_allVars => Inv'
  <2> SUFFICES ASSUME SafetyInv, StagesKept, Recorded, Claimed, AnswersBehind, [PipelineNext]_allVars
               PROVE  SafetyInv' /\ StagesKept' /\ Recorded' /\ Claimed' /\ AnswersBehind'
    OBVIOUS
  <2>1. TypeOK
    BY DEF SafetyInv
  <2>2. SafetyInv' /\ StagesKept'
    BY <2>1, StepIsMessaging, NextSafe, NextStages
  <2>3. TypeOK'
    BY <2>2 DEF SafetyInv
  <2>4. Recorded'
    BY <2>3, NextRecorded
  <2> QED
    BY <2>2, <2>3, <2>4, NextClaimed, NextInOrder
<1>3. Inv => HistoryTruthful
  <2> SUFFICES ASSUME SafetyInv, Claimed, AnswersBehind PROVE HistoryTruthful
    OBVIOUS
  <2>1. \A c \in Copies : Cardinality(AnswersOf(c)) <= answers[c]
    BY ClaimedCounts
  <2> QED
    BY <2>1 DEF HistoryTruthful, AnswersBehind, Behind
<1> QED
  BY <1>1, <1>2, <1>3, PTL DEF PipelineSpec

----------------------------------------------------------------------------
(* The question left out of the prompt.                                    *)

\* The message is handled for the first time.
FirstTime(w) ==
    /\ runs[cur[w].copy] = 1
    /\ \A c \in Copies \ {cur[w].copy} : log[c].msg = log[cur[w].copy].msg => runs[c] = 0

\* A stored question is that of a payload that was handled, before this time
\* if a worker is about to store it; after that it is the newest document.
AskedBefore(d) ==
    /\ d.copy \in Copies /\ d = Question(d.copy) /\ runs[d.copy] >= 1
    /\ \A w \in Workers :
          stage[w] \in {"store", "write"} /\ cur[w].copy = d.copy => runs[d.copy] >= 2

Asked ==
    /\ StoreTyped /\ DOMAIN omitted = Workers
    /\ \A conv \in Conversations : \A i \in DOMAIN documents[conv] :
          documents[conv][i].role = "user" => AskedBefore(documents[conv][i])
    /\ \A w \in Workers :
          /\ stage[w] \in {"store", "write"} => runs[cur[w].copy] >= 1
          /\ stage[w] = "workflow" /\ FirstTime(w) =>
                /\ documents[Here(w)] # <<>>
                /\ Last(documents[Here(w)]) = Question(cur[w].copy)
          /\ stage[w] = "generate" /\ FirstTime(w) => omitted[w] = cur[w].copy

(***************************************************************************)
(* A payload is counted as handled when its worker enters the pipeline.    *)
(***************************************************************************)
LEMMA StepRuns ==
    ASSUME TypeOK, StagesKept, NEW w \in Workers, PipelineStep(w)
    PROVE  \/ /\ UNCHANGED runs
              /\ stage'[w] \in {"store", "write"} =>
                    stage[w] \in {"store", "write"} /\ UNCHANGED <<documents, cur, backend>>
           \/ /\ UNCHANGED <<documents, cur, backend>> /\ stage'[w] = "store"
              /\ pc[w] = "stale"
              /\ runs' = [runs EXCEPT ![cur[w].copy] = @ + 1]
<1>t. stage \in [Workers -> Stages] /\ pc \in [Workers -> Locations]
  BY DEF TypeOK, WorkerTypeOK, StagesKept
<1>i. ASSUME Inside PROVE UNCHANGED <<cur, runs>>
  BY <1>i DEF Inside, vars, workerVars
<1>g. ASSUME NEW s, GotoStage(w, s) PROVE stage'[w] = s
  BY <1>t, <1>g DEF GotoStage
<1>r. ASSUME Raise(w) PROVE UNCHANGED runs /\ stage'[w] = "none"
  BY <1>g, <1>r DEF Raise, ProcessRaises, LeavePipeline
<1>2. CASE EnterPipeline(w)
  <2>1. UNCHANGED <<documents, cur, backend>> /\ pc[w] = "stale"
    BY <1>2 DEF EnterPipeline, CheckStale, storeVars
  <2>2. CASE IsStale(cur[w].copy)
    <3>1. UNCHANGED runs /\ pc'[w] = "ack"
      BY <1>t, <1>2, <2>2 DEF EnterPipeline, CheckStale, Goto
    <3>2. stage'[w] = "none"
      BY <1>2, <1>g, <3>1 DEF EnterPipeline
    <3> QED
      BY <3>1, <3>2
  <2>3. CASE ~IsStale(cur[w].copy)
    <3>1. runs' = [runs EXCEPT ![cur[w].copy] = @ + 1] /\ pc'[w] = "process"
      BY <1>t, <1>2, <2>3 DEF EnterPipeline, CheckStale, Goto
    <3>2. stage'[w] = "store"
      BY <1>2, <1>g, <3>1 DEF EnterPipeline
    <3> QED
      BY <2>1, <3>1, <3>2
  <2> QED
    BY <2>2, <2>3
<1>3. CASE StoreQuestion(w)
  <2>1. \/ Raise(w)
        \/ Inside /\ GotoStage(w, "workflow")
        \/ Inside /\ GotoStage(w, "write") /\ UNCHANGED storeVars /\ At(w, "store")
    BY <1>3 DEF StoreQuestion
  <2> QED
    BY <1>g, <1>i, <1>r, <2>1 DEF At, storeVars
<1>4. CASE WriteQuestion(w)
  <2>1. Raise(w) \/ (Inside /\ GotoStage(w, "workflow"))
    BY <1>4 DEF WriteQuestion
  <2> QED
    BY <1>g, <1>i, <1>r, <2>1
<1>5. CASE ReadHistory(w) \/ WorkflowReturns(w) \/ DeliveryReturns(w)
  <2>1. Inside /\ (GotoStage(w, "generate") \/ GotoStage(w, "deliver") \/ GotoStage(w, "record"))
    BY <1>5 DEF ReadHistory, WorkflowReturns, DeliveryReturns
  <2> QED
    BY <1>g, <1>i, <2>1
<1>6. CASE WorkflowRaises(w) \/ DeliveryFails(w)
  BY <1>6, <1>r DEF WorkflowRaises, DeliveryFails
<1>7. CASE RecordAnswer(w)
  <2>1. Raise(w) \/ (Inside /\ GotoStage(w, "return"))
    BY <1>7 DEF RecordAnswer
  <2> QED
    BY <1>g, <1>i, <1>r, <2>1
<1>8. CASE PipelineReturns(w) \/ CrashPipeline(w)
  <2>1. UNCHANGED runs /\ GotoStage(w, "none")
    BY <1>8 DEF PipelineReturns, TakeAsAnswered, CrashPipeline, Crash, history, LeavePipeline
  <2> QED
    BY <1>g, <2>1
<1>9. CASE SendPart(w)
  <2>1. UNCHANGED runs /\ stage'[w] = "deliver"
    BY <1>9, <1>i DEF SendPart, Deliver, At
  <2> QED
    BY <2>1
<1> QED
  BY <1>2, <1>3, <1>4, <1>5, <1>6, <1>7, <1>8, <1>9 DEF PipelineStep

(***************************************************************************)
(* After append_message the question is the newest document, unless the    *)
(* store takes it for one it has.                                          *)
(***************************************************************************)
LEMMA NewestOrKnown ==
    ASSUME StoreTyped, NEW conv \in Conversations, NEW doc \in Document, doc.role = "user",
           AppendMessage(conv, doc) \/ LocalWrite(conv, doc)
    PROVE  \/ documents'[conv] # <<>> /\ Last(documents'[conv]) = doc
           \/ /\ doc.id # EmptyId \/ backend = "mongo"
              /\ \E i \in DOMAIN documents[conv] : SameKey(documents[conv][i], doc)
<1>1. \A s \in Seq(Document) : /\ Append(s, doc) # <<>> /\ Append(s, doc) \in Seq(Document)
                               /\ Last(Append(s, doc)) = doc
                               /\ Append(s, doc)[Len(Append(s, doc))] = doc
  <2> SUFFICES ASSUME NEW s \in Seq(Document)
               PROVE  /\ Append(s, doc) # <<>> /\ Append(s, doc) \in Seq(Document)
                      /\ Last(Append(s, doc)) = doc /\ Append(s, doc)[Len(Append(s, doc))] = doc
    OBVIOUS
  <2>1. /\ Append(s, doc) \in Seq(Document) /\ Append(s, doc) # <<>>
        /\ Len(Append(s, doc)) = Len(s) + 1 /\ Append(s, doc)[Len(s) + 1] = doc
    BY AppendProperties
  <2> QED
    BY <2>1 DEF Last
<1>2. CASE LocalWrite(conv, doc)
  <2> DEFINE more == Append(documents[conv], doc)
  <2>1. documents' = [documents EXCEPT ![conv] = more]
    BY <1>2 DEF LocalWrite
  <2>2. more # <<>> /\ Last(more) = doc
    BY <1>1 DEF StoreTyped
  <2> HIDE DEF more
  <2>3. documents'[conv] = more
    BY <2>1 DEF StoreTyped
  <2> QED
    BY <2>2, <2>3
<1>3. CASE AppendMessage(conv, doc) /\ backend = "memory"
  <2> DEFINE evict == conv \notin ToSet(recency) /\ Len(recency) >= MaxUsers
             kept  == IF evict THEN [documents EXCEPT ![Head(recency)] = <<>>] ELSE documents
             more  == Append(kept[conv], doc)
             rest  == LastOf(more, HistoryLimit)
  <2>1. documents' = [kept EXCEPT ![conv] = rest]
    BY <1>3 DEF AppendMessage, MemoryAppend
  <2>2. kept \in [Conversations -> Seq(Document)]
    <3>1. <<>> \in Seq(Document)
      OBVIOUS
    <3> HIDE DEF evict
    <3> QED
      BY <3>1 DEF StoreTyped
  <2> HIDE DEF kept
  <2>3. more \in Seq(Document) /\ more # <<>> /\ more[Len(more)] = doc
    BY <1>1, <2>2
  <2> HIDE DEF more
  <2>4. rest # <<>> /\ Last(rest) = doc
    <3>1. HistoryLimit \in Nat /\ HistoryLimit > 0
      BY StoreAssumption
    <3> QED
      BY <2>3, <3>1, Pieces
  <2> HIDE DEF rest
  <2>5. documents'[conv] = rest
    BY <2>1, <2>2
  <2> QED
    BY <2>4, <2>5
<1>4. CASE AppendMessage(conv, doc) /\ backend = "mongo"
  <2>1. LocalWrite(conv, doc) \/ \E d \in ToSet(documents[conv]) : SameKey(d, doc)
    BY <1>4 DEF AppendMessage, MongoAppend, LocalWrite
  <2> QED
    BY <1>2, <1>4, <2>1 DEF ToSet
<1>5. CASE AppendMessage(conv, doc) /\ backend = "local"
  <2>1. LocalWrite(conv, doc) \/ LocalIsDuplicate(conv, doc)
    BY <1>5 DEF AppendMessage
  <2> QED
    BY <1>2, <2>1 DEF LocalIsDuplicate, ToSet
<1> QED
  BY <1>2, <1>3, <1>4, <1>5, StoreAssumption DEF StoreTyped

(***************************************************************************)
(* The ways to the workflow and on to the prompt.                          *)
(***************************************************************************)
LEMMA ToWorkflow ==
    ASSUME TypeOK, StagesKept, NEW w \in Workers, PipelineStep(w)
    PROVE  /\ stage'[w] = "workflow" =>
                 /\ Inside /\ pc[w] = "process" /\ stage[w] \in {"store", "write"}
                 /\ \/ AppendMessage(Here(w), Question(cur[w].copy))
                    \/ LocalWrite(Here(w), Question(cur[w].copy))
           /\ stage'[w] = "generate" => ReadHistory(w)
<1>t. stage \in [Workers -> Stages]
  BY DEF StagesKept
<1>g. ASSUME NEW s, GotoStage(w, s) PROVE stage'[w] = s
  BY <1>t, <1>g DEF GotoStage
<1>r. ASSUME Raise(w) PROVE stage'[w] = "none"
  BY <1>g, <1>r DEF Raise, LeavePipeline
<1>1. CASE StoreQuestion(w)
  <2>1. \/ Raise(w) \/ GotoStage(w, "write")
        \/ /\ GotoStage(w, "workflow") /\ Inside /\ At(w, "store")
           /\ AppendMessage(Here(w), Question(cur[w].copy))
    BY <1>1 DEF StoreQuestion
  <2> QED
    BY <1>g, <1>r, <2>1 DEF At
<1>2. CASE WriteQuestion(w)
  <2>1. \/ Raise(w)
        \/ /\ GotoStage(w, "workflow") /\ Inside /\ At(w, "write")
           /\ LocalWrite(Here(w), Question(cur[w].copy))
    BY <1>2 DEF WriteQuestion
  <2> QED
    BY <1>g, <1>r, <2>1 DEF At
<1>3. CASE EnterPipeline(w)
  <2>1. GotoStage(w, "store") \/ GotoStage(w, "none")
    BY <1>3 DEF EnterPipeline
  <2> QED
    BY <1>g, <2>1
<1>4. CASE ReadHistory(w)
  <2>1. GotoStage(w, "generate")
    BY <1>4 DEF ReadHistory
  <2> QED
    BY <1>4, <1>g, <2>1
<1>5. CASE WorkflowReturns(w) \/ DeliveryReturns(w) \/ RecordAnswer(w)
  <2>1. GotoStage(w, "deliver") \/ GotoStage(w, "record") \/ GotoStage(w, "return") \/ Raise(w)
    BY <1>5 DEF WorkflowReturns, DeliveryReturns, RecordAnswer
  <2> QED
    BY <1>g, <1>r, <2>1
<1>6. CASE WorkflowRaises(w) \/ DeliveryFails(w) \/ PipelineReturns(w) \/ CrashPipeline(w)
  <2>1. GotoStage(w, "none")
    BY <1>6 DEF WorkflowRaises, DeliveryFails, PipelineReturns, CrashPipeline, Raise, LeavePipeline
  <2> QED
    BY <1>g, <2>1
<1>7. CASE SendPart(w)
  <2>1. stage'[w] = "deliver"
    BY <1>7 DEF SendPart, At
  <2> QED
    BY <2>1
<1> QED
  BY <1>1, <1>2, <1>3, <1>4, <1>5, <1>6, <1>7 DEF PipelineStep

LEMMA StepOmits ==
    ASSUME NEW w \in Workers, PipelineStep(w)
    PROVE  DOMAIN omitted' = DOMAIN omitted
<1>1. UNCHANGED omitted \/ \E x : omitted' = [omitted EXCEPT ![w] = x]
  <2>1. LeavePipeline(w) => \E x : omitted' = [omitted EXCEPT ![w] = x]
    BY DEF LeavePipeline
  <2>2. CASE EnterPipeline(w) \/ StoreQuestion(w) \/ WriteQuestion(w)
    BY <2>1, <2>2 DEF EnterPipeline, StoreQuestion, WriteQuestion, Raise
  <2>3. CASE ReadHistory(w)
    BY <2>3 DEF ReadHistory
  <2>4. CASE WorkflowReturns(w) \/ WorkflowRaises(w) \/ SendPart(w)
    BY <2>1, <2>4 DEF WorkflowReturns, WorkflowRaises, SendPart, Raise
  <2>5. CASE DeliveryReturns(w) \/ DeliveryFails(w) \/ RecordAnswer(w)
    BY <2>1, <2>5 DEF DeliveryReturns, DeliveryFails, RecordAnswer, Raise
  <2>6. CASE PipelineReturns(w) \/ CrashPipeline(w)
    BY <2>1, <2>6 DEF PipelineReturns, CrashPipeline
  <2> QED
    BY <2>2, <2>3, <2>4, <2>5, <2>6 DEF PipelineStep
<1> QED
  BY <1>1

(***************************************************************************)
(* A step of the only worker keeps what is asked.                          *)
(***************************************************************************)
LEMMA StepAsked ==
    ASSUME \A v, u \in Workers : v = u, Anonymous = {} \/ "mongo" \notin Backends,
           SafetyInv, StagesKept, Asked, NEW w \in Workers, PipelineStep(w), UNCHANGED log
    PROVE  Asked'
<1>0. PICK c : c = cur[w].copy
  OBVIOUS
<1>1. /\ TypeOK /\ StoreTyped /\ Copies' = Copies
      /\ \A k : Question(k)' = Question(k)
      /\ Here(w) = ConversationOfCopy(c)
      /\ runs \in [1..MaxCopies -> Nat] /\ Copies \subseteq 1..MaxCopies
  <2>1. TypeOK /\ StoreTyped
    BY DEF SafetyInv, Asked
  <2> QED
    BY <1>0, <2>1, CopiesBounded DEF Copies, Question, Here, TypeOK, WorkerTypeOK
<1>2. pc[w] = "process" =>
         /\ c \in Copies /\ ConversationOfCopy(c) \in Conversations
         /\ Question(c) \in Document /\ AssistantDocument(c) \in Document
         /\ Question(c).role = "user" /\ Question(c).copy = c
         /\ AssistantDocument(c).copy = c
  BY <1>0, HeldDocuments
<1>3. /\ StoreTyped'
      /\ \/ StoresNothing
         \/ stage[w] \in {"store", "write"} /\ MayStore(c, Question(c))
         \/ stage[w] = "record" /\ MayStore(c, AssistantDocument(c))
  BY <1>0, <1>1, <1>2, StepDocuments
<1>4. stage[w] \in {"store", "write", "record"} => pc[w] = "process"
  BY DEF StagesKept
<1>5. \/ /\ UNCHANGED runs
         /\ stage'[w] \in {"store", "write"} =>
               stage[w] \in {"store", "write"} /\ UNCHANGED <<documents, cur, backend>>
      \/ /\ UNCHANGED <<documents, cur, backend>> /\ stage'[w] = "store"
         /\ c \in Copies /\ runs' = [runs EXCEPT ![c] = @ + 1]
  <2>1. pc[w] = "stale" => c \in Copies
    BY <1>0 DEF SafetyInv, EntriesLogged, Holding
  <2> QED
    BY <1>0, <1>1, <2>1, StepRuns
<1>e. ASSUME c \in Copies, runs' = [runs EXCEPT ![c] = @ + 1]
      PROVE  \A k \in Copies : runs[k] \in Nat /\ runs'[k] = IF k = c THEN runs[c] + 1 ELSE runs[k]
  BY <1>1, <1>e
<1>6. \A k \in Copies : runs[k] \in Nat /\ runs'[k] \in Nat /\ runs[k] <= runs'[k]
  <2>1. CASE UNCHANGED runs
    BY <1>1, <2>1
  <2>2. CASE c \in Copies /\ runs' = [runs EXCEPT ![c] = @ + 1]
    BY <1>e, <2>2
  <2> QED
    BY <1>5, <2>1, <2>2
<1>7. stage'[w] \in {"store", "write"} => cur'[w].copy = c /\ runs'[c] >= 1
  <2>1. ASSUME UNCHANGED <<runs, cur>>, stage[w] \in {"store", "write"}
        PROVE  cur'[w].copy = c /\ runs'[c] >= 1
    BY <1>0, <2>1 DEF Asked
  <2>2. ASSUME c \in Copies, runs' = [runs EXCEPT ![c] = @ + 1], UNCHANGED cur
        PROVE  cur'[w].copy = c /\ runs'[c] >= 1
    <3>1. runs[c] \in Nat /\ runs'[c] = runs[c] + 1
      BY <1>e, <2>2
    <3> QED
      BY <1>0, <2>2, <3>1
  <2> QED
    BY <1>5, <2>1, <2>2
<1>8. ASSUME NEW conv \in Conversations, NEW i \in DOMAIN documents'[conv],
             NEW d, d = documents'[conv][i], d.role = "user"
      PROVE  /\ d.copy \in Copies /\ d = Question(d.copy) /\ runs'[d.copy] >= 1
             /\ stage'[w] \in {"store", "write"} /\ c = d.copy => runs'[d.copy] >= 2
  <2>1. \/ \E j \in DOMAIN documents[conv] : d = documents[conv][j]
        \/ stage[w] \in {"store", "write"} /\ d = Question(c)
    <3>1. CASE StoresNothing
      <4>1. PieceOf(documents[conv], documents'[conv])
        BY <3>1 DEF StoresNothing
      <4> QED
        BY <1>8, <4>1 DEF PieceOf
    <3>2. CASE stage[w] \in {"store", "write"} /\ MayStore(c, Question(c))
      <4>1. Question(c) \in Document
        BY <1>2, <1>4, <3>2
      <4>2. \/ PieceOf(documents[conv], documents'[conv])
            \/ conv = ConversationOfCopy(c) /\ PieceOf(Append(documents[conv], Question(c)), documents'[conv])
        BY <3>2 DEF MayStore
      <4>3. d = Question(c) \/ \E j \in DOMAIN documents[conv] : d = documents[conv][j]
        BY <1>1, <1>3, <1>8, <4>1, <4>2, StoredAnswers
      <4> QED
        BY <3>2, <4>3
    <3>3. CASE stage[w] = "record" /\ MayStore(c, AssistantDocument(c))
      <4>1. AssistantDocument(c) \in Document /\ AssistantDocument(c).role = "assistant"
        BY <1>2, <1>4, <3>3 DEF AssistantDocument
      <4>2. \/ PieceOf(documents[conv], documents'[conv])
            \/ conv = ConversationOfCopy(c)
                  /\ PieceOf(Append(documents[conv], AssistantDocument(c)), documents'[conv])
        BY <3>3 DEF MayStore
      <4>3. d = AssistantDocument(c) \/ \E j \in DOMAIN documents[conv] : d = documents[conv][j]
        BY <1>1, <1>3, <1>8, <4>1, <4>2, StoredAnswers
      <4> QED
        BY <1>8, <4>1, <4>3
    <3> QED
      BY <1>3, <3>1, <3>2, <3>3
  <2>2. CASE \E j \in DOMAIN documents[conv] : d = documents[conv][j]
    <3>1. /\ d.copy \in Copies /\ d = Question(d.copy) /\ runs[d.copy] >= 1
          /\ stage[w] \in {"store", "write"} /\ c = d.copy => runs[d.copy] >= 2
      BY <1>0, <1>8, <2>2 DEF Asked, AskedBefore
    <3>2. runs'[d.copy] >= 1
      BY <1>6, <3>1
    <3>3. ASSUME stage'[w] \in {"store", "write"}, c = d.copy PROVE runs'[d.copy] >= 2
      <4>1. CASE UNCHANGED runs /\ stage[w] \in {"store", "write"}
        BY <3>1, <3>3, <4>1
      <4>2. CASE c \in Copies /\ runs' = [runs EXCEPT ![c] = @ + 1]
        <5>1. runs[c] \in Nat /\ runs'[c] = runs[c] + 1 /\ runs[c] >= 1
          BY <1>e, <3>1, <3>3, <4>2
        <5> QED
          BY <3>3, <5>1
      <4> QED
        BY <1>5, <3>3, <4>1, <4>2
    <3> QED
      BY <3>1, <3>2, <3>3
  <2>3. CASE stage[w] \in {"store", "write"} /\ d = Question(c)
    <3>1. c \in Copies /\ d.copy = c /\ runs[c] >= 1
      BY <1>0, <1>2, <1>4, <2>3 DEF Asked
    <3>2. runs'[d.copy] >= 1
      BY <1>6, <3>1
    <3>3. CASE UNCHANGED <<documents, backend>>
      <4>1. d = documents[conv][i] /\ i \in DOMAIN documents[conv]
        BY <1>8, <3>3
      <4> QED
        BY <2>2, <4>1
    <3>4. CASE ~UNCHANGED <<documents, backend>>
      BY <1>5, <2>3, <3>1, <3>2, <3>4
    <3> QED
      BY <3>3, <3>4
  <2> QED
    BY <2>1, <2>2, <2>3
<1>9. ASSUME stage'[w] = "workflow", FirstTime(w)'
      PROVE  documents'[Here(w)'] # <<>> /\ Last(documents'[Here(w)']) = Question(c) /\ cur'[w].copy = c
  <2>1. /\ Inside /\ pc[w] = "process" /\ stage[w] \in {"store", "write"}
        /\ \/ AppendMessage(Here(w), Question(c))
           \/ LocalWrite(Here(w), Question(c))
    BY <1>0, <1>1, <1>9, ToWorkflow
  <2>2. UNCHANGED <<cur, runs, log>> /\ Here(w)' = Here(w) /\ FirstTime(w)
    <3>1. UNCHANGED <<cur, runs, log>>
      BY <2>1 DEF Inside, vars, workerVars
    <3> QED
      BY <1>9, <3>1 DEF Here, ConversationOfCopy, FirstTime, Copies
  <2>3. \/ documents'[Here(w)] # <<>> /\ Last(documents'[Here(w)]) = Question(c)
        \/ /\ Question(c).id # EmptyId \/ backend = "mongo"
           /\ \E i \in DOMAIN documents[Here(w)] : SameKey(documents[Here(w)][i], Question(c))
    BY <1>1, <1>2, <2>1, NewestOrKnown
  <2>4. ASSUME Question(c).id # EmptyId \/ backend = "mongo",
               NEW i \in DOMAIN documents[Here(w)], SameKey(documents[Here(w)][i], Question(c))
        PROVE  FALSE
    <3> DEFINE d == documents[Here(w)][i]
               k == d.copy
    <3>1. d.role = "user" /\ d.id = Question(c).id /\ Here(w) \in Conversations
      BY <1>1, <1>2, <2>1, <2>4 DEF SameKey
    <3>2. k \in Copies /\ d = Question(k) /\ runs[k] >= 1 /\ (k = c => runs[k] >= 2)
      BY <1>0, <2>1, <3>1 DEF Asked, AskedBefore
    <3>3. log[k].msg = log[c].msg
      <4>1. Question(k).id = Question(c).id
        BY <3>1, <3>2
      <4>2. Question(c).id # EmptyId \/ Anonymous = {}
        BY <1>1, <2>4 DEF StoreTyped
      <4> QED
        BY <4>1, <4>2 DEF Question, UserDocument
    <3>4. runs[c] = 1 /\ (k # c => runs[k] = 0)
      BY <1>0, <2>2, <3>2, <3>3 DEF FirstTime
    <3> QED
      BY <3>2, <3>4
  <2> QED
    BY <1>0, <2>2, <2>3, <2>4
<1>10. ASSUME stage'[w] = "generate", FirstTime(w)'
       PROVE  omitted'[w] = c /\ cur'[w].copy = c
  <2>1. ReadHistory(w)
    BY <1>1, <1>10, ToWorkflow
  <2>2. UNCHANGED <<cur, runs, log>> /\ FirstTime(w)
    <3>1. UNCHANGED <<cur, runs, log>>
      BY <2>1 DEF ReadHistory, Inside, vars, workerVars
    <3> QED
      BY <1>10, <3>1 DEF FirstTime, Copies
  <2> DEFINE s    == documents[Here(w)]
             docs == LastOf(s, HistoryLimit)
  <2>3. pc[w] = "process" /\ s # <<>> /\ Last(s) = Question(c)
    BY <1>0, <2>1, <2>2 DEF ReadHistory, At, Asked
  <2>4. s \in Seq(Document)
    BY <1>1, <1>2, <2>3 DEF StoreTyped
  <2>5. docs # <<>> /\ Last(docs) = s[Len(s)]
    <3>1. HistoryLimit \in Nat /\ HistoryLimit > 0
      BY StoreAssumption
    <3> HIDE DEF s
    <3> QED
      BY <2>3, <2>4, <3>1, Pieces
  <2>6. Last(docs) = Question(c)
    BY <2>3, <2>5 DEF Last
  <2>7. omitted' = [omitted EXCEPT ![w] =
                IF docs # <<>> /\ Last(docs).role = "user" THEN Last(docs).copy ELSE 0]
    BY <2>1 DEF ReadHistory, GetHistory
  <2>8. omitted' = [omitted EXCEPT ![w] = c]
    <3>1. Last(docs).role = "user" /\ Last(docs).copy = c
      BY <1>2, <2>3, <2>6
    <3> HIDE DEF docs
    <3> QED
      BY <2>5, <2>7, <3>1
  <2> QED
    BY <1>0, <2>2, <2>8 DEF Asked
<1>11. \A v \in Workers : v = w
  OBVIOUS
<1>12. ASSUME NEW conv \in Conversations, NEW i \in DOMAIN documents'[conv],
              documents'[conv][i].role = "user"
       PROVE  AskedBefore(documents[conv][i])'
  <2>1. PICK d : d = documents'[conv][i]
    OBVIOUS
  <2>2. /\ d.copy \in Copies /\ d = Question(d.copy) /\ runs'[d.copy] >= 1
        /\ stage'[w] \in {"store", "write"} /\ c = d.copy => runs'[d.copy] >= 2
    BY <1>8, <1>12, <2>1
  <2>3. Question(d.copy)' = Question(d.copy)
    BY <1>1
  <2>4. \A v \in Workers : stage'[v] \in {"store", "write"} /\ cur'[v].copy = d.copy => runs'[d.copy] >= 2
    BY <1>7, <1>11, <2>2
  <2>5. AskedBefore(d)'
    BY <1>1, <2>2, <2>3, <2>4 DEF AskedBefore
  <2> QED
    BY <2>1, <2>5 DEF AskedBefore, Question
<1>13. ASSUME NEW v \in Workers
       PROVE  /\ stage'[v] \in {"store", "write"} => runs'[cur'[v].copy] >= 1
              /\ stage'[v] = "workflow" /\ FirstTime(v)' =>
                    /\ documents'[Here(v)'] # <<>>
                    /\ Last(documents'[Here(v)']) = Question(cur[v].copy)'
              /\ stage'[v] = "generate" /\ FirstTime(v)' => omitted'[v] = cur'[v].copy
  <2>1. stage'[w] = "workflow" /\ FirstTime(w)' => Question(cur[w].copy)' = Question(c)
    BY <1>1, <1>9 DEF Question
  <2> QED
    BY <1>7, <1>9, <1>10, <1>11, <2>1
<1>14. DOMAIN omitted' = Workers
  BY StepOmits DEF Asked
<1> QED
  BY <1>3, <1>12, <1>13, <1>14 DEF Asked

(***************************************************************************)
(* So does every other step.                                               *)
(***************************************************************************)
LEMMA NextAsked ==
    ASSUME \A v, u \in Workers : v = u, Anonymous = {} \/ "mongo" \notin Backends,
           SafetyInv, StagesKept, Asked, [PipelineNext]_allVars
    PROVE  Asked'
<1>t. TypeOK
  BY DEF SafetyInv
<1>1. Copies \subseteq Copies' /\ \A k \in Copies : log'[k] = log[k]
  BY <1>t, StepIsMessaging, LogGrows
<1>2. ASSUME NEW w \in Workers, PipelineStep(w) PROVE Asked'
  BY <1>2, PipelineKeepsLog, StepAsked
<1>3. ASSUME UNCHANGED <<storeVars, stage, omitted, runs>>,
             \A v \in Workers : stage[v] # "none" => cur'[v] = cur[v]
      PROVE  Asked'
  <2>1. UNCHANGED <<documents, backend>>
    BY <1>3 DEF storeVars
  <2>2. \A k \in Copies : Question(k)' = Question(k) /\ ConversationOfCopy(k)' = ConversationOfCopy(k)
    BY <1>1 DEF Question, ConversationOfCopy
  <2>3. \A v \in Workers : stage[v] # "none" => cur'[v] = cur[v] /\ cur[v].copy \in Copies
    BY <1>3 DEF SafetyInv, EntriesLogged, Holding, StagesKept
  <2>4. ASSUME NEW d, AskedBefore(d) PROVE AskedBefore(d)'
    <3>1. d.copy \in Copies' /\ d = Question(d.copy)' /\ runs'[d.copy] >= 1
      BY <1>1, <1>3, <2>2, <2>4 DEF AskedBefore
    <3>2. \A v \in Workers : stage'[v] \in {"store", "write"} => cur'[v] = cur[v] /\ stage'[v] = stage[v]
      BY <1>3
    <3> QED
      BY <1>3, <2>4, <3>1, <3>2 DEF AskedBefore
  <2>5. ASSUME NEW conv \in Conversations, NEW i \in DOMAIN documents'[conv],
               documents'[conv][i].role = "user"
        PROVE  AskedBefore(documents[conv][i])'
    <3>1. PICK d : d = documents[conv][i]
      OBVIOUS
    <3>2. AskedBefore(d)
      BY <2>1, <2>5, <3>1 DEF Asked
    <3>3. AskedBefore(d)' /\ documents'[conv][i] = d
      BY <2>1, <2>4, <3>1, <3>2
    <3> QED
      BY <3>3 DEF AskedBefore, Question
  <2>6. ASSUME NEW v \in Workers, stage[v] # "none", FirstTime(v)'
        PROVE  FirstTime(v)
    BY <1>1, <1>3, <2>3, <2>6 DEF FirstTime
  <2>7. ASSUME NEW v \in Workers, stage[v] # "none"
        PROVE  Here(v)' = Here(v) /\ Question(cur[v].copy)' = Question(cur[v].copy)
    <3>1. PICK k \in Copies : k = cur[v].copy /\ k = cur'[v].copy
      BY <2>3, <2>7
    <3>2. Here(v)' = ConversationOfCopy(k)' /\ Question(cur[v].copy)' = Question(k)'
      BY <3>1 DEF Here, ConversationOfCopy, Question
    <3> QED
      BY <2>2, <3>1, <3>2 DEF Here
  <2>8. ASSUME NEW v \in Workers
        PROVE  /\ stage'[v] \in {"store", "write"} => runs'[cur'[v].copy] >= 1
               /\ stage'[v] = "workflow" /\ FirstTime(v)' =>
                     /\ documents'[Here(v)'] # <<>>
                     /\ Last(documents'[Here(v)']) = Question(cur[v].copy)'
               /\ stage'[v] = "generate" /\ FirstTime(v)' => omitted'[v] = cur'[v].copy
    <3>1. CASE stage[v] # "none"
      BY <1>3, <2>1, <2>3, <2>6, <2>7, <3>1 DEF Asked
    <3>2. CASE stage[v] = "none"
      BY <1>3, <3>2
    <3> QED
      BY <3>1, <3>2
  <2> QED
    BY <1>3, <2>1, <2>5, <2>8 DEF Asked, StoreTyped
<1>4. ASSUME NEW w \in Workers, OutsideStep(w), UNCHANGED <<storeVars, pipelineVars>>
      PROVE  Asked'
  <2>1. /\ UNCHANGED stage
        /\ \A v \in Workers : stage[v] # "none" => cur'[v] = cur[v]
    BY <1>t, <1>4, OutsideConcludes
  <2>2. UNCHANGED runs
    BY <1>4 DEF OutsideStep, Start, Recover, DequeueMessage, CheckProcessed, MarkBestEffort,
                AckMessage, RequeueMessage, history
  <2> QED
    BY <1>3, <1>4, <2>1, <2>2 DEF pipelineVars
<1>5. ASSUME UNCHANGED <<workerVars, storeVars, pipelineVars>> PROVE Asked'
  BY <1>3, <1>5 DEF workerVars, pipelineVars
<1>6. ASSUME NEW m \in Messages, AcceptCubeMessage(m) PROVE UNCHANGED workerVars
  BY <1>6 DEF AcceptCubeMessage
<1> QED
  BY <1>2, <1>4, <1>5, <1>6 DEF PipelineNext, allVars, vars

(***************************************************************************)
(* With the one worker that uWSGI attaches, and every message with an id   *)
(* (or a store other than MongoDB): what is left out of the prompt of a    *)
(* message handled for the first time is its own question, whatever else   *)
(* is in the conversation and however little of it the store keeps.        *)
(***************************************************************************)
THEOREM QuestionOmitted ==
    ASSUME \A v, u \in Workers : v = u, Anonymous = {} \/ "mongo" \notin Backends
    PROVE  PipelineSpec => []OmittedIsQuestion
<1> DEFINE Inv == SafetyInv /\ StagesKept /\ Asked
<1>1. PipelineInit => Inv
  <2> SUFFICES ASSUME PipelineInit PROVE Asked
    BY InitSafe, InitStages DEF PipelineInit
  <2>1. documents = [k \in Conversations |-> <<>>] /\ StoreTyped
    BY DEF PipelineInit, StoreInit, StoreTyped
  <2>2. \A k \in Conversations : DOMAIN documents[k] = {}
    BY <2>1
  <2>3. DOMAIN omitted = Workers /\ \A w \in Workers : stage[w] = "none"
    BY DEF PipelineInit
  <2> QED
    BY <2>1, <2>2, <2>3 DEF Asked
<1>2. Inv /\ [PipelineNext]_allVars => Inv'
  <2> SUFFICES ASSUME SafetyInv, StagesKept, Asked, [PipelineNext]_allVars
               PROVE  SafetyInv' /\ StagesKept' /\ Asked'
    OBVIOUS
  <2>1. TypeOK
    BY DEF SafetyInv
  <2> QED
    BY <2>1, StepIsMessaging, NextSafe, NextStages, NextAsked
<1>3. Inv => OmittedIsQuestion
  BY DEF Asked, OmittedIsQuestion, FirstTime
<1> QED
  BY <1>1, <1>2, <1>3, PTL DEF PipelineSpec
=============================================================================
