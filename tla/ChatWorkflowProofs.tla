------------------------- MODULE ChatWorkflowProofs -------------------------
(***************************************************************************)
(* Proofs about a conversation thread: what holds of any number of         *)
(* callers, and what holds as long as there is one.                        *)
(***************************************************************************)
EXTENDS ChatWorkflow, SequenceTheorems, TLAPS

\* No message in the queue has used up its tries.
TriesLeft == \A m \in todo : tries[m] < MaxTries

\* A caller that is not idle handles a message.
HasTurn == \A c \in Callers : call[c].at # "idle" => call[c].turn \in Messages

FlowInv == FlowTypeOK /\ TriesLeft /\ HasTurn

\* A card in a checkpoint of start_chat belongs to the answer beside it.
CardFits(root) == root.answer.by = "start_chat" => root.card \in {None, root.answer.to}

CardInv ==
    /\ CardFits(saved)
    /\ \A c \in Callers : CardFits(call[c].mine)
    /\ CardsCurrent

\* What a dialogue has in hand was said in it; both slots are translated.
Heard(d) ==
    /\ {d.source, d.target} \subseteq d.since \cup {None}
    /\ d.message \in d.since
    /\ d.next = "translate" => Complete(d.source, d.target)

HeardInv ==
    /\ \A i \in DOMAIN threads : Heard(threads[i])
    /\ \A c \in Callers : Heard(call[c].dialogue)

----------------------------------------------------------------------------
(***************************************************************************)
(* With one caller. Its copies are the saved ones while it runs.           *)
(***************************************************************************)
OneCaller == \A c, d \in Callers : c = d

Current(c) ==
    call[c].at = "run" =>
        /\ call[c].mine = saved
        /\ saved.next # "end"
        /\ saved.next = "translator" => call[c].dialogue = threads[saved.handoff]

\* Only what the user said is answered or asked about.
Spoken ==
    /\ saved.next # "end" => saved.message \in Messages
    /\ \A i \in DOMAIN threads : threads[i].message \in Messages

\* The call acts on what it saw.
Seen(c) ==
    call[c].at = "invoke" =>
        /\ call[c].resuming <=> HasTasks
        /\ call[c].rested <=> (~HasTasks \/ Interrupted)

\* The run on a thread that was at rest is about the message of its call.
Running(c) ==
    call[c].at = "run" /\ call[c].rested =>
        IF saved.next # "translator" THEN saved.message = call[c].turn
        ELSE LET d == threads[saved.handoff]
             IN  \/ call[c].token /\ d.next \in {"collect_source_text", "collect_target_language"}
                 \/ d.message = call[c].turn

\* So is what it leaves.
Result(c) ==
    call[c].at = "read" /\ call[c].rested =>
        IF saved.next = "end" THEN saved.answer.to = call[c].turn
        ELSE threads[saved.handoff].question = call[c].turn

Own(c) ==
    /\ Current(c) /\ Seen(c) /\ Running(c) /\ Result(c)
    /\ call[c].at = "read" /\ saved.next # "end" =>
          saved.next = "translator" /\ threads[saved.handoff].question # None
    /\ call[c].at = "deliver" /\ call[c].rested => call[c].reply.to = call[c].turn

OwnInv ==
    /\ Spoken
    /\ \A c \in Callers : Own(c)

----------------------------------------------------------------------------
(***************************************************************************)
(* The checkpoint of one dialogue is replaced.                             *)
(***************************************************************************)
LEMMA DialogueReplaced ==
    ASSUME NEW s \in Seq(Dialogue), NEW t, NEW h, NEW d \in Dialogue, t = [s EXCEPT ![h] = d]
    PROVE  /\ t \in Seq(Dialogue)
           /\ Len(t) = Len(s)
           /\ \A i \in DOMAIN s : t[i] = IF i = h THEN d ELSE s[i]
<1>1. s \in [1..Len(s) -> Dialogue]
  OBVIOUS
<1>2. t \in [1..Len(s) -> Dialogue] /\ DOMAIN t = 1..Len(s)
  BY <1>1
<1>3. t \in Seq(Dialogue) /\ Len(t) = Len(s)
  BY <1>2, SeqDef
<1> QED
  BY <1>1, <1>3

(***************************************************************************)
(* More dialogues leave a checkpoint of the root graph well typed.         *)
(***************************************************************************)
LEMMA RootsStay ==
    ASSUME FlowTypeOK, threads' \in Seq(Dialogue), Len(threads) <= Len(threads')
    PROVE  Root \subseteq Root'
  BY DEF Root, FlowTypeOK

(***************************************************************************)
(* The types, action by action.                                            *)
(***************************************************************************)
LEMMA InitTyped == FlowInit => FlowInv
<1> SUFFICES ASSUME FlowInit PROVE FlowInv
  OBVIOUS
<1>1. threads \in Seq(Dialogue) /\ Len(threads) = 0
  BY DEF FlowInit
<1>2. saved \in Root
  BY <1>1 DEF FlowInit, EmptyRoot, NoAnswer, Root, Answer, RootNodes, Text, Workflows
<1>3. Idle \in CallState
  BY <1>1 DEF Idle, CallState, Locations, Text, EmptyRoot, NoAnswer, Root, Answer, RootNodes,
              Workflows, NewDialogue, Dialogue, TranslatorNodes, NoReply, Reply
<1> QED
  BY <1>1, <1>2, <1>3, WorkflowAssumption
  DEF FlowInit, FlowInv, FlowTypeOK, TriesLeft, HasTurn, Idle, EmptyRoot

\* What a step of one caller has to show for the types.
StepTyped(c) ==
    /\ threads' \in Seq(Dialogue) /\ Len(threads) <= Len(threads')
    /\ saved' \in Root'
    /\ call' = [call EXCEPT ![c] = call'[c]]
    /\ call'[c] \in CallState'
    /\ saved'.next = "translator" =>
          /\ saved'.active = "translator" /\ saved'.handoff > 0
          /\ threads'[saved'.handoff].next # "end"

\* The bookkeeping of the callers, apart from Take and TryAgain.
Counted == UNCHANGED <<todo, tries, failures>>

\* It goes on with its message or is done with it.
TurnKept(c) ==
    \/ call'[c].at = "idle"
    \/ call[c].at # "idle" /\ call'[c].turn = call[c].turn

LEMMA StepKeepsTypes ==
    ASSUME FlowInv, NEW c \in Callers, StepTyped(c), TurnKept(c), Counted
    PROVE  FlowInv'
<1>1. CallState \subseteq CallState'
  BY RootsStay DEF CallState, StepTyped, FlowInv
<1>2. call' \in [Callers -> CallState']
  BY <1>1 DEF StepTyped, FlowInv, FlowTypeOK
<1>3. HasTurn'
  BY DEF StepTyped, TurnKept, HasTurn, FlowInv, FlowTypeOK
<1> QED
  BY <1>2, <1>3 DEF StepTyped, Counted, FlowInv, FlowTypeOK, TriesLeft, Dialogue

(***************************************************************************)
(* The checkpoints of the root graph.                                      *)
(***************************************************************************)
LEMMA RootUpdated ==
    ASSUME NEW root \in Root, NEW next \in RootNodes
    PROVE  /\ [root EXCEPT !.next = next] \in Root
           /\ \A answer \in Answer : [root EXCEPT !.next = next, !.answer = answer] \in Root
           /\ \A card \in Text, answer \in Answer :
                 [root EXCEPT !.next = next, !.card = card, !.answer = answer] \in Root
           /\ [root EXCEPT !.active = "start_chat", !.next = next] \in Root
           /\ \A m \in Text : [root EXCEPT !.message = m, !.next = next] \in Root
  BY DEF Root, Workflows

\* A node of the root graph that keeps the dialogues.
LEMMA CommitTyped ==
    ASSUME FlowInv, NEW c \in Callers, NEW root \in Root, root.next # "translator",
           CommitRoot(c, root), threads' \in Seq(Dialogue), Len(threads') = Len(threads)
    PROVE  StepTyped(c)
<1>1. call[c] \in CallState
  BY DEF FlowInv, FlowTypeOK
<1>2. Root' = Root /\ CallState' = CallState
  BY DEF Root, CallState
<1>3. /\ saved' = root
      /\ call'[c] = [call[c] EXCEPT !.mine = root, !.at = IF root.next = "end" THEN "read" ELSE "run"]
      /\ call' = [call EXCEPT ![c] = call'[c]]
  BY DEF CommitRoot, FlowInv, FlowTypeOK
<1>4. call'[c] \in CallState
  BY <1>1, <1>3 DEF CallState, Locations
<1> QED
  BY <1>2, <1>3, <1>4 DEF StepTyped

LEMMA LookTyped ==
    ASSUME FlowInv, NEW c \in Callers, LookAtState(c)
    PROVE  StepTyped(c)
<1>1. call[c] \in CallState
  BY DEF FlowInv, FlowTypeOK
<1>2. /\ call'[c] = [call[c] EXCEPT !.at = "invoke", !.resuming = HasTasks,
                                    !.rested = (~HasTasks \/ Interrupted)]
      /\ call' = [call EXCEPT ![c] = call'[c]]
      /\ UNCHANGED <<saved, threads>>
  BY DEF LookAtState, FlowInv, FlowTypeOK
<1>3. HasTasks \in BOOLEAN /\ (~HasTasks \/ Interrupted) \in BOOLEAN
  BY DEF HasTasks, Interrupted
<1>4. call'[c] \in CallState
  BY <1>1, <1>2, <1>3 DEF CallState, Locations
<1> QED
  BY <1>2, <1>4 DEF StepTyped, FlowInv, FlowTypeOK, Root, CallState

LEMMA ResumeTyped ==
    ASSUME FlowInv, NEW c \in Callers, Resume(c)
    PROVE  StepTyped(c)
<1> DEFINE inDialogue == saved.next = "translator"
           dialogue   == IF inDialogue THEN threads[saved.handoff] ELSE call[c].dialogue
           at         == IF HasTasks THEN "run" ELSE "read"
<1>1. call[c] \in CallState /\ saved \in Root /\ threads \in Seq(Dialogue)
  BY DEF FlowInv, FlowTypeOK
<1>2. /\ call'[c] = [call[c] EXCEPT !.at = at, !.mine = saved, !.token = inDialogue,
                                    !.dialogue = dialogue]
      /\ call' = [call EXCEPT ![c] = call'[c]]
      /\ UNCHANGED <<saved, threads>>
  BY DEF Resume, FlowInv, FlowTypeOK
<1>3. dialogue \in Dialogue
  <2>1. inDialogue => saved.handoff \in 1..Len(threads)
    BY <1>1 DEF Root, FlowInv, FlowTypeOK
  <2> QED
    BY <1>1, <2>1 DEF CallState
<1>4. inDialogue \in BOOLEAN /\ at \in Locations
  BY DEF Locations
<1>5. call'[c] \in CallState
  <2> HIDE DEF inDialogue, dialogue, at
  <2> QED
    BY <1>1, <1>2, <1>3, <1>4 DEF CallState
<1> QED
  BY <1>2, <1>5 DEF StepTyped, FlowInv, FlowTypeOK, Root, CallState

LEMMA StartTyped ==
    ASSUME FlowInv, NEW c \in Callers, StartRun(c), call[c].turn \in Text
    PROVE  StepTyped(c)
<1>1. call[c] \in CallState /\ saved \in Root
  BY DEF FlowInv, FlowTypeOK
<1>2. /\ call'[c] = [call[c] EXCEPT !.at = "run", !.mine = saved']
      /\ call' = [call EXCEPT ![c] = call'[c]]
      /\ saved' = [saved EXCEPT !.message = call[c].turn, !.next = "entry"]
      /\ UNCHANGED threads
  BY DEF StartRun, FlowInv, FlowTypeOK
<1>3. saved' \in Root /\ saved'.next = "entry"
  <2>1. "entry" \in RootNodes
    BY DEF RootNodes
  <2>2. saved' \in Root
    BY <1>1, <1>2, <2>1, RootUpdated
  <2>3. saved'.next = "entry"
    BY <1>1, <1>2 DEF Root
  <2> QED
    BY <2>2, <2>3
<1>4. call'[c] \in CallState
  BY <1>1, <1>2, <1>3 DEF CallState, Locations
<1> QED
  BY <1>2, <1>3, <1>4 DEF StepTyped, FlowInv, FlowTypeOK, Root, CallState

LEMMA PrepareTyped ==
    ASSUME FlowInv, NEW c \in Callers, Prepare(c)
    PROVE  StepTyped(c)
<1>1. PICK node \in DOMAIN Successor :
          Runs(c, node) /\ CommitRoot(c, [call[c].mine EXCEPT !.next = Successor[node]])
  BY DEF Prepare
<1>2. Successor[node] \in RootNodes \ {"translator"}
  BY DEF Successor, RootNodes
<1>3. call[c].mine \in Root
  BY DEF FlowInv, FlowTypeOK, CallState
<1>4. /\ [call[c].mine EXCEPT !.next = Successor[node]] \in Root
      /\ [call[c].mine EXCEPT !.next = Successor[node]].next = Successor[node]
  BY <1>2, <1>3, RootUpdated DEF Root
<1>5. threads' \in Seq(Dialogue) /\ Len(threads') = Len(threads)
  BY DEF Prepare, FlowInv, FlowTypeOK
<1> QED
  BY <1>1, <1>2, <1>4, <1>5, CommitTyped

LEMMA GenerateTyped ==
    ASSUME FlowInv, NEW c \in Callers, GenerateReply(c)
    PROVE  StepTyped(c)
<1> DEFINE root       == call[c].mine
           answer     == [to |-> root.message, by |-> "start_chat", slots |-> {}]
           done(card) == [root EXCEPT !.next = "end", !.card = card, !.answer = answer]
<1>1. PICK card \in {None, root.message} : CommitRoot(c, done(card))
  BY DEF GenerateReply
<1>2. root \in Root
  BY DEF FlowInv, FlowTypeOK, CallState
<1>3. answer \in Answer /\ card \in Text /\ "end" \in RootNodes
  BY <1>1, <1>2 DEF Answer, Root, Text, Workflows, RootNodes
<1>4. done(card) \in Root /\ done(card).next = "end"
  BY <1>2, <1>3, RootUpdated DEF Root
<1>5. threads' \in Seq(Dialogue) /\ Len(threads') = Len(threads)
  BY DEF GenerateReply, FlowInv, FlowTypeOK
<1> HIDE DEF done
<1> QED
  BY <1>1, <1>4, <1>5, CommitTyped

LEMMA ClassifyTyped ==
    ASSUME FlowInv, NEW c \in Callers, Classify(c)
    PROVE  StepTyped(c)
<1> DEFINE root == call[c].mine
           chat == [root EXCEPT !.active = "start_chat", !.next = "retrieve_context"]
           dialogue == NewDialogue(root.message)
<1>0. call[c] \in CallState /\ root \in Root
  BY DEF FlowInv, FlowTypeOK, CallState
<1>1. CASE root.message \notin Handoff
  <2>1. CommitRoot(c, chat) /\ UNCHANGED threads
    BY <1>1 DEF Classify
  <2>2. chat \in Root /\ chat.next = "retrieve_context"
    BY <1>0 DEF Root, RootNodes, Workflows
  <2>3. threads' \in Seq(Dialogue) /\ Len(threads') = Len(threads)
    BY <2>1 DEF FlowInv, FlowTypeOK
  <2> HIDE DEF chat
  <2> QED
    BY <2>1, <2>2, <2>3, CommitTyped
<1>2. CASE root.message \in Handoff
  <2>1. dialogue \in Dialogue
    BY <1>0 DEF NewDialogue, Dialogue, Root, Text, TranslatorNodes
  <2>2. /\ threads' = Append(threads, dialogue)
        /\ saved' = [root EXCEPT !.active = "translator", !.next = "translator", !.handoff = Len(threads')]
        /\ call'[c] = [call[c] EXCEPT !.mine = saved', !.token = FALSE, !.dialogue = dialogue]
        /\ call' = [call EXCEPT ![c] = call'[c]]
    BY <1>2 DEF Classify, FlowInv, FlowTypeOK
  <2>3. /\ threads' \in Seq(Dialogue) /\ Len(threads') = Len(threads) + 1 /\ Len(threads) \in Nat
        /\ threads'[Len(threads')] = dialogue
    BY <2>1, <2>2 DEF FlowInv, FlowTypeOK
  <2>5. Root \subseteq Root'
    BY <2>3, RootsStay DEF FlowInv
  <2>4. /\ saved' \in Root'
        /\ saved'.active = "translator" /\ saved'.handoff = Len(threads')
    <3>1. root \in Root' /\ Len(threads') \in 0..Len(threads')
      BY <1>0, <2>3, <2>5
    <3>2. [root EXCEPT !.active = "translator", !.next = "translator", !.handoff = Len(threads')] \in Root'
      BY <3>1 DEF Root, RootNodes, Workflows
    <3>3. saved' \in Root'
      BY <2>2, <3>2
    <3>4. saved'.active = "translator" /\ saved'.handoff = Len(threads')
      BY <1>0, <2>2 DEF Root
    <3> QED
      BY <3>3, <3>4
  <2>6. call'[c] \in CallState'
    BY <1>0, <2>1, <2>2, <2>4 DEF CallState
  <2>7. dialogue.next # "end"
    BY DEF NewDialogue
  <2> QED
    BY <2>2, <2>3, <2>4, <2>6, <2>7 DEF StepTyped
<1> QED
  BY <1>1, <1>2

(***************************************************************************)
(* The checkpoints of a dialogue.                                          *)
(***************************************************************************)
LEMMA CommitDialogueTyped ==
    ASSUME FlowInv, NEW c \in Callers, NEW d \in Dialogue, d.next # "end", NEW token \in BOOLEAN,
           CommitDialogue(c, d, token)
    PROVE  StepTyped(c)
<1>1. call[c] \in CallState /\ threads \in Seq(Dialogue) /\ saved \in Root
  BY DEF FlowInv, FlowTypeOK
<1>2. /\ call'[c] = [call[c] EXCEPT !.dialogue = d, !.token = token]
      /\ call' = [call EXCEPT ![c] = call'[c]]
      /\ threads' = [threads EXCEPT ![call[c].mine.handoff] = d]
      /\ UNCHANGED saved
  BY DEF CommitDialogue, FlowInv, FlowTypeOK
<1>3. /\ threads' \in Seq(Dialogue) /\ Len(threads') = Len(threads)
      /\ \A i \in DOMAIN threads : threads'[i] = IF i = call[c].mine.handoff THEN d ELSE threads[i]
  <2>1. threads' = [threads EXCEPT ![call[c].mine.handoff] = d] /\ threads \in Seq(Dialogue)
    BY <1>1, <1>2
  <2> QED
    BY <2>1, DialogueReplaced
<1>4. Root' = Root /\ CallState' = CallState
  BY <1>3 DEF Root, CallState
<1>5. call'[c] \in CallState
  BY <1>1, <1>2 DEF CallState
<1>6. saved.next = "translator" => saved.handoff \in DOMAIN threads
  BY <1>1 DEF Root, FlowInv, FlowTypeOK
<1> QED
  BY <1>1, <1>2, <1>3, <1>4, <1>5, <1>6 DEF StepTyped, FlowInv, FlowTypeOK

LEMMA CommitLastTyped ==
    ASSUME FlowInv, NEW c \in Callers, NEW d \in Dialogue, NEW answer \in Answer,
           CommitLast(c, d, answer)
    PROVE  StepTyped(c)
<1> DEFINE root == [call[c].mine EXCEPT !.next = "end", !.answer = answer]
           last == [d EXCEPT !.next = "end"]
<1>1. call[c].mine \in Root /\ threads \in Seq(Dialogue)
  BY DEF FlowInv, FlowTypeOK, CallState
<1>2. root \in Root /\ root.next = "end"
  BY <1>1 DEF Root, RootNodes
<1>3. last \in Dialogue
  BY <1>1 DEF Dialogue, TranslatorNodes
<1>4. CommitRoot(c, root) /\ threads' = [threads EXCEPT ![call[c].mine.handoff] = last]
  BY DEF CommitLast
<1> HIDE DEF root, last
<1>5. threads' \in Seq(Dialogue) /\ Len(threads') = Len(threads)
  <2> DEFINE new == threads'
             h   == call[c].mine.handoff
  <2>1. new = [threads EXCEPT ![h] = last]
    BY <1>4
  <2> HIDE DEF new, h
  <2>2. new \in Seq(Dialogue) /\ Len(new) = Len(threads)
    BY <1>1, <1>3, <2>1, DialogueReplaced
  <2> QED
    BY <2>2 DEF new
<1>6. CommitRoot(c, root)
  BY <1>4
<1> QED
  BY <1>2, <1>5, <1>6, CommitTyped

LEMMA ResolveTyped ==
    ASSUME FlowInv, NEW c \in Callers, Resolve(c)
    PROVE  StepTyped(c)
<1> DEFINE d == call[c].dialogue
           left == [to |-> d.message, by |-> "translator", slots |-> {}]
           emptied == [d EXCEPT !.source = None, !.target = None]
           asked(source, target, next) == [d EXCEPT !.source = source, !.target = target, !.next = next]
<1>1. d \in Dialogue /\ call[c].token \in BOOLEAN
  BY DEF FlowInv, FlowTypeOK, CallState
<1>2. CASE CommitLast(c, emptied, left)
  <2>1. left \in Answer /\ emptied \in Dialogue
    BY <1>1 DEF Answer, Dialogue, Workflows, Text
  <2> HIDE DEF left, emptied
  <2> QED
    BY <1>2, <2>1, CommitLastTyped
<1>3. ASSUME NEW source \in Merged(d.source, d.message), NEW target \in Merged(d.target, d.message),
             NEW next \in {"translate", "collect_source_text", "collect_target_language"},
             CommitDialogue(c, asked(source, target, next), call[c].token)
      PROVE  StepTyped(c)
  <2>1. source \in Text /\ target \in Text /\ next \in TranslatorNodes /\ next # "end"
    BY <1>1 DEF Merged, Dialogue, TranslatorNodes
  <2>2. asked(source, target, next) \in Dialogue /\ asked(source, target, next).next # "end"
    BY <1>1, <2>1 DEF Dialogue
  <2> HIDE DEF asked
  <2> QED
    BY <1>1, <1>3, <2>2, CommitDialogueTyped
<1> QED
  BY <1>2, <1>3 DEF Resolve

LEMMA CollectTyped ==
    ASSUME FlowInv, NEW c \in Callers, Collect(c)
    PROVE  StepTyped(c)
<1> DEFINE d == call[c].dialogue
           told == [d EXCEPT !.message = call[c].turn, !.next = "resolve", !.since = d.since \cup {call[c].turn}]
<1>1. d \in Dialogue /\ call[c].turn \in Text
  BY DEF FlowInv, FlowTypeOK, CallState
<1>2. told \in Dialogue /\ told.next # "end"
  BY <1>1 DEF Dialogue, TranslatorNodes
<1>3. CommitDialogue(c, told, FALSE)
  BY <1>1 DEF Collect, Dialogue
<1> HIDE DEF told
<1> QED
  BY <1>2, <1>3, CommitDialogueTyped

LEMMA InterruptTyped ==
    ASSUME FlowInv, NEW c \in Callers, Interrupt(c)
    PROVE  StepTyped(c)
<1> DEFINE d == call[c].dialogue
           waiting == [d EXCEPT !.question = d.message]
<1>1. call[c] \in CallState /\ d \in Dialogue /\ threads \in Seq(Dialogue) /\ saved \in Root
  BY DEF FlowInv, FlowTypeOK, CallState
<1>2. /\ call'[c] = [call[c] EXCEPT !.at = "read"]
      /\ call' = [call EXCEPT ![c] = call'[c]]
      /\ threads' = [threads EXCEPT ![call[c].mine.handoff] = waiting]
      /\ UNCHANGED saved
  BY DEF Interrupt, FlowInv, FlowTypeOK
<1>3. waiting \in Dialogue /\ waiting.next # "end"
  BY <1>1 DEF Dialogue, Interrupt, InDialogue
<1>4. /\ threads' \in Seq(Dialogue) /\ Len(threads') = Len(threads)
      /\ \A i \in DOMAIN threads :
            threads'[i] = IF i = call[c].mine.handoff THEN waiting ELSE threads[i]
  <2>1. threads' = [threads EXCEPT ![call[c].mine.handoff] = waiting] /\ threads \in Seq(Dialogue)
    BY <1>1, <1>2
  <2> HIDE DEF waiting
  <2> QED
    BY <1>3, <2>1, DialogueReplaced
<1>5. Root' = Root /\ CallState' = CallState
  BY <1>4 DEF Root, CallState
<1>6. call'[c] \in CallState
  BY <1>1, <1>2 DEF CallState, Locations
<1>7. saved.next = "translator" => saved.handoff \in DOMAIN threads
  BY <1>1 DEF Root, FlowInv, FlowTypeOK
<1> QED
  BY <1>1, <1>2, <1>3, <1>4, <1>5, <1>6, <1>7 DEF StepTyped, FlowInv, FlowTypeOK

LEMMA TranslateTyped ==
    ASSUME FlowInv, NEW c \in Callers, Translate(c)
    PROVE  StepTyped(c)
<1> DEFINE d == call[c].dialogue
<1>1. d \in Dialogue /\ [to |-> d.message, by |-> "translator", slots |-> {d.source, d.target}] \in Answer
  BY DEF FlowInv, FlowTypeOK, CallState, Dialogue, Answer, Workflows
<1> QED
  BY <1>1, CommitLastTyped DEF Translate

(***************************************************************************)
(* The steps around the run of the graph.                                  *)
(***************************************************************************)
LEMMA IdleTyped == ASSUME FlowInv PROVE Idle \in CallState
<1>1. Len(threads) \in Nat
  BY DEF FlowInv, FlowTypeOK
<1>2. EmptyRoot \in Root
  BY <1>1 DEF EmptyRoot, NoAnswer, Root, Answer, RootNodes, Text, Workflows
<1>3. NewDialogue(None) \in Dialogue /\ NoReply \in Reply
  BY DEF NewDialogue, Dialogue, Text, TranslatorNodes, NoReply, Reply, Workflows
<1> HIDE DEF EmptyRoot, NewDialogue, NoReply
<1> QED
  BY <1>2, <1>3 DEF Idle, CallState, Locations, Text

LEMMA ReadTyped ==
    ASSUME FlowInv, NEW c \in Callers, ReadReply(c)
    PROVE  StepTyped(c)
<1>1. call[c] \in CallState /\ threads \in Seq(Dialogue) /\ saved \in Root
  BY DEF FlowInv, FlowTypeOK
<1>2. PICK reply :
          /\ reply = AnswerReply \/ (reply = QuestionReply /\ saved.next = "translator")
          /\ call' = [call EXCEPT ![c].at = "deliver", ![c].reply = reply]
  BY DEF ReadReply
<1>3. AnswerReply \in Reply
  BY <1>1 DEF AnswerReply, Reply, Root, Answer
<1>4. saved.next = "translator" => QuestionReply \in Reply
  <2>1. saved.next = "translator" => threads[saved.handoff] \in Dialogue
    BY <1>1 DEF Root, FlowInv, FlowTypeOK
  <2> QED
    BY <2>1 DEF QuestionReply, NoReply, Reply, Dialogue, Workflows, Text
<1>5. /\ call'[c] = [call[c] EXCEPT !.at = "deliver", !.reply = reply]
      /\ call' = [call EXCEPT ![c] = call'[c]]
      /\ UNCHANGED <<saved, threads>>
  BY <1>2 DEF ReadReply, FlowInv, FlowTypeOK
<1>6. call'[c] \in CallState
  <2>1. reply \in Reply
    BY <1>2, <1>3, <1>4
  <2> QED
    BY <1>1, <1>5, <2>1 DEF CallState, Locations
<1> QED
  BY <1>5, <1>6 DEF StepTyped, FlowInv, FlowTypeOK, Root, CallState

LEMMA LeaveTyped ==
    ASSUME FlowInv, NEW c \in Callers,
           call' = [call EXCEPT ![c] = Idle], UNCHANGED <<saved, threads>>
    PROVE  StepTyped(c)
<1>1. call'[c] = Idle
  BY DEF FlowInv, FlowTypeOK
<1> QED
  BY <1>1, IdleTyped DEF StepTyped, FlowInv, FlowTypeOK, Root, CallState

\* TryAgain puts the message back only while there are tries left.
LEMMA TryAgainTyped ==
    ASSUME FlowInv, NEW c \in Callers, call[c].turn \in Messages, TryAgain(c),
           failures' \in 0..MaxFailures
    PROVE  FlowInv'
<1>1. StepTyped(c) /\ CallState' = CallState
  BY LeaveTyped DEF TryAgain, CallState, Root
<1>2. call' \in [Callers -> CallState]
  BY <1>1, IdleTyped DEF TryAgain, FlowInv, FlowTypeOK
<1>3. /\ todo' \subseteq Messages
      /\ \A m \in todo' : tries'[m] < MaxTries
      /\ tries' \in [Messages -> 0..MaxTries]
  BY DEF TryAgain, FlowInv, FlowTypeOK, TriesLeft
<1>4. HasTurn'
  BY DEF TryAgain, HasTurn, Idle, FlowInv, FlowTypeOK
<1> QED
  BY <1>1, <1>2, <1>3, <1>4 DEF StepTyped, FlowInv, FlowTypeOK, TriesLeft, Dialogue

LEMMA TakeTyped ==
    ASSUME FlowInv, NEW c \in Callers, NEW m \in Messages, Take(c, m)
    PROVE  FlowInv'
<1>1. call[c] \in CallState /\ CallState' = CallState
  BY DEF FlowInv, FlowTypeOK, Take, CallState, Root
<1>2. call'[c] = [call[c] EXCEPT !.at = "look", !.turn = m] /\ call' = [call EXCEPT ![c] = call'[c]]
  BY DEF Take, FlowInv, FlowTypeOK
<1>3. call'[c] \in CallState
  BY <1>1, <1>2 DEF CallState, Locations, Text
<1>4. call' \in [Callers -> CallState]
  BY <1>2, <1>3 DEF FlowInv, FlowTypeOK
<1>5. /\ todo' \subseteq Messages
      /\ tries' \in [Messages -> 0..MaxTries]
      /\ \A k \in todo' : tries'[k] < MaxTries
  <2>1. tries[m] + 1 \in 0..MaxTries /\ tries' = [tries EXCEPT ![m] = tries[m] + 1]
    BY WorkflowAssumption DEF Take, FlowInv, FlowTypeOK, TriesLeft
  <2> QED
    BY <2>1 DEF Take, FlowInv, FlowTypeOK, TriesLeft
<1>6. HasTurn'
  BY DEF Take, HasTurn, FlowInv, FlowTypeOK, CallState
<1> QED
  BY <1>1, <1>4, <1>5, <1>6 DEF Take, FlowInv, FlowTypeOK, TriesLeft, Dialogue, Root

\* A commit leaves the message and the books alone.
Kept(c) == call'[c].turn = call[c].turn /\ Counted

LEMMA CommitsKeep ==
    ASSUME FlowInv, NEW c \in Callers
    PROVE  /\ \A root : CommitRoot(c, root) => Kept(c)
           /\ \A d, answer : CommitLast(c, d, answer) => Kept(c)
           /\ \A d, token : CommitDialogue(c, d, token) => Kept(c)
<1>0. call \in [Callers -> CallState]
  BY DEF FlowInv, FlowTypeOK
<1>1. ASSUME NEW root, CommitRoot(c, root) PROVE Kept(c)
  BY <1>0, <1>1 DEF CommitRoot, CallState, Kept, Counted
<1>2. ASSUME NEW d, NEW token, CommitDialogue(c, d, token) PROVE Kept(c)
  BY <1>0, <1>2 DEF CommitDialogue, CallState, Kept, Counted
<1> QED
  BY <1>1, <1>2 DEF CommitLast

(***************************************************************************)
(* What a step of a caller is: it changes no other caller, keeps the       *)
(* message it is about, and leaves the books to Take and TryAgain.         *)
(***************************************************************************)
LEMMA StepsOfCaller ==
    ASSUME FlowInv, NEW c \in Callers, CallerStep(c)
    PROVE  (StepTyped(c) /\ TurnKept(c) /\ Counted) \/ ReadRaises(c)
<1>0. call \in [Callers -> CallState]
  BY DEF FlowInv, FlowTypeOK
<1>c. call[c].at # "idle" /\ Kept(c) => TurnKept(c) /\ Counted
  BY DEF TurnKept, Kept
<1>1. ASSUME LookAtState(c) PROVE StepTyped(c) /\ TurnKept(c) /\ Counted
  <2>1. call[c].at # "idle" /\ Kept(c)
    BY <1>0, <1>1 DEF LookAtState, Kept, Counted, CallState
  <2> QED
    BY <1>1, <1>c, <2>1, LookTyped
<1>2. ASSUME Resume(c) PROVE StepTyped(c) /\ TurnKept(c) /\ Counted
  <2>1. call[c].at # "idle" /\ Kept(c)
    BY <1>0, <1>2 DEF Resume, Kept, Counted, CallState
  <2> QED
    BY <1>2, <1>c, <2>1, ResumeTyped
<1>3. ASSUME StartRun(c) PROVE StepTyped(c) /\ TurnKept(c) /\ Counted
  <2>1. call[c].at # "idle" /\ Kept(c)
    BY <1>0, <1>3 DEF StartRun, Kept, Counted, CallState
  <2>2. call[c].turn \in Text
    BY <1>0 DEF CallState
  <2>3. StepTyped(c)
    BY <1>3, <2>2, StartTyped
  <2> QED
    BY <1>c, <2>1, <2>3
<1>4. ASSUME Prepare(c) PROVE StepTyped(c) /\ TurnKept(c) /\ Counted
  <2>1. call[c].at # "idle" /\ Kept(c)
    BY <1>4, CommitsKeep DEF Prepare, Runs
  <2> QED
    BY <1>4, <1>c, <2>1, PrepareTyped
<1>5. ASSUME Classify(c) PROVE StepTyped(c) /\ TurnKept(c) /\ Counted
  <2>1. call[c].at # "idle"
    BY <1>5 DEF Classify, Runs
  <2>2. (\E root : CommitRoot(c, root)) \/ Kept(c)
    <3> DEFINE new == NewDialogue(call[c].mine.message)
    <3>1. ASSUME call' = [call EXCEPT ![c].mine = saved', ![c].token = FALSE, ![c].dialogue = new],
                 Counted
          PROVE  Kept(c)
      <4> HIDE DEF new
      <4> QED
        BY <1>0, <3>1 DEF Kept, CallState
    <3> QED
      BY <1>5, <3>1 DEF Classify, Counted
  <2> QED
    BY <1>5, <1>c, <2>1, <2>2, CommitsKeep, ClassifyTyped
<1>6. ASSUME GenerateReply(c) PROVE StepTyped(c) /\ TurnKept(c) /\ Counted
  <2>1. call[c].at # "idle" /\ Kept(c)
    BY <1>6, CommitsKeep DEF GenerateReply, Runs
  <2> QED
    BY <1>6, <1>c, <2>1, GenerateTyped
<1>7. ASSUME Resolve(c) PROVE StepTyped(c) /\ TurnKept(c) /\ Counted
  <2>1. call[c].at # "idle"
    BY <1>7 DEF Resolve, InDialogue, Runs
  <2>2. Kept(c)
    BY <1>7, CommitsKeep DEF Resolve
  <2> QED
    BY <1>7, <1>c, <2>1, <2>2, ResolveTyped
<1>8. ASSUME Collect(c) PROVE StepTyped(c) /\ TurnKept(c) /\ Counted
  <2>1. call[c].at # "idle" /\ Kept(c)
    BY <1>8, CommitsKeep DEF Collect, InDialogue, Runs
  <2> QED
    BY <1>8, <1>c, <2>1, CollectTyped
<1>9. ASSUME Interrupt(c) PROVE StepTyped(c) /\ TurnKept(c) /\ Counted
  <2>1. call[c].at # "idle" /\ Kept(c)
    BY <1>0, <1>9 DEF Interrupt, InDialogue, Runs, Kept, Counted, CallState
  <2> QED
    BY <1>9, <1>c, <2>1, InterruptTyped
<1>10. ASSUME Translate(c) PROVE StepTyped(c) /\ TurnKept(c) /\ Counted
  <2>1. call[c].at # "idle" /\ Kept(c)
    BY <1>10, CommitsKeep DEF Translate, InDialogue, Runs
  <2> QED
    BY <1>10, <1>c, <2>1, TranslateTyped
<1>11. ASSUME ReadReply(c) PROVE StepTyped(c) /\ TurnKept(c) /\ Counted
  <2>1. call[c].at # "idle" /\ Kept(c)
    BY <1>0, <1>11 DEF ReadReply, Kept, Counted, CallState
  <2> QED
    BY <1>11, <1>c, <2>1, ReadTyped
<1>12. ASSUME Delivered(c) PROVE StepTyped(c) /\ TurnKept(c) /\ Counted
  <2>1. call'[c].at = "idle" /\ Counted
    BY <1>0, <1>12 DEF Delivered, Idle, Counted
  <2>2. StepTyped(c)
    BY <1>12, LeaveTyped DEF Delivered
  <2> QED
    BY <2>1, <2>2 DEF TurnKept
<1> QED
  BY <1>1, <1>2, <1>3, <1>4, <1>5, <1>6, <1>7, <1>8, <1>9, <1>10, <1>11, <1>12 DEF CallerStep

LEMMA NextTyped ==
    ASSUME FlowInv, [FlowNext]_flowVars
    PROVE  FlowInv'
<1>1. CASE UNCHANGED flowVars
  BY <1>1 DEF flowVars, FlowInv, FlowTypeOK, TriesLeft, HasTurn, Root, CallState
<1>2. ASSUME NEW c \in Callers, CallerStep(c) PROVE FlowInv'
  <2>1. CASE ReadRaises(c)
    <3>1. call[c].turn \in Messages /\ TryAgain(c) /\ UNCHANGED failures
      BY <2>1 DEF ReadRaises, FlowInv, HasTurn
    <3> QED
      BY <3>1, TryAgainTyped DEF FlowInv, FlowTypeOK
  <2> QED
    BY <1>2, <2>1, StepsOfCaller, StepKeepsTypes
<1>3. ASSUME NEW c \in Callers, Fail(c) PROVE FlowInv'
  <2>1. call[c].turn \in Messages /\ TryAgain(c) /\ failures' \in 0..MaxFailures
    BY <1>3, WorkflowAssumption DEF Fail, FlowInv, FlowTypeOK, HasTurn
  <2> QED
    BY <2>1, TryAgainTyped
<1>4. ASSUME NEW c \in Callers, NEW m \in Messages, Take(c, m) PROVE FlowInv'
  BY <1>4, TakeTyped
<1> QED
  BY <1>1, <1>2, <1>3, <1>4 DEF FlowNext

(***************************************************************************)
(* The thread is well typed and no message is tried more than MaxTries     *)
(* times, whatever the callers do.                                         *)
(***************************************************************************)
THEOREM FlowTyping == FlowSpec => []FlowTypeOK
<1>1. FlowInv => FlowTypeOK
  BY DEF FlowInv
<1> QED
  BY <1>1, InitTyped, NextTyped, PTL DEF FlowSpec

----------------------------------------------------------------------------
(***************************************************************************)
(* Cards. A step of caller c keeps them in their places.                   *)
(***************************************************************************)
ReplyFits(r) ==
    /\ r.kind = "question" => r.card = None
    /\ r.kind = "answer" /\ r.by = "start_chat" => r.card \in {None, r.to}

CardStep(c) ==
    /\ CardFits(saved')
    /\ call' = [call EXCEPT ![c] = call'[c]]
    /\ CardFits(call'[c].mine)
    /\ ReplyFits(call'[c].reply)

LEMMA CardsRead ==
    CardInv <=> /\ CardFits(saved)
                /\ \A c \in Callers : CardFits(call[c].mine) /\ ReplyFits(call[c].reply)
  BY DEF CardInv, CardsCurrent, ReplyFits

LEMMA CardStepKeeps ==
    ASSUME FlowInv, CardInv, NEW c \in Callers, CardStep(c)
    PROVE  CardInv'
<1>1. \A e \in Callers : e # c => call'[e] = call[e]
  BY DEF CardStep, FlowInv, FlowTypeOK
<1>2. \A e \in Callers : CardFits(call'[e].mine) /\ ReplyFits(call'[e].reply)
  BY <1>1, CardsRead DEF CardStep
<1> QED
  BY <1>2 DEF CardStep, CardInv, CardsCurrent, CardFits, ReplyFits

\* A node commits a root whose card fits, and does not touch the reply.
LEMMA CommitFits ==
    ASSUME FlowInv, CardInv, NEW c \in Callers, NEW root, CardFits(root), CommitRoot(c, root)
    PROVE  CardStep(c)
<1>1. /\ saved' = root
      /\ call'[c] = [call[c] EXCEPT !.mine = root, !.at = IF root.next = "end" THEN "read" ELSE "run"]
      /\ call' = [call EXCEPT ![c] = call'[c]]
  BY DEF CommitRoot, FlowInv, FlowTypeOK
<1>2. call'[c].mine = root /\ call'[c].reply = call[c].reply
  BY <1>1 DEF FlowInv, FlowTypeOK, CallState
<1> QED
  BY <1>1, <1>2, CardsRead DEF CardStep

LEMMA CommitLastFits ==
    ASSUME FlowInv, CardInv, NEW c \in Callers, NEW d, NEW answer, answer.by = "translator",
           CommitLast(c, d, answer)
    PROVE  CardStep(c)
<1> DEFINE root == [call[c].mine EXCEPT !.next = "end", !.answer = answer]
<1>1. CardFits(root)
  BY DEF CardFits, FlowInv, FlowTypeOK, CallState, Root
<1>2. CommitRoot(c, root)
  BY DEF CommitLast
<1> HIDE DEF root
<1> QED
  BY <1>1, <1>2, CommitFits

\* A step that keeps the checkpoint of the root graph, the copy and the reply.
LEMMA OtherFits ==
    ASSUME FlowInv, CardInv, NEW c \in Callers, UNCHANGED saved,
           call' = [call EXCEPT ![c] = call'[c]],
           call'[c].mine \in {call[c].mine, saved}, call'[c].reply = call[c].reply
    PROVE  CardStep(c)
<1>1. CardFits(saved) /\ CardFits(call[c].mine) /\ ReplyFits(call[c].reply)
  BY CardsRead
<1> QED
  BY <1>1 DEF CardStep

LEMMA CallerKeepsCards ==
    ASSUME FlowInv, CardInv, NEW c \in Callers, CallerStep(c), ~ReadRaises(c)
    PROVE  CardStep(c)
<1>0. call \in [Callers -> CallState] /\ call[c].mine \in Root /\ saved \in Root
  BY DEF FlowInv, FlowTypeOK, CallState
<1>1. ASSUME LookAtState(c) PROVE CardStep(c)
  <2>1. call'[c] = [call[c] EXCEPT !.at = "invoke", !.resuming = HasTasks,
                                   !.rested = ~HasTasks \/ Interrupted]
        /\ call' = [call EXCEPT ![c] = call'[c]]
    BY <1>0, <1>1 DEF LookAtState
  <2>2. call'[c].mine = call[c].mine /\ call'[c].reply = call[c].reply
    BY <1>0, <2>1 DEF CallState
  <2>3. UNCHANGED saved
    BY <1>1 DEF LookAtState
  <2> QED
    BY <2>1, <2>2, <2>3, OtherFits
<1>2. ASSUME Resume(c) PROVE CardStep(c)
  BY <1>0, <1>2, OtherFits DEF Resume, CallState
<1>3. ASSUME StartRun(c) PROVE CardStep(c)
  <2>1. /\ saved' = [saved EXCEPT !.message = call[c].turn, !.next = "entry"]
        /\ call' = [call EXCEPT ![c] = call'[c]]
        /\ call'[c].mine = saved' /\ call'[c].reply = call[c].reply
    BY <1>0, <1>3 DEF StartRun, CallState
  <2>2. CardFits(saved')
    BY <1>0, <2>1 DEF CardInv, CardFits, Root
  <2> QED
    BY <2>1, <2>2, CardsRead DEF CardStep
<1>4. ASSUME Prepare(c) PROVE CardStep(c)
  <2>1. PICK node : CommitRoot(c, [call[c].mine EXCEPT !.next = Successor[node]])
    BY <1>4 DEF Prepare
  <2>2. CardFits([call[c].mine EXCEPT !.next = Successor[node]])
    BY <1>0 DEF CardInv, CardFits, Root
  <2> QED
    BY <2>1, <2>2, CommitFits
<1>5. ASSUME Classify(c) PROVE CardStep(c)
  <2> DEFINE root == call[c].mine
             chat == [root EXCEPT !.active = "start_chat", !.next = "retrieve_context"]
  <2>1. ASSUME CommitRoot(c, chat) PROVE CardStep(c)
    <3>1. CardFits(chat)
      BY <1>0 DEF CardInv, CardFits, Root
    <3> HIDE DEF chat
    <3> QED
      BY <2>1, <3>1, CommitFits
  <2>2. ASSUME ~CommitRoot(c, chat) PROVE CardStep(c)
    <3>1. /\ saved' = [root EXCEPT !.active = "translator", !.next = "translator",
                                   !.handoff = Len(threads')]
          /\ call' = [call EXCEPT ![c] = call'[c]]
          /\ call'[c].mine = saved' /\ call'[c].reply = call[c].reply
      BY <1>0, <1>5, <2>2 DEF Classify, CallState
    <3>2. CardFits(saved')
      BY <1>0, <3>1 DEF CardInv, CardFits, Root
    <3> QED
      BY <3>1, <3>2, CardsRead DEF CardStep
  <2> QED
    BY <2>1, <2>2
<1>6. ASSUME GenerateReply(c) PROVE CardStep(c)
  <2> DEFINE root       == call[c].mine
             done(card) == [root EXCEPT !.next = "end", !.card = card,
                               !.answer = [to |-> root.message, by |-> "start_chat", slots |-> {}]]
  <2>1. PICK card \in {None, root.message} : CommitRoot(c, done(card))
    BY <1>6 DEF GenerateReply
  <2>2. CardFits(done(card))
    BY <1>0 DEF CardFits, Root
  <2> HIDE DEF done
  <2> QED
    BY <2>1, <2>2, CommitFits
<1>7. ASSUME Resolve(c) PROVE CardStep(c)
  <2>1. ASSUME NEW d, CommitLast(c, d, [to |-> call[c].dialogue.message, by |-> "translator", slots |-> {}])
        PROVE  CardStep(c)
    BY <2>1, CommitLastFits
  <2>2. ASSUME NEW d, NEW token, CommitDialogue(c, d, token) PROVE CardStep(c)
    BY <1>0, <2>2, OtherFits DEF CommitDialogue, CallState
  <2> QED
    BY <1>7, <2>1, <2>2 DEF Resolve
<1>8. ASSUME Collect(c) PROVE CardStep(c)
  BY <1>0, <1>8, OtherFits DEF Collect, CommitDialogue, CallState
<1>9. ASSUME Interrupt(c) PROVE CardStep(c)
  BY <1>0, <1>9, OtherFits DEF Interrupt, CallState
<1>10. ASSUME Translate(c) PROVE CardStep(c)
  BY <1>10, CommitLastFits DEF Translate
<1>11. ASSUME ReadReply(c) PROVE CardStep(c)
  <2>1. ReplyFits(AnswerReply)
    BY DEF CardInv, CardFits, ReplyFits, AnswerReply
  <2>2. ReplyFits(QuestionReply)
    BY DEF ReplyFits, QuestionReply, NoReply
  <2>3. PICK reply \in {AnswerReply, QuestionReply} :
            call' = [call EXCEPT ![c].at = "deliver", ![c].reply = reply]
    BY <1>11 DEF ReadReply
  <2>4. call'[c].mine = call[c].mine /\ call'[c].reply = reply /\ call' = [call EXCEPT ![c] = call'[c]]
    BY <1>0, <2>3 DEF CallState
  <2> QED
    BY <1>11, <2>1, <2>2, <2>3, <2>4, CardsRead DEF ReadReply, CardStep
<1>12. ASSUME Delivered(c) PROVE CardStep(c)
  BY <1>0, <1>12, CardsRead DEF Delivered, Idle, NoReply, EmptyRoot, NoAnswer, CardStep, CardFits, ReplyFits
<1> QED
  BY <1>1, <1>2, <1>3, <1>4, <1>5, <1>6, <1>7, <1>8, <1>9, <1>10, <1>11, <1>12 DEF CallerStep

LEMMA NextCards ==
    ASSUME FlowInv, CardInv, [FlowNext]_flowVars
    PROVE  CardInv'
<1>1. CASE UNCHANGED flowVars
  BY <1>1 DEF flowVars, CardInv, CardsCurrent
<1>2. ASSUME NEW c \in Callers, TryAgain(c) PROVE CardStep(c)
  BY <1>2, CardsRead DEF TryAgain, FlowInv, FlowTypeOK, Idle, NoReply, EmptyRoot, NoAnswer,
                         CardStep, CardFits, ReplyFits
<1>3. ASSUME NEW c \in Callers, NEW m \in Messages, Take(c, m) PROVE CardStep(c)
  BY <1>3, OtherFits DEF Take, FlowInv, FlowTypeOK, CallState
<1> QED
  BY <1>1, <1>2, <1>3, CallerKeepsCards, CardStepKeeps DEF FlowNext, Fail, ReadRaises

(***************************************************************************)
(* With any number of callers a card is sent only with its own answer.     *)
(***************************************************************************)
THEOREM CardsKept == FlowSpec => []CardsCurrent
<1>1. FlowInit => CardInv
  BY DEF FlowInit, CardInv, CardsCurrent, CardFits, EmptyRoot, NoAnswer, Idle, NoReply
<1>2. CardInv => CardsCurrent
  BY DEF CardInv
<1> QED
  BY <1>1, <1>2, InitTyped, NextTyped, NextCards, PTL DEF FlowSpec

----------------------------------------------------------------------------
(***************************************************************************)
(* Slots. What a step of caller c leaves was heard in its dialogue.        *)
(***************************************************************************)
HeardStep(c) ==
    /\ \A i \in DOMAIN threads' : Heard(threads'[i])
    /\ call' = [call EXCEPT ![c] = call'[c]]
    /\ Heard(call'[c].dialogue)

LEMMA HeardStepKeeps ==
    ASSUME FlowInv, HeardInv, NEW c \in Callers, HeardStep(c)
    PROVE  HeardInv'
<1>1. \A e \in Callers : e # c => call'[e] = call[e]
  BY DEF HeardStep, FlowInv, FlowTypeOK
<1>2. \A e \in Callers : Heard(call'[e].dialogue)
  BY <1>1 DEF HeardStep, HeardInv
<1> QED
  BY <1>2 DEF HeardStep, HeardInv, Heard, Complete

\* A step that keeps all dialogues and takes over at most one that is saved.
LEMMA SameHeard ==
    ASSUME FlowInv, HeardInv, NEW c \in Callers, UNCHANGED threads,
           call' = [call EXCEPT ![c] = call'[c]],
           Heard(call'[c].dialogue)
    PROVE  HeardStep(c)
  BY DEF HeardInv, HeardStep

LEMMA CommitHeard ==
    ASSUME FlowInv, HeardInv, NEW c \in Callers, NEW d \in Dialogue, Heard(d),
           threads' = [threads EXCEPT ![call[c].mine.handoff] = d],
           call' = [call EXCEPT ![c] = call'[c]],
           call'[c].dialogue \in {d, call[c].dialogue}
    PROVE  HeardStep(c)
<1> DEFINE new == threads'
           h   == call[c].mine.handoff
<1>1. /\ new \in Seq(Dialogue) /\ Len(new) = Len(threads)
      /\ \A i \in DOMAIN threads : new[i] = IF i = h THEN d ELSE threads[i]
  <2>1. threads \in Seq(Dialogue) /\ new = [threads EXCEPT ![h] = d]
    BY DEF FlowInv, FlowTypeOK
  <2> HIDE DEF new, h
  <2> QED
    BY <2>1, DialogueReplaced
<1>2. DOMAIN threads' = DOMAIN threads
  BY <1>1 DEF FlowInv, FlowTypeOK
<1>3. \A i \in DOMAIN threads' : Heard(threads'[i])
  BY <1>1, <1>2 DEF HeardInv
<1> QED
  BY <1>3 DEF HeardStep, HeardInv

LEMMA LastHeard ==
    ASSUME FlowInv, HeardInv, NEW c \in Callers, NEW d \in Dialogue, Heard(d),
           NEW answer, CommitLast(c, d, answer)
    PROVE  HeardStep(c)
<1> DEFINE last == [d EXCEPT !.next = "end"]
<1>2. last \in Dialogue /\ Heard(last)
  BY DEF Dialogue, TranslatorNodes, Heard
<1>3. /\ threads' = [threads EXCEPT ![call[c].mine.handoff] = last]
      /\ call' = [call EXCEPT ![c] = call'[c]]
      /\ call'[c].dialogue = call[c].dialogue
  BY DEF CommitLast, CommitRoot, FlowInv, FlowTypeOK, CallState
<1> HIDE DEF last
<1> QED
  BY <1>2, <1>3, CommitHeard

LEMMA RootHeard ==
    ASSUME FlowInv, HeardInv, NEW c \in Callers, NEW root, CommitRoot(c, root), UNCHANGED threads
    PROVE  HeardStep(c)
<1>1. call' = [call EXCEPT ![c] = call'[c]] /\ call'[c].dialogue = call[c].dialogue
  BY DEF CommitRoot, FlowInv, FlowTypeOK, CallState
<1>2. Heard(call[c].dialogue)
  BY DEF HeardInv
<1> QED
  BY <1>1, <1>2, SameHeard

LEMMA CallerHears ==
    ASSUME FlowInv, HeardInv, NEW c \in Callers, CallerStep(c), ~ReadRaises(c)
    PROVE  HeardStep(c)
<1> DEFINE d == call[c].dialogue
<1>0. call \in [Callers -> CallState] /\ d \in Dialogue /\ Heard(d)
  BY DEF FlowInv, FlowTypeOK, CallState, HeardInv
<1>1. ASSUME LookAtState(c) PROVE HeardStep(c)
  <2>1. call'[c] = [call[c] EXCEPT !.at = "invoke", !.resuming = HasTasks,
                                   !.rested = ~HasTasks \/ Interrupted]
        /\ call' = [call EXCEPT ![c] = call'[c]]
    BY <1>0, <1>1 DEF LookAtState
  <2>2. call'[c].dialogue = d
    BY <1>0, <2>1 DEF CallState
  <2>3. UNCHANGED threads
    BY <1>1 DEF LookAtState
  <2> QED
    BY <1>0, <2>1, <2>2, <2>3, SameHeard
<1>2. ASSUME Resume(c) PROVE HeardStep(c)
  <2> DEFINE dialogue == IF saved.next = "translator" THEN threads[saved.handoff] ELSE d
  <2>1. saved.next = "translator" => saved.handoff \in DOMAIN threads
    BY DEF FlowInv, FlowTypeOK, Root
  <2>2. Heard(dialogue)
    BY <1>0, <2>1 DEF HeardInv
  <2>3. UNCHANGED threads /\ call' = [call EXCEPT ![c] = call'[c]] /\ call'[c].dialogue = dialogue
    BY <1>0, <1>2 DEF Resume, CallState
  <2> QED
    BY <2>2, <2>3, SameHeard
<1>3. ASSUME StartRun(c) PROVE HeardStep(c)
  BY <1>0, <1>3, SameHeard DEF StartRun, CallState
<1>4. ASSUME Prepare(c) PROVE HeardStep(c)
  BY <1>4, RootHeard DEF Prepare
<1>5. ASSUME Classify(c) PROVE HeardStep(c)
  <2> DEFINE root == call[c].mine
             new  == NewDialogue(root.message)
  <2>1. ASSUME UNCHANGED threads PROVE HeardStep(c)
    BY <1>0, <1>5, <2>1, RootHeard DEF Classify, FlowInv, FlowTypeOK
  <2>2. ASSUME threads' # threads PROVE HeardStep(c)
    <3>1. new \in Dialogue /\ Heard(new)
      BY DEF NewDialogue, Dialogue, TranslatorNodes, Heard, Text, FlowInv, FlowTypeOK, CallState, Root
    <3>2. /\ threads' = Append(threads, new)
          /\ call' = [call EXCEPT ![c] = call'[c]]
          /\ call'[c].dialogue = new
      BY <1>0, <1>5, <2>2 DEF Classify, CallState
    <3>3. \A i \in DOMAIN threads' : Heard(threads'[i])
      BY <3>1, <3>2 DEF HeardInv, FlowInv, FlowTypeOK
    <3> QED
      BY <3>1, <3>2, <3>3 DEF HeardStep
  <2> QED
    BY <2>1, <2>2
<1>6. ASSUME GenerateReply(c) PROVE HeardStep(c)
  BY <1>6, RootHeard DEF GenerateReply
<1>7. ASSUME Resolve(c) PROVE HeardStep(c)
  <2> DEFINE asked(source, target, next) == [d EXCEPT !.source = source, !.target = target, !.next = next]
             emptied == [d EXCEPT !.source = None, !.target = None]
  <2>1. ASSUME CommitLast(c, emptied, [to |-> d.message, by |-> "translator", slots |-> {}])
        PROVE  HeardStep(c)
    <3>1. d.next = "resolve"
      BY <1>7 DEF Resolve, InDialogue
    <3>2. /\ emptied \in Dialogue /\ emptied.next = "resolve"
          /\ emptied.source = None /\ emptied.target = None
          /\ emptied.message = d.message /\ emptied.since = d.since
      BY <1>0, <3>1 DEF Dialogue, Text
    <3>3. Heard(emptied)
      BY <1>0, <3>2 DEF Heard
    <3> HIDE DEF emptied
    <3> QED
      BY <2>1, <3>2, <3>3, LastHeard
  <2>2. ASSUME NEW source \in Merged(d.source, d.message), NEW target \in Merged(d.target, d.message),
               NEW next \in IF Complete(source, target) THEN {"translate"}
                            ELSE {"collect_source_text", "collect_target_language"},
               CommitDialogue(c, asked(source, target, next), call[c].token)
        PROVE  HeardStep(c)
    <3>1. source \in Text /\ target \in Text /\ {source, target} \subseteq d.since \cup {None}
      BY <1>0 DEF Merged, Dialogue, Heard
    <3>2. asked(source, target, next) \in Dialogue
      BY <1>0, <3>1 DEF Dialogue, TranslatorNodes
    <3>3. Heard(asked(source, target, next))
      BY <1>0, <3>1 DEF Dialogue, Heard
    <3> HIDE DEF asked
    <3>4. /\ threads' = [threads EXCEPT ![call[c].mine.handoff] = asked(source, target, next)]
          /\ call' = [call EXCEPT ![c] = call'[c]]
          /\ call'[c].dialogue = asked(source, target, next)
      BY <1>0, <2>2 DEF CommitDialogue, CallState
    <3> QED
      BY <3>2, <3>3, <3>4, CommitHeard
  <2> QED
    BY <1>7, <2>1, <2>2 DEF Resolve
<1>8. ASSUME Collect(c) PROVE HeardStep(c)
  <2> DEFINE told == [d EXCEPT !.message = call[c].turn, !.next = "resolve",
                               !.since = d.since \cup {call[c].turn}]
  <2>1. told \in Dialogue
    BY <1>0 DEF Dialogue, TranslatorNodes, CallState
  <2>2. Heard(told)
    BY <1>0 DEF Dialogue, Heard
  <2>3. /\ threads' = [threads EXCEPT ![call[c].mine.handoff] = told]
        /\ call' = [call EXCEPT ![c] = call'[c]]
        /\ call'[c].dialogue = told
    BY <1>0, <1>8 DEF Collect, CommitDialogue, CallState
  <2> HIDE DEF told
  <2> QED
    BY <2>1, <2>2, <2>3, CommitHeard
<1>9. ASSUME Interrupt(c) PROVE HeardStep(c)
  <2> DEFINE waiting == [d EXCEPT !.question = d.message]
  <2>1. waiting \in Dialogue /\ Heard(waiting)
    BY <1>0 DEF Dialogue, Heard
  <2>2. /\ threads' = [threads EXCEPT ![call[c].mine.handoff] = waiting]
        /\ call' = [call EXCEPT ![c] = call'[c]]
        /\ call'[c].dialogue = d
    BY <1>0, <1>9 DEF Interrupt, CallState
  <2> HIDE DEF waiting
  <2> QED
    BY <2>1, <2>2, CommitHeard
<1>10. ASSUME Translate(c) PROVE HeardStep(c)
  BY <1>0, <1>10, LastHeard DEF Translate
<1>11. ASSUME ReadReply(c) PROVE HeardStep(c)
  <2>1. PICK reply : call' = [call EXCEPT ![c].at = "deliver", ![c].reply = reply]
    BY <1>11 DEF ReadReply
  <2>2. call'[c].dialogue = d /\ call' = [call EXCEPT ![c] = call'[c]]
    BY <1>0, <2>1 DEF CallState
  <2>3. UNCHANGED threads
    BY <1>11 DEF ReadReply
  <2> QED
    BY <1>0, <2>2, <2>3, SameHeard
<1>12. ASSUME Delivered(c) PROVE HeardStep(c)
  BY <1>0, <1>12, SameHeard DEF Delivered, Idle, NewDialogue, Heard
<1> QED
  BY <1>1, <1>2, <1>3, <1>4, <1>5, <1>6, <1>7, <1>8, <1>9, <1>10, <1>11, <1>12 DEF CallerStep

LEMMA NextHeard ==
    ASSUME FlowInv, HeardInv, [FlowNext]_flowVars
    PROVE  HeardInv'
<1>1. CASE UNCHANGED flowVars
  BY <1>1 DEF flowVars, HeardInv, Heard, Complete
<1>2. ASSUME NEW c \in Callers, TryAgain(c) PROVE HeardStep(c)
  BY <1>2, SameHeard DEF TryAgain, FlowInv, FlowTypeOK, Idle, NewDialogue, Heard
<1>3. ASSUME NEW c \in Callers, NEW m \in Messages, Take(c, m) PROVE HeardStep(c)
  <2>1. /\ UNCHANGED threads
        /\ call' = [call EXCEPT ![c] = call'[c]]
        /\ call'[c].dialogue = call[c].dialogue
    BY <1>3 DEF Take, FlowInv, FlowTypeOK, CallState
  <2> QED
    BY <2>1, SameHeard DEF HeardInv
<1> QED
  BY <1>1, <1>2, <1>3, CallerHears, HeardStepKeeps DEF FlowNext, Fail, ReadRaises

(***************************************************************************)
(* With any number of callers a translation is made from what the user     *)
(* said in this dialogue.                                                  *)
(***************************************************************************)
THEOREM SlotsHeard == FlowSpec => []SlotsFromDialogue
<1>1. FlowInit => HeardInv
  BY DEF FlowInit, HeardInv, Heard, Idle, NewDialogue
<1>2. FlowInv /\ HeardInv => SlotsFromDialogue
  BY DEF FlowInv, FlowTypeOK, CallState, Dialogue, HeardInv, Heard, SlotsFromDialogue, InDialogue, Complete
<1> QED
  BY <1>1, <1>2, InitTyped, NextTyped, NextHeard, PTL DEF FlowSpec

----------------------------------------------------------------------------
(***************************************************************************)
(* One caller: what its steps do to the thread.                            *)
(***************************************************************************)
OwnKept(c) == Spoken' /\ Own(c)'

LEMMA OnlyCaller ==
    ASSUME OneCaller, NEW c \in Callers, OwnKept(c)
    PROVE  OwnInv'
<1>1. \A e \in Callers : e = c
  BY DEF OneCaller
<1> QED
  BY <1>1 DEF OwnKept, OwnInv

LEMMA TakeOwn ==
    ASSUME FlowInv, OwnInv, NEW c \in Callers, NEW m \in Messages, Take(c, m)
    PROVE  OwnKept(c)
<1>1. call'[c].at = "look" /\ UNCHANGED <<saved, threads>>
  BY DEF Take, FlowInv, FlowTypeOK, CallState
<1> QED
  BY <1>1 DEF OwnKept, OwnInv, Spoken, Own, Current, Seen, Running, Result

LEMMA LeaveOwn ==
    ASSUME FlowInv, OwnInv, NEW c \in Callers,
           call' = [call EXCEPT ![c] = Idle], UNCHANGED <<saved, threads>>
    PROVE  OwnKept(c)
<1>1. call'[c].at = "idle"
  BY DEF FlowInv, FlowTypeOK, Idle
<1> QED
  BY <1>1 DEF OwnKept, OwnInv, Spoken, Own, Current, Seen, Running, Result

LEMMA LookOwn ==
    ASSUME FlowInv, OwnInv, NEW c \in Callers, LookAtState(c)
    PROVE  OwnKept(c)
<1>1. /\ call'[c].at = "invoke" /\ UNCHANGED <<saved, threads>>
      /\ call'[c].resuming <=> HasTasks
      /\ call'[c].rested <=> (~HasTasks \/ Interrupted)
  BY DEF LookAtState, FlowInv, FlowTypeOK, CallState
<1> QED
  BY <1>1 DEF OwnKept, OwnInv, Spoken, Own, Current, Seen, Running, Result, HasTasks, Interrupted

\* The thread that was looked at is the one that is resumed.
LEMMA ResumeOwn ==
    ASSUME FlowInv, OwnInv, NEW c \in Callers, Resume(c)
    PROVE  OwnKept(c)
<1>1. HasTasks /\ (call[c].rested => Interrupted)
  BY DEF Resume, OwnInv, Own, Seen
<1>2. /\ call'[c].at = "run" /\ call'[c].mine = saved /\ call'[c].rested = call[c].rested
      /\ call'[c].token <=> saved.next = "translator"
      /\ saved.next = "translator" => call'[c].dialogue = threads[saved.handoff]
      /\ UNCHANGED <<saved, threads>>
  BY <1>1 DEF Resume, FlowInv, FlowTypeOK, CallState
<1>3. saved.next # "end"
  BY <1>1 DEF HasTasks
<1> QED
  BY <1>1, <1>2, <1>3 DEF OwnKept, OwnInv, Spoken, Own, Current, Seen, Running, Result, Interrupted

LEMMA StartOwn ==
    ASSUME FlowInv, OwnInv, NEW c \in Callers, StartRun(c)
    PROVE  OwnKept(c)
<1>1. /\ call'[c].at = "run" /\ call'[c].mine = saved' /\ call'[c].turn = call[c].turn
      /\ UNCHANGED threads
  BY DEF StartRun, FlowInv, FlowTypeOK, CallState
<1>2. saved'.next = "entry" /\ saved'.message = call[c].turn
  BY DEF StartRun, FlowInv, FlowTypeOK, Root
<1>3. call[c].turn \in Messages
  BY DEF StartRun, FlowInv, HasTurn
<1> QED
  BY <1>1, <1>2, <1>3 DEF OwnKept, OwnInv, Spoken, Own, Current, Seen, Running, Result

(***************************************************************************)
(* A node of the root graph passes the message on; the last one answers it.*)
(***************************************************************************)
LEMMA CommitOwn ==
    ASSUME FlowInv, OwnInv, NEW c \in Callers, call[c].at = "run", saved.next # "translator",
           NEW root, CommitRoot(c, root), UNCHANGED threads,
           root.next # "translator", root.message = saved.message,
           root.next = "end" => root.answer.to = saved.message
    PROVE  OwnKept(c)
<1>1. /\ saved' = root /\ call'[c].mine = root
      /\ call'[c].at = IF root.next = "end" THEN "read" ELSE "run"
      /\ call'[c].turn = call[c].turn /\ call'[c].rested = call[c].rested
  BY DEF CommitRoot, FlowInv, FlowTypeOK, CallState
<1>2. saved.message \in Messages /\ (call[c].rested => saved.message = call[c].turn)
  BY DEF OwnInv, Spoken, Own, Current, Running
<1> QED
  BY <1>1, <1>2 DEF OwnKept, OwnInv, Spoken, Own, Current, Seen, Running, Result

LEMMA ClassifyOwn ==
    ASSUME FlowInv, OwnInv, NEW c \in Callers, Classify(c)
    PROVE  OwnKept(c)
<1> DEFINE root == call[c].mine
           chat == [root EXCEPT !.active = "start_chat", !.next = "retrieve_context"]
           new  == NewDialogue(root.message)
<1>1. call[c].at = "run" /\ root = saved /\ saved.next = "classify" /\ saved \in Root
  BY DEF Classify, Runs, OwnInv, Own, Current, FlowInv, FlowTypeOK
<1>2. CASE root.message \notin Handoff
  <2>1. CommitRoot(c, chat) /\ UNCHANGED threads
    BY <1>2 DEF Classify
  <2>2. chat.next = "retrieve_context" /\ chat.message = saved.message
    BY <1>1 DEF Root
  <2> HIDE DEF chat
  <2> QED
    BY <1>1, <2>1, <2>2, CommitOwn
<1>3. CASE root.message \in Handoff
  <2>1. /\ threads' = Append(threads, new)
        /\ saved' = [root EXCEPT !.active = "translator", !.next = "translator", !.handoff = Len(threads')]
        /\ call'[c].mine = saved' /\ call'[c].dialogue = new /\ call'[c].at = "run"
        /\ call'[c].turn = call[c].turn /\ call'[c].rested = call[c].rested
    BY <1>1, <1>3 DEF Classify, FlowInv, FlowTypeOK, CallState
  <2>2. saved'.next = "translator" /\ saved'.message = saved.message /\ saved'.handoff = Len(threads')
    BY <1>1, <2>1 DEF Root
  <2>3. /\ threads'[Len(threads')] = new
        /\ DOMAIN threads' = DOMAIN threads \cup {Len(threads')}
        /\ \A i \in DOMAIN threads : threads'[i] = threads[i]
    BY <2>1 DEF FlowInv, FlowTypeOK
  <2>4. saved.message \in Messages /\ (call[c].rested => saved.message = call[c].turn)
    BY <1>1 DEF OwnInv, Spoken, Own, Running
  <2>5. new.message = saved.message
    BY <1>1 DEF NewDialogue
  <2> QED
    BY <2>1, <2>2, <2>3, <2>4, <2>5 DEF OwnKept, OwnInv, Spoken, Own, Current, Seen, Running, Result
<1> QED
  BY <1>2, <1>3

LEMMA PlainOwn ==
    ASSUME FlowInv, OwnInv, NEW c \in Callers, Prepare(c) \/ GenerateReply(c)
    PROVE  OwnKept(c)
<1> DEFINE root == call[c].mine
           next(node) == [root EXCEPT !.next = Successor[node]]
           done(card) == [root EXCEPT !.next = "end", !.card = card,
                             !.answer = [to |-> root.message, by |-> "start_chat", slots |-> {}]]
<1>1. call[c].at = "run" /\ root = saved /\ saved.next # "translator" /\ root \in Root
  BY DEF Prepare, GenerateReply, Successor, Runs, OwnInv, Own, Current, FlowInv, FlowTypeOK
<1>2. CASE Prepare(c)
  <2>1. PICK node \in DOMAIN Successor : CommitRoot(c, next(node)) /\ UNCHANGED threads
    BY <1>2 DEF Prepare
  <2>2. next(node).next = Successor[node] /\ next(node).message = saved.message
    BY <1>1 DEF Root
  <2>3. Successor[node] \notin {"translator", "end"}
    BY DEF Successor
  <2> HIDE DEF next
  <2> QED
    BY <1>1, <2>1, <2>2, <2>3, CommitOwn
<1>3. CASE GenerateReply(c)
  <2>1. PICK card : CommitRoot(c, done(card)) /\ UNCHANGED threads
    BY <1>3 DEF GenerateReply
  <2>2. done(card).next = "end" /\ done(card).message = saved.message /\ done(card).answer.to = saved.message
    BY <1>1 DEF Root
  <2> HIDE DEF done
  <2> QED
    BY <1>1, <2>1, <2>2, CommitOwn
<1> QED
  BY <1>2, <1>3

(***************************************************************************)
(* In a dialogue the caller's copy is the saved one.                       *)
(***************************************************************************)
LEMMA DialogueAt ==
    ASSUME FlowInv, OwnInv, NEW c \in Callers, NEW nodes, InDialogue(c, nodes)
    PROVE  LET h == saved.handoff
           IN  /\ call[c].at = "run" /\ call[c].mine = saved /\ saved.next = "translator"
               /\ h \in DOMAIN threads /\ call[c].dialogue = threads[h]
               /\ threads[h] \in Dialogue /\ threads[h].message \in Messages
               /\ threads[h].next \in nodes
<1>1. call[c].at = "run" /\ call[c].mine = saved /\ saved.next = "translator"
  BY DEF InDialogue, Runs, OwnInv, Own, Current
<1>2. saved.handoff \in DOMAIN threads
  BY <1>1 DEF FlowInv, FlowTypeOK, Root
<1>3. call[c].dialogue = threads[saved.handoff] /\ call[c].dialogue.next \in nodes
  BY <1>1 DEF InDialogue, OwnInv, Own, Current
<1>4. threads[saved.handoff] \in Dialogue /\ threads[saved.handoff].message \in Messages
  BY <1>2 DEF FlowInv, FlowTypeOK, OwnInv, Spoken
<1> QED
  BY <1>1, <1>2, <1>3, <1>4

\* A new checkpoint d of the dialogue, at its place.
LEMMA DialogueNow ==
    ASSUME FlowInv, OwnInv, NEW c \in Callers, NEW nodes, InDialogue(c, nodes), NEW d \in Dialogue,
           threads' = [threads EXCEPT ![call[c].mine.handoff] = d]
    PROVE  /\ threads'[saved.handoff] = d
           /\ DOMAIN threads' = DOMAIN threads
           /\ \A i \in DOMAIN threads : i # saved.handoff => threads'[i] = threads[i]
<1>1. call[c].mine = saved /\ saved.handoff \in DOMAIN threads /\ threads \in Seq(Dialogue)
  BY DialogueAt DEF FlowInv, FlowTypeOK
<1> QED
  BY <1>1

LEMMA CommitDialogueOwn ==
    ASSUME FlowInv, OwnInv, NEW c \in Callers, NEW nodes, InDialogue(c, nodes),
           NEW d \in Dialogue, NEW token, CommitDialogue(c, d, token),
           d.message \in Messages,
           call[c].rested => d.message = call[c].turn
    PROVE  OwnKept(c)
<1>1. /\ call'[c].dialogue = d /\ call'[c].at = "run" /\ call'[c].mine = saved
      /\ call'[c].turn = call[c].turn /\ call'[c].rested = call[c].rested
      /\ UNCHANGED saved
      /\ threads' = [threads EXCEPT ![call[c].mine.handoff] = d]
  BY DialogueAt DEF CommitDialogue, FlowInv, FlowTypeOK, CallState
<1>2. /\ threads'[saved.handoff] = d
      /\ DOMAIN threads' = DOMAIN threads
      /\ \A i \in DOMAIN threads : i # saved.handoff => threads'[i] = threads[i]
  BY <1>1, DialogueNow
<1>3. saved.next = "translator" /\ saved.message \in Messages
  BY DialogueAt DEF OwnInv, Spoken
<1> QED
  BY <1>1, <1>2, <1>3 DEF OwnKept, OwnInv, Spoken, Own, Current, Seen, Running, Result

\* The end of the dialogue answers the message it has in hand.
LEMMA CommitLastOwn ==
    ASSUME FlowInv, OwnInv, NEW c \in Callers, NEW nodes, InDialogue(c, nodes),
           NEW d \in Dialogue, d.message = call[c].dialogue.message,
           NEW answer, CommitLast(c, d, answer), answer.to = d.message,
           call[c].rested => answer.to = call[c].turn
    PROVE  OwnKept(c)
<1> DEFINE root == [call[c].mine EXCEPT !.next = "end", !.answer = answer]
           last == [d EXCEPT !.next = "end"]
<1>1. call[c].mine = saved /\ saved \in Root /\ call[c].dialogue \in Dialogue
  BY DialogueAt DEF FlowInv, FlowTypeOK
<1>2. root.next = "end" /\ root.answer = answer
  BY <1>1 DEF Root
<1>3. last \in Dialogue /\ last.message = call[c].dialogue.message
  BY <1>1 DEF Dialogue, TranslatorNodes
<1>4. /\ saved' = root /\ call'[c].at = "read"
      /\ call'[c].turn = call[c].turn /\ call'[c].rested = call[c].rested
      /\ threads' = [threads EXCEPT ![call[c].mine.handoff] = last]
  BY <1>2 DEF CommitLast, CommitRoot, FlowInv, FlowTypeOK, CallState
<1> HIDE DEF root, last
<1>5. /\ threads'[saved.handoff] = last
      /\ DOMAIN threads' = DOMAIN threads
      /\ \A i \in DOMAIN threads : i # saved.handoff => threads'[i] = threads[i]
  BY <1>3, <1>4, DialogueNow
<1>6. last.message \in Messages
  BY <1>3, DialogueAt
<1> QED
  BY <1>2, <1>4, <1>5, <1>6 DEF OwnKept, OwnInv, Spoken, Own, Current, Seen, Running, Result

LEMMA ResolveOwn ==
    ASSUME FlowInv, OwnInv, NEW c \in Callers, Resolve(c)
    PROVE  OwnKept(c)
<1> DEFINE d == call[c].dialogue
           left == [to |-> d.message, by |-> "translator", slots |-> {}]
           emptied == [d EXCEPT !.source = None, !.target = None]
           asked(source, target, next) == [d EXCEPT !.source = source, !.target = target, !.next = next]
<1>1. InDialogue(c, {"resolve"})
  BY DEF Resolve
<1>2. d \in Dialogue /\ d.message \in Messages /\ (call[c].rested => d.message = call[c].turn)
  BY <1>1, DialogueAt DEF OwnInv, Own, Running
<1>3. ASSUME CommitLast(c, emptied, left) PROVE OwnKept(c)
  <2>1. emptied \in Dialogue /\ emptied.message = d.message /\ left.to = d.message
    BY <1>2 DEF Dialogue, Text
  <2> HIDE DEF emptied, left
  <2> QED
    BY <1>1, <1>2, <1>3, <2>1, CommitLastOwn
<1>4. ASSUME NEW source \in Merged(d.source, d.message), NEW target \in Merged(d.target, d.message),
             NEW next \in {"translate", "collect_source_text", "collect_target_language"},
             CommitDialogue(c, asked(source, target, next), call[c].token)
      PROVE  OwnKept(c)
  <2>1. asked(source, target, next) \in Dialogue /\ asked(source, target, next).message = d.message
    BY <1>2 DEF Dialogue, Merged, TranslatorNodes
  <2> HIDE DEF asked
  <2> QED
    BY <1>1, <1>2, <1>4, <2>1, CommitDialogueOwn
<1> QED
  BY <1>3, <1>4 DEF Resolve

LEMMA CollectOwn ==
    ASSUME FlowInv, OwnInv, NEW c \in Callers, Collect(c)
    PROVE  OwnKept(c)
<1> DEFINE d == call[c].dialogue
           nodes == {"collect_source_text", "collect_target_language"}
           told == [d EXCEPT !.message = call[c].turn, !.next = "resolve",
                             !.since = d.since \cup {call[c].turn}]
<1>1. InDialogue(c, nodes)
  BY DEF Collect
<1>2. d \in Dialogue /\ call[c].turn \in Messages
  BY <1>1, DialogueAt DEF FlowInv, HasTurn
<1>3. told \in Dialogue /\ told.message = call[c].turn
  BY <1>2 DEF Dialogue, TranslatorNodes, Text
<1>4. CommitDialogue(c, told, FALSE)
  BY <1>2 DEF Collect, Dialogue
<1> HIDE DEF told, nodes
<1> QED
  BY <1>1, <1>2, <1>3, <1>4, CommitDialogueOwn

\* Without a token the message in hand is the one that was asked about.
LEMMA InterruptOwn ==
    ASSUME FlowInv, OwnInv, NEW c \in Callers, Interrupt(c)
    PROVE  OwnKept(c)
<1> DEFINE d == call[c].dialogue
           nodes == {"collect_source_text", "collect_target_language"}
           waiting == [d EXCEPT !.question = d.message]
<1>1. InDialogue(c, nodes) /\ ~call[c].token
  BY DEF Interrupt
<1>2. d \in Dialogue /\ d.message \in Messages /\ saved.next = "translator" /\ call[c].at = "run"
  BY <1>1, DialogueAt
<1>3. call[c].rested => d.message = call[c].turn
  BY <1>1, <1>2, DialogueAt DEF OwnInv, Own, Running
<1>4. waiting \in Dialogue /\ waiting.message = d.message /\ waiting.question = d.message
  BY <1>2 DEF Dialogue
<1>5. /\ call'[c].at = "read" /\ call'[c].turn = call[c].turn /\ call'[c].rested = call[c].rested
      /\ UNCHANGED saved
      /\ threads' = [threads EXCEPT ![call[c].mine.handoff] = waiting]
  BY DEF Interrupt, FlowInv, FlowTypeOK, CallState
<1> HIDE DEF nodes, waiting
<1>6. /\ threads'[saved.handoff] = waiting
      /\ DOMAIN threads' = DOMAIN threads
      /\ \A i \in DOMAIN threads : i # saved.handoff => threads'[i] = threads[i]
  BY <1>1, <1>4, <1>5, DialogueNow
<1>7. d.message # None /\ saved.message \in Messages
  BY <1>2, WorkflowAssumption DEF OwnInv, Spoken
<1> QED
  BY <1>2, <1>3, <1>4, <1>5, <1>6, <1>7
  DEF OwnKept, OwnInv, Spoken, Own, Current, Seen, Running, Result

LEMMA TranslateOwn ==
    ASSUME FlowInv, OwnInv, NEW c \in Callers, Translate(c)
    PROVE  OwnKept(c)
<1> DEFINE d == call[c].dialogue
<1>1. InDialogue(c, {"translate"})
  BY DEF Translate
<1>2. call[c].rested => d.message = call[c].turn
  BY <1>1, DialogueAt DEF OwnInv, Own, Running
<1>3. CommitLast(c, d, [to |-> d.message, by |-> "translator", slots |-> {d.source, d.target}])
  BY DEF Translate
<1>4. d \in Dialogue
  BY <1>1, DialogueAt
<1> QED
  BY <1>1, <1>2, <1>3, <1>4, CommitLastOwn

LEMMA ReadOwn ==
    ASSUME FlowInv, OwnInv, NEW c \in Callers, ReadReply(c)
    PROVE  OwnKept(c)
<1>1. PICK reply :
          /\ \/ saved.next = "end" /\ reply = AnswerReply
             \/ saved.next = "translator" /\ reply = QuestionReply
          /\ call' = [call EXCEPT ![c].at = "deliver", ![c].reply = reply]
  BY DEF ReadReply, HasTasks
<1>2. /\ call'[c].at = "deliver" /\ call'[c].reply = reply
      /\ call'[c].turn = call[c].turn /\ call'[c].rested = call[c].rested
  BY <1>1 DEF FlowInv, FlowTypeOK, CallState
<1>3. AnswerReply.to = saved.answer.to /\ QuestionReply.to = threads[saved.handoff].question
  BY DEF AnswerReply, QuestionReply, NoReply
<1>4. call[c].rested => reply.to = call[c].turn
  BY <1>1, <1>3 DEF ReadReply, OwnInv, Own, Result
<1>5. UNCHANGED <<saved, threads>>
  BY DEF ReadReply
<1> QED
  BY <1>2, <1>4, <1>5 DEF OwnKept, OwnInv, Spoken, Own, Current, Seen, Running, Result

LEMMA NextOwn ==
    ASSUME OneCaller, FlowInv, OwnInv, [FlowNext]_flowVars
    PROVE  OwnInv'
<1>1. CASE UNCHANGED flowVars
  BY <1>1 DEF flowVars, OwnInv, Spoken, Own, Current, Seen, Running, Result, HasTasks, Interrupted
<1>2. ASSUME NEW c \in Callers, CallerStep(c) PROVE OwnKept(c)
  <2>1. ReadRaises(c) \/ Delivered(c) => OwnKept(c)
    BY LeaveOwn DEF ReadRaises, TryAgain, Delivered
  <2> QED
    BY <1>2, <2>1, LookOwn, ResumeOwn, StartOwn, PlainOwn, ClassifyOwn, ResolveOwn, CollectOwn,
       InterruptOwn, TranslateOwn, ReadOwn DEF CallerStep
<1>3. ASSUME NEW c \in Callers, Fail(c) PROVE OwnKept(c)
  BY <1>3, LeaveOwn DEF Fail, TryAgain
<1>4. ASSUME NEW c \in Callers, NEW m \in Messages, Take(c, m) PROVE OwnKept(c)
  BY <1>4, TakeOwn
<1> QED
  BY <1>1, <1>2, <1>3, <1>4, OnlyCaller DEF FlowNext

LEMMA InitOwn == FlowInit => OwnInv
  BY DEF FlowInit, OwnInv, Spoken, Own, Current, Seen, Running, Result, EmptyRoot, Idle

(***************************************************************************)
(* One caller never meets a pending node without an interrupt: the node of *)
(* the last checkpoint has either ended the run or asked.                  *)
(***************************************************************************)
THEOREM RepliesReadable ==
    ASSUME OneCaller
    PROVE  FlowSpec => []ReplyReadable
<1>1. OwnInv => ReplyReadable
  BY DEF OwnInv, Own, ReplyReadable
<1> QED
  BY <1>1, InitTyped, InitOwn, NextTyped, NextOwn, PTL DEF FlowSpec

(***************************************************************************)
(* One caller that found the thread at rest gets a reply to its message.   *)
(***************************************************************************)
THEOREM RepliesOwn ==
    ASSUME OneCaller
    PROVE  FlowSpec => []OwnReply
<1>1. OwnInv => OwnReply
  BY DEF OwnInv, Own, OwnReply
<1> QED
  BY <1>1, InitTyped, InitOwn, NextTyped, NextOwn, PTL DEF FlowSpec

(***************************************************************************)
(* Slots of one caller's dialogues: what becomes of each dialogue.         *)
(***************************************************************************)
Dropped(d, e) ==
    /\ d.next # "end" /\ e.next = "end" /\ {e.source, e.target} = {None}
    /\ saved'.next = "end" /\ saved'.answer.slots = {}

KeepsSlots(d, e) ==
    \/ /\ d.source # None => e.source # None
       /\ d.target # None => e.target # None
    \/ Dropped(d, e)

LEMMA DialogueKeeps ==
    ASSUME FlowInv, OwnInv, NEW c \in Callers, NEW nodes, InDialogue(c, nodes), NEW d \in Dialogue,
           threads' = [threads EXCEPT ![call[c].mine.handoff] = d],
           KeepsSlots(call[c].dialogue, d)
    PROVE  \A i \in DOMAIN threads : KeepsSlots(threads[i], threads'[i])
<1>1. call[c].dialogue = threads[saved.handoff]
  BY DialogueAt
<1> QED
  BY <1>1, DialogueNow DEF KeepsSlots

LEMMA ResolveKeeps ==
    ASSUME FlowInv, OwnInv, NEW c \in Callers, Resolve(c)
    PROVE  \A i \in DOMAIN threads : KeepsSlots(threads[i], threads'[i])
<1> DEFINE d == call[c].dialogue
           left == [to |-> d.message, by |-> "translator", slots |-> {}]
           emptied == [d EXCEPT !.source = None, !.target = None]
           asked(source, target, next) == [d EXCEPT !.source = source, !.target = target, !.next = next]
<1>1. InDialogue(c, {"resolve"})
  BY DEF Resolve
<1>2. d \in Dialogue /\ d.message \in Messages /\ d.message # None /\ d.next = "resolve"
  BY <1>1, DialogueAt, WorkflowAssumption DEF InDialogue
<1>3. ASSUME CommitLast(c, emptied, left)
      PROVE  \A i \in DOMAIN threads : KeepsSlots(threads[i], threads'[i])
  <2> DEFINE last == [emptied EXCEPT !.next = "end"]
  <2>1. /\ last \in Dialogue /\ last.next = "end"
        /\ last.source = None /\ last.target = None
    BY <1>2 DEF Dialogue, TranslatorNodes, Text
  <2>2. threads' = [threads EXCEPT ![call[c].mine.handoff] = last]
    BY <1>3 DEF CommitLast
  <2>3. saved'.next = "end" /\ saved'.answer.slots = {}
    <3>1. call[c].mine \in Root
      BY DEF FlowInv, FlowTypeOK, CallState
    <3>2. saved' = [call[c].mine EXCEPT !.next = "end", !.answer = left]
      BY <1>3 DEF CommitLast, CommitRoot
    <3>3. saved'.next = "end" /\ saved'.answer = left
      BY <3>1, <3>2 DEF Root
    <3> QED
      BY <3>3
  <2> HIDE DEF last
  <2>4. KeepsSlots(d, last)
    BY <1>2, <2>1, <2>3 DEF KeepsSlots, Dropped
  <2> QED
    BY <1>1, <2>1, <2>2, <2>4, DialogueKeeps
<1>4. ASSUME NEW source \in Merged(d.source, d.message), NEW target \in Merged(d.target, d.message),
             NEW next \in {"translate", "collect_source_text", "collect_target_language"},
             CommitDialogue(c, asked(source, target, next), call[c].token)
      PROVE  \A i \in DOMAIN threads : KeepsSlots(threads[i], threads'[i])
  <2>1. asked(source, target, next) \in Dialogue /\ KeepsSlots(d, asked(source, target, next))
    BY <1>2 DEF Dialogue, Merged, TranslatorNodes, KeepsSlots
  <2>2. threads' = [threads EXCEPT ![call[c].mine.handoff] = asked(source, target, next)]
    BY <1>4 DEF CommitDialogue
  <2> HIDE DEF asked
  <2> QED
    BY <1>1, <2>1, <2>2, DialogueKeeps
<1> QED
  BY <1>3, <1>4 DEF Resolve

LEMMA OthersKeep ==
    ASSUME FlowInv, OwnInv, NEW c \in Callers, Collect(c) \/ Interrupt(c) \/ Translate(c)
    PROVE  \A i \in DOMAIN threads : KeepsSlots(threads[i], threads'[i])
<1> DEFINE d == call[c].dialogue
<1>1. PICK nodes : InDialogue(c, nodes)
  BY DEF Collect, Interrupt, Translate
<1>2. d \in Dialogue /\ call[c].turn \in Text
  BY DEF FlowInv, FlowTypeOK, CallState
<1>3. PICK e \in Dialogue : threads' = [threads EXCEPT ![call[c].mine.handoff] = e] /\ KeepsSlots(d, e)
  <2>1. CASE Collect(c)
    <3> DEFINE told == [d EXCEPT !.message = call[c].turn, !.next = "resolve",
                                 !.since = d.since \cup {call[c].turn}]
    <3>1. told \in Dialogue /\ KeepsSlots(d, told)
      BY <1>2 DEF Dialogue, TranslatorNodes, KeepsSlots
    <3>2. threads' = [threads EXCEPT ![call[c].mine.handoff] = told]
      BY <1>2, <2>1 DEF Collect, CommitDialogue, Dialogue
    <3> QED
      BY <3>1, <3>2
  <2>2. CASE Interrupt(c)
    <3>1. [d EXCEPT !.question = d.message] \in Dialogue /\ KeepsSlots(d, [d EXCEPT !.question = d.message])
      BY <1>2 DEF Dialogue, KeepsSlots
    <3> QED
      BY <2>2, <3>1 DEF Interrupt
  <2>3. CASE Translate(c)
    <3>1. [d EXCEPT !.next = "end"] \in Dialogue /\ KeepsSlots(d, [d EXCEPT !.next = "end"])
      BY <1>2 DEF Dialogue, TranslatorNodes, KeepsSlots
    <3> QED
      BY <2>3, <3>1 DEF Translate, CommitLast
  <2> QED
    BY <2>1, <2>2, <2>3
<1> QED
  BY <1>1, <1>3, DialogueKeeps

LEMMA NextKeepsSlots ==
    ASSUME FlowInv, OwnInv, FlowNext
    PROVE  \A i \in DOMAIN threads : KeepsSlots(threads[i], threads'[i])
<1>1. ASSUME UNCHANGED threads PROVE \A i \in DOMAIN threads : KeepsSlots(threads[i], threads'[i])
  BY <1>1 DEF KeepsSlots
<1>2. ASSUME NEW d, threads' = Append(threads, d)
      PROVE  \A i \in DOMAIN threads : KeepsSlots(threads[i], threads'[i])
  <2>1. \A i \in DOMAIN threads : threads'[i] = threads[i]
    BY <1>2 DEF FlowInv, FlowTypeOK
  <2> QED
    BY <2>1 DEF KeepsSlots
<1>3. ASSUME NEW c \in Callers, CallerStep(c)
      PROVE  \/ UNCHANGED threads
             \/ \E d : threads' = Append(threads, d)
             \/ Resolve(c) \/ Collect(c) \/ Interrupt(c) \/ Translate(c)
  BY <1>3 DEF CallerStep, LookAtState, Resume, StartRun, Prepare, Classify, GenerateReply,
              ReadReply, ReadRaises, TryAgain, Delivered
<1>4. ASSUME NEW c \in Callers, CallerStep(c)
      PROVE  \A i \in DOMAIN threads : KeepsSlots(threads[i], threads'[i])
  BY <1>1, <1>2, <1>3, <1>4, ResolveKeeps, OthersKeep
<1> QED
  BY <1>1, <1>4 DEF FlowNext, Fail, TryAgain, Take

(***************************************************************************)
(* With one caller what a dialogue has learned is lost only when it ends   *)
(* without a translation, and then as a whole.                             *)
(***************************************************************************)
THEOREM SlotsStay ==
    ASSUME OneCaller
    PROVE  FlowSpec => SlotsKept
<1> DEFINE KeptIn(i) == LET d == threads[i]  e == threads'[i]
                        IN  \/ /\ d.source # None => e.source # None
                               /\ d.target # None => e.target # None
                            \/ /\ d.next # "end" /\ e.next = "end" /\ {e.source, e.target} = {None}
                               /\ saved'.next = "end" /\ saved'.answer.slots = {}
           AllKept == \A i \in 1..Len(threads) : KeptIn(i)
<1>1. FlowInv /\ OwnInv /\ [FlowNext]_flowVars => [AllKept]_flowVars
  <2> SUFFICES ASSUME FlowInv, OwnInv, FlowNext PROVE AllKept
    OBVIOUS
  <2>1. DOMAIN threads = 1..Len(threads)
    BY DEF FlowInv, FlowTypeOK
  <2> QED
    BY <2>1, NextKeepsSlots DEF KeepsSlots, Dropped
<1> QED
  BY <1>1, InitTyped, InitOwn, NextTyped, NextOwn, PTL DEF FlowSpec, SlotsKept
=============================================================================
