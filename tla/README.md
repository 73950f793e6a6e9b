# Verification of the llm-chatbot

TLA+ modules for the Cube chatbot under `src/`, TLC configurations that check
them on small instances, and proofs checked by TLAPS. Paths below are relative
to `src/`.

1. [The system](#1-the-system)
2. [Modules and code](#2-modules-and-code)
3. [What the runs check](#3-what-the-runs-check)
4. [Where code and documents disagree](#4-where-code-and-documents-disagree)
5. [What is proved](#5-what-is-proved)
6. [Abstractions](#6-abstractions)
7. [What is not modelled](#7-what-is-not-modelled)
8. [How the project grew, and what is left](#8-how-the-project-grew-and-what-is-left)

## 1. The system

The Cube messenger calls a Flask webhook (`api/cube/router.py`). The web
threads parse the event, reserve a deduplication key and push the message on a
Redis list (`api/cube/service.py`, `api/cube/queue.py`). One worker process,
attached to uWSGI (`wsgi.ini`, `cube_worker.py`), takes the messages one at a
time (`api/cube/worker.py`): it stores the user's message in the conversation
store, runs the LangGraph workflow, which asks a language model for an answer
made of blocks (`api/llm/service.py`), sends the answer to Cube in parts, as
texts cut to Cube's limit (`api/cube/chunker.py`) or as rich notifications
(`api/cube/rich_blocks.py`), and stores it (`process_incoming_message`). What a
user fills into a notification comes back on the webhook as a new message. A
failure requeues the message until the retry budget is used; a crash leaves it
in the processing list, which the next start of the worker moves back. A second
attached process runs APScheduler (`api/scheduler_worker.py`), whose jobs take a
Redis lock each. A web chat, a file delivery service, a monitoring page and a
page of the scheduled tasks live in the same web processes; the pages read an
activity log that every process writes.

| Component | State it keeps | Operations | Hard behaviour | Correct when |
|---|---|---|---|---|
| Message queue `api/cube/queue.py` | two Redis lists, dedup keys, processed markers, each key with a TTL | enqueue (Lua), dequeue (move), acknowledge, requeue (MULTI), recover, mark, is-processed | a call fails after Redis has executed it; keys expire; several processes | nothing accepted is lost, nothing is queued twice |
| Worker `api/cube/worker.py` | the payload in hand; the attempt counter travels in the payload | recover, dequeue, check marker, check age, process, mark, acknowledge, requeue | death between any two calls; an overlapping second worker; retries that race age and markers | the retry budget holds, a marker never lies, every payload comes to an end |
| Message pipeline `api/cube/service.py` | none of its own; the order of its effects on store and Cube | store question, run workflow, send parts, store answer | each stage fails before or after its effect and the whole run is repeated | the history is complete, truthful and without duplicates |
| Conversation store `api/conversation_service.py` | documents per conversation in Mongo, a JSONL file or memory | append, get history | check-then-act of the file store, limits and eviction of the memory store, unique index of Mongo | a message with an id is there once; the newest stay |
| LLM answers `api/llm/service.py` | none | call with and without a schema, find the JSON in a text, repair it, load it, make blocks of it | bad habits of models in any combination; answers cut off | what was well formed is shown word for word, what was repairable as it was meant, and nothing else |
| Delivery plan `api/cube/chunker.py` | none | plan a delivery, cut a text | fences, tables, headers and paragraphs in any arrangement | no line lost, no part too long, nothing cut that fits |
| Blocks and callbacks `api/cube/{intents,intent_renderer,rich_blocks,payload,router}.py` | the ids a notification asks for | make cells, blocks and notifications; group a reply; parse either shape of callback | ids lost on the way; the same press posted again | the blocks arrive in order, the answers come back, each press once |
| Orchestrator `api/workflows/lg_orchestrator.py` | none; reads the thread before and after a run | new run, resume, read the reply | the second read sees another run; a failed node looks like a question | each call returns the reply to its own message |
| start_chat, translator `api/workflows/{start_chat,translator}/lg_graph.py` | the LangGraph checkpoint: message, answer, cards; slots and last question of the dialogue | the nodes, hand-off, interrupt, resume | values left over in the checkpoint; loops of questions; retries after an interrupt | slots are neither lost nor invented, cards belong to their answer |
| Scheduler lock `api/scheduled_tasks/_lock.py` | a Redis key with an expiry, a renewal thread, the lease | acquire, renew, ensure held, release | a job that outlives its lock; late threads; failing calls | one worker per job at a time |
| Cleanup job `api/scheduled_tasks/tasks/cleanup.py` | the list of expired ids it works through | list, delete one by one | death between unlink and the metadata; two cleanups | only expired files go, and no original becomes unreachable |
| File delivery `api/file_delivery/file_delivery_service.py` | originals and variants on disk, metadata in Redis or, for good, in a process' memory | save, view (makes a variant on demand), list expired, delete | three writes without a transaction; a limit that is compared, then exceeded; a variant made while its folder is removed | disk, metadata and index lead to each other, and what does not is left of a known failure |
| Activity log and pages `api/logging_service/service.py`, `api/monitoring_service.py`, `api/scheduled_tasks/inspection.py` | one file, a handler per process, the end of it that a page reads | append, roll over at midnight, heartbeat, status of daemons and tasks | each process rolls the shared file over for itself, and the first leaves the others behind in the dated file; log and lock are read one after the other | the pages show what is |
| Health checks `api/monitoring_service.py` | keys of their own in the stores they check | a few calls each, and their clean-up | any of them raises, or Redis comes back empty in between | a store reported as working is left as it was |
| Web chat `api/web_chat/service.py` | none | store, run workflow, store | shares threads with other requests | as the pipeline, without retries |
| Everything else | see [section 7](#7-what-is-not-modelled) | | | |

How they interact: webhook and worker share the Redis lists and keys only; the
worker calls the pipeline, the pipeline calls the store, the orchestrator and
the Cube client; what the orchestrator returns was made by the LLM service and
is cut by the chunker or laid out as blocks; the orchestrator and the web chat
share the checkpoints of a thread, with nothing to keep two runs of it apart;
the scheduler runs the cleanup under its lock, on the store that uploads and
views use without any lock; all processes share the activity log through the
file system alone.

The hazards are listed in `PROJECT.json`, each at its line, with the
properties that would catch it.

## 2. Modules and code

```
CubeQueue -- CubeWorker -- CubeMessaging --+-- CubeRefinement : MessageLedger ------ CubeMessagingProofs
ConversationStore ------------+-- CubePipeline ------------------------------------- CubePipelineProofs

Jsonish -- LlmReply -- MCReplies ----+
Lists --+-- Chunker -- MCChunker ----+-- MCAnswers    Lists -- ListProofs --+
        +-- RichBlocks -- CubeForms -+                MCChunker ------------+-- ChunkerProofs
                                                      CubeForms ------------+-- CubeFormsProofs

ChatWorkflow -- ChatWorkflowProofs

SchedulerLock --+
FileDelivery ---+-- CleanupJob ------+                CleanupJob, FileVariants ------ FileStoreProofs
FileVariants ------------------------+-- MCOperations
ActivityWatch -----------------------+                ActivityWatch, MonitorProbes -- ActivityWatchProofs
MonitorProbes -----------------------+
```

* **CubeQueue**: one action per method of the Redis backend. Redis runs a
  command at a time, so a method that talks to Redis once is one atomic step.
  A call that fails is offered with and without its effect. Payloads are
  numbered; an entry of a list is such a number and an attempt.
* **CubeWorker**: `run_worker` and `process_next_queued_message`, one action per
  call; `pc` says between which two calls a worker process is. `Crash` may
  happen anywhere, `Start` and `Recover` are `run_worker` up to its loop.
* **CubeMessaging**: queue and workers with the webhook, `accept_cube_message`
  (`AcceptCubeMessage`), and the clock. `told` are the messages whose sender
  was told that they are accepted. The variables `outcome`, `answers`, `runs`,
  `marked`, `recovered` are history: no guard reads them.
* **MessageLedger** is the abstract promise of queue and worker: work items
  with one attempt counter, which are answered while open, replaced by their
  next attempt within the budget, and closed only after a verdict.
  **CubeRefinement** maps the payloads in the two lists to the open items.
* **CubePipeline** opens up the worker's location `process`:
  `process_incoming_message` with all its stages, on **ConversationStore**, the
  three backends. Its property `ImplementsMessaging` says that the pipeline is
  a refinement of what CubeWorker takes it for.
* **Jsonish** is `json.loads`, strict and not, and `ast.literal_eval` on
  sequences of tokens: a recursive descent that gives a value, a failure or the
  `TypeError` of `literal_eval`. **LlmReply** is `generate_reply_intent` and
  `generate_json_reply` on top of it: the candidates cut out of a text, the
  repairs one by one, the loaders, and how a loaded value becomes blocks.
  **MCReplies** writes texts the way models do: a reply of one or two blocks in
  one of four layouts, with bad habits (quotes, bare keys, raw line breaks,
  fences, prose around it, ...) and cut off anywhere near its end.
* **Chunker**: `plan_delivery` and `chunk_text` as operators on sequences of
  lines, and the grid the service makes of a table. The kinds of lines keep the
  two tests of a table's rule apart: `IsRule` (`chunker.py:14`, the first cell)
  and `IsSeparatorRow` (`service.py:245`, every cell). **MCChunker** lets a text
  grow line by line.
* **Lists** has the list comprehension with a condition, `[e for e in s if ...]`,
  which the chunker, the blocks and the parsing of callbacks are full of.
* **RichBlocks**: the constructors of cells and blocks, the intents, their
  blocks, rows and requested ids, and their digest for the history.
  **CubeForms** sends a reply (`_send_intent_reply` groups the blocks into texts
  and notifications), lets a user fill in the fields and press a button, posts
  the values by either route, again if it likes, and makes a queued message of
  them (`payload.py`).
* **ChatWorkflow**: one thread. `saved` is the committed checkpoint, each call
  has its own copy (`mine`, `dialogue`) from which the nodes work. A node is an
  action; it commits the next checkpoint. The callers are the worker (which
  tries a message again) and the threads of the web chat (which do not).
* **SchedulerLock**: `run_locked_job`, the Redis lock, its renewal thread
  (`renewal` is when it wakes up next) and the lease (`lost`).
* **FileDelivery**: `save_file_bytes` in its three writes, and the parts of
  `delete_file`. **CleanupJob** runs them under the lock: each `ensure_held` is
  `BeginStep`, each call of `delete_file` an action.
* **FileVariants** is the same store seen by its readers: `get_file_variant`
  from the look-up to the written variant, step by step, against uploads, the
  cleanup's `rmtree`, the limit of the disk, and processes that decide for Redis
  or their own memory at their first call.
* **ActivityWatch**: the shared log with one rotating handler per process (a
  handler has a `stream`, to the current or a dated file, and the time of its
  next rollover; it is the handler of Python 3.11.9 and later, since
  `MEMORY.md:5` names 3.11.11, which does nothing at its rollover when a file of
  the dated name exists), the dated files, the heartbeats and lives of the two daemons, a job under its
  lock, and the two pages. **MonitorProbes**: the health checks as a list of
  calls each, with what they leave in Redis.
* **MCAnswers** and **MCOperations** run several of these modules in one
  configuration each; a behaviour is about one of them (`stretch`).

Operators named "Faulty" in a comment are plausible wrong versions of the
definition below them. They are part of no specification; they show that a
property can fail (`PROJECT.json`, "mutants").

## 3. What the runs check

All configurations switch deadlock checking off, because the bounds (clock,
copies, crashes, days) let every instance stop in the end.

| Run | Shows |
|---|---|
| `single` | One worker, one crash, one failing Redis call, a legacy backlog, repeated webhooks, a clock. `AcceptedNotLost`: a message Cube was told is accepted was enqueued, and is in a list until it is concluded. `OneFreshCopy`: at most one payload of a message is queued and young enough. `MarkerMeansAnswered`: markers never lie. `FirstComeFirstServed`: only a retry or a recovery is overtaken. `QueuedOnce`, `AttemptBudget`, `MarkedNeverRerun`: what holds of a single worker. `ImplementsLedger`: queue and worker implement the ledger. |
| `live` | `EventuallySettledOrStranded`: every payload is concluded, or lies in the processing list because a Redis call failed. `RestartSettlesAll`: a restart without further failures brings all of them to their end. |
| `pipeline` | Each of the three stores, answers of up to two parts, every stage failing before or after its effect, one crash, a message whose payload is queued twice; the memory store with room for one conversation of two documents. `UserStoredOnce`, `HistoryTruthful` (no stored answer without a delivered one, none before its question), `AnsweredIsRecorded`, `OmittedIsQuestion` (the prompt leaves out the right document, also when the memory store trims and evicts); `ImplementsMessaging`: the pipeline is what the worker takes it for. |
| `answers` | Three stretches of an answer's way. Texts of a model: `WellFormedVerbatim` (what a loader takes is shown word for word: no repair comes too early), `RepairsRestore` (any habits it was made for are repaired, with the exceptions the property names), `NothingInvented` (cut off or unreadable, what is shown was meant, or is the excuse, but no JSON). Texts on their way out: `LinesKept` (a grid leaves out the rule below its head and nothing else, unless the two tests of a rule differ on the table), `PartsFit` (within the limit, and nothing cut that fits). Blocks and callbacks: `PartsInOrder`, `AnswersArrive`, `PressCounted`. |
| `workflow` | One caller, three messages, two of which open a dialogue, each tried twice, two failures. `OwnReply`, `ReplyReadable`, `SlotsKept` (a filled slot stays, except that the end without a translation empties both); `EveryCallEnds`: no call circles between question and answer; `FlowTypeOK`. |
| `workflow_shared` | Two requests run one thread at once. `CardsCurrent` (a card belongs to the answer it comes with) and `SlotsFromDialogue` (every slot was said in the dialogue, none is invented). `OwnReply`, `SlotsKept` and `ReplyReadable` fail there and are not claimed. |
| `operations` | Four stretches. Two schedulers clean up under the lock while two files are uploaded, with every call failing with and without effect, deaths, delays up to the limits: `OneWorker`, `KeyRespected`, `SavedFindable`, `FailedLeavesNothing`, `UnlinkFinds`, `YoungFilesKept`. Two servers upload and view two pictures on a disk with room for two files, against the cleanup: `DiskAccounted`. Two daemons and a web process log across midnights while pages are read: `DaemonsShownTruly`, `TasksShownTruly`. The health checks: `ChecksLeaveNothing`. |

Two overlapping workers (each start of one recovers what the other holds) are
not run: `AcceptedNotLost`, `MarkerMeansAnswered`, `OneFreshCopy` and
`FirstComeFirstServed` are proved for any set of workers (section 5).
`QueuedOnce`, and with it the ledger, is proved for a single one; it does fail
with two, which `wsgi.ini` never starts.

The remaining runs are expected to find a violation; see section 4.

**Fairness.** `FairSpec` has weak fairness of the steps a worker can take
without a Redis failure, for each worker: the loop waits for nothing but calls
with timeouts, and uWSGI respawns an attached process that died. Webhooks,
failures, crashes and the clock are not fair. `LiveFlowSpec` has weak fairness
of the next step of each call: a node is a sequence of calls with timeouts. The
translator's dialogue is left free to go on for ever by its choices; that it
does not comes from the resume value being used once.

**Bounds.** The interesting cases need few actors: a race needs two workers (or
schedulers, or requests), a duplicate one message enqueued twice, an ordering
two messages, a cut-off retry two attempts. One crash and one failing call at
any place cover each pair of a half-done step and the recovery from it; the
proofs of section 5 cover the rest.

* `single`, `live`: `MaxTime` lets every TTL run out once in `single`, with
  `MessageTTL < DedupTTL` as `config.py` has it.
* `pipeline`: `MaxTime = 0`, TTLs are the subject of `single`. The constraint
  `Instance` of MCPipeline gives the lasting stores two payloads of one
  conversation, and the memory store three of two conversations (`Quiet` is
  alone in the second) with answers of one part and one attempt: what it needs
  to trim and to evict. The messages other than `Quiet` are interchangeable.
* `answers`: texts of one block with up to `MaxHabits = 3` habits at once (two
  blocks with up to two), the last `MaxCut = 3` tokens missing; contents that
  look like the syntax the repairs look for. Texts of up to `MaxText = 5` lines,
  limits 2 and 3: five lines are the fewest that hold a fenced block with text
  before and after it, or two tables with text between them. Replies of up to
  three blocks, each constructor at least once among them, two posts.
* `workflow`: two attempts and two failures reach a node that fails after its
  question was answered.
* `operations`, the lock: it lives three units with a renewal and a step of one
  unit each and no delay, the tightest setting `LockSettings` admits;
  `MaxClock = 3` lets it expire, after its owner died or could not renew it, and
  be taken by the other scheduler. `MaxDay = 3` is the day after the first
  deletion. The disk: two servers on a limit of two files exceed it by one. The
  log: a day of two heartbeats; `MaxNow = 4` is past the second midnight, so that
  with `Backups = 1` dated file kept, the first one is deleted and the handlers
  still in it roll over again; a window of one unit. `log_rollover` needs the
  first midnight only (`MaxNow = 3`). The pages read 7 and 8 lines: at most 6 can follow the last
  heartbeat of a daemon within the window, one heartbeat of the other daemon and
  two records each of the others before and after it (`Chatter = 1`) in each of
  two units. The deployed pages read 400 and 800 lines.

## 4. Where code and documents disagree

Each has a run that finds a counterexample; the quotations are in
`PROJECT.json`, "findings".

| Run | Property | In short |
|---|---|---|
| `marker_gap` | `RecoveredAnsweredNotRerun` | A death between the delivered answer and its marker makes the recovery answer again, which `config.py` says the marker prevents. |
| `record_failure` | `RecordFailureNotRaised` | A driver error while the answer is stored is not caught: the message is retried and answered again. |
| `pending_node` | `NewInputUnlessInterrupted` | A node that failed looks like a question; the next message is dropped. |
| `stale_card` | `TranslationShown` | A finished translation carries the card of an older answer, and the card is what is sent. |
| `log_rollover` | `LiveDaemonsShown` | The first process to log after midnight takes the shared log; the handlers of the others go on in the dated file, and live daemons are shown as not running. |

Other limits of the code, met while modelling, are stated in the properties as
exceptions, or kept out of the runs that would fail because of them:

* The memory store never looks at `message_id`, so a retried message is stored
  once per attempt (`append_message` promises otherwise,
  `api/conversation_service.py:88`); `pipeline` retries with the lasting stores
  only.
* Messages without an id are stored under the id `""`, which Mongo's unique
  index covers, so the second one of a conversation is dropped; the runs of the
  pipeline have no anonymous messages and `AnsweredRecorded` assumes there are
  none.
* With an image TTL below the retention period the metadata expire on the very
  day the file becomes due, and the cleanup no longer finds the file;
  `operations` and the theorem about `SavedFindable` assume `ImageTTL <= 0`, the
  default.
* A message whose question could not be delivered to Cube answers that question
  itself when it is tried again.
* Doubled brackets (`{{"kind": ...}}`) make `ast.literal_eval` raise a
  `TypeError` that `api/llm/service.py:616-620` does not catch; the docstring at
  lines 192-193 promises an answer for every text. `NothingInvented` names the
  case.
* `ensure_submit_button` of `api/cube/rich_blocks.py` is called by
  `intents_to_content_item` only, which the service does not use, so no button
  is added to a notification that has fields and none
  (`api/cube/intents.py:75-76` and two documents say that one is).
  `AnswersArrive` speaks of the buttons a reply has.
* `chunker.py:14` and `service.py:245` do not agree on what a table's rule is.
  The first looks at the first cell, which may be blank; the second at every
  cell, and never at the first line. So a table that begins with a rule, or
  whose second line has a blank first cell as in

      | Name | Value  |
      |      | (unit) |
      |------|--------|
      | x    | 1      |

  is split at a rule further below (there with `(unit)` in its head), and what
  is above that head is not sent. `LinesKept` excepts these tables (`Misread`).
* The cleanup of old uWSGI logs (`api/scheduled_tasks/tasks/cleanup.py:45-46`)
  goes by the date in the file's name, which `wsgi.ini` evaluates when uWSGI
  starts: after seven days of uptime the log in use is deleted.
* A worker busy with one message for longer than 180 seconds is shown as stale,
  and after a rollover a live daemon is not running until its next heartbeat, or
  as long as its handler stays in the dated file; `DaemonsShownTruly` is stated
  accordingly.
* A process that finds Redis down at its first call keeps its metadata in
  memory for good (`api/file_delivery/file_delivery_service.py:149`): neither
  another process nor the cleanup ever sees its files. `OriginalsExplained`
  names them, with the uploads whose process died in between.
* The check of the file metadata has no `finally`: one that fails leaves what it
  has written, and `ChecksLeaveNothing` excepts it. The cleanup of the store goes
  by the index, so it removes only an entry of which key and id are both there.
  A check that fails between the SET of the key and the SADD of the id
  (`api/file_delivery/file_delivery_service.py:512-513`) leaves a key the cleanup
  never sees, one that fails between its two deletions an id without a key.

## 5. What is proved

The proofs hold for all messages, workers, callers, schedulers, files, servers
and daemons and all settings that satisfy the named assumptions of the modules,
and for any value of the bounds. What a theorem needs beyond that is an ASSUME
of its own and is named below.

**CubeMessagingProofs** (its first lemmas are on sequences):
`Typing`; `Safety`, the inductive invariant `SafetyInv`; `NothingLost`
(`AcceptedNotLost`), `MarkersTruthful` (`MarkerMeansAnswered`) and
`Deduplication` (`OneFreshCopy`, if `0 < MessageTTL < DedupTTL`).
`AcceptedNotLost` alone is not inductive: that an acknowledgement loses nothing
needs that the worker has concluded the payload before, that a marker means an
answer needs that the worker writes it only after one. `SafetyInv` says both of
every location of a worker, and that the lists and the workers' hands hold
enqueued payloads only. That a payload which is queued stays queued or is
concluded is then shown call by call. Deduplication adds that the key of a
young payload has not expired. `ServedInOrder` (`FirstComeFirstServed`, any
number of workers) rests on `OrderInv`: every payload in a worker's hands, in
the processing list or set back was pushed before all the fresh ones of the
ready list, which lie there in the order of their arrival.

The same module, for a single worker (`SingleWorker`), any crashes, recoveries
and failing calls: `EachQueuedOnce` (`QueuedOnce`), `BudgetKept`
(`AttemptBudget`) and `ImplementationOfLedger` (`ImplementsLedger`). The
invariant `LedgerInv` (`LedgerInvariant`) says that the two lists are without
twins and apart, that what the worker holds is in the processing list, and what
the runs of a payload may be: one for each attempt up to the present one, that
of the present attempt being in the worker's hands, and one for each crash or
failed call, which can end a run without settling its attempt. With two workers
the recovery of one takes back what the other holds; a requeue then adds a
second entry of the copy, so none of this holds. `MarkersHold`
(`MarkedNeverRerun`, if `0 < MessageTTL < ProcessedTTL`) adds `MarkInv`: the
marker of a payload lives until the payload is too old to be processed, and a
worker that looked for the marker in vain holds one that is unmarked or too old.

**CubePipelineProofs**: `PipelineTyping`; `PipelineImplementsMessaging`: a step
of a stage is a step of the worker or a stutter of the message path. It rests on
`StagesKept`, which ties the stage of a worker to its location, so that the
theorems above hold of the pipeline as well (`PipelineLosesNothing`).
`AnsweredRecorded` (`AnsweredIsRecorded`, if every message has an id) says that
nothing that can fail between the delivered answer and the conclusion of its
payload leaves the history without it: the invariant says of each stage what is
stored by then, and that documents of the lasting stores stay. Without an id two
messages of a conversation are one document for Mongo; hence the assumption.
`QuestionsStoredOnce` (`UserStoredOnce`) holds by the unique index for any
number of workers, and for the local file, whose look-up and write are two
steps, with a single worker.

`AnswersWereGiven`, for every setting: the history has no more answers to a
payload than its user was given. That is not inductive, since a worker that has
delivered an answer and not stored it yet is going to add one; the invariant
`Claimed` counts these workers (`Owing`) with the stored answers. `HistoryTrue`
(`HistoryTruthful`) adds that each answer of a lasting store stands behind its
question (`AnswersBehind`), which follows because `Recorded` has the question in the
store before the answer is made; it assumes ids for the same reason as
`AnsweredRecorded`. `QuestionOmitted` (`OmittedIsQuestion`) rests on `Asked`: a
message handled for the first time finds its own question last in the
conversation, because every other question there is of a payload that was run
before, and storing one is what trims and evicts. It assumes a single worker,
as a second one may store its question between the two steps, and that messages
have ids or MongoDB is not the store, since the unique index drops a second
question without one.

**ChatWorkflowProofs**. For any number of callers on a thread, that is for the
worker and any number of web requests at once: `FlowTyping` (`FlowTypeOK`),
`CardsKept` (`CardsCurrent`) and `SlotsHeard` (`SlotsFromDialogue`). The reason
is in both cases that a node works on its caller's copy and commits all of it:
`CardInv` says of the checkpoint and of each copy that a card of start_chat lies
beside its own answer, `HeardInv` says of each dialogue and each copy of one
that its slots are among what was said since it began. So requests that overwrite
each other's checkpoint lose slots but do not mix them.
For one caller (`OneCaller`, what the deployment has as long as nobody uses the
web chat on the same thread): `RepliesReadable` (`ReplyReadable`), `RepliesOwn`
(`OwnReply`) and `SlotsStay` (`SlotsKept`: slots are emptied by the end of a
dialogue without a translation only, and the run of the root graph ends with
it). `OwnInv` follows a message through its
call: the copy of a run is the checkpoint (`Current`), the call acts on what it
saw (`Seen`), the run on a thread that was at rest is about the message of its
call, or resumes the dialogue with it as the answer (`Running`), and so is what
it leaves (`Result`). `workflow_shared` has two callers, for whom these fail.

**FileStoreProofs**, in three parts. The lock: `LockTyping`; `LockCoverage`, the inductive `LockInv`;
`MutualExclusion` (`OneWorker`) under `LockSettings`, that is
`RenewInterval + MaxDelay + MaxStep < LockTTL`; `KeyRespect` for every setting.
The invariant is about time: whoever works owns the key until after the latest
end of the step, and a lease not marked lost belongs to a renewal thread that is
in time. A failing renewal leaves `RenewInterval` less than a whole lock, which
must cover its delay and one step; hence the condition.

The cleanup (`CleanupTyping`): a step of the cleanup is a step of the lock
(`CleanupStepsLock`), so that the theorems of the lock carry over.
`CleanupTrace` is the invariant of store and job: each stage of an upload has
done its writes, everything planned for deletion is an ended upload older than
the retention period, and metadata are removed only when the original is gone.
From it follow, without the lock, `SavedStaysFindable` (`SavedFindable`, if
`ImageTTL <= 0`, the default), `FailedUploads` (`FailedLeavesNothing`) and
`YoungKept` (`YoungFilesKept`); and with the lock `UnlinkSafe` (`UnlinkFinds`).
So the lock is needed for the smooth run of the job, not for its safety.

The store as its readers see it: `StoreAccounted` (`DiskAccounted`, for finite sets of
pictures and servers). `Accounts` is the part about metadata: an upload has its
picture for itself, a request for a variant is about a picture that is on disk or
was deleted under it, and a deletion leaves a trace at each of its stages.
`RoomKept` is the part about the limit: usage and the writes that have found
room exceed it by fewer than there are servers, because a server is promised
room only while there is some. By `RoomSteps` each step frees room, promises
some when there is some, or keeps one promise.

**ActivityWatchProofs**: `TasksTrue` (`TasksShownTruly`, every setting). Its
invariant joins `SignsPast`, that no line in the log speaks of a daemon after its
death, to `TaskCovered`, that the lock outlives the run and that a page which has
read the log and not yet the lock was right about the worker.
`DaemonsTrue` (`DaemonsShownTruly`): that a dead daemon is not shown follows from
`SignsPast`; that a live one is shown needs that its heartbeat is among the lines
a page reads. A daemon that writes to the current file and left its last
heartbeat after that file was opened (`BeatIn`) has it in this file, however the
handlers of the others roll over; `BeatFound` bounds the lines behind it by those
of the time units since (`LinesAfter`). It assumes `TailsSuffice`: finitely many daemons, and pages that read more
lines than a window can bring (`(Window + 1) * MostLines < MonitorTail`). The code
limits neither the lines of the log nor their rate, so this is a condition on
the traffic: with more of it the page loses live daemons. The run is given tails
that satisfy it. `ProbesLeaveNothing` (`ChecksLeaveNothing`): the invariant
`ProbeInv` says for each stage of a check what it has written so far and which
of the calls ahead takes it back, or that the check has seen an unexpected
answer and will fail (`doubt`).

**ListProofs** has what the next two modules need of recursive functions and
folds over lists of any length. An induction theorem with an operator as a
parameter is of no use to the provers here, so induction is stated with sets:
`ListInduction` says that a set of lists with `<<>>` which is closed under
`Append` has all lists, `Recursion` and `FoldExists` give the functions that a
recursion or `FoldLeft` defines. From them follow the laws of `Picked`,
`FlattenSeq` and of a list mapped element by element.

**ChunkerProofs**, for texts of any length, every limit and both ways of
delivery: `TextTyped`, `NoLineLost` (`LinesKept`) and `AllPartsFit` (`PartsFit`).
Each loop of the code is a fold, and has an invariant over the elements read so
far (`TableInv` and `LineInv` of the two parsers, `ParaInv` of the paragraphs,
`ChunkInv` of the packing into messages, `MergeInv` of the merging): the finished
pieces and the open one together are what was read. `LineInv` also keeps the shape of
blocks (`Shaped`): every table of the plan has a rule, in the chunker's sense, as
its first or second line. `GridOfTable` compares this with the line at which the
grid is split: unless the two tests differ on the table (`Misread`), it is the
second, or there is no grid. For `PartsFit` the invariants add that whatever fits into
a message lies within one piece, and that two neighbours were only left apart
if they exceed the limit together. The line limit is positive; nothing else is
assumed.

**CubeFormsProofs**, for all replies made of the constructors' types
(`FormsAssumption`) and any number of posts:

* `RepliesInOrder` (`PartsInOrder`): `InOrder` and `Apart` are the invariants of
  the loop that groups blocks into messages and notifications: what was sent, the
  texts and the blocks in hand show together what was read, texts and blocks are
  never in hand at once, and, without blank texts, what is in hand is of
  another kind than what was sent last.
* `AnswersReachTheQueue` (`AnswersArrive`): `ArriveInv` follows a press from the
  form (`Formed`: it asks for each of its fields) through the posted values
  and the parser to the lines of the queued message, on both routes. It assumes
  `AskedAssumption`: blocks ask for their fields, which the constructors see to,
  and no field has one of the ids that Cube fills in itself.
* `PressesCountOnce` (`PressCounted`): `CountInv` says that the ids seen are those
  of the accepted posts, and how each post was judged by them. The core is that
  equal ids mean equal posts (`SameId`, `PressDecided`). A wrapped post has an id
  of its own; a flat one is identified by what was filled in, so the lines must
  tell what was pressed. That is `LegibleAssumption`: no choice has a blank label
  or value, no typed value is blank, and buttons of a reply that have the same id
  and text have the same value.

The code checks neither the ids of fields in `AskedAssumption` nor
`LegibleAssumption`: `ChoiceOption` takes blank labels
(`api/cube/intents.py:38-40`), and nothing compares the buttons of a reply. A
reply with two buttons that look alike, or with a blank choice, can have a second,
different press taken for a repetition of the first. The theorems hold of the
other replies.

**Model-checked only**:

* Liveness, which is out of the prover's reach like ENABLED and fairness.
* `WellFormedVerbatim`, `RepairsRestore` and `NothingInvented` of MCReplies. They
  are about what a recursive descent makes of a text: Jsonish declares RECURSIVE
  operators, in the reach of which tlapm has no SMT backend.

All other invariants and action properties of the runs are stated by a theorem.

Attempts at a proof changed the models. The status of a task (`Runtime` of
ActivityWatch) and the items of a posted form (`ResultData` of CubeForms) were
CASE expressions with overlapping guards, of which TLA+ leaves open which arm
counts, while the `if` chains of the code decide; both are IF expressions now.
The tails of `operations` were one line short of the bound that the proof of
`DaemonsTrue` needs. The list comprehensions were written with `SelectSeq`, whose
recursion inside a LET the provers cannot use; `Picked` of Lists says the same by
places. And what RichBlocks and CubeForms took for granted of their values became
the types `AnyText` to `Intent` and the two assumptions above, which the proofs
of `AnswersReachTheQueue` and `PressesCountOnce` need.

## 6. Abstractions

* *Messages* are model values; their text, the user and the channel are not
  modelled except as the conversation they belong to. In CubeMessaging only
  messages occur that get past parsing and the blank and wake-up filters: the
  others change no state. CubeForms has the parsing.
* *Redis* executes one command at a time and loses nothing. A failing call has
  been executed or not. Key expiry follows the same clock as the processes. (In
  MonitorProbes Redis may be restarted empty.)
* *The backlog of an older release* is a set of payloads without timestamp in
  the ready list at the start. A malformed payload does not occur: only
  `enqueue` writes to the list. (One that were there would be moved to the
  processing list and raise after that, at every start; `queue.py:205`.)
* *The thinking message* and logging touch no state and are left out, but for
  the activity log of ActivityWatch.
* *Documents* are ordered by `created_at` without ties. A line of the local
  store is written whole. Other writers of a conversation (the web chat) are
  not in CubePipeline.
* *LangGraph* is external. What the code relies on is modelled: a checkpoint
  after each node; a node that raised stays pending; `interrupt` stops the node
  and a resume value is used once, by the node's next interrupt; a subgraph has
  a checkpoint of its own for each hand-off, and what it shares with its parent
  is written back at its end (two checkpoints in LangGraph, one step here).
* *LLM answers* are any choice the code accepts, and an exception, in
  ChatWorkflow; LlmReply has how they are read. There a text is a sequence of
  tokens, a word being one, and of the kinds of blocks two are told apart, a text
  and a button.
* *Blocks*: of a cell its type, id, text and value are kept; colours, widths,
  links and the five languages are left out. Cube is external: a button can be
  pressed when every mandatory field has a value; the values of the requested
  ids come back, wrapped like a message or flat, perhaps more than once. The code
  joins the values of a line with ", " and writes "text (value)"; the model keeps
  them apart, so that labels in which these separators make two lines alike are
  left out.
* *The lock*: `MaxDelay` and `MaxStep` are assumptions on scheduling and on the
  job which the code does not enforce; without them, or with renewal switched
  off by its settings, `OneWorker` does not hold. A renewal that is still in
  flight when the release gives up waiting for it (one second) is a release
  that fails with the key extended.
* *The storage backend* of the conversations is resolved once and is the same
  for all processes; that of the file metadata is chosen by each (FileVariants).
* *Files* are all of one size, uploads do not last past midnight, the days of
  the retention and the seconds of the lock are independent clocks, reading the
  index and the metadata (`get_expired_file_ids`) is one step. A picture has
  one variant in FileVariants, and any known picture may be due there.
* *Lines* of a text have a kind instead of characters; a fence has three or
  four backquotes; a line that is like a rule in its first cell is one in every
  cell (`rule`, `ragged`) or not (`stub`, `raggedstub`). Line limits are positive.
* *The activity log* loses no record that is written; a unit of time is the
  daemons' idle wait. A rollover is one step: closing, renaming and opening
  follow each other in one call. The handler is modelled as the documented Python
  has it; up to 3.11.8 it removed the dated file instead, and the last process
  to log took the current file.

## 7. What is not modelled

* User profile, member lookup, translation engine and the rules that parse a
  translation request: read only, or without state; their outcomes are choices
  in the modules that call them. `generate_reply` returns the text as it is.
* Workflow registry, scheduled task registry, MCP registries, application
  set-up, configuration, MongoDB client: set up once per process, in sequence.
  (In the registry the cache is set before the bootstrap of the logs has run,
  `api/workflows/registry.py:73`; a failure there hits its first caller only.)
* Workflow diagrams, listings, the history of runs on the page of tasks, the
  routes of the file delivery beyond their calls of the store: output only.
* The loggers of topics, themes and workflows: written, never read by the rest.
* HTTP headers and the wrapping of a payload in the Cube client.
* Web chat: its runs of a thread are callers of ChatWorkflow. Its two writes to
  the history are not modelled; a failing `insert_one` there is not a
  `ConversationStoreError` either (`api/web_chat/service.py:124`), the same gap
  as in `record_failure`.
* Of the file delivery and the conversation store the listings; of the latter
  the Mongo TTL index as well. The deletion of old uWSGI logs.
* Development tools, scripts and the browser code are not part of the service.

## 8. How the project grew, and what is left

The most important behaviour came first: queue and worker, the ledger and their
proofs; then pipeline and store; the workflow; lock, file store and cleanup with
their proofs; the chunker; then the answers of the model, the blocks and the
callbacks; the store as its readers see it, the log, the pages and the checks;
then the proofs of the pipeline and of the store; those of the history, the
workflow, the log and the pages; last those of the chunker, the callbacks and
the checks. Modules that are proved about
use no RECURSIVE operator and name the parts of their invariants.

What would come next:

1. *Web chat on the store*: `send_web_chat_message` with its two writes, beside
   the worker on the same memory store.
2. *Promotion of a workflow* (`devtools/scripts`), which replaces a package in
   several steps, and the registry's reload.
3. Proofs: the memory store keeps the newest documents; the repairs of LLM
   answers, once Jsonish is written with recursive functions.
