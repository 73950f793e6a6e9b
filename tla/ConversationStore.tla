-------------------------- MODULE ConversationStore --------------------------
(***************************************************************************)
(* The conversation store, api/conversation_service.py, with its three     *)
(* backends. A document keeps its role, its message_id and the payload     *)
(* (copy) that caused it; the text itself is not modelled. Documents are   *)
(* listed in the order of created_at.                                      *)
(***************************************************************************)
EXTENDS Integers, SequencesExt

CONSTANTS
    Conversations,    \* the (user_id, conversation_id) pairs
    EmptyId,          \* the message_id of a message that came without one
    NoIdField,        \* stands for a document without a message_id field
    Backends,         \* the backends to consider: mongo, local, memory
    HistoryLimit,     \* CONVERSATION_MAX_MESSAGES
    MaxUsers          \* _InMemoryBackend.MAX_USERS

ASSUME StoreAssumption ==
    /\ EmptyId # NoIdField
    /\ Backends \subseteq {"mongo", "local", "memory"}
    /\ HistoryLimit \in Nat \ {0}
    /\ MaxUsers \in Nat \ {0}

VARIABLES
    documents,    \* the documents of each conversation, oldest first
    recency,      \* memory backend: the stored conversations, least recent first
    backend       \* what _resolve_backend_name yields, the same for all processes

storeVars == <<documents, recency, backend>>

----------------------------------------------------------------------------
UserDocument(id, copy) == [role |-> "user", id |-> id, copy |-> copy]

AssistantDocument(copy) == [role |-> "assistant", id |-> NoIdField, copy |-> copy]

StoreInit ==
    /\ documents = [c \in Conversations |-> <<>>]
    /\ recency = <<>>
    /\ backend \in Backends

SameKey(d, e) == d.role = e.role /\ d.id = e.id

LastOf(docs, n) == SubSeq(docs, IF Len(docs) > n THEN Len(docs) - n + 1 ELSE 1, Len(docs))

FirstOf(docs, n) == SubSeq(docs, 1, IF Len(docs) > n THEN n ELSE Len(docs))

Touch(conv) == Append(SelectSeq(recency, LAMBDA c : c # conv), conv)

\* Faulty: no unique index.
MongoAppendAlways(conv, doc) ==
    /\ documents' = [documents EXCEPT ![conv] = Append(@, doc)]
    /\ UNCHANGED <<recency, backend>>

\* The partial unique index covers the documents that have a message_id,
\* the empty one included; DuplicateKeyError is swallowed.
MongoAppend(conv, doc) ==
    /\ documents' = IF doc.id # NoIdField /\ \E d \in ToSet(documents[conv]) : SameKey(d, doc)
                  THEN documents
                  ELSE [documents EXCEPT ![conv] = Append(@, doc)]
    /\ UNCHANGED <<recency, backend>>

\* _is_duplicate reads the file first and takes an empty id for none.
LocalIsDuplicate(conv, doc) ==
    /\ doc.id \notin {EmptyId, NoIdField}
    /\ \E d \in ToSet(documents[conv]) : SameKey(d, doc)

\* Then the line is appended to the file.
LocalWrite(conv, doc) ==
    /\ documents' = [documents EXCEPT ![conv] = Append(@, doc)]
    /\ UNCHANGED <<recency, backend>>

\* Faulty: the oldest documents are kept.
MemoryAppendKeepsOldest(conv, doc) ==
    /\ documents' = [documents EXCEPT ![conv] = FirstOf(Append(@, doc), HistoryLimit)]
    /\ recency' = Touch(conv) /\ UNCHANGED backend

\* No duplicate check. The newest HistoryLimit documents are kept, and the
\* conversation out of use for longest makes room for a new one.
MemoryAppend(conv, doc) ==
    LET evict == conv \notin ToSet(recency) /\ Len(recency) >= MaxUsers
        kept  == IF evict THEN [documents EXCEPT ![Head(recency)] = <<>>] ELSE documents
    IN  /\ documents' = [kept EXCEPT ![conv] = LastOf(Append(@, doc), HistoryLimit)]
        /\ recency' = SelectSeq(Touch(conv), LAMBDA c : ~(evict /\ c = Head(recency)))
        /\ UNCHANGED backend

\* append_message, with the backends that do it in one step.
AppendMessage(conv, doc) ==
    CASE backend = "mongo"  -> MongoAppend(conv, doc)
      [] backend = "memory" -> MemoryAppend(conv, doc)
      [] backend = "local"  -> IF LocalIsDuplicate(conv, doc) THEN UNCHANGED storeVars
                               ELSE LocalWrite(conv, doc)

\* Faulty: sorted by age, then cut.
GetHistoryOldest(conv) == FirstOf(documents[conv], HistoryLimit)

\* get_history(user_id, conversation_id=...): the newest HistoryLimit
\* documents, and for the memory backend the mark of recent use.
GetHistory(conv) == LastOf(documents[conv], HistoryLimit)

MarkUsed(conv) ==
    /\ recency' = IF conv \in ToSet(recency) THEN Touch(conv) ELSE recency
    /\ UNCHANGED <<documents, backend>>

\* A process with the memory backend dies and takes the store with it; the
\* other backends keep their documents.
ForgetOnExit ==
    IF backend = "memory"
    THEN documents' = [c \in Conversations |-> <<>>] /\ recency' = <<>> /\ UNCHANGED backend
    ELSE UNCHANGED storeVars
=============================================================================
