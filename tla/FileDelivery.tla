---------------------------- MODULE FileDelivery ----------------------------
(***************************************************************************)
(* The file delivery store, api/file_delivery/file_delivery_service.py: an *)
(* original on disk, its metadata in a Redis key that may expire, and the  *)
(* index of all ids. Uploads write the three one after the other, cleanup  *)
(* removes them one after the other; both may be cut short anywhere. Sizes *)
(* are counted in files. Resized variants are in FileVariants.             *)
(***************************************************************************)
EXTENDS Integers, FiniteSets

CONSTANTS
    Files,            \* the file ids
    Retention,        \* FILE_DELIVERY_RETENTION_DAYS
    ImageTTL,         \* FILE_DELIVERY_IMAGE_TTL_SECONDS, in days
    StorageLimit,     \* FILE_DELIVERY_STORAGE_LIMIT_BYTES, in files
    MaxDay            \* bound: the last day

ASSUME FileAssumption ==
    /\ Retention \in Int /\ ImageTTL \in Int /\ StorageLimit \in Int
    /\ MaxDay \in Nat \ {0}

VARIABLES
    today,
    upload,       \* where the upload of each file is
    created,      \* the day in its metadata, 0 before
    disk,         \* the files whose original is on disk
    keys,         \* the files whose metadata key was set and not deleted
    index         \* the index of ids

fileVars == <<today, upload, created, disk, keys, index>>

\* An upload ends as saved or failed; one that a full disk, a process death
\* or a failing clean-up cuts short ends as broken.
UploadStates == {"none", "checked", "written", "keyed", "unsaved", "saved", "failed", "broken"}

FileInit ==
    /\ today = 1
    /\ upload = [f \in Files |-> "none"]
    /\ created = [f \in Files |-> 0]
    /\ disk = {}
    /\ keys = {}
    /\ index = {}

----------------------------------------------------------------------------
\* _metadata_ttl_seconds: 0 stands for a key that does not expire.
MetadataTTL ==
    CASE ImageTTL <= 0                               -> 0
      [] ImageTTL > 0 /\ 0 < Retention /\ ImageTTL < Retention -> Retention
      [] OTHER                                       -> ImageTTL

\* The metadata key is there.
HasMetadata(f) == f \in keys /\ (MetadataTTL = 0 \/ today < created[f] + MetadataTTL)

\* Faulty: the last day of the retention period counts, too.
ExpiredEarly(f) == HasMetadata(f) /\ created[f] <= today - Retention

\* The test of get_expired_file_ids on one id.
Expired(f) == HasMetadata(f) /\ created[f] < today - Retention

\* get_expired_file_ids.
ExpiredFiles == IF Retention <= 0 THEN {} ELSE {f \in index : Expired(f)}

GotoUpload(f, state) == upload' = [upload EXCEPT ![f] = state]

\* save_file_bytes starts; over the limit it raises.
CheckStorage(f) ==
    /\ upload[f] = "none"
    /\ GotoUpload(f, IF StorageLimit > 0 /\ Cardinality(disk) + 1 > StorageLimit
                     THEN "failed" ELSE "checked")
    /\ UNCHANGED <<today, created, disk, keys, index>>

\* write_bytes. When it raises, nothing removes what was written.
WriteFile(f) ==
    /\ upload[f] = "checked"
    /\ created' = [created EXCEPT ![f] = today]
    /\ \/ GotoUpload(f, "written") /\ disk' = disk \cup {f}
       \/ GotoUpload(f, "broken") /\ disk' \in {disk, disk \cup {f}}
    /\ UNCHANGED <<today, keys, index>>

\* _RedisMetadataBackend.set: the key, then the index. Either call may
\* raise, with or without its effect.
SetKey(f) ==
    /\ upload[f] = "written"
    /\ \/ GotoUpload(f, "keyed") /\ keys' = keys \cup {f}
       \/ GotoUpload(f, "unsaved") /\ keys' \in {keys, keys \cup {f}}
    /\ UNCHANGED <<today, created, disk, index>>

AddToIndex(f) ==
    /\ upload[f] = "keyed"
    /\ \/ GotoUpload(f, "saved") /\ index' = index \cup {f}
       \/ GotoUpload(f, "unsaved") /\ index' \in {index, index \cup {f}}
    /\ UNCHANGED <<today, created, disk, keys>>

\* Faulty: the error is passed on at once.
UndoWriteSkipped(f) ==
    /\ upload[f] = "unsaved"
    /\ GotoUpload(f, "failed")
    /\ UNCHANGED <<today, created, disk, keys, index>>

\* The handler removes the original and raises again. unlink may fail.
UndoWrite(f) ==
    /\ upload[f] = "unsaved"
    /\ \/ GotoUpload(f, "failed") /\ disk' = disk \ {f}
       \/ GotoUpload(f, "broken") /\ UNCHANGED disk
    /\ UNCHANGED <<today, created, keys, index>>

\* The web process dies.
UploadDies(f) ==
    /\ upload[f] \in {"checked", "written", "keyed", "unsaved"}
    /\ GotoUpload(f, "broken")
    /\ UNCHANGED <<today, created, disk, keys, index>>

\* The steps of delete_file after the metadata was read.
Unlink(f) ==
    /\ disk' = disk \ {f}
    /\ UNCHANGED <<today, upload, created, keys, index>>

DeleteKey(f) ==
    /\ keys' = keys \ {f}
    /\ UNCHANGED <<today, upload, created, disk, index>>

RemoveFromIndex(f) ==
    /\ index' = index \ {f}
    /\ UNCHANGED <<today, upload, created, disk, keys>>

\* No upload lasts until the next day.
NextDay ==
    /\ today < MaxDay
    /\ \A f \in Files : upload[f] \in {"none", "saved", "failed", "broken"}
    /\ today' = today + 1
    /\ UNCHANGED <<upload, created, disk, keys, index>>

UploadStep(f) ==
    \/ CheckStorage(f) \/ WriteFile(f) \/ SetKey(f) \/ AddToIndex(f)
    \/ UndoWrite(f) \/ UploadDies(f)

----------------------------------------------------------------------------
FileTypeOK ==
    /\ today \in 1..MaxDay
    /\ upload \in [Files -> UploadStates]
    /\ created \in [Files -> 0..MaxDay]
    /\ disk \subseteq Files /\ keys \subseteq Files /\ index \subseteq Files
============================================================================
