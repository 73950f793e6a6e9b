---------------------------- MODULE FileVariants ----------------------------
(***************************************************************************)
(* Requests against the cleanup on the file delivery store                 *)
(* (api/file_delivery/file_delivery_service.py): originals and the resized *)
(* variants made from them on demand share a disk with a limit, and each   *)
(* process decides at its first call whether its metadata are in Redis or, *)
(* when that does not answer, for the rest of its life in its own memory.  *)
(* FileDelivery and CleanupJob have the metadata calls and the ages in     *)
(* detail; here they are one step, and any known picture may be due. Sizes *)
(* are counted in files, and a picture has one variant.                    *)
(***************************************************************************)
EXTENDS Integers, FiniteSets

CONSTANTS
    Pictures,         \* the file ids
    Servers,          \* the requests served at a time
    Sweeper,          \* the scheduler process
    DiskLimit         \* FILE_DELIVERY_STORAGE_LIMIT_BYTES, in files

ASSUME VariantAssumption ==
    /\ DiskLimit \in Nat \ {0}
    /\ Sweeper \notin Servers

VARIABLES
    originals,  \* the pictures on disk
    variants,   \* those with a variant on disk
    folders,    \* those with a directory of variants
    meta,       \* those with metadata in Redis
    local,      \* those with metadata in the memory of each server
    backend,    \* _metadata_backend of each process
    step,       \* where the request of each server is
    target,     \* the picture it is about
    sweep,      \* where delete_file is
    victim,     \* the picture it deletes
    fate,       \* what became of the upload of each picture
    raced       \* deleted during a request for them, or not wholly

diskVars == <<originals, variants, folders>>
metaVars == <<meta, local, backend>>
requestVars == <<step, target>>
sweepVars == <<sweep, victim>>
variantVars == <<diskVars, metaVars, requestVars, sweepVars, fate, raced>>

VariantInit ==
    /\ originals = {} /\ variants = {} /\ folders = {}
    /\ meta = {}
    /\ local = [s \in Servers |-> {}]
    /\ backend = [p \in Servers \cup {Sweeper} |-> "unset"]
    /\ step = [s \in Servers |-> "idle"]
    /\ target = [s \in Servers |-> CHOOSE f \in Pictures : TRUE]
    /\ sweep = "idle" /\ victim = CHOOSE f \in Pictures : TRUE
    /\ fate = [f \in Pictures |-> "none"]
    /\ raced = {}

----------------------------------------------------------------------------
\* _storage_usage_bytes.
Usage == Cardinality(originals) + Cardinality(variants)

\* _assert_storage_limit passes.
Fits == Usage + 1 <= DiskLimit

\* _get_metadata_backend, and the ids list_ids gives p.
BackendOf(p) ==
    \/ backend[p] # "unset" /\ UNCHANGED backend
    \/ backend[p] = "unset" /\ \E b \in {"redis", "memory"} : backend' = [backend EXCEPT ![p] = b]

Known(s) == IF backend'[s] = "redis" THEN meta ELSE local[s]

GotoStep(s, where) == step' = [step EXCEPT ![s] = where]

Ends(s) == GotoStep(s, "idle") /\ UNCHANGED <<target, sweepVars, raced>>

Continues(s, from, to) ==
    /\ step[s] = from /\ GotoStep(s, to)
    /\ UNCHANGED <<target, sweepVars, raced>>

\* save_file_bytes.
BeginUpload(s, f) ==
    /\ step[s] = "idle" /\ fate[f] = "none"
    /\ \/ Fits /\ GotoStep(s, "save") /\ fate' = [fate EXCEPT ![f] = "uploading"]
       \/ ~Fits /\ UNCHANGED step /\ fate' = [fate EXCEPT ![f] = "refused"]
    /\ target' = [target EXCEPT ![s] = f]
    /\ UNCHANGED <<diskVars, metaVars, sweepVars, raced>>

\* write_bytes; when it raises a part of the file may stay.
WriteOriginal(s) ==
    /\ \/ Continues(s, "save", "register") /\ originals' = originals \cup {target[s]} /\ UNCHANGED fate
       \/ /\ Continues(s, "save", "idle")
          /\ originals' \in {originals, originals \cup {target[s]}}
          /\ fate' = [fate EXCEPT ![target[s]] = "leaked"]
    /\ UNCHANGED <<variants, folders, metaVars>>

\* _save_metadata. Memory does not fail.
SaveMetadata(s) ==
    /\ BackendOf(s)
    /\ \/ /\ backend'[s] = "redis" /\ Continues(s, "register", "idle")
          /\ meta' = meta \cup {target[s]} /\ fate' = [fate EXCEPT ![target[s]] = "saved"]
          /\ UNCHANGED local
       \/ /\ backend'[s] = "redis" /\ Continues(s, "register", "undo")
          /\ UNCHANGED <<meta, local, fate>>
       \/ /\ backend'[s] = "memory" /\ Continues(s, "register", "idle")
          /\ local' = [local EXCEPT ![s] = @ \cup {target[s]}]
          /\ fate' = [fate EXCEPT ![target[s]] = "saved"]
          /\ UNCHANGED meta
    /\ UNCHANGED diskVars

UndoUpload(s) ==
    /\ Continues(s, "undo", "idle")
    /\ \/ originals' = originals \ {target[s]} /\ fate' = [fate EXCEPT ![target[s]] = "refused"]
       \/ UNCHANGED originals /\ fate' = [fate EXCEPT ![target[s]] = "leaked"]
    /\ UNCHANGED <<variants, folders, metaVars>>

----------------------------------------------------------------------------
\* get_file_variant: the metadata and the original are there. (Metadata go
\* after the original, so that the two look-ups are one.)
BeginView(s, f) ==
    /\ step[s] = "idle"
    /\ BackendOf(s) /\ f \in Known(s) /\ f \in originals
    /\ GotoStep(s, "folder")
    /\ target' = [target EXCEPT ![s] = f]
    /\ UNCHANGED <<diskVars, meta, local, sweepVars, fate, raced>>

MakeFolder(s) ==
    /\ Continues(s, "folder", "look")
    /\ folders' = folders \cup {target[s]}
    /\ UNCHANGED <<originals, variants, metaVars, fate>>

\* The variant exists and is served, or is to be made.
LookForVariant(s) ==
    /\ Continues(s, "look", IF target[s] \in variants THEN "idle" ELSE "resize")
    /\ UNCHANGED <<diskVars, metaVars, fate>>

\* _create_variant_bytes; without the original it raises.
Resize(s) ==
    /\ Continues(s, "resize", IF target[s] \in originals THEN "room" ELSE "idle")
    /\ UNCHANGED <<diskVars, metaVars, fate>>

\* Faulty: the limit is for uploads only.
CheckRoomNever(s) ==
    /\ Continues(s, "room", "put")
    /\ UNCHANGED <<diskVars, metaVars, fate>>

CheckRoom(s) ==
    /\ Continues(s, "room", IF Fits THEN "put" ELSE "idle")
    /\ UNCHANGED <<diskVars, metaVars, fate>>

\* write_bytes raises without a directory.
WriteVariant(s) ==
    /\ Continues(s, "put", "idle")
    /\ variants' = IF target[s] \in folders THEN variants \cup {target[s]} ELSE variants
    /\ UNCHANGED <<originals, folders, metaVars, fate>>

\* The uWSGI worker dies or is recycled, and with it the metadata in its
\* memory.
ServerDies(s) ==
    /\ Ends(s)
    /\ backend' = [backend EXCEPT ![s] = "unset"]
    /\ local' = [local EXCEPT ![s] = {}]
    /\ fate' = [f \in Pictures |->
                  IF f \in local[s] \/ (target[s] = f /\ step[s] \in {"save", "register", "undo"})
                  THEN "leaked" ELSE fate[f]]
    /\ UNCHANGED <<diskVars, meta>>

----------------------------------------------------------------------------
\* delete_file on an expired id. A scheduler on its own memory finds none.
BeginDelete(f) ==
    /\ sweep = "idle"
    /\ BackendOf(Sweeper) /\ backend'[Sweeper] = "redis" /\ f \in meta
    /\ sweep' = "unlink" /\ victim' = f
    /\ UNCHANGED <<diskVars, meta, local, requestVars, fate, raced>>

Viewing(s) == step[s] \in {"folder", "look", "resize", "room", "put"}

UnlinkOriginal ==
    /\ sweep = "unlink" /\ sweep' = "folder"
    /\ originals' = originals \ {victim}
    /\ raced' = IF \E s \in Servers : Viewing(s) /\ target[s] = victim THEN raced \cup {victim} ELSE raced
    /\ UNCHANGED <<variants, folders, metaVars, requestVars, victim, fate>>

\* Faulty: the directory stays.
RemoveVariantsNever ==
    /\ sweep = "folder" /\ sweep' = "drop"
    /\ UNCHANGED <<diskVars, metaVars, requestVars, victim, fate, raced>>

\* rmtree with ignore_errors: first the files,
RemoveVariants ==
    /\ sweep = "folder"
    /\ \/ victim \notin folders /\ sweep' = "drop" /\ UNCHANGED <<variants, raced>>
       \/ victim \in folders /\ sweep' = "rmdir" /\ variants' = variants \ {victim} /\ UNCHANGED raced
       \/ victim \in folders /\ sweep' = "drop" /\ raced' = raced \cup {victim} /\ UNCHANGED variants
    /\ UNCHANGED <<originals, folders, metaVars, requestVars, victim, fate>>

\* then the directory, unless a file has come back.
RemoveFolder ==
    /\ sweep = "rmdir" /\ sweep' = "drop"
    /\ folders' = IF victim \in variants THEN folders ELSE folders \ {victim}
    /\ UNCHANGED <<originals, variants, metaVars, requestVars, victim, fate, raced>>

\* The metadata go; the call may raise, and the job ends.
DropMetadata ==
    /\ sweep = "drop" /\ sweep' = "idle"
    /\ meta' \in {meta, meta \ {victim}}
    /\ UNCHANGED <<diskVars, local, backend, requestVars, victim, fate, raced>>

SweeperDies ==
    /\ sweep' = "idle"
    /\ backend' = [backend EXCEPT ![Sweeper] = "unset"]
    /\ UNCHANGED <<diskVars, meta, local, requestVars, victim, fate, raced>>

VariantNext ==
    \/ \E s \in Servers :
          \/ \E f \in Pictures : BeginUpload(s, f) \/ BeginView(s, f)
          \/ WriteOriginal(s) \/ SaveMetadata(s) \/ UndoUpload(s)
          \/ MakeFolder(s) \/ LookForVariant(s) \/ Resize(s) \/ CheckRoom(s) \/ WriteVariant(s)
          \/ ServerDies(s)
    \/ \E f \in Pictures : BeginDelete(f)
    \/ UnlinkOriginal \/ RemoveVariants \/ RemoveFolder \/ DropMetadata \/ SweeperDies

VariantSpec == VariantInit /\ [][VariantNext]_variantVars

----------------------------------------------------------------------------
\* Uploads and variants may exceed the limit together, since each looks
\* before it writes, but by no more than the requests there are besides one.
OvershootBounded == Usage <= DiskLimit + Cardinality(Servers) - 1

\* An original that no cleanup will find is one whose upload is under way
\* or was cut short, or whose metadata are in the memory of one server.
OriginalsExplained ==
    \A f \in originals \ meta :
        fate[f] \in {"uploading", "leaked"} \/ \E s \in Servers : f \in local[s]

\* A variant that no cleanup will find is left of a request that overlapped
\* with the deletion, or of a deletion that failed in silence.
VariantsExplained == \A f \in variants \ meta : f \in originals \cup raced

(***************************************************************************)
(* Every file in the store is accounted for: no more than the limit and    *)
(* the requests in flight (file_delivery_service.py:132), and what has lost*)
(* its metadata has done so in one of the known ways (lines 149, 286, 390),*)
(* never by a legal sequence of uploads, views and cleanups alone.         *)
(***************************************************************************)
DiskAccounted == OvershootBounded /\ OriginalsExplained /\ VariantsExplained
============================================================================
