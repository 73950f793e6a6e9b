----------------------------- MODULE CleanupJob -----------------------------
(***************************************************************************)
(* The scheduled job that removes expired files,                           *)
(* _cleanup_expired_file_delivery_files of                                 *)
(* api/scheduled_tasks/tasks/cleanup.py, run by several schedulers under   *)
(* the lock of SchedulerLock on the store of FileDelivery while uploads go *)
(* on. Each question to the lease is followed by one step of the job: the  *)
(* listing, or one delete_file, which itself takes several calls.          *)
(***************************************************************************)
EXTENDS SchedulerLock, FileDelivery

VARIABLES
    plan,       \* the ids each job has still to delete
    stage,      \* where it is in its step
    current     \* the file it deletes

jobVars == <<plan, stage, current>>

allVars == <<lockVars, fileVars, jobVars>>

CONSTANT NoFile

ASSUME CleanupAssumption == NoFile \notin Files

Stages == {"list", "next", "load", "check", "unlink", "key", "index"}

CleanupInit ==
    /\ LockInit /\ FileInit
    /\ plan = [s \in Schedulers |-> {}]
    /\ stage = [s \in Schedulers |-> "list"]
    /\ current = [s \in Schedulers |-> NoFile]

----------------------------------------------------------------------------
At(s, where) == job[s] = "working" /\ stage[s] = where

GotoStage(s, where) == stage' = [stage EXCEPT ![s] = where]

\* The job is over, with or without an exception.
LeaveJob(s) ==
    /\ plan' = [plan EXCEPT ![s] = {}]
    /\ GotoStage(s, "list")
    /\ current' = [current EXCEPT ![s] = NoFile]

Raises(s) == StepDone(s) /\ job'[s] = "release" /\ LeaveJob(s)

\* ensure_held, then the listing or the next delete_file.
BeginStep(s) ==
    /\ EnsureHeld(s)
    /\ \/ /\ stage[s] = "list"
          /\ UNCHANGED jobVars
       \/ /\ stage[s] = "next"
          /\ \E f \in plan[s] :
                /\ plan' = [plan EXCEPT ![s] = @ \ {f}]
                /\ current' = [current EXCEPT ![s] = f]
          /\ GotoStage(s, "load")
    /\ UNCHANGED fileVars

\* On to the next file, or the job returns.
NextFile(s) ==
    /\ StepDone(s)
    /\ \/ plan[s] # {} /\ job'[s] = "between" /\ GotoStage(s, "next")
          /\ current' = [current EXCEPT ![s] = NoFile] /\ UNCHANGED plan
       \/ plan[s] = {} /\ job'[s] = "release" /\ LeaveJob(s)

ListExpired(s) ==
    /\ At(s, "list")
    /\ \/ /\ ExpiredFiles # {}
          /\ plan' = [plan EXCEPT ![s] = ExpiredFiles]
          /\ GotoStage(s, "next")
          /\ StepDone(s) /\ job'[s] = "between"
          /\ UNCHANGED current
       \/ ExpiredFiles = {} /\ Raises(s)
    /\ UNCHANGED fileVars

\* delete_file: an id without metadata is passed over.
LoadMetadata(s) ==
    /\ At(s, "load")
    /\ \/ HasMetadata(current[s]) /\ GotoStage(s, "check") /\ UNCHANGED <<lockVars, plan, current>>
       \/ ~HasMetadata(current[s]) /\ NextFile(s)
    /\ UNCHANGED fileVars

\* file_path.exists().
CheckDisk(s) ==
    /\ At(s, "check")
    /\ GotoStage(s, IF current[s] \in disk THEN "unlink" ELSE "key")
    /\ UNCHANGED <<lockVars, plan, current, fileVars>>

\* Faulty: the metadata go first.
UnlinkFileLast(s) ==
    /\ At(s, "unlink")
    /\ DeleteKey(current[s]) /\ GotoStage(s, "key")
    /\ UNCHANGED <<lockVars, plan, current>>

\* unlink; FileNotFoundError when another has been faster.
UnlinkFile(s) ==
    /\ At(s, "unlink")
    /\ \/ /\ current[s] \in disk
          /\ Unlink(current[s]) /\ GotoStage(s, "key")
          /\ UNCHANGED <<lockVars, plan, current>>
       \/ UNCHANGED fileVars /\ Raises(s)

\* _RedisMetadataBackend.delete: the key, then the index. Either call may
\* raise, with or without its effect.
DeleteMetadata(s) ==
    /\ At(s, "key")
    /\ \/ DeleteKey(current[s]) /\ GotoStage(s, "index") /\ UNCHANGED <<lockVars, plan, current>>
       \/ (DeleteKey(current[s]) \/ UNCHANGED fileVars) /\ Raises(s)

Unindex(s) ==
    /\ At(s, "index")
    /\ \/ RemoveFromIndex(current[s]) /\ NextFile(s)
       \/ (RemoveFromIndex(current[s]) \/ UNCHANGED fileVars) /\ Raises(s)

CleanerDies(s) == Die(s) /\ LeaveJob(s) /\ UNCHANGED fileVars

\* The steps of the lock that the job does not see, or that end it.
LockOnly(s) ==
    /\ \/ (Acquire(s) \/ AcquireRaises(s) \/ Renew(s) \/ RenewFails(s) \/ Release(s))
          /\ UNCHANGED jobVars
       \/ Abort(s) /\ LeaveJob(s)
    /\ UNCHANGED fileVars

CleanerStep(s) ==
    \/ BeginStep(s) \/ ListExpired(s) \/ LoadMetadata(s) \/ CheckDisk(s)
    \/ UnlinkFile(s) \/ DeleteMetadata(s) \/ Unindex(s) \/ CleanerDies(s)

CleanupNext ==
    \/ \E s \in Schedulers : LockOnly(s) \/ CleanerStep(s)
    \/ LockTick /\ UNCHANGED <<fileVars, jobVars>>
    \/ ((\E f \in Files : UploadStep(f)) \/ NextDay) /\ UNCHANGED <<lockVars, jobVars>>

CleanupSpec == CleanupInit /\ [][CleanupNext]_allVars

----------------------------------------------------------------------------
CleanupTypeOK ==
    /\ LockTypeOK /\ FileTypeOK
    /\ plan \in [Schedulers -> SUBSET Files]
    /\ stage \in [Schedulers -> Stages]
    /\ current \in [Schedulers -> Files \cup {NoFile}]
    /\ \A s \in Schedulers :
          /\ current[s] # NoFile <=> stage[s] \notin {"list", "next"}
          /\ stage[s] = "next" => plan[s] # {}
          /\ stage[s] # "list" => job[s] \in {"between", "working"}

(***************************************************************************)
(* file_delivery_service.py:174: cleanup can still find what it has to     *)
(* delete. An upload that succeeded leaves no original on disk that the    *)
(* metadata and the index do not lead to, wherever a cleanup was cut short.*)
(***************************************************************************)
SavedFindable ==
    \A f \in disk : upload[f] = "saved" => HasMetadata(f) /\ f \in index

(***************************************************************************)
(* An upload that reported an error has taken its original back            *)
(* (save_file_bytes, lines 302-310).                                       *)
(***************************************************************************)
FailedLeavesNothing == \A f \in disk : upload[f] # "failed"

(***************************************************************************)
(* The cleanup never takes a file the retention period still covers, even  *)
(* though it acts on a list that was made before.                          *)
(***************************************************************************)
YoungFilesKept ==
    [][\A f \in Files :
          f \in disk \ disk' /\ upload[f] = "saved" => created[f] + Retention < today]_allVars

(***************************************************************************)
(* exists() and unlink() are two calls. The lock makes them one: what a    *)
(* cleanup is about to unlink is there, so no FileNotFoundError ends it.   *)
(***************************************************************************)
UnlinkFinds == \A s \in Schedulers : At(s, "unlink") => current[s] \in disk
============================================================================
