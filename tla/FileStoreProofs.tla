--------------------------- MODULE FileStoreProofs ---------------------------
(***************************************************************************)
(* The file store: the cleanup job and the lock it runs under, and pictures *)
(* with their variants against uploads, views and the cleanup; for every set *)
(* of schedulers, servers and files and every setting the theorems name.   *)
(***************************************************************************)
EXTENDS CleanupJob, FileVariants, FiniteSetTheorems, TLAPS

----------------------------------------------------------------------------
(***************************************************************************)
(* The lock of a scheduled job, for every set of schedulers and every      *)
(* setting that leaves room for a late renewal and a long step.            *)
(***************************************************************************)
(***************************************************************************)
(* A step keeps the types. In particular no lock ever reaches further than *)
(* LockTTL into the future.                                                *)
(***************************************************************************)
LEMMA LockTypeStep == LockTypeOK /\ LockNext => LockTypeOK'
<1> SUFFICES ASSUME LockTypeOK, LockNext PROVE LockTypeOK'
  OBVIOUS
<1> USE LockAssumption DEF LockTypeOK, JobStates, Renews
<1>1. CASE LockTick
  BY <1>1 DEF LockTick
<1>2. ASSUME NEW s \in Schedulers, LockStep(s) PROVE LockTypeOK'
  <2>1. CASE Acquire(s)
    BY <2>1 DEF Acquire, Grant, Goto
  <2>2. CASE AcquireRaises(s)
    BY <2>2 DEF AcquireRaises, Grant
  <2>3. CASE EnsureHeld(s) \/ Abort(s) \/ StepDone(s)
    BY <2>3 DEF EnsureHeld, Abort, StepDone, Goto
  <2>4. CASE Renew(s)
    BY <2>4 DEF Renew, Owns
  <2>5. CASE RenewFails(s)
    BY <2>5 DEF RenewFails, NoThread
  <2>6. CASE Release(s)
    BY <2>6 DEF Release, Goto, NoThread
  <2>7. CASE Die(s)
    BY <2>7 DEF Die, Goto, NoThread
  <2> QED
    BY <1>2, <2>1, <2>2, <2>3, <2>4, <2>5, <2>6, <2>7 DEF LockStep
<1> QED
  BY <1>1, <1>2 DEF LockNext

(***************************************************************************)
(* Under LockSettings the renewal thread is started.                       *)
(***************************************************************************)
LEMMA SettingsRenew == LockSettings => Renews
BY LockAssumption DEF LockSettings, Renews

(***************************************************************************)
(* Somebody who works or may go on working owns the lock: it is not to be  *)
(* had.                                                                    *)
(***************************************************************************)
LEMMA CoveredLocks ==
    ASSUME LockSettings, LockTypeOK, NEW s \in Schedulers, Covered(s),
           job[s] = "working" \/ (job[s] = "between" /\ ~lost[s])
    PROVE  Owns(s) /\ ~Unlocked
<1>1. owner = s /\ s # Nobody
  BY LockAssumption DEF Covered
<1>2. clock < expires
  BY LockAssumption DEF Covered, LockTypeOK, LockSettings
<1> QED
  BY <1>1, <1>2, LockAssumption DEF Owns, Unlocked, LockTypeOK

(***************************************************************************)
(* Coverage is inductive.                                                  *)
(***************************************************************************)
LEMMA CoverageStep ==
    ASSUME LockSettings, LockInv, LockNext
    PROVE  \A t \in Schedulers : Covered(t)'
<1> SUFFICES ASSUME NEW t \in Schedulers PROVE Covered(t)'
  OBVIOUS
<1>0. LockTypeOK /\ LockTypeOK' /\ Covered(t)
  BY LockTypeStep DEF LockInv
<1>1. CASE LockTick
  BY <1>0, <1>1, LockAssumption DEF LockTick, Timely, Covered, LockTypeOK
<1>2. ASSUME NEW s \in Schedulers, LockStep(s) PROVE Covered(t)'
  <2>0. Covered(s)
    BY DEF LockInv
  <2>1. CASE Acquire(s)
    <3>1. CASE t = s
      BY <1>0, <2>1, <3>1, SettingsRenew, LockAssumption
      DEF Acquire, Grant, Goto, Covered, LockTypeOK, LockSettings
    <3>2. CASE t # s
      <4>1. ~(job[t] = "working" \/ (job[t] = "between" /\ ~lost[t]))
        BY <1>0, <2>1, CoveredLocks DEF Acquire
      <4> QED
        BY <1>0, <2>1, <3>2, <4>1 DEF Acquire, Goto, Covered, LockTypeOK
    <3> QED
      BY <3>1, <3>2
  <2>2. CASE AcquireRaises(s)
    <3>1. ~(job[t] = "working" \/ (job[t] = "between" /\ ~lost[t]))
      BY <1>0, <2>2, CoveredLocks DEF AcquireRaises
    <3> QED
      BY <1>0, <2>2, <3>1 DEF AcquireRaises, Covered, LockTypeOK
  <2>3. CASE EnsureHeld(s)
    BY <1>0, <2>0, <2>3, LockAssumption DEF EnsureHeld, Goto, Covered, LockTypeOK, LockSettings
  <2>4. CASE Abort(s) \/ StepDone(s)
    BY <1>0, <2>0, <2>4 DEF Abort, StepDone, Goto, Covered, LockTypeOK
  <2>5. CASE Renew(s)
    BY <1>0, <2>0, <2>5, LockAssumption DEF Renew, Owns, Covered, LockTypeOK, LockSettings
  <2>6. CASE RenewFails(s)
    BY <1>0, <2>0, <2>6, LockAssumption DEF RenewFails, NoThread, Owns, Covered, LockTypeOK
  <2>7. CASE Release(s)
    BY <1>0, <2>0, <2>7, LockAssumption DEF Release, Goto, NoThread, Owns, Covered, LockTypeOK
  <2>8. CASE Die(s)
    BY <1>0, <2>0, <2>8 DEF Die, Goto, NoThread, Covered, LockTypeOK
  <2> QED
    BY <1>2, <2>1, <2>2, <2>3, <2>4, <2>5, <2>6, <2>7, <2>8 DEF LockStep
<1> QED
  BY <1>1, <1>2 DEF LockNext
(***************************************************************************)
(* Two schedulers that work would both own the key.                        *)
(***************************************************************************)
LEMMA CoverageExcludes == LockInv => OneWorker
BY DEF LockInv, Covered, OneWorker

(***************************************************************************)
(* A step takes the key from nobody who is in the job and owns it.         *)
(***************************************************************************)
LEMMA KeyStep ==
    ASSUME LockTypeOK, LockNext, NEW s \in Schedulers
    PROVE  KeyKept(s)
<1> SUFFICES ASSUME Owns(s), InJob(s), InJob(s)'
             PROVE  owner' = s /\ expires' >= expires
  BY DEF KeyKept
<1> USE LockAssumption DEF LockTypeOK, InJob
<1>1. CASE LockTick
  BY <1>1 DEF LockTick, Owns
<1>2. ASSUME NEW t \in Schedulers, LockStep(t)
      PROVE  owner' = s /\ expires' >= expires
  <2>1. ~Unlocked
    BY DEF Owns, Unlocked
  <2>2. CASE EnsureHeld(t) \/ Abort(t) \/ StepDone(t) \/ Die(t)
    BY <2>2 DEF EnsureHeld, Abort, StepDone, Die, Owns
  <2>3. CASE Renew(t)
    BY <2>3 DEF Renew, Owns
  <2>4. CASE RenewFails(t)
    BY <2>4 DEF RenewFails, Owns
  <2>5. CASE Release(t)
    <3>1. t # s
      BY <2>5 DEF Release, Goto
    <3> QED
      BY <2>5, <3>1 DEF Release, Owns
  <2> QED
    BY <1>2, <2>1, <2>2, <2>3, <2>4, <2>5 DEF LockStep, Acquire, AcquireRaises
<1> QED
  BY <1>1, <1>2 DEF LockNext

----------------------------------------------------------------------------
(***************************************************************************)
(* Types, for every setting.                                               *)
(***************************************************************************)
THEOREM LockTyping == LockSpec => []LockTypeOK
<1>1. LockInit => LockTypeOK
  BY LockAssumption DEF LockInit, LockTypeOK, JobStates
<1>2. LockTypeOK /\ [LockNext]_lockVars => LockTypeOK'
  BY LockTypeStep DEF LockTypeOK, lockVars
<1> QED
  BY <1>1, <1>2, PTL DEF LockSpec

(***************************************************************************)
(* Under LockSettings whoever works owns the key and will own it for as    *)
(* long as its step may take (run_locked_job with its renewal thread).     *)
(***************************************************************************)
THEOREM LockCoverage == ASSUME LockSettings PROVE LockSpec => []LockInv
<1>1. LockInit => LockInv
  BY LockAssumption DEF LockInit, LockInv, LockTypeOK, JobStates, Covered
<1>2. LockInv /\ [LockNext]_lockVars => LockInv'
  <2>1. CASE LockNext
    BY <2>1, LockTypeStep, CoverageStep DEF LockInv
  <2>2. CASE UNCHANGED lockVars
    BY <2>2 DEF LockInv, LockTypeOK, Covered, lockVars
  <2> QED
    BY <2>1, <2>2
<1> QED
  BY <1>1, <1>2, PTL DEF LockSpec

(***************************************************************************)
(* Under LockSettings two schedulers never work on the job at once.        *)
(***************************************************************************)
THEOREM MutualExclusion == ASSUME LockSettings PROVE LockSpec => []OneWorker
BY LockCoverage, CoverageExcludes, PTL

(***************************************************************************)
(* For every setting: nobody takes the key from a job that owns it.        *)
(***************************************************************************)
THEOREM KeyRespect == LockSpec => KeyRespected
<1>1. LockTypeOK /\ [LockNext]_lockVars => [\A s \in Schedulers : KeyKept(s)]_lockVars
  BY KeyStep
<1> QED
  BY LockTyping, <1>1, PTL DEF LockSpec, KeyRespected

----------------------------------------------------------------------------
(***************************************************************************)
(* The cleanup job on the file delivery store.                             *)
(***************************************************************************)
----------------------------------------------------------------------------
(***************************************************************************)
(* To the lock, a step of the cleanup is a step of some job.               *)
(***************************************************************************)
LEMMA CleanupStepsLock == [CleanupNext]_allVars => [LockNext]_lockVars
<1> SUFFICES ASSUME CleanupNext PROVE [LockNext]_lockVars
  BY DEF allVars
<1>1. ASSUME NEW s \in Schedulers, LockOnly(s) PROVE LockNext
  BY <1>1 DEF LockOnly, LockNext, LockStep
<1>2. ASSUME NEW s \in Schedulers, CleanerStep(s) PROVE [LockNext]_lockVars
  <2>1. NextFile(s) \/ Raises(s) => LockNext
    BY DEF NextFile, Raises, LockNext, LockStep
  <2>2. BeginStep(s) \/ CleanerDies(s) => LockNext
    BY DEF BeginStep, CleanerDies, LockNext, LockStep
  <2>3. ListExpired(s) => LockNext
    BY <2>1 DEF ListExpired, LockNext, LockStep
  <2>4. LoadMetadata(s) \/ CheckDisk(s) => [LockNext]_lockVars
    BY <2>1 DEF LoadMetadata, CheckDisk
  <2>5. UnlinkFile(s) \/ DeleteMetadata(s) \/ Unindex(s) => [LockNext]_lockVars
    BY <2>1 DEF UnlinkFile, DeleteMetadata, Unindex
  <2> QED
    BY <1>2, <2>2, <2>3, <2>4, <2>5 DEF CleanerStep
<1> QED
  BY <1>1, <1>2 DEF CleanupNext, LockNext

(***************************************************************************)
(* So everything proved of the lock holds of the lock of the cleanup job.  *)
(***************************************************************************)
LEMMA CleanupUsesLock == CleanupSpec => LockSpec
BY CleanupStepsLock, PTL DEF CleanupSpec, CleanupInit, LockSpec

----------------------------------------------------------------------------
(***************************************************************************)
(* A step keeps the types of the store.                                    *)
(***************************************************************************)
LEMMA FileTypeStep == FileTypeOK /\ [CleanupNext]_allVars => FileTypeOK'
<1> SUFFICES ASSUME FileTypeOK, CleanupNext \/ UNCHANGED allVars
             PROVE  FileTypeOK'
  OBVIOUS
<1> USE FileAssumption DEF FileTypeOK, UploadStates
<1>0. UNCHANGED fileVars => FileTypeOK'
  BY DEF fileVars
<1>1. ASSUME NEW f \in Files, UploadStep(f) PROVE FileTypeOK'
  <2>1. CASE CheckStorage(f)
    BY <2>1 DEF CheckStorage, GotoUpload
  <2>2. CASE WriteFile(f)
    BY <2>2 DEF WriteFile, GotoUpload
  <2>3. CASE SetKey(f)
    BY <2>3 DEF SetKey, GotoUpload
  <2>4. CASE AddToIndex(f)
    BY <2>4 DEF AddToIndex, GotoUpload
  <2>5. CASE UndoWrite(f)
    BY <2>5 DEF UndoWrite, GotoUpload
  <2>6. CASE UploadDies(f)
    BY <2>6 DEF UploadDies, GotoUpload
  <2> QED
    BY <1>1, <2>1, <2>2, <2>3, <2>4, <2>5, <2>6 DEF UploadStep
<1>2. CASE NextDay
  BY <1>2 DEF NextDay
<1>3. ASSUME NEW s \in Schedulers, LockOnly(s) \/ CleanerStep(s) PROVE FileTypeOK'
  <2>1. \A f : Unlink(f) \/ DeleteKey(f) \/ RemoveFromIndex(f) => FileTypeOK'
    BY DEF Unlink, DeleteKey, RemoveFromIndex
  <2> QED
    BY <1>0, <1>3, <2>1 DEF LockOnly, CleanerStep, BeginStep, ListExpired, LoadMetadata,
       CheckDisk, UnlinkFile, DeleteMetadata, Unindex, CleanerDies
<1> QED
  BY <1>0, <1>1, <1>2, <1>3 DEF CleanupNext, allVars

(***************************************************************************)
(* The variables of the job keep their types and belong together: a file   *)
(* is being deleted exactly in the stages of delete_file.                  *)
(***************************************************************************)
JobTypeOK ==
    /\ job \in [Schedulers -> JobStates]
    /\ plan \in [Schedulers -> SUBSET Files]
    /\ stage \in [Schedulers -> Stages]
    /\ current \in [Schedulers -> Files \cup {NoFile}]
    /\ \A s \in Schedulers :
          /\ current[s] # NoFile <=> stage[s] \notin {"list", "next"}
          /\ stage[s] = "next" => plan[s] # {}
          /\ stage[s] # "list" => job[s] \in {"between", "working"}

LEMMA JobTypeStep ==
    ASSUME JobTypeOK, index \subseteq Files, CleanupNext PROVE JobTypeOK'
<1> USE CleanupAssumption DEF JobTypeOK, Stages, JobStates
<1>1. CASE LockTick /\ UNCHANGED <<fileVars, jobVars>>
  BY <1>1 DEF LockTick, jobVars
<1>2. CASE UNCHANGED <<lockVars, jobVars>>
  BY <1>2 DEF lockVars, jobVars
<1>3. ASSUME NEW s \in Schedulers, LockOnly(s) PROVE JobTypeOK'
  <2>1. CASE (Acquire(s) \/ AcquireRaises(s) \/ Renew(s) \/ RenewFails(s) \/ Release(s)) /\ UNCHANGED jobVars
    BY <2>1 DEF jobVars, Acquire, AcquireRaises, Renew, RenewFails, Release, Goto
  <2>2. CASE Abort(s) /\ LeaveJob(s)
    BY <2>2 DEF Abort, LeaveJob, Goto, GotoStage
  <2> QED
    BY <1>3, <2>1, <2>2 DEF LockOnly
<1>4. ASSUME NEW s \in Schedulers, Raises(s) PROVE JobTypeOK'
  BY <1>4 DEF Raises, StepDone, Goto, LeaveJob, GotoStage
<1>5. ASSUME NEW s \in Schedulers, NextFile(s), stage[s] # "list" PROVE JobTypeOK'
  <2>1. CASE plan[s] # {}
    BY <1>5, <2>1 DEF NextFile, StepDone, Goto, GotoStage
  <2>2. CASE plan[s] = {}
    BY <1>5, <2>2 DEF NextFile, StepDone, Goto, LeaveJob, GotoStage
  <2> QED
    BY <2>1, <2>2
<1>6. ASSUME NEW s \in Schedulers, CleanerStep(s) PROVE JobTypeOK'
  <2>1. CASE BeginStep(s)
    <3>1. CASE stage[s] = "list" /\ UNCHANGED jobVars
      BY <2>1, <3>1 DEF BeginStep, EnsureHeld, Goto, jobVars
    <3>2. CASE stage[s] = "next"
      <4>1. PICK f \in plan[s] : /\ plan' = [plan EXCEPT ![s] = @ \ {f}]
                                 /\ current' = [current EXCEPT ![s] = f]
        BY <2>1, <3>2 DEF BeginStep
      <4>2. f \in Files
        BY <4>1
      <4> QED
        BY <2>1, <3>2, <4>1, <4>2 DEF BeginStep, EnsureHeld, Goto, GotoStage
    <3> QED
      BY <2>1, <3>1, <3>2 DEF BeginStep
  <2>2. CASE ListExpired(s)
    <3>1. ExpiredFiles \subseteq Files
      BY DEF ExpiredFiles
    <3> QED
      BY <1>4, <2>2, <3>1 DEF ListExpired, At, StepDone, Goto, GotoStage
  <2>3. CASE LoadMetadata(s)
    BY <1>5, <2>3 DEF LoadMetadata, At, GotoStage, lockVars
  <2>4. CASE CheckDisk(s)
    BY <2>4 DEF CheckDisk, At, GotoStage, lockVars
  <2>5. CASE UnlinkFile(s)
    BY <1>4, <2>5 DEF UnlinkFile, At, GotoStage, lockVars
  <2>6. CASE DeleteMetadata(s)
    BY <1>4, <2>6 DEF DeleteMetadata, At, GotoStage, lockVars
  <2>7. CASE Unindex(s)
    BY <1>4, <1>5, <2>7 DEF Unindex, At
  <2>8. CASE CleanerDies(s)
    BY <2>8 DEF CleanerDies, Die, Goto, LeaveJob, GotoStage
  <2> QED
    BY <1>6, <2>1, <2>2, <2>3, <2>4, <2>5, <2>6, <2>7, <2>8 DEF CleanerStep
<1> QED
  BY <1>1, <1>2, <1>3, <1>6 DEF CleanupNext

(***************************************************************************)
(* All types.                                                              *)
(***************************************************************************)
THEOREM CleanupTyping == CleanupSpec => []CleanupTypeOK
<1> DEFINE Inv == LockTypeOK /\ FileTypeOK /\ JobTypeOK
<1>1. CleanupInit => FileTypeOK /\ JobTypeOK
  BY FileAssumption, CleanupAssumption
  DEF CleanupInit, LockInit, FileInit, FileTypeOK, UploadStates, JobTypeOK, Stages, JobStates
<1>2. FileTypeOK /\ JobTypeOK /\ [CleanupNext]_allVars => FileTypeOK' /\ JobTypeOK'
  <2> SUFFICES ASSUME FileTypeOK, JobTypeOK, [CleanupNext]_allVars PROVE JobTypeOK'
    BY FileTypeStep
  <2>1. CASE CleanupNext
    BY <2>1, JobTypeStep DEF FileTypeOK
  <2>2. CASE UNCHANGED allVars
    BY <2>2 DEF allVars, lockVars, jobVars, JobTypeOK
  <2> QED
    BY <2>1, <2>2
<1>3. LockTypeOK /\ FileTypeOK /\ JobTypeOK => CleanupTypeOK
  BY DEF CleanupTypeOK, JobTypeOK
<1> QED
  BY <1>1, <1>2, <1>3, CleanupUsesLock, LockTyping, PTL DEF CleanupSpec

----------------------------------------------------------------------------
(* What the store and the lists of the jobs have to do with each other.    *)

\* The upload has come to its end.
Ended(f) == upload[f] \in {"saved", "failed", "broken"}

\* What each stage of an upload has done so far.
UploadTrace(f) ==
    /\ upload[f] \in {"none", "checked", "failed"} => f \notin disk
    /\ upload[f] \in {"written", "keyed", "unsaved"} => created[f] = today
    /\ upload[f] = "keyed" => f \in keys
    /\ f \in index => Ended(f) \/ upload[f] = "unsaved"
    /\ upload[f] = "saved" /\ f \in disk => f \in keys /\ f \in index

\* The job may delete f.
Due(f) == Ended(f) /\ created[f] + Retention < today

\* What a job has before it is due; what it takes out of the metadata is
\* not on disk any more.
JobTrace(s) ==
    /\ \A f \in plan[s] : Due(f)
    /\ current[s] # NoFile => Due(current[s])
    /\ stage[s] \in {"key", "index"} => current[s] \notin disk

CleanupInv ==
    /\ FileTypeOK /\ JobTypeOK
    /\ \A f \in Files : UploadTrace(f)
    /\ \A s \in Schedulers : JobTrace(s)

\* Nothing happens to g.
SameFile(g) ==
    /\ upload'[g] = upload[g] /\ created'[g] = created[g]
    /\ g \in disk' <=> g \in disk
    /\ g \in keys' <=> g \in keys
    /\ g \in index' <=> g \in index

(***************************************************************************)
(* An upload disturbs neither another upload nor a cleanup.                *)
(***************************************************************************)
LEMMA UploadKeepsTrace ==
    ASSUME CleanupInv, NEW f \in Files, UploadStep(f), UNCHANGED <<lockVars, jobVars>>
    PROVE  /\ \A g \in Files : UploadTrace(g)'
           /\ \A s \in Schedulers : JobTrace(s)'
<1> USE DEF CleanupInv, FileTypeOK, GotoUpload, Ended
<1>1. /\ today' = today /\ ~Ended(f)
      /\ \A g \in Files \ {f} : SameFile(g)
  <2> USE DEF SameFile
  <2>1. CASE CheckStorage(f)
    BY <2>1 DEF CheckStorage
  <2>2. CASE WriteFile(f)
    BY <2>2 DEF WriteFile
  <2>3. CASE SetKey(f)
    BY <2>3 DEF SetKey
  <2>4. CASE AddToIndex(f)
    BY <2>4 DEF AddToIndex
  <2>5. CASE UndoWrite(f)
    BY <2>5 DEF UndoWrite
  <2>6. CASE UploadDies(f)
    BY <2>6 DEF UploadDies
  <2> QED
    BY <2>1, <2>2, <2>3, <2>4, <2>5, <2>6 DEF UploadStep
<1>2. UploadTrace(f)'
  <2> UploadTrace(f)
    OBVIOUS
  <2> USE DEF UploadTrace, UploadStates
  <2>1. CASE CheckStorage(f)
    BY <2>1 DEF CheckStorage
  <2>2. CASE WriteFile(f)
    BY <2>2 DEF WriteFile
  <2>3. CASE SetKey(f)
    BY <2>3 DEF SetKey
  <2>4. CASE AddToIndex(f)
    BY <2>4 DEF AddToIndex
  <2>5. CASE UndoWrite(f)
    BY <2>5 DEF UndoWrite
  <2>6. CASE UploadDies(f)
    BY <2>6 DEF UploadDies
  <2> QED
    BY <2>1, <2>2, <2>3, <2>4, <2>5, <2>6 DEF UploadStep
<1>3. \A g \in Files \ {f} : UploadTrace(g) => UploadTrace(g)'
  BY <1>1 DEF UploadTrace, SameFile
<1>4. \A g \in Files : Due(g) => g # f /\ Due(g)'
  BY <1>1 DEF Due, SameFile
<1>5. ASSUME NEW s \in Schedulers PROVE JobTrace(s)'
  <2>1. JobTrace(s) /\ plan'[s] = plan[s] /\ current'[s] = current[s] /\ stage'[s] = stage[s]
    BY DEF jobVars
  <2>2. plan[s] \subseteq Files /\ (current[s] # NoFile => current[s] \in Files)
    BY DEF JobTypeOK
  <2>3. stage[s] \in {"key", "index"} => current[s] # NoFile
    BY DEF JobTypeOK
  <2>4. \A g \in plan[s] : Due(g)'
    BY <1>4, <2>1, <2>2 DEF JobTrace
  <2>5. current[s] # NoFile => Due(current[s])' /\ SameFile(current[s])
    BY <1>1, <1>4, <2>1, <2>2 DEF JobTrace
  <2> QED
    BY <2>1, <2>3, <2>4, <2>5 DEF JobTrace, SameFile
<1> QED
  BY <1>2, <1>3, <1>5

(***************************************************************************)
(* A file on the list of expired ones is due.                              *)
(***************************************************************************)
LEMMA ExpiredAreDue ==
    ASSUME FileTypeOK, NEW f \in ExpiredFiles, UploadTrace(f) PROVE f \in Files /\ Due(f)
<1>1. f \in index /\ f \in Files /\ Retention > 0 /\ created[f] < today - Retention
  BY FileAssumption DEF ExpiredFiles, Expired, FileTypeOK
<1>2. created[f] \in Nat /\ today \in Nat
  BY <1>1, FileAssumption DEF FileTypeOK
<1> QED
  BY <1>1, <1>2, FileAssumption DEF UploadTrace, Due, Ended

(***************************************************************************)
(* The calendar makes more files due, and nothing else.                    *)
(***************************************************************************)
LEMMA DayKeepsTrace ==
    ASSUME CleanupInv, NextDay, UNCHANGED <<lockVars, jobVars>>
    PROVE  /\ \A f \in Files : UploadTrace(f)'
           /\ \A s \in Schedulers : JobTrace(s)'
<1> USE FileAssumption DEF CleanupInv, NextDay
<1>1. \A f \in Files : UploadTrace(f)'
  BY DEF UploadTrace, Ended
<1>2. ASSUME NEW f \in Files, Due(f) PROVE Due(f)'
  BY <1>2 DEF Due, Ended, FileTypeOK
<1>3. ASSUME NEW s \in Schedulers PROVE JobTrace(s)'
  <2>1. JobTrace(s) /\ plan'[s] = plan[s] /\ current'[s] = current[s] /\ stage'[s] = stage[s]
    BY DEF jobVars
  <2>2. plan[s] \subseteq Files /\ (current[s] # NoFile => current[s] \in Files)
    BY DEF JobTypeOK
  <2> QED
    BY <1>2, <2>1, <2>2 DEF JobTrace
<1> QED
  BY <1>1, <1>3

(***************************************************************************)
(* What a step of delete_file takes away belongs to a file that is due;    *)
(* metadata are taken only after the original.                             *)
(***************************************************************************)
LEMMA CleanerEffect ==
    ASSUME CleanupInv, NEW s \in Schedulers, LockOnly(s) \/ CleanerStep(s)
    PROVE  /\ UNCHANGED <<today, upload, created>>
           /\ \/ UNCHANGED fileVars
              \/ /\ stage[s] = "unlink" /\ Unlink(current[s])
              \/ /\ stage[s] = "key" /\ DeleteKey(current[s])
              \/ /\ stage[s] = "index" /\ RemoveFromIndex(current[s])
<1>1. \/ UNCHANGED fileVars
      \/ /\ stage[s] = "unlink" /\ Unlink(current[s])
      \/ /\ stage[s] = "key" /\ DeleteKey(current[s])
      \/ /\ stage[s] = "index" /\ RemoveFromIndex(current[s])
  BY DEF LockOnly, CleanerStep, BeginStep, ListExpired, LoadMetadata, CheckDisk,
     UnlinkFile, DeleteMetadata, Unindex, CleanerDies, At
<1> QED
  BY <1>1 DEF fileVars, Unlink, DeleteKey, RemoveFromIndex

(***************************************************************************)
(* A cleanup keeps what is known about every upload.                       *)
(***************************************************************************)
LEMMA CleanerKeepsUploads ==
    ASSUME CleanupInv, NEW s \in Schedulers, LockOnly(s) \/ CleanerStep(s)
    PROVE  \A f \in Files : UploadTrace(f)'
<1> SUFFICES ASSUME NEW f \in Files PROVE UploadTrace(f)'
  OBVIOUS
<1>1. UploadTrace(f) /\ JobTrace(s)
  BY DEF CleanupInv
<1>2. stage[s] \in {"unlink", "key", "index"} => current[s] # NoFile
  BY DEF CleanupInv, JobTypeOK
<1>3. CASE UNCHANGED fileVars
  BY <1>1, <1>3 DEF fileVars, UploadTrace, Ended
<1>4. CASE stage[s] = "unlink" /\ Unlink(current[s])
  BY <1>1, <1>4 DEF Unlink, UploadTrace, Ended
<1>5. CASE stage[s] = "key" /\ DeleteKey(current[s])
  BY <1>1, <1>2, <1>5 DEF DeleteKey, UploadTrace, JobTrace, Due, Ended
<1>6. CASE stage[s] = "index" /\ RemoveFromIndex(current[s])
  BY <1>1, <1>2, <1>6 DEF RemoveFromIndex, UploadTrace, JobTrace, Due, Ended
<1> QED
  BY <1>3, <1>4, <1>5, <1>6, CleanerEffect

(***************************************************************************)
(* A cleanup keeps what is known about every job.                          *)
(***************************************************************************)
LEMMA CleanerKeepsJobs ==
    ASSUME CleanupInv, NEW s \in Schedulers, LockOnly(s) \/ CleanerStep(s)
    PROVE  \A t \in Schedulers : JobTrace(t)'
<1>1. /\ UNCHANGED <<today, upload, created>>
      /\ disk' \subseteq disk
  BY CleanerEffect DEF fileVars, Unlink, DeleteKey, RemoveFromIndex
<1>2. \A f : Due(f) => Due(f)'
  BY <1>1 DEF Due, Ended
<1>3. ASSUME NEW t \in Schedulers, plan'[t] = plan[t], current'[t] = current[t], stage'[t] = stage[t]
      PROVE  JobTrace(t)'
  BY <1>1, <1>2, <1>3 DEF CleanupInv, JobTrace
<1>4. CASE UNCHANGED jobVars
  BY <1>3, <1>4 DEF jobVars
<1>5. CASE LeaveJob(s)
  <2>1. JobTrace(s)'
    BY <1>5 DEF LeaveJob, GotoStage, JobTrace, CleanupInv, JobTypeOK
  <2>2. \A t \in Schedulers \ {s} : JobTrace(t)'
    BY <1>3, <1>5 DEF LeaveJob, GotoStage, CleanupInv, JobTypeOK
  <2> QED
    BY <2>1, <2>2
<1>6. ASSUME NEW p \in SUBSET Files, NEW c \in Files \cup {NoFile}, NEW where,
             plan' = [plan EXCEPT ![s] = p], current' = [current EXCEPT ![s] = c], GotoStage(s, where),
             \A f \in p : Due(f)', c # NoFile => Due(c)', where \in {"key", "index"} => c \notin disk'
      PROVE  \A t \in Schedulers : JobTrace(t)'
  <2>1. JobTrace(s)'
    BY <1>6 DEF GotoStage, JobTrace, CleanupInv, JobTypeOK
  <2>2. \A t \in Schedulers \ {s} : JobTrace(t)'
    BY <1>3, <1>6 DEF GotoStage, CleanupInv, JobTypeOK
  <2> QED
    BY <2>1, <2>2
<1>7. JobTrace(s) /\ plan[s] \in SUBSET Files /\ current[s] \in Files \cup {NoFile}
  BY DEF CleanupInv, JobTypeOK
<1>8. \A f \in plan[s] : Due(f)'
  BY <1>2, <1>7 DEF JobTrace
<1>9. plan = [plan EXCEPT ![s] = plan[s]] /\ current = [current EXCEPT ![s] = current[s]]
  BY DEF CleanupInv, JobTypeOK
<1>10. ASSUME NextFile(s) PROVE \A t \in Schedulers : JobTrace(t)'
  <2>1. CASE LeaveJob(s)
    BY <1>5, <2>1
  <2>2. CASE GotoStage(s, "next") /\ current' = [current EXCEPT ![s] = NoFile] /\ UNCHANGED plan
    BY <1>6, <1>7, <1>8, <1>9, <2>2
  <2> QED
    BY <1>10, <2>1, <2>2 DEF NextFile
<1>11. ASSUME NEW where, GotoStage(s, where), UNCHANGED <<plan, current>>, stage[s] \notin {"list", "next"},
              where \in {"key", "index"} => current[s] \notin disk'
       PROVE  \A t \in Schedulers : JobTrace(t)'
  <2>1. current[s] # NoFile => Due(current[s])'
    BY <1>2, <1>7, <1>11 DEF JobTrace
  <2> QED
    BY <1>6, <1>7, <1>8, <1>9, <1>11, <2>1
<1>12. CASE LockOnly(s)
  BY <1>4, <1>5, <1>12 DEF LockOnly
<1>13. CASE BeginStep(s)
  <2>1. CASE stage[s] = "next" /\ ~UNCHANGED jobVars
    <3>1. PICK f \in plan[s] : /\ plan' = [plan EXCEPT ![s] = @ \ {f}]
                               /\ current' = [current EXCEPT ![s] = f]
      BY <1>13, <2>1 DEF BeginStep
    <3>2. plan' = [plan EXCEPT ![s] = plan[s] \ {f}] /\ f \in Files
      BY <1>7, <3>1
    <3>3. GotoStage(s, "load")
      BY <1>13, <2>1 DEF BeginStep
    <3>4. plan[s] \ {f} \in SUBSET Files /\ Due(f)' /\ \A g \in plan[s] \ {f} : Due(g)'
      BY <1>7, <1>8, <3>1
    <3> QED
      BY <1>6, <3>1, <3>2, <3>3, <3>4
  <2> QED
    BY <1>4, <1>13, <2>1 DEF BeginStep
<1>14. CASE ListExpired(s)
  <2>1. CASE Raises(s)
    BY <1>5, <2>1 DEF Raises
  <2>2. CASE ~Raises(s)
    <3>1. plan' = [plan EXCEPT ![s] = ExpiredFiles] /\ GotoStage(s, "next") /\ UNCHANGED current
      BY <1>14, <2>2 DEF ListExpired
    <3>2. current[s] = NoFile
      BY <1>14 DEF ListExpired, At, CleanupInv, JobTypeOK
    <3>3. ExpiredFiles \in SUBSET Files /\ \A f \in ExpiredFiles : Due(f)'
      BY <1>2, ExpiredAreDue DEF CleanupInv, ExpiredFiles, FileTypeOK
    <3> QED
      BY <1>6, <1>9, <3>1, <3>2, <3>3
  <2> QED
    BY <2>1, <2>2
<1>15. CASE LoadMetadata(s)
  BY <1>10, <1>11, <1>15 DEF LoadMetadata, At
<1>16. CASE CheckDisk(s)
  BY <1>11, <1>16 DEF CheckDisk, At, fileVars
<1>17. CASE UnlinkFile(s)
  BY <1>5, <1>11, <1>17 DEF UnlinkFile, At, Raises, Unlink
<1>18. CASE DeleteMetadata(s)
  BY <1>5, <1>7, <1>11, <1>18 DEF DeleteMetadata, At, Raises, DeleteKey, JobTrace
<1>19. CASE Unindex(s)
  BY <1>5, <1>10, <1>19 DEF Unindex, Raises
<1>20. CASE CleanerDies(s)
  BY <1>5, <1>20 DEF CleanerDies
<1> QED
  BY <1>12, <1>13, <1>14, <1>15, <1>16, <1>17, <1>18, <1>19, <1>20 DEF CleanerStep

----------------------------------------------------------------------------
(***************************************************************************)
(* The trace that uploads and cleanups leave is an invariant, whatever the *)
(* settings are and whether or not the lock holds.                         *)
(***************************************************************************)
THEOREM CleanupTrace == CleanupSpec => []CleanupInv
<1>1. CleanupInit => CleanupInv
  BY FileAssumption, CleanupAssumption
  DEF CleanupInit, LockInit, FileInit, CleanupInv, FileTypeOK, UploadStates, JobTypeOK, Stages,
      JobStates, UploadTrace, Ended, JobTrace
<1>2. CleanupInv /\ [CleanupNext]_allVars => CleanupInv'
  <2> SUFFICES ASSUME CleanupInv, [CleanupNext]_allVars PROVE CleanupInv'
    OBVIOUS
  <2>1. FileTypeOK'
    BY FileTypeStep DEF CleanupInv
  <2>2. CASE CleanupNext
    <3>1. JobTypeOK'
      BY <2>2, JobTypeStep DEF CleanupInv, FileTypeOK
    <3>2. CASE LockTick /\ UNCHANGED <<fileVars, jobVars>>
      BY <2>1, <3>1, <3>2 DEF CleanupInv, UploadTrace, JobTrace, Due, Ended, fileVars, jobVars
    <3>3. CASE \E s \in Schedulers : LockOnly(s) \/ CleanerStep(s)
      BY <2>1, <3>1, <3>3, CleanerKeepsUploads, CleanerKeepsJobs DEF CleanupInv
    <3>4. CASE ((\E f \in Files : UploadStep(f)) \/ NextDay) /\ UNCHANGED <<lockVars, jobVars>>
      BY <2>1, <3>1, <3>4, UploadKeepsTrace, DayKeepsTrace DEF CleanupInv
    <3> QED
      BY <2>2, <3>2, <3>3, <3>4 DEF CleanupNext
  <2>3. CASE UNCHANGED allVars
    BY <2>3 DEF allVars, lockVars, fileVars, jobVars, CleanupInv, FileTypeOK, JobTypeOK,
       UploadTrace, JobTrace, Due, Ended
  <2> QED
    BY <2>2, <2>3
<1> QED
  BY <1>1, <1>2, PTL DEF CleanupSpec

(***************************************************************************)
(* With metadata that do not expire, what was saved and is still on disk   *)
(* is found by the next cleanup (get_expired_file_ids, delete_file),       *)
(* wherever earlier ones were cut short and even if several run at once.   *)
(***************************************************************************)
THEOREM SavedStaysFindable == ASSUME ImageTTL <= 0 PROVE CleanupSpec => []SavedFindable
<1>1. MetadataTTL = 0
  BY FileAssumption DEF MetadataTTL
<1>2. CleanupInv => SavedFindable
  BY <1>1 DEF CleanupInv, FileTypeOK, UploadTrace, SavedFindable, HasMetadata
<1> QED
  BY CleanupTrace, <1>2, PTL

(***************************************************************************)
(* A failed upload leaves no original (save_file_bytes).                   *)
(***************************************************************************)
THEOREM FailedUploads == CleanupSpec => []FailedLeavesNothing
<1>1. CleanupInv => FailedLeavesNothing
  BY DEF CleanupInv, FileTypeOK, UploadTrace, FailedLeavesNothing
<1> QED
  BY CleanupTrace, <1>1, PTL

(***************************************************************************)
(* A saved file leaves the disk only when it is older than the retention   *)
(* period, however old the list is that the cleanup works on.              *)
(***************************************************************************)
THEOREM YoungKept == CleanupSpec => YoungFilesKept
<1> DEFINE Kept == \A f \in Files :
          f \in disk \ disk' /\ upload[f] = "saved" => created[f] + Retention < today
<1>1. ASSUME CleanupInv, CleanupNext PROVE Kept
  <2>1. ASSUME NEW s \in Schedulers, LockOnly(s) \/ CleanerStep(s) PROVE Kept
    <3>1. stage[s] = "unlink" => Due(current[s])
      BY <1>1 DEF CleanupInv, JobTypeOK, JobTrace
    <3> QED
      BY <1>1, <2>1, <3>1, CleanerEffect DEF fileVars, Unlink, DeleteKey, RemoveFromIndex, Due
  <2>2. ASSUME NEW f \in Files, UploadStep(f) PROVE Kept
    BY <2>2 DEF UploadStep, CheckStorage, WriteFile, SetKey, AddToIndex, UndoWrite, UploadDies
  <2>3. UNCHANGED fileVars \/ NextDay => Kept
    BY DEF fileVars, NextDay
  <2> QED
    BY <1>1, <2>1, <2>2, <2>3 DEF CleanupNext
<1>2. CleanupInv /\ [CleanupNext]_allVars => [Kept]_allVars
  BY <1>1
<1> HIDE DEF Kept
<1>3. CleanupSpec => [][Kept]_allVars
  BY CleanupTrace, <1>2, PTL DEF CleanupSpec
<1> QED
  BY <1>3 DEF Kept, YoungFilesKept

(***************************************************************************)
(* Only the job that asked the disk goes on to unlink.                     *)
(***************************************************************************)
LEMMA UnlinkStep ==
    ASSUME CleanupInv, OneWorker, UnlinkFinds, CleanupNext
    PROVE  UnlinkFinds'
<1> SUFFICES ASSUME NEW t \in Schedulers, At(t, "unlink")' PROVE current'[t] \in disk'
  BY DEF UnlinkFinds
<1>0. Due(current[t]) \/ current[t] = NoFile
  BY DEF CleanupInv, JobTrace
<1>1. ASSUME UNCHANGED <<job, jobVars>>, disk \subseteq disk' PROVE current'[t] \in disk'
  BY <1>1 DEF UnlinkFinds, At, jobVars
<1>2. ASSUME NEW f \in Files, UploadStep(f), UNCHANGED <<lockVars, jobVars>>
      PROVE  current'[t] \in disk'
  <2>1. disk \subseteq disk' \/ (disk' = disk \ {f} /\ upload[f] = "unsaved")
    BY <1>2 DEF UploadStep, CheckStorage, WriteFile, SetKey, AddToIndex, UndoWrite, UploadDies
  <2>2. current[t] # NoFile /\ current[t] \in disk
    BY <1>2 DEF UnlinkFinds, At, lockVars, jobVars, CleanupInv, JobTypeOK
  <2> QED
    BY <1>0, <1>2, <2>1, <2>2 DEF lockVars, jobVars, Due, Ended
<1>3. ASSUME NEW s \in Schedulers, LockOnly(s) PROVE current'[t] \in disk'
  <2>1. CASE UNCHANGED <<jobVars, fileVars>>
    <3>1. job'[t] = "working" => job[t] = "working"
      BY <1>3 DEF CleanupInv, JobTypeOK, LockOnly, Acquire, AcquireRaises, Renew, RenewFails,
         Release, Abort, Goto
    <3> QED
      BY <2>1, <3>1 DEF UnlinkFinds, At, jobVars, fileVars
  <2>2. CASE Abort(s) /\ LeaveJob(s) /\ UNCHANGED fileVars
    BY <2>2 DEF Abort, Goto, LeaveJob, GotoStage, UnlinkFinds, At, fileVars, CleanupInv, JobTypeOK
  <2> QED
    BY <1>3, <2>1, <2>2 DEF LockOnly
<1>4. ASSUME NEW s \in Schedulers, CleanerStep(s) PROVE current'[t] \in disk'
  <2>1. CASE t = s
    <3>1. stage'[t] = "unlink" => CheckDisk(s)
      BY <1>4, <2>1 DEF CleanupInv, JobTypeOK, CleanerStep, BeginStep, ListExpired, LoadMetadata,
         UnlinkFile, DeleteMetadata, Unindex, CleanerDies, NextFile, Raises, LeaveJob, GotoStage,
         jobVars, At
    <3> QED
      BY <2>1, <3>1 DEF CheckDisk, At, GotoStage, fileVars, CleanupInv, JobTypeOK
  <2>2. CASE t # s
    <3>1. job'[t] = job[t] /\ stage'[t] = stage[t] /\ current'[t] = current[t]
      BY <1>4, <2>2 DEF CleanupInv, JobTypeOK, CleanerStep, BeginStep, ListExpired, LoadMetadata,
         CheckDisk, UnlinkFile, DeleteMetadata, Unindex, CleanerDies, NextFile, Raises, LeaveJob,
         GotoStage, jobVars, lockVars, EnsureHeld, StepDone, Die, Goto
    <3>2. job[s] # "working" /\ current[t] \in disk
      BY <2>2, <3>1 DEF At, OneWorker, UnlinkFinds
    <3>3. ~UnlinkFile(s) /\ ~DeleteMetadata(s) /\ ~Unindex(s)
      BY <3>2 DEF UnlinkFile, DeleteMetadata, Unindex, At
    <3> QED
      BY <1>4, <3>1, <3>2, <3>3 DEF CleanerStep, BeginStep, ListExpired, LoadMetadata,
         CheckDisk, CleanerDies, fileVars
  <2> QED
    BY <2>1, <2>2
<1>5. CASE LockTick /\ UNCHANGED <<fileVars, jobVars>>
  BY <1>1, <1>5 DEF LockTick, fileVars
<1>6. CASE NextDay /\ UNCHANGED <<lockVars, jobVars>>
  BY <1>1, <1>6 DEF NextDay, lockVars
<1> QED
  BY <1>2, <1>3, <1>4, <1>5, <1>6 DEF CleanupNext

(***************************************************************************)
(* Under LockSettings no cleanup meets a FileNotFoundError: between its    *)
(* exists() and its unlink() nobody else deletes.                          *)
(***************************************************************************)
THEOREM UnlinkSafe == ASSUME LockSettings PROVE CleanupSpec => []UnlinkFinds
<1>1. CleanupInit => UnlinkFinds
  BY DEF CleanupInit, UnlinkFinds, At
<1>2. CleanupInv /\ OneWorker /\ UnlinkFinds /\ [CleanupNext]_allVars => UnlinkFinds'
  <2>1. CASE UNCHANGED allVars
    BY <2>1 DEF UnlinkFinds, At, allVars, lockVars, fileVars, jobVars
  <2> QED
    BY <2>1, UnlinkStep
<1> QED
  BY <1>1, <1>2, CleanupTrace, CleanupUsesLock, MutualExclusion, PTL DEF CleanupSpec

----------------------------------------------------------------------------
(***************************************************************************)
(* The file store accounts for everything on its disk, for any number of   *)
(* pictures and servers and any limit.                                     *)
(***************************************************************************)
Uploading(s) == step[s] \in {"save", "register", "undo"}

\* The upload has come to an end that leaves something.
Stored(f) == fate[f] \in {"saved", "leaked"}

VariantTypeOK ==
    /\ originals \subseteq Pictures /\ variants \subseteq folders /\ folders \subseteq Pictures
    /\ meta \subseteq Pictures /\ raced \subseteq Pictures
    /\ local \in [Servers -> SUBSET Pictures]
    /\ backend \in [Servers \cup {Sweeper} -> {"unset", "redis", "memory"}]
    /\ step \in [Servers -> {"idle", "save", "register", "undo",
                             "folder", "look", "resize", "room", "put"}]
    /\ target \in [Servers -> Pictures]
    /\ sweep \in {"idle", "unlink", "folder", "rmdir", "drop"}
    /\ victim \in Pictures
    /\ fate \in [Pictures -> {"none", "uploading", "saved", "refused", "leaked"}]

\* A picture is uploaded once; metadata and variants come after the upload.
UploadsApart ==
    /\ \A s \in Servers : Uploading(s) => fate[target[s]] = "uploading"
    /\ \A s, t \in Servers : Uploading(s) /\ Uploading(t) /\ target[s] = target[t] => s = t
    /\ \A f \in meta \cup variants : Stored(f)
    /\ \A s \in Servers : \A f \in local[s] : Stored(f)

\* Who makes a variant has the original, or the deletion has noticed.
ViewsCovered ==
    \A s \in Servers :
        Viewing(s) => Stored(target[s]) /\ target[s] \in originals \cup raced

\* What delete_file has done so far.
SweepTrace ==
    /\ sweep # "idle" => victim \in meta
    /\ sweep \in {"folder", "rmdir", "drop"} => victim \notin originals
    /\ sweep \in {"rmdir", "drop"} /\ victim \in variants => victim \in raced

Accounts ==
    /\ VariantTypeOK
    /\ UploadsApart
    /\ ViewsCovered
    /\ SweepTrace
    /\ OriginalsExplained
    /\ VariantsExplained

----------------------------------------------------------------------------
(***************************************************************************)
(* The disk is empty at first.                                             *)
(***************************************************************************)
LEMMA InitAccounts == ASSUME Pictures # {} PROVE VariantInit => Accounts
<1> SUFFICES ASSUME VariantInit PROVE Accounts
  OBVIOUS
<1>1. (CHOOSE f \in Pictures : TRUE) \in Pictures
  OBVIOUS
<1>2. VariantTypeOK
  BY <1>1 DEF VariantInit, VariantTypeOK
<1> QED
  BY <1>2 DEF VariantInit, Accounts, UploadsApart, ViewsCovered, SweepTrace, Uploading, Viewing,
              OriginalsExplained, VariantsExplained

(***************************************************************************)
(* A request keeps the accounts.                                           *)
(***************************************************************************)
LEMMA RequestAccounts ==
    ASSUME Accounts, NEW s \in Servers,
           \/ \E f \in Pictures : BeginUpload(s, f) \/ BeginView(s, f)
           \/ WriteOriginal(s) \/ SaveMetadata(s) \/ UndoUpload(s)
           \/ MakeFolder(s) \/ LookForVariant(s) \/ Resize(s) \/ CheckRoom(s) \/ WriteVariant(s)
           \/ ServerDies(s)
    PROVE  Accounts'
<1> USE DEF Accounts
<1> DEFINE Rest == UploadsApart /\ ViewsCovered /\ SweepTrace /\ OriginalsExplained /\ VariantsExplained
<1>1. ASSUME NEW f \in Pictures, BeginUpload(s, f) PROVE Accounts'
  <2>1. VariantTypeOK'
    BY <1>1 DEF BeginUpload, VariantTypeOK, diskVars, metaVars, sweepVars, GotoStep
  <2>2. Rest'
    BY <1>1 DEF BeginUpload, VariantTypeOK, diskVars, metaVars, sweepVars, GotoStep, UploadsApart,
       ViewsCovered, SweepTrace, OriginalsExplained, VariantsExplained, Uploading, Viewing, Stored
  <2> QED
    BY <2>1, <2>2
<1>2. ASSUME NEW f \in Pictures, BeginView(s, f) PROVE Accounts'
  <2>1. VariantTypeOK'
    BY <1>2 DEF BeginView, VariantTypeOK, BackendOf, diskVars, sweepVars, GotoStep
  <2>2. Rest'
    BY <1>2 DEF BeginView, Known, VariantTypeOK, diskVars, sweepVars, GotoStep, UploadsApart,
       ViewsCovered, SweepTrace, OriginalsExplained, VariantsExplained, Uploading, Viewing, Stored
  <2> QED
    BY <2>1, <2>2
<1>3. ASSUME WriteOriginal(s) PROVE Accounts'
  <2>1. VariantTypeOK'
    BY <1>3 DEF WriteOriginal, Continues, VariantTypeOK, metaVars, sweepVars, GotoStep
  <2>2. Rest'
    BY <1>3 DEF WriteOriginal, Continues, VariantTypeOK, metaVars, sweepVars, GotoStep, UploadsApart,
       ViewsCovered, SweepTrace, OriginalsExplained, VariantsExplained, Uploading, Viewing, Stored
  <2> QED
    BY <2>1, <2>2
<1>4. ASSUME SaveMetadata(s) PROVE Accounts'
  <2>1. VariantTypeOK'
    BY <1>4 DEF SaveMetadata, BackendOf, Continues, VariantTypeOK, diskVars, sweepVars, GotoStep
  <2>2. Rest'
    BY <1>4 DEF SaveMetadata, Continues, VariantTypeOK, diskVars, sweepVars, GotoStep, UploadsApart,
       ViewsCovered, SweepTrace, OriginalsExplained, VariantsExplained, Uploading, Viewing, Stored
  <2> QED
    BY <2>1, <2>2
<1>5. ASSUME UndoUpload(s) PROVE Accounts'
  <2>1. VariantTypeOK'
    BY <1>5 DEF UndoUpload, Continues, VariantTypeOK, metaVars, sweepVars, GotoStep
  <2>2. Rest'
    BY <1>5 DEF UndoUpload, Continues, VariantTypeOK, metaVars, sweepVars, GotoStep, UploadsApart,
       ViewsCovered, SweepTrace, OriginalsExplained, VariantsExplained, Uploading, Viewing, Stored
  <2> QED
    BY <2>1, <2>2
<1>6. ASSUME MakeFolder(s) \/ LookForVariant(s) \/ Resize(s) \/ CheckRoom(s) PROVE Accounts'
  <2>1. VariantTypeOK'
    BY <1>6 DEF MakeFolder, LookForVariant, Resize, CheckRoom, Continues, VariantTypeOK,
                diskVars, metaVars, sweepVars, GotoStep
  <2>2. Rest'
    BY <1>6 DEF MakeFolder, LookForVariant, Resize, CheckRoom, Continues, VariantTypeOK,
       diskVars, metaVars, sweepVars, GotoStep, UploadsApart,
       ViewsCovered, SweepTrace, OriginalsExplained, VariantsExplained, Uploading, Viewing, Stored
  <2> QED
    BY <2>1, <2>2
<1>7. ASSUME WriteVariant(s) PROVE Accounts'
  <2>1. VariantTypeOK'
    BY <1>7 DEF WriteVariant, Continues, VariantTypeOK, metaVars, sweepVars, GotoStep
  <2>2. Rest'
    BY <1>7 DEF WriteVariant, Continues, VariantTypeOK, metaVars, sweepVars, GotoStep, UploadsApart,
       ViewsCovered, SweepTrace, OriginalsExplained, VariantsExplained, Uploading, Viewing, Stored
  <2> QED
    BY <2>1, <2>2
<1>8. ASSUME ServerDies(s) PROVE Accounts'
  <2>1. VariantTypeOK'
    BY <1>8 DEF ServerDies, Ends, VariantTypeOK, diskVars, sweepVars, GotoStep
  <2>2. Rest'
    BY <1>8 DEF ServerDies, Ends, VariantTypeOK, diskVars, sweepVars, GotoStep, UploadsApart,
       ViewsCovered, SweepTrace, OriginalsExplained, VariantsExplained, Uploading, Viewing, Stored
  <2> QED
    BY <2>1, <2>2
<1> QED
  BY <1>1, <1>2, <1>3, <1>4, <1>5, <1>6, <1>7, <1>8

(***************************************************************************)
(* So does the cleanup.                                                    *)
(***************************************************************************)
LEMMA SweepAccounts ==
    ASSUME Accounts,
           \/ \E f \in Pictures : BeginDelete(f)
           \/ UnlinkOriginal \/ RemoveVariants \/ RemoveFolder \/ DropMetadata \/ SweeperDies
    PROVE  Accounts'
<1> USE DEF Accounts
<1> DEFINE Rest == UploadsApart /\ ViewsCovered /\ SweepTrace /\ OriginalsExplained /\ VariantsExplained
<1>1. VariantTypeOK'
  BY DEF BeginDelete, BackendOf, UnlinkOriginal, RemoveVariants, RemoveFolder, DropMetadata,
         SweeperDies, VariantTypeOK, diskVars, metaVars, requestVars
<1>2. ASSUME NEW f \in Pictures, BeginDelete(f) PROVE Rest'
  BY <1>2 DEF BeginDelete, diskVars, requestVars, UploadsApart, ViewsCovered, SweepTrace,
              OriginalsExplained, VariantsExplained, Uploading, Viewing, Stored
<1>3. ASSUME UnlinkOriginal PROVE Rest'
  BY <1>3 DEF UnlinkOriginal, metaVars, requestVars, UploadsApart, ViewsCovered, SweepTrace,
              OriginalsExplained, VariantsExplained, Uploading, Viewing, Stored
<1>4. ASSUME RemoveVariants PROVE Rest'
  BY <1>4 DEF RemoveVariants, VariantTypeOK, metaVars, requestVars, UploadsApart, ViewsCovered,
              SweepTrace, OriginalsExplained, VariantsExplained, Uploading, Viewing, Stored
<1>5. ASSUME RemoveFolder PROVE Rest'
  BY <1>5 DEF RemoveFolder, metaVars, requestVars, UploadsApart, ViewsCovered, SweepTrace,
              OriginalsExplained, VariantsExplained, Uploading, Viewing, Stored
<1>6. ASSUME DropMetadata PROVE Rest'
  BY <1>6 DEF DropMetadata, diskVars, requestVars, UploadsApart, ViewsCovered, SweepTrace,
              OriginalsExplained, VariantsExplained, Uploading, Viewing, Stored
<1>7. ASSUME SweeperDies PROVE Rest'
  BY <1>7 DEF SweeperDies, diskVars, requestVars, UploadsApart, ViewsCovered, SweepTrace,
              OriginalsExplained, VariantsExplained, Uploading, Viewing, Stored
<1> QED
  BY <1>1, <1>2, <1>3, <1>4, <1>5, <1>6, <1>7
----------------------------------------------------------------------------
(* The limit.                                                              *)

\* The servers that have found room and not yet written.
Writing == {s \in Servers : step[s] \in {"save", "put"}}

\* Room for a file is promised to all of them at once.
RoomKept == Usage + Cardinality(Writing) <= DiskLimit + Cardinality(Servers) - 1

(***************************************************************************)
(* A step takes no room, promises some when there is room for one file, or *)
(* keeps a promise.                                                        *)
(***************************************************************************)
LEMMA RoomSteps ==
    ASSUME Accounts, [VariantNext]_variantVars
    PROVE  \/ /\ originals' \subseteq originals /\ variants' \subseteq variants
              /\ Writing' \subseteq Writing
           \/ /\ Fits /\ UNCHANGED <<originals, variants>>
              /\ \E s \in Servers : Writing' \subseteq Writing \cup {s}
           \/ \E s \in Writing : \E f \in Pictures :
                 /\ Writing' = Writing \ {s}
                 /\ \/ originals' \subseteq originals \cup {f} /\ UNCHANGED variants
                    \/ variants' \subseteq variants \cup {f} /\ UNCHANGED originals
<1>t. step \in [Servers -> {"idle", "save", "register", "undo", "folder", "look", "resize", "room", "put"}]
      /\ target \in [Servers -> Pictures]
  BY DEF Accounts, VariantTypeOK
<1> DEFINE Frees == /\ originals' \subseteq originals /\ variants' \subseteq variants
                    /\ Writing' \subseteq Writing
           Promises == /\ Fits /\ UNCHANGED <<originals, variants>>
                       /\ \E s \in Servers : Writing' \subseteq Writing \cup {s}
           Keeps == \E s \in Writing : \E f \in Pictures :
                       /\ Writing' = Writing \ {s}
                       /\ \/ originals' \subseteq originals \cup {f} /\ UNCHANGED variants
                          \/ variants' \subseteq variants \cup {f} /\ UNCHANGED originals
<1>1. ASSUME NEW s \in Servers, NEW f \in Pictures, BeginUpload(s, f) PROVE Frees \/ Promises
  BY <1>t, <1>1 DEF BeginUpload, GotoStep, Writing, diskVars
<1>2. ASSUME NEW s \in Servers, NEW f \in Pictures, BeginView(s, f) PROVE Frees
  BY <1>t, <1>2 DEF BeginView, GotoStep, Writing, diskVars
<1>3. ASSUME NEW s \in Servers, WriteOriginal(s) PROVE Keeps
  <2>1. s \in Writing /\ Writing' = Writing \ {s}
    BY <1>t, <1>3 DEF WriteOriginal, Continues, GotoStep, Writing
  <2>2. originals' \subseteq originals \cup {target[s]} /\ UNCHANGED variants
    BY <1>3 DEF WriteOriginal
  <2> QED
    BY <1>t, <2>1, <2>2
<1>4. ASSUME NEW s \in Servers, SaveMetadata(s) \/ UndoUpload(s) \/ MakeFolder(s) PROVE Frees
  BY <1>t, <1>4 DEF SaveMetadata, UndoUpload, MakeFolder, Continues, GotoStep, Writing, diskVars
<1>5. ASSUME NEW s \in Servers, LookForVariant(s) \/ Resize(s) PROVE Frees
  BY <1>t, <1>5 DEF LookForVariant, Resize, Continues, GotoStep, Writing, diskVars
<1>6. ASSUME NEW s \in Servers, CheckRoom(s) PROVE Frees \/ Promises
  BY <1>t, <1>6 DEF CheckRoom, Continues, GotoStep, Writing, diskVars
<1>7. ASSUME NEW s \in Servers, WriteVariant(s) PROVE Keeps
  <2>1. s \in Writing /\ Writing' = Writing \ {s}
    BY <1>t, <1>7 DEF WriteVariant, Continues, GotoStep, Writing
  <2>2. variants' \subseteq variants \cup {target[s]} /\ UNCHANGED originals
    BY <1>7 DEF WriteVariant
  <2> QED
    BY <1>t, <2>1, <2>2
<1>8. ASSUME NEW s \in Servers, ServerDies(s) PROVE Frees
  BY <1>t, <1>8 DEF ServerDies, Ends, GotoStep, Writing, diskVars
<1>9. ASSUME \/ \E f \in Pictures : BeginDelete(f)
             \/ UnlinkOriginal \/ RemoveVariants \/ RemoveFolder \/ DropMetadata \/ SweeperDies
      PROVE  Frees
  BY <1>9 DEF BeginDelete, UnlinkOriginal, RemoveVariants, RemoveFolder, DropMetadata, SweeperDies,
              Writing, diskVars, requestVars
<1>10. ASSUME UNCHANGED variantVars PROVE Frees
  BY <1>10 DEF variantVars, diskVars, requestVars, Writing
<1> QED
  BY <1>1, <1>2, <1>3, <1>4, <1>5, <1>6, <1>7, <1>8, <1>9, <1>10 DEF VariantNext

(***************************************************************************)
(* So the promises never exceed the limit by more than all servers but one *)
(* could have made in between.                                             *)
(***************************************************************************)
LEMMA NextRoom ==
    ASSUME IsFiniteSet(Pictures), IsFiniteSet(Servers),
           Accounts, Accounts', RoomKept, [VariantNext]_variantVars
    PROVE  RoomKept'
<1>1. /\ IsFiniteSet(originals) /\ IsFiniteSet(variants) /\ IsFiniteSet(Writing)
      /\ IsFiniteSet(originals') /\ IsFiniteSet(variants') /\ IsFiniteSet(Writing')
      /\ Cardinality(Writing') <= Cardinality(Servers)
  <2>1. /\ originals \in SUBSET Pictures /\ variants \in SUBSET Pictures
        /\ originals' \in SUBSET Pictures /\ variants' \in SUBSET Pictures
    BY DEF Accounts, VariantTypeOK
  <2>2. Writing \in SUBSET Servers /\ Writing' \in SUBSET Servers
    BY DEF Writing
  <2> QED
    BY <2>1, <2>2, FS_Subset
<1>2. /\ Cardinality(originals) \in Nat /\ Cardinality(variants) \in Nat
      /\ Cardinality(originals') \in Nat /\ Cardinality(variants') \in Nat
      /\ Cardinality(Writing) \in Nat /\ Cardinality(Writing') \in Nat
      /\ Cardinality(Servers) \in Nat /\ DiskLimit \in Nat
  BY <1>1, FS_CardinalityType, VariantAssumption
<1>3. ASSUME NEW S, IsFiniteSet(S), NEW T \in SUBSET S PROVE Cardinality(T) <= Cardinality(S)
  BY <1>3, FS_Subset
<1>4. ASSUME NEW S, IsFiniteSet(S), NEW x, NEW T \in SUBSET (S \cup {x})
      PROVE  Cardinality(T) <= Cardinality(S) + 1
  <2>0. Cardinality(S) \in Nat
    BY <1>4, FS_CardinalityType
  <2>a. /\ IsFiniteSet(S \cup {x})
        /\ \/ Cardinality(S \cup {x}) = Cardinality(S)
           \/ Cardinality(S \cup {x}) = Cardinality(S) + 1
    BY <1>4, FS_AddElement
  <2>1. IsFiniteSet(S \cup {x}) /\ Cardinality(S \cup {x}) <= Cardinality(S) + 1
    BY <2>0, <2>a
  <2>2. Cardinality(T) <= Cardinality(S \cup {x}) /\ IsFiniteSet(T)
    BY <2>1, FS_Subset
  <2>3. Cardinality(T) \in Nat /\ Cardinality(S \cup {x}) \in Nat /\ Cardinality(S) \in Nat
    BY <1>4, <2>1, <2>2, FS_CardinalityType
  <2> QED
    BY <2>1, <2>2, <2>3
<1>5. CASE /\ originals' \subseteq originals /\ variants' \subseteq variants
           /\ Writing' \subseteq Writing
  <2>1. /\ Cardinality(originals') <= Cardinality(originals)
        /\ Cardinality(variants') <= Cardinality(variants)
        /\ Cardinality(Writing') <= Cardinality(Writing)
    BY <1>1, <1>3, <1>5
  <2> QED
    BY <1>2, <2>1 DEF RoomKept, Usage
<1>6. CASE Fits /\ UNCHANGED <<originals, variants>>
  BY <1>1, <1>2, <1>6 DEF RoomKept, Fits, Usage
<1>7. CASE \E s \in Writing : \E f \in Pictures :
              /\ Writing' = Writing \ {s}
              /\ \/ originals' \subseteq originals \cup {f} /\ UNCHANGED variants
                 \/ variants' \subseteq variants \cup {f} /\ UNCHANGED originals
  <2>1. Cardinality(Writing') = Cardinality(Writing) - 1
    BY <1>1, <1>7, FS_RemoveElement
  <2>2. \/ Cardinality(originals') <= Cardinality(originals) + 1 /\ UNCHANGED variants
        \/ Cardinality(variants') <= Cardinality(variants) + 1 /\ UNCHANGED originals
    BY <1>1, <1>4, <1>7
  <2> QED
    BY <1>2, <2>1, <2>2 DEF RoomKept, Usage
<1> QED
  BY <1>5, <1>6, <1>7, RoomSteps

(***************************************************************************)
(* Everything on the disk is accounted for (see DiskAccounted): uploads    *)
(* and variants exceed the limit by fewer files than there are servers,    *)
(* and a file without metadata is left of a known failure or race.         *)
(***************************************************************************)
THEOREM StoreAccounted ==
    ASSUME IsFiniteSet(Pictures), Pictures # {}, IsFiniteSet(Servers)
    PROVE  VariantSpec => []DiskAccounted
<1>1. VariantInit => Accounts /\ RoomKept
  <2> SUFFICES ASSUME VariantInit PROVE RoomKept
    BY InitAccounts
  <2>1. Writing = {} /\ originals = {} /\ variants = {}
    BY DEF VariantInit, Writing
  <2>2. Cardinality(Servers) \in Nat /\ DiskLimit \in Nat \ {0}
    BY FS_CardinalityType, VariantAssumption
  <2> QED
    BY <2>1, <2>2, FS_EmptySet DEF RoomKept, Usage
<1>2. Accounts /\ RoomKept /\ [VariantNext]_variantVars => Accounts' /\ RoomKept'
  <2> SUFFICES ASSUME Accounts, RoomKept, [VariantNext]_variantVars PROVE Accounts' /\ RoomKept'
    OBVIOUS
  <2>1. ASSUME UNCHANGED variantVars PROVE Accounts'
    BY <2>1 DEF variantVars, diskVars, metaVars, requestVars, sweepVars, Accounts, VariantTypeOK,
         UploadsApart, ViewsCovered, SweepTrace, OriginalsExplained, VariantsExplained,
         Uploading, Viewing, Stored
  <2>2. ASSUME VariantNext PROVE Accounts'
    BY <2>2, RequestAccounts, SweepAccounts DEF VariantNext
  <2>3. Accounts'
    BY <2>1, <2>2
  <2> QED
    BY <2>3, NextRoom
<1>3. Accounts /\ RoomKept => DiskAccounted
  <2> SUFFICES ASSUME Accounts, RoomKept PROVE OvershootBounded
    BY DEF Accounts, DiskAccounted
  <2>1. originals \in SUBSET Pictures /\ variants \in SUBSET Pictures /\ Writing \in SUBSET Servers
    BY DEF Accounts, VariantTypeOK, Writing
  <2>2. IsFiniteSet(originals) /\ IsFiniteSet(variants) /\ IsFiniteSet(Writing)
    BY <2>1, FS_Subset
  <2>3. /\ Cardinality(originals) \in Nat /\ Cardinality(variants) \in Nat
        /\ Cardinality(Writing) \in Nat /\ Cardinality(Servers) \in Nat /\ DiskLimit \in Nat
    BY <2>2, FS_CardinalityType, VariantAssumption
  <2> QED
    BY <2>3 DEF RoomKept, OvershootBounded, Usage
<1> QED
  BY <1>1, <1>2, <1>3, PTL DEF VariantSpec
=============================================================================
