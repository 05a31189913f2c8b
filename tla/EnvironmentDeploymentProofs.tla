-------------------- MODULE EnvironmentDeploymentProofs --------------------
(***************************************************************************)
(* Invariance proofs for EnvironmentDeployment, for every set of           *)
(* components, every bound and every choice of outside events: its types,  *)
(* the queue of runs it implements, and the life of a run.                 *)
(***************************************************************************)
EXTENDS EnvironmentDeployment, TLAPS

\* Whoever holds the lock of a component holds it for a stage job of that
\* component, and only apps are in the middle of a release.
HoldsJob ==
    \A c \in Components :
        /\ worker[c] # "free" => holding[c] \in StageJob /\ holding[c].comp = c
        /\ worker[c] \in {"started", "prepared", "switched", "restored"} => c \in Apps

TypeInv == TypeOK /\ HoldsJob
-----------------------------------------------------------------------------
LEMMA TypeInit == Init => TypeInv
<1> SUFFICES ASSUME Init PROVE TypeInv
  OBVIOUS
<1> USE BoundsAssumption DEF Init, RunIds, MaybeRun, NoRun, Versions
<1>1. RunTypes
  BY DEF RunTypes, Statuses, Deadlines
<1>2. RowTypes
  BY DEF RowTypes, RowStatuses
<1>3. HostTypes
  BY DEF HostTypes
<1>4. EnvTypes
  BY DEF EnvTypes
<1>5. JobTypes
  BY DEF JobTypes, FinishSteps
<1>6. LockTypes /\ HoldsJob
  BY DEF LockTypes, HoldsJob, WorkerSteps
<1> QED
  BY <1>1, <1>2, <1>3, <1>4, <1>5, <1>6 DEF TypeInv, TypeOK


LEMMA FrameTypes ==
    ASSUME TypeInv
    PROVE  /\ UNCHANGED runVars => RunTypes'
           /\ UNCHANGED rowVars => RowTypes'
           /\ UNCHANGED hostVars => HostTypes'
           /\ UNCHANGED envVars => EnvTypes'
           /\ UNCHANGED jobVars => JobTypes'
           /\ UNCHANGED lockVars => LockTypes' /\ HoldsJob'
           /\ UNCHANGED faults => (faults \in 0..MaxFaults)'
BY DEF TypeInv, TypeOK, RunTypes, RowTypes, HostTypes, EnvTypes, JobTypes, LockTypes, HoldsJob,
       runVars, rowVars, hostVars, envVars, jobVars, lockVars

LEMMA CreateRunTypes ==
    ASSUME TypeInv, NEW r \in RunIds, NEW t \in MaybeRun, CreateRun(r, t)
    PROVE  TypeInv'
<1> USE DEF CreateRun, TypeInv, TypeOK
<1>1. RunTypes'
  BY DEF RunTypes, runVars, origin, RunIds, MaybeRun, NoRun, Statuses, Deadlines, MustWait, OutOfDate
<1>2. EnvTypes'
  BY DEF EnvTypes, settings
<1>3. JobTypes'
  BY DEF JobTypes, queued, MustWait
<1> QED
  BY <1>1, <1>2, <1>3, FrameTypes

LEMMA FinishRunTypes ==
    ASSUME TypeInv, NEW r \in RunIds, NEW s \in Statuses, FinishRun(r, s)
    PROVE  /\ status' \in [RunIds -> Statuses]
           /\ deadline' \in [RunIds -> Deadlines]
           /\ row' \in [RunIds -> [Components -> RowStatuses]]
           /\ needs' \in SUBSET Apps
           /\ finishes' \in [RunIds -> FinishSteps]
<1> USE DEF FinishRun, TypeInv, TypeOK
<1>1. status' \in [RunIds -> Statuses] /\ deadline' \in [RunIds -> Deadlines]
  BY DEF RunTypes, Deadlines, Draining
<1>2. row' \in [RunIds -> [Components -> RowStatuses]]
  BY DEF RowTypes, RowStatuses
<1>3. needs' \in SUBSET Apps
  BY DEF EnvTypes
<1>4. finishes' \in [RunIds -> FinishSteps]
  BY DEF JobTypes, FinishSteps
<1> QED
  BY <1>1, <1>2, <1>3, <1>4

LEMMA DispatchTypes ==
    ASSUME TypeInv, NEW r \in RunIds, NEW s \in Stages, NEW rec \in BOOLEAN,
           NEW d \in [RunIds -> [Components -> RowStatuses]], Dispatch(r, s, rec, d)
    PROVE  /\ stage' \in [RunIds -> Stages \cup {"none"}]
           /\ recovering' \in [RunIds -> BOOLEAN]
           /\ deadline' \in [RunIds -> Deadlines]
           /\ row' \in [RunIds -> [Components -> RowStatuses]]
           /\ rowStage' \in [RunIds -> [Components -> Stages \cup {"none"}]]
           /\ stageJobs' \in SUBSET StageJob
<1> USE DEF Dispatch, TypeInv, TypeOK
<1>1. stage' \in [RunIds -> Stages \cup {"none"}] /\ recovering' \in [RunIds -> BOOLEAN]
  BY DEF RunTypes
<1>2. deadline' \in [RunIds -> Deadlines]
  BY DEF RunTypes, Deadlines
<1>3. row' \in [RunIds -> [Components -> RowStatuses]]
  BY DEF RowStatuses
<1>4. rowStage' \in [RunIds -> [Components -> Stages \cup {"none"}]]
  BY DEF RowTypes
<1>5. stageJobs' \in SUBSET StageJob
  BY DEF JobTypes, StageJob, Participants
<1> QED
  BY <1>1, <1>2, <1>3, <1>4, <1>5

LEMMA RunNumbers ==
    /\ NoRun \in MaybeRun /\ RunIds \subseteq MaybeRun
    /\ \A r \in MaybeRun : r # NoRun => r \in RunIds
    /\ 0 \in Versions
BY BoundsAssumption DEF NoRun, MaybeRun, RunIds, Versions

LEMMA RequestTypes == TypeInv /\ Request => TypeInv'
<1> SUFFICES ASSUME TypeInv, Request PROVE TypeInv'
  OBVIOUS
<1>1. CASE WhenReadyFails
  <2>1. EnvTypes'
    BY <1>1 DEF WhenReadyFails, TypeInv, TypeOK, EnvTypes
  <2> QED
    BY <1>1, <2>1, FrameTypes DEF WhenReadyFails, TypeInv, TypeOK
<1>2. CASE WebhookFails
  <2>1. RunTypes'
    BY <1>2 DEF WebhookFails, TypeInv, TypeOK, RunTypes, RunIds, MaybeRun, Statuses
  <2> QED
    BY <1>2, <2>1, FrameTypes DEF WebhookFails, TypeInv, TypeOK
<1>3. CASE Join
  <2> PICK r \in RunIds : CreateJoin(r)
    BY <1>3 DEF Join
  <2>1. RunTypes'
    BY <1>3 DEF Join, CreateJoin, CanJoin, TypeInv, TypeOK, RunTypes, EnvTypes, RunIds, MaybeRun,
       NoRun, Statuses, Deadlines
  <2>2. JobTypes'
    BY <1>3 DEF Join, CreateJoin, TypeInv, TypeOK, JobTypes, queued
  <2> QED
    BY <1>3, <2>1, <2>2, FrameTypes DEF Join, TypeInv, TypeOK
<1>4. ASSUME NEW r \in RunIds, Cancel(r) PROVE TypeInv'
  <2>1. FinishRun(r, "cancelled") /\ "cancelled" \in Statuses
    BY <1>4 DEF Cancel, Statuses
  <2>2. RunTypes'
    BY <1>4, <2>1, FinishRunTypes DEF Cancel, TypeInv, TypeOK, RunTypes, origin
  <2>3. RowTypes' /\ EnvTypes' /\ JobTypes'
    BY <1>4, <2>1, FinishRunTypes
       DEF Cancel, TypeInv, TypeOK, RowTypes, EnvTypes, JobTypes, releaseVars, settings, queued
  <2> QED
    BY <1>4, <2>2, <2>3, FrameTypes DEF Cancel, TypeInv, TypeOK
<1> QED
  BY <1>1, <1>2, <1>3, <1>4, CreateRunTypes, RunNumbers DEF Request, Deploy, Rollback, WhenReady

LEMMA EnvironmentTypes == TypeInv /\ Environment => TypeInv'
<1> SUFFICES ASSUME TypeInv, Environment PROVE TypeInv'
  OBVIOUS
<1> USE DEF TypeInv, TypeOK
<1>1. CASE EditVariables
  <2>1. EnvTypes'
    BY <1>1, BoundsAssumption DEF EditVariables, EnvTypes, Versions
  <2> QED
    BY <1>1, <2>1, FrameTypes DEF EditVariables
<1>2. CASE BeginTeardown
  <2>1. EnvTypes'
    BY <1>2 DEF BeginTeardown, EnvTypes
  <2> QED
    BY <1>2, <2>1, FrameTypes DEF BeginTeardown
<1>3. ASSUME NEW c \in Components, ComponentReady(c) PROVE TypeInv'
  <2>1. EnvTypes'
    BY <1>3 DEF ComponentReady, EnvTypes
  <2> QED
    BY <1>3, <2>1, FrameTypes DEF ComponentReady
<1>4. ASSUME NEW c \in Components, ComponentUnready(c) PROVE TypeInv'
  <2>1. EnvTypes'
    BY <1>4 DEF ComponentUnready, EnvTypes
  <2> QED
    BY <1>4, <2>1, FrameTypes DEF ComponentUnready
<1> QED
  BY <1>1, <1>2, <1>3, <1>4 DEF Environment

LEMMA StartTypes == ASSUME TypeInv, NEW r \in RunIds, Start(r) PROVE TypeInv'
<1> USE DEF TypeInv, TypeOK
<1>1. CASE StartCheck(r) \/ StartStale(r)
  <2>1. JobTypes'
    BY <1>1 DEF StartCheck, StartStale, JobTypes, queued
  <2> QED
    BY <1>1, <2>1, FrameTypes DEF StartCheck, StartStale
<1>2. CASE StartFails(r)
  <2>1. CASE Startable(r) /\ FinishRun(r, "failed")
    <3>1. RunTypes'
      BY <1>2, <2>1, FinishRunTypes DEF StartFails, RunTypes, origin, Statuses
    <3>2. RowTypes'
      BY <1>2, <2>1, FinishRunTypes DEF StartFails, RowTypes, releaseVars, Statuses
    <3>3. EnvTypes'
      BY <1>2, <2>1, FinishRunTypes DEF StartFails, EnvTypes, settings, Statuses
    <3>4. JobTypes'
      BY <1>2, <2>1, FinishRunTypes DEF StartFails, JobTypes, queued, Statuses
    <3>5. (faults \in 0..MaxFaults)'
      BY <1>2, BoundsAssumption DEF StartFails
    <3> QED
      BY <1>2, <3>1, <3>2, <3>3, <3>4, <3>5, FrameTypes DEF StartFails
  <2>2. CASE UNCHANGED <<status, deadline, row, needs, finishes>>
    <3>1. RunTypes' /\ RowTypes' /\ EnvTypes'
      BY <1>2, <2>2 DEF StartFails, RunTypes, RowTypes, EnvTypes, origin, releaseVars, settings
    <3>2. JobTypes'
      BY <1>2, <2>2 DEF StartFails, JobTypes, queued
    <3>3. (faults \in 0..MaxFaults)'
      BY <1>2, BoundsAssumption DEF StartFails
    <3> QED
      BY <1>2, <3>1, <3>2, <3>3, FrameTypes DEF StartFails
  <2> QED
    BY <1>2, <2>1, <2>2 DEF StartFails
<1>3. CASE StartRun(r)
  <2> DEFINE new == Recruits(r)
             rows == [row EXCEPT ![r] = [c \in Components |-> IF c \notin new THEN "none"
                         ELSE IF c \in Apps THEN "deploying" ELSE "finished"]]
             first == IF target[r] # NoRun THEN "release" ELSE "clone"
  <2>1. rows \in [RunIds -> [Components -> RowStatuses]]
    BY DEF RowTypes, RowStatuses
  <2>2. version' \in [RunIds -> Versions]
    <3>1. LiveVersion \in Versions /\ edits \in Versions /\ version \in [RunIds -> Versions]
      BY RunNumbers DEF LiveVersion, RunTypes, EnvTypes
    <3> QED
      BY <1>3, <3>1 DEF StartRun
  <2>3. starts' \in [RunIds -> {"none", "queued", "checked"}]
    BY <1>3 DEF StartRun, JobTypes
  <2>4. CASE new = {} /\ FinishRun(r, "failed")
                /\ UNCHANGED <<stage, recovering, rowStage, kept, prev, stageJobs>>
    <3>1. RunTypes'
      BY <1>3, <2>2, <2>4, FinishRunTypes DEF StartRun, RunTypes, origin, Statuses
    <3>2. RowTypes'
      BY <1>3, <2>4, FinishRunTypes DEF StartRun, RowTypes, Statuses
    <3>3. EnvTypes'
      BY <1>3, <2>4, FinishRunTypes DEF StartRun, EnvTypes, settings, Statuses
    <3>4. JobTypes'
      BY <1>3, <2>3, <2>4, FinishRunTypes DEF StartRun, JobTypes, Statuses
    <3> QED
      BY <1>3, <3>1, <3>2, <3>3, <3>4, FrameTypes DEF StartRun
  <2>5. CASE /\ new # {}
             /\ kept' = [kept EXCEPT ![r] = new \cap Apps]
             /\ prev' = [prev EXCEPT ![r] = [c \in Apps |-> IF c \in new THEN active[c] ELSE NoRun]]
             /\ Dispatch(r, first, FALSE, rows)
             /\ UNCHANGED <<status, needs, finishes>>
    <3> HIDE DEF rows
    <3>0. first \in Stages
      BY DEF Stages
    <3> HIDE DEF first
    <3>1. RunTypes'
      BY <1>3, <2>1, <2>2, <2>5, <3>0, DispatchTypes DEF StartRun, RunTypes, origin
    <3>2. RowTypes'
      BY <1>3, <2>1, <2>5, <3>0, DispatchTypes, RunNumbers DEF StartRun, RowTypes
    <3>3. EnvTypes'
      BY <1>3, <2>5 DEF StartRun, EnvTypes, settings
    <3>4. JobTypes'
      BY <1>3, <2>1, <2>3, <2>5, <3>0, DispatchTypes DEF StartRun, JobTypes
    <3> QED
      BY <1>3, <3>1, <3>2, <3>3, <3>4, FrameTypes DEF StartRun
  <2> QED
    BY <1>3, <2>4, <2>5 DEF StartRun
<1> QED
  BY <1>1, <1>2, <1>3 DEF Start

\* failed() changes one row, and only to "failed".
LEMMA FailedRowTypes ==
    ASSUME TypeInv, NEW j \in StageJob
    PROVE  FailedRow(j) \in [RunIds -> [Components -> RowStatuses]]
BY DEF TypeInv, TypeOK, RowTypes, FailedRow, StageJob, RowStatuses

LEMMA StageJobCalls ==
    ASSUME NEW j \in StageJob
    PROVE  j \in AdvanceCall /\ DirectCall(j) \in AdvanceCall
BY DEF StageJob, AdvanceCall, DirectCall

LEMMA StageQueueTypes == TypeInv /\ StageQueue => TypeInv'
<1> SUFFICES ASSUME TypeInv, NEW j \in stageJobs,
                    SkipStageJob(j) \/ TakeStageJob(j) \/ ExpireStageJob(j)
             PROVE  TypeInv'
  BY DEF StageQueue
<1> USE DEF TypeInv, TypeOK
<1>0. j \in StageJob
  BY DEF JobTypes
<1>1. CASE SkipStageJob(j) \/ ExpireStageJob(j)
  <2>1. RowTypes'
    BY <1>0, <1>1, FailedRowTypes DEF SkipStageJob, ExpireStageJob, RowTypes, releaseVars
  <2>2. JobTypes'
    BY <1>0, <1>1, StageJobCalls DEF SkipStageJob, ExpireStageJob, JobTypes
  <2> QED
    BY <1>1, <2>1, <2>2, FrameTypes DEF SkipStageJob, ExpireStageJob
<1>2. CASE TakeStageJob(j)
  <2>1. LockTypes' /\ HoldsJob'
    BY <1>0, <1>2 DEF TakeStageJob, LockTypes, HoldsJob, WorkerSteps, StageJob
  <2>2. JobTypes'
    BY <1>2 DEF TakeStageJob, JobTypes
  <2> QED
    BY <1>2, <2>1, <2>2, FrameTypes DEF TakeStageJob
<1> QED
  BY <1>1, <1>2

LEMMA HolderTypes ==
    ASSUME TypeInv, NEW c \in Components, worker[c] # "free"
    PROVE  /\ holding[c] \in StageJob
           /\ holding[c].run \in RunIds
           /\ holding[c].comp = c
           /\ holding[c] \in AdvanceCall
           /\ DirectCall(holding[c]) \in AdvanceCall
           /\ FailedRow(holding[c]) \in [RunIds -> [Components -> RowStatuses]]
<1>1. holding[c] \in StageJob /\ holding[c].comp = c
  BY DEF TypeInv, HoldsJob
<1>2. holding[c].run \in RunIds
  BY <1>1 DEF StageJob
<1> QED
  BY <1>1, <1>2, StageJobCalls, FailedRowTypes

LEMMA WorkerMovesTypes ==
    ASSUME TypeInv, NEW c \in Components, NEW step \in WorkerSteps, worker[c] # "free",
           step \in {"started", "prepared", "switched", "restored"} => c \in Apps,
           WorkerMoves(c, step)
    PROVE  LockTypes' /\ HoldsJob'
BY DEF TypeInv, TypeOK, LockTypes, HoldsJob, WorkerMoves

LEMMA FreeLockTypes ==
    ASSUME TypeInv, NEW c \in Components, FreeLock(c)
    PROVE  LockTypes' /\ HoldsJob'
BY DEF TypeInv, TypeOK, LockTypes, HoldsJob, FreeLock, WorkerSteps

LEMMA WorkTypes == ASSUME TypeInv, NEW c \in Components, Work(c) PROVE TypeInv'
<1> USE DEF TypeInv, TypeOK
<1> DEFINE r == holding[c].run
<1>1. CASE CloneRelease(c)
  <2>1. EnvTypes'
    BY <1>1 DEF CloneRelease, NeedsAfterClone, EnvTypes, settings
  <2>2. LockTypes' /\ HoldsJob'
    BY <1>1, WorkerMovesTypes DEF CloneRelease, At, WorkerSteps
  <2> QED
    BY <1>1, <2>1, <2>2, FrameTypes DEF CloneRelease
<1>2. CASE BeginRelease(c)
  <2>1. RowTypes'
    BY <1>2, HolderTypes DEF BeginRelease, At, RowTypes
  <2>2. LockTypes' /\ HoldsJob'
    BY <1>2, WorkerMovesTypes DEF BeginRelease, At, WorkerSteps
  <2> QED
    BY <1>2, <2>1, <2>2, FrameTypes DEF BeginRelease
<1>3. CASE ReleaseEnv(c)
  <2>1. c \in Apps /\ r \in RunIds
    BY <1>3, HolderTypes DEF ReleaseEnv, HoldsJob
  <2>2. HostTypes'
    BY <1>3, <2>1 DEF ReleaseEnv, HostTypes, RunTypes
  <2>3. LockTypes' /\ HoldsJob'
    BY <1>3, <2>1, WorkerMovesTypes DEF ReleaseEnv, WorkerSteps
  <2> QED
    BY <1>3, <2>2, <2>3, FrameTypes DEF ReleaseEnv
<1>4. CASE SwitchRelease(c)
  <2>1. c \in Apps /\ r \in RunIds
    BY <1>4, HolderTypes DEF SwitchRelease, HoldsJob
  <2>2. HostTypes'
    BY <1>4, <2>1 DEF SwitchRelease, HostTypes, RunTypes
  <2>3. LockTypes' /\ HoldsJob'
    BY <1>4, <2>1, WorkerMovesTypes DEF SwitchRelease, WorkerSteps
  <2> QED
    BY <1>4, <2>2, <2>3, FrameTypes DEF SwitchRelease
<1>5. CASE ActivateRelease(c)
  <2>1. r \in MaybeRun
    BY <1>5, HolderTypes, RunNumbers DEF ActivateRelease
  <2>2. RowTypes'
    BY <1>5, <2>1 DEF ActivateRelease, RowTypes
  <2>3. LockTypes' /\ HoldsJob'
    BY <1>5, WorkerMovesTypes DEF ActivateRelease, WorkerSteps
  <2> QED
    BY <1>5, <2>2, <2>3, FrameTypes DEF ActivateRelease
<1>6. CASE RestoreRelease(c)
  <2>1. c \in Apps /\ r \in RunIds /\ prev[r][c] \in MaybeRun
    BY <1>6, HolderTypes DEF RestoreRelease, At, RowTypes
  <2>2. (IF prev[r][c] = NoRun THEN NoRun ELSE release[prev[r][c]]) \in MaybeRun
    BY <2>1, RunNumbers DEF RunTypes
  <2>3. served' \in [Apps -> Versions]
    BY <1>6, <2>1 DEF RestoreRelease, HostTypes
  <2>4. symlink' \in [Apps -> MaybeRun]
    BY <1>6, <2>2 DEF RestoreRelease, HostTypes
  <2>5. LockTypes' /\ HoldsJob'
    BY <1>6, WorkerMovesTypes DEF RestoreRelease, At, WorkerSteps
  <2> QED
    BY <1>6, <2>3, <2>4, <2>5, FrameTypes DEF RestoreRelease, HostTypes
<1>7. CASE RestoreActive(c)
  <2>1. c \in Apps /\ r \in RunIds
    BY <1>7, HolderTypes DEF RestoreActive, HoldsJob
  <2>2. RowTypes'
    BY <1>7, <2>1, RunNumbers DEF RestoreActive, RowTypes
  <2>3. LockTypes' /\ HoldsJob'
    BY <1>7, WorkerMovesTypes DEF RestoreActive, WorkerSteps
  <2> QED
    BY <1>7, <2>2, <2>3, FrameTypes DEF RestoreActive
<1>8. CASE CompleteStage(c)
  <2>1. worker[c] # "free"
    BY <1>8 DEF CompleteStage
  <2>2. RowTypes'
    BY <1>8, <2>1, HolderTypes DEF CompleteStage, RowTypes, releaseVars, RowStatuses
  <2>3. EnvTypes'
    BY <1>8 DEF CompleteStage, EnvTypes, settings
  <2>4. JobTypes'
    BY <1>8, <2>1, HolderTypes DEF CompleteStage, JobTypes
  <2>5. LockTypes' /\ HoldsJob'
    BY <1>8, FreeLockTypes DEF CompleteStage
  <2> QED
    BY <1>8, <2>2, <2>3, <2>4, <2>5, FrameTypes DEF CompleteStage
<1> QED
  BY <1>1, <1>2, <1>3, <1>4, <1>5, <1>6, <1>7, <1>8 DEF Work

LEMMA DisturbTypes == ASSUME TypeInv, NEW c \in Components, Disturb(c) PROVE TypeInv'
<1> USE DEF TypeInv, TypeOK
<1>1. CASE StageReturns(c)
  <2>1. JobTypes'
    BY <1>1, HolderTypes DEF StageReturns, Working, JobTypes
  <2>2. (faults \in 0..MaxFaults)'
    BY <1>1, BoundsAssumption DEF StageReturns
  <2> QED
    BY <1>1, <2>1, <2>2, FreeLockTypes, FrameTypes DEF StageReturns
<1>2. CASE StageThrows(c)
  <2>1. RowTypes'
    BY <1>2, HolderTypes DEF StageThrows, Working, RowTypes, releaseVars
  <2>2. JobTypes'
    BY <1>2, HolderTypes DEF StageThrows, Working, JobTypes
  <2>3. (faults \in 0..MaxFaults)'
    BY <1>2, BoundsAssumption DEF StageThrows
  <2> QED
    BY <1>2, <2>1, <2>2, <2>3, FreeLockTypes, FrameTypes DEF StageThrows
<1>3. CASE StageTimesOut(c)
  <2>1. RowTypes'
    BY <1>3, HolderTypes DEF StageTimesOut, Working, RowTypes, releaseVars
  <2>2. JobTypes'
    BY <1>3, HolderTypes DEF StageTimesOut, Working, JobTypes
  <2>3. LockTypes' /\ HoldsJob'
    BY <1>3 DEF StageTimesOut, Working, LockTypes, HoldsJob, WorkerSteps
  <2> QED
    BY <1>3, <2>1, <2>2, <2>3, FrameTypes DEF StageTimesOut
<1>4. CASE WorkerCrashes(c)
  <2>1. JobTypes'
    BY <1>4, HolderTypes DEF WorkerCrashes, Working, JobTypes
  <2>2. LockTypes' /\ HoldsJob'
    BY <1>4 DEF WorkerCrashes, Working, LockTypes, HoldsJob, WorkerSteps
  <2>3. (faults \in 0..MaxFaults)'
    BY <1>4, BoundsAssumption DEF WorkerCrashes
  <2> QED
    BY <1>4, <2>1, <2>2, <2>3, FrameTypes DEF WorkerCrashes
<1>5. CASE LeaseExpires(c)
  BY <1>5, FreeLockTypes, FrameTypes DEF LeaseExpires
<1> QED
  BY <1>1, <1>2, <1>3, <1>4, <1>5 DEF Disturb

LEMMA AdvanceTypes == ASSUME TypeInv, NEW a \in advances, Advance(a) PROVE TypeInv'
<1> USE DEF TypeInv, TypeOK
<1> DEFINE Pending == stage' \in [RunIds -> Stages \cup {"none"}] /\ recovering' \in [RunIds -> BOOLEAN]
           Rows == /\ row' \in [RunIds -> [Components -> RowStatuses]]
                   /\ rowStage' \in [RunIds -> [Components -> Stages \cup {"none"}]]
           Run == status' \in [RunIds -> Statuses] /\ deadline' \in [RunIds -> Deadlines]
           Env == live' \in MaybeRun /\ needs' \in SUBSET Apps
           Jobs == finishes' \in [RunIds -> FinishSteps] /\ stageJobs' \in SUBSET StageJob
           Settled == Pending /\ Rows /\ Run /\ Env /\ Jobs
<1>0. a \in AdvanceCall /\ a.run \in RunIds /\ a.stage \in Stages
  BY DEF JobTypes, AdvanceCall
<1>1. ASSUME NEW s \in Statuses, AdvanceEnds(a, s) PROVE Settled
  BY <1>0, <1>1, FinishRunTypes DEF AdvanceEnds, RunTypes, RowTypes, EnvTypes, JobTypes
<1>2. ASSUME NEW s \in Stages, NEW rec \in BOOLEAN, AdvanceEnters(a, s, rec), live' \in MaybeRun
      PROVE  Settled
  <2>1. row \in [RunIds -> [Components -> RowStatuses]]
    BY DEF RowTypes
  <2> QED
    BY <1>0, <1>2, <2>1, DispatchTypes DEF AdvanceEnters, RunTypes, RowTypes, EnvTypes, JobTypes
<1> HIDE DEF Settled
<1>3. ASSUME SettleCancelled(a) PROVE Settled
  BY <1>1, <1>3 DEF SettleCancelled, Statuses
<1>4. ASSUME SettleRecovery(a) PROVE Settled
  BY <1>1, <1>4 DEF SettleRecovery, RecoveryResult, Statuses
<1>5. ASSUME SettleFailure(a) PROVE Settled
  BY <1>1, <1>2, <1>5 DEF SettleFailure, Statuses, Stages, EnvTypes
<1>6. ASSUME SettleSuccess(a) PROVE Settled
  <2> DEFINE s == NextStage(a.run, a.stage)
  <2>1. s # "none" => s \in Stages
    BY DEF NextStage, Stages
  <2>2. LiveAfter(a) \in MaybeRun
    BY <1>0, RunNumbers DEF LiveAfter, EnvTypes
  <2> QED
    BY <1>1, <1>2, <1>6, <2>1, <2>2 DEF SettleSuccess, Statuses
<1>7. ASSUME UNCHANGED <<status, stage, recovering, deadline, row, rowStage, live, needs, finishes,
                         stageJobs>>
      PROVE  Settled
  BY <1>7 DEF Settled, RunTypes, RowTypes, EnvTypes, JobTypes
<1>8. Settled
  BY <1>3, <1>4, <1>5, <1>6, <1>7 DEF Advance
<1>9. RunTypes' /\ RowTypes' /\ EnvTypes'
  BY <1>8 DEF Settled, Advance, RunTypes, RowTypes, EnvTypes, origin, releaseVars, settings
<1>10. JobTypes'
  BY <1>8 DEF Settled, Advance, JobTypes
<1> QED
  BY <1>9, <1>10, FrameTypes DEF Advance

LEMMA LoseAdvanceTypes == ASSUME TypeInv, NEW a \in advances, LoseAdvance(a) PROVE TypeInv'
<1> USE DEF TypeInv, TypeOK
<1>1. JobTypes'
  BY DEF LoseAdvance, JobTypes
<1>2. (faults \in 0..MaxFaults)'
  BY BoundsAssumption DEF LoseAdvance
<1> QED
  BY <1>1, <1>2, FrameTypes DEF LoseAdvance

LEMMA NextRunTypes ==
    ASSUME TypeInv, NextRun
    PROVE  /\ status' \in [RunIds -> Statuses]
           /\ deadline' \in [RunIds -> Deadlines]
           /\ join' \in SUBSET RunIds
           /\ release' \in [RunIds -> MaybeRun]
           /\ version' \in [RunIds -> Versions]
           /\ starts' \in [RunIds -> {"none", "queued", "checked"}]
<1> USE DEF TypeInv, TypeOK, RunTypes, JobTypes
<1>1. ASSUME NEW r \in RunIds, CreateJoin(r)
      PROVE  /\ status' \in [RunIds -> Statuses]
             /\ deadline' \in [RunIds -> Deadlines]
             /\ join' \in SUBSET RunIds
             /\ release' \in [RunIds -> MaybeRun]
             /\ version' \in [RunIds -> Versions]
             /\ starts' \in [RunIds -> {"none", "queued", "checked"}]
  <2>1. live \in RunIds
    BY <1>1, RunNumbers DEF CreateJoin, CanJoin, EnvTypes
  <2> QED
    BY <1>1, <2>1 DEF CreateJoin, Statuses, Deadlines
<1> QED
  BY <1>1 DEF NextRun, Statuses, Deadlines

LEMMA FinishTypes == ASSUME TypeInv, NEW r \in RunIds, Finish(r) PROVE TypeInv'
<1> USE DEF TypeInv, TypeOK
<1>1. CASE FinishBegin(r)
  <2>1. JobTypes'
    BY <1>1 DEF FinishBegin, JobTypes, FinishSteps, queued
  <2> QED
    BY <1>1, <2>1, FrameTypes DEF FinishBegin
<1>2. CASE FinishNext(r)
  <2>1. RunTypes'
    BY <1>2, NextRunTypes DEF FinishNext, RunTypes
  <2>2. JobTypes'
    BY <1>2, NextRunTypes DEF FinishNext, JobTypes, FinishSteps, queued
  <2>3. (faults \in 0..MaxFaults)'
    BY <1>2, BoundsAssumption DEF FinishNext
  <2> QED
    BY <1>2, <2>1, <2>2, <2>3, FrameTypes DEF FinishNext
<1>3. CASE FinishLost(r)
  <2>1. JobTypes'
    BY <1>3 DEF FinishLost, JobTypes, FinishSteps, queued
  <2>2. (faults \in 0..MaxFaults)'
    BY <1>3, BoundsAssumption DEF FinishLost
  <2> QED
    BY <1>3, <2>1, <2>2, FrameTypes DEF FinishLost
<1>4. ASSUME NEW c \in Apps, FinishPrune(r, c) PROVE TypeInv'
  <2>1. kept' \in [RunIds -> SUBSET Apps]
    BY <1>4 DEF FinishPrune, RowTypes
  <2>2. RowTypes'
    BY <1>4, <2>1 DEF FinishPrune, RowTypes
  <2>3. JobTypes'
    BY <1>4 DEF FinishPrune, JobTypes, queued
  <2> QED
    BY <1>4, <2>2, <2>3, FrameTypes DEF FinishPrune
<1> QED
  BY <1>1, <1>2, <1>3, <1>4 DEF Finish

LEMMA WatchdogTypes == ASSUME TypeInv, NEW r \in RunIds, Watchdog(r) PROVE TypeInv'
<1> USE DEF TypeInv, TypeOK
<1>1. CASE PassDeadline(r)
  <2>1. RunTypes'
    BY <1>1 DEF PassDeadline, RunTypes, origin, Deadlines
  <2> QED
    BY <1>1, <2>1, FrameTypes DEF PassDeadline
<1>2. CASE FailStalled(r)
  <2>1. CASE stage[r] = "none"
    <3>1. RunTypes' /\ RowTypes'
      BY <1>2, <2>1, FinishRunTypes
         DEF FailStalled, RunTypes, RowTypes, origin, releaseVars, Statuses
    <3>2. EnvTypes' /\ JobTypes'
      BY <1>2, <2>1, FinishRunTypes DEF FailStalled, EnvTypes, JobTypes, settings, Statuses
    <3> QED
      BY <1>2, <3>1, <3>2, FrameTypes DEF FailStalled
  <2>2. CASE stage[r] # "none"
    <3>1. RunTypes' /\ EnvTypes'
      BY <1>2, <2>2 DEF FailStalled, RunTypes, EnvTypes, origin, settings
    <3>2. RowTypes'
      <4> DEFINE failing == {c \in Components : c \in Participants(r, stage[r], row) /\ row[r][c] = "deploying"}
                 rows == [c \in Components |-> IF c \in failing THEN "failed" ELSE row[r][c]]
      <4>1. row' = [row EXCEPT ![r] = rows]
        BY <1>2, <2>2 DEF FailStalled, RowTypes
      <4>2. rows \in [Components -> RowStatuses]
        BY DEF RowTypes, RowStatuses
      <4>3. row' \in [RunIds -> [Components -> RowStatuses]]
        BY <4>1, <4>2 DEF RowTypes
      <4> QED
        BY <1>2, <4>3 DEF FailStalled, RowTypes, releaseVars
    <3>3. [run |-> r, comp |-> NoComponent, stage |-> stage[r], rec |-> recovering[r]] \in AdvanceCall
      BY <2>2 DEF RunTypes, AdvanceCall
    <3>4. JobTypes'
      BY <1>2, <2>2, <3>3 DEF FailStalled, JobTypes
    <3> QED
      BY <1>2, <3>1, <3>2, <3>4, FrameTypes DEF FailStalled
  <2> QED
    BY <2>1, <2>2
<1> QED
  BY <1>1, <1>2 DEF Watchdog

LEMMA WakePendingTypes == ASSUME TypeInv, WakePending PROVE TypeInv'
<1> USE DEF TypeInv, TypeOK
<1>1. RunTypes'
  BY NextRunTypes DEF WakePending, RunTypes
<1>2. JobTypes'
  BY NextRunTypes DEF WakePending, JobTypes, queued
<1> QED
  BY <1>1, <1>2, FrameTypes DEF WakePending

LEMMA TypeStep == TypeInv /\ [Next]_vars => TypeInv'
<1> SUFFICES ASSUME TypeInv, [Next]_vars PROVE TypeInv'
  OBVIOUS
<1>1. CASE UNCHANGED vars
  BY <1>1, FrameTypes DEF vars, TypeInv, TypeOK
<1>2. CASE Next
  BY <1>2, RequestTypes, EnvironmentTypes, StartTypes, StageQueueTypes, WorkTypes, DisturbTypes,
     AdvanceTypes, LoseAdvanceTypes, FinishTypes, WatchdogTypes, WakePendingTypes DEF Next
<1> QED
  BY <1>1, <1>2

\* Every step keeps every variable within its type: no handler writes a status,
\* a stage or a deployment number that its column does not have.
THEOREM TypeCorrect == Spec => []TypeOK
<1>1. Spec => []TypeInv
  BY TypeInit, TypeStep, PTL DEF Spec
<1>2. TypeInv => TypeOK
  BY DEF TypeInv
<1> QED
  BY <1>1, <1>2, PTL

-----------------------------------------------------------------------------
(* The runs implement the queue of RunQueue *)

\* A run that waits has no deadline yet, so withdrawing it cannot leave it draining.
WaitingIsUndated == \A r \in RunIds : status[r] = "pending" => deadline[r] = "none"

QueueInv == TypeInv /\ WaitingIsUndated

LEMMA PhaseOf ==
    /\ DOMAIN Phase = RunIds
    /\ \A r \in RunIds :
        /\ Phase[r] = "none" <=> status[r] = "none"
        /\ Phase[r] = "waiting" <=> status[r] = "pending"
        /\ Phase[r] = "active" <=> Occupying(r)
        /\ Phase[r] \in {"none", "waiting", "active", "over"}
BY DEF Phase, Occupying

\* Only status and deadline matter to the queue.
LEMMA QueueStutters ==
    ASSUME QueueInv, UNCHANGED <<status, deadline>>
    PROVE  UNCHANGED Phase /\ WaitingIsUndated'
BY DEF QueueInv, WaitingIsUndated, Phase, Occupying

\* Ending a run, whether it waited, ran or drained.
LEMMA EndingEnds ==
    ASSUME QueueInv, NEW r \in RunIds, status[r] = "pending" \/ Occupying(r),
           NEW s \in {"failed", "finished", "cancelled", "partial", "rolled_back"}, FinishRun(r, s)
    PROVE  [Queue!Next]_Phase /\ WaitingIsUndated'
<1>1. /\ status' = [status EXCEPT ![r] = s]
      /\ deadline' \in {deadline, [deadline EXCEPT ![r] = "none"]}
  BY DEF FinishRun, QueueInv, TypeInv, TypeOK, RunTypes
<1>2. \A q \in RunIds : q # r => status'[q] = status[q] /\ deadline'[q] = deadline[q]
  BY <1>1 DEF QueueInv, TypeInv, TypeOK, RunTypes
<1>3. status'[r] = s
  BY <1>1 DEF QueueInv, TypeInv, TypeOK, RunTypes
<1>4. WaitingIsUndated'
  BY <1>2, <1>3 DEF QueueInv, WaitingIsUndated
<1>5. \A q \in RunIds : q # r => Phase'[q] = Phase[q]
  BY <1>2 DEF Phase, Occupying
<1>6. Phase'[r] \in {"active", "over"}
  BY <1>3 DEF Phase, Occupying
<1>7. Phase[r] \in {"waiting", "active"}
  BY PhaseOf
<1>8. Phase[r] = "waiting" => Phase'[r] = "over"
  <2> SUFFICES ASSUME status[r] = "pending" PROVE Phase'[r] = "over"
    BY PhaseOf
  <2>1. deadline[r] = "none"
    BY DEF QueueInv, WaitingIsUndated
  <2>2. deadline'[r] = "none"
    BY <1>1, <2>1 DEF QueueInv, TypeInv, TypeOK, RunTypes
  <2> QED
    BY <1>3, <2>2 DEF Phase, Occupying
<1>9. CASE Phase'[r] = "active"
  <2>1. \A q \in RunIds : Phase'[q] = Phase[q]
    BY <1>5, <1>7, <1>8, <1>9
  <2> QED
    BY <1>4, <2>1 DEF Phase
<1>10. CASE Phase'[r] = "over"
  <2>1. Phase' = [Phase EXCEPT ![r] = "over"]
    BY <1>5, <1>10 DEF Phase
  <2>2. Queue!End(r)
    BY <1>7, <2>1 DEF Queue!End
  <2> QED
    BY <1>4, <2>2 DEF Queue!Next, Queue!Runs, RunIds
<1> QED
  BY <1>6, <1>9, <1>10

\* A run that runs or drains gets a new deadline, or the one it has passes.
LEMMA DatingStutters ==
    ASSUME QueueInv, NEW r \in RunIds, NEW d \in Deadlines \ {"none"}, status' = status,
           deadline' = [deadline EXCEPT ![r] = d],
           status[r] # "pending", status[r] = "cancelled" => deadline[r] # "none"
    PROVE  UNCHANGED Phase /\ WaitingIsUndated'
<1>1. \A q \in RunIds : q # r => deadline'[q] = deadline[q]
  BY DEF QueueInv, TypeInv, TypeOK, RunTypes
<1>2. deadline'[r] = d /\ d # "none"
  BY DEF QueueInv, TypeInv, TypeOK, RunTypes
<1>3. \A q \in RunIds : Phase'[q] = Phase[q]
  BY <1>1, <1>2 DEF Phase, Occupying
<1> QED
  BY <1>1, <1>3 DEF Phase, QueueInv, WaitingIsUndated

LEMMA DispatchStutters ==
    ASSUME QueueInv, NEW r \in RunIds, NEW s, NEW rec, NEW d, status[r] = "running",
           Dispatch(r, s, rec, d), status' = status
    PROVE  UNCHANGED Phase /\ WaitingIsUndated'
BY DatingStutters DEF Dispatch, Deadlines

LEMMA FreshIsNewest == ASSUME NEW r \in RunIds, Fresh(r) PROVE Queue!Newest(r)
BY PhaseOf, BoundsAssumption DEF Fresh, Queue!Newest, Queue!Runs, RunIds

LEMMA BusyWhileOccupying == Queue!Busy <=> \E q \in RunIds : Occupying(q)
BY PhaseOf DEF Queue!Busy, Queue!Runs, RunIds

LEMMA CreateRunAsks ==
    ASSUME QueueInv, NEW r \in RunIds, NEW t, CreateRun(r, t)
    PROVE  [Queue!Next]_Phase /\ WaitingIsUndated'
<1>1. status' = [q \in RunIds |-> IF q = r THEN (IF MustWait THEN "pending" ELSE "running")
                                  ELSE OutOfDate(q)]
  BY DEF CreateRun
<1>2. deadline' = [deadline EXCEPT ![r] = IF MustWait THEN "none" ELSE "future"]
  BY DEF CreateRun
<1>3. MustWait <=> Queue!Busy
  BY BusyWhileOccupying DEF MustWait
<1>4. Phase'[r] = IF MustWait THEN "waiting" ELSE "active"
  BY <1>1 DEF Phase, Occupying
<1>5. ASSUME NEW q \in RunIds, q # r
      PROVE  Phase'[q] = IF Phase[q] = "waiting" THEN "over" ELSE Phase[q]
  <2>1. status'[q] = OutOfDate(q) /\ deadline'[q] = deadline[q]
    BY <1>1, <1>2, <1>5 DEF QueueInv, TypeInv, TypeOK, RunTypes
  <2>2. CASE status[q] = "pending"
    BY <2>1, <2>2, PhaseOf DEF OutOfDate, Phase, Occupying
  <2>3. CASE status[q] # "pending"
    BY <2>1, <2>3, PhaseOf DEF OutOfDate, Phase, Occupying
  <2> QED
    BY <2>2, <2>3
<1>6. Queue!Ask(r)
  <2>1. Fresh(r)
    BY DEF CreateRun
  <2>2. Queue!Newest(r)
    BY <2>1, FreshIsNewest
  <2>3. DOMAIN Phase' = RunIds /\ Phase' = [q \in RunIds |-> Phase'[q]]
    BY DEF Phase
  <2> QED
    BY <2>2, <2>3, <1>3, <1>4, <1>5 DEF Queue!Ask, Queue!Runs, RunIds
<1>7. WaitingIsUndated'
  BY <1>1, <1>2 DEF WaitingIsUndated, OutOfDate, QueueInv, TypeInv, TypeOK, RunTypes
<1> QED
  BY <1>6, <1>7 DEF Queue!Next, Queue!Runs, RunIds

LEMMA CreateJoinAsks ==
    ASSUME QueueInv, NEW r \in RunIds, CreateJoin(r)
    PROVE  [Queue!Next]_Phase /\ WaitingIsUndated'
<1>1. status' = [status EXCEPT ![r] = "running"] /\ deadline' = [deadline EXCEPT ![r] = "future"]
  BY DEF CreateJoin
<1>2. \A q \in RunIds : status[q] # "pending" /\ ~ Occupying(q)
  BY DEF CreateJoin, CanJoin, Idle, Blocking
<1>3. ~ Queue!Busy
  BY <1>2, BusyWhileOccupying
<1>4. Phase'[r] = "active"
  BY <1>1 DEF Phase, Occupying, QueueInv, TypeInv, TypeOK, RunTypes
<1>5. \A q \in RunIds : q # r => Phase'[q] = Phase[q] /\ Phase[q] # "waiting"
  <2>1. \A q \in RunIds : q # r => status'[q] = status[q] /\ deadline'[q] = deadline[q]
    BY <1>1 DEF QueueInv, TypeInv, TypeOK, RunTypes
  <2>2. \A q \in RunIds : Phase[q] # "waiting"
    BY <1>2, PhaseOf
  <2>3. \A q \in RunIds : q # r => Phase'[q] = Phase[q]
    BY <2>1 DEF Phase, Occupying
  <2> QED
    BY <2>2, <2>3
<1>6. Queue!Ask(r)
  <2>1. Queue!Newest(r)
    BY FreshIsNewest DEF CreateJoin
  <2>2. Phase' = [q \in RunIds |-> Phase'[q]]
    BY DEF Phase
  <2> QED
    BY <2>1, <2>2, <1>3, <1>4, <1>5 DEF Queue!Ask, Queue!Runs, RunIds
<1>7. WaitingIsUndated'
  BY <1>1 DEF WaitingIsUndated, QueueInv, TypeInv, TypeOK, RunTypes
<1> QED
  BY <1>6, <1>7 DEF Queue!Next, Queue!Runs, RunIds

LEMMA NextRunPromotes ==
    ASSUME QueueInv, NextRun
    PROVE  [Queue!Next]_Phase /\ WaitingIsUndated'
<1>1. ASSUME NEW r \in RunIds, ~ \E q \in RunIds : Occupying(q), Promotable(r),
             status' = [status EXCEPT ![r] = "running"],
             deadline' = [deadline EXCEPT ![r] = "future"]
      PROVE  [Queue!Next]_Phase /\ WaitingIsUndated'
  <2>1. ~ Queue!Busy /\ Phase[r] = "waiting"
    BY <1>1, BusyWhileOccupying, PhaseOf DEF Promotable
  <2>2. \A q \in RunIds : q # r => status'[q] = status[q] /\ deadline'[q] = deadline[q]
    BY <1>1 DEF QueueInv, TypeInv, TypeOK, RunTypes
  <2>3. status'[r] = "running"
    BY <1>1 DEF QueueInv, TypeInv, TypeOK, RunTypes
  <2>4. \A q \in RunIds : Phase'[q] = IF q = r THEN "active" ELSE Phase[q]
    BY <2>2, <2>3 DEF Phase, Occupying
  <2>5. Phase' = [Phase EXCEPT ![r] = "active"]
    BY <2>4 DEF Phase
  <2>6. WaitingIsUndated'
    BY <2>2, <2>3 DEF WaitingIsUndated, QueueInv
  <2> QED
    BY <2>1, <2>5, <2>6 DEF Queue!Promote, Queue!Next, Queue!Runs, RunIds
<1> QED
  BY <1>1, CreateJoinAsks, QueueStutters DEF NextRun

LEMMA AdvanceKeepsQueue ==
    ASSUME QueueInv, NEW a \in advances, Advance(a)
    PROVE  [Queue!Next]_Phase /\ WaitingIsUndated'
<1>0. a.run \in RunIds
  BY DEF QueueInv, TypeInv, TypeOK, JobTypes, AdvanceCall
<1>1. CASE SettleCancelled(a)
  BY <1>0, <1>1, EndingEnds DEF SettleCancelled, AdvanceEnds, Occupying
<1>2. CASE SettleRecovery(a)
  BY <1>0, <1>2, EndingEnds DEF SettleRecovery, RecoveryResult, AdvanceEnds, Occupying
<1>3. CASE SettleFailure(a)
  BY <1>0, <1>3, EndingEnds, DispatchStutters DEF SettleFailure, AdvanceEnds, AdvanceEnters, Occupying
<1>4. CASE SettleSuccess(a)
  BY <1>0, <1>4, EndingEnds, DispatchStutters DEF SettleSuccess, AdvanceEnds, AdvanceEnters, Occupying
<1>5. CASE UNCHANGED <<status, deadline>>
  BY <1>5, QueueStutters
<1> QED
  BY <1>1, <1>2, <1>3, <1>4, <1>5 DEF Advance

LEMMA QueueStep == QueueInv /\ [Next]_vars => [Queue!Next]_Phase /\ WaitingIsUndated'
<1> SUFFICES ASSUME QueueInv, [Next]_vars PROVE [Queue!Next]_Phase /\ WaitingIsUndated'
  OBVIOUS
<1>1. CASE UNCHANGED <<status, deadline>>
  BY <1>1, QueueStutters
<1>2. CASE Request
  <2>1. CASE WhenReadyFails
    BY <1>1, <2>1 DEF WhenReadyFails, runVars
  <2>2. ASSUME NEW r \in RunIds, Fresh(r), WebhookFails,
               status' = [status EXCEPT ![r] = "failed"], UNCHANGED deadline
        PROVE  [Queue!Next]_Phase /\ WaitingIsUndated'
    <3>1. \A q \in RunIds : status'[q] = IF q = r THEN "failed" ELSE status[q]
      BY <2>2 DEF QueueInv, TypeInv, TypeOK, RunTypes
    <3>2. Phase' = [Phase EXCEPT ![r] = "over"]
      <4>1. Phase'[r] = "over"
        BY <3>1 DEF Phase, Occupying
      <4>2. \A q \in RunIds : q # r => Phase'[q] = Phase[q]
        BY <2>2, <3>1 DEF Phase, Occupying
      <4> QED
        BY <4>1, <4>2 DEF Phase
    <3>3. Queue!Reject(r)
      BY <2>2, <3>2, FreshIsNewest DEF Queue!Reject
    <3>4. WaitingIsUndated'
      BY <2>2, <3>1 DEF WaitingIsUndated, QueueInv
    <3> QED
      BY <3>3, <3>4 DEF Queue!Next, Queue!Runs, RunIds
  <2>3. CASE WebhookFails
    BY <2>2, <2>3 DEF WebhookFails
  <2>4. CASE Join
    BY <2>4, CreateJoinAsks DEF Join
  <2>5. ASSUME NEW r \in RunIds, Cancel(r) PROVE [Queue!Next]_Phase /\ WaitingIsUndated'
    BY <2>5, EndingEnds DEF Cancel, CanCancel, Occupying
  <2> QED
    BY <1>2, <2>1, <2>3, <2>4, <2>5, CreateRunAsks DEF Request, Deploy, Rollback, WhenReady
<1>3. CASE Environment
  BY <1>1, <1>3
     DEF Environment, EditVariables, BeginTeardown, ComponentReady, ComponentUnready, runVars
<1>4. ASSUME NEW r \in RunIds, Start(r) PROVE [Queue!Next]_Phase /\ WaitingIsUndated'
  <2>1. CASE StartCheck(r) \/ StartStale(r)
    BY <1>1, <2>1 DEF StartCheck, StartStale, runVars
  <2>2. CASE StartFails(r)
    BY <1>1, <2>2, EndingEnds DEF StartFails, Startable, Occupying
  <2>3. CASE StartRun(r)
    BY <2>3, EndingEnds, DispatchStutters DEF StartRun, Startable, Occupying
  <2> QED
    BY <1>4, <2>1, <2>2, <2>3 DEF Start
<1>5. ASSUME NEW r \in RunIds, Finish(r) PROVE [Queue!Next]_Phase /\ WaitingIsUndated'
  BY <1>1, <1>5, NextRunPromotes
     DEF Finish, FinishBegin, FinishNext, FinishLost, FinishPrune, runVars
<1>6. ASSUME NEW r \in RunIds, Watchdog(r) PROVE [Queue!Next]_Phase /\ WaitingIsUndated'
  <2>1. CASE PassDeadline(r)
    <3>1. deadline[r] = "future" /\ deadline' = [deadline EXCEPT ![r] = "past"] /\ status' = status
      BY <2>1 DEF PassDeadline
    <3>2. status[r] # "pending"
      BY <3>1 DEF QueueInv, WaitingIsUndated
    <3> QED
      BY <3>1, <3>2, DatingStutters DEF Deadlines
  <2>2. CASE FailStalled(r)
    BY <1>1, <2>2, EndingEnds DEF FailStalled, Stalled
  <2> QED
    BY <1>6, <2>1, <2>2 DEF Watchdog
<1>7. CASE StageQueue
  BY <1>1, <1>7 DEF StageQueue, SkipStageJob, TakeStageJob, ExpireStageJob, runVars
<1>8. ASSUME NEW c \in Components, Work(c) \/ Disturb(c)
      PROVE  [Queue!Next]_Phase /\ WaitingIsUndated'
  <2>1. CASE Work(c)
    BY <1>1, <2>1 DEF Work, CloneRelease, BeginRelease, ReleaseEnv, SwitchRelease, ActivateRelease,
       RestoreRelease, RestoreActive, CompleteStage, runVars
  <2>2. CASE Disturb(c)
    BY <1>1, <2>2 DEF Disturb, StageReturns, StageThrows, StageTimesOut, WorkerCrashes,
       LeaseExpires, runVars
  <2> QED
    BY <1>8, <2>1, <2>2
<1>9. ASSUME NEW a \in advances, LoseAdvance(a) PROVE [Queue!Next]_Phase /\ WaitingIsUndated'
  BY <1>1, <1>9 DEF LoseAdvance, runVars
<1>10. CASE WakePending
  BY <1>10, NextRunPromotes DEF WakePending
<1>11. CASE UNCHANGED vars
  BY <1>1, <1>11 DEF vars, runVars
<1> QED
  BY <1>2, <1>3, <1>4, <1>5, <1>6, <1>7, <1>8, <1>9, <1>10, <1>11, AdvanceKeepsQueue DEF Next

LEMMA QueueInit == Init => QueueInv /\ Queue!Init
BY TypeInit DEF Init, QueueInv, WaitingIsUndated, Queue!Init, Queue!Runs, RunIds, Phase, Occupying

LEMMA QueueInvariant == Spec => []QueueInv
<1>1. QueueInv /\ [Next]_vars => QueueInv'
  BY TypeStep, QueueStep DEF QueueInv
<1> QED
  BY <1>1, QueueInit, PTL DEF Spec

\* The deployment runs of an environment, with their jobs, locks, errors,
\* cancellations and watchdog, are the simple queue: every step is a request, a
\* rejection, a promotion or an ending there, or does not concern it.
THEOREM RunsImplementQueue == Spec => ImplementsRunQueue
<1>1. Init => Queue!Init
  BY QueueInit
<1>2. QueueInv /\ [Next]_vars => [Queue!Next]_Phase
  BY QueueStep
<1> QED
  BY <1>1, <1>2, QueueInvariant, PTL DEF Spec, ImplementsRunQueue, Queue!Spec

\* The queue keeps its promise: requests, promotions and endings in any order
\* leave at most one run active and at most one waiting.
THEOREM QueueIsOneAtATime == Queue!Spec => []Queue!OneAtATime
<1> DEFINE Inv == Queue!TypeInv /\ Queue!OneAtATime
<1>1. Queue!Init => Inv
  BY DEF Queue!Init, Queue!TypeInv, Queue!OneAtATime, Queue!Phases
<1>2. Inv /\ [Queue!Next]_Phase => Inv'
  <2> SUFFICES ASSUME Inv, [Queue!Next]_Phase PROVE Inv'
    OBVIOUS
  <2> USE DEF Queue!TypeInv, Queue!OneAtATime, Queue!Phases
  <2>1. ASSUME NEW r \in Queue!Runs, Queue!Ask(r) PROVE Inv'
    BY <2>1 DEF Queue!Ask, Queue!Newest, Queue!Busy
  <2>2. ASSUME NEW r \in Queue!Runs, Queue!Reject(r) PROVE Inv'
    BY <2>2 DEF Queue!Reject
  <2>3. ASSUME NEW r \in Queue!Runs, Queue!Promote(r) PROVE Inv'
    BY <2>3 DEF Queue!Promote, Queue!Busy
  <2>4. ASSUME NEW r \in Queue!Runs, Queue!End(r) PROVE Inv'
    BY <2>4 DEF Queue!End
  <2>5. CASE UNCHANGED Phase
    BY <2>5
  <2> QED
    BY <2>1, <2>2, <2>3, <2>4, <2>5 DEF Queue!Next
<1> QED
  BY <1>1, <1>2, PTL DEF Queue!Spec

\* At most one run of an environment is carrying out stages or draining at any
\* time, because the queue it implements never has two active runs.
THEOREM OneRunIsActive == Spec => []OneActiveRun
<1>1. Queue!Spec => []Queue!OneAtATime
  BY QueueIsOneAtATime
<1>2. Queue!OneAtATime => OneActiveRun
  BY PhaseOf DEF Queue!OneAtATime, Queue!Runs, OneActiveRun, RunIds
<1> QED
  BY <1>1, <1>2, RunsImplementQueue, PTL DEF ImplementsRunQueue

-----------------------------------------------------------------------------
(* The life of a run.  Its work never overlaps with other work on a        *)
(* server, its stages are left together, its end is final, the newest      *)
(* request waits and a teardown meets no deployment.  Every step of the    *)
(* detailed model has one of a few shapes as far as runs and rows go; the  *)
(* later invariants are proved over the shapes.                            *)

\* A row deploys only in a stage of its run that its component takes part in.
DeployingTakesPart ==
    \A r \in RunIds, c \in Components : row[r][c] = "deploying" =>
        /\ status[r] # "none"
        /\ stage[r] # "none"
        /\ c \in Participants(r, stage[r], row)

\* A run that runs has a deadline, so its cancellation can leave it draining.
RunningIsDated == \A r \in RunIds : status[r] = "running" => deadline[r] # "none"

\* A job that is being worked on is not queued as well.
WorkedIsNotQueued == \A c \in Components : Working(c) => holding[c] \notin stageJobs

WorkRules == DeployingTakesPart /\ RunningIsDated /\ WorkedIsNotQueued /\ NoOverlappingWork
WorkInv == TypeInv /\ WorkRules
-----------------------------------------------------------------------------
\* The variables that the rules speak of.
workVars == <<status, stage, recovering, deadline, join, row, rowStage, worker, holding, stageJobs>>

LEMMA WorkStutters == ASSUME WorkRules, UNCHANGED workVars PROVE WorkRules'
BY DEF WorkRules, DeployingTakesPart, RunningIsDated, WorkedIsNotQueued, NoOverlappingWork, Working,
       Occupying, Awaited, Participants, workVars

\* Nobody works for a run none of whose rows deploys.
LEMMA WorkNeedsDeployingRow ==
    ASSUME WorkInv, NEW c \in Components, Working(c)
    PROVE  /\ holding[c] \in StageJob
           /\ holding[c].run \in RunIds
           /\ holding[c].stage \in Stages
           /\ holding[c].comp = c
           /\ holding[c] \notin stageJobs
           /\ Awaited(holding[c])
           /\ Occupying(holding[c].run)
           /\ row[holding[c].run][c] = "deploying"
<1>1. worker[c] # "free"
  BY DEF Working
<1>2. holding[c] \in StageJob
  BY <1>1, HolderTypes DEF WorkInv
<1>3. holding[c].comp = c /\ Awaited(holding[c]) /\ Occupying(holding[c].run)
  BY DEF WorkInv, WorkRules, NoOverlappingWork
<1>4. holding[c] \notin stageJobs
  BY DEF WorkInv, WorkRules, WorkedIsNotQueued
<1> QED
  BY <1>2, <1>3, <1>4 DEF StageJob, Awaited

\* Rows that go on deploying go on taking part.
LEMMA RowsTakePart ==
    ASSUME WorkInv,
           \A r \in RunIds, c \in Components : row'[r][c] = "deploying" =>
               /\ row[r][c] = "deploying"
               /\ status'[r] # "none"
               /\ stage'[r] = stage[r]
               /\ r \in join' => r \in join
    PROVE  DeployingTakesPart'
BY DEF WorkInv, WorkRules, DeployingTakesPart, Participants

\* Work goes on where its run, its stage and its row do.
LEMMA WorkGoesOn ==
    ASSUME WorkInv,
           \A c \in Components : Working(c)' =>
               /\ Working(c)
               /\ holding'[c] = holding[c]
               /\ holding[c] \notin stageJobs'
               /\ Occupying(holding[c].run) => Occupying(holding[c].run)'
               /\ stage'[holding[c].run] = stage[holding[c].run]
               /\ recovering'[holding[c].run] = recovering[holding[c].run]
               /\ rowStage'[holding[c].run][c] = rowStage[holding[c].run][c]
               /\ row'[holding[c].run][c] = row[holding[c].run][c]
    PROVE  WorkedIsNotQueued' /\ NoOverlappingWork'
<1>1. WorkedIsNotQueued'
  BY DEF WorkedIsNotQueued
<1>2. ASSUME NEW c \in Components, Working(c)'
      PROVE  (holding[c].comp = c /\ Occupying(holding[c].run) /\ Awaited(holding[c]))'
  <2>1. Working(c) /\ holding'[c] = holding[c]
    BY <1>2
  <2>2. holding[c].comp = c /\ Occupying(holding[c].run) /\ Awaited(holding[c])
    BY <2>1, WorkNeedsDeployingRow
  <2>3. Occupying(holding[c].run)'
    BY <1>2, <2>2
  <2>4. status'[holding'[c].run] \in {"running", "cancelled"}
    BY <2>3 DEF Occupying
  <2>5. /\ stage'[holding'[c].run] = holding'[c].stage
        /\ recovering'[holding'[c].run] = holding'[c].rec
        /\ rowStage'[holding'[c].run][c] = holding'[c].stage
        /\ row'[holding'[c].run][c] = "deploying"
    BY <1>2, <2>1, <2>2 DEF Awaited
  <2>6. holding'[c].comp = c
    BY <2>1, <2>2
  <2>7. Awaited(holding[c])'
    BY <2>4, <2>5, <2>6 DEF Awaited
  <2> QED
    BY <2>3, <2>6, <2>7
<1>3. NoOverlappingWork'
  BY <1>2 DEF NoOverlappingWork
<1> QED
  BY <1>1, <1>3

\* Rows settle, jobs are queued or dropped and workers move; the runs stay.
LEMMA RowsSettle ==
    ASSUME WorkInv, UNCHANGED <<status, stage, recovering, deadline, join, rowStage>>,
           \A r \in RunIds, c \in Components : row'[r][c] = "deploying" => row[r][c] = "deploying",
           \A c \in Components : Working(c)' =>
               /\ Working(c)
               /\ holding'[c] = holding[c]
               /\ holding[c] \notin stageJobs'
               /\ row'[holding[c].run][c] = row[holding[c].run][c]
    PROVE  WorkRules'
<1>1. DeployingTakesPart'
  BY RowsTakePart DEF WorkInv, WorkRules, DeployingTakesPart
<1>2. RunningIsDated'
  BY DEF WorkInv, WorkRules, RunningIsDated
<1>3. WorkedIsNotQueued' /\ NoOverlappingWork'
  BY WorkGoesOn DEF Occupying
<1> QED
  BY <1>1, <1>2, <1>3 DEF WorkRules

\* Runs change status or deadline, or come to be joins; rows and workers stay.
LEMMA StatusKeepsWork ==
    ASSUME WorkInv, UNCHANGED <<stage, recovering, row, rowStage, worker, holding, stageJobs>>,
           \A r \in RunIds : status[r] # "none" =>
               /\ status'[r] # "none"
               /\ r \in join' => r \in join,
           \A r \in RunIds : status'[r] = "running" => deadline'[r] # "none",
           \A r \in RunIds : Occupying(r) => status'[r] = status[r] /\ Occupying(r)'
    PROVE  WorkRules'
<1>1. DeployingTakesPart'
  BY RowsTakePart DEF WorkInv, WorkRules, DeployingTakesPart
<1>2. RunningIsDated'
  BY DEF RunningIsDated
<1>3. ASSUME NEW c \in Components, Working(c)'
      PROVE  /\ Working(c)
             /\ holding[c] \notin stageJobs'
             /\ Occupying(holding[c].run)'
  <2>1. Working(c)
    BY <1>3 DEF Working
  <2>2. (holding[c].run)' = holding[c].run
    OBVIOUS
  <2> QED
    BY <2>1, <2>2, WorkNeedsDeployingRow
<1>4. WorkedIsNotQueued' /\ NoOverlappingWork'
  BY <1>3, WorkGoesOn
<1> QED
  BY <1>1, <1>2, <1>4 DEF WorkRules

\* A run ends with no row deploying, or is cancelled and drains.
LEMMA FinishKeepsWork ==
    ASSUME WorkInv, NEW r \in RunIds, NEW s \in Statuses \ {"none", "pending", "running"},
           FinishRun(r, s),
           UNCHANGED <<stage, recovering, join, rowStage, worker, holding, stageJobs>>,
           \/ \A c \in Components : row[r][c] # "deploying"
           \/ s = "cancelled"
    PROVE  WorkRules'
<1>1. \A q \in RunIds : q # r =>
          /\ status'[q] = status[q]
          /\ deadline'[q] = deadline[q]
          /\ row'[q] = row[q]
  BY DEF FinishRun, WorkInv, TypeInv, TypeOK, RunTypes, RowTypes
<1>2. status'[r] = s
  BY DEF FinishRun, WorkInv, TypeInv, TypeOK, RunTypes
<1>3. \A c \in Components : row'[r][c] = IF c \in Tried(r) THEN "failed" ELSE row[r][c]
  BY DEF FinishRun, WorkInv, TypeInv, TypeOK, RowTypes
<1>4. DeployingTakesPart'
  <2>1. \A q \in RunIds, c \in Components : row'[q][c] = "deploying" =>
            row[q][c] = "deploying" /\ status'[q] # "none"
    BY <1>1, <1>2, <1>3 DEF WorkInv, WorkRules, DeployingTakesPart
  <2> QED
    BY <2>1, RowsTakePart
<1>5. RunningIsDated'
  BY <1>1, <1>2 DEF RunningIsDated, WorkInv, WorkRules
<1>6. ASSUME NEW c \in Components, Working(c)'
      PROVE  /\ Working(c)
             /\ holding[c] \notin stageJobs'
             /\ Occupying(holding[c].run)'
             /\ row'[holding[c].run][c] = row[holding[c].run][c]
  <2> DEFINE q == holding[c].run
  <2>1. Working(c) /\ q' = q
    BY <1>6 DEF Working
  <2>2. /\ q \in RunIds
        /\ holding[c] \notin stageJobs
        /\ Occupying(q)
        /\ row[q][c] = "deploying"
    BY <2>1, WorkNeedsDeployingRow
  <2>3. CASE q # r
    BY <1>1, <2>1, <2>2, <2>3 DEF Occupying
  <2>4. CASE q = r
    <3>1. s = "cancelled" /\ Draining(r, s)
      BY <2>2, <2>4 DEF Draining
    <3>2. deadline'[r] = deadline[r]
      BY <3>1 DEF FinishRun, WorkInv, TypeInv, TypeOK, RunTypes
    <3>3. deadline[r] # "none"
      BY <2>2, <2>4 DEF Occupying, WorkInv, WorkRules, RunningIsDated
    <3>4. Occupying(q)'
      BY <1>2, <2>1, <2>4, <3>1, <3>2, <3>3 DEF Occupying
    <3>5. c \notin Tried(r)
      BY <2>2, <2>4 DEF Tried
    <3> QED
      BY <1>3, <2>1, <2>2, <2>4, <3>4, <3>5
  <2> QED
    BY <2>3, <2>4
<1>7. WorkedIsNotQueued' /\ NoOverlappingWork'
  BY <1>6, WorkGoesOn
<1> QED
  BY <1>4, <1>5, <1>7 DEF WorkRules

\* A run enters a stage with no row of it deploying: d holds its rows, or the
\* rows that start() has just made.
LEMMA DispatchKeepsWork ==
    ASSUME WorkInv, NEW r \in RunIds, NEW s \in Stages, NEW rec \in BOOLEAN,
           NEW d \in [RunIds -> [Components -> RowStatuses]],
           status[r] = "running",
           Dispatch(r, s, rec, d), UNCHANGED <<status, join, worker, holding>>,
           \A q \in RunIds : q # r => d[q] = row[q],
           \A c \in Components : row[r][c] # "deploying",
           \A c \in Components : d[r][c] = "deploying" => c \in Participants(r, s, d)
    PROVE  WorkRules'
<1> USE DEF Dispatch
<1>1. \A q \in RunIds : q # r =>
          /\ stage'[q] = stage[q]
          /\ recovering'[q] = recovering[q]
          /\ deadline'[q] = deadline[q]
          /\ row'[q] = row[q]
          /\ rowStage'[q] = rowStage[q]
  BY DEF WorkInv, TypeInv, TypeOK, RunTypes, RowTypes
<1>2. stage'[r] = s /\ deadline'[r] = "future"
  BY DEF WorkInv, TypeInv, TypeOK, RunTypes
<1>3. \A c \in Components : row'[r][c] = IF c \in Participants(r, s, d) THEN "deploying" ELSE d[r][c]
  OBVIOUS
<1>4. DeployingTakesPart'
  <2> SUFFICES ASSUME NEW q \in RunIds, NEW c \in Components, row'[q][c] = "deploying"
               PROVE  /\ status'[q] # "none"
                      /\ stage'[q] # "none"
                      /\ c \in Participants(q, stage[q], row)'
    BY DEF DeployingTakesPart
  <2>1. CASE q = r
    <3>1. c \in Participants(r, s, d)
      BY <1>3, <2>1
    <3>2. c \in Participants(q, stage[q], row)'
      BY <1>2, <2>1, <3>1 DEF Participants
    <3> QED
      BY <1>2, <2>1, <3>2 DEF Stages
  <2>2. CASE q # r
    BY <1>1, <2>2 DEF WorkInv, WorkRules, DeployingTakesPart, Participants
  <2> QED
    BY <2>1, <2>2
<1>5. RunningIsDated'
  BY <1>1, <1>2 DEF RunningIsDated, WorkInv, WorkRules
<1>6. ASSUME NEW c \in Components, Working(c)'
      PROVE  /\ Working(c)
             /\ holding[c] \notin stageJobs'
             /\ holding[c].run \in RunIds
             /\ holding[c].run # r
             /\ Occupying(holding[c].run)'
  <2>1. Working(c) /\ (holding[c].run)' = holding[c].run
    BY <1>6 DEF Working
  <2>2. /\ holding[c].run \in RunIds
        /\ holding[c] \notin stageJobs
        /\ Occupying(holding[c].run)
        /\ row[holding[c].run][c] = "deploying"
    BY <2>1, WorkNeedsDeployingRow
  <2>3. holding[c].run # r
    BY <2>2
  <2>4. Occupying(holding[c].run)'
    BY <1>1, <2>1, <2>2, <2>3 DEF Occupying
  <2>5. holding[c] \notin stageJobs'
    BY <2>2, <2>3
  <2> QED
    BY <2>1, <2>2, <2>3, <2>4, <2>5
<1>7. WorkedIsNotQueued' /\ NoOverlappingWork'
  BY <1>1, <1>6, WorkGoesOn
<1> QED
  BY <1>4, <1>5, <1>7 DEF WorkRules
-----------------------------------------------------------------------------
LEMMA CreateRunKeepsWork ==
    ASSUME WorkInv, NEW r \in RunIds, NEW t, CreateRun(r, t)
    PROVE  WorkRules'
<1> USE DEF CreateRun
<1>1. status[r] = "none"
  BY DEF Fresh
<1>2. \A q \in RunIds : status'[q] = IF q = r THEN (IF MustWait THEN "pending" ELSE "running")
                                     ELSE OutOfDate(q)
  OBVIOUS
<1>3. \A q \in RunIds : deadline'[q] = IF q # r THEN deadline[q]
                                       ELSE IF MustWait THEN "none" ELSE "future"
  BY DEF WorkInv, TypeInv, TypeOK, RunTypes
<1>4. \A q \in RunIds : status'[q] = "running" => deadline'[q] # "none"
  BY <1>2, <1>3 DEF OutOfDate, WorkInv, WorkRules, RunningIsDated
<1>5. \A q \in RunIds : Occupying(q) => status'[q] = status[q] /\ Occupying(q)'
  BY <1>1, <1>2, <1>3 DEF OutOfDate, Occupying
<1> QED
  BY <1>1, <1>2, <1>4, <1>5, StatusKeepsWork DEF OutOfDate, rowVars, lockVars, queued

LEMMA CreateJoinKeepsWork ==
    ASSUME WorkInv, NEW r \in RunIds, CreateJoin(r),
           UNCHANGED <<stage, recovering, row, rowStage, worker, holding, stageJobs>>
    PROVE  WorkRules'
<1> USE DEF CreateJoin
<1>1. status[r] = "none"
  BY DEF Fresh
<1>2. \A q \in RunIds : /\ status'[q] = IF q = r THEN "running" ELSE status[q]
                        /\ deadline'[q] = IF q = r THEN "future" ELSE deadline[q]
  BY DEF WorkInv, TypeInv, TypeOK, RunTypes
<1>3. \A q \in RunIds : Occupying(q) => status'[q] = status[q] /\ Occupying(q)'
  BY <1>1, <1>2 DEF Occupying
<1> QED
  BY <1>1, <1>2, <1>3, StatusKeepsWork DEF WorkInv, WorkRules, RunningIsDated

LEMMA NextRunKeepsWork ==
    ASSUME WorkInv, NextRun, UNCHANGED <<stage, recovering, row, rowStage, worker, holding, stageJobs>>
    PROVE  WorkRules'
<1>1. ASSUME NEW r \in RunIds, status[r] = "pending",
             status' = [status EXCEPT ![r] = "running"],
             deadline' = [deadline EXCEPT ![r] = "future"], join' = join
      PROVE  WorkRules'
  <2>1. \A q \in RunIds : /\ status'[q] = IF q = r THEN "running" ELSE status[q]
                          /\ deadline'[q] = IF q = r THEN "future" ELSE deadline[q]
    BY <1>1 DEF WorkInv, TypeInv, TypeOK, RunTypes
  <2>2. \A q \in RunIds : Occupying(q) => status'[q] = status[q] /\ Occupying(q)'
    BY <1>1, <2>1 DEF Occupying
  <2> QED
    BY <1>1, <2>1, <2>2, StatusKeepsWork DEF WorkInv, WorkRules, RunningIsDated
<1>2. CASE UNCHANGED <<status, deadline, join>>
  BY <1>2, WorkStutters DEF WorkInv, workVars
<1> QED
  BY <1>1, <1>2, CreateJoinKeepsWork DEF NextRun, Promotable

LEMMA RequestKeepsWork == ASSUME WorkInv, Request PROVE WorkRules'
<1>1. CASE WhenReadyFails
  BY <1>1, WorkStutters DEF WhenReadyFails, WorkInv, workVars, runVars, rowVars, jobVars, lockVars
<1>2. CASE WebhookFails
  <2>1. PICK r \in RunIds : Fresh(r) /\ status' = [status EXCEPT ![r] = "failed"]
    BY <1>2 DEF WebhookFails
  <2>2. \A q \in RunIds : status'[q] = IF q = r THEN "failed" ELSE status[q]
    BY <2>1 DEF WorkInv, TypeInv, TypeOK, RunTypes
  <2>3. UNCHANGED <<stage, recovering, deadline, join, row, rowStage, worker, holding, stageJobs>>
    BY <1>2 DEF WebhookFails, rowVars, jobVars, lockVars
  <2>4. \A q \in RunIds : Occupying(q) => status'[q] = status[q] /\ Occupying(q)'
    BY <2>1, <2>2, <2>3 DEF Occupying, Fresh
  <2> QED
    BY <2>2, <2>3, <2>4, StatusKeepsWork DEF WorkInv, WorkRules, RunningIsDated
<1>3. CASE Join
  BY <1>3, CreateJoinKeepsWork DEF Join, rowVars, lockVars, queued
<1>4. ASSUME NEW r \in RunIds, Cancel(r) PROVE WorkRules'
  <2>1. /\ FinishRun(r, "cancelled")
        /\ UNCHANGED <<stage, recovering, join, rowStage, worker, holding, stageJobs>>
    BY <1>4 DEF Cancel, origin, lockVars, queued
  <2> QED
    BY <2>1, FinishKeepsWork DEF Statuses
<1> QED
  BY <1>1, <1>2, <1>3, <1>4, CreateRunKeepsWork DEF Request, Deploy, Rollback, WhenReady

LEMMA EnvironmentKeepsWork == ASSUME WorkInv, Environment PROVE WorkRules'
BY WorkStutters
   DEF Environment, EditVariables, BeginTeardown, ComponentReady, ComponentUnready, WorkInv,
       workVars, runVars, rowVars, jobVars, lockVars

\* Before its first stage no row of a run deploys.
LEMMA UnstartedDeploysNothing ==
    ASSUME WorkInv, NEW r \in RunIds, stage[r] = "none"
    PROVE  \A c \in Components : row[r][c] # "deploying"
BY DEF WorkInv, WorkRules, DeployingTakesPart

LEMMA StartKeepsWork == ASSUME WorkInv, NEW r \in RunIds, Start(r) PROVE WorkRules'
<1>1. CASE StartCheck(r) \/ StartStale(r)
  BY <1>1, WorkStutters
     DEF StartCheck, StartStale, WorkInv, workVars, runVars, rowVars, queued, lockVars
<1>2. CASE StartFails(r)
  <2>1. UNCHANGED <<stage, recovering, join, rowStage, worker, holding, stageJobs>>
    BY <1>2 DEF StartFails, origin, queued, lockVars
  <2>2. CASE Startable(r) /\ FinishRun(r, "failed")
    BY <2>1, <2>2, UnstartedDeploysNothing, FinishKeepsWork DEF Startable, Statuses
  <2>3. CASE UNCHANGED <<status, deadline, row>>
    BY <2>1, <2>3, WorkStutters DEF WorkInv, workVars
  <2> QED
    BY <1>2, <2>2, <2>3 DEF StartFails
<1>3. CASE StartRun(r)
  <2> DEFINE new == Recruits(r)
             rows == [row EXCEPT ![r] = [c \in Components |-> IF c \notin new THEN "none"
                         ELSE IF c \in Apps THEN "deploying" ELSE "finished"]]
             first == IF target[r] # NoRun THEN "release" ELSE "clone"
  <2>1. /\ status[r] = "running"
        /\ stage[r] = "none"
        /\ UNCHANGED <<join, worker, holding>>
    BY <1>3 DEF StartRun, Startable, origin, lockVars
  <2>2. \A c \in Components : row[r][c] # "deploying"
    BY <2>1, UnstartedDeploysNothing
  <2>3. CASE FinishRun(r, "failed") /\ UNCHANGED <<stage, recovering, rowStage, stageJobs>>
    BY <2>1, <2>2, <2>3, FinishKeepsWork DEF Statuses
  <2>4. CASE Dispatch(r, first, FALSE, rows) /\ UNCHANGED status
    <3>1. rows \in [RunIds -> [Components -> RowStatuses]]
      BY DEF WorkInv, TypeInv, TypeOK, RowTypes, RowStatuses
    <3>2. first \in Stages
      BY DEF Stages
    <3>3. \A q \in RunIds : q # r => rows[q] = row[q]
      BY DEF WorkInv, TypeInv, TypeOK, RowTypes
    <3>4. \A c \in Components : rows[r][c] = "deploying" => c \in Participants(r, first, rows)
      <4>1. \A c \in Components : rows[r][c] = IF c \notin new THEN "none"
                                               ELSE IF c \in Apps THEN "deploying" ELSE "finished"
        BY DEF WorkInv, TypeInv, TypeOK, RowTypes
      <4> QED
        BY <4>1, ComponentsAssumption DEF Participants
    <3> HIDE DEF rows, first
    <3> QED
      BY <2>1, <2>2, <2>4, <3>1, <3>2, <3>3, <3>4, DispatchKeepsWork
  <2> QED
    BY <1>3, <2>3, <2>4 DEF StartRun
<1> QED
  BY <1>1, <1>2, <1>3 DEF Start
-----------------------------------------------------------------------------
\* failed() touches the row of its job only, and only if the run awaits the job.
LEMMA FailedRowOnly ==
    ASSUME WorkInv, NEW j \in StageJob, row' = FailedRow(j), NEW r \in RunIds, NEW c \in Components
    PROVE  /\ row'[r][c] = "deploying" => row[r][c] = "deploying"
           /\ row'[r][c] # row[r][c] => Awaited(j) /\ r = j.run /\ c = j.comp
<1>1. row'[r][c] = IF Awaited(j) /\ r = j.run /\ c = j.comp THEN "failed" ELSE row[r][c]
  BY DEF FailedRow, StageJob, WorkInv, TypeInv, TypeOK, RowTypes
<1> QED
  BY <1>1

\* Two jobs of one run and component that the run awaits are the same job.
LEMMA AwaitedJobsAgree ==
    ASSUME NEW i \in StageJob, NEW j \in StageJob, Awaited(i), Awaited(j),
           i.run = j.run, i.comp = j.comp
    PROVE  i = j
BY DEF Awaited, StageJob

LEMMA StageQueueKeepsWork ==
    ASSUME WorkInv, NEW j \in stageJobs, SkipStageJob(j) \/ TakeStageJob(j) \/ ExpireStageJob(j)
    PROVE  WorkRules'
<1>0. j \in StageJob /\ j.run \in RunIds /\ j.comp \in Components
  BY DEF WorkInv, TypeInv, TypeOK, JobTypes, StageJob
<1>1. CASE SkipStageJob(j) \/ ExpireStageJob(j)
  <2>1. /\ UNCHANGED <<status, stage, recovering, deadline, join, rowStage, worker, holding>>
        /\ row' = FailedRow(j)
        /\ stageJobs' = stageJobs \ {j}
    BY <1>1 DEF SkipStageJob, ExpireStageJob, runVars, lockVars
  <2>2. ASSUME NEW c \in Components, Working(c)'
        PROVE  /\ Working(c)
               /\ holding[c] \notin stageJobs'
               /\ row'[holding[c].run][c] = row[holding[c].run][c]
    <3>1. Working(c)
      BY <2>1, <2>2 DEF Working
    <3>2. /\ holding[c] \in StageJob
          /\ holding[c].run \in RunIds
          /\ holding[c].comp = c
          /\ holding[c] \notin stageJobs
          /\ Awaited(holding[c])
      BY <3>1, WorkNeedsDeployingRow
    <3>3. ~ (Awaited(j) /\ holding[c].run = j.run /\ c = j.comp)
      BY <1>0, <3>2, AwaitedJobsAgree
    <3> QED
      BY <1>0, <2>1, <3>1, <3>2, <3>3, FailedRowOnly
  <2>3. \A r \in RunIds, c \in Components : row'[r][c] = "deploying" => row[r][c] = "deploying"
    BY <1>0, <2>1, FailedRowOnly
  <2> QED
    BY <2>1, <2>2, <2>3, RowsSettle
<1>2. CASE TakeStageJob(j)
  <2>1. /\ UNCHANGED <<status, stage, recovering, deadline, join, row, rowStage>>
        /\ stageJobs' = stageJobs \ {j}
        /\ Awaited(j) /\ status[j.run] = "running"
    BY <1>2 DEF TakeStageJob, runVars, rowVars
  <2>2. \A c \in Components : /\ worker'[c] = IF c = j.comp THEN "working" ELSE worker[c]
                              /\ holding'[c] = IF c = j.comp THEN j ELSE holding[c]
    BY <1>2 DEF TakeStageJob, WorkInv, TypeInv, TypeOK, LockTypes
  <2>3. DeployingTakesPart' /\ RunningIsDated'
    BY <2>1 DEF WorkInv, WorkRules, DeployingTakesPart, RunningIsDated, Participants
  <2>4. ASSUME NEW c \in Components, Working(c)'
        PROVE  /\ holding'[c] \notin stageJobs'
               /\ (holding[c].comp = c /\ Occupying(holding[c].run) /\ Awaited(holding[c]))'
    <3>1. CASE c = j.comp
      BY <2>1, <2>2, <3>1 DEF Occupying, Awaited
    <3>2. CASE c # j.comp
      <4>1. Working(c) /\ holding'[c] = holding[c]
        BY <2>2, <2>4, <3>2 DEF Working
      <4> QED
        BY <2>1, <4>1, WorkNeedsDeployingRow DEF Occupying, Awaited
    <3> QED
      BY <3>1, <3>2
  <2>5. WorkedIsNotQueued' /\ NoOverlappingWork'
    BY <2>4 DEF WorkedIsNotQueued, NoOverlappingWork
  <2> QED
    BY <2>3, <2>5 DEF WorkRules
<1> QED
  BY <1>1, <1>2

\* A worker goes on to its next step.
LEMMA WorkerMovesKeepsWork ==
    ASSUME WorkInv, NEW c \in Components, NEW step \in WorkerSteps, Working(c),
           WorkerMoves(c, step),
           UNCHANGED <<status, stage, recovering, deadline, join, row, rowStage, stageJobs>>
    PROVE  WorkRules'
<1>1. \A d \in Components : Working(d)' => Working(d)
  BY DEF Working, WorkerMoves, WorkInv, TypeInv, TypeOK, LockTypes
<1> QED
  BY <1>1, WorkNeedsDeployingRow, RowsSettle DEF WorkerMoves

\* A worker leaves its lock or dies on it, and its row may settle.
LEMMA LeavingKeepsWork ==
    ASSUME WorkInv, NEW c \in Components, worker[c] # "free",
           \/ FreeLock(c)
           \/ worker' = [worker EXCEPT ![c] = "dead"] /\ holding' = holding,
           UNCHANGED <<status, stage, recovering, deadline, join, rowStage>>,
           stageJobs' \subseteq stageJobs \cup {holding[c]},
           \/ row' \in {row, FailedRow(holding[c])}
           \/ row' = [row EXCEPT ![holding[c].run] = [@ EXCEPT ![c] = "finished"]]
    PROVE  WorkRules'
<1>0. holding[c] \in StageJob /\ holding[c].run \in RunIds /\ holding[c].comp = c
  BY HolderTypes DEF WorkInv
<1>1. \A r \in RunIds, d \in Components :
          /\ row'[r][d] = "deploying" => row[r][d] = "deploying"
          /\ d # c => row'[r][d] = row[r][d]
  <2>1. CASE row' = row
    BY <2>1
  <2>2. CASE row' = FailedRow(holding[c])
    BY <1>0, <2>2, FailedRowOnly
  <2>3. CASE row' = [row EXCEPT ![holding[c].run] = [@ EXCEPT ![c] = "finished"]]
    BY <2>3 DEF WorkInv, TypeInv, TypeOK, RowTypes
  <2> QED
    BY <2>1, <2>2, <2>3
<1>2. ASSUME NEW d \in Components, Working(d)'
      PROVE  /\ Working(d)
             /\ holding'[d] = holding[d]
             /\ holding[d] \notin stageJobs'
             /\ row'[holding[d].run][d] = row[holding[d].run][d]
  <2>1. d # c /\ Working(d) /\ holding'[d] = holding[d]
    BY <1>2 DEF Working, FreeLock, WorkInv, TypeInv, TypeOK, LockTypes
  <2>2. holding[d].run \in RunIds /\ holding[d].comp = d /\ holding[d] \notin stageJobs
    BY <2>1, WorkNeedsDeployingRow
  <2>3. holding[d] \notin stageJobs'
    BY <1>0, <2>1, <2>2
  <2> QED
    BY <1>1, <2>1, <2>2, <2>3
<1> QED
  BY <1>1, <1>2, RowsSettle

LEMMA WorkKeepsWork == ASSUME WorkInv, NEW c \in Components, Work(c) PROVE WorkRules'
<1> USE DEF runVars, rowVars, jobVars, queued
<1>1. CASE CompleteStage(c)
  <2>1. worker[c] # "free"
    BY <1>1 DEF CompleteStage
  <2> QED
    BY <1>1, <2>1, LeavingKeepsWork DEF CompleteStage
<1>2. CASE CloneRelease(c)
  BY <1>2, WorkerMovesKeepsWork DEF CloneRelease, At, Working, WorkerSteps
<1>3. CASE BeginRelease(c)
  BY <1>3, WorkerMovesKeepsWork DEF BeginRelease, At, Working, WorkerSteps
<1>4. CASE ReleaseEnv(c)
  BY <1>4, WorkerMovesKeepsWork DEF ReleaseEnv, Working, WorkerSteps
<1>5. CASE SwitchRelease(c)
  BY <1>5, WorkerMovesKeepsWork DEF SwitchRelease, Working, WorkerSteps
<1>6. CASE ActivateRelease(c)
  BY <1>6, WorkerMovesKeepsWork DEF ActivateRelease, Working, WorkerSteps
<1>7. CASE RestoreRelease(c)
  BY <1>7, WorkerMovesKeepsWork DEF RestoreRelease, At, Working, WorkerSteps
<1>8. CASE RestoreActive(c)
  BY <1>8, WorkerMovesKeepsWork DEF RestoreActive, Working, WorkerSteps
<1> QED
  BY <1>1, <1>2, <1>3, <1>4, <1>5, <1>6, <1>7, <1>8 DEF Work

LEMMA DisturbKeepsWork == ASSUME WorkInv, NEW c \in Components, Disturb(c) PROVE WorkRules'
<1> USE DEF runVars, rowVars, jobVars, queued, Working
<1>1. CASE StageReturns(c)
  BY <1>1, LeavingKeepsWork DEF StageReturns
<1>2. CASE StageThrows(c)
  BY <1>2, LeavingKeepsWork DEF StageThrows
<1>3. CASE StageTimesOut(c)
  BY <1>3, LeavingKeepsWork DEF StageTimesOut
<1>4. CASE WorkerCrashes(c)
  BY <1>4, LeavingKeepsWork DEF WorkerCrashes
<1>5. CASE LeaseExpires(c)
  BY <1>5, LeavingKeepsWork DEF LeaseExpires
<1> QED
  BY <1>1, <1>2, <1>3, <1>4, <1>5 DEF Disturb
-----------------------------------------------------------------------------
\* When no participant of the stage deploys, no row of the run does.
LEMMA StageIsOver ==
    ASSUME WorkInv, NEW a \in AdvanceCall, CallMatches(a), ~ RowsIn(a, "deploying")
    PROVE  \A c \in Components : row[a.run][c] # "deploying"
BY DEF CallMatches, RowsIn, AdvanceCall, WorkInv, WorkRules, DeployingTakesPart

LEMMA AdvanceKeepsWork == ASSUME WorkInv, NEW a \in advances, Advance(a) PROVE WorkRules'
<1>0. a \in AdvanceCall /\ a.run \in RunIds /\ a.stage \in Stages
  BY DEF WorkInv, TypeInv, TypeOK, JobTypes, AdvanceCall, CallMatches, Advance
<1>1. UNCHANGED <<join, worker, holding>>
  BY DEF Advance, origin, lockVars
<1>2. CASE UNCHANGED <<status, stage, recovering, deadline, row, rowStage, stageJobs>>
  BY <1>1, <1>2, WorkStutters DEF WorkInv, workVars
<1>3. CASE \A c \in Components : row[a.run][c] # "deploying"
  <2>1. ASSUME NEW s \in Statuses \ {"none", "pending", "running"}, AdvanceEnds(a, s)
        PROVE  WorkRules'
    BY <1>0, <1>1, <1>3, <2>1, FinishKeepsWork DEF AdvanceEnds
  <2>2. ASSUME NEW s \in Stages, NEW rec \in BOOLEAN, status[a.run] = "running",
               AdvanceEnters(a, s, rec)
        PROVE  WorkRules'
    <3>1. row \in [RunIds -> [Components -> RowStatuses]]
      BY DEF WorkInv, TypeInv, TypeOK, RowTypes
    <3> QED
      BY <1>0, <1>1, <1>3, <2>2, <3>1, DispatchKeepsWork DEF AdvanceEnters
  <2>3. CASE SettleCancelled(a)
    BY <2>1, <2>3 DEF SettleCancelled, Statuses
  <2>4. CASE SettleRecovery(a)
    BY <2>1, <2>4 DEF SettleRecovery, RecoveryResult, Statuses
  <2>5. CASE SettleFailure(a)
    BY <2>1, <2>2, <2>5 DEF SettleFailure, Statuses, Stages
  <2>6. CASE SettleSuccess(a)
    <3>1. NextStage(a.run, a.stage) \in Stages \cup {"none"}
      BY DEF NextStage, Stages
    <3> QED
      BY <2>1, <2>2, <2>6, <3>1 DEF SettleSuccess, Statuses
  <2>7. CASE UNCHANGED <<status, stage, recovering, deadline, row, rowStage, stageJobs>>
    BY <1>2, <2>7
  <2> QED
    BY <2>3, <2>4, <2>5, <2>6, <2>7 DEF Advance
<1> QED
  BY <1>0, <1>2, <1>3, StageIsOver DEF Advance

LEMMA FinishStepsKeepWork == ASSUME WorkInv, NEW r \in RunIds, Finish(r) PROVE WorkRules'
<1>1. CASE FinishNext(r)
  BY <1>1, NextRunKeepsWork DEF FinishNext, rowVars, queued, lockVars
<1>2. CASE ~ FinishNext(r)
  BY <1>2, WorkStutters
     DEF Finish, FinishBegin, FinishLost, FinishPrune, WorkInv, workVars, runVars, rowVars, queued,
         lockVars
<1> QED
  BY <1>1, <1>2

LEMMA WatchdogKeepsWork == ASSUME WorkInv, NEW r \in RunIds, Watchdog(r) PROVE WorkRules'
<1>1. CASE PassDeadline(r)
  <2>1. /\ UNCHANGED <<status, stage, recovering, join, row, rowStage, worker, holding, stageJobs>>
        /\ deadline[r] = "future"
    BY <1>1 DEF PassDeadline, origin, rowVars, jobVars, queued, lockVars
  <2>2. \A q \in RunIds : deadline'[q] = IF q = r THEN "past" ELSE deadline[q]
    BY <1>1 DEF PassDeadline, WorkInv, TypeInv, TypeOK, RunTypes
  <2>3. \A q \in RunIds : Occupying(q) => status'[q] = status[q] /\ Occupying(q)'
    BY <2>1, <2>2 DEF Occupying
  <2> QED
    BY <2>1, <2>2, <2>3, StatusKeepsWork DEF WorkInv, WorkRules, RunningIsDated
<1>2. CASE FailStalled(r)
  <2>1. UNCHANGED <<stage, recovering, join, rowStage, worker, holding, stageJobs>>
    BY <1>2 DEF FailStalled, origin, lockVars
  <2>2. CASE stage[r] = "none" /\ FinishRun(r, "failed")
    BY <2>1, <2>2, UnstartedDeploysNothing, FinishKeepsWork DEF Statuses
  <2>3. CASE /\ row' = [row EXCEPT ![r] = [c \in Components |->
                          IF c \in Participants(r, stage[r], row) /\ @[c] = "deploying"
                          THEN "failed" ELSE @[c]]]
             /\ UNCHANGED <<status, deadline>>
    <3>1. \A q \in RunIds, c \in Components :
              /\ row'[q][c] = "deploying" => row[q][c] = "deploying"
              /\ q # r => row'[q][c] = row[q][c]
      BY <2>3 DEF WorkInv, TypeInv, TypeOK, RowTypes
    <3>2. ASSUME NEW c \in Components, Working(c)'
          PROVE  /\ Working(c)
                 /\ holding[c] \notin stageJobs'
                 /\ row'[holding[c].run][c] = row[holding[c].run][c]
      <4>1. Working(c)
        BY <2>1, <3>2 DEF Working
      <4>2. /\ holding[c].run \in RunIds
            /\ holding[c] \notin stageJobs
            /\ row[holding[c].run][c] = "deploying"
        BY <4>1, WorkNeedsDeployingRow
      <4>3. holding[c].run # r
        BY <1>2, <4>1, <4>2 DEF FailStalled, LocksFree, LockFree, Working
      <4> QED
        BY <2>1, <3>1, <4>1, <4>2, <4>3
    <3> QED
      BY <2>1, <2>3, <3>1, <3>2, RowsSettle
  <2> QED
    BY <1>2, <2>2, <2>3 DEF FailStalled
<1> QED
  BY <1>1, <1>2 DEF Watchdog

LEMMA WorkStep == WorkInv /\ [Next]_vars => WorkRules'
<1> SUFFICES ASSUME WorkInv, [Next]_vars PROVE WorkRules'
  OBVIOUS
<1>1. CASE UNCHANGED vars
  BY <1>1, WorkStutters DEF vars, workVars, runVars, rowVars, jobVars, lockVars, WorkInv
<1>2. ASSUME NEW a \in advances, LoseAdvance(a) PROVE WorkRules'
  BY <1>2, WorkStutters DEF LoseAdvance, workVars, runVars, rowVars, lockVars, WorkInv
<1>3. CASE WakePending
  BY <1>3, NextRunKeepsWork DEF WakePending, rowVars, queued, lockVars
<1>4. CASE StageQueue
  BY <1>4, StageQueueKeepsWork DEF StageQueue
<1> QED
  BY <1>1, <1>2, <1>3, <1>4, RequestKeepsWork, EnvironmentKeepsWork, StartKeepsWork,
     WorkKeepsWork, DisturbKeepsWork, AdvanceKeepsWork, FinishStepsKeepWork, WatchdogKeepsWork
     DEF Next

LEMMA WorkInit == Init => WorkInv
BY TypeInit
   DEF Init, WorkInv, WorkRules, DeployingTakesPart, RunningIsDated, WorkedIsNotQueued,
       NoOverlappingWork, Working

\* Work on servers never overlaps, whatever cancellations, deadlines, lost
\* workers and late jobs meet: a worker that has a component works for the one
\* run that is active, in the stage that run is in, on a row that still deploys.
THEOREM WorkNeverOverlaps == Spec => []NoOverlappingWork
<1>1. WorkInv /\ [Next]_vars => WorkInv'
  BY TypeStep, WorkStep DEF WorkInv
<1>2. WorkInv => NoOverlappingWork
  BY DEF WorkInv, WorkRules
<1> QED
  BY <1>1, <1>2, WorkInit, PTL DEF Spec
-----------------------------------------------------------------------------
\* A run that waits has neither entered a stage nor been given a deadline.
WaitsUntouched ==
    \A r \in RunIds : status[r] \in {"none", "pending"} => stage[r] = "none" /\ deadline[r] = "none"

\* A run that is over has no deadline, and no row of it deploys any more.
Over(r) == Terminal(r) /\ ~ Occupying(r)
OverIsSettled ==
    \A r \in RunIds : Over(r) =>
        /\ deadline[r] = "none"
        /\ \A c \in Components : row[r][c] # "deploying"

\* Components that do not take part in the stage of a run have their part behind
\* them or before them: a failed row is always one of the stage.
StageSettled ==
    \A r \in RunIds : status[r] = "running" /\ ~ recovering[r] /\ stage[r] # "none" =>
        \A c \in Components :
            c \notin Participants(r, stage[r], row) => row[r][c] \in {"none", "finished"}

\* Runs are numbered in the order of their requests.
NumberedInOrder == \A q, r \in RunIds : status[q] = "none" /\ q < r => status[r] = "none"

\* An environment that is being deleted has no run that waits, runs or drains.
DeletingIsIdle == envStatus = "deleting" => Idle

LifeRules ==
    WaitsUntouched /\ OverIsSettled /\ StageSettled /\ NumberedInOrder /\ NewestWaits /\ DeletingIsIdle
LifeInv == WorkInv /\ LifeRules
-----------------------------------------------------------------------------
(* The shapes of a step *)

Endings == {"finished", "failed", "partial", "cancelled", "rolled_back"}
NothingDeploys(r) == \A c \in Components : row[r][c] # "deploying"

\* At most rows that deployed settle.
SettlesRows ==
    /\ UNCHANGED <<status, stage, recovering, deadline, join>>
    /\ \A r \in RunIds, c \in Components :
        \/ row'[r][c] = row[r][c]
        \/ row[r][c] = "deploying" /\ row'[r][c] \in {"finished", "failed"}

Passes(r) ==
    /\ deadline[r] = "future"
    /\ deadline' = [deadline EXCEPT ![r] = "past"]
    /\ UNCHANGED <<status, stage, recovering, join, row>>

Asks(r) ==
    /\ Fresh(r)
    /\ envStatus = "ready"
    /\ status' = [q \in RunIds |-> IF q = r THEN (IF MustWait THEN "pending" ELSE "running")
                                   ELSE OutOfDate(q)]
    /\ deadline' = [deadline EXCEPT ![r] = IF MustWait THEN "none" ELSE "future"]
    /\ UNCHANGED <<stage, recovering, join, row>>

Rejects(r) ==
    /\ Fresh(r)
    /\ status' = [status EXCEPT ![r] = "failed"]
    /\ UNCHANGED <<stage, recovering, deadline, join, row>>

Joins(r) ==
    /\ Fresh(r)
    /\ Idle
    /\ envStatus = "ready"
    /\ status' = [status EXCEPT ![r] = "running"]
    /\ deadline' = [deadline EXCEPT ![r] = "future"]
    /\ join' = join \cup {r}
    /\ UNCHANGED <<stage, recovering, row>>

Promotes(r) ==
    /\ status[r] = "pending"
    /\ status' = [status EXCEPT ![r] = "running"]
    /\ deadline' = [deadline EXCEPT ![r] = "future"]
    /\ UNCHANGED <<stage, recovering, join, row>>

Ends(r, s) ==
    /\ status[r] = "pending" \/ Occupying(r)
    /\ NothingDeploys(r) \/ (s = "cancelled" /\ status[r] \in {"pending", "running"})
    /\ s = "cancelled" => \/ status[r] \in {"pending", "cancelled"}
                         \/ stage[r] \notin {"release", "post-release"}
    /\ s = "failed" => stage[r] # "release"
    /\ s = "finished" => stage[r] = "post-release"
    /\ s = "rolled_back" =>
           recovering[r] /\ \A c \in Participants(r, stage[r], row) : row[r][c] # "failed"
    /\ FinishRun(r, s)
    /\ UNCHANGED <<stage, recovering, join>>

\* The first stage: d holds the rows that start() has just made.
Starts(r, s, d) ==
    /\ status[r] = "running"
    /\ stage[r] = "none"
    /\ \A q \in RunIds : q # r => d[q] = row[q]
    /\ \A c \in Components :
        /\ d[r][c] # "failed"
        /\ d[r][c] = "deploying" => c \in Participants(r, s, d)
    /\ Dispatch(r, s, FALSE, d)
    /\ UNCHANGED <<status, join>>

\* The next stage, or the recovery of the release.
Moves(r, s, rec) ==
    /\ status[r] = "running"
    /\ stage[r] # "none"
    /\ NothingDeploys(r)
    /\ \/ rec /\ s = stage[r] /\ s = "release"
       \/ /\ ~ rec
          /\ ~ recovering[r]
          /\ s = NextStage(r, stage[r])
          /\ \A c \in Participants(r, stage[r], row) : row[r][c] # "failed"
    /\ Dispatch(r, s, rec, row)
    /\ UNCHANGED <<status, join>>

RunStep(r) ==
    \/ Passes(r) \/ Asks(r) \/ Rejects(r) \/ Joins(r) \/ Promotes(r)
    \/ \E s \in Endings : Ends(r, s)
    \/ \E s \in Stages, d \in [RunIds -> [Components -> RowStatuses]] : Starts(r, s, d)
    \/ \E s \in Stages, rec \in BOOLEAN : Moves(r, s, rec)

Shaped == SettlesRows \/ \E r \in RunIds : RunStep(r)

LEMMA StillShaped ==
    ASSUME UNCHANGED <<status, stage, recovering, deadline, join, row>> PROVE Shaped
BY DEF Shaped, SettlesRows

LEMMA NextRunShaped ==
    ASSUME NextRun, UNCHANGED <<stage, recovering, row>> PROVE Shaped
<1>1. CASE UNCHANGED <<status, deadline, join>>
  BY <1>1, StillShaped
<1>2. ASSUME NEW r \in RunIds, CreateJoin(r) PROVE Shaped
  BY <1>2 DEF CreateJoin, CanJoin, Joins, RunStep, Shaped
<1> QED
  BY <1>1, <1>2 DEF NextRun, Promotable, Promotes, RunStep, Shaped

LEMMA RequestShaped == ASSUME WorkInv, Request PROVE Shaped
<1>1. CASE WhenReadyFails
  BY <1>1, StillShaped DEF WhenReadyFails, runVars, rowVars
<1>2. CASE WebhookFails
  BY <1>2 DEF WebhookFails, Rejects, RunStep, Shaped, rowVars
<1>3. CASE Join
  BY <1>3 DEF Join, CreateJoin, CanJoin, Joins, RunStep, Shaped, rowVars
<1>4. ASSUME NEW r \in RunIds, Cancel(r) PROVE Shaped
  <2>1. Ends(r, "cancelled")
    BY <1>4 DEF Cancel, CanCancel, Ends, Occupying, origin
  <2> QED
    BY <2>1 DEF Endings, RunStep, Shaped
<1>5. ASSUME NEW r \in RunIds, NEW t, envStatus = "ready", CreateRun(r, t) PROVE Shaped
  BY <1>5 DEF CreateRun, Asks, RunStep, Shaped, rowVars
<1> QED
  BY <1>1, <1>2, <1>3, <1>4, <1>5 DEF Request, Deploy, Rollback, WhenReady, Valid

LEMMA StartShaped == ASSUME WorkInv, NEW r \in RunIds, Start(r) PROVE Shaped
<1>1. CASE StartCheck(r) \/ StartStale(r)
  BY <1>1, StillShaped DEF StartCheck, StartStale, runVars, rowVars
<1>2. ASSUME Startable(r), FinishRun(r, "failed"), UNCHANGED <<stage, recovering, join>> PROVE Shaped
  <2>1. Ends(r, "failed")
    BY <1>2, UnstartedDeploysNothing DEF Startable, Ends, Occupying, NothingDeploys
  <2> QED
    BY <2>1 DEF Endings, RunStep, Shaped
<1>3. CASE StartFails(r)
  BY <1>2, <1>3, StillShaped DEF StartFails, origin
<1>4. CASE StartRun(r)
  <2> DEFINE new == Recruits(r)
             rows == [row EXCEPT ![r] = [c \in Components |-> IF c \notin new THEN "none"
                         ELSE IF c \in Apps THEN "deploying" ELSE "finished"]]
             first == IF target[r] # NoRun THEN "release" ELSE "clone"
  <2>1. Startable(r) /\ UNCHANGED join
    BY <1>4 DEF StartRun, origin
  <2>2. CASE Dispatch(r, first, FALSE, rows) /\ UNCHANGED status
    <3>1. rows \in [RunIds -> [Components -> RowStatuses]] /\ \A q \in RunIds : q # r => rows[q] = row[q]
      BY DEF WorkInv, TypeInv, TypeOK, RowTypes, RowStatuses
    <3>2. \A c \in Components : rows[r][c] = IF c \notin new THEN "none"
                                             ELSE IF c \in Apps THEN "deploying" ELSE "finished"
      BY DEF WorkInv, TypeInv, TypeOK, RowTypes
    <3>3. \A c \in Components :
              /\ rows[r][c] # "failed"
              /\ rows[r][c] = "deploying" => c \in Participants(r, first, rows)
      BY <3>2, ComponentsAssumption DEF Participants
    <3>4. first \in Stages
      BY DEF Stages
    <3> HIDE DEF rows, first
    <3>5. Starts(r, first, rows)
      BY <2>1, <2>2, <3>1, <3>3 DEF Starts, Startable
    <3> QED
      BY <3>1, <3>4, <3>5 DEF RunStep, Shaped
  <2> QED
    BY <1>2, <1>4, <2>1, <2>2 DEF StartRun
<1> QED
  BY <1>1, <1>3, <1>4 DEF Start

\* failed() turns a row that deploys, if any, into a failed one.
LEMMA FailedRowSettles ==
    ASSUME WorkInv, NEW j \in StageJob, row' = FailedRow(j),
           UNCHANGED <<status, stage, recovering, deadline, join>>
    PROVE  Shaped
<1>1. \A r \in RunIds, c \in Components :
          row'[r][c] = IF Awaited(j) /\ r = j.run /\ c = j.comp THEN "failed" ELSE row[r][c]
  BY DEF FailedRow, StageJob, WorkInv, TypeInv, TypeOK, RowTypes
<1> QED
  BY <1>1 DEF Awaited, SettlesRows, Shaped

LEMMA StageQueueShaped == ASSUME WorkInv, StageQueue PROVE Shaped
<1>1. PICK j \in stageJobs : SkipStageJob(j) \/ TakeStageJob(j) \/ ExpireStageJob(j)
  BY DEF StageQueue
<1>2. j \in StageJob
  BY DEF WorkInv, TypeInv, TypeOK, JobTypes
<1> QED
  BY <1>1, <1>2, StillShaped, FailedRowSettles
     DEF SkipStageJob, TakeStageJob, ExpireStageJob, runVars, rowVars

LEMMA WorkShaped == ASSUME WorkInv, NEW c \in Components, Work(c) \/ Disturb(c) PROVE Shaped
<1>1. CASE CompleteStage(c)
  <2>1. /\ UNCHANGED <<status, stage, recovering, deadline, join>>
        /\ row' = [row EXCEPT ![holding[c].run] = [@ EXCEPT ![c] = "finished"]]
        /\ Working(c)
    BY <1>1 DEF CompleteStage, runVars, Working
  <2>2. row[holding[c].run][c] = "deploying"
    BY <2>1, WorkNeedsDeployingRow
  <2>3. \A r \in RunIds, d \in Components :
            row'[r][d] = IF r = holding[c].run /\ d = c THEN "finished" ELSE row[r][d]
    BY <2>1 DEF WorkInv, TypeInv, TypeOK, RowTypes
  <2> QED
    BY <2>1, <2>2, <2>3 DEF SettlesRows, Shaped
<1>2. CASE StageThrows(c) \/ StageTimesOut(c)
  <2>1. holding[c] \in StageJob
    BY <1>2, WorkNeedsDeployingRow DEF StageThrows, StageTimesOut
  <2> QED
    BY <1>2, <2>1, FailedRowSettles DEF StageThrows, StageTimesOut, runVars
<1> QED
  BY <1>1, <1>2, StillShaped
     DEF Work, CloneRelease, BeginRelease, ReleaseEnv, SwitchRelease, ActivateRelease,
         RestoreRelease, RestoreActive, Disturb, StageReturns, WorkerCrashes, LeaseExpires, runVars,
         rowVars

LEMMA AdvanceShaped == ASSUME WorkInv, NEW a \in advances, Advance(a) PROVE Shaped
<1>0. a \in AdvanceCall /\ a.run \in RunIds /\ a.stage \in Stages
  BY DEF WorkInv, TypeInv, TypeOK, JobTypes, AdvanceCall
<1>1. CASE UNCHANGED <<status, stage, recovering, deadline, row>>
  BY <1>1, StillShaped DEF Advance, origin
<1>2. CASE /\ CallMatches(a)
           /\ ~ RowsIn(a, "deploying")
           /\ SettleCancelled(a) \/ SettleRecovery(a) \/ SettleFailure(a) \/ SettleSuccess(a)
  <2>1. NothingDeploys(a.run) /\ stage[a.run] = a.stage /\ recovering[a.run] = a.rec /\ join' = join
    BY <1>0, <1>2, StageIsOver DEF NothingDeploys, CallMatches, Advance, origin
  <2>2. ASSUME NEW s \in Endings, AdvanceEnds(a, s), Occupying(a.run),
               s = "cancelled" => status[a.run] = "cancelled",
               s = "failed" => a.stage # "release",
               s = "finished" => a.stage = "post-release",
               s = "rolled_back" => a.rec /\ ~ RowsIn(a, "failed")
        PROVE  Shaped
    <3>1. s = "rolled_back" => \A c \in Participants(a.run, stage[a.run], row) : row[a.run][c] # "failed"
      BY <2>1, <2>2 DEF RowsIn
    <3>2. Ends(a.run, s)
      BY <1>0, <2>1, <2>2, <3>1 DEF AdvanceEnds, Ends
    <3> QED
      BY <1>0, <3>2 DEF RunStep, Shaped
  <2>3. ASSUME NEW s \in Stages, AdvanceEnters(a, s, FALSE), status[a.run] = "running",
               s = NextStage(a.run, a.stage), ~ a.rec, ~ RowsIn(a, "failed")
        PROVE  Shaped
    <3>1. Moves(a.run, s, FALSE)
      BY <1>0, <2>1, <2>3 DEF AdvanceEnters, Moves, RowsIn, Stages
    <3> QED
      BY <1>0, <3>1 DEF RunStep, Shaped
  <2>4. CASE SettleCancelled(a)
    BY <2>2, <2>4 DEF SettleCancelled, Endings, Occupying
  <2>5. CASE SettleRecovery(a)
    BY <2>2, <2>5 DEF SettleRecovery, RecoveryResult, Endings, Occupying
  <2>6. CASE SettleFailure(a)
    <3>1. CASE a.stage # "release" /\ AdvanceEnds(a, "failed")
      BY <2>2, <2>6, <3>1 DEF SettleFailure, Endings, Occupying
    <3>2. CASE a.stage = "release" /\ AdvanceEnters(a, "release", TRUE)
      <4>1. Moves(a.run, "release", TRUE)
        BY <1>0, <2>1, <2>6, <3>2 DEF SettleFailure, AdvanceEnters, Moves
      <4> QED
        BY <1>0, <3>2, <4>1 DEF RunStep, Shaped
    <3> QED
      BY <2>6, <3>1, <3>2 DEF SettleFailure
  <2>7. CASE SettleSuccess(a)
    <3>1. /\ NextStage(a.run, a.stage) \in Stages \cup {"none"}
          /\ NextStage(a.run, a.stage) = "none" => a.stage = "post-release"
      BY <1>0 DEF NextStage, Stages
    <3> QED
      BY <2>2, <2>3, <2>7, <3>1 DEF SettleSuccess, Endings, Occupying
  <2> QED
    BY <1>2, <2>4, <2>5, <2>6, <2>7
<1> QED
  BY <1>1, <1>2 DEF Advance

LEMMA WatchdogShaped == ASSUME WorkInv, NEW r \in RunIds, Watchdog(r) PROVE Shaped
<1>1. CASE PassDeadline(r)
  BY <1>1 DEF PassDeadline, Passes, RunStep, Shaped, origin, rowVars
<1>2. CASE FailStalled(r)
  <2>1. UNCHANGED <<stage, recovering, join>> /\ Occupying(r)
    BY <1>2 DEF FailStalled, Stalled, origin
  <2>2. CASE stage[r] = "none" /\ FinishRun(r, "failed")
    <3>1. Ends(r, "failed")
      BY <2>1, <2>2, UnstartedDeploysNothing DEF Ends, NothingDeploys
    <3> QED
      BY <3>1 DEF Endings, RunStep, Shaped
  <2>3. CASE /\ row' = [row EXCEPT ![r] = [c \in Components |->
                          IF c \in Participants(r, stage[r], row) /\ @[c] = "deploying"
                          THEN "failed" ELSE @[c]]]
             /\ UNCHANGED <<status, deadline>>
    BY <2>1, <2>3 DEF WorkInv, TypeInv, TypeOK, RowTypes, SettlesRows, Shaped
  <2> QED
    BY <1>2, <2>2, <2>3 DEF FailStalled
<1> QED
  BY <1>1, <1>2 DEF Watchdog

LEMMA StepIsShaped == WorkInv /\ [Next]_vars => Shaped
<1> SUFFICES ASSUME WorkInv, [Next]_vars PROVE Shaped
  OBVIOUS
<1>1. CASE UNCHANGED vars \/ Environment
  BY <1>1, StillShaped
     DEF vars, runVars, rowVars, Environment, EditVariables, BeginTeardown, ComponentReady,
         ComponentUnready
<1>2. ASSUME NEW r \in RunIds, Finish(r) PROVE Shaped
  BY <1>2, StillShaped, NextRunShaped
     DEF Finish, FinishBegin, FinishNext, FinishLost, FinishPrune, runVars, rowVars
<1>3. ASSUME NEW a \in advances, LoseAdvance(a) PROVE Shaped
  BY <1>3, StillShaped DEF LoseAdvance, runVars, rowVars
<1>4. CASE WakePending
  BY <1>4, NextRunShaped DEF WakePending, rowVars
<1> QED
  BY <1>1, <1>2, <1>3, <1>4, RequestShaped, StartShaped, StageQueueShaped, WorkShaped,
     AdvanceShaped, WatchdogShaped DEF Next

\* Only BeginTeardown, with no run blocking, changes the environment's status.
LEMMA TeardownOnly ==
    ASSUME [Next]_vars
    PROVE  envStatus' = envStatus \/ BeginTeardown
<1>1. CASE UNCHANGED vars \/ Request \/ Environment
  BY <1>1
     DEF vars, envVars, settings, Request, Deploy, Rollback, WhenReady, WhenReadyFails, WebhookFails,
         Join, Cancel, CreateRun, Environment, EditVariables, ComponentReady, ComponentUnready
<1>2. ASSUME NEW r \in RunIds, Start(r) \/ Finish(r) \/ Watchdog(r) PROVE envStatus' = envStatus
  BY <1>2
     DEF envVars, settings, Start, StartCheck, StartFails, StartRun, StartStale, Finish, FinishBegin,
         FinishNext, FinishLost, FinishPrune, Watchdog, PassDeadline, FailStalled
<1>3. CASE StageQueue
  BY <1>3 DEF envVars, StageQueue, SkipStageJob, TakeStageJob, ExpireStageJob
<1>4. ASSUME NEW c \in Components, Work(c) \/ Disturb(c) PROVE envStatus' = envStatus
  BY <1>4
     DEF envVars, settings, Work, CloneRelease, BeginRelease, ReleaseEnv, SwitchRelease,
         ActivateRelease, RestoreRelease, RestoreActive, CompleteStage, Disturb, StageReturns,
         StageThrows, StageTimesOut, WorkerCrashes, LeaseExpires
<1>5. ASSUME NEW a \in advances, Advance(a) \/ LoseAdvance(a) PROVE envStatus' = envStatus
  BY <1>5 DEF envVars, settings, Advance, LoseAdvance
<1>6. CASE WakePending
  BY <1>6 DEF envVars, WakePending
<1> QED
  BY <1>1, <1>2, <1>3, <1>4, <1>5, <1>6 DEF Next
-----------------------------------------------------------------------------
(* What the shapes preserve *)

\* What finish() does to the run it ends, and that it leaves the others alone.
LEMMA EndsChanges ==
    ASSUME LifeInv, NEW r \in RunIds, NEW s \in Endings, Ends(r, s)
    PROVE  /\ \A q \in RunIds : q # r =>
                  status'[q] = status[q] /\ deadline'[q] = deadline[q] /\ row'[q] = row[q]
           /\ status[r] \notin {"none"} /\ ~ Over(r)
           /\ status'[r] = s
           /\ s # "cancelled" => deadline'[r] = "none" /\ NothingDeploys(r)'
           /\ Over(r)' => deadline'[r] = "none" /\ NothingDeploys(r)'
           /\ status[r] = "pending" => Over(r)'
<1> USE DEF LifeInv, WorkInv
<1>1. \A q \in RunIds : q # r =>
          status'[q] = status[q] /\ deadline'[q] = deadline[q] /\ row'[q] = row[q]
  BY DEF Ends, FinishRun, TypeInv, TypeOK, RunTypes, RowTypes
<1>2. /\ status'[r] = s
      /\ deadline'[r] = IF Draining(r, s) THEN deadline[r] ELSE "none"
  BY DEF Ends, FinishRun, TypeInv, TypeOK, RunTypes
<1>3. NothingDeploys(r) => NothingDeploys(r)'
  BY DEF Ends, FinishRun, NothingDeploys, TypeInv, TypeOK, RowTypes
<1>4. status[r] # "none" /\ ~ Over(r)
  BY DEF Ends, Over, Terminal, Occupying
<1>5. ASSUME s # "cancelled" PROVE deadline'[r] = "none" /\ NothingDeploys(r)'
  BY <1>2, <1>3, <1>5 DEF Draining, Ends
<1>6. ASSUME status[r] = "pending" PROVE NothingDeploys(r) /\ deadline'[r] = "none"
  <2>1. stage[r] = "none"
    BY <1>6 DEF LifeRules, WaitsUntouched
  <2> QED
    BY <1>2, <2>1, UnstartedDeploysNothing DEF NothingDeploys, Draining
<1>7. ASSUME Over(r)' PROVE deadline'[r] = "none" /\ NothingDeploys(r)'
  <2>1. CASE NothingDeploys(r)
    BY <1>2, <1>3, <2>1 DEF Draining, NothingDeploys
  <2>2. CASE ~ NothingDeploys(r)
    <3>1. s = "cancelled" /\ status[r] = "running"
      BY <1>6, <2>2 DEF Ends
    <3>2. deadline'[r] # "none"
      BY <1>2, <2>2, <3>1 DEF Draining, NothingDeploys, WorkRules, RunningIsDated
    <3> QED
      BY <1>2, <1>7, <3>1, <3>2 DEF Over, Occupying
  <2> QED
    BY <2>1, <2>2
<1>8. ASSUME status[r] = "pending" PROVE Over(r)'
  BY <1>2, <1>6, <1>8 DEF Over, Terminal, Occupying, Endings
<1> QED
  BY <1>1, <1>2, <1>4, <1>5, <1>7, <1>8

\* What dispatch() does to the run it moves on, and that it leaves the others alone.
LEMMA DispatchChanges ==
    ASSUME TypeInv, NEW r \in RunIds, NEW s, NEW rec,
           NEW d \in [RunIds -> [Components -> RowStatuses]], Dispatch(r, s, rec, d)
    PROVE  /\ stage'[r] = s
           /\ recovering'[r] = rec
           /\ deadline'[r] = "future"
           /\ \A c \in Components :
                  row'[r][c] = IF c \in Participants(r, s, d) THEN "deploying" ELSE d[r][c]
           /\ \A q \in RunIds : q # r =>
                  /\ stage'[q] = stage[q]
                  /\ recovering'[q] = recovering[q]
                  /\ deadline'[q] = deadline[q]
                  /\ row'[q] = d[q]
BY DEF Dispatch, TypeInv, TypeOK, RunTypes
-----------------------------------------------------------------------------
(* The invariant over the shapes *)

\* What EndedStaysEnded and StageBarrier say of one step.
EndStep ==
    \A r \in RunIds : Terminal(r) /\ ~ Occupying(r) =>
        /\ status'[r] = status[r]
        /\ stage'[r] = stage[r]
        /\ row'[r] = row[r]
        /\ deadline'[r] = "none"
BarrierStep ==
    \A r \in RunIds : stage[r] # "none" /\ stage'[r] # stage[r] =>
        \A c \in Components : row[r][c] # "none" =>
            row[r][c] = "finished" /\ ~ (Working(c) /\ holding[c].run = r)

RowsRules == WaitsUntouched /\ OverIsSettled /\ StageSettled
OrderRules == NumberedInOrder /\ NewestWaits

\* Only rows change.
LEMMA RowsLife ==
    ASSUME LifeInv, TypeInv', SettlesRows
    PROVE  RowsRules' /\ OrderRules' /\ EndStep /\ BarrierStep /\ (Idle => Idle')
<1> USE DEF LifeInv, LifeRules, SettlesRows
<1>1. WaitsUntouched'
  BY DEF WaitsUntouched
<1>2. OverIsSettled'
  BY DEF OverIsSettled, Over, Terminal, Occupying
<1>3. StageSettled'
  BY DEF StageSettled, Participants, WorkInv, WorkRules, DeployingTakesPart
<1>4. OrderRules'
  BY DEF OrderRules, NumberedInOrder, NewestWaits
<1>5. ASSUME NEW r \in RunIds, Over(r) PROVE row'[r] = row[r]
  <2>1. \A c \in Components : row'[r][c] = row[r][c]
    BY <1>5 DEF OverIsSettled
  <2>2. row[r] \in [Components -> RowStatuses] /\ row'[r] \in [Components -> RowStatuses]
    BY DEF WorkInv, TypeInv, TypeOK, RowTypes
  <2> QED
    BY <2>1, <2>2
<1>6. EndStep
  BY <1>5 DEF EndStep, Over, OverIsSettled
<1>7. BarrierStep /\ (Idle => Idle')
  BY DEF BarrierStep, Idle, Blocking, Occupying
<1> QED
  BY <1>1, <1>2, <1>3, <1>4, <1>6, <1>7 DEF RowsRules

\* Only status, deadline and membership in the joins change.
LEMMA StatusLife ==
    ASSUME LifeInv, UNCHANGED <<stage, recovering, row>>,
           \A r \in RunIds : status'[r] \in {"none", "pending"} =>
               status[r] \in {"none", "pending"} /\ deadline'[r] = "none",
           \A r \in RunIds : Over(r) => status'[r] = status[r] /\ deadline'[r] = deadline[r],
           \A r \in RunIds : Over(r)' /\ ~ Over(r) =>
               status[r] \in {"none", "pending"} /\ deadline'[r] = "none",
           \A r \in RunIds : status'[r] = "running" /\ stage[r] # "none" =>
               status[r] = "running" /\ (r \in join' <=> r \in join)
    PROVE  RowsRules' /\ EndStep /\ BarrierStep
<1> USE DEF LifeInv, LifeRules
<1>1. WaitsUntouched'
  BY DEF WaitsUntouched
<1>2. OverIsSettled'
  BY UnstartedDeploysNothing DEF OverIsSettled, WaitsUntouched
<1>3. StageSettled'
  BY DEF StageSettled, Participants
<1>4. EndStep /\ BarrierStep
  BY DEF EndStep, BarrierStep, Over, OverIsSettled
<1> QED
  BY <1>1, <1>2, <1>3, <1>4 DEF RowsRules

LEMMA PassesLife ==
    ASSUME LifeInv, NEW r \in RunIds, Passes(r)
    PROVE  RowsRules' /\ OrderRules' /\ EndStep /\ BarrierStep /\ (Idle => Idle')
<1> USE DEF LifeInv, LifeRules, WorkInv, Passes
<1>1. \A q \in RunIds : deadline'[q] = IF q = r THEN "past" ELSE deadline[q]
  BY DEF TypeInv, TypeOK, RunTypes
<1>2. status[r] \notin {"none", "pending"} /\ ~ Over(r)
  BY DEF WaitsUntouched, OverIsSettled
<1>3. \A q \in RunIds : Occupying(q) <=> Occupying(q)'
  BY <1>1 DEF Occupying
<1>4. \A q \in RunIds : Over(q)' <=> Over(q)
  BY <1>3 DEF Over, Terminal
<1>5. RowsRules' /\ EndStep /\ BarrierStep
  BY <1>1, <1>2, <1>4, StatusLife DEF WaitsUntouched
<1>6. OrderRules' /\ (Idle => Idle')
  BY <1>3 DEF OrderRules, NumberedInOrder, NewestWaits, Idle, Blocking
<1> QED
  BY <1>5, <1>6

LEMMA FreshRun ==
    ASSUME LifeInv, NEW r \in RunIds, Fresh(r)
    PROVE  /\ status[r] = "none" /\ stage[r] = "none" /\ deadline[r] = "none" /\ ~ Over(r)
           /\ \A q \in RunIds : status[q] = "none" <=> q >= r
<1>1. status[r] = "none"
  BY DEF Fresh
<1>2. \A q \in RunIds : q < r => status[q] # "none"
  BY BoundsAssumption DEF Fresh, RunIds
<1>3. \A q \in RunIds : q > r => status[q] = "none"
  BY <1>1 DEF LifeInv, LifeRules, NumberedInOrder, RunIds
<1> QED
  BY <1>1, <1>2, <1>3, BoundsAssumption
     DEF RunIds, LifeInv, LifeRules, WaitsUntouched, Over, Terminal

LEMMA AsksLife ==
    ASSUME LifeInv, NEW r \in RunIds, Asks(r)
    PROVE  RowsRules' /\ OrderRules' /\ EndStep /\ BarrierStep
<1> USE DEF LifeInv, LifeRules, WorkInv, Asks
<1>1. \A q \in RunIds : deadline'[q] = IF q # r THEN deadline[q]
                                       ELSE IF MustWait THEN "none" ELSE "future"
  BY DEF TypeInv, TypeOK, RunTypes
<1>2. \A q \in RunIds : q # r => status'[q] = OutOfDate(q)
  OBVIOUS
<1>3. status'[r] = IF MustWait THEN "pending" ELSE "running"
  OBVIOUS
<1>4. \A q \in RunIds : status'[q] \in {"none", "pending"} =>
          status[q] \in {"none", "pending"} /\ deadline'[q] = "none"
  BY <1>1, <1>2, <1>3, FreshRun DEF OutOfDate, WaitsUntouched
<1>5. \A q \in RunIds : Over(q) => status'[q] = status[q] /\ deadline'[q] = deadline[q]
  BY <1>1, <1>2, FreshRun DEF OutOfDate, Over, Terminal
<1>6. \A q \in RunIds : Over(q)' /\ ~ Over(q) =>
          status[q] \in {"none", "pending"} /\ deadline'[q] = "none"
  BY <1>1, <1>2, <1>3 DEF OutOfDate, Over, Terminal, Occupying, WaitsUntouched
<1>7. \A q \in RunIds : status'[q] = "running" /\ stage[q] # "none" => status[q] = "running"
  BY <1>2, <1>3, FreshRun DEF OutOfDate
<1>8. RowsRules' /\ EndStep /\ BarrierStep
  BY <1>4, <1>5, <1>6, <1>7, StatusLife
<1>9. NumberedInOrder'
  <2>1. \A q \in RunIds : status'[q] = "none" => status[q] = "none" /\ q # r
    BY <1>2, <1>3 DEF OutOfDate
  <2>2. \A q \in RunIds : q > r => status'[q] = "none"
    BY <1>2, FreshRun DEF OutOfDate, RunIds
  <2> QED
    BY <2>1, <2>2, FreshRun DEF NumberedInOrder, RunIds
<1>10. NewestWaits'
  <2>1. \A q \in RunIds : status'[q] = "pending" => q = r
    BY <1>2 DEF OutOfDate
  <2>2. \A q \in RunIds : q > r => status'[q] = "none" /\ stage[q] = "none"
    BY <1>2, FreshRun DEF OutOfDate, WaitsUntouched, RunIds
  <2> QED
    BY <2>1, <2>2 DEF NewestWaits
<1> QED
  BY <1>8, <1>9, <1>10 DEF OrderRules

LEMMA RejectsLife ==
    ASSUME LifeInv, NEW r \in RunIds, Rejects(r)
    PROVE  RowsRules' /\ OrderRules' /\ EndStep /\ BarrierStep /\ (Idle => Idle')
<1> USE DEF LifeInv, LifeRules, WorkInv, Rejects
<1>1. \A q \in RunIds : status'[q] = IF q = r THEN "failed" ELSE status[q]
  BY DEF TypeInv, TypeOK, RunTypes
<1>2. \A q \in RunIds : q # r => (Over(q)' <=> Over(q))
  BY <1>1 DEF Over, Terminal, Occupying
<1>3. RowsRules' /\ EndStep /\ BarrierStep
  BY <1>1, <1>2, FreshRun, StatusLife DEF WaitsUntouched
<1>4. NumberedInOrder'
  BY <1>1, FreshRun DEF NumberedInOrder, RunIds
<1>5. NewestWaits' /\ (Idle => Idle')
  BY <1>1, FreshRun DEF NewestWaits, Idle, Blocking, Occupying
<1> QED
  BY <1>3, <1>4, <1>5 DEF OrderRules

LEMMA JoinsLife ==
    ASSUME LifeInv, NEW r \in RunIds, Joins(r)
    PROVE  RowsRules' /\ OrderRules' /\ EndStep /\ BarrierStep
<1> USE DEF LifeInv, LifeRules, WorkInv, Joins
<1>1. \A q \in RunIds : /\ status'[q] = IF q = r THEN "running" ELSE status[q]
                        /\ deadline'[q] = IF q = r THEN "future" ELSE deadline[q]
  BY DEF TypeInv, TypeOK, RunTypes
<1>2. \A q \in RunIds : q # r => (Over(q)' <=> Over(q))
  BY <1>1 DEF Over, Terminal, Occupying
<1>3. ~ Over(r) /\ ~ Over(r)'
  BY <1>1, FreshRun DEF Over, Terminal
<1>4. RowsRules' /\ EndStep /\ BarrierStep
  BY <1>1, <1>2, <1>3, FreshRun, StatusLife DEF WaitsUntouched
<1>5. NumberedInOrder'
  BY <1>1, FreshRun DEF NumberedInOrder, RunIds
<1>6. NewestWaits'
  BY <1>1 DEF NewestWaits, Idle, Blocking
<1> QED
  BY <1>4, <1>5, <1>6 DEF OrderRules

LEMMA PromotesLife ==
    ASSUME LifeInv, NEW r \in RunIds, Promotes(r)
    PROVE  RowsRules' /\ OrderRules' /\ EndStep /\ BarrierStep /\ ~ Idle
<1> USE DEF LifeInv, LifeRules, WorkInv, Promotes
<1>1. \A q \in RunIds : /\ status'[q] = IF q = r THEN "running" ELSE status[q]
                        /\ deadline'[q] = IF q = r THEN "future" ELSE deadline[q]
  BY DEF TypeInv, TypeOK, RunTypes
<1>2. \A q \in RunIds : q # r => (Over(q)' <=> Over(q))
  BY <1>1 DEF Over, Terminal, Occupying
<1>3. ~ Over(r) /\ ~ Over(r)' /\ stage[r] = "none"
  BY <1>1 DEF Over, Terminal, WaitsUntouched
<1>4. RowsRules' /\ EndStep /\ BarrierStep
  BY <1>1, <1>2, <1>3, StatusLife DEF WaitsUntouched
<1>5. NumberedInOrder'
  BY <1>1 DEF NumberedInOrder
<1>6. NewestWaits'
  BY <1>1 DEF NewestWaits
<1>7. ~ Idle
  BY DEF Idle, Blocking
<1> QED
  BY <1>4, <1>5, <1>6, <1>7 DEF OrderRules

LEMMA EndsLife ==
    ASSUME LifeInv, NEW r \in RunIds, NEW s \in Endings, Ends(r, s)
    PROVE  RowsRules' /\ OrderRules' /\ EndStep /\ BarrierStep /\ ~ Idle
<1> USE DEF LifeInv, LifeRules
<1>1. /\ \A q \in RunIds : q # r =>
             status'[q] = status[q] /\ deadline'[q] = deadline[q] /\ row'[q] = row[q]
      /\ status[r] # "none" /\ ~ Over(r)
      /\ status'[r] = s
      /\ Over(r)' => deadline'[r] = "none" /\ NothingDeploys(r)'
  BY EndsChanges
<1>2. s \notin {"none", "pending", "running"}
  BY DEF Endings
<1>3. UNCHANGED <<stage, recovering, join>>
  BY DEF Ends
<1>4. WaitsUntouched'
  BY <1>1, <1>2, <1>3 DEF WaitsUntouched
<1>5. OverIsSettled'
  <2>1. \A q \in RunIds : q # r => (Over(q)' <=> Over(q))
    BY <1>1 DEF Over, Terminal, Occupying
  <2> QED
    BY <1>1, <2>1 DEF OverIsSettled, NothingDeploys
<1>6. StageSettled'
  BY <1>1, <1>2, <1>3 DEF StageSettled, Participants
<1>7. EndStep /\ BarrierStep
  BY <1>1, <1>3 DEF EndStep, BarrierStep, Over, OverIsSettled
<1>8. NumberedInOrder'
  BY <1>1, <1>2 DEF NumberedInOrder
<1>9. ~ Idle
  BY DEF Ends, Idle, Blocking
<1>10. NewestWaits'
  <2>1. \A q \in RunIds : status'[q] = "pending" => q # r /\ status[q] = "pending"
    BY <1>1, <1>2
  <2>2. status[r] \notin {"none", "failed"}
    BY DEF Ends, Occupying
  <2> QED
    BY <1>1, <1>3, <2>1, <2>2 DEF NewestWaits
<1> QED
  BY <1>4, <1>5, <1>6, <1>7, <1>8, <1>9, <1>10 DEF RowsRules, OrderRules

LEMMA DispatchLife ==
    ASSUME LifeInv, NEW r \in RunIds, NEW s \in Stages, NEW rec \in BOOLEAN,
           NEW d \in [RunIds -> [Components -> RowStatuses]],
           status[r] = "running",
           \A q \in RunIds : q # r => d[q] = row[q],
           rec = FALSE =>
               \A c \in Components : c \notin Participants(r, s, d) => d[r][c] \in {"none", "finished"},
           Dispatch(r, s, rec, d), UNCHANGED <<status, join>>
    PROVE  RowsRules' /\ OrderRules' /\ EndStep /\ ~ Idle
<1> USE DEF LifeInv, LifeRules, WorkInv
<1>1. /\ stage'[r] = s
      /\ recovering'[r] = rec
      /\ deadline'[r] = "future"
      /\ \A c \in Components :
             row'[r][c] = IF c \in Participants(r, s, d) THEN "deploying" ELSE d[r][c]
      /\ \A q \in RunIds : q # r =>
             /\ stage'[q] = stage[q]
             /\ recovering'[q] = recovering[q]
             /\ deadline'[q] = deadline[q]
             /\ row'[q] = row[q]
  BY DispatchChanges
<1>2. ~ Over(r) /\ ~ Over(r)'
  BY DEF Over, Terminal
<1>3. WaitsUntouched'
  BY <1>1 DEF WaitsUntouched
<1>4. OverIsSettled'
  <2>1. \A q \in RunIds : q # r => (Over(q)' <=> Over(q))
    BY <1>1 DEF Over, Terminal, Occupying
  <2> QED
    BY <1>1, <1>2, <2>1 DEF OverIsSettled
<1>5. StageSettled'
  <2> SUFFICES ASSUME NEW q \in RunIds, status'[q] = "running", ~ recovering'[q],
                      stage'[q] # "none", NEW c \in Components,
                      c \notin Participants(q, stage[q], row)'
               PROVE  row'[q][c] \in {"none", "finished"}
    BY DEF StageSettled
  <2>1. CASE q = r
    <3>1. rec = FALSE
      BY <1>1, <2>1
    <3>2. c \notin Participants(r, s, d)
      BY <1>1, <2>1 DEF Participants
    <3> QED
      BY <1>1, <2>1, <3>1, <3>2
  <2>2. CASE q # r
    BY <1>1, <2>2 DEF StageSettled, Participants
  <2> QED
    BY <2>1, <2>2
<1>6. EndStep
  BY <1>1, <1>2 DEF EndStep, Over, OverIsSettled
<1>7. OrderRules'
  BY <1>1 DEF OrderRules, NumberedInOrder, NewestWaits
<1>8. ~ Idle
  BY DEF Idle, Blocking, Occupying
<1> QED
  BY <1>3, <1>4, <1>5, <1>6, <1>7, <1>8 DEF RowsRules

LEMMA StartsLife ==
    ASSUME LifeInv, NEW r \in RunIds, NEW s \in Stages,
           NEW d \in [RunIds -> [Components -> RowStatuses]], Starts(r, s, d)
    PROVE  RowsRules' /\ OrderRules' /\ EndStep /\ BarrierStep /\ ~ Idle
<1>1. \A c \in Components : c \notin Participants(r, s, d) => d[r][c] \in {"none", "finished"}
  BY DEF Starts, RowStatuses
<1>2. RowsRules' /\ OrderRules' /\ EndStep /\ ~ Idle
  BY <1>1, DispatchLife DEF Starts
<1>3. BarrierStep
  BY DispatchChanges DEF Starts, BarrierStep, LifeInv, WorkInv
<1> QED
  BY <1>2, <1>3

LEMMA MovesLife ==
    ASSUME LifeInv, NEW r \in RunIds, NEW s \in Stages, NEW rec \in BOOLEAN, Moves(r, s, rec)
    PROVE  RowsRules' /\ OrderRules' /\ EndStep /\ BarrierStep /\ ~ Idle
<1> USE DEF LifeInv, LifeRules, WorkInv
<1>1. row \in [RunIds -> [Components -> RowStatuses]]
  BY DEF TypeInv, TypeOK, RowTypes
<1>2. CASE rec /\ s = stage[r]
  <2>1. RowsRules' /\ OrderRules' /\ EndStep /\ ~ Idle
    BY <1>1, <1>2, DispatchLife DEF Moves
  <2>2. Dispatch(r, s, rec, row) /\ s = stage[r]
    BY <1>2 DEF Moves
  <2>3. stage'[r] = s /\ \A q \in RunIds : q # r => stage'[q] = stage[q]
    BY <1>1, <2>2, DispatchChanges
  <2>4. BarrierStep
    BY <2>2, <2>3 DEF BarrierStep
  <2> QED
    BY <2>1, <2>4
<1>3. CASE ~ recovering[r] /\ \A c \in Participants(r, stage[r], row) : row[r][c] # "failed"
  <2>1. \A c \in Components : row[r][c] \in {"none", "finished"}
    BY <1>1, <1>3 DEF Moves, NothingDeploys, StageSettled, RowStatuses
  <2>2. RowsRules' /\ OrderRules' /\ EndStep /\ ~ Idle
    BY <1>1, <2>1, DispatchLife DEF Moves
  <2>3. \A c \in Components : ~ (Working(c) /\ holding[c].run = r)
    BY <2>1, WorkNeedsDeployingRow
  <2>4. BarrierStep
    BY <1>1, <2>1, <2>3, DispatchChanges DEF Moves, BarrierStep
  <2> QED
    BY <2>2, <2>4
<1> QED
  BY <1>2, <1>3 DEF Moves

LEMMA LifeStep == LifeInv /\ TypeInv' /\ [Next]_vars => LifeRules' /\ EndStep /\ BarrierStep
<1> SUFFICES ASSUME LifeInv, TypeInv', [Next]_vars PROVE LifeRules' /\ EndStep /\ BarrierStep
  OBVIOUS
<1>1. Shaped
  BY StepIsShaped DEF LifeInv
<1>2. RowsRules' /\ OrderRules' /\ EndStep /\ BarrierStep
  BY <1>1, RowsLife, PassesLife, AsksLife, RejectsLife, JoinsLife, PromotesLife, EndsLife,
     StartsLife, MovesLife DEF Shaped, RunStep
<1>3. CASE envStatus' = envStatus
  <2>1. envStatus = "deleting" => Idle
    BY DEF LifeInv, LifeRules, DeletingIsIdle
  <2>2. envStatus = "deleting" => Idle'
    BY <1>1, <2>1, RowsLife, PassesLife, RejectsLife, PromotesLife, EndsLife, StartsLife, MovesLife
       DEF Shaped, RunStep, Asks, Joins
  <2>3. DeletingIsIdle'
    BY <1>3, <2>2 DEF DeletingIsIdle
  <2> QED
    BY <1>2, <2>3 DEF LifeRules, RowsRules, OrderRules
<1>4. CASE BeginTeardown
  <2>1. DeletingIsIdle'
    BY <1>4 DEF BeginTeardown, runVars, DeletingIsIdle, Idle, Blocking, Occupying
  <2> QED
    BY <1>2, <2>1 DEF LifeRules, RowsRules, OrderRules
<1> QED
  BY <1>3, <1>4, TeardownOnly

LEMMA LifeInit == Init => LifeInv
BY WorkInit
   DEF Init, LifeInv, LifeRules, WaitsUntouched, OverIsSettled, StageSettled, NumberedInOrder,
       NewestWaits, DeletingIsIdle, Over, Terminal

LEMMA LifeInvariant == Spec => []LifeInv
<1>1. LifeInv /\ [Next]_vars => LifeInv'
  BY TypeStep, WorkStep, LifeStep DEF LifeInv, WorkInv
<1> QED
  BY <1>1, LifeInit, PTL DEF Spec

\* Stages move together: a run leaves a stage only when each of its components
\* has finished it and nobody works on one for it any more.
THEOREM StagesMoveTogether == Spec => StageBarrier
<1>1. LifeInv /\ LifeInv' /\ [Next]_vars =>
          [\A r \in RunIds : stage[r] # "none" /\ stage'[r] # stage[r] =>
              \A c \in Components : row[r][c] # "none" =>
                  row[r][c] = "finished" /\ ~ (Working(c) /\ holding[c].run = r)]_vars
  BY LifeStep DEF LifeInv, WorkInv, BarrierStep
<1> QED
  BY <1>1, LifeInvariant, PTL DEF Spec, StageBarrier

\* The end of a run is final: no late job, worker, watchdog or promotion changes
\* its status, stage, rows or deadline again.
THEOREM EndIsFinal == Spec => EndedStaysEnded
<1>1. LifeInv /\ LifeInv' /\ [Next]_vars =>
          [\A r \in RunIds : Terminal(r) /\ ~ Occupying(r) =>
              /\ status'[r] = status[r]
              /\ stage'[r] = stage[r]
              /\ row'[r] = row[r]
              /\ deadline'[r] = "none"]_vars
  BY LifeStep DEF LifeInv, WorkInv, EndStep
<1> QED
  BY <1>1, LifeInvariant, PTL DEF Spec, EndedStaysEnded

\* No request overtakes a newer one: whatever was requested after the run that
\* waits was rejected before it began.
THEOREM NewestRequestWaits == Spec => []NewestWaits
<1>1. LifeInv => NewestWaits
  BY DEF LifeInv, LifeRules
<1> QED
  BY <1>1, LifeInvariant, PTL

\* Once an environment is being deleted none of its runs waits or runs and
\* nobody works on its components, not even for a run that was cancelled.
THEOREM TeardownMeetsNoRun == Spec => []TeardownIsQuiet
<1>1. LifeInv => TeardownIsQuiet
  <2> SUFFICES ASSUME LifeInv, envStatus = "deleting"
               PROVE  /\ \A r \in RunIds : status[r] \notin {"pending", "running"}
                      /\ \A c \in Components : ~ Working(c)
    BY DEF TeardownIsQuiet
  <2>1. \A r \in RunIds : status[r] # "pending" /\ ~ Occupying(r)
    BY DEF LifeInv, LifeRules, DeletingIsIdle, Idle, Blocking
  <2> QED
    BY <2>1, WorkNeedsDeployingRow DEF LifeInv, Occupying
<1> QED
  BY <1>1, LifeInvariant, PTL
=============================================================================
