--------------------------- MODULE LiveCodeProofs ---------------------------
(***************************************************************************)
(* Runs and live code.  A run that ended before it was released never      *)
(* touched what an app serves; outside of a release the symlink and the    *)
(* active deployment agree; a rollback leaves each app as the run found it;*)
(* and only a run that every app serves becomes the live one.              *)
(***************************************************************************)
EXTENDS EnvironmentDeploymentProofs

\* The run has entered its release stage and did not end short of it.
Reached(r) ==
    /\ stage[r] \in {"release", "post-release"}
    /\ status[r] \notin {"none", "pending", "cancelled", "superseded"}
    /\ status[r] = "failed" => stage[r] = "post-release"

\* A cancellation is refused from the release stage on, so a run that drains
\* one is in an earlier stage.
CancelledBefore == \A r \in RunIds : status[r] = "cancelled" => stage[r] \notin {"release", "post-release"}

\* A run that failed did so before its release or after it.
FailedAround == \A r \in RunIds : status[r] = "failed" => stage[r] # "release"

\* Only the release stage takes a worker through the steps of a release.
ReleaseSteps == {"started", "prepared", "switched", "restored"}
ReleasingInRelease == \A c \in Components : worker[c] \in ReleaseSteps => holding[c].stage = "release"

\* What live code refers to, or may be put back to, reached its release.
LiveReached ==
    /\ \A r \in RunIds : started[r] # {} => Reached(r)
    /\ live \in RunIds => Reached(live)
    /\ \A c \in Apps : active[c] \in RunIds => Reached(active[c])
    /\ \A r \in RunIds, c \in Apps : prev[r][c] \in RunIds => Reached(prev[r][c])

LiveRules == CancelledBefore /\ FailedAround /\ ReleasingInRelease /\ LiveReached
LiveInv == LifeInv /\ LiveRules
-----------------------------------------------------------------------------
\* A run that reached its release stays reached, however it ends.
LEMMA ReachedStays ==
    ASSUME LiveInv, Shaped
    PROVE  CancelledBefore' /\ FailedAround' /\ \A r \in RunIds : Reached(r) => Reached(r)'
<1> USE DEF LiveInv, LiveRules
<1> DEFINE Goal == /\ CancelledBefore'
                   /\ FailedAround'
                   /\ \A r \in RunIds : Reached(r) => Reached(r)'
<1>1. CASE SettlesRows
  BY <1>1 DEF SettlesRows, CancelledBefore, FailedAround, Reached
<1>2. ASSUME NEW r \in RunIds, Passes(r) PROVE Goal
  BY <1>2 DEF Passes, CancelledBefore, FailedAround, Reached
<1>3. ASSUME NEW r \in RunIds, Asks(r) PROVE Goal
  BY <1>3, FreshRun DEF Asks, OutOfDate, CancelledBefore, FailedAround, Reached
<1>4. ASSUME NEW r \in RunIds, UNCHANGED stage, stage[r] = "none",
             \A q \in RunIds : q # r => status'[q] = status[q]
      PROVE  Goal
  BY <1>4 DEF CancelledBefore, FailedAround, Reached
<1>5. ASSUME NEW r \in RunIds, Rejects(r) \/ Joins(r) \/ Promotes(r) PROVE Goal
  <2>1. stage[r] = "none" /\ UNCHANGED stage
    BY <1>5, FreshRun DEF Rejects, Joins, Promotes, LifeInv, LifeRules, WaitsUntouched
  <2>2. \A q \in RunIds : q # r => status'[q] = status[q]
    BY <1>5 DEF Rejects, Joins, Promotes, LifeInv, WorkInv, TypeInv, TypeOK, RunTypes
  <2> QED
    BY <1>4, <2>1, <2>2
<1>6. ASSUME NEW r \in RunIds, NEW s \in Endings, Ends(r, s) PROVE Goal
  <2>1. /\ \A q \in RunIds : q # r => status'[q] = status[q]
        /\ status'[r] = s
        /\ UNCHANGED stage
    BY <1>6, EndsChanges DEF Ends
  <2>2. status[r] = "pending" => stage[r] = "none"
    BY DEF LifeInv, LifeRules, WaitsUntouched
  <2>3. s = "cancelled" => stage[r] \notin {"release", "post-release"}
    BY <1>6, <2>2 DEF Ends, CancelledBefore
  <2>4. s = "failed" => stage[r] # "release"
    BY <1>6 DEF Ends
  <2>5. s \notin {"none", "pending", "superseded"}
    BY DEF Endings
  <2> QED
    BY <2>1, <2>3, <2>4, <2>5 DEF CancelledBefore, FailedAround, Reached
<1>7. ASSUME NEW r \in RunIds, NEW s \in Stages, status[r] = "running", UNCHANGED status,
             stage[r] \in {"release", "post-release"} => s \in {"release", "post-release"},
             stage'[r] = s, \A q \in RunIds : q # r => stage'[q] = stage[q]
      PROVE  Goal
  BY <1>7 DEF CancelledBefore, FailedAround, Reached
<1>8. ASSUME NEW r \in RunIds, NEW s \in Stages,
             NEW d \in [RunIds -> [Components -> RowStatuses]], Starts(r, s, d)
      PROVE  Goal
  <2>1. stage'[r] = s /\ \A q \in RunIds : q # r => stage'[q] = stage[q]
    BY <1>8, DispatchChanges DEF Starts, LifeInv, WorkInv
  <2> QED
    BY <1>7, <1>8, <2>1 DEF Starts
<1>9. ASSUME NEW r \in RunIds, NEW s \in Stages, NEW rec \in BOOLEAN, Moves(r, s, rec) PROVE Goal
  <2>1. row \in [RunIds -> [Components -> RowStatuses]] /\ Dispatch(r, s, rec, row)
    BY <1>9 DEF Moves, LifeInv, WorkInv, TypeInv, TypeOK, RowTypes
  <2>2. stage'[r] = s /\ \A q \in RunIds : q # r => stage'[q] = stage[q]
    BY <2>1, DispatchChanges DEF LifeInv, WorkInv
  <2>3. stage[r] \in {"release", "post-release"} => s \in {"release", "post-release"}
    BY <1>9 DEF Moves, NextStage, Stages
  <2> QED
    BY <1>7, <1>9, <2>2, <2>3 DEF Moves
<1> QED
  BY <1>1, <1>2, <1>3, <1>5, <1>6, <1>8, <1>9 DEF Shaped, RunStep

\* The rest of the invariant: what steps do to live code and to its workers.
LiveRest == ReleasingInRelease /\ LiveReached

LEMMA LiveStays ==
    ASSUME LiveInv, \A r \in RunIds : Reached(r) => Reached(r)',
           UNCHANGED <<started, live, active, prev>>,
           \A c \in Components : worker'[c] \in ReleaseSteps =>
               worker[c] \in ReleaseSteps /\ holding'[c] = holding[c]
    PROVE  LiveRest'
BY DEF LiveInv, LiveRules, LiveRest, ReleasingInRelease, LiveReached

\* A worker in the release stage works for a run that reached its release.
LEMMA ReleasingReaches ==
    ASSUME LiveInv, NEW c \in Components, Working(c), holding[c].stage = "release"
    PROVE  Reached(holding[c].run)
BY WorkNeedsDeployingRow DEF LiveInv, LiveRules, LifeInv, CancelledBefore, Awaited, Reached

LEMMA WorkKeepsLive ==
    ASSUME LiveInv, \A r \in RunIds : Reached(r) => Reached(r)', NEW c \in Components, Work(c)
    PROVE  LiveRest'
<1> USE DEF LiveInv, LiveRules, LifeInv, WorkInv, TypeInv, TypeOK, LockTypes, RowTypes
<1>1. ASSUME NEW step, WorkerMoves(c, step), step \in ReleaseSteps => holding[c].stage = "release"
      PROVE  ReleasingInRelease'
  BY <1>1 DEF WorkerMoves, ReleasingInRelease
<1>2. worker[c] \in ReleaseSteps => /\ holding[c].stage = "release"
                                    /\ Working(c)
                                    /\ c \in Apps
                                    /\ holding[c].run \in RunIds
                                    /\ Reached(holding[c].run)
  <2>1. worker[c] \in ReleaseSteps => Working(c) /\ c \in Apps /\ holding[c].stage = "release"
    BY DEF ReleaseSteps, Working, HoldsJob, ReleasingInRelease
  <2> QED
    BY <2>1, WorkNeedsDeployingRow, ReleasingReaches
<1>3. CASE CloneRelease(c) \/ CompleteStage(c)
  <2>1. UNCHANGED <<started, live, active, prev>>
    BY <1>3 DEF CloneRelease, CompleteStage, rowVars, releaseVars
  <2>2. \A b \in Components : worker'[b] \in ReleaseSteps =>
            worker[b] \in ReleaseSteps /\ holding'[b] = holding[b]
    BY <1>3 DEF CloneRelease, CompleteStage, WorkerMoves, FreeLock, ReleaseSteps
  <2> QED
    BY <2>1, <2>2, LiveStays
<1>4. CASE BeginRelease(c)
  <2>1. holding[c].stage = "release" /\ Working(c)
    BY <1>4 DEF BeginRelease, At, Working
  <2>2. Reached(holding[c].run) /\ holding[c].run \in RunIds
    BY <2>1, ReleasingReaches, WorkNeedsDeployingRow
  <2>3. ReleasingInRelease'
    BY <1>1, <1>4, <2>1 DEF BeginRelease
  <2>4. \A r \in RunIds : started'[r] # {} => started[r] # {} \/ r = holding[c].run
    BY <1>4 DEF BeginRelease
  <2>5. LiveReached'
    BY <1>4, <2>2, <2>4 DEF BeginRelease, LiveReached, envVars
  <2> QED
    BY <2>3, <2>5 DEF LiveRest
<1>5. CASE ReleaseEnv(c) \/ SwitchRelease(c) \/ RestoreRelease(c)
  <2>1. ReleasingInRelease'
    BY <1>1, <1>2, <1>5 DEF ReleaseEnv, SwitchRelease, RestoreRelease, At, ReleaseSteps
  <2>2. LiveReached'
    BY <1>5 DEF ReleaseEnv, SwitchRelease, RestoreRelease, LiveReached, rowVars, envVars
  <2> QED
    BY <2>1, <2>2 DEF LiveRest
<1>6. CASE ActivateRelease(c)
  <2>1. ReleasingInRelease'
    BY <1>1, <1>6 DEF ActivateRelease, ReleaseSteps
  <2>2. \A b \in Apps : active'[b] \in {active[b], holding[c].run} /\ Reached(holding[c].run)
    BY <1>2, <1>6 DEF ActivateRelease, ReleaseSteps
  <2>3. LiveReached'
    BY <1>6, <2>2 DEF ActivateRelease, LiveReached, envVars
  <2> QED
    BY <2>1, <2>3 DEF LiveRest
<1>7. CASE RestoreActive(c)
  <2>1. ReleasingInRelease'
    BY <1>1, <1>7 DEF RestoreActive, ReleaseSteps
  <2>2. c \in Apps /\ holding[c].run \in RunIds
    BY <1>2, <1>7 DEF RestoreActive, ReleaseSteps
  <2>3. \A b \in Apps : active'[b] \in {active[b], prev[holding[c].run][b], NoRun}
    BY <1>7, <2>2 DEF RestoreActive
  <2>4. NoRun \notin RunIds
    BY DEF NoRun, RunIds
  <2>5. LiveReached'
    BY <1>7, <2>2, <2>3, <2>4 DEF RestoreActive, LiveReached, envVars
  <2> QED
    BY <2>1, <2>5 DEF LiveRest
<1> QED
  BY <1>3, <1>4, <1>5, <1>6, <1>7 DEF Work

LEMMA StartKeepsLive ==
    ASSUME LiveInv, \A r \in RunIds : Reached(r) => Reached(r)', NEW r \in RunIds, Start(r)
    PROVE  LiveRest'
<1> USE DEF LiveInv, LiveRules, LifeInv, WorkInv, TypeInv, TypeOK, RowTypes
<1>1. UNCHANGED <<started, live, active, worker, holding>>
  BY DEF Start, StartCheck, StartFails, StartRun, StartStale, rowVars, releaseVars, envVars, lockVars
<1>2. CASE UNCHANGED prev
  BY <1>1, <1>2, LiveStays
<1>3. ASSUME NEW new, prev' = [prev EXCEPT ![r] = [c \in Apps |-> IF c \in new THEN active[c] ELSE NoRun]]
      PROVE  LiveRest'
  <2>1. \A q \in RunIds, c \in Apps : prev'[q][c] \in {prev[q][c], active[c], NoRun}
    BY <1>3
  <2>2. NoRun \notin RunIds
    BY DEF NoRun, RunIds
  <2>3. LiveReached'
    BY <1>1, <2>1, <2>2 DEF LiveReached
  <2> QED
    BY <1>1, <2>3 DEF LiveRest, ReleasingInRelease
<1> QED
  BY <1>2, <1>3 DEF Start, StartCheck, StartFails, StartRun, StartStale, rowVars, releaseVars

LEMMA AdvanceKeepsLive ==
    ASSUME LiveInv, \A r \in RunIds : Reached(r) => Reached(r)', NEW a \in advances, Advance(a)
    PROVE  LiveRest'
<1> USE DEF LiveInv, LiveRules, LifeInv, WorkInv, TypeInv
<1>0. a \in AdvanceCall /\ a.run \in RunIds /\ a.stage \in Stages
  BY DEF TypeOK, JobTypes, AdvanceCall
<1>1. UNCHANGED <<started, active, prev, worker, holding>>
  BY DEF Advance, releaseVars, lockVars
<1>2. CASE live' = live
  BY <1>1, <1>2, LiveStays
<1>3. CASE CallMatches(a) /\ a.stage = "release" /\ SettleSuccess(a)
  <2>1. Reached(a.run)
    BY <1>3 DEF CallMatches, SettleSuccess, Reached
  <2>2. live' \in {live, a.run}
    BY <1>3 DEF SettleSuccess, AdvanceEnds, LiveAfter
  <2>3. LiveReached'
    BY <1>0, <1>1, <2>1, <2>2 DEF LiveReached
  <2> QED
    BY <1>1, <2>3 DEF LiveRest, ReleasingInRelease
<1> QED
  BY <1>2, <1>3
     DEF Advance, SettleCancelled, SettleRecovery, SettleFailure, SettleSuccess, AdvanceEnds, LiveAfter

LEMMA LiveStep == LiveInv /\ [Next]_vars => LiveRules'
<1> SUFFICES ASSUME LiveInv, [Next]_vars PROVE LiveRules'
  OBVIOUS
<1>1. CancelledBefore' /\ FailedAround' /\ \A r \in RunIds : Reached(r) => Reached(r)'
  BY StepIsShaped, ReachedStays DEF LiveInv, LifeInv
<1> USE DEF vars, rowVars, envVars, lockVars, releaseVars, settings
<1>2. ASSUME UNCHANGED vars \/ Request \/ Environment \/ WakePending PROVE LiveRest'
  <2>1. UNCHANGED <<started, live, active, prev, worker, holding>>
    BY <1>2
       DEF Request, Deploy, Rollback, WhenReady, WhenReadyFails, WebhookFails, Join, Cancel,
           CreateRun, Environment, EditVariables, BeginTeardown, ComponentReady, ComponentUnready,
           WakePending
  <2> QED
    BY <1>1, <2>1, LiveStays
<1>3. ASSUME NEW r \in RunIds, Finish(r) \/ Watchdog(r) PROVE LiveRest'
  <2>1. UNCHANGED <<started, live, active, prev, worker, holding>>
    BY <1>3
       DEF Finish, FinishBegin, FinishNext, FinishLost, FinishPrune, Watchdog, PassDeadline,
           FailStalled
  <2> QED
    BY <1>1, <2>1, LiveStays
<1>4. ASSUME StageQueue \/ \E c \in Components : Disturb(c) PROVE LiveRest'
  <2>1. UNCHANGED <<started, live, active, prev>>
    BY <1>4
       DEF Disturb, StageReturns, StageThrows, StageTimesOut, WorkerCrashes, LeaseExpires,
           StageQueue, SkipStageJob, TakeStageJob, ExpireStageJob
  <2>2. \A b \in Components : worker'[b] \in ReleaseSteps =>
            worker[b] \in ReleaseSteps /\ holding'[b] = holding[b]
    BY <1>4
       DEF Disturb, StageReturns, StageThrows, StageTimesOut, WorkerCrashes, LeaseExpires, FreeLock,
           StageQueue, SkipStageJob, TakeStageJob, ExpireStageJob, ReleaseSteps, LiveInv, LifeInv, WorkInv,
           TypeInv, TypeOK, LockTypes
  <2> QED
    BY <1>1, <2>1, <2>2, LiveStays
<1>5. ASSUME NEW a \in advances, LoseAdvance(a) PROVE LiveRest'
  <2>1. UNCHANGED <<started, live, active, prev, worker, holding>>
    BY <1>5 DEF LoseAdvance
  <2> QED
    BY <1>1, <2>1, LiveStays
<1>6. LiveRest'
  BY <1>1, <1>2, <1>3, <1>4, <1>5, StartKeepsLive, WorkKeepsLive, AdvanceKeepsLive
     DEF Next
<1> QED
  BY <1>1, <1>6 DEF LiveRules, LiveRest

LEMMA LiveInit == Init => LiveInv
BY LifeInit, RunNumbers
   DEF Init, LiveInv, LiveRules, CancelledBefore, FailedAround, ReleasingInRelease, ReleaseSteps,
       LiveReached, NoRun, RunIds

\* A run that was cancelled or superseded, or that failed before its release
\* stage, never began to release, is not the live run and is not active on any
\* app, whatever recoveries put back.
THEOREM EarlyEndIsHarmless == Spec => []EarlyEndLeavesLiveCode
<1>1. LiveInv /\ [Next]_vars => LiveInv'
  BY TypeStep, WorkStep, LifeStep, LiveStep DEF LiveInv, LifeInv, WorkInv
<1>2. LiveInv => EarlyEndLeavesLiveCode
  BY DEF LiveInv, LiveRules, LiveReached, FailedAround, Reached, EarlyEndLeavesLiveCode
<1> QED
  BY <1>1, <1>2, LiveInit, PTL DEF Spec
-----------------------------------------------------------------------------
(* Three kinds of step: work on a component, the start that makes the rows  *)
(* of a run, and all the others.                                            *)

\* Where a worker is while its stage changes the server, or has changed it.
Engaged == ReleaseSteps \cup {"done"}

\* Neither servers nor active releases change, no run enters its first stage, no
\* row finishes, and whatever an app asked for it goes on asking for.
Quiet ==
    /\ UNCHANGED <<started, active, prev, hostVars>>
    /\ UNCHANGED kept \/ \E r \in RunIds, c \in Apps : FinishPrune(r, c)
    /\ \A c \in Components : worker'[c] \in Engaged =>
          worker'[c] = worker[c] /\ holding'[c] = holding[c]
    /\ \A r \in RunIds, c \in Components : row'[r][c] = "finished" => row[r][c] = "finished"
    /\ \A r \in RunIds :
          /\ stage[r] = "none" => stage'[r] = "none"
          /\ status[r] # "none" => target'[r] = target[r] /\ release'[r] = release[r]
          /\ stage[r] # "none" => version'[r] = version[r]
    /\ needs \subseteq needs'
    /\ edits' = edits \/ needs' = Apps

\* The transaction of start() that makes the rows of run r.
Makes(r) ==
    /\ Startable(r)
    /\ StartValid(r)
    /\ Recruits(r) # {}
    /\ UNCHANGED <<status, join, target, release, started, active, hostVars, settings, needs, live>>
    /\ UNCHANGED <<worker, holding>>
    /\ stage'[r] = (IF target[r] # NoRun THEN "release" ELSE "clone")
    /\ \A c \in Components : row'[r][c] # "none" <=> c \in Recruits(r)
    /\ \A c \in Apps : c \in Recruits(r) => row'[r][c] = "deploying"
    /\ kept'[r] = Recruits(r) \cap Apps
    /\ \A c \in Apps : prev'[r][c] = IF c \in Recruits(r) THEN active[c] ELSE NoRun
    /\ \A q \in RunIds : q # r =>
          /\ row'[q] = row[q]
          /\ kept'[q] = kept[q]
          /\ prev'[q] = prev[q]
          /\ version'[q] = version[q]
          /\ stage'[q] = stage[q]

\* Ending a run, failing a row or entering the next stage finishes no row.
LEMMA QuietRows ==
    ASSUME TypeInv, NEW q \in RunIds, NEW c \in Components, row'[q][c] = "finished",
           \/ UNCHANGED row
           \/ \E r \in RunIds, s \in Statuses : FinishRun(r, s)
           \/ \E r \in RunIds, s \in Stages, rec \in BOOLEAN : Dispatch(r, s, rec, row)
           \/ \E j \in StageJob : row' = FailedRow(j)
    PROVE  row[q][c] = "finished"
<1> USE DEF TypeInv, TypeOK, RowTypes
<1>1. ASSUME NEW r \in RunIds, NEW s \in Statuses, FinishRun(r, s) PROVE row[q][c] = "finished"
  BY <1>1 DEF FinishRun
<1>2. ASSUME NEW r \in RunIds, NEW s \in Stages, NEW rec \in BOOLEAN, Dispatch(r, s, rec, row)
      PROVE  row[q][c] = "finished"
  BY <1>2 DEF Dispatch
<1>3. ASSUME NEW j \in StageJob, row' = FailedRow(j) PROVE row[q][c] = "finished"
  BY <1>3 DEF FailedRow, StageJob
<1> QED
  BY <1>1, <1>2, <1>3

LEMMA AsideIsQuiet ==
    ASSUME LifeInv, UNCHANGED vars \/ Environment \/ Request \/ WakePending
    PROVE  Quiet
<1> USE DEF LifeInv, WorkInv, vars, rowVars, releaseVars, hostVars, envVars, settings, lockVars, origin
<1>1. UNCHANGED <<started, active, prev, hostVars, kept, worker, holding>>
  BY DEF Environment, EditVariables, BeginTeardown, ComponentReady, ComponentUnready, Request, Deploy,
         Rollback, WhenReady, WhenReadyFails, WebhookFails, Join, Cancel, CreateRun, WakePending
<1>2. UNCHANGED row \/ \E r \in RunIds, s \in Statuses : FinishRun(r, s)
  BY DEF Environment, EditVariables, BeginTeardown, ComponentReady, ComponentUnready, Request, Deploy,
         Rollback, WhenReady, WhenReadyFails, WebhookFails, Join, Cancel, CreateRun, WakePending,
         Statuses
<1>3. \A r \in RunIds, c \in Components : row'[r][c] = "finished" => row[r][c] = "finished"
  BY <1>2, QuietRows
<1>4. UNCHANGED stage
  BY DEF runVars, Environment, EditVariables, BeginTeardown, ComponentReady, ComponentUnready,
         Request, Deploy, Rollback, WhenReady, WhenReadyFails, WebhookFails, Join, Cancel, CreateRun,
         WakePending
<1>5. needs \subseteq needs' /\ (edits' = edits \/ needs' = Apps)
  BY DEF Environment, EditVariables, BeginTeardown, ComponentReady, ComponentUnready, Request, Deploy,
         Rollback, WhenReady, WhenReadyFails, WebhookFails, Join, Cancel, CreateRun, WakePending,
         FinishRun, TypeInv, TypeOK, EnvTypes
<1>6. \A r \in RunIds :
          /\ status[r] # "none" => target'[r] = target[r] /\ release'[r] = release[r]
          /\ stage[r] # "none" => version'[r] = version[r]
  <2> USE DEF TypeInv, TypeOK, RunTypes
  <2>1. CASE UNCHANGED <<target, release, version>>
    BY <2>1
  <2>2. CASE \E r \in RunIds, t \in MaybeRun : CreateRun(r, t)
    BY <2>2 DEF CreateRun, Fresh
  <2>3. CASE UNCHANGED target /\ \E r \in RunIds : CreateJoin(r)
    BY <2>3, FreshRun DEF CreateJoin
  <2>4. CASE WebhookFails
    BY <2>4 DEF WebhookFails, Fresh
  <2> QED
    BY <2>1, <2>2, <2>3, <2>4, RunNumbers
       DEF runVars, Environment, EditVariables, BeginTeardown, ComponentReady, ComponentUnready,
           Request, Deploy, Rollback, WhenReady, WhenReadyFails, Join, Cancel, WakePending, NextRun
<1> QED
  BY <1>1, <1>3, <1>4, <1>5, <1>6 DEF Quiet

LEMMA JobsAreQuiet ==
    ASSUME LifeInv, StageQueue \/ \E c \in Components : Disturb(c)
    PROVE  Quiet
<1> USE DEF LifeInv, WorkInv, runVars, rowVars, releaseVars, hostVars, envVars, settings
<1>1. UNCHANGED <<stage, target, release, version, started, active, prev, kept, hostVars, needs, edits>>
  BY DEF Disturb, StageReturns, StageThrows, StageTimesOut, WorkerCrashes, LeaseExpires, StageQueue,
         SkipStageJob, TakeStageJob, ExpireStageJob
<1>2. \A b \in Components : worker'[b] \in Engaged => worker'[b] = worker[b] /\ holding'[b] = holding[b]
  <2> USE DEF Engaged, ReleaseSteps, TypeInv, TypeOK, LockTypes
  <2>1. ASSUME NEW c \in Components, NEW step \in {"free", "working", "dead"},
               worker' = [worker EXCEPT ![c] = step],
               \A b \in Components : b # c => holding'[b] = holding[b]
        PROVE  \A b \in Components : worker'[b] \in Engaged =>
                   worker'[b] = worker[b] /\ holding'[b] = holding[b]
    BY <2>1
  <2>2. ASSUME NEW c \in Components, Disturb(c)
        PROVE  \/ UNCHANGED <<worker, holding>>
               \/ /\ \E step \in {"free", "working", "dead"} : worker' = [worker EXCEPT ![c] = step]
                  /\ \A b \in Components : b # c => holding'[b] = holding[b]
    BY <2>2 DEF Disturb, StageReturns, StageThrows, StageTimesOut, WorkerCrashes, LeaseExpires, FreeLock
  <2>3. ASSUME NEW j \in stageJobs, SkipStageJob(j) \/ TakeStageJob(j) \/ ExpireStageJob(j)
        PROVE  \/ UNCHANGED <<worker, holding>>
               \/ \E c \in Components :
                     /\ worker' = [worker EXCEPT ![c] = "working"]
                     /\ \A b \in Components : b # c => holding'[b] = holding[b]
    BY <2>3 DEF SkipStageJob, TakeStageJob, ExpireStageJob, JobTypes, StageJob, lockVars
  <2> QED
    BY <2>1, <2>2, <2>3 DEF StageQueue
<1>3. UNCHANGED row \/ \E j \in StageJob : row' = FailedRow(j)
  <2>1. stageJobs \subseteq StageJob
    BY DEF TypeInv, TypeOK, JobTypes
  <2> QED
    BY <2>1, WorkNeedsDeployingRow
       DEF Disturb, StageReturns, StageThrows, StageTimesOut, WorkerCrashes, LeaseExpires, StageQueue,
           SkipStageJob, TakeStageJob, ExpireStageJob
<1> QED
  BY <1>1, <1>2, <1>3, QuietRows DEF Quiet

LEMMA AdvanceIsQuiet ==
    ASSUME LifeInv, NEW a \in advances, Advance(a) \/ LoseAdvance(a)
    PROVE  Quiet
<1> USE DEF LifeInv, WorkInv, TypeInv, TypeOK, JobTypes
<1>0. a.run \in RunIds /\ a.stage \in Stages
  BY DEF AdvanceCall
<1>1. UNCHANGED <<target, release, version, started, active, prev, kept, hostVars, edits, worker, holding>>
  BY DEF Advance, LoseAdvance, runVars, rowVars, origin, releaseVars, envVars, settings, lockVars
<1>2. \/ UNCHANGED <<row, stage, needs>>
      \/ \E s \in Statuses : FinishRun(a.run, s) /\ UNCHANGED stage
      \/ /\ UNCHANGED needs
         /\ stage[a.run] = a.stage
         /\ \E s \in Stages, rec \in BOOLEAN : Dispatch(a.run, s, rec, row)
  <2>1. NextStage(a.run, a.stage) \in Stages \cup {"none"}
    BY DEF NextStage, Stages
  <2>2. {"cancelled", "rolled_back", "partial", "failed", "finished"} \subseteq Statuses
    BY DEF Statuses
  <2>3. "release" \in Stages
    BY DEF Stages
  <2>4. CASE SettleCancelled(a) \/ SettleRecovery(a)
    BY <2>2, <2>4 DEF SettleCancelled, SettleRecovery, AdvanceEnds, RecoveryResult
  <2>5. CASE CallMatches(a) /\ SettleFailure(a)
    BY <2>2, <2>3, <2>5 DEF SettleFailure, AdvanceEnds, AdvanceEnters, CallMatches
  <2>6. CASE CallMatches(a) /\ SettleSuccess(a)
    BY <2>1, <2>2, <2>6 DEF SettleSuccess, AdvanceEnds, AdvanceEnters, CallMatches
  <2> QED
    BY <2>4, <2>5, <2>6 DEF Advance, LoseAdvance, runVars, rowVars, envVars
<1>3. \A r \in RunIds, c \in Components : row'[r][c] = "finished" => row[r][c] = "finished"
  BY <1>0, <1>2, QuietRows
<1>4. \A r \in RunIds : stage[r] = "none" => stage'[r] = "none"
  <2>1. "none" \notin Stages
    BY DEF Stages
  <2> QED
    BY <1>0, <1>2, <2>1 DEF Dispatch, RunTypes
<1>5. needs \subseteq needs'
  BY <1>2 DEF FinishRun
<1> QED
  BY <1>1, <1>3, <1>4, <1>5 DEF Quiet

LEMMA FinishIsQuiet ==
    ASSUME LifeInv, NEW r \in RunIds, Finish(r) \/ Watchdog(r)
    PROVE  Quiet
<1> USE DEF LifeInv, WorkInv, runVars, rowVars, origin, releaseVars, hostVars, envVars, settings, lockVars
<1>1. CASE WakePending \/ FinishNext(r)
  <2>1. /\ UNCHANGED <<stage, target, row, started, active, prev, kept, hostVars, needs, edits, worker,
                       holding>>
        /\ \A q \in RunIds :
              /\ status[q] # "none" => release'[q] = release[q]
              /\ stage[q] # "none" => version'[q] = version[q]
    BY <1>1, FreshRun DEF WakePending, FinishNext, NextRun, CreateJoin, TypeInv, TypeOK, RunTypes
  <2> QED
    BY <2>1 DEF Quiet
<1>2. CASE \E c \in Apps : FinishPrune(r, c)
  <2>1. UNCHANGED <<stage, target, release, version, row, started, active, prev, hostVars, needs, edits,
                    worker, holding>>
    BY <1>2 DEF FinishPrune
  <2> QED
    BY <1>2, <2>1 DEF Quiet
<1>3. CASE FinishBegin(r) \/ FinishLost(r) \/ PassDeadline(r) \/ FailStalled(r)
  <2>1. UNCHANGED <<stage, target, release, version, started, active, prev, kept, hostVars, edits, worker,
                    holding>>
    BY <1>3 DEF FinishBegin, FinishLost, PassDeadline, FailStalled
  <2>2. \A q \in RunIds, c \in Components : row'[q][c] = "finished" => row[q][c] = "finished"
    <3>1. CASE UNCHANGED row \/ \E s \in Statuses : FinishRun(r, s)
      BY <3>1, QuietRows
    <3>2. CASE row' = [row EXCEPT ![r] = [c \in Components |->
                          IF c \in Participants(r, stage[r], row) /\ @[c] = "deploying" THEN "failed"
                          ELSE @[c]]]
      BY <3>2 DEF TypeInv, TypeOK, RowTypes
    <3> QED
      BY <1>3, <3>1, <3>2 DEF FinishBegin, FinishLost, PassDeadline, FailStalled, Statuses
  <2>3. needs \subseteq needs'
    BY <1>3 DEF FinishBegin, FinishLost, PassDeadline, FailStalled, FinishRun
  <2> QED
    BY <2>1, <2>2, <2>3 DEF Quiet
<1> QED
  BY <1>1, <1>2, <1>3 DEF Finish, Watchdog

LEMMA StartKinds ==
    ASSUME LifeInv, NEW r \in RunIds, Start(r)
    PROVE  Quiet \/ Makes(r)
<1> USE DEF LifeInv, WorkInv, TypeInv, TypeOK, RunTypes, RowTypes
<1>0. UNCHANGED <<target, release, started, active, hostVars, edits, worker, holding>>
  BY DEF Start, StartCheck, StartFails, StartRun, StartStale, runVars, rowVars, origin, releaseVars,
         envVars, settings, lockVars
<1>1. CASE /\ UNCHANGED <<stage, prev, kept>>
           /\ version' = version \/ StartRun(r)
           /\ UNCHANGED <<row, needs>> \/ FinishRun(r, "failed")
  <2>1. \A q \in RunIds, c \in Components : row'[q][c] = "finished" => row[q][c] = "finished"
    BY <1>1, QuietRows DEF Statuses
  <2>2. \A q \in RunIds : stage[q] # "none" => version'[q] = version[q]
    BY <1>1 DEF StartRun, Startable
  <2>3. needs \subseteq needs'
    BY <1>1 DEF FinishRun
  <2> QED
    BY <1>0, <1>1, <2>1, <2>2, <2>3 DEF Quiet
<1>2. CASE StartRun(r) /\ Recruits(r) # {} /\ UNCHANGED <<status, needs>>
  <2> DEFINE new == Recruits(r)
             rows == [row EXCEPT ![r] = [c \in Components |-> IF c \notin new THEN "none"
                         ELSE IF c \in Apps THEN "deploying" ELSE "finished"]]
             first == IF target[r] # NoRun THEN "release" ELSE "clone"
  <2>1. /\ kept' = [kept EXCEPT ![r] = new \cap Apps]
        /\ prev' = [prev EXCEPT ![r] = [c \in Apps |-> IF c \in new THEN active[c] ELSE NoRun]]
        /\ Dispatch(r, first, FALSE, rows)
    BY <1>2 DEF StartRun
  <2>2. /\ Startable(r) /\ StartValid(r)
        /\ UNCHANGED <<join, settings, live>>
    BY <1>2 DEF StartRun, origin
  <2>3. /\ \A c \in Components : rows[r][c] = IF c \notin new THEN "none"
                                             ELSE IF c \in Apps THEN "deploying" ELSE "finished"
        /\ \A q \in RunIds : q # r => rows[q] = row[q]
        /\ rows \in [RunIds -> [Components -> RowStatuses]]
    BY DEF RowStatuses
  <2>4. \A q \in RunIds : q # r => version'[q] = version[q]
    BY <1>2 DEF StartRun
  <2> HIDE DEF rows, first
  <2>5. /\ stage'[r] = first
        /\ \A c \in Components :
              row'[r][c] = IF c \in Participants(r, first, rows) THEN "deploying" ELSE rows[r][c]
        /\ \A q \in RunIds : q # r => stage'[q] = stage[q] /\ row'[q] = row[q]
    BY <2>1, <2>3 DEF Dispatch
  <2>6. \A c \in Components : row'[r][c] # "none" <=> c \in new
    BY <2>3, <2>5 DEF Participants
  <2>7. \A c \in Apps : c \in new => row'[r][c] = "deploying"
    BY <2>3, <2>5 DEF Components
  <2>8. stage'[r] = IF target[r] # NoRun THEN "release" ELSE "clone"
    BY <2>5 DEF first
  <2>9. /\ kept'[r] = new \cap Apps
        /\ \A c \in Apps : prev'[r][c] = IF c \in new THEN active[c] ELSE NoRun
        /\ \A q \in RunIds : q # r => kept'[q] = kept[q] /\ prev'[q] = prev[q]
    BY <2>1
  <2> QED
    BY <1>0, <1>2, <2>2, <2>4, <2>5, <2>6, <2>7, <2>8, <2>9 DEF Makes
<1> QED
  BY <1>1, <1>2 DEF Start, StartCheck, StartFails, StartRun, StartStale, runVars, rowVars, origin,
                    releaseVars, envVars, settings

LEMMA StepKinds ==
    ASSUME LifeInv, [Next]_vars
    PROVE  Quiet \/ (\E c \in Components : Work(c)) \/ (\E r \in RunIds : Makes(r))
BY AsideIsQuiet, JobsAreQuiet, AdvanceIsQuiet, FinishIsQuiet, StartKinds DEF Next
-----------------------------------------------------------------------------
(* The rows of a run *)

\* A run that has not entered a stage has no rows yet.
Unstarted ==
    \A r \in RunIds : stage[r] = "none" /\ status[r] \in {"none", "pending", "running"} =>
        \A c \in Components : row[r][c] = "none"

\* Whatever refers to the deployment of an app by a run, the run made its row: a
\* release that is kept, the deployment to go back to, a release that began, the
\* marker of its env file, and the active deployment.
Rooted ==
    /\ \A r \in RunIds, c \in Apps :
        /\ c \in kept[r] => row[r][c] # "none"
        /\ prev[r][c] # NoRun => row[r][c] # "none" /\ row[prev[r][c]][c] # "none"
        /\ c \in started[r] => row[r][c] # "none"
        /\ c \in prepared[r] => c \in started[r] /\ target[r] = NoRun
    /\ \A c \in Apps : active[c] # NoRun => row[active[c]][c] # "none"
    /\ \A c \in Apps : worker[c] \in ReleaseSteps => c \in started[holding[c].run]

\* Only a release is recovered.
RecoversRelease == \A r \in RunIds : recovering[r] => stage[r] = "release"

RootRules == Unstarted /\ Rooted /\ RecoversRelease
RootInv == LiveInv /\ RootRules

\* A row is never unmade.
RowsGrow == \A r \in RunIds, c \in Components : row[r][c] # "none" => row'[r][c] # "none"

LEMMA RowsStay ==
    ASSUME LifeInv, Unstarted, Shaped
    PROVE  Unstarted' /\ RowsGrow
<1> USE DEF LifeInv, WorkInv
<1>1. CASE SettlesRows
  BY <1>1 DEF SettlesRows, Unstarted, RowsGrow
<1>2. ASSUME NEW r \in RunIds, Passes(r) \/ Asks(r) \/ Rejects(r) \/ Joins(r) \/ Promotes(r)
      PROVE  Unstarted' /\ RowsGrow
  <2>1. UNCHANGED <<stage, row>>
    BY <1>2 DEF Passes, Asks, Rejects, Joins, Promotes
  <2>2. \A q \in RunIds : status'[q] \in {"none", "pending", "running"} =>
            status[q] \in {"none", "pending", "running"}
    BY <1>2, FreshRun
       DEF Passes, Asks, Rejects, Joins, Promotes, OutOfDate, TypeInv, TypeOK, RunTypes
  <2> QED
    BY <2>1, <2>2 DEF Unstarted, RowsGrow
<1>3. ASSUME NEW r \in RunIds, NEW s \in Endings, Ends(r, s) PROVE Unstarted' /\ RowsGrow
  <2>1. /\ \A q \in RunIds : q # r => status'[q] = status[q] /\ row'[q] = row[q]
        /\ status'[r] = s /\ s \notin {"none", "pending", "running"}
    BY <1>3, EndsChanges DEF Endings
  <2>2. \A c \in Components : row'[r][c] \in {row[r][c], "failed"}
    BY <1>3 DEF Ends, FinishRun, TypeInv, TypeOK, RowTypes
  <2>3. UNCHANGED stage
    BY <1>3 DEF Ends
  <2> HIDE DEF LifeInv, WorkInv
  <2>4. Unstarted'
    BY <2>1, <2>3 DEF Unstarted
  <2>5. RowsGrow
    BY <2>1, <2>2 DEF RowsGrow
  <2> QED
    BY <2>4, <2>5
<1>4. ASSUME NEW r \in RunIds, NEW s \in Stages,
             NEW d \in [RunIds -> [Components -> RowStatuses]], Starts(r, s, d)
      PROVE  Unstarted' /\ RowsGrow
  <2>0. Dispatch(r, s, FALSE, d) /\ \A q \in RunIds : q # r => d[q] = row[q]
    BY <1>4 DEF Starts
  <2>1. /\ stage'[r] = s
        /\ \A q \in RunIds : q # r => stage'[q] = stage[q] /\ row'[q] = row[q]
    BY <2>0 DEF Dispatch, TypeInv, TypeOK, RunTypes
  <2>2. s # "none" /\ \A c \in Components : row[r][c] = "none"
    BY <1>4 DEF Starts, Unstarted, Stages
  <2>3. UNCHANGED status
    BY <1>4 DEF Starts
  <2> HIDE DEF LifeInv, WorkInv
  <2> QED
    BY <2>1, <2>2, <2>3 DEF Unstarted, RowsGrow
<1>5. ASSUME NEW r \in RunIds, NEW s \in Stages, NEW rec \in BOOLEAN, Moves(r, s, rec)
      PROVE  Unstarted' /\ RowsGrow
  <2>1. row \in [RunIds -> [Components -> RowStatuses]] /\ Dispatch(r, s, rec, row)
    BY <1>5 DEF Moves, TypeInv, TypeOK, RowTypes
  <2>2. /\ stage'[r] = s
        /\ \A q \in RunIds : q # r => stage'[q] = stage[q] /\ row'[q] = row[q]
        /\ \A c \in Components : row'[r][c] \in {row[r][c], "deploying"}
    BY <2>1, DispatchChanges
  <2>3. s # "none" /\ UNCHANGED status
    BY <1>5 DEF Moves, Stages
  <2> HIDE DEF LifeInv, WorkInv
  <2> QED
    BY <2>2, <2>3 DEF Unstarted, RowsGrow
<1> QED
  BY <1>1, <1>2, <1>3, <1>4, <1>5 DEF Shaped, RunStep

\* A component that is worked on in its release stage is an app with a row of a
\* run that runs, and nothing else than its own columns changes.
LEMMA ReleaseWork ==
    ASSUME LiveInv, NEW c \in Components, Working(c), holding[c].stage = "release"
    PROVE  /\ holding[c].run \in RunIds
           /\ status[holding[c].run] = "running"
           /\ stage[holding[c].run] = "release"
           /\ recovering[holding[c].run] = holding[c].rec
           /\ row[holding[c].run][c] = "deploying"
BY WorkNeedsDeployingRow DEF LiveInv, LiveRules, LifeInv, CancelledBefore, Awaited

\* Work on a component leaves the runs and every other component alone.
LEMMA WorkIsLocal ==
    ASSUME LifeInv, NEW c \in Components, Work(c)
    PROVE  /\ UNCHANGED <<status, stage, recovering, deadline, join, target, release, version, kept, prev,
                          live, edits, ready, stageJobs>>
           /\ \A b \in Components \ {c} :
                 worker'[b] = worker[b] /\ holding'[b] = holding[b]
           /\ \A r \in RunIds, b \in Components :
                 \/ row'[r][b] = row[r][b]
                 \/ b = c /\ CompleteStage(c) /\ r = holding[c].run /\ row'[r][b] = "finished"
           /\ \A b \in Apps \ {c} :
                 /\ active'[b] = active[b] /\ symlink'[b] = symlink[b] /\ served'[b] = served[b]
                 /\ b \in needs <=> b \in needs'
                 /\ \A r \in RunIds : /\ b \in started'[r] <=> b \in started[r]
                                      /\ b \in prepared'[r] <=> b \in prepared[r]
<1> USE DEF LifeInv, WorkInv, TypeInv, TypeOK, RunTypes, RowTypes, HostTypes, EnvTypes, LockTypes
<1>1. UNCHANGED <<status, stage, recovering, deadline, join, target, release, version, kept, prev, live,
                  edits, ready, stageJobs>>
  BY DEF Work, CloneRelease, BeginRelease, ReleaseEnv, SwitchRelease, ActivateRelease, RestoreRelease,
         RestoreActive, CompleteStage, runVars, rowVars, envVars, releaseVars, settings, jobVars, queued
<1>2. \A b \in Components \ {c} : worker'[b] = worker[b] /\ holding'[b] = holding[b]
  BY DEF Work, CloneRelease, BeginRelease, ReleaseEnv, SwitchRelease, ActivateRelease, RestoreRelease,
         RestoreActive, CompleteStage, WorkerMoves, FreeLock
<1>3. \A r \in RunIds, b \in Components :
          \/ row'[r][b] = row[r][b]
          \/ b = c /\ CompleteStage(c) /\ r = holding[c].run /\ row'[r][b] = "finished"
  <2>1. CASE UNCHANGED row
    BY <2>1
  <2>2. CASE CompleteStage(c)
    BY <2>2 DEF CompleteStage
  <2> QED
    BY <2>1, <2>2 DEF Work, CloneRelease, BeginRelease, ReleaseEnv, SwitchRelease, ActivateRelease,
         RestoreRelease, RestoreActive, rowVars
<1>4. \A b \in Apps \ {c} : active'[b] = active[b]
  BY DEF Work, CloneRelease, BeginRelease, ReleaseEnv, SwitchRelease, ActivateRelease, RestoreRelease,
         RestoreActive, CompleteStage, rowVars, releaseVars
<1>5. \A b \in Apps \ {c} : symlink'[b] = symlink[b] /\ served'[b] = served[b]
  BY DEF Work, CloneRelease, BeginRelease, ReleaseEnv, SwitchRelease, ActivateRelease, RestoreRelease,
         RestoreActive, CompleteStage, hostVars
<1>6. \A b \in Apps \ {c} : b \in needs <=> b \in needs'
  BY DEF Work, CloneRelease, BeginRelease, ReleaseEnv, SwitchRelease, ActivateRelease, RestoreRelease,
         RestoreActive, CompleteStage, NeedsAfterClone, envVars
<1>7. \A b \in Apps \ {c}, r \in RunIds : b \in started'[r] <=> b \in started[r]
  <2>1. UNCHANGED started \/ started' = [started EXCEPT ![holding[c].run] = @ \cup {c}]
    BY DEF Work, CloneRelease, BeginRelease, ReleaseEnv, SwitchRelease, ActivateRelease, RestoreRelease,
         RestoreActive, CompleteStage, rowVars, releaseVars
  <2>2. started \in [RunIds -> SUBSET Apps]
    OBVIOUS
  <2> HIDE DEF LifeInv, WorkInv
  <2>3. \A r \in RunIds : started'[r] = started[r] \/ started'[r] = started[r] \cup {c}
    BY <2>1, <2>2
  <2> QED
    BY <2>3
<1>8. \A b \in Apps \ {c}, r \in RunIds : b \in prepared'[r] <=> b \in prepared[r]
  <2>1. UNCHANGED prepared \/ prepared' = [prepared EXCEPT ![holding[c].run] = @ \cup {c}]
    BY DEF Work, CloneRelease, BeginRelease, ReleaseEnv, SwitchRelease, ActivateRelease, RestoreRelease,
           RestoreActive, CompleteStage, hostVars
  <2>2. prepared \in [RunIds -> SUBSET Apps]
    OBVIOUS
  <2> HIDE DEF LifeInv, WorkInv
  <2>3. \A r \in RunIds : prepared'[r] = prepared[r] \/ prepared'[r] = prepared[r] \cup {c}
    BY <2>1, <2>2
  <2> QED
    BY <2>3
<1> QED
  BY <1>1, <1>2, <1>3, <1>4, <1>5, <1>6, <1>7, <1>8

\* Pruning takes only rows of the component it is called for.
LEMMA PruneShrinks ==
    ASSUME TypeInv, NEW r \in RunIds, NEW c \in Apps, FinishPrune(r, c)
    PROVE  \A q \in RunIds : kept'[q] \subseteq kept[q]
BY DEF FinishPrune

LEMMA QuietKeepsRoots ==
    ASSUME RootInv, RowsGrow, Quiet
    PROVE  Rooted'
<1> USE DEF RootInv, RootRules, LiveInv, LifeInv, WorkInv
<1>0. /\ UNCHANGED <<started, active, prev, prepared>>
      /\ \A r \in RunIds : kept'[r] \subseteq kept[r]
      /\ \A c \in Components : worker'[c] \in ReleaseSteps => worker'[c] = worker[c] /\ holding'[c] = holding[c]
      /\ \A r \in RunIds : status[r] # "none" => target'[r] = target[r]
  BY PruneShrinks DEF Quiet, hostVars, Engaged
<1>1. \A r \in MaybeRun : r # NoRun => r \in RunIds
  BY RunNumbers
<1>2. \A r \in RunIds, c \in Apps : row[r][c] # "none" => row'[r][c] # "none"
  BY DEF RowsGrow, Components
<1>3. ASSUME NEW r \in RunIds, NEW c \in Apps, prev[r][c] # NoRun
      PROVE  row'[r][c] # "none" /\ row'[prev[r][c]][c] # "none"
  <2>1. prev[r][c] \in RunIds
    BY <1>1, <1>3 DEF TypeInv, TypeOK, RowTypes
  <2> QED
    BY <1>2, <1>3, <2>1 DEF Rooted
<1>4. ASSUME NEW c \in Apps, active[c] # NoRun PROVE row'[active[c]][c] # "none"
  <2>1. active[c] \in RunIds
    BY <1>1, <1>4 DEF TypeInv, TypeOK, RowTypes
  <2> QED
    BY <1>2, <1>4, <2>1 DEF Rooted
<1>5. ASSUME NEW r \in RunIds, NEW c \in Apps, c \in prepared[r]
      PROVE  c \in started[r] /\ target'[r] = NoRun
  <2>1. c \in started[r] /\ target[r] = NoRun
    BY <1>5 DEF Rooted
  <2>2. status[r] # "none"
    BY <2>1 DEF LiveRules, LiveReached, Reached
  <2> QED
    BY <1>0, <2>1, <2>2
<1>6. \A c \in Apps : worker'[c] \in ReleaseSteps => c \in started'[holding'[c].run]
  BY <1>0 DEF Rooted, Components
<1> QED
  BY <1>0, <1>2, <1>3, <1>4, <1>5, <1>6 DEF Rooted

LEMMA MakingKeepsRoots ==
    ASSUME RootInv, RowsGrow, NEW r \in RunIds, Makes(r)
    PROVE  Rooted'
<1> USE DEF RootInv, RootRules, LiveInv, LifeInv, WorkInv
<1>0. /\ UNCHANGED <<started, active, prepared, target, worker, holding>>
      /\ \A q \in RunIds : q # r => kept'[q] = kept[q] /\ prev'[q] = prev[q]
      /\ \A c \in Apps : row'[r][c] # "none" <=> c \in Recruits(r)
      /\ \A c \in Apps : c \in kept'[r] => c \in Recruits(r)
      /\ \A c \in Apps : prev'[r][c] = IF c \in Recruits(r) THEN active[c] ELSE NoRun
  BY DEF Makes, hostVars, Components
<1>1. \A q \in MaybeRun : q # NoRun => q \in RunIds
  BY RunNumbers
<1>2. \A q \in RunIds, c \in Apps : row[q][c] # "none" => row'[q][c] # "none"
  BY DEF RowsGrow, Components
<1>4. ASSUME NEW c \in Apps, active[c] # NoRun PROVE row'[active[c]][c] # "none"
  <2>1. active[c] \in RunIds
    BY <1>1, <1>4 DEF TypeInv, TypeOK, RowTypes
  <2> QED
    BY <1>2, <1>4, <2>1 DEF Rooted
<1>3. ASSUME NEW q \in RunIds, NEW c \in Apps, prev'[q][c] # NoRun
      PROVE  row'[q][c] # "none" /\ row'[prev'[q][c]][c] # "none"
  <2>1. CASE q = r
    BY <1>0, <1>3, <1>4, <2>1
  <2>2. CASE q # r
    <3>1. prev'[q][c] = prev[q][c] /\ prev[q][c] \in RunIds
      BY <1>0, <1>1, <1>3, <2>2 DEF TypeInv, TypeOK, RowTypes
    <3> QED
      BY <1>2, <1>3, <3>1 DEF Rooted
  <2> QED
    BY <2>1, <2>2
<1>5. \A q \in RunIds, c \in Apps : c \in kept'[q] => row'[q][c] # "none"
  BY <1>0, <1>2 DEF Rooted
<1> HIDE DEF RootInv, RootRules, LiveInv, LifeInv, WorkInv
<1>6. Rooted
  BY DEF RootInv, RootRules
<1> QED
  BY <1>0, <1>2, <1>3, <1>4, <1>5, <1>6 DEF Rooted

LEMMA WorkKeepsRoots ==
    ASSUME RootInv, RowsGrow, NEW c \in Components, Work(c)
    PROVE  Rooted'
<1> USE DEF RootInv, RootRules, LiveInv, LifeInv, WorkInv
<1> DEFINE h == holding[c].run
<1>0. UNCHANGED <<target, kept, prev>>
  BY WorkIsLocal
<1>1. \A q \in MaybeRun : q # NoRun => q \in RunIds
  BY RunNumbers
<1>2. \A q \in RunIds, b \in Apps : row[q][b] # "none" => row'[q][b] # "none"
  BY DEF RowsGrow, Components
<1>3. ASSUME NEW q \in RunIds, NEW b \in Apps, prev[q][b] # NoRun
      PROVE  row'[q][b] # "none" /\ row'[prev[q][b]][b] # "none"
  <2>1. prev[q][b] \in RunIds
    BY <1>1, <1>3 DEF TypeInv, TypeOK, RowTypes
  <2> QED
    BY <1>2, <1>3, <2>1 DEF Rooted
<1>4. worker[c] \in ReleaseSteps \/ BeginRelease(c) =>
          c \in Apps /\ h \in RunIds /\ row[h][c] # "none"
  <2>1. worker[c] \in ReleaseSteps \/ BeginRelease(c) =>
            c \in Apps /\ Working(c) /\ holding[c].stage = "release"
    BY DEF BeginRelease, At, Working, ReleaseSteps, TypeInv, HoldsJob, LiveRules, ReleasingInRelease
  <2> QED
    BY <2>1, ReleaseWork
<1>5. /\ \A b \in Apps \ {c} :
            /\ active'[b] = active[b] /\ worker'[b] = worker[b] /\ holding'[b] = holding[b]
            /\ \A q \in RunIds : /\ b \in started'[q] <=> b \in started[q]
                                 /\ b \in prepared'[q] <=> b \in prepared[q]
      /\ \A q \in RunIds : started[q] \subseteq started'[q]
  <2>1. UNCHANGED started \/ started' = [started EXCEPT ![h] = @ \cup {c}]
    BY DEF Work, CloneRelease, BeginRelease, ReleaseEnv, SwitchRelease, ActivateRelease, RestoreRelease,
           RestoreActive, CompleteStage, rowVars, releaseVars
  <2>2. \A q \in RunIds : started[q] \subseteq started'[q]
    BY <2>1 DEF TypeInv, TypeOK, RowTypes
  <2> QED
    BY <2>2, WorkIsLocal DEF Components
<1>6. ASSUME NEW q \in RunIds, c \in Apps, c \in started'[q] PROVE row'[q][c] # "none"
  <2>1. c \in started[q] \/ (BeginRelease(c) /\ q = h)
    BY <1>6 DEF Work, CloneRelease, BeginRelease, ReleaseEnv, SwitchRelease, ActivateRelease,
           RestoreRelease, RestoreActive, CompleteStage, rowVars, releaseVars, TypeInv, TypeOK, RowTypes
  <2> QED
    BY <1>2, <1>4, <1>6, <2>1 DEF Rooted
<1>7. ASSUME NEW q \in RunIds, c \in Apps, c \in prepared'[q]
      PROVE  c \in started'[q] /\ target[q] = NoRun
  <2>1. c \in prepared[q] \/ (worker[c] = "started" /\ q = h /\ target[q] = NoRun)
    BY <1>7 DEF Work, CloneRelease, BeginRelease, ReleaseEnv, SwitchRelease, ActivateRelease,
           RestoreRelease, RestoreActive, CompleteStage, hostVars, TypeInv, TypeOK, HostTypes
  <2> QED
    BY <1>5, <1>7, <2>1 DEF Rooted, ReleaseSteps
<1>8. ASSUME c \in Apps, active'[c] # NoRun PROVE row'[active'[c]][c] # "none"
  <2>1. \/ active'[c] = active[c]
        \/ ActivateRelease(c) /\ active'[c] = h
        \/ RestoreActive(c) /\ active'[c] \in {prev[h][c], active[c], NoRun}
    BY <1>8 DEF Work, CloneRelease, BeginRelease, ReleaseEnv, SwitchRelease, ActivateRelease,
           RestoreRelease, RestoreActive, CompleteStage, rowVars, releaseVars, TypeInv, TypeOK, RowTypes
  <2>2. CASE active'[c] = active[c]
    <3>1. active[c] \in RunIds
      BY <1>1, <1>8, <2>2 DEF TypeInv, TypeOK, RowTypes
    <3> QED
      BY <1>2, <1>8, <2>2, <3>1 DEF Rooted
  <2>3. CASE ActivateRelease(c) /\ active'[c] = h
    BY <1>2, <1>4, <1>8, <2>3 DEF ActivateRelease, ReleaseSteps
  <2>4. CASE RestoreActive(c) /\ active'[c] = prev[h][c]
    BY <1>3, <1>4, <1>8, <2>4 DEF RestoreActive, ReleaseSteps
  <2> QED
    BY <1>8, <2>1, <2>2, <2>3, <2>4
<1>9. ASSUME c \in Apps, worker'[c] \in ReleaseSteps PROVE c \in started'[holding'[c].run]
  <2>1. /\ holding' = holding
        /\ \/ BeginRelease(c)
           \/ worker[c] \in ReleaseSteps
           \/ RestoreRelease(c) /\ c \in started[h]
    BY <1>9 DEF Work, CloneRelease, BeginRelease, ReleaseEnv, SwitchRelease, ActivateRelease,
           RestoreRelease, RestoreActive, CompleteStage, WorkerMoves, FreeLock, ReleaseSteps, TypeInv,
           TypeOK, LockTypes
  <2>2. CASE BeginRelease(c)
    <3>1. started' = [started EXCEPT ![h] = @ \cup {c}] /\ h \in RunIds
      BY <1>4, <2>2 DEF BeginRelease
    <3>2. started \in [RunIds -> SUBSET Apps]
      BY DEF TypeInv, TypeOK, RowTypes
    <3> QED
      BY <2>1, <3>1, <3>2
  <2>3. CASE worker[c] \in ReleaseSteps \/ (RestoreRelease(c) /\ c \in started[h])
    <3>1. c \in started[h]
      BY <1>9, <2>3 DEF Rooted
    <3>2. h \in RunIds
      BY <2>3, WorkNeedsDeployingRow DEF RestoreRelease, At, Working, ReleaseSteps
    <3> QED
      BY <1>5, <2>1, <3>1, <3>2
  <2> QED
    BY <2>1, <2>2, <2>3
<1> HIDE DEF RootInv, RootRules, LiveInv, LifeInv, WorkInv, h
<1>10. Rooted
  BY DEF RootInv, RootRules
<1>11. \A q \in RunIds, b \in Apps :
          /\ b \in kept'[q] => row'[q][b] # "none"
          /\ prev'[q][b] # NoRun => row'[q][b] # "none" /\ row'[prev'[q][b]][b] # "none"
  BY <1>0, <1>2, <1>3, <1>10 DEF Rooted
<1>12. \A q \in RunIds, b \in Apps :
          /\ b \in started'[q] => row'[q][b] # "none"
          /\ b \in prepared'[q] => b \in started'[q] /\ target'[q] = NoRun
  BY <1>0, <1>2, <1>5, <1>6, <1>7, <1>10 DEF Rooted
<1>13. \A b \in Apps : active'[b] # NoRun => row'[active'[b]][b] # "none"
  <2> SUFFICES ASSUME NEW b \in Apps, b # c, active[b] # NoRun PROVE row'[active[b]][b] # "none"
    BY <1>5, <1>8
  <2>1. active[b] \in RunIds
    BY <1>1 DEF RootInv, LiveInv, LifeInv, WorkInv, TypeInv, TypeOK, RowTypes
  <2> QED
    BY <1>2, <1>10, <2>1 DEF Rooted
<1>14. \A b \in Apps : worker'[b] \in ReleaseSteps => b \in started'[holding'[b].run]
  <2> SUFFICES ASSUME NEW b \in Apps, b # c, worker[b] \in ReleaseSteps
               PROVE  b \in started'[holding[b].run]
    BY <1>5, <1>9
  <2>1. holding[b].run \in RunIds /\ b \in started[holding[b].run]
    BY <1>10, WorkNeedsDeployingRow
       DEF Rooted, ReleaseSteps, Working, Components, RootInv, LiveInv, LifeInv
  <2> QED
    BY <1>5, <2>1
<1> QED
  BY <1>11, <1>12, <1>13, <1>14 DEF Rooted

LEMMA RecoversReleaseStays ==
    ASSUME RootInv, Shaped
    PROVE  RecoversRelease'
<1> USE DEF RootInv, RootRules, LiveInv, LifeInv, WorkInv
<1>1. CASE UNCHANGED <<stage, recovering>>
  BY <1>1 DEF RecoversRelease
<1>2. ASSUME NEW r \in RunIds, NEW s \in Stages,
             NEW d \in [RunIds -> [Components -> RowStatuses]], Starts(r, s, d)
      PROVE  RecoversRelease'
  <2>1. Dispatch(r, s, FALSE, d)
    BY <1>2 DEF Starts
  <2>2. /\ recovering'[r] = FALSE
        /\ \A q \in RunIds : q # r => stage'[q] = stage[q] /\ recovering'[q] = recovering[q]
    BY <2>1 DEF Dispatch, TypeInv, TypeOK, RunTypes
  <2> QED
    BY <2>2 DEF RecoversRelease
<1>3. ASSUME NEW r \in RunIds, NEW s \in Stages, NEW rec \in BOOLEAN, Moves(r, s, rec)
      PROVE  RecoversRelease'
  <2>1. row \in [RunIds -> [Components -> RowStatuses]] /\ Dispatch(r, s, rec, row)
    BY <1>3 DEF Moves, TypeInv, TypeOK, RowTypes
  <2>2. /\ stage'[r] = s /\ recovering'[r] = rec
        /\ \A q \in RunIds : q # r => stage'[q] = stage[q] /\ recovering'[q] = recovering[q]
    BY <2>1, DispatchChanges
  <2>3. rec => s = "release"
    BY <1>3 DEF Moves, RecoversRelease
  <2> QED
    BY <2>2, <2>3 DEF RecoversRelease
<1> QED
  BY <1>1, <1>2, <1>3
     DEF Shaped, RunStep, SettlesRows, Passes, Asks, Rejects, Joins, Promotes, Ends

LEMMA RootStep == RootInv /\ [Next]_vars => RootRules'
<1> SUFFICES ASSUME RootInv, [Next]_vars PROVE RootRules'
  OBVIOUS
<1>1. Shaped /\ LifeInv
  BY StepIsShaped DEF RootInv, LiveInv, LifeInv
<1>2. Unstarted' /\ RowsGrow
  BY <1>1, RowsStay DEF RootInv, RootRules
<1>3. Rooted'
  BY <1>1, <1>2, StepKinds, QuietKeepsRoots, MakingKeepsRoots, WorkKeepsRoots
<1> QED
  BY <1>1, <1>2, <1>3, RecoversReleaseStays DEF RootRules

LEMMA RootInit == Init => RootInv
<1> SUFFICES ASSUME Init PROVE RootInv
  OBVIOUS
<1>1. Unstarted /\ RecoversRelease
  BY DEF Init, Unstarted, RecoversRelease
<1>2. \A c \in Apps : worker[c] \notin ReleaseSteps
  BY DEF Init, ReleaseSteps, Components
<1>3. Rooted
  BY <1>2 DEF Init, Rooted
<1> QED
  BY <1>1, <1>3, LiveInit DEF RootInv, RootRules
-----------------------------------------------------------------------------
(* What becomes of the rows of a run that runs *)

\* A run of whose rows one was there before either stays in its stage or moves.
LEMMA RunsGoOn ==
    ASSUME RootInv, Shaped, NEW r \in RunIds, NEW c \in Components,
           status'[r] = "running", row[r][c] # "none"
    PROVE  /\ status[r] = "running"
           /\ stage[r] # "none"
           /\ \/ stage'[r] = stage[r] /\ recovering'[r] = recovering[r]
              \/ \E s \in Stages, rec \in BOOLEAN : Moves(r, s, rec)
<1> DEFINE Goal == \/ stage'[r] = stage[r] /\ recovering'[r] = recovering[r]
                   \/ \E s \in Stages, rec \in BOOLEAN : Moves(r, s, rec)
<1>1. ~ (stage[r] = "none" /\ status[r] \in {"none", "pending", "running"})
  BY DEF RootInv, RootRules, Unstarted
<1>2. status[r] \notin {"none", "pending"}
  BY <1>1 DEF RootInv, LiveInv, LifeInv, LifeRules, WaitsUntouched
<1>3. CASE SettlesRows
  BY <1>1, <1>3 DEF SettlesRows
<1>4. ASSUME NEW q \in RunIds, Passes(q) \/ Asks(q) \/ Rejects(q) \/ Joins(q) \/ Promotes(q)
      PROVE  status[r] = "running" /\ Goal
  <2>1. UNCHANGED <<stage, recovering>>
    BY <1>4 DEF Passes, Asks, Rejects, Joins, Promotes
  <2>2. q = r => Passes(q)
    BY <1>2, <1>4 DEF Asks, Rejects, Joins, Promotes, Fresh
  <2>3. status'[r] = status[r] \/ (Asks(q) /\ q # r)
    BY <1>4, <2>2 DEF Passes, Rejects, Joins, Promotes, RootInv, LiveInv, LifeInv, WorkInv, TypeInv,
                      TypeOK, RunTypes
  <2>4. Asks(q) /\ q # r => status[r] = "running"
    BY DEF Asks, OutOfDate
  <2> QED
    BY <2>1, <2>3, <2>4
<1>5. ASSUME NEW q \in RunIds, NEW s \in Endings, Ends(q, s) PROVE status[r] = "running" /\ Goal
  <2>1. q # r /\ status'[r] = status[r]
    BY <1>5, EndsChanges DEF Endings, RootInv, LiveInv
  <2> QED
    BY <1>5, <2>1 DEF Ends
<1>6. ASSUME NEW q \in RunIds, NEW s \in Stages,
             NEW d \in [RunIds -> [Components -> RowStatuses]], Starts(q, s, d)
      PROVE  status[r] = "running" /\ Goal
  <2>1. Dispatch(q, s, FALSE, d) /\ UNCHANGED status /\ q # r
    BY <1>1, <1>6 DEF Starts
  <2>2. stage'[r] = stage[r] /\ recovering'[r] = recovering[r]
    BY <2>1 DEF Dispatch, RootInv, LiveInv, LifeInv, WorkInv, TypeInv, TypeOK, RunTypes
  <2> QED
    BY <2>1, <2>2
<1>7. ASSUME NEW q \in RunIds, NEW s \in Stages, NEW rec \in BOOLEAN, Moves(q, s, rec)
      PROVE  status[r] = "running" /\ Goal
  <2>1. Dispatch(q, s, rec, row) /\ UNCHANGED status
    BY <1>7 DEF Moves
  <2>2. q # r => stage'[r] = stage[r] /\ recovering'[r] = recovering[r]
    BY <2>1 DEF Dispatch, RootInv, LiveInv, LifeInv, WorkInv, TypeInv, TypeOK, RunTypes
  <2> QED
    BY <1>7, <2>1, <2>2
<1> QED
  BY <1>1, <1>3, <1>4, <1>5, <1>6, <1>7 DEF Shaped, RunStep

\* A run that runs gets a row when it enters its first stage, and only then.
LEMMA RowsAreMadeFirst ==
    ASSUME RootInv, Shaped, NEW r \in RunIds, NEW c \in Components,
           status'[r] = "running", row[r][c] = "none", row'[r][c] # "none"
    PROVE  stage[r] = "none" /\ stage'[r] # "none"
<1>1. row'[r] # row[r]
  OBVIOUS
<1>2. ~ SettlesRows
  BY DEF SettlesRows
<1>3. ASSUME NEW q \in RunIds, NEW s \in Endings, Ends(q, s) PROVE FALSE
  BY <1>1, <1>3, EndsChanges DEF Endings, RootInv, LiveInv
<1>4. ASSUME NEW q \in RunIds, NEW s \in Stages,
             NEW d \in [RunIds -> [Components -> RowStatuses]], Starts(q, s, d)
      PROVE  stage[r] = "none" /\ stage'[r] # "none"
  <2>1. Dispatch(q, s, FALSE, d) /\ stage[q] = "none" /\ (q # r => d[r] = row[r])
    BY <1>4 DEF Starts
  <2>2. q # r => row'[r] = d[r]
    BY <2>1 DEF Dispatch
  <2>3. stage'[q] = s /\ s # "none"
    BY <2>1 DEF Dispatch, RootInv, LiveInv, LifeInv, WorkInv, TypeInv, TypeOK, RunTypes, Stages
  <2> QED
    BY <1>1, <2>1, <2>2, <2>3
<1>5. ASSUME NEW q \in RunIds, NEW s \in Stages, NEW rec \in BOOLEAN, Moves(q, s, rec) PROVE FALSE
  <2>1. Dispatch(q, s, rec, row)
    BY <1>5 DEF Moves
  <2>2. q = r /\ c \in Participants(r, s, row)
    BY <1>1, <2>1 DEF Dispatch, RootInv, LiveInv, LifeInv, WorkInv, TypeInv, TypeOK, RowTypes
  <2> QED
    BY <2>2 DEF Participants
<1> QED
  BY <1>1, <1>2, <1>3, <1>4, <1>5
     DEF Shaped, RunStep, Passes, Asks, Rejects, Joins, Promotes

\* A run that stops running ends.
LEMMA RunningEnds ==
    ASSUME LifeInv, Shaped, NEW r \in RunIds, status[r] = "running", status'[r] # "running"
    PROVE  \E s \in Endings : Ends(r, s)
<1>1. ASSUME NEW q \in RunIds, Passes(q) \/ Asks(q) \/ Rejects(q) \/ Joins(q) \/ Promotes(q)
      PROVE  FALSE
  <2>1. ~ Fresh(r) /\ status[r] # "pending"
    BY DEF Fresh
  <2>2. ~ Asks(q)
    BY <2>1 DEF Asks, OutOfDate
  <2> QED
    BY <1>1, <2>1, <2>2
       DEF Passes, Rejects, Joins, Promotes, LifeInv, WorkInv, TypeInv, TypeOK, RunTypes
<1>2. ASSUME NEW q \in RunIds, NEW s \in Endings, Ends(q, s) PROVE q = r
  BY <1>2, EndsChanges
<1> QED
  BY <1>1, <1>2 DEF Shaped, RunStep, SettlesRows, Starts, Moves
-----------------------------------------------------------------------------
(* Symlink and active deployment of an app *)

Link(r) == IF r = NoRun THEN NoRun ELSE release[r]

\* An earlier recovery failed on the app, and nothing has put it right since.
Astray(c) == \E q \in RunIds : c \in started[q] /\ status[q] = "partial"

\* The app is as run r found it, or serves the release of run r.
Restored(r, c) == active[c] = prev[r][c] /\ symlink[c] = Link(prev[r][c])
Released(r, c) == active[c] = r /\ symlink[c] = release[r]

\* Run r may have switched the app, so its recovery puts the symlink back.
Switchable(r, c) == c \in prepared[r] \/ (c \in started[r] /\ target[r] # NoRun)

\* How far a worker has come, and what the app serves by then.
WorkerRule(c) ==
    LET r == holding[c].run
    IN  /\ worker[c] \in {"started", "prepared", "switched"} => ~ holding[c].rec
        /\ worker[c] = "restored" => holding[c].rec
        /\ worker[c] \in {"prepared", "switched"} => Switchable(r, c)
        /\ worker[c] = "switched" => symlink[c] = release[r]
        /\ worker[c] = "restored" => Astray(c) \/ symlink[c] = Link(prev[r][c])
        /\ worker[c] = "done" /\ holding[c].stage = "release" =>
              IF holding[c].rec THEN Astray(c) \/ Restored(r, c) ELSE Released(r, c)

\* What an app serves while a run that runs has a row of it.
RunRule(r, c) ==
    status[r] = "running" /\ row[r][c] # "none" =>
        /\ active[c] \in {r, prev[r][c]}
        /\ Switchable(r, c) \/ Astray(c) \/ Restored(r, c)
        /\ stage[r] = "release" /\ row[r][c] = "finished" =>
              IF recovering[r] THEN Astray(c) \/ Restored(r, c) ELSE Released(r, c)
        /\ stage[r] = "post-release" => Released(r, c)

LinkRule(c) == Unsettled(c) \/ symlink[c] = Link(active[c])

ReleaseRules ==
    \A c \in Apps : WorkerRule(c) /\ LinkRule(c) /\ \A r \in RunIds : RunRule(r, c)
ReleaseInv == RootInv /\ ReleaseRules

\* Nothing happens to an app on its server, nor to what its runs recorded.
Untouched(c) ==
    /\ active'[c] = active[c] /\ symlink'[c] = symlink[c]
    /\ worker'[c] \in Engaged => worker'[c] = worker[c] /\ holding'[c] = holding[c]
    /\ \A r \in RunIds :
        /\ c \in started'[r] <=> c \in started[r]
        /\ c \in prepared'[r] <=> c \in prepared[r]
        /\ row'[r][c] = "finished" => row[r][c] = "finished"
        /\ row[r][c] # "none" => prev'[r][c] = prev[r][c]
        /\ status[r] # "none" => target'[r] = target[r] /\ release'[r] = release[r]

\* A run with rows, or that something refers to, has been requested.
LEMMA RowsAreOfRequests ==
    ASSUME RootInv
    PROVE  /\ \A r \in RunIds, c \in Components : row[r][c] # "none" => status[r] # "none"
           /\ \A c \in Apps : active[c] # NoRun => active[c] \in RunIds /\ status[active[c]] # "none"
           /\ \A r \in RunIds, c \in Apps :
                 prev[r][c] # NoRun => prev[r][c] \in RunIds /\ status[prev[r][c]] # "none"
<1> USE DEF RootInv, LiveInv
<1>1. \A r \in RunIds, c \in Components : row[r][c] # "none" => status[r] # "none"
  BY DEF RootRules, Unstarted, LifeInv, LifeRules, WaitsUntouched
<1>2. \A r \in MaybeRun : r # NoRun => r \in RunIds
  BY RunNumbers
<1>3. active \in [Apps -> MaybeRun] /\ prev \in [RunIds -> [Apps -> MaybeRun]]
  BY DEF LifeInv, WorkInv, TypeInv, TypeOK, RowTypes
<1> QED
  BY <1>1, <1>2, <1>3 DEF LiveRules, LiveReached, Reached

LEMMA UntouchedServes ==
    ASSUME RootInv, EndStep, NEW c \in Apps, Untouched(c)
    PROVE  /\ Link(active[c])' = Link(active[c])
           /\ Astray(c) => Astray(c)'
           /\ \A r \in RunIds : row[r][c] # "none" =>
                 /\ Link(prev[r][c])' = Link(prev[r][c])
                 /\ Released(r, c) => Released(r, c)'
                 /\ Restored(r, c) => Restored(r, c)'
                 /\ Switchable(r, c) <=> Switchable(r, c)'
<1>1. Link(active[c])' = Link(active[c])
  BY RowsAreOfRequests DEF Untouched, Link
<1>2. Astray(c) => Astray(c)'
  BY DEF Untouched, Astray, EndStep, Terminal, Occupying
<1>3. ASSUME NEW r \in RunIds, row[r][c] # "none"
      PROVE  /\ Link(prev[r][c])' = Link(prev[r][c])
             /\ Released(r, c) => Released(r, c)'
             /\ Restored(r, c) => Restored(r, c)'
             /\ Switchable(r, c) <=> Switchable(r, c)'
  <2>1. status[r] # "none"
    BY <1>3, RowsAreOfRequests DEF Components
  <2>2. Link(prev[r][c])' = Link(prev[r][c])
    BY <1>3, RowsAreOfRequests DEF Untouched, Link
  <2> QED
    BY <1>3, <2>1, <2>2 DEF Untouched, Released, Restored, Switchable
<1> QED
  BY <1>1, <1>2, <1>3

LEMMA UntouchedWorker ==
    ASSUME ReleaseInv, EndStep, NEW c \in Apps, Untouched(c)
    PROVE  WorkerRule(c)'
<1>1. CASE worker'[c] \notin Engaged
  BY <1>1 DEF WorkerRule, Engaged, ReleaseSteps
<1>2. CASE worker'[c] \in Engaged
  <2>1. worker'[c] = worker[c] /\ holding'[c] = holding[c] /\ c \in Components /\ Working(c)
    BY <1>2 DEF Untouched, Engaged, ReleaseSteps, Working, Components
  <2>2. PICK r \in RunIds : r = holding[c].run /\ row[r][c] # "none"
    BY <2>1, WorkNeedsDeployingRow DEF ReleaseInv, RootInv, LiveInv, LifeInv
  <2>3. release'[r] = release[r] /\ symlink'[c] = symlink[c]
    BY <2>1, <2>2, RowsAreOfRequests DEF Untouched, ReleaseInv
  <2>4. /\ Astray(c) => Astray(c)'
        /\ Link(prev[r][c])' = Link(prev[r][c])
        /\ Released(r, c) => Released(r, c)'
        /\ Restored(r, c) => Restored(r, c)'
        /\ Switchable(r, c) <=> Switchable(r, c)'
    BY <2>2, UntouchedServes DEF ReleaseInv
  <2>5. WorkerRule(c)
    BY DEF ReleaseInv, ReleaseRules
  <2>6. holding[c].run = r /\ holding'[c].run = r
    BY <2>1, <2>2
  <2> QED
    BY <2>1, <2>3, <2>4, <2>5, <2>6 DEF WorkerRule, Link, Restored, Released, Switchable
<1> QED
  BY <1>1, <1>2

\* The next stage of a run, and its recovery: entering the release stage makes
\* every app deploy again, and leaving it for the next needs all of them released.
LEMMA MovingRun ==
    ASSUME ReleaseInv, NEW r \in RunIds, NEW s \in Stages, NEW rec \in BOOLEAN, Moves(r, s, rec),
           NEW c \in Apps, row[r][c] # "none"
    PROVE  /\ stage'[r] = s
           /\ s = "release" => row'[r][c] = "deploying"
           /\ s = "post-release" => Released(r, c)
<1> USE DEF ReleaseInv, RootInv, LiveInv, LifeInv, WorkInv
<1>1. /\ stage'[r] = s
      /\ \A b \in Components :
            row'[r][b] = IF b \in Participants(r, s, row) THEN "deploying" ELSE row[r][b]
  <2>1. Dispatch(r, s, rec, row)
    BY DEF Moves
  <2> QED
    BY <2>1 DEF Dispatch, TypeInv, TypeOK, RunTypes, RowTypes
<1>2. c \in Components /\ c \notin Balancers
  BY ComponentsAssumption DEF Components
<1>3. s = "release" => row'[r][c] = "deploying"
  BY <1>1, <1>2 DEF Participants
<1>4. ASSUME s = "post-release" PROVE Released(r, c)
  <2>1. /\ stage[r] = "release" /\ ~ recovering[r]
        /\ \A b \in Participants(r, stage[r], row) : row[r][b] # "failed"
        /\ NothingDeploys(r)
    BY <1>4 DEF Moves, NextStage, Stages
  <2>2. c \in Participants(r, stage[r], row)
    BY <1>2, <2>1 DEF Participants
  <2>3. row[r][c] \in RowStatuses
    BY <1>2 DEF TypeInv, TypeOK, RowTypes
  <2>4. row[r][c] = "finished"
    BY <1>2, <2>1, <2>2, <2>3 DEF NothingDeploys, RowStatuses
  <2>5. status[r] = "running"
    BY DEF Moves
  <2> QED
    BY <2>1, <2>4, <2>5 DEF ReleaseRules, RunRule
<1> QED
  BY <1>1, <1>3, <1>4

\* The rows that start() makes find each app as its link rule says.
LEMMA MadeRun ==
    ASSUME ReleaseInv, OneActiveRun, EndStep, NEW r \in RunIds, Makes(r), NEW c \in Apps, Untouched(c),
           row'[r][c] # "none"
    PROVE  /\ active'[c] = prev'[r][c]
           /\ Astray(c)' \/ Restored(r, c)'
           /\ row'[r][c] = "deploying" /\ stage'[r] # "post-release"
<1> USE DEF ReleaseInv, RootInv
<1>1. /\ c \in Recruits(r)
      /\ prev'[r][c] = active[c] /\ active'[c] = active[c] /\ symlink'[c] = symlink[c]
      /\ row'[r][c] = "deploying" /\ stage'[r] # "post-release"
  BY DEF Makes, Untouched, Components
<1>2. status[r] = "running" /\ stage[r] = "none"
  BY DEF Makes, Startable
<1>3. c \notin started[r]
  BY <1>2 DEF RootRules, Unstarted, Rooted, Components
<1>4. ASSUME ~ Astray(c) PROVE symlink[c] = Link(active[c])
  <2>1. \A q \in RunIds : status[q] = "running" => q = r
    BY <1>2 DEF OneActiveRun, Occupying
  <2>2. ~ Unsettled(c)
    BY <1>3, <1>4, <2>1 DEF Unsettled, Astray
  <2> QED
    BY <2>2 DEF ReleaseRules, LinkRule
<1>5. Astray(c) => Astray(c)'
  BY UntouchedServes
<1>6. Link(active[c])' = Link(active[c])
  BY UntouchedServes
<1>7. Link(prev[r][c])' = Link(active[c])'
  BY <1>1 DEF Link
<1> QED
  BY <1>1, <1>4, <1>5, <1>6, <1>7 DEF Restored

LEMMA UntouchedRun ==
    ASSUME ReleaseInv, OneActiveRun, EndStep, Shaped, NEW c \in Apps, Untouched(c), NEW r \in RunIds,
           Makes(r) \/ (stage[r] = "none" => stage'[r] = "none")
    PROVE  RunRule(r, c)'
<1> SUFFICES ASSUME status'[r] = "running", row'[r][c] # "none"
             PROVE  /\ active'[c] \in {r, prev'[r][c]}
                    /\ Switchable(r, c)' \/ Astray(c)' \/ Restored(r, c)'
                    /\ stage'[r] = "release" /\ row'[r][c] = "finished" =>
                          IF recovering'[r] THEN Astray(c)' \/ Restored(r, c)' ELSE Released(r, c)'
                    /\ stage'[r] = "post-release" => Released(r, c)'
  BY DEF RunRule
<1>0. c \in Components
  BY DEF Components
<1>1. CASE row[r][c] = "none"
  <2>1. Makes(r)
    BY <1>0, <1>1, RowsAreMadeFirst DEF ReleaseInv
  <2> QED
    BY <2>1, MadeRun
<1>2. CASE row[r][c] # "none"
  <2>1. /\ status[r] = "running"
        /\ \/ stage'[r] = stage[r] /\ recovering'[r] = recovering[r]
           \/ \E s \in Stages, rec \in BOOLEAN : Moves(r, s, rec)
    BY <1>0, <1>2, RunsGoOn DEF ReleaseInv
  <2>2. /\ Astray(c) => Astray(c)'
        /\ Released(r, c) => Released(r, c)'
        /\ Restored(r, c) => Restored(r, c)'
        /\ Switchable(r, c) <=> Switchable(r, c)'
    BY <1>2, UntouchedServes DEF ReleaseInv
  <2>3. /\ active'[c] = active[c] /\ prev'[r][c] = prev[r][c]
        /\ row'[r][c] = "finished" => row[r][c] = "finished"
    BY <1>2 DEF Untouched
  <2>4. RunRule(r, c)
    BY DEF ReleaseInv, ReleaseRules
  <2>5. /\ active'[c] \in {r, prev'[r][c]}
        /\ Switchable(r, c)' \/ Astray(c)' \/ Restored(r, c)'
    BY <1>2, <2>1, <2>2, <2>3, <2>4 DEF RunRule
  <2>6. CASE stage'[r] = stage[r] /\ recovering'[r] = recovering[r]
    BY <1>2, <2>1, <2>2, <2>3, <2>4, <2>5, <2>6 DEF RunRule
  <2>7. ASSUME NEW s \in Stages, NEW rec \in BOOLEAN, Moves(r, s, rec)
        PROVE  /\ ~ (stage'[r] = "release" /\ row'[r][c] = "finished")
               /\ stage'[r] = "post-release" => Released(r, c)'
    BY <1>2, <2>2, <2>7, MovingRun
  <2> QED
    BY <2>1, <2>5, <2>6, <2>7
<1> QED
  BY <1>1, <1>2

\* A run leaves an app settled however it ends, but for a recovery that failed.
LEMMA EndingSettles ==
    ASSUME ReleaseInv, LiveInv', NEW r \in RunIds, NEW s \in Endings, Ends(r, s),
           NEW c \in Apps, c \in started[r], c \in started'[r], s # "partial", ~ Astray(c)
    PROVE  symlink[c] = Link(active[c])
<1> USE DEF ReleaseInv, RootInv
<1>1. status'[r] = s /\ stage' = stage
  BY EndsChanges DEF Ends, LiveInv
<1>2. Reached(r) /\ Reached(r)'
  BY DEF LiveInv, LiveRules, LiveReached
<1>3. s # "cancelled" /\ status[r] = "running" /\ stage[r] \in {"release", "post-release"}
  BY <1>1, <1>2 DEF Reached, Ends, Occupying
<1>4. row[r][c] # "none" /\ c \in Components /\ c \notin Balancers
  BY ComponentsAssumption DEF RootRules, Rooted, Components
<1>5. RunRule(r, c)
  BY DEF ReleaseRules
<1>6. CASE stage[r] = "post-release"
  <2>1. r # NoRun
    BY DEF NoRun, RunIds
  <2> QED
    BY <1>3, <1>4, <1>5, <1>6, <2>1 DEF RunRule, Released, Link
<1>7. CASE stage[r] = "release"
  <2>1. s = "rolled_back"
    BY <1>3, <1>7 DEF Ends, Endings
  <2>2. recovering[r] /\ row[r][c] # "failed" /\ row[r][c] # "deploying"
    BY <1>4, <1>7, <2>1 DEF Ends, NothingDeploys, Participants
  <2>3. row[r][c] = "finished"
    BY <1>4, <2>2 DEF LiveInv, LifeInv, WorkInv, TypeInv, TypeOK, RowTypes, RowStatuses
  <2> QED
    BY <1>3, <1>4, <1>5, <1>7, <2>2, <2>3 DEF RunRule, Restored
<1> QED
  BY <1>3, <1>6, <1>7

LEMMA UntouchedLink ==
    ASSUME ReleaseInv, LiveInv', EndStep, Shaped, NEW c \in Apps, Untouched(c)
    PROVE  LinkRule(c)'
<1> SUFFICES ASSUME ~ Unsettled(c)' PROVE symlink[c] = Link(active[c])
  <2>1. Link(active[c])' = Link(active[c])
    BY UntouchedServes DEF ReleaseInv
  <2> QED
    BY <2>1 DEF LinkRule, Untouched
<1>1. CASE ~ Unsettled(c)
  BY <1>1 DEF ReleaseInv, ReleaseRules, LinkRule
<1>2. CASE Unsettled(c)
  <2>1. PICK r \in RunIds : c \in started[r] /\ status[r] \in {"running", "partial"}
    BY <1>2 DEF Unsettled
  <2>2. ~ Astray(c)' /\ ~ Astray(c)
    BY UntouchedServes DEF Unsettled, Astray, ReleaseInv
  <2>3. c \in started'[r] /\ status'[r] \notin {"running", "partial"} /\ status[r] = "running"
    BY <2>1, <2>2 DEF Unsettled, Astray, Untouched
  <2>4. PICK s \in Endings : Ends(r, s)
    BY <2>3, RunningEnds DEF ReleaseInv, RootInv, LiveInv
  <2>5. s # "partial"
    BY <2>3, <2>4, EndsChanges DEF ReleaseInv, RootInv, LiveInv
  <2> QED
    BY <2>1, <2>2, <2>3, <2>4, <2>5, EndingSettles
<1> QED
  BY <1>1, <1>2

\* Work in the release stage: the run is the only one that runs, and the app
\* stays unsettled, so it is left to say what the worker and its run find there.
LEMMA ReleasingKeeps ==
    ASSUME ReleaseInv, OneActiveRun, NEW c \in Apps, Working(c), holding[c].stage = "release", Work(c),
           UNCHANGED row, NEW h \in RunIds, h = holding[c].run,
           c \in started'[h],
           active'[c] \in {h, prev[h][c]},
           Switchable(h, c)' \/ Astray(c)' \/ Restored(h, c)'
    PROVE  LinkRule(c)' /\ \A r \in RunIds : RunRule(r, c)'
<1> USE DEF ReleaseInv, RootInv
<1>1. c \in Components
  BY DEF Components
<1>2. status[h] = "running" /\ stage[h] = "release" /\ row[h][c] = "deploying"
  BY <1>1, ReleaseWork
<1>3. UNCHANGED <<status, stage, recovering, prev>>
  BY <1>1, WorkIsLocal DEF LiveInv
<1>4. LinkRule(c)'
  BY <1>2, <1>3 DEF LinkRule, Unsettled
<1>5. ASSUME NEW r \in RunIds, status'[r] = "running" PROVE r = h
  BY <1>2, <1>3, <1>5 DEF OneActiveRun, Occupying
<1>6. RunRule(h, c)'
  BY <1>2, <1>3 DEF RunRule
<1> QED
  BY <1>4, <1>5, <1>6 DEF RunRule

\* What holds of an app that is worked on in its release stage.
LEMMA ReleasingApp ==
    ASSUME ReleaseInv, NEW c \in Apps, Working(c), holding[c].stage = "release"
    PROVE  /\ c \in Components
           /\ holding[c].run \in RunIds
           /\ row[holding[c].run][c] = "deploying"
           /\ recovering[holding[c].run] = holding[c].rec
           /\ WorkerRule(c)
           /\ \A r \in RunIds : r = holding[c].run =>
                 /\ active[c] \in {r, prev[r][c]}
                 /\ Switchable(r, c) \/ Astray(c) \/ Restored(r, c)
<1>1. c \in Components
  BY DEF Components
<1>2. /\ holding[c].run \in RunIds
      /\ status[holding[c].run] = "running"
      /\ row[holding[c].run][c] = "deploying"
      /\ recovering[holding[c].run] = holding[c].rec
  BY <1>1, ReleaseWork DEF ReleaseInv, RootInv
<1> QED
  BY <1>1, <1>2 DEF ReleaseInv, ReleaseRules, RunRule

\* A worker in one of the steps of a release.
LEMMA ReleaseStepOf ==
    ASSUME ReleaseInv, NEW c \in Components, worker[c] \in ReleaseSteps
    PROVE  /\ c \in Apps
           /\ Working(c)
           /\ holding[c].stage = "release"
           /\ holding[c].run \in RunIds
           /\ c \in started[holding[c].run]
<1>1. Working(c) /\ holding[c].stage = "release"
  BY DEF Working, ReleaseSteps, ReleaseInv, RootInv, LiveInv, LiveRules, ReleasingInRelease
<1>2. c \in Apps
  BY DEF ReleaseSteps, ReleaseInv, RootInv, LiveInv, LifeInv, WorkInv, TypeInv, HoldsJob
<1>3. holding[c].run \in RunIds
  BY <1>1, WorkNeedsDeployingRow DEF ReleaseInv, RootInv, LiveInv, LifeInv
<1>4. c \in started[holding[c].run]
  BY <1>2 DEF ReleaseInv, RootInv, RootRules, Rooted
<1> QED
  BY <1>1, <1>2, <1>3, <1>4

LEMMA BeginReleaseKeeps ==
    ASSUME ReleaseInv, OneActiveRun, NEW c \in Components, BeginRelease(c)
    PROVE  c \in Apps /\ WorkerRule(c)' /\ LinkRule(c)' /\ \A r \in RunIds : RunRule(r, c)'
<1>1. c \in Apps /\ Working(c) /\ holding[c].stage = "release" /\ ~ holding[c].rec
  BY DEF BeginRelease, At, Working
<1>2. PICK h \in RunIds : h = holding[c].run
  BY <1>1, ReleasingApp
<1>3. /\ UNCHANGED <<status, target, release, row, prev, active, prepared, symlink, holding>>
      /\ worker'[c] = "started"
      /\ c \in started'[h]
      /\ \A r \in RunIds : started[r] \subseteq started'[r]
  BY <1>2 DEF BeginRelease, WorkerMoves, runVars, hostVars, ReleaseInv, RootInv, LiveInv, LifeInv, WorkInv,
              TypeInv, TypeOK, RowTypes, LockTypes
<1>4. /\ Switchable(h, c) => Switchable(h, c)'
      /\ Astray(c) => Astray(c)'
      /\ Restored(h, c) => Restored(h, c)'
  BY <1>3 DEF Switchable, Astray, Restored, Link
<1>5. WorkerRule(c)'
  BY <1>1, <1>3 DEF WorkerRule
<1>6. active[c] \in {h, prev[h][c]} /\ (Switchable(h, c) \/ Astray(c) \/ Restored(h, c))
  BY <1>1, <1>2, ReleasingApp
<1> QED
  BY <1>1, <1>2, <1>3, <1>4, <1>5, <1>6, ReleasingKeeps DEF Work

LEMMA ReleaseEnvKeeps ==
    ASSUME ReleaseInv, OneActiveRun, NEW c \in Components, ReleaseEnv(c)
    PROVE  c \in Apps /\ WorkerRule(c)' /\ LinkRule(c)' /\ \A r \in RunIds : RunRule(r, c)'
<1>1. c \in Apps /\ Working(c) /\ holding[c].stage = "release"
  BY ReleaseStepOf DEF ReleaseEnv, ReleaseSteps
<1>2. PICK h \in RunIds : h = holding[c].run /\ c \in started[h]
  BY ReleaseStepOf DEF ReleaseEnv, ReleaseSteps
<1>3. /\ UNCHANGED <<status, target, release, row, prev, started, active, symlink, holding>>
      /\ worker[c] = "started" /\ worker'[c] = "prepared"
      /\ c \in prepared'[h] \/ target[h] # NoRun
  BY <1>2 DEF ReleaseEnv, WorkerMoves, runVars, rowVars, ReleaseInv, RootInv, LiveInv, LifeInv, WorkInv,
              TypeInv, TypeOK, HostTypes, LockTypes
<1>4. Switchable(h, c)'
  BY <1>2, <1>3 DEF Switchable
<1>5. ~ holding[c].rec /\ active[c] \in {h, prev[h][c]}
  BY <1>1, <1>2, <1>3, ReleasingApp DEF WorkerRule
<1>6. holding'[c].run = h
  BY <1>2, <1>3
<1>7. WorkerRule(c)'
  BY <1>3, <1>4, <1>5, <1>6 DEF WorkerRule, Switchable
<1> QED
  BY <1>1, <1>2, <1>3, <1>4, <1>5, <1>7, ReleasingKeeps DEF Work

LEMMA SwitchReleaseKeeps ==
    ASSUME ReleaseInv, OneActiveRun, NEW c \in Components, SwitchRelease(c)
    PROVE  c \in Apps /\ WorkerRule(c)' /\ LinkRule(c)' /\ \A r \in RunIds : RunRule(r, c)'
<1>1. c \in Apps /\ Working(c) /\ holding[c].stage = "release"
  BY ReleaseStepOf DEF SwitchRelease, ReleaseSteps
<1>2. PICK h \in RunIds : h = holding[c].run /\ c \in started[h]
  BY ReleaseStepOf DEF SwitchRelease, ReleaseSteps
<1>3. /\ UNCHANGED <<status, target, release, row, prev, started, active, prepared, holding>>
      /\ worker[c] = "prepared" /\ worker'[c] = "switched"
      /\ symlink'[c] = release[h]
  BY <1>1, <1>2 DEF SwitchRelease, WorkerMoves, runVars, rowVars, ReleaseInv, RootInv, LiveInv, LifeInv,
              WorkInv, TypeInv, TypeOK, HostTypes, LockTypes
<1>4. WorkerRule(c) /\ active[c] \in {h, prev[h][c]}
  BY <1>1, <1>2, ReleasingApp
<1>5. Switchable(h, c)' /\ ~ holding[c].rec
  BY <1>2, <1>3, <1>4 DEF WorkerRule, Switchable
<1>6. holding'[c].run = h
  BY <1>2, <1>3
<1>7. WorkerRule(c)'
  BY <1>3, <1>5, <1>6 DEF WorkerRule, Switchable
<1> QED
  BY <1>1, <1>2, <1>3, <1>4, <1>5, <1>7, ReleasingKeeps DEF Work

LEMMA ActivateReleaseKeeps ==
    ASSUME ReleaseInv, OneActiveRun, NEW c \in Components, ActivateRelease(c)
    PROVE  c \in Apps /\ WorkerRule(c)' /\ LinkRule(c)' /\ \A r \in RunIds : RunRule(r, c)'
<1>1. c \in Apps /\ Working(c) /\ holding[c].stage = "release"
  BY ReleaseStepOf DEF ActivateRelease, ReleaseSteps
<1>2. PICK h \in RunIds : h = holding[c].run /\ c \in started[h]
  BY ReleaseStepOf DEF ActivateRelease, ReleaseSteps
<1>3. /\ UNCHANGED <<status, target, release, row, prev, started, symlink, prepared, holding>>
      /\ worker[c] = "switched" /\ worker'[c] = "done"
      /\ active'[c] = h
  BY <1>1, <1>2 DEF ActivateRelease, WorkerMoves, runVars, hostVars, ReleaseInv, RootInv, LiveInv,
              LifeInv, WorkInv, TypeInv, TypeOK, RowTypes, LockTypes
<1>4. Switchable(h, c) /\ symlink[c] = release[h] /\ ~ holding[c].rec
  BY <1>1, <1>2, <1>3, ReleasingApp DEF WorkerRule
<1>5. Switchable(h, c)' /\ Released(h, c)'
  BY <1>3, <1>4 DEF Switchable, Released
<1>6. holding'[c].run = h /\ ~ holding'[c].rec
  BY <1>2, <1>3, <1>4
<1>7. WorkerRule(c)'
  BY <1>3, <1>5, <1>6 DEF WorkerRule, Released
<1> QED
  BY <1>1, <1>2, <1>3, <1>5, <1>7, ReleasingKeeps DEF Work

LEMMA RestoreReleaseKeeps ==
    ASSUME ReleaseInv, OneActiveRun, NEW c \in Components, RestoreRelease(c)
    PROVE  c \in Apps /\ WorkerRule(c)' /\ LinkRule(c)' /\ \A r \in RunIds : RunRule(r, c)'
<1>1. c \in Apps /\ Working(c) /\ holding[c].stage = "release" /\ holding[c].rec
  BY DEF RestoreRelease, At, Working
<1>2. PICK h \in RunIds : h = holding[c].run
  BY <1>1, ReleasingApp
<1>3. /\ UNCHANGED <<status, stage, recovering, target, release, row, prev, started, active, prepared, holding>>
      /\ status[h] = "running" /\ row[h][c] = "deploying" /\ stage[h] = "release"
  <2>1. UNCHANGED <<status, stage, recovering, target, release, row, prev, started, active, prepared, holding>>
    BY DEF RestoreRelease, WorkerMoves, runVars, rowVars
  <2> QED
    BY <1>1, <1>2, <2>1, ReleaseWork DEF ReleaseInv, RootInv
<1>4. WorkerRule(c) /\ active[c] \in {h, prev[h][c]} /\ (Switchable(h, c) \/ Astray(c) \/ Restored(h, c))
  BY <1>1, <1>2, ReleasingApp
<1>5. holding'[c].run = h /\ holding'[c].rec
  BY <1>1, <1>2, <1>3
<1>6. CASE c \in started[h]
  <2>1. /\ worker'[c] = "restored"
        /\ symlink'[c] = IF Switchable(h, c) THEN Link(prev[h][c]) ELSE symlink[c]
    BY <1>1, <1>2, <1>6 DEF RestoreRelease, WorkerMoves, Switchable, Link, ReleaseInv, RootInv, LiveInv,
       LifeInv, WorkInv, TypeInv, TypeOK, HostTypes, LockTypes, Components
  <2>2. Astray(c)' \/ symlink'[c] = Link(prev[h][c])
    BY <1>3, <1>4, <2>1 DEF Restored, Astray
  <2>3. WorkerRule(c)'
    BY <1>3, <1>5, <2>1, <2>2 DEF WorkerRule, Link
  <2>4. Switchable(h, c)' \/ Astray(c)' \/ Restored(h, c)'
    BY <1>3, <1>4, <2>1 DEF Switchable, Astray, Restored, Link
  <2> QED
    BY <1>1, <1>2, <1>3, <1>4, <1>6, <2>3, <2>4, ReleasingKeeps DEF Work
<1>7. CASE c \notin started[h]
  <2>1. worker'[c] = "done" /\ UNCHANGED symlink
    BY <1>1, <1>2, <1>7 DEF RestoreRelease, WorkerMoves, ReleaseInv, RootInv, LiveInv,
       LifeInv, WorkInv, TypeInv, TypeOK, LockTypes, Components
  <2>2. Astray(c) \/ Restored(h, c)
    BY <1>1, <1>4, <1>7 DEF Switchable, ReleaseInv, RootInv, RootRules, Rooted
  <2>3. (Astray(c) => Astray(c)') /\ (Restored(h, c) => Restored(h, c)')
    BY <1>3, <2>1 DEF Astray, Restored, Link
  <2>4. WorkerRule(c)'
    BY <1>3, <1>5, <2>1, <2>2, <2>3 DEF WorkerRule, Restored, Link
  <2>5. LinkRule(c)' /\ \A r \in RunIds : RunRule(r, c)'
    <3>1. LinkRule(c) /\ \A r \in RunIds : RunRule(r, c)
      BY <1>1 DEF ReleaseInv, ReleaseRules
    <3> QED
      BY <1>3, <2>1, <3>1
         DEF LinkRule, RunRule, Unsettled, Switchable, Released, Restored, Astray, Link
  <2> QED
    BY <1>1, <2>4, <2>5
<1> QED
  BY <1>6, <1>7

LEMMA RestoreActiveKeeps ==
    ASSUME ReleaseInv, OneActiveRun, NEW c \in Components, RestoreActive(c)
    PROVE  c \in Apps /\ WorkerRule(c)' /\ LinkRule(c)' /\ \A r \in RunIds : RunRule(r, c)'
<1>1. c \in Apps /\ Working(c) /\ holding[c].stage = "release"
  BY ReleaseStepOf DEF RestoreActive, ReleaseSteps
<1>2. PICK h \in RunIds : h = holding[c].run /\ c \in started[h]
  BY ReleaseStepOf DEF RestoreActive, ReleaseSteps
<1>3. WorkerRule(c) /\ active[c] \in {h, prev[h][c]}
  BY <1>1, <1>2, ReleasingApp
<1>4. /\ UNCHANGED <<status, target, release, row, prev, started, symlink, prepared, holding>>
      /\ worker[c] = "restored" /\ worker'[c] = "done"
      /\ active'[c] = prev[h][c]
  BY <1>1, <1>2, <1>3 DEF RestoreActive, WorkerMoves, runVars, hostVars, ReleaseInv, RootInv, LiveInv,
              LifeInv, WorkInv, TypeInv, TypeOK, RowTypes, LockTypes, NoRun
<1>5. holding[c].rec /\ (Astray(c) \/ symlink[c] = Link(prev[h][c]))
  BY <1>2, <1>3, <1>4 DEF WorkerRule
<1>6. Astray(c)' \/ Restored(h, c)'
  BY <1>4, <1>5 DEF Astray, Restored, Link
<1>7. holding'[c].run = h /\ holding'[c].rec
  BY <1>2, <1>4, <1>5
<1>8. WorkerRule(c)'
  BY <1>4, <1>6, <1>7 DEF WorkerRule, Restored, Link
<1> QED
  BY <1>1, <1>2, <1>4, <1>6, <1>8, ReleasingKeeps DEF Work

LEMMA CloneReleaseKeeps ==
    ASSUME ReleaseInv, NEW c \in Components, CloneRelease(c)
    PROVE  c \in Apps /\ WorkerRule(c)' /\ LinkRule(c)' /\ \A r \in RunIds : RunRule(r, c)'
<1>1. /\ c \in Apps
      /\ UNCHANGED <<status, stage, recovering, target, release, row, prev, started, active, prepared,
                     symlink, holding>>
      /\ worker'[c] = "done" /\ holding[c].stage = "clone"
  BY DEF CloneRelease, At, WorkerMoves, runVars, rowVars, hostVars, ReleaseInv, RootInv, LiveInv, LifeInv,
         WorkInv, TypeInv, TypeOK, LockTypes
<1>2. LinkRule(c) /\ \A r \in RunIds : RunRule(r, c)
  BY <1>1 DEF ReleaseInv, ReleaseRules
<1>3. LinkRule(c)' /\ \A r \in RunIds : RunRule(r, c)'
  BY <1>1, <1>2 DEF LinkRule, RunRule, Unsettled, Switchable, Released, Restored, Astray, Link
<1>4. WorkerRule(c)'
  BY <1>1 DEF WorkerRule
<1> QED
  BY <1>1, <1>3, <1>4

LEMMA CompleteStageKeeps ==
    ASSUME ReleaseInv, NEW c \in Apps, CompleteStage(c)
    PROVE  WorkerRule(c)' /\ LinkRule(c)' /\ \A r \in RunIds : RunRule(r, c)'
<1>1. /\ UNCHANGED <<status, stage, recovering, target, release, prev, started, active, prepared, symlink>>
      /\ worker'[c] = "free"
      /\ Working(c)
      /\ worker[c] = "done" \/ holding[c].stage \in Scripted
      /\ c \in Components
  BY ComponentsAssumption
     DEF CompleteStage, FreeLock, runVars, releaseVars, hostVars, Components, Working, ReleaseInv, RootInv,
         LiveInv, LifeInv, WorkInv, TypeInv, TypeOK, LockTypes
<1>2. PICK h \in RunIds : h = holding[c].run
  BY <1>1, WorkNeedsDeployingRow DEF ReleaseInv, RootInv, LiveInv, LifeInv
<1>3. /\ \A r \in RunIds : r # h => row'[r] = row[r]
      /\ row'[h][c] = "finished" /\ row[h][c] = "deploying"
      /\ recovering[h] = holding[c].rec /\ stage[h] = holding[c].stage
  BY <1>1, <1>2, WorkNeedsDeployingRow
     DEF CompleteStage, Awaited, ReleaseInv, RootInv, LiveInv, LifeInv, WorkInv, TypeInv, TypeOK, RowTypes
<1>4. WorkerRule(c) /\ LinkRule(c) /\ \A r \in RunIds : RunRule(r, c)
  BY DEF ReleaseInv, ReleaseRules
<1>5. WorkerRule(c)' /\ LinkRule(c)'
  BY <1>1, <1>4 DEF WorkerRule, LinkRule, Unsettled, Link
<1>6. ASSUME NEW r \in RunIds, r # h PROVE RunRule(r, c)'
  BY <1>1, <1>3, <1>4, <1>6 DEF RunRule, Switchable, Released, Restored, Astray, Link
<1>7. RunRule(h, c)'
  <2>1. stage[h] = "release" => IF recovering[h] THEN Astray(c) \/ Restored(h, c) ELSE Released(h, c)
    BY <1>1, <1>2, <1>3, <1>4 DEF WorkerRule, Scripted
  <2> QED
    BY <1>1, <1>3, <1>4, <2>1 DEF RunRule, Switchable, Released, Restored, Astray, Link
<1> QED
  BY <1>5, <1>6, <1>7

\* Every step leaves each app untouched, or works on it.
LEMMA StepTouches ==
    ASSUME RootInv, [Next]_vars, NEW c \in Apps
    PROVE  \/ Work(c)
           \/ /\ Untouched(c)
              /\ \A r \in RunIds : Makes(r) \/ (stage[r] = "none" => stage'[r] = "none")
<1> USE DEF RootInv, LiveInv
<1>0. c \in Components /\ c \notin Balancers
  BY ComponentsAssumption DEF Components
<1>1. CASE Quiet
  BY <1>0, <1>1 DEF Quiet, Untouched, hostVars
<1>2. ASSUME NEW r \in RunIds, Makes(r)
      PROVE  /\ Untouched(c)
             /\ \A q \in RunIds : Makes(q) \/ (stage[q] = "none" => stage'[q] = "none")
  <2>1. /\ UNCHANGED <<active, symlink, started, prepared, target, release, worker, holding>>
        /\ \A q \in RunIds : q # r =>
              row'[q] = row[q] /\ prev'[q] = prev[q] /\ stage'[q] = stage[q]
        /\ row'[r][c] # "finished"
        /\ stage[r] = "none" /\ status[r] = "running"
    BY <1>0, <1>2 DEF Makes, hostVars, Startable
  <2>2. row[r][c] = "none"
    BY <1>0, <2>1 DEF RootRules, Unstarted
  <2> QED
    BY <1>2, <2>1, <2>2 DEF Untouched
<1>3. ASSUME NEW b \in Components, Work(b), b # c PROVE Untouched(c) /\ stage' = stage
  BY <1>0, <1>3, WorkIsLocal DEF Untouched
<1> QED
  BY <1>1, <1>2, <1>3, StepKinds

LEMMA ReleaseStep == ReleaseInv /\ OneActiveRun /\ LiveInv' /\ [Next]_vars => ReleaseRules'
<1> SUFFICES ASSUME ReleaseInv, OneActiveRun, LiveInv', [Next]_vars, NEW c \in Apps
             PROVE  WorkerRule(c)' /\ LinkRule(c)' /\ \A r \in RunIds : RunRule(r, c)'
  BY DEF ReleaseRules
<1>1. CASE Work(c)
  <2>1. c \in Components
    BY DEF Components
  <2> QED
    BY <1>1, <2>1, CloneReleaseKeeps, BeginReleaseKeeps, ReleaseEnvKeeps, SwitchReleaseKeeps,
       ActivateReleaseKeeps, RestoreReleaseKeeps, RestoreActiveKeeps, CompleteStageKeeps DEF Work
<1>2. CASE /\ Untouched(c)
           /\ \A r \in RunIds : Makes(r) \/ (stage[r] = "none" => stage'[r] = "none")
  <2>1. Shaped /\ EndStep
    BY StepIsShaped, LifeStep DEF ReleaseInv, RootInv, LiveInv, LifeInv, WorkInv
  <2> QED
    BY <1>2, <2>1, UntouchedWorker, UntouchedLink, UntouchedRun
<1> QED
  BY <1>1, <1>2, StepTouches DEF ReleaseInv

LEMMA ReleaseInit == Init => ReleaseInv
<1> SUFFICES ASSUME Init PROVE ReleaseInv
  OBVIOUS
<1>1. \A c \in Apps : WorkerRule(c) /\ \A r \in RunIds : RunRule(r, c)
  BY DEF Init, WorkerRule, RunRule, Components
<1>2. \A c \in Apps : LinkRule(c)
  BY DEF Init, LinkRule, Link, NoRun
<1> QED
  BY <1>1, <1>2, RootInit DEF ReleaseInv, ReleaseRules

LEMMA ReleaseInvariant == Spec => []ReleaseInv
<1>1. ReleaseInv /\ OneActiveRun /\ [Next]_vars => ReleaseInv'
  BY TypeStep, WorkStep, LifeStep, LiveStep, RootStep, ReleaseStep
     DEF ReleaseInv, RootInv, LiveInv, LifeInv, WorkInv
<1> QED
  BY <1>1, ReleaseInit, OneRunIsActive, PTL DEF Spec

\* Outside of a release, and where no recovery has failed, the symlink an app
\* serves names the release of the deployment that is marked active: whatever
\* stages were lost, repeated, cancelled, rolled back or recovered.
THEOREM LinkAgreesWithActive == Spec => []LinkMatchesActive
<1>1. ReleaseInv => LinkMatchesActive
  BY DEF ReleaseInv, ReleaseRules, LinkRule, Link, LinkMatchesActive
<1> QED
  BY <1>1, ReleaseInvariant, PTL

\* A run comes to be finished, rolled back or partial only by ending so.
LEMMA OutcomesAreEndings ==
    ASSUME LifeInv, Shaped, NEW r \in RunIds, NEW s \in {"finished", "rolled_back", "partial"},
           status[r] # s, status'[r] = s
    PROVE  Ends(r, s)
<1>1. ASSUME NEW q \in RunIds, Passes(q) \/ Asks(q) \/ Rejects(q) \/ Joins(q) \/ Promotes(q)
      PROVE  status'[r] \in {status[r], "pending", "running", "superseded", "failed"}
  BY <1>1
     DEF Passes, Asks, OutOfDate, Rejects, Joins, Promotes, LifeInv, WorkInv, TypeInv, TypeOK, RunTypes
<1>2. ASSUME NEW q \in RunIds, NEW t \in Endings, Ends(q, t) PROVE q = r /\ t = s
  BY <1>2, EndsChanges
<1> QED
  BY <1>1, <1>2 DEF Shaped, RunStep, SettlesRows, Starts, Moves

LEMMA RollbackStep ==
    ASSUME ReleaseInv, [Next]_vars, NEW r \in RunIds,
           status[r] # "rolled_back", status'[r] = "rolled_back",
           NEW c \in Apps, row[r][c] # "none", ~ Astray(c)
    PROVE  active'[c] = prev[r][c] /\ symlink'[c] = Link(prev[r][c])
<1> USE DEF ReleaseInv, RootInv
<1>1. Ends(r, "rolled_back")
  BY StepIsShaped, OutcomesAreEndings DEF LiveInv, LifeInv
<1>2. recovering[r] /\ stage[r] = "release"
  BY <1>1 DEF Ends, RootRules, RecoversRelease
<1>3. status[r] = "running"
  BY <1>1, <1>2
     DEF Ends, Occupying, LiveInv, LiveRules, CancelledBefore, LifeInv, LifeRules, WaitsUntouched
<1>4. c \in Components /\ c \notin Balancers
  BY ComponentsAssumption DEF Components
<1>5. row[r][c] \notin {"failed", "deploying"}
  BY <1>1, <1>2, <1>4 DEF Ends, NothingDeploys, Participants
<1>6. row[r][c] = "finished"
  BY <1>4, <1>5 DEF LiveInv, LifeInv, WorkInv, TypeInv, TypeOK, RowTypes, RowStatuses
<1>7. Restored(r, c)
  BY <1>2, <1>3, <1>6 DEF ReleaseRules, RunRule
<1>8. Untouched(c)
  BY <1>3, <1>4, StepTouches, WorkIsLocal DEF LiveInv
<1> QED
  BY <1>7, <1>8 DEF Untouched, Restored

\* A run that is reported as rolled back left each of its apps as it found it,
\* unless an earlier recovery had failed there.
THEOREM RollbackRestores == Spec => RolledBackRestores
<1>1. ReleaseInv /\ [Next]_vars =>
          [\A r \in RunIds : status[r] # "rolled_back" /\ status'[r] = "rolled_back" =>
              \A c \in Apps :
                  row[r][c] # "none" /\ ~ (\E q \in RunIds : c \in started[q] /\ status[q] = "partial") =>
                      /\ active'[c] = prev[r][c]
                      /\ symlink'[c] = IF prev[r][c] = NoRun THEN NoRun ELSE release[prev[r][c]]]_vars
  BY RollbackStep DEF Link, Astray
<1> QED
  BY <1>1, ReleaseInvariant, PTL DEF Spec, RolledBackRestores

\* Only the end of a release stage that went well moves the live run.
LEMMA LiveMoves ==
    ASSUME TypeInv, [Next]_vars, live' # live
    PROVE  \E a \in advances :
               /\ CallMatches(a)
               /\ ~ RowsIn(a, "deploying") /\ ~ RowsIn(a, "failed")
               /\ status[a.run] = "running" /\ a.stage = "release" /\ ~ a.rec
               /\ a.run \notin join /\ live' = a.run
<1>1. ~ (UNCHANGED vars \/ Request \/ Environment \/ WakePending)
  BY DEF vars, envVars, settings, Request, Deploy, Rollback, WhenReady, WhenReadyFails, WebhookFails, Join,
         Cancel, CreateRun, Environment, EditVariables, BeginTeardown, ComponentReady, ComponentUnready,
         WakePending
<1>2. ASSUME NEW r \in RunIds, Start(r) \/ Finish(r) \/ Watchdog(r) PROVE FALSE
  BY <1>2
     DEF envVars, settings, Start, StartCheck, StartFails, StartRun, StartStale, Finish, FinishBegin,
         FinishNext, FinishLost, FinishPrune, Watchdog, PassDeadline, FailStalled
<1>3. ~ StageQueue
  BY DEF envVars, StageQueue, SkipStageJob, TakeStageJob, ExpireStageJob
<1>4. ASSUME NEW c \in Components, Work(c) \/ Disturb(c) PROVE FALSE
  BY <1>4
     DEF envVars, settings, Work, CloneRelease, BeginRelease, ReleaseEnv, SwitchRelease,
         ActivateRelease, RestoreRelease, RestoreActive, CompleteStage, Disturb, StageReturns,
         StageThrows, StageTimesOut, WorkerCrashes, LeaseExpires
<1>5. PICK a \in advances : Advance(a)
  BY <1>1, <1>2, <1>3, <1>4 DEF Next, LoseAdvance, envVars
<1>6. SettleSuccess(a) /\ CallMatches(a) /\ ~ RowsIn(a, "deploying")
  BY <1>5 DEF Advance, SettleCancelled, SettleRecovery, SettleFailure, AdvanceEnds
<1>7. live' = LiveAfter(a)
  BY <1>6 DEF SettleSuccess, AdvanceEnds
<1> QED
  BY <1>6, <1>7 DEF SettleSuccess, LiveAfter

\* The live run moves only to a run that is not a join and that runs, all of
\* whose components finished its release, load balancers included, and every app
\* of it serves it by then.
THEOREM LiveRunIsServed == Spec => LiveMovesWhole
<1>1. ASSUME ReleaseInv, [Next]_vars, live' # live
      PROVE  /\ live' \notin join
             /\ status[live'] = "running"
             /\ \A c \in Components : row[live'][c] # "none" => row[live'][c] = "finished"
             /\ \A c \in Apps : row[live'][c] # "none" =>
                   active[c] = live' /\ symlink[c] = release[live']
  <2>0. TypeInv /\ TypeOK
    BY <1>1 DEF ReleaseInv, RootInv, LiveInv, LifeInv, WorkInv, TypeInv
  <2>1. PICK a \in advances :
            /\ CallMatches(a)
            /\ ~ RowsIn(a, "deploying") /\ ~ RowsIn(a, "failed")
            /\ status[a.run] = "running" /\ a.stage = "release" /\ ~ a.rec
            /\ a.run \notin join /\ live' = a.run
    BY <1>1, <2>0, LiveMoves
  <2>2. PICK r \in RunIds : r = a.run
    BY <2>0 DEF TypeOK, JobTypes, AdvanceCall
  <2>3. stage[r] = "release" /\ ~ recovering[r] /\ status[r] = "running" /\ r \notin join /\ live' = r
    BY <2>1, <2>2 DEF CallMatches
  <2>4. \A c \in Components : row[r][c] # "none" => row[r][c] = "finished"
    <3> SUFFICES ASSUME NEW c \in Components, row[r][c] # "none" PROVE row[r][c] = "finished"
      OBVIOUS
    <3>1. c \in Participants(r, "release", row)
      BY <2>3 DEF Participants
    <3>2. row[r][c] \in RowStatuses
      BY <2>0 DEF TypeOK, RowTypes
    <3> QED
      BY <2>1, <2>2, <3>1, <3>2 DEF RowsIn, RowStatuses
  <2>5. ASSUME NEW c \in Apps, row[r][c] # "none" PROVE Released(r, c)
    <3>1. row[r][c] = "finished"
      BY <2>4, <2>5 DEF Components
    <3> QED
      BY <1>1, <2>3, <2>5, <3>1 DEF ReleaseInv, ReleaseRules, RunRule
  <2> QED
    BY <2>3, <2>4, <2>5 DEF Released
<1>2. ReleaseInv /\ [Next]_vars =>
          [live' # live =>
              /\ live' \notin join
              /\ status[live'] = "running"
              /\ \A c \in Components : row[live'][c] # "none" => row[live'][c] = "finished"
              /\ \A c \in Apps : row[live'][c] # "none" =>
                    active[c] = live' /\ symlink[c] = release[live']]_vars
  BY <1>1
<1> QED
  BY <1>2, ReleaseInvariant, PTL DEF Spec, LiveMovesWhole
=============================================================================
