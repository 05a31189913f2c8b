---------------------------- MODULE UpkeepProofs ----------------------------
(***************************************************************************)
(* What goes on around the runs: cleanup keeps every release that is in    *)
(* use, joins reach only components without a deployment, and an app whose *)
(* served variables are out of date asks for a deploy.                     *)
(***************************************************************************)
EXTENDS LiveCodeProofs

\* A run that occupies the environment and has rows occupied it before.
LEMMA OccupiedBefore ==
    ASSUME RootInv, EndStep, NEW r \in RunIds, NEW c \in Components, row[r][c] # "none", Occupying(r)'
    PROVE  Occupying(r)
<1>1. status[r] \notin {"none", "pending"}
  BY DEF RootInv, RootRules, Unstarted, LiveInv, LifeInv, LifeRules, WaitsUntouched
<1> QED
  BY <1>1 DEF EndStep, Terminal, Occupying

\* A row is new: start() made the rows of its run, or a join ended untried.
LEMMA NewRow ==
    ASSUME RootInv, [Next]_vars, NEW r \in RunIds, NEW c \in Components,
           row[r][c] = "none", row'[r][c] # "none"
    PROVE  Makes(r) \/ (r \in join /\ c \in Joinable /\ \E s \in Endings : Ends(r, s))
<1> USE DEF RootInv, LiveInv
<1>0. Shaped
  BY StepIsShaped DEF LifeInv
<1>1. row'[r] # row[r]
  OBVIOUS
<1>2. ASSUME NEW q \in RunIds, NEW s \in Endings, Ends(q, s)
      PROVE  r \in join /\ c \in Joinable /\ Ends(r, s)
  <2>1. q = r
    BY <1>1, <1>2, EndsChanges DEF Endings
  <2>2. FinishRun(r, s)
    BY <1>2, <2>1 DEF Ends
  <2>3. c \in Tried(r)
    BY <2>2 DEF FinishRun, LifeInv, WorkInv, TypeInv, TypeOK, RowTypes
  <2> QED
    BY <1>2, <2>1, <2>3 DEF Tried
<1>3. ASSUME NEW q \in RunIds, NEW s \in Stages,
             NEW d \in [RunIds -> [Components -> RowStatuses]], Starts(q, s, d)
      PROVE  Makes(r)
  <2>1. Dispatch(q, s, FALSE, d) /\ stage[q] = "none" /\ (q # r => d[r] = row[r])
    BY <1>3 DEF Starts
  <2>2. q = r
    BY <1>1, <2>1 DEF Dispatch
  <2>3. stage'[r] = s /\ s # "none"
    BY <2>1, <2>2 DEF Dispatch, LifeInv, WorkInv, TypeInv, TypeOK, RunTypes, Stages
  <2>4. ~ Quiet /\ ~ \E b \in Components : Work(b)
    BY <2>1, <2>2, <2>3, WorkIsLocal DEF Quiet
  <2>5. PICK m \in RunIds : Makes(m)
    BY <2>4, StepKinds
  <2> QED
    BY <2>1, <2>2, <2>3, <2>5 DEF Makes
<1>4. ASSUME NEW q \in RunIds, NEW s \in Stages, NEW rec \in BOOLEAN, Moves(q, s, rec) PROVE FALSE
  <2>1. Dispatch(q, s, rec, row)
    BY <1>4 DEF Moves
  <2>2. q = r /\ c \in Participants(r, s, row)
    BY <1>1, <2>1 DEF Dispatch, LifeInv, WorkInv, TypeInv, TypeOK, RowTypes
  <2> QED
    BY <2>2 DEF Participants
<1>5. ~ SettlesRows
  BY DEF SettlesRows
<1> QED
  BY <1>0, <1>1, <1>2, <1>3, <1>4, <1>5
     DEF Shaped, RunStep, Passes, Asks, Rejects, Joins, Promotes

\* start() makes the rows of a run that has none, and so keeps no release yet.
LEMMA MadeFromNothing ==
    ASSUME RootInv, NEW r \in RunIds, Makes(r)
    PROVE  /\ status[r] = "running" /\ stage[r] = "none"
           /\ \A c \in Components : row[r][c] = "none"
           /\ kept[r] = {} /\ \A c \in Apps : prev[r][c] = NoRun /\ active[c] # r
<1>1. status[r] = "running" /\ stage[r] = "none"
  BY DEF Makes, Startable
<1>2. \A c \in Components : row[r][c] = "none"
  BY <1>1 DEF RootInv, RootRules, Unstarted
<1>3. kept[r] \subseteq Apps /\ r # NoRun
  BY DEF RootInv, LiveInv, LifeInv, WorkInv, TypeInv, TypeOK, RowTypes, NoRun, RunIds
<1> QED
  BY <1>1, <1>2, <1>3 DEF RootInv, RootRules, Rooted, Components
-----------------------------------------------------------------------------
(* Release cleanup *)

\* Kept: what an app serves, what the active run would restore, and what it brings.
KeepRule(c) ==
    /\ active[c] # NoRun => c \in kept[active[c]]
    /\ \A r \in RunIds :
        /\ Occupying(r) /\ prev[r][c] # NoRun => c \in kept[prev[r][c]]
        /\ status[r] = "running" /\ row[r][c] # "none" => c \in kept[r]
KeepRules == \A c \in Apps : KeepRule(c)
KeepInv == RootInv /\ KeepRules

\* Cleanup spares what is active, what a run that waits or runs is going to use
\* and what it would go back to.
LEMMA PruneSpares ==
    ASSUME NEW r \in RunIds, NEW b \in Apps, FinishPrune(r, b),
           NEW q \in RunIds, NEW c \in Apps, c \in kept[q], c \notin kept'[q]
    PROVE  /\ active[c] # q
           /\ \A p \in RunIds : Blocking(p) => release[p] # release[q] /\ prev[p][c] # q
<1>1. c = b /\ release[q] \in RemovedReleases(b)
  BY DEF FinishPrune
<1>2. PICK x \in RunIds : release[x] = release[q] /\ ~ InUse(x, c)
  BY <1>1 DEF RemovedReleases, ExcessRows, NewestRows, ReleaseRows, Removable
<1>3. q \in ReleaseRows(c)
  BY DEF ReleaseRows
<1> QED
  BY <1>2, <1>3 DEF InUse

LEMMA RootFacts ==
    ASSUME RootInv, [Next]_vars
    PROVE  RootInv' /\ Shaped /\ EndStep /\ RowsGrow
<1>1. TypeInv'
  BY TypeStep DEF RootInv, LiveInv, LifeInv, WorkInv
<1>2. Shaped /\ EndStep /\ LifeInv'
  BY <1>1, StepIsShaped, WorkStep, LifeStep DEF RootInv, LiveInv, LifeInv, WorkInv
<1>3. RowsGrow
  BY <1>2, RowsStay DEF RootInv, RootRules, LiveInv
<1> QED
  BY <1>2, <1>3, LiveStep, RootStep DEF RootInv, LiveInv

\* A release that is kept stays, unless cleanup takes it.
LEMMA KeptOrPruned ==
    ASSUME RootInv, [Next]_vars, NEW q \in RunIds, NEW c \in Apps, c \in kept[q], c \notin kept'[q]
    PROVE  /\ Quiet /\ \A m \in RunIds : ~ Makes(m)
           /\ active[c] # q
           /\ \A p \in RunIds : Blocking(p) => release[p] # release[q] /\ prev[p][c] # q
<1>1. ~ (\E b \in Components : Work(b))
  BY WorkIsLocal DEF RootInv, LiveInv
<1>2. \A m \in RunIds : ~ Makes(m)
  BY MadeFromNothing DEF Makes
<1>3. Quiet
  BY <1>1, <1>2, StepKinds DEF RootInv, LiveInv
<1>4. PICK r \in RunIds, b \in Apps : FinishPrune(r, b)
  BY <1>3 DEF Quiet
<1> QED
  BY <1>2, <1>3, <1>4, PruneSpares

\* What becomes active was active, or is of a run at work, or was before it.
LEMMA ActiveMoves ==
    ASSUME RootInv, [Next]_vars, NEW c \in Apps, active'[c] # active[c], active'[c] # NoRun
    PROVE  \E r \in RunIds :
               /\ status[r] = "running" /\ row[r][c] # "none"
               /\ active'[c] \in {r, prev[r][c]}
<1> USE DEF RootInv, LiveInv
<1>1. Work(c)
  BY StepTouches DEF Untouched
<1>2. ActivateRelease(c) \/ RestoreActive(c)
  BY <1>1 DEF Work, CloneRelease, BeginRelease, ReleaseEnv, SwitchRelease, ActivateRelease,
              RestoreRelease, RestoreActive, CompleteStage, rowVars, releaseVars
<1>3. c \in Components /\ worker[c] \in ReleaseSteps
  BY <1>2 DEF ActivateRelease, RestoreActive, ReleaseSteps, Components
<1>4. Working(c) /\ holding[c].stage = "release"
  BY <1>3 DEF Working, ReleaseSteps, LiveRules, ReleasingInRelease
<1>5. PICK h \in RunIds : h = holding[c].run
  BY <1>3, <1>4, ReleaseWork
<1>6. status[h] = "running" /\ row[h][c] = "deploying"
  BY <1>3, <1>4, <1>5, ReleaseWork
<1>7. active \in [Apps -> MaybeRun]
  BY DEF LifeInv, WorkInv, TypeInv, TypeOK, RowTypes
<1>8. active'[c] \in {h, prev[h][c], active[c], NoRun}
  BY <1>2, <1>5, <1>7 DEF ActivateRelease, RestoreActive
<1> QED
  BY <1>6, <1>8

LEMMA KeepStep == KeepInv /\ [Next]_vars => KeepRules'
<1> SUFFICES ASSUME KeepInv, [Next]_vars, NEW c \in Apps PROVE KeepRule(c)'
  BY DEF KeepRules
<1>0. RootInv /\ Shaped /\ EndStep /\ RowsGrow /\ KeepRule(c) /\ c \in Components
  BY RootFacts DEF KeepInv, KeepRules, Components
<1>1. \A r \in MaybeRun : r # NoRun => r \in RunIds
  BY RunNumbers
<1>2. active[c] \in MaybeRun /\ \A r \in RunIds : prev[r][c] \in MaybeRun
  BY <1>0 DEF RootInv, LiveInv, LifeInv, WorkInv, TypeInv, TypeOK, RowTypes
<1>3. ASSUME NEW q \in RunIds, c \in kept[q],
             \/ active[c] = q
             \/ \E p \in RunIds : Blocking(p) /\ (p = q \/ prev[p][c] = q)
      PROVE  c \in kept'[q]
  BY <1>0, <1>3, KeptOrPruned
\* What becomes active is kept.
<1>4. ASSUME active'[c] # NoRun PROVE c \in kept'[active'[c]]
  <2>1. CASE active'[c] = active[c]
    BY <1>0, <1>1, <1>2, <1>3, <1>4, <2>1 DEF KeepRule
  <2>2. CASE active'[c] # active[c]
    <3>1. PICK r \in RunIds : /\ status[r] = "running" /\ row[r][c] # "none"
                              /\ active'[c] \in {r, prev[r][c]}
      BY <1>0, <1>4, <2>2, ActiveMoves
    <3>2. Occupying(r) /\ Blocking(r)
      BY <3>1 DEF Occupying, Blocking
    <3>3. c \in kept[r] /\ (prev[r][c] # NoRun => c \in kept[prev[r][c]])
      BY <1>0, <3>1, <3>2 DEF KeepRule
    <3> QED
      BY <1>1, <1>2, <1>3, <1>4, <3>1, <3>2, <3>3
  <2> QED
    BY <2>1, <2>2
\* What a run would restore stays kept while it occupies the environment.
<1>5. ASSUME NEW r \in RunIds, Occupying(r)', prev'[r][c] # NoRun PROVE c \in kept'[prev'[r][c]]
  <2>1. CASE prev'[r][c] = prev[r][c]
    <3>1. row[r][c] # "none"
      BY <1>0, <1>5, <2>1 DEF RootInv, RootRules, Rooted
    <3>2. Occupying(r) /\ Blocking(r)
      BY <1>0, <1>5, <3>1, OccupiedBefore DEF Blocking
    <3>3. prev[r][c] \in RunIds /\ c \in kept[prev[r][c]]
      BY <1>0, <1>1, <1>2, <1>5, <2>1, <3>2 DEF KeepRule
    <3> QED
      BY <1>3, <2>1, <3>2, <3>3
  <2>2. CASE prev'[r][c] # prev[r][c]
    <3>1. Makes(r)
      BY <1>0, <2>2, StepKinds, WorkIsLocal DEF Quiet, Makes, RootInv, LiveInv
    <3>2. prev'[r][c] = active[c]
      BY <1>5, <3>1 DEF Makes
    <3> QED
      BY <1>0, <1>1, <1>2, <1>3, <1>5, <3>2 DEF KeepRule
  <2> QED
    BY <2>1, <2>2
\* What a run brings is kept while it runs.
<1>6. ASSUME NEW r \in RunIds, status'[r] = "running", row'[r][c] # "none" PROVE c \in kept'[r]
  <2>1. CASE row[r][c] = "none"
    <3>1. Makes(r)
      <4>1. ASSUME NEW s \in Endings, Ends(r, s) PROVE FALSE
        BY <1>0, <1>6, <4>1, EndsChanges DEF Endings, RootInv, LiveInv
      <4> QED
        BY <1>0, <1>6, <2>1, <4>1, NewRow
    <3> QED
      BY <1>0, <1>6, <3>1 DEF Makes
  <2>2. CASE row[r][c] # "none"
    <3>1. status[r] = "running"
      BY <1>0, <1>6, <2>2, RunsGoOn
    <3> QED
      BY <1>0, <1>3, <2>2, <3>1 DEF KeepRule, Blocking, Occupying
  <2> QED
    BY <2>1, <2>2
<1> QED
  BY <1>4, <1>5, <1>6 DEF KeepRule

LEMMA KeepInvariant == Spec => []KeepInv
<1>1. Init => KeepInv
  <2> SUFFICES ASSUME Init PROVE KeepInv
    OBVIOUS
  <2>1. \A c \in Apps : KeepRule(c)
    BY DEF Init, KeepRule, Components
  <2> QED
    BY <2>1, RootInit DEF KeepInv, KeepRules
<1>2. KeepInv /\ [Next]_vars => KeepInv'
  BY KeepStep, RootFacts DEF KeepInv
<1> QED
  BY <1>1, <1>2, PTL DEF Spec

\* FinishEnvironmentDeploymentJob removes old releases one component at a time,
\* between the requests, starts and recoveries of other runs: none of them finds
\* the release it serves or has to restore removed.
THEOREM CleanupKeepsReleasesInUse == Spec => []ReleasesInUseKept
<1>1. KeepInv => ReleasesInUseKept
  BY DEF KeepInv, KeepRules, KeepRule, ReleasesInUseKept
<1> QED
  BY <1>1, KeepInvariant, PTL

\* The releases of a run that waits or runs stay where they are, also those a
\* rollback asked for before it got its turn.
THEOREM CleanupKeepsReleasesWanted == Spec => WantedReleasesStay
<1>1. KeepInv /\ [Next]_vars =>
          [\A b, q \in RunIds, c \in Apps :
              Blocking(b) /\ release[q] = release[b] /\ c \in kept[q] => c \in kept'[q]]_vars
  BY KeptOrPruned DEF KeepInv
<1> QED
  BY <1>1, KeepInvariant, PTL DEF Spec, WantedReleasesStay
-----------------------------------------------------------------------------
(* Joins *)

LEMMA NewJoin ==
    ASSUME [Next]_vars, join' # join
    PROVE  \E r \in RunIds : CreateJoin(r) /\ UNCHANGED <<row, ready>>
<1>1. ~ (UNCHANGED vars \/ Environment \/ StageQueue)
  BY DEF vars, runVars, Environment, EditVariables, BeginTeardown, ComponentReady, ComponentUnready,
         StageQueue, SkipStageJob, TakeStageJob, ExpireStageJob
<1>2. ASSUME NEW r \in RunIds, Start(r) \/ Watchdog(r) PROVE FALSE
  BY <1>2 DEF Start, StartCheck, StartFails, StartRun, StartStale, Watchdog, PassDeadline, FailStalled,
              runVars, origin
<1>3. ASSUME NEW c \in Components, Work(c) \/ Disturb(c) PROVE FALSE
  BY <1>3
     DEF runVars, Work, CloneRelease, BeginRelease, ReleaseEnv, SwitchRelease, ActivateRelease,
         RestoreRelease, RestoreActive, CompleteStage, Disturb, StageReturns, StageThrows,
         StageTimesOut, WorkerCrashes, LeaseExpires
<1>4. ASSUME NEW a \in advances, Advance(a) \/ LoseAdvance(a) PROVE FALSE
  BY <1>4 DEF Advance, LoseAdvance, origin, runVars
<1>5. CASE Request
  BY <1>5 DEF Request, Deploy, Rollback, WhenReady, WhenReadyFails, WebhookFails, Join, Cancel,
              CreateRun, runVars, rowVars, envVars, origin
<1>6. CASE WakePending \/ \E r \in RunIds : Finish(r)
  <2>1. NextRun /\ UNCHANGED <<row, ready>>
    BY <1>6 DEF WakePending, Finish, FinishBegin, FinishNext, FinishLost, FinishPrune, runVars, rowVars,
                envVars
  <2> QED
    BY <2>1 DEF NextRun
<1> QED
  BY <1>1, <1>2, <1>3, <1>4, <1>5, <1>6 DEF Next

\* A component stops being ready only while no run waits or runs.
LEMMA ReadyStays ==
    ASSUME [Next]_vars, NEW c \in ready, c \notin ready'
    PROVE  Idle
<1>1. ~ (UNCHANGED vars \/ Request \/ StageQueue \/ WakePending)
  BY DEF vars, envVars, settings, Request, Deploy, Rollback, WhenReady, WhenReadyFails, WebhookFails, Join,
         Cancel, CreateRun, StageQueue, SkipStageJob, TakeStageJob, ExpireStageJob, WakePending
<1>2. ASSUME NEW r \in RunIds, Start(r) \/ Finish(r) \/ Watchdog(r) PROVE FALSE
  BY <1>2 DEF Start, StartCheck, StartFails, StartRun, StartStale, Finish, FinishBegin, FinishNext,
              FinishLost, FinishPrune, Watchdog, PassDeadline, FailStalled, envVars, settings
<1>3. ASSUME NEW b \in Components, Work(b) \/ Disturb(b) PROVE FALSE
  BY <1>3
     DEF Work, CloneRelease, BeginRelease, ReleaseEnv, SwitchRelease, ActivateRelease, RestoreRelease,
         RestoreActive, CompleteStage, Disturb, StageReturns, StageThrows, StageTimesOut,
         WorkerCrashes, LeaseExpires, envVars, settings
<1>4. ASSUME NEW a \in advances, Advance(a) \/ LoseAdvance(a) PROVE FALSE
  BY <1>4 DEF Advance, LoseAdvance, envVars, settings
<1>5. Environment
  BY <1>1, <1>2, <1>3, <1>4 DEF Next
<1> QED
  BY <1>5 DEF Environment, EditVariables, BeginTeardown, ComponentReady, ComponentUnready

\* What a join is: it never waits, it comes after all that ended before it, it
\* has something to do as long as it has not begun, and it leaves the load
\* balancers alone.
JoinRule(r) ==
    /\ status[r] \notin {"none", "pending", "superseded"}
    /\ \A q \in RunIds : q < r => Over(q)
    /\ status[r] = "running" /\ (\A c \in Components : row[r][c] = "none") => Joinable # {}
    /\ \A b \in Balancers : row[r][b] = "none"
    /\ Terminal(r) => \E c \in Apps : row[r][c] # "none"
    /\ \A c \in Apps : row[r][c] # "none" =>
          prev[r][c] = NoRun /\ \A q \in RunIds : q < r => row[q][c] = "none"
JoinRules == \A r \in join : JoinRule(r)
JoinInv == RootInv /\ OneActiveRun /\ JoinRules

\* A join that is made.
LEMMA JoinBegins ==
    ASSUME RootInv, RootInv', EndStep, NEW r \in RunIds, CreateJoin(r), UNCHANGED <<row, ready>>
    PROVE  JoinRule(r)'
<1>1. status[r] = "none" /\ status'[r] = "running" /\ Idle /\ Joinable # {}
  BY DEF CreateJoin, CanJoin, Fresh, RootInv, LiveInv, LifeInv, WorkInv, TypeInv, TypeOK, RunTypes
<1>2. \A c \in Components : row'[r][c] = "none"
  BY <1>1 DEF RootInv, RootRules, Unstarted, LiveInv, LifeInv, LifeRules, WaitsUntouched
<1>3. ASSUME NEW q \in RunIds, q < r PROVE Over(q)'
  <2>1. status[q] # "none"
    BY <1>3 DEF CreateJoin, Fresh, RunIds
  <2>2. Over(q)
    BY <1>1, <2>1 DEF Idle, Blocking, Over, Terminal, Occupying
  <2> QED
    BY <2>2 DEF EndStep, Over, Terminal, Occupying
<1>4. Joinable' # {}
  BY <1>1 DEF Joinable, HasRows
<1>5. ~ Terminal(r)'
  BY <1>1 DEF Terminal
<1> QED
  BY <1>1, <1>2, <1>3, <1>4, <1>5 DEF JoinRule, Components

\* A run that has begun is not put back, and one that ended does not run again.
LEMMA StatusStays ==
    ASSUME LifeInv, Shaped, NEW r \in RunIds, status[r] \notin {"none", "pending", "superseded"}
    PROVE  /\ status'[r] \notin {"none", "pending", "superseded"}
           /\ status'[r] = "running" => status[r] = "running"
<1>1. ~ Fresh(r)
  BY DEF Fresh
<1>2. ASSUME NEW q \in RunIds, Passes(q) \/ Asks(q) \/ Rejects(q) \/ Joins(q) \/ Promotes(q)
      PROVE  status'[r] = status[r]
  BY <1>1, <1>2
     DEF Passes, Asks, OutOfDate, Rejects, Joins, Promotes, LifeInv, WorkInv, TypeInv, TypeOK, RunTypes
<1>3. ASSUME NEW q \in RunIds, NEW s \in Endings, Ends(q, s)
      PROVE  status'[r] = status[r] \/ status'[r] \in Endings
  BY <1>3, EndsChanges
<1> QED
  BY <1>2, <1>3 DEF Shaped, RunStep, SettlesRows, Starts, Moves, Endings

\* While a join that has not begun runs, what it may join stays joinable.
LEMMA JoinableStays ==
    ASSUME JoinInv, [Next]_vars, NEW r \in join, status[r] = "running", status'[r] = "running",
           \A c \in Components : row'[r][c] = "none", NEW c \in Joinable
    PROVE  c \in Joinable'
<1>1. r \in RunIds /\ Occupying(r) /\ c \in Apps /\ c \in ready /\ c \in Components
  BY DEF JoinInv, RootInv, LiveInv, LifeInv, WorkInv, TypeInv, TypeOK, RunTypes, Occupying, Joinable,
         Components
<1>2. c \in ready'
  BY <1>1, ReadyStays DEF Idle, Blocking
<1>3. ASSUME NEW q \in RunIds, row'[q][c] # "none" PROVE FALSE
  <2>1. row[q][c] = "none" /\ q # r
    BY <1>1, <1>3 DEF Joinable, HasRows
  <2>2. ~ Makes(q)
    BY <1>1, <2>1 DEF Makes, Startable, Occupying, OneActiveRun, JoinInv
  <2>3. PICK s \in Endings : q \in join /\ Ends(q, s)
    BY <1>1, <1>3, <2>1, <2>2, NewRow DEF JoinInv
  <2>4. status[q] # "pending"
    BY <2>3 DEF JoinInv, JoinRules, JoinRule
  <2> QED
    BY <1>1, <2>1, <2>3, <2>4 DEF Ends, JoinInv, OneActiveRun
<1> QED
  BY <1>1, <1>2, <1>3 DEF Joinable, HasRows

\* A join that ends has rows: those it made, or those of what it did not try.
LEMMA JoinEnds ==
    ASSUME JoinInv, NEW r \in join, NEW s \in Endings, Ends(r, s), status[r] = "running"
    PROVE  \E c \in Apps : row'[r][c] # "none"
<1>1. r \in RunIds /\ JoinRule(r)
  BY DEF JoinInv, JoinRules, RootInv, LiveInv, LifeInv, WorkInv, TypeInv, TypeOK, RunTypes
<1>2. \A c \in Components : row'[r][c] = IF c \in Tried(r) THEN "failed" ELSE row[r][c]
  BY <1>1 DEF Ends, FinishRun, JoinInv, RootInv, LiveInv, LifeInv, WorkInv, TypeInv, TypeOK, RowTypes
<1>3. CASE \A c \in Components : row[r][c] = "none"
  <2>1. Tried(r) = Joinable /\ Joinable # {}
    BY <1>1, <1>3 DEF Tried, JoinRule
  <2> QED
    BY <1>2, <2>1 DEF Joinable, Components
<1>4. CASE \E c \in Components : row[r][c] # "none"
  <2>1. PICK c \in Apps : row[r][c] # "none"
    BY <1>1, <1>4 DEF JoinRule, Components
  <2> QED
    BY <1>2, <2>1 DEF Components
<1> QED
  BY <1>3, <1>4

\* Whom a join reaches has not been deployed.
LEMMA JoinReaches ==
    ASSUME JoinInv, [Next]_vars, NEW r \in join, NEW c \in Components,
           row[r][c] = "none", row'[r][c] # "none"
    PROVE  c \in Apps /\ ~ HasRows(c)
<1>1. r \in RunIds
  BY DEF JoinInv, RootInv, LiveInv, LifeInv, WorkInv, TypeInv, TypeOK, RunTypes
<1>2. CASE Makes(r)
  <2>1. c \in Recruits(r)
    BY <1>2 DEF Makes
  <2> QED
    BY <2>1 DEF Recruits, Components
<1>3. CASE c \in Joinable
  BY <1>3 DEF Joinable
<1> QED
  BY <1>1, <1>2, <1>3, NewRow DEF JoinInv

LEMMA JoinGoesOn ==
    ASSUME JoinInv, [Next]_vars, NEW r \in join
    PROVE  JoinRule(r)'
<1>0. /\ r \in RunIds /\ JoinRule(r)
      /\ RootInv /\ RootInv' /\ Shaped /\ EndStep /\ RowsGrow
  BY RootFacts DEF JoinInv, JoinRules, RootInv, LiveInv, LifeInv, WorkInv, TypeInv, TypeOK, RunTypes
<1>1. status'[r] \notin {"none", "pending", "superseded"}
  BY <1>0, StatusStays DEF JoinRule, RootInv, LiveInv
<1>2. \A q \in RunIds : q < r => Over(q) /\ Over(q)' /\ row'[q] = row[q]
  BY <1>0 DEF JoinRule, EndStep, Over, Terminal, Occupying
<1>3. ASSUME status'[r] = "running", \A c \in Components : row'[r][c] = "none" PROVE Joinable' # {}
  <2>1. \A c \in Components : row[r][c] = "none"
    BY <1>0, <1>3 DEF RowsGrow
  <2>2. status[r] = "running"
    BY <1>0, <1>3, StatusStays DEF JoinRule, RootInv, LiveInv
  <2>3. Joinable # {}
    BY <1>0, <2>1, <2>2 DEF JoinRule
  <2> QED
    BY <1>3, <2>2, <2>3, JoinableStays
<1>4. \A b \in Balancers : row'[r][b] = "none"
  BY <1>0, JoinReaches, ComponentsAssumption DEF JoinRule, Components
<1>5. ASSUME Terminal(r)' PROVE \E c \in Apps : row'[r][c] # "none"
  <2>1. CASE Terminal(r)
    BY <1>0, <2>1 DEF JoinRule, RowsGrow, Components
  <2>2. CASE ~ Terminal(r)
    <3>1. status[r] = "running" /\ status'[r] # "running"
      BY <1>0, <1>5, <2>2 DEF JoinRule, Terminal
    <3> QED
      BY <1>0, <3>1, RunningEnds, JoinEnds DEF RootInv, LiveInv
  <2> QED
    BY <2>1, <2>2
<1>6. ASSUME NEW c \in Apps, row'[r][c] # "none"
      PROVE  prev'[r][c] = NoRun /\ \A q \in RunIds : q < r => row'[q][c] = "none"
  <2>0. c \in Components
    BY DEF Components
  <2>1. row[r][c] # "none" \/ ~ HasRows(c)
    BY <1>6, <2>0, JoinReaches
  <2>2. prev[r][c] = NoRun
    BY <1>0, <2>1 DEF JoinRule, RootInv, RootRules, Rooted, HasRows
  <2>3. \A q \in RunIds : q < r => row'[q][c] = "none"
    BY <1>0, <1>2, <2>1 DEF JoinRule, HasRows
  <2>4. CASE Makes(r)
    <3>1. ~ HasRows(c)
      BY <1>0, <2>0, <2>1, <2>4, MadeFromNothing
    <3>2. active[c] \in MaybeRun
      BY <1>0 DEF RootInv, LiveInv, LifeInv, WorkInv, TypeInv, TypeOK, RowTypes
    <3>3. active[c] = NoRun
      BY <1>0, <3>1, <3>2, RunNumbers DEF RootInv, RootRules, Rooted, HasRows
    <3> QED
      BY <2>3, <2>4, <3>3 DEF Makes
  <2>5. CASE ~ Makes(r)
    <3>1. prev'[r] = prev[r]
      BY <1>0, <2>5, StepKinds, WorkIsLocal DEF Quiet, Makes, RootInv, LiveInv
    <3> QED
      BY <2>2, <2>3, <3>1
  <2> QED
    BY <2>4, <2>5
<1> QED
  BY <1>1, <1>2, <1>3, <1>4, <1>5, <1>6 DEF JoinRule

LEMMA JoinStep == JoinInv /\ [Next]_vars => JoinRules'
<1> SUFFICES ASSUME JoinInv, [Next]_vars, NEW r \in join' PROVE JoinRule(r)'
  BY DEF JoinRules
<1>1. CASE r \in join
  BY <1>1, JoinGoesOn
<1>2. CASE r \notin join
  <2>1. PICK q \in RunIds : CreateJoin(q) /\ UNCHANGED <<row, ready>>
    BY <1>2, NewJoin
  <2>2. q = r
    BY <1>2, <2>1 DEF CreateJoin
  <2> QED
    BY <2>1, <2>2, RootFacts, JoinBegins DEF JoinInv
<1> QED
  BY <1>1, <1>2

\* next() asks after every run for components without a deployment.  A join
\* reaches only those, and leaves each of them with one, also when it fails
\* before it starts: the same components are not joined again and again.
THEOREM JoinsReachNewComponents == Spec => []JoinsAreFirstDeployments
<1>1. Init => RootInv /\ JoinRules
  BY RootInit DEF Init, JoinRules
<1>2. JoinInv /\ [Next]_vars => RootInv' /\ JoinRules'
  BY JoinStep, RootFacts DEF JoinInv
<1>3. RootInv /\ OneActiveRun /\ JoinRules <=> JoinInv
  BY DEF JoinInv
<1>4. Spec => []JoinInv
  BY <1>1, <1>2, <1>3, OneRunIsActive, PTL DEF Spec
<1>5. JoinInv => JoinsAreFirstDeployments
  BY DEF JoinInv, JoinRules, JoinRule, JoinsAreFirstDeployments
<1> QED
  BY <1>4, <1>5, PTL
-----------------------------------------------------------------------------
(* Variables *)

Flagged(c) == served[c] = edits \/ c \in needs

\* Run r has checked out its release for app c and compared the variables; run r
\* has written its variables to the server of app c.
Cloned(r, c) ==
    \/ stage[r] \notin {"none", "clone"}
    \/ row[r][c] = "finished"
    \/ worker[c] = "done" /\ holding[c].run = r
Written(r, c) ==
    \/ stage[r] = "post-release"
    \/ /\ stage[r] = "release" /\ ~ recovering[r]
       /\ \/ row[r][c] = "finished"
          \/ worker[c] \in {"prepared", "switched", "done"} /\ holding[c].run = r

\* A run that is in a stage has rows; a rollback neither clones nor builds.
Peopled == \A r \in RunIds : stage[r] # "none" => \E c \in Components : row[r][c] # "none"
RollbackStages == \A r \in RunIds : target[r] # NoRun => stage[r] \in {"none", "release", "post-release"}

\* A run that runs took the variables of its start; edits since then are known
\* to the app once it is cloned.
VersionRule(r, c) ==
    status[r] = "running" /\ target[r] = NoRun /\ row[r][c] # "none" =>
        /\ Cloned(r, c) => version[r] = edits \/ c \in needs
        /\ Written(r, c) => served[c] = version[r]

\* An app that no run is bringing new variables to.
Unattended(c) == \A r \in RunIds : Occupying(r) /\ row[r][c] # "none" => target[r] # NoRun
FlagRule(c) == HasRows(c) /\ Unattended(c) => Flagged(c)

VariableRules ==
    /\ Peopled
    /\ RollbackStages
    /\ \A c \in Apps : FlagRule(c) /\ \A r \in RunIds : VersionRule(r, c)
VariableInv == ReleaseInv /\ OneActiveRun /\ VariableRules

\* A run that no longer occupies the environment has ended.
LEMMA OccupationEnds ==
    ASSUME LifeInv, Shaped, NEW r \in RunIds, Occupying(r), ~ Occupying(r)'
    PROVE  \E s \in Endings : Ends(r, s)
<1> USE DEF LifeInv, WorkInv
<1>1. ASSUME NEW q \in RunIds, Passes(q) \/ Asks(q) \/ Rejects(q) \/ Joins(q) \/ Promotes(q)
      PROVE  FALSE
  <2>1. status[r] \notin {"none", "pending"}
    BY DEF Occupying
  <2>2. status'[r] = status[r] /\ (deadline[r] # "none" => deadline'[r] # "none")
    BY <1>1, <2>1
       DEF Passes, Asks, OutOfDate, Rejects, Joins, Promotes, Fresh, TypeInv, TypeOK, RunTypes
  <2> QED
    BY <2>2 DEF Occupying
<1>2. ASSUME NEW q \in RunIds, NEW s \in Endings, Ends(q, s) PROVE q = r
  BY <1>2, EndsChanges DEF Occupying
<1>3. ASSUME NEW q \in RunIds, NEW s \in Stages, NEW rec \in BOOLEAN,
             NEW d \in [RunIds -> [Components -> RowStatuses]], Starts(q, s, d) \/ Moves(q, s, rec)
      PROVE  FALSE
  <2>1. UNCHANGED status /\ deadline' = [deadline EXCEPT ![q] = "future"]
    BY <1>3 DEF Starts, Moves, Dispatch
  <2>2. deadline[r] # "none" => deadline'[r] # "none"
    BY <2>1 DEF TypeInv, TypeOK, RunTypes
  <2> QED
    BY <2>1, <2>2 DEF Occupying
<1>4. ~ SettlesRows
  BY DEF SettlesRows, Occupying
<1>5. row \in [RunIds -> [Components -> RowStatuses]]
  BY DEF TypeInv, TypeOK, RowTypes
<1> QED
  BY <1>1, <1>2, <1>3, <1>4, <1>5 DEF Shaped, RunStep

\* A run that leaves a stage for another moves.
LEMMA StageMoves ==
    ASSUME LifeInv, Shaped, NEW r \in RunIds, stage[r] # "none", stage'[r] # stage[r]
    PROVE  \E s \in Stages, rec \in BOOLEAN : Moves(r, s, rec) /\ stage'[r] = s
<1> USE DEF LifeInv, WorkInv
<1>1. ASSUME NEW q \in RunIds, NEW s \in Stages, NEW rec \in BOOLEAN, Moves(q, s, rec)
      PROVE  q = r /\ stage'[r] = s
  BY <1>1 DEF Moves, Dispatch, TypeInv, TypeOK, RunTypes
<1>2. ASSUME NEW q \in RunIds, NEW s \in Stages,
             NEW d \in [RunIds -> [Components -> RowStatuses]], Starts(q, s, d)
      PROVE  FALSE
  <2>1. stage[q] = "none" /\ stage' = [stage EXCEPT ![q] = s]
    BY <1>2 DEF Starts, Dispatch
  <2> QED
    BY <2>1
<1> QED
  BY <1>1, <1>2 DEF Shaped, RunStep, SettlesRows, Passes, Asks, Rejects, Joins, Promotes, Ends

\* A run enters its first stage when start() makes its rows.
LEMMA FirstStage ==
    ASSUME RootInv, [Next]_vars, NEW r \in RunIds, stage[r] = "none", stage'[r] # "none"
    PROVE  Makes(r)
BY StepKinds, WorkIsLocal DEF Quiet, Makes, RootInv, LiveInv

\* Work on an app is work for the run that runs.
LEMMA WorkOfRun ==
    ASSUME RootInv, OneActiveRun, NEW c \in Apps, Working(c), NEW r \in RunIds, status[r] = "running"
    PROVE  /\ holding[c].run = r
           /\ stage[r] = holding[c].stage /\ recovering[r] = holding[c].rec
           /\ row[r][c] = "deploying"
<1>1. c \in Components /\ WorkInv
  BY DEF Components, RootInv, LiveInv, LifeInv
<1>2. holding[c].run \in RunIds /\ Occupying(holding[c].run) /\ holding[c].comp = c /\ Awaited(holding[c])
  BY <1>1, WorkNeedsDeployingRow
<1>3. holding[c].run = r
  BY <1>2 DEF OneActiveRun, Occupying
<1> QED
  BY <1>2, <1>3 DEF Awaited

\* The rows a run has while it runs: start() makes them, or the run goes on with
\* the variables and the target it had.
LEMMA RowOfRun ==
    ASSUME RootInv, [Next]_vars, NEW r \in RunIds, NEW c \in Components,
           status'[r] = "running", target'[r] = NoRun, row'[r][c] # "none", ~ Makes(r)
    PROVE  /\ status[r] = "running" /\ target[r] = NoRun /\ row[r][c] # "none" /\ stage[r] # "none"
           /\ version'[r] = version[r]
           /\ \/ stage'[r] = stage[r] /\ recovering'[r] = recovering[r]
              \/ \E s \in Stages, rec \in BOOLEAN : Moves(r, s, rec)
<1> USE DEF RootInv, LiveInv
<1>0. Shaped
  BY RootFacts
<1>1. ASSUME NEW s \in Endings, Ends(r, s) PROVE FALSE
  BY <1>1, EndsChanges DEF Endings
<1>2. row[r][c] # "none"
  BY <1>1, NewRow
<1>3. /\ status[r] = "running" /\ stage[r] # "none"
      /\ \/ stage'[r] = stage[r] /\ recovering'[r] = recovering[r]
         \/ \E s \in Stages, rec \in BOOLEAN : Moves(r, s, rec)
  BY <1>0, <1>2, RunsGoOn
<1>4. target'[r] = target[r] /\ version'[r] = version[r]
  BY <1>3, StepKinds, WorkIsLocal DEF Quiet, Makes
<1> QED
  BY <1>2, <1>3, <1>4

\* Without work on it an app keeps its variables, and goes on asking for a deploy.
LEMMA AsideFlags ==
    ASSUME LifeInv, [Next]_vars, NEW c \in Apps, ~ Work(c)
    PROVE  /\ served'[c] = served[c]
           /\ c \in needs => c \in needs'
           /\ edits' = edits \/ c \in needs'
<1>1. CASE Quiet
  BY <1>1 DEF Quiet, hostVars
<1>2. ASSUME NEW b \in Components, Work(b) PROVE served'[c] = served[c] /\ (c \in needs <=> c \in needs') /\ edits' = edits
  BY <1>2, WorkIsLocal DEF Components
<1>3. ASSUME NEW m \in RunIds, Makes(m) PROVE UNCHANGED <<served, needs, edits>>
  BY <1>3 DEF Makes, hostVars, settings
<1> QED
  BY <1>1, <1>2, <1>3, StepKinds

\* start() makes rows of a run that clones first, so no app of it is cloned.
LEMMA MadeVersion ==
    ASSUME VariableInv, NEW r \in RunIds, Makes(r), NEW c \in Apps
    PROVE  VersionRule(r, c)'
<1>0. RootInv /\ c \in Components
  BY DEF VariableInv, ReleaseInv, Components
<1> SUFFICES ASSUME target'[r] = NoRun, row'[r][c] # "none" PROVE ~ Cloned(r, c)' /\ ~ Written(r, c)'
  BY DEF VersionRule
<1>1. stage'[r] = "clone" /\ row'[r][c] = "deploying" /\ UNCHANGED <<worker, holding>>
  BY <1>0 DEF Makes
<1>2. worker[c] = "done" => holding[c].run # r
  BY <1>0, MadeFromNothing, WorkOfRun DEF VariableInv, Working
<1> QED
  BY <1>1, <1>2 DEF Cloned, Written

\* Without work on the app: a run moves on from clone with every app cloned, and
\* from release with every app released.
LEMMA AsideVersion ==
    ASSUME VariableInv, [Next]_vars, NEW r \in RunIds, ~ Makes(r), NEW c \in Apps, ~ Work(c)
    PROVE  VersionRule(r, c)'
<1> SUFFICES ASSUME status'[r] = "running", target'[r] = NoRun, row'[r][c] # "none"
             PROVE  /\ Cloned(r, c)' => version'[r] = edits' \/ c \in needs'
                    /\ Written(r, c)' => served'[c] = version'[r]
  BY DEF VersionRule
<1>0. /\ RootInv /\ ReleaseInv /\ LifeInv /\ c \in Components /\ c \notin Balancers
      /\ VersionRule(r, c)
  BY ComponentsAssumption DEF VariableInv, VariableRules, ReleaseInv, RootInv, LiveInv, Components
<1>1. /\ status[r] = "running" /\ target[r] = NoRun /\ row[r][c] # "none" /\ stage[r] # "none"
      /\ version'[r] = version[r]
      /\ \/ stage'[r] = stage[r] /\ recovering'[r] = recovering[r]
         \/ \E s \in Stages, rec \in BOOLEAN : Moves(r, s, rec)
  BY <1>0, RowOfRun
<1>2. /\ served'[c] = served[c]
      /\ c \in needs => c \in needs'
      /\ edits' = edits \/ c \in needs'
  BY <1>0, AsideFlags
<1>3. /\ row'[r][c] = "finished" => row[r][c] = "finished"
      /\ worker'[c] \in Engaged => worker'[c] = worker[c] /\ holding'[c] = holding[c]
  BY <1>0, StepTouches DEF Untouched
<1>4. worker[c] \in Engaged => Working(c)
  BY DEF Engaged, ReleaseSteps, Working
<1>5. (Cloned(r, c)' => Cloned(r, c)) /\ (Written(r, c)' => Written(r, c))
  <2>1. CASE stage'[r] = stage[r] /\ recovering'[r] = recovering[r]
    BY <1>3, <2>1 DEF Cloned, Written, Engaged, ReleaseSteps
  <2>2. ASSUME NEW s \in Stages, NEW rec \in BOOLEAN, Moves(r, s, rec)
        PROVE  Cloned(r, c) /\ (Written(r, c)' => Written(r, c))
    <3>1. row[r][c] \in RowStatuses /\ row[r][c] # "deploying"
      BY <1>0, <2>2 DEF Moves, NothingDeploys, LifeInv, WorkInv, TypeInv, TypeOK, RowTypes
    <3>2. worker'[c] \notin Engaged \/ holding'[c].run # r
      BY <1>0, <1>1, <1>3, <1>4, <3>1, WorkOfRun DEF VariableInv
    <3>3. /\ stage'[r] = s
          /\ s = "release" => row'[r][c] = "deploying"
      BY <1>0, <1>1, <2>2, MovingRun
    <3>4. stage[r] \in {"clone", "release"} =>
              \/ row[r][c] = "finished"
              \/ rec /\ s = "release" /\ stage[r] = "release"
      BY <1>0, <1>1, <2>2, <3>1 DEF Moves, Participants, RowStatuses
    <3>5. Cloned(r, c)
      BY <1>1, <3>4 DEF Cloned
    <3>6. s = "post-release" => stage[r] = "release" /\ ~ recovering[r]
      BY <2>2 DEF Moves, NextStage, Stages
    <3>7. Written(r, c)' => s = "post-release"
      BY <3>2, <3>3 DEF Written, Engaged, ReleaseSteps
    <3> QED
      BY <3>4, <3>5, <3>6, <3>7 DEF Written
  <2> QED
    BY <1>1, <2>1, <2>2
<1> QED
  BY <1>0, <1>1, <1>2, <1>5 DEF VersionRule

\* A worker: a clone compares with the variables there are by then, the env file
\* is written from the version of the run, and only a recovery puts another back.
LEMMA WorkerVersion ==
    ASSUME VariableInv, NEW c \in Apps, Work(c), NEW r \in RunIds,
           status[r] = "running", target[r] = NoRun, row[r][c] # "none"
    PROVE  /\ Cloned(r, c)' => version[r] = edits \/ c \in needs'
           /\ Written(r, c)' => served'[c] = version[r]
<1>0. /\ RootInv /\ c \in Components /\ c \notin Balancers
      /\ VersionRule(r, c) /\ WorkerRule(c)
  BY ComponentsAssumption
     DEF VariableInv, VariableRules, ReleaseInv, ReleaseRules, RootInv, Components
<1>1. Working(c)
  BY DEF Work, CloneRelease, BeginRelease, ReleaseEnv, SwitchRelease, ActivateRelease, RestoreRelease,
         RestoreActive, CompleteStage, At, Working
<1>2. /\ holding[c].run = r
      /\ stage[r] = holding[c].stage /\ recovering[r] = holding[c].rec
      /\ row[r][c] = "deploying"
  BY <1>0, <1>1, WorkOfRun DEF VariableInv
<1>3. UNCHANGED <<stage, recovering>>
  BY <1>0, WorkIsLocal DEF RootInv, LiveInv
<1>4. /\ Cloned(r, c) => version[r] = edits \/ c \in needs
      /\ Written(r, c) => served[c] = version[r]
  BY <1>0 DEF VersionRule
<1> USE DEF RootInv, LiveInv, LifeInv, WorkInv, TypeInv, TypeOK
<1>5. CASE CloneRelease(c)
  <2>1. /\ stage[r] = "clone"
        /\ needs' = IF version[r] = edits THEN needs \ {c} ELSE needs \cup {c}
    BY <1>2, <1>5 DEF CloneRelease, At, NeedsAfterClone
  <2> QED
    BY <1>3, <2>1 DEF Written
<1>6. CASE BeginRelease(c)
  <2>1. /\ stage[r] = "release" /\ row' = row /\ needs' = needs
        /\ worker'[c] = "started"
    BY <1>0, <1>2, <1>6 DEF BeginRelease, At, WorkerMoves, envVars, LockTypes
  <2> QED
    BY <1>2, <1>3, <1>4, <2>1 DEF Cloned, Written
<1>7. CASE ReleaseEnv(c)
  <2>1. stage[r] = "release"
    BY <1>0, <1>2, <1>7 DEF ReleaseEnv, LiveRules, ReleasingInRelease, ReleaseSteps
  <2>2. served'[c] = version[r] /\ needs' = needs
    BY <1>0, <1>2, <1>7 DEF ReleaseEnv, HostTypes, envVars
  <2> QED
    BY <1>4, <2>1, <2>2 DEF Cloned
<1>8. CASE SwitchRelease(c) \/ ActivateRelease(c)
  <2>1. worker[c] \in {"prepared", "switched"} /\ UNCHANGED <<served, needs>>
    BY <1>8 DEF SwitchRelease, ActivateRelease, hostVars, envVars
  <2>2. stage[r] = "release" /\ ~ recovering[r]
    BY <1>0, <1>2, <2>1 DEF LiveRules, ReleasingInRelease, ReleaseSteps, WorkerRule
  <2>3. worker[c] = "prepared" \/ worker[c] = "switched" => Cloned(r, c)
    BY <2>2 DEF Cloned
  <2>4. served[c] = version[r]
    <3>1. CASE worker[c] = "prepared"
      BY <1>2, <1>4, <2>2, <3>1 DEF Written
    <3>2. CASE worker[c] = "switched"
      BY <1>2, <1>4, <2>2, <3>2 DEF Written
    <3> QED
      BY <2>1, <3>1, <3>2
  <2> QED
    BY <1>4, <2>1, <2>3, <2>4
<1>9. CASE RestoreRelease(c) \/ RestoreActive(c)
  <2>1. stage[r] = "release" /\ recovering[r] /\ needs' = needs
    BY <1>0, <1>2, <1>9
       DEF RestoreRelease, RestoreActive, At, envVars, WorkerRule, LiveRules, ReleasingInRelease, ReleaseSteps
  <2> QED
    BY <1>3, <1>4, <2>1 DEF Cloned, Written
<1>10. CASE CompleteStage(c)
  <2>1. /\ served' = served /\ needs \subseteq needs'
        /\ worker'[c] = "free"
        /\ worker[c] = "done" \/ stage[r] \in Scripted
    BY <1>0, <1>2, <1>10 DEF CompleteStage, FreeLock, hostVars, LockTypes
  <2>2. CASE worker[c] = "done"
    BY <1>2, <1>3, <1>4, <2>1, <2>2 DEF Cloned, Written
  <2>3. CASE stage[r] \in Scripted
    BY <1>3, <1>4, <2>1, <2>3 DEF Cloned, Written, Scripted
  <2> QED
    BY <2>1, <2>2, <2>3
<1> QED
  BY <1>5, <1>6, <1>7, <1>8, <1>9, <1>10 DEF Work

LEMMA VersionStep ==
    ASSUME VariableInv, [Next]_vars, NEW c \in Apps, NEW r \in RunIds
    PROVE  VersionRule(r, c)'
<1>1. CASE Makes(r)
  BY <1>1, MadeVersion
<1>2. CASE ~ Makes(r) /\ ~ Work(c)
  BY <1>2, AsideVersion
<1>3. CASE ~ Makes(r) /\ Work(c)
  <2> SUFFICES ASSUME status'[r] = "running", target'[r] = NoRun, row'[r][c] # "none"
               PROVE  /\ Cloned(r, c)' => version'[r] = edits' \/ c \in needs'
                      /\ Written(r, c)' => served'[c] = version'[r]
    BY DEF VersionRule
  <2>1. RootInv /\ c \in Components
    BY DEF VariableInv, ReleaseInv, Components
  <2>2. /\ status[r] = "running" /\ target[r] = NoRun /\ row[r][c] # "none"
        /\ version'[r] = version[r]
    BY <1>3, <2>1, RowOfRun
  <2>3. edits' = edits
    BY <1>3, <2>1, WorkIsLocal DEF RootInv, LiveInv
  <2> QED
    BY <1>3, <2>2, <2>3, WorkerVersion
<1> QED
  BY <1>1, <1>2, <1>3

\* A rollback leaves the variables of an app alone, and does not clone.
LEMMA RollbackFlags ==
    ASSUME VariableInv, NEW c \in Apps, Work(c), HasRows(c), Unattended(c)
    PROVE  Flagged(c)'
<1>0. RootInv /\ c \in Components /\ Flagged(c) /\ LifeInv /\ WorkInv
  BY DEF VariableInv, VariableRules, FlagRule, ReleaseInv, RootInv, LiveInv, LifeInv, Components
<1>1. Working(c)
  BY DEF Work, CloneRelease, BeginRelease, ReleaseEnv, SwitchRelease, ActivateRelease, RestoreRelease,
         RestoreActive, CompleteStage, At, Working
<1>2. PICK h \in RunIds : h = holding[c].run
  BY <1>0, <1>1, WorkNeedsDeployingRow
<1>3. Occupying(h) /\ row[h][c] = "deploying" /\ stage[h] = holding[c].stage
  BY <1>0, <1>1, <1>2, WorkNeedsDeployingRow DEF Awaited
<1>4. target[h] # NoRun /\ c \notin prepared[h]
  BY <1>0, <1>3 DEF Unattended, RootInv, RootRules, Rooted
<1>5. holding[c].stage # "clone"
  BY <1>3, <1>4 DEF VariableInv, VariableRules, RollbackStages
<1>6. UNCHANGED <<served, edits>> /\ needs \subseteq needs'
  BY <1>2, <1>4, <1>5
     DEF Work, CloneRelease, BeginRelease, ReleaseEnv, SwitchRelease, ActivateRelease, RestoreRelease,
         RestoreActive, CompleteStage, At, hostVars, envVars, settings
<1> QED
  BY <1>0, <1>6 DEF Flagged

\* A run that ends leaves an app with its own variables, which are the latest if
\* the app does not ask for a deploy, or makes it ask.
LEMMA EndingFlags ==
    ASSUME VariableInv, NEW r \in RunIds, NEW s \in Endings, Ends(r, s), Occupying(r),
           target[r] = NoRun, NEW c \in Apps, row[r][c] # "none"
    PROVE  Flagged(c) \/ c \in needs'
<1>0. RootInv /\ LiveInv /\ LifeInv /\ VersionRule(r, c) /\ c \in Components
  BY DEF VariableInv, VariableRules, ReleaseInv, RootInv, LiveInv, Components
<1>1. CASE s = "finished"
  <2>1. stage[r] = "post-release"
    BY <1>1 DEF Ends
  <2>2. status[r] = "running"
    BY <1>0, <2>1 DEF Occupying, LiveInv, LiveRules, CancelledBefore
  <2> QED
    BY <1>0, <2>1, <2>2 DEF VersionRule, Cloned, Written, Flagged
<1>2. CASE s # "finished"
  <2>1. FinishRun(r, s)
    BY DEF Ends
  <2>2. row[r][c] # "none" => c \in needs'
    BY <1>0, <1>2, <2>1 DEF FinishRun, LifeInv, WorkInv, TypeInv, TypeOK, RowTypes
  <2> QED
    BY <2>2
<1> QED
  BY <1>1, <1>2

\* The first row of an app is that of a run that will bring it its variables, or
\* that of a join that ended before it began.
LEMMA FirstRowFlags ==
    ASSUME VariableInv, [Next]_vars, NEW c \in Apps, ~ HasRows(c), HasRows(c)', Unattended(c)'
    PROVE  Flagged(c)'
<1>0. RootInv /\ LifeInv /\ c \in Components
  BY DEF VariableInv, ReleaseInv, RootInv, LiveInv, Components
<1>1. PICK r \in RunIds : row[r][c] = "none" /\ row'[r][c] # "none"
  BY DEF HasRows
<1>2. ~ Makes(r)
  <2> SUFFICES ASSUME Makes(r) PROVE FALSE
    OBVIOUS
  <2>1. c \in Recruits(r) /\ status'[r] = "running" /\ target'[r] = target[r]
    BY <1>0, <1>1 DEF Makes, Startable
  <2>2. target[r] = NoRun
    BY <2>1 DEF Recruits
  <2> QED
    BY <1>1, <2>1, <2>2 DEF Unattended, Occupying
<1>3. PICK s \in Endings : Ends(r, s)
  BY <1>0, <1>1, <1>2, NewRow
<1>4. FinishRun(r, s)
  BY <1>3 DEF Ends
<1>5. c \in Tried(r) /\ row'[r][c] = "failed"
  BY <1>0, <1>1, <1>4 DEF FinishRun, LifeInv, WorkInv, TypeInv, TypeOK, RowTypes
<1>6. stage[r] = "none"
  BY <1>5 DEF Tried, VariableInv, VariableRules, Peopled
<1>7. s # "finished"
  BY <1>3, <1>6 DEF Ends
<1>8. c \in needs'
  BY <1>4, <1>5, <1>7 DEF FinishRun
<1> QED
  BY <1>8 DEF Flagged

LEMMA FlagStep ==
    ASSUME VariableInv, [Next]_vars, NEW c \in Apps
    PROVE  FlagRule(c)'
<1> SUFFICES ASSUME HasRows(c)', Unattended(c)' PROVE Flagged(c)'
  BY DEF FlagRule
<1>0. /\ RootInv /\ LifeInv /\ Shaped /\ RowsGrow /\ c \in Components /\ FlagRule(c)
  BY RootFacts DEF VariableInv, VariableRules, ReleaseInv, RootInv, LiveInv, Components
<1>1. ASSUME ~ Work(c), Flagged(c) \/ c \in needs' PROVE Flagged(c)'
  BY <1>0, <1>1, AsideFlags DEF Flagged
<1>2. CASE HasRows(c) /\ Unattended(c)
  BY <1>0, <1>1, <1>2, RollbackFlags DEF FlagRule
<1>3. CASE ~ Unattended(c)
  <2>1. PICK r \in RunIds : Occupying(r) /\ row[r][c] # "none" /\ target[r] = NoRun
    BY <1>3 DEF Unattended
  <2>2. target'[r] = target[r]
    BY <1>0, <2>1, StepKinds, WorkIsLocal DEF Quiet, Makes, Occupying
  <2>3. ~ Occupying(r)'
    BY <1>0, <2>1, <2>2 DEF Unattended, RowsGrow
  <2>4. PICK s \in Endings : Ends(r, s)
    BY <1>0, <2>1, <2>3, OccupationEnds
  <2>5. ~ Work(c)
    BY <1>0, <2>1, <2>3, WorkIsLocal DEF Occupying
  <2> QED
    BY <1>1, <2>1, <2>4, <2>5, EndingFlags
<1>4. CASE ~ HasRows(c)
  BY <1>4, FirstRowFlags
<1> QED
  BY <1>2, <1>3, <1>4

LEMMA PeopledStays ==
    ASSUME RootInv, [Next]_vars, Peopled
    PROVE  Peopled'
<1> SUFFICES ASSUME NEW r \in RunIds, stage'[r] # "none" PROVE \E c \in Components : row'[r][c] # "none"
  BY DEF Peopled
<1>1. CASE stage[r] # "none"
  BY <1>1, RootFacts DEF Peopled, RowsGrow
<1>2. CASE stage[r] = "none"
  <2>1. Makes(r)
    BY <1>2, FirstStage
  <2>2. PICK c \in Recruits(r) : TRUE
    BY <2>1 DEF Makes
  <2>3. c \in Components
    BY <2>2 DEF Recruits, RootInv, LiveInv, LifeInv, WorkInv, TypeInv, TypeOK, EnvTypes
  <2> QED
    BY <2>1, <2>2, <2>3 DEF Makes
<1> QED
  BY <1>1, <1>2

LEMMA RollbackStagesStay ==
    ASSUME RootInv, [Next]_vars, RollbackStages
    PROVE  RollbackStages'
<1> SUFFICES ASSUME NEW r \in RunIds, target'[r] # NoRun
             PROVE  stage'[r] \in {"none", "release", "post-release"}
  BY DEF RollbackStages
<1>0. LifeInv /\ Shaped
  BY RootFacts DEF RootInv, LiveInv
<1>1. CASE stage[r] = "none"
  <2>1. stage'[r] # "none" => Makes(r)
    BY <1>1, FirstStage
  <2> QED
    BY <1>0, <2>1 DEF Makes, LifeInv, WorkInv, TypeInv, TypeOK, RunTypes
<1>2. CASE stage[r] # "none"
  <2>1. status[r] # "none"
    BY <1>0, <1>2 DEF LifeInv, LifeRules, WaitsUntouched
  <2>2. target[r] # NoRun
    BY <1>0, <2>1, StepKinds, WorkIsLocal DEF Quiet, Makes
  <2>3. stage[r] \in {"release", "post-release"}
    BY <1>2, <2>2 DEF RollbackStages
  <2>4. ASSUME NEW s \in Stages, NEW rec \in BOOLEAN, Moves(r, s, rec)
        PROVE  s \in {"release", "post-release"}
    BY <2>3, <2>4 DEF Moves, NextStage, Stages
  <2> QED
    BY <1>0, <1>2, <2>3, <2>4, StageMoves
<1> QED
  BY <1>1, <1>2

\* Variables are edited while runs clone, release, fail, are cancelled and
\* recovered.  Whenever no run is bringing an app its variables, the app has the
\* latest ones on its server or is marked as in need of a deploy.
THEOREM StaleAppsAskForDeploy == Spec => []StaleVariablesAreFlagged
<1>1. Init => ReleaseInv /\ VariableRules
  <2> SUFFICES ASSUME Init PROVE VariableRules
    BY ReleaseInit
  <2>1. Peopled /\ RollbackStages
    BY DEF Init, Peopled, RollbackStages
  <2>2. \A c \in Apps : FlagRule(c) /\ \A r \in RunIds : VersionRule(r, c)
    BY DEF Init, FlagRule, VersionRule, HasRows, Components
  <2> QED
    BY <2>1, <2>2 DEF VariableRules
<1>2. VariableInv /\ [Next]_vars => VariableRules'
  BY PeopledStays, RollbackStagesStay, FlagStep, VersionStep DEF VariableInv, VariableRules, ReleaseInv
<1>3. VariableInv <=> ReleaseInv /\ OneActiveRun /\ VariableRules
  BY DEF VariableInv
<1>4. Spec => []VariableInv
  BY <1>1, <1>2, <1>3, ReleaseInvariant, OneRunIsActive, PTL DEF Spec
<1>5. VariableInv => StaleVariablesAreFlagged
  BY DEF VariableInv, VariableRules, FlagRule, Unattended, Flagged, StaleVariablesAreFlagged
<1> QED
  BY <1>4, <1>5, PTL
=============================================================================
