----------------------- MODULE EnvironmentDeployment -----------------------
(***************************************************************************)
(* Deployment runs of one environment: the rows of environment_deployments *)
(* (runs) and deployments (one row per run and component), the queue jobs  *)
(* that carry a run through its stages, the component locks those jobs     *)
(* take, the watchdog, cancellation, rollback, joining and release pruning.*)
(*                                                                         *)
(* Every DB::transaction of the code locks application, environment and    *)
(* run before it reads (SQLite transactions are IMMEDIATE), so one         *)
(* transaction is one step.  Work outside transactions is cut at every     *)
(* point where another actor can observe it.                               *)
(*                                                                         *)
(* Bounds: MaxRuns runs, MaxEdits variable edits, MaxFaults errors (thrown *)
(* stages, lost workers, lost calls); Events names the outside events that *)
(* an instance explores.                                                   *)
(***************************************************************************)
EXTENDS Naturals, FiniteSets

CONSTANTS
    Apps,           \* components of type app
    Balancers,      \* components of type load_balancer
    Primary,        \* environment.primary_component_id
    KeepReleases,   \* environment.keep_releases
    NoComponent,    \* the component of a direct advance() call
    NoJob,          \* what a free worker slot holds
    MaxRuns, MaxEdits, MaxFaults,
    Events          \* subset of EventNames

EventNames == {"setup", "webhook", "cancel", "unready", "teardown", "late"}

ASSUME ComponentsAssumption ==
    /\ Primary \in Apps
    /\ Apps \cap Balancers = {}
    /\ NoComponent \notin Apps \cup Balancers
    /\ IsFiniteSet(Apps)

ASSUME BoundsAssumption ==
    /\ MaxRuns \in Nat
    /\ MaxEdits \in Nat
    /\ MaxFaults \in Nat
    /\ KeepReleases \in Nat \ {0}
    /\ Events \subseteq EventNames

Components == Apps \cup Balancers
RunIds == 1..MaxRuns
NoRun == 0
MaybeRun == 0..MaxRuns
Versions == 0..MaxEdits

Stages == {"clone", "build", "pre-release", "release", "post-release"}
Statuses == {"none", "pending", "running", "finished", "failed", "partial",
             "cancelled", "rolled_back", "superseded"}
Deadlines == {"none", "future", "past"}
RowStatuses == {"none", "deploying", "finished", "failed"}

\* A queued DeployComponentStageJob, and a call of advance(): direct
\* (comp = NoComponent) or by an AdvanceEnvironmentDeploymentJob.
StageJob == [run : RunIds, comp : Components, stage : Stages, rec : BOOLEAN]
AdvanceCall == [run : RunIds, comp : Components \cup {NoComponent},
                stage : Stages, rec : BOOLEAN]

\* Where the holder of a component lock is. "dead": the worker is gone and
\* its lock is waiting to expire.
WorkerSteps == {"free", "working", "started", "prepared", "switched",
                "restored", "done", "dead"}
FinishSteps == {"none", "queued", "pruning", "failing"}

VARIABLES
    status, stage, recovering, deadline,   \* environment_deployments, by run
    join, target, release, version,        \* is_join, rollback_of_id, ...
    row, rowStage, kept, prev, started,    \* deployments, by run and component
    active,                                \* the run whose deployment is active
    prepared, symlink, served, envPrev,    \* on the server: marker, current, .env
    envStatus, deployOnReady, live, edits, \* environments
    ready, needs,                          \* components: READY, needs_redeploy
    starts, finishes, todo,                \* start and finish jobs, by run
    stageJobs, advances,                   \* queued stage jobs, advance calls
    worker, holding,                       \* holder of each component lock
    faults

runVars == <<status, stage, recovering, deadline, join, target, release, version>>
rowVars == <<row, rowStage, kept, prev, started, active>>
hostVars == <<prepared, symlink, served, envPrev>>
envVars == <<envStatus, deployOnReady, live, edits, ready, needs>>
jobVars == <<starts, finishes, todo, stageJobs, advances>>
lockVars == <<worker, holding>>
\* Parts of these that most steps leave alone.
origin == <<join, target, release>>
releaseVars == <<kept, prev, started, active>>
settings == <<envStatus, deployOnReady, edits, ready>>
queued == <<stageJobs, advances>>
vars == <<runVars, rowVars, hostVars, envVars, jobVars, lockVars, faults>>
-----------------------------------------------------------------------------
(* State formulas *)

\* Every run status but pending and running is terminal.
Terminal(r) == status[r] \notin {"none", "pending", "running"}

\* A run that is carrying out stages or draining a cancellation.
Occupying(r) ==
    \/ status[r] = "running"
    \/ status[r] = "cancelled" /\ deadline[r] # "none"

Blocking_NotDraining(r) == status[r] \in {"pending", "running"}
Blocking(r) == status[r] = "pending" \/ Occupying(r)
Idle == ~ \E r \in RunIds : Blocking(r)

Fresh(r) == status[r] = "none" /\ \A q \in 1..(r - 1) : status[q] # "none"

HasRows(c) == \E r \in RunIds : row[r][c] # "none"
Joinable == {c \in Apps \cap ready : ~ HasRows(c)}

\* The components that take part in stage s of run r, given the rows d.
Participants(r, s, d) ==
    {c \in Components :
        /\ d[r][c] # "none"
        /\ c \in Balancers => s = "release" /\ r \notin join
        /\ s = "pre-release" => c = Primary}

CanCancel_AnyStage(r) ==
    status[r] = "pending" \/ (status[r] = "running" /\ ~ recovering[r])
CanCancel_AnyStatus(r) ==
    status[r] # "none" /\ ~ recovering[r] /\ stage[r] \notin {"release", "post-release"}
CanCancel(r) ==
    \/ status[r] = "pending"
    \/ status[r] = "running" /\ ~ recovering[r] /\ stage[r] \notin {"release", "post-release"}

\* Component c still has the release of run t, from a deployment that finished.
HasRelease(c, t) ==
    \E q \in RunIds : row[q][c] = "finished" /\ c \in kept[q] /\ release[q] = release[t]

CanRollback(t) ==
    /\ t \notin join
    /\ status[t] = "finished"
    /\ \E c \in Apps : HasRows(c)
    /\ \A c \in Apps : HasRows(c) => c \in ready /\ HasRelease(c, t)

Valid == envStatus = "ready" /\ Primary \in ready

CanJoin ==
    /\ envStatus = "ready"
    /\ live # NoRun
    /\ Idle
    /\ Joinable # {}

\* RunComponentStage::pending: the job still describes what the run waits for.
Awaited(j) ==
    /\ status[j.run] \in {"running", "cancelled"}
    /\ stage[j.run] = j.stage
    /\ recovering[j.run] = j.rec
    /\ rowStage[j.run][j.comp] = j.stage
    /\ row[j.run][j.comp] = "deploying"

LockFree(c) == worker[c] = "free"
Working(c) == worker[c] \notin {"free", "dead"}

\* A finished cancellation keeps its deadline while some row is still deploying.
Draining_Never(r, s) == FALSE
Draining(r, s) == s = "cancelled" /\ \E c \in Components : row[r][c] = "deploying"
-----------------------------------------------------------------------------
Init ==
    /\ status = [r \in RunIds |-> "none"]
    /\ stage = [r \in RunIds |-> "none"]
    /\ recovering = [r \in RunIds |-> FALSE]
    /\ deadline = [r \in RunIds |-> "none"]
    /\ join = {}
    /\ target = [r \in RunIds |-> NoRun]
    /\ release = [r \in RunIds |-> NoRun]
    /\ version = [r \in RunIds |-> 0]
    /\ row = [r \in RunIds |-> [c \in Components |-> "none"]]
    /\ rowStage = [r \in RunIds |-> [c \in Components |-> "none"]]
    /\ kept = [r \in RunIds |-> {}]
    /\ prev = [r \in RunIds |-> [c \in Apps |-> NoRun]]
    /\ started = [r \in RunIds |-> {}]
    /\ active = [c \in Apps |-> NoRun]
    /\ prepared = [r \in RunIds |-> {}]
    /\ symlink = [c \in Apps |-> NoRun]
    /\ served = [c \in Apps |-> 0]
    /\ envPrev = [c \in Apps |-> 0]
    /\ envStatus = "ready"
    /\ deployOnReady \in BOOLEAN
    /\ deployOnReady => "setup" \in Events
    /\ live = NoRun
    /\ edits = 0
    /\ ready = {}
    /\ needs = {}
    /\ starts = [r \in RunIds |-> "none"]
    /\ finishes = [r \in RunIds |-> "none"]
    /\ todo = [r \in RunIds |-> {}]
    /\ stageJobs = {}
    /\ advances = {}
    /\ worker = [c \in Components |-> "free"]
    /\ holding = [c \in Components |-> NoJob]
    /\ faults = 0
-----------------------------------------------------------------------------
(* Ending a run and entering a stage *)

\* A join that never made a row marks its components as tried, so that next()
\* does not join them again.
Tried_Nothing(r) == {}
Tried(r) == IF r \in join /\ \A c \in Components : row[r][c] = "none" THEN Joinable ELSE {}

\* AdvanceEnvironmentDeployment::finish
FinishRun(r, s) ==
    LET rows == [row EXCEPT ![r] = [c \in Components |-> IF c \in Tried(r) THEN "failed" ELSE row[r][c]]]
    IN  /\ row' = rows
        /\ status' = [status EXCEPT ![r] = s]
        /\ deadline' = [deadline EXCEPT ![r] = IF Draining(r, s) THEN @ ELSE "none"]
        /\ needs' = IF s = "finished" THEN needs ELSE needs \cup {c \in Apps : rows[r][c] # "none"}
        /\ finishes' = IF Draining(r, s) THEN finishes ELSE [finishes EXCEPT ![r] = "queued"]

\* AdvanceEnvironmentDeployment::dispatch: d holds the rows before the stage.
Dispatch(r, s, rec, d) ==
    LET p == Participants(r, s, d)
    IN  /\ stage' = [stage EXCEPT ![r] = s]
        /\ recovering' = [recovering EXCEPT ![r] = rec]
        /\ deadline' = [deadline EXCEPT ![r] = "future"]
        /\ row' = [d EXCEPT ![r] = [c \in Components |-> IF c \in p THEN "deploying" ELSE d[r][c]]]
        /\ rowStage' = [rowStage EXCEPT ![r] = [c \in Components |-> IF c \in p THEN s ELSE rowStage[r][c]]]
        /\ stageJobs' = stageJobs \cup {[run |-> r, comp |-> c, stage |-> s, rec |-> rec] : c \in p}
-----------------------------------------------------------------------------
(* Requests *)

\* A request waits while another run is running or draining.
MustWait_RunningOnly == \E q \in RunIds : status[q] = "running"
MustWait == \E q \in RunIds : Occupying(q)

\* What becomes of the other runs: a waiting one is superseded.
OutOfDate_KeepsWaiting(q) == status[q]
OutOfDate(q) == IF status[q] = "pending" THEN "superseded" ELSE status[q]

\* DeployEnvironment::run
CreateRun(r, t) ==
    /\ Fresh(r)
    /\ status' = [q \in RunIds |-> IF q = r THEN (IF MustWait THEN "pending" ELSE "running")
                                   ELSE OutOfDate(q)]
    /\ deadline' = [deadline EXCEPT ![r] = IF MustWait THEN "none" ELSE "future"]
    /\ target' = [target EXCEPT ![r] = t]
    /\ release' = [release EXCEPT ![r] = IF t = NoRun THEN r ELSE release[t]]
    /\ starts' = IF MustWait THEN starts ELSE [starts EXCEPT ![r] = "queued"]
    /\ deployOnReady' = FALSE
    /\ UNCHANGED <<stage, recovering, join, version, rowVars, hostVars, envStatus, live, edits,
                   ready, needs, queued, finishes, todo, lockVars, faults>>

\* A deploy request from a user or a webhook.
Deploy == Valid /\ \E r \in RunIds : CreateRun(r, NoRun)

Rollback ==
    /\ envStatus = "ready"
    /\ \E t \in RunIds : CanRollback(t) /\ \E r \in RunIds : CreateRun(r, t)

\* DeployEnvironment::whenReady, called by the install and the resource jobs.
WhenReady ==
    /\ deployOnReady
    /\ Primary \in ready
    /\ Valid
    /\ \E r \in RunIds : CreateRun(r, NoRun)

\* The transaction of whenReady threw: the flag is dropped, no run is made.
WhenReadyFails ==
    /\ deployOnReady
    /\ Primary \in ready
    /\ deployOnReady' = FALSE
    /\ UNCHANGED <<runVars, rowVars, hostVars, envStatus, live, edits, ready, needs, jobVars,
                   lockVars, faults>>

\* TriggerEnvironmentDeployFromWebhook::failed: the request leaves a FAILED run.
WebhookFails ==
    /\ "webhook" \in Events
    /\ \E r \in RunIds :
        /\ Fresh(r)
        /\ status' = [status EXCEPT ![r] = "failed"]
        /\ release' = [release EXCEPT ![r] = r]
        /\ UNCHANGED <<stage, recovering, deadline, join, target, version, rowVars, hostVars,
                       envVars, jobVars, lockVars, faults>>

\* DeployEnvironment::join: new components receive the release that is live.
\* The install and the resource jobs call it at any time.
CreateJoin(r) ==
    /\ CanJoin
    /\ Fresh(r)
    /\ status' = [status EXCEPT ![r] = "running"]
    /\ join' = join \cup {r}
    /\ deadline' = [deadline EXCEPT ![r] = "future"]
    /\ release' = [release EXCEPT ![r] = release[live]]
    /\ version' = [version EXCEPT ![r] = version[live]]
    /\ starts' = [starts EXCEPT ![r] = "queued"]

Join ==
    /\ \E r \in RunIds : CreateJoin(r)
    /\ UNCHANGED <<stage, recovering, target, rowVars, hostVars, envVars, queued, finishes, todo,
                   lockVars, faults>>

\* CancelEnvironmentDeployment::cancel
Cancel(r) ==
    /\ "cancel" \in Events
    /\ CanCancel(r)
    /\ FinishRun(r, "cancelled")
    /\ UNCHANGED <<origin, stage, recovering, version, releaseVars, rowStage, hostVars, settings,
                   live, queued, starts, todo, lockVars, faults>>
-----------------------------------------------------------------------------
(* The rest of the environment, as far as the runs depend on it *)

\* A variable is written or removed: MarkEnvironmentForRedeploy.
EditVariables ==
    /\ envStatus = "ready"
    /\ edits < MaxEdits
    /\ edits' = edits + 1
    /\ needs' = Apps
    /\ UNCHANGED <<runVars, rowVars, hostVars, envStatus, deployOnReady, live, ready, jobVars,
                   lockVars, faults>>

\* An install or a sync job made the component READY.
ComponentReady(c) ==
    /\ envStatus = "ready"
    /\ c \notin ready
    /\ ready' = ready \cup {c}
    /\ UNCHANGED <<runVars, rowVars, hostVars, envStatus, deployOnReady, live, edits, needs,
                   jobVars, lockVars, faults>>

\* A change of runtime or capabilities puts an app back to PENDING; both
\* refuse while a run is blocking.
ComponentUnready(c) ==
    /\ "unready" \in Events
    /\ Idle
    /\ envStatus = "ready"
    /\ c \in ready \cap Apps
    /\ ready' = ready \ {c}
    /\ needs' = needs \cup {c}
    /\ UNCHANGED <<runVars, rowVars, hostVars, envStatus, deployOnReady, live, edits, jobVars,
                   lockVars, faults>>

\* DeleteEnvironment::delete
BeginTeardown ==
    /\ "teardown" \in Events
    /\ Idle
    /\ envStatus = "ready"
    /\ envStatus' = "deleting"
    /\ ready' = {}
    /\ UNCHANGED <<runVars, rowVars, hostVars, deployOnReady, live, edits, needs, jobVars, lockVars,
                   faults>>
-----------------------------------------------------------------------------
(* StartEnvironmentDeploymentJob *)

Startable(r) == status[r] = "running" /\ stage[r] = "none"

\* What the transaction of start() requires of the environment.
StartValid(r) ==
    IF target[r] # NoRun THEN envStatus = "ready" /\ CanRollback(target[r])
    ELSE r \in join \/ Valid

\* The job reads the run: a stale job ends, one in time goes on to resolve the
\* commit and, for a rollback, to look for the releases.
StartCheck(r) ==
    /\ starts[r] = "queued"
    /\ Startable(r) => deadline[r] # "past"
    /\ starts' = [starts EXCEPT ![r] = IF Startable(r) THEN "checked" ELSE "none"]
    /\ UNCHANGED <<runVars, rowVars, hostVars, envVars, queued, finishes, todo, lockVars, faults>>

\* failed(): the job came late, threw or lost its worker.
StartFails(r) ==
    /\ \/ starts[r] = "queued" /\ deadline[r] = "past" /\ UNCHANGED faults
       \/ starts[r] = "checked" /\ ~ StartValid(r) /\ UNCHANGED faults
       \/ starts[r] # "none" /\ faults < MaxFaults /\ faults' = faults + 1
    /\ starts' = [starts EXCEPT ![r] = "none"]
    /\ \/ Startable(r) /\ FinishRun(r, "failed")
       \/ ~ Startable(r) /\ UNCHANGED <<status, deadline, row, needs, finishes>>
    /\ UNCHANGED <<origin, stage, recovering, version, releaseVars, rowStage, hostVars, settings,
                   live, queued, todo, lockVars>>

\* Who gets a row: a full run every ready component, a join the apps without
\* rows, a rollback the apps with rows and the load balancers.
Recruits(r) ==
    {c \in ready :
        /\ c \in Balancers => r \notin join
        /\ r \in join => ~ HasRows(c)
        /\ target[r] # NoRun /\ c \in Apps => HasRows(c)}

\* The transaction of start(): rows are made and the first stage is entered.
LiveVersion == IF live = NoRun THEN 0 ELSE version[live]

StartRun(r) ==
    LET new == Recruits(r)
        rows == [row EXCEPT ![r] = [c \in Components |-> IF c \notin new THEN "none"
                                      ELSE IF c \in Apps THEN "deploying" ELSE "finished"]]
    IN  /\ starts[r] = "checked"
        /\ Startable(r)
        /\ StartValid(r)
        /\ starts' = [starts EXCEPT ![r] = "none"]
        /\ version' = [version EXCEPT ![r] = IF target[r] # NoRun THEN LiveVersion
                                             ELSE IF r \in join THEN @ ELSE edits]
        /\ \/ /\ new = {}
              /\ FinishRun(r, "failed")
              /\ UNCHANGED <<stage, recovering, rowStage, kept, prev, stageJobs>>
           \/ /\ new # {}
              /\ kept' = [kept EXCEPT ![r] = new \cap Apps]
              /\ prev' = [prev EXCEPT ![r] = [c \in Apps |-> IF c \in new THEN active[c] ELSE NoRun]]
              /\ Dispatch(r, IF target[r] # NoRun THEN "release" ELSE "clone", FALSE, rows)
              /\ UNCHANGED <<status, needs, finishes>>
        /\ UNCHANGED <<origin, started, active, hostVars, settings, live, todo, advances, lockVars,
                       faults>>

\* The transaction of start() finds the run gone or already started.
StartStale(r) ==
    /\ starts[r] = "checked"
    /\ ~ Startable(r)
    /\ starts' = [starts EXCEPT ![r] = "none"]
    /\ UNCHANGED <<runVars, rowVars, hostVars, envVars, queued, finishes, todo, lockVars, faults>>
-----------------------------------------------------------------------------
(* DeployComponentStageJob *)

DirectCall(j) == [run |-> j.run, comp |-> NoComponent, stage |-> j.stage, rec |-> j.rec]

\* RunComponentStage::failed
FailedRow(j) ==
    IF Awaited(j) THEN [row EXCEPT ![j.run] = [@ EXCEPT ![j.comp] = "failed"]] ELSE row

\* The job gets its lock and finds nothing to do: the stage has moved on, or the
\* run is cancelled or late and the row fails.
SkipStageJob(j) ==
    /\ LockFree(j.comp)
    /\ ~ Awaited(j) \/ status[j.run] = "cancelled" \/ deadline[j.run] = "past"
    /\ row' = FailedRow(j)
    /\ stageJobs' = stageJobs \ {j}
    /\ advances' = advances \cup {DirectCall(j)}
    /\ UNCHANGED <<runVars, releaseVars, rowStage, hostVars, envVars, starts, finishes, todo,
                   lockVars, faults>>

TakeStageJob(j) ==
    /\ LockFree(j.comp)
    /\ Awaited(j)
    /\ status[j.run] = "running"
    /\ deadline[j.run] # "past"
    /\ worker' = [worker EXCEPT ![j.comp] = "working"]
    /\ holding' = [holding EXCEPT ![j.comp] = j]
    /\ stageJobs' = stageJobs \ {j}
    /\ UNCHANGED <<runVars, rowVars, hostVars, envVars, starts, finishes, todo, advances, faults>>

\* The job is popped after its hour (retryUntil), as it is when it comes back
\* from a lost worker: only failed() runs, without the lock.
ExpireStageJob(j) ==
    /\ Awaited(j) => deadline[j.run] = "past"
    /\ row' = FailedRow(j)
    /\ stageJobs' = stageJobs \ {j}
    /\ advances' = advances \cup {j}
    /\ UNCHANGED <<runVars, releaseVars, rowStage, hostVars, envVars, starts, finishes, todo,
                   lockVars, faults>>

Scripted == {"build", "pre-release", "post-release"}

At(c, step, s, rec) ==
    /\ worker[c] = step
    /\ holding[c].stage = s
    /\ holding[c].rec = rec

WorkerMoves(c, step) == worker' = [worker EXCEPT ![c] = step] /\ UNCHANGED holding

\* RunComponentStage::clone: after the checkout, needs_redeploy is recomputed
\* against the version the environment has by then.
NeedsAfterClone_Cleared(c) == needs \ {c}
NeedsAfterClone(c) == IF version[holding[c].run] = edits THEN needs \ {c} ELSE needs \cup {c}

CloneRelease(c) ==
    /\ c \in Apps
    /\ At(c, "working", "clone", FALSE)
    /\ needs' = NeedsAfterClone(c)
    /\ WorkerMoves(c, "done")
    /\ UNCHANGED <<runVars, rowVars, hostVars, settings, live, jobVars, faults>>

\* RunComponentStage::release, cut at release_started, the env file, the
\* symlink and the active flag.
BeginRelease_Unrecorded(c) ==
    /\ c \in Apps
    /\ At(c, "working", "release", FALSE)
    /\ WorkerMoves(c, "started")
    /\ UNCHANGED <<runVars, rowVars, hostVars, envVars, jobVars, faults>>
BeginRelease(c) ==
    /\ c \in Apps
    /\ At(c, "working", "release", FALSE)
    /\ started' = [started EXCEPT ![holding[c].run] = @ \cup {c}]
    /\ WorkerMoves(c, "started")
    /\ UNCHANGED <<runVars, row, rowStage, kept, prev, active, hostVars, envVars, jobVars, faults>>

ReleaseEnv(c) ==
    LET r == holding[c].run
    IN  /\ worker[c] = "started"
        /\ \/ /\ target[r] = NoRun
              /\ prepared' = [prepared EXCEPT ![r] = @ \cup {c}]
              /\ envPrev' = [envPrev EXCEPT ![c] = IF c \in prepared[r] THEN @ ELSE served[c]]
              /\ served' = [served EXCEPT ![c] = version[r]]
           \/ target[r] # NoRun /\ UNCHANGED <<prepared, served, envPrev>>
        /\ WorkerMoves(c, "prepared")
        /\ UNCHANGED <<runVars, rowVars, symlink, envVars, jobVars, faults>>

SwitchRelease(c) ==
    /\ worker[c] = "prepared"
    /\ symlink' = [symlink EXCEPT ![c] = release[holding[c].run]]
    /\ WorkerMoves(c, "switched")
    /\ UNCHANGED <<runVars, rowVars, prepared, served, envPrev, envVars, jobVars, faults>>

ActivateRelease(c) ==
    /\ worker[c] = "switched"
    /\ active' = [active EXCEPT ![c] = holding[c].run]
    /\ WorkerMoves(c, "done")
    /\ UNCHANGED <<runVars, row, rowStage, kept, prev, started, hostVars, envVars, jobVars, faults>>

\* RollbackComponentRelease::rollback.  Without the marker of the env file
\* nothing was switched, so the script leaves the server alone.
RestoreRelease(c) ==
    LET r == holding[c].run
        p == prev[r][c]
    IN  /\ c \in Apps
        /\ At(c, "working", "release", TRUE)
        /\ \/ /\ c \notin started[r]
              /\ WorkerMoves(c, "done")
              /\ UNCHANGED <<served, symlink>>
           \/ /\ c \in started[r]
              /\ served' = IF c \in prepared[r] THEN [served EXCEPT ![c] = envPrev[c]] ELSE served
              /\ symlink' = IF c \in prepared[r] \/ target[r] # NoRun
                            THEN [symlink EXCEPT ![c] = IF p = NoRun THEN NoRun ELSE release[p]]
                            ELSE symlink
              /\ WorkerMoves(c, "restored")
        /\ UNCHANGED <<runVars, rowVars, prepared, envPrev, envVars, jobVars, faults>>

\* With a previous deployment that one is activated; otherwise only this one is
\* switched off.
RestoreActive(c) ==
    LET r == holding[c].run
    IN  /\ worker[c] = "restored"
        /\ active' = [active EXCEPT ![c] = IF prev[r][c] # NoRun THEN prev[r][c]
                                           ELSE IF @ = r THEN NoRun ELSE @]
        /\ WorkerMoves(c, "done")
        /\ UNCHANGED <<runVars, row, rowStage, kept, prev, started, hostVars, envVars, jobVars,
                       faults>>

FreeLock(c) ==
    /\ worker' = [worker EXCEPT ![c] = "free"]
    /\ holding' = [holding EXCEPT ![c] = NoJob]

\* UniqueQueue puts the job back: the lock of the balancer's server is taken, or
\* the database was busy, whatever the stage had already done on the server.
StageReturns(c) ==
    /\ \/ c \in Balancers /\ worker[c] = "working" /\ UNCHANGED faults
       \/ Working(c) /\ faults < MaxFaults /\ faults' = faults + 1
    /\ stageJobs' = stageJobs \cup {holding[c]}
    /\ FreeLock(c)
    /\ UNCHANGED <<runVars, rowVars, hostVars, envVars, starts, finishes, todo, advances>>

\* The row finishes without another look at the run; an app of a run that was
\* cancelled meanwhile needs a deploy.  The lock is released before advance().
\* A script, like the vhost of a load balancer, changes nothing modelled here,
\* so these stages complete as soon as they are worked on.
CompleteStage(c) ==
    LET j == holding[c]
    IN  /\ \/ worker[c] = "done"
           \/ worker[c] = "working" /\ (c \in Balancers \/ j.stage \in Scripted)
        /\ row' = [row EXCEPT ![j.run] = [@ EXCEPT ![c] = "finished"]]
        /\ needs' = IF c \in Apps /\ status[j.run] = "cancelled" THEN needs \cup {c} ELSE needs
        /\ advances' = advances \cup {DirectCall(j)}
        /\ FreeLock(c)
        /\ UNCHANGED <<runVars, releaseVars, rowStage, hostVars, settings, live, starts, finishes,
                       todo, stageJobs, faults>>

\* The stage threw: failed() runs while the lock is still held.
StageThrows(c) ==
    /\ Working(c)
    /\ faults < MaxFaults
    /\ faults' = faults + 1
    /\ row' = FailedRow(holding[c])
    /\ advances' = advances \cup {holding[c]}
    /\ FreeLock(c)
    /\ UNCHANGED <<runVars, releaseVars, rowStage, hostVars, envVars, starts, finishes, todo,
                   stageJobs>>

\* pcntl_alarm at the deadline: failed() runs, the process dies, the lock stays.
StageTimesOut(c) ==
    /\ Working(c)
    /\ deadline[holding[c].run] = "past"
    /\ row' = FailedRow(holding[c])
    /\ advances' = advances \cup {holding[c]}
    /\ worker' = [worker EXCEPT ![c] = "dead"]
    /\ UNCHANGED <<runVars, releaseVars, rowStage, hostVars, envVars, starts, finishes, todo,
                   stageJobs, holding, faults>>

\* The worker is lost without a word; its job comes back once its reservation ends.
WorkerCrashes(c) ==
    /\ Working(c)
    /\ faults < MaxFaults
    /\ faults' = faults + 1
    /\ worker' = [worker EXCEPT ![c] = "dead"]
    /\ stageJobs' = stageJobs \cup {holding[c]}
    /\ UNCHANGED <<runVars, rowVars, hostVars, envVars, starts, finishes, todo, advances, holding>>

\* The lock lives for the stage timeout and a minute, so past the deadline of
\* the stage it was taken for.
LeaseExpires(c) ==
    /\ worker[c] = "dead"
    /\ Awaited(holding[c]) => deadline[holding[c].run] = "past"
    /\ FreeLock(c)
    /\ UNCHANGED <<runVars, rowVars, hostVars, envVars, jobVars, faults>>
-----------------------------------------------------------------------------
(* AdvanceEnvironmentDeployment::advance *)

CallMatches(a) ==
    /\ status[a.run] \in {"running", "cancelled"}
    /\ stage[a.run] = a.stage
    /\ recovering[a.run] = a.rec

RowsIn_PrimaryOnly(a, s) == row[a.run][Primary] = s
RowsIn(a, s) == \E c \in Participants(a.run, a.stage, row) : row[a.run][c] = s

NextStage_NoEnd(r, s) ==
    CASE s = "clone" -> "build"
      [] s = "build" -> IF r \in join THEN "release" ELSE "pre-release"
      [] s = "pre-release" -> "release"
      [] s = "release" -> "post-release"
      [] OTHER -> "released"
NextStage(r, s) ==
    CASE s = "clone" -> "build"
      [] s = "build" -> IF r \in join THEN "release" ELSE "pre-release"
      [] s = "pre-release" -> "release"
      [] s = "release" -> "post-release"
      [] OTHER -> "none"

AdvanceEnds(a, s) ==
    /\ FinishRun(a.run, s)
    /\ UNCHANGED <<stage, recovering, rowStage, live, stageJobs>>

AdvanceEnters(a, s, rec) ==
    /\ Dispatch(a.run, s, rec, row)
    /\ UNCHANGED <<status, needs, finishes>>

\* A cancelled run that still drains is over once its rows have settled.
SettleCancelled(a) ==
    /\ status[a.run] = "cancelled"
    /\ deadline[a.run] # "none"
    /\ AdvanceEnds(a, "cancelled")

RecoveryResult_AlwaysGood(a) == "rolled_back"
RecoveryResult(a) == IF RowsIn(a, "failed") THEN "partial" ELSE "rolled_back"

SettleRecovery(a) ==
    /\ status[a.run] = "running"
    /\ a.rec
    /\ AdvanceEnds(a, RecoveryResult(a))

SettleFailure(a) ==
    /\ status[a.run] = "running"
    /\ ~ a.rec
    /\ RowsIn(a, "failed")
    /\ \/ a.stage # "release" /\ AdvanceEnds(a, "failed")
       \/ /\ a.stage = "release"
          /\ AdvanceEnters(a, "release", TRUE)
          /\ UNCHANGED live

\* A join hands out the release that is live; every other run becomes live.
LiveAfter_AnyRun(a) == IF a.stage = "release" THEN a.run ELSE live
LiveAfter(a) == IF a.stage = "release" /\ a.run \notin join THEN a.run ELSE live

SettleSuccess(a) ==
    LET s == NextStage(a.run, a.stage)
    IN  /\ status[a.run] = "running"
        /\ ~ a.rec
        /\ ~ RowsIn(a, "failed")
        /\ \/ s = "none" /\ AdvanceEnds(a, "finished")
           \/ /\ s # "none"
              /\ AdvanceEnters(a, s, FALSE)
              /\ live' = LiveAfter(a)

Advance(a) ==
    /\ a.comp # NoComponent => LockFree(a.comp)
    /\ advances' = advances \ {a}
    /\ \/ /\ CallMatches(a)
          /\ ~ RowsIn(a, "deploying")
          /\ SettleCancelled(a) \/ SettleRecovery(a) \/ SettleFailure(a) \/ SettleSuccess(a)
       \/ /\ \/ ~ CallMatches(a)
             \/ RowsIn(a, "deploying")
             \/ status[a.run] = "cancelled" /\ deadline[a.run] = "none"
          /\ UNCHANGED <<status, stage, recovering, deadline, row, rowStage, live, needs, finishes,
                         stageJobs>>
    /\ UNCHANGED <<origin, version, releaseVars, hostVars, settings, starts, todo, lockVars,
                   faults>>

\* The process dies between the end of a stage and the call, or the job gives up.
LoseAdvance(a) ==
    /\ faults < MaxFaults
    /\ faults' = faults + 1
    /\ advances' = advances \ {a}
    /\ UNCHANGED <<runVars, rowVars, hostVars, envVars, starts, finishes, todo, stageJobs,
                   lockVars>>
-----------------------------------------------------------------------------
(* FinishEnvironmentDeploymentJob *)

\* FinishEnvironmentDeployment::next.  Whether the attached resources allow a
\* join is decided elsewhere, so a possible join may also not be made.
Promotable_Dated(r) == status[r] = "pending" /\ deadline[r] # "none"
Promotable(r) == status[r] = "pending"

NextRun ==
    \/ /\ ~ \E r \in RunIds : Occupying(r)
       /\ \E r \in RunIds :
            /\ Promotable(r)
            /\ status' = [status EXCEPT ![r] = "running"]
            /\ deadline' = [deadline EXCEPT ![r] = "future"]
            /\ starts' = [starts EXCEPT ![r] = "queued"]
       /\ UNCHANGED <<join, release, version>>
    \/ \E r \in RunIds : CreateJoin(r)
    \/ /\ (\E r \in RunIds : Occupying(r)) \/ ~ (\E r \in RunIds : Promotable(r))
       /\ UNCHANGED <<status, deadline, join, release, version, starts>>

FinishBegin(r) ==
    /\ finishes[r] = "queued"
    /\ \/ /\ Terminal(r)
          /\ deadline[r] = "none"
          /\ finishes' = [finishes EXCEPT ![r] = "pruning"]
          /\ todo' = [todo EXCEPT ![r] = {c \in Apps : row[r][c] # "none"}]
       \/ /\ ~ Terminal(r) \/ deadline[r] # "none"
          /\ finishes' = [finishes EXCEPT ![r] = "none"]
          /\ UNCHANGED todo
    /\ UNCHANGED <<runVars, rowVars, hostVars, envVars, queued, starts, lockVars, faults>>

\* Deployment::pruneOldReleases of component c: the newest row of each release,
\* those past keep_releases, and of them the ones remove() may delete.
ReleaseRows(c) == {r \in RunIds : c \in kept[r]}
NewestRows(c) == {r \in ReleaseRows(c) : \A q \in ReleaseRows(c) : release[q] = release[r] => q <= r}
ExcessRows(c) == {r \in NewestRows(c) : Cardinality({q \in NewestRows(c) : q > r}) >= KeepReleases}
ProtectedRows(c) == {prev[q][c] : q \in {q \in ReleaseRows(c) : ~ Terminal(q)}}

InUse_ServedOrRestored(r, c) ==
    \/ \E q \in ReleaseRows(c) : release[q] = release[r] /\ active[c] = q
    \/ \E b \in RunIds :
        Blocking(b) /\ prev[b][c] \in ReleaseRows(c) /\ release[prev[b][c]] = release[r]
InUse(r, c) ==
    \/ \E q \in ReleaseRows(c) : release[q] = release[r] /\ active[c] = q
    \/ \E b \in RunIds :
        /\ Blocking(b)
        /\ \/ release[b] = release[r]
           \/ prev[b][c] \in ReleaseRows(c) /\ release[prev[b][c]] = release[r]

Removable_WhenOver(r, c) == Terminal(r)
Removable(r, c) == active[c] # r /\ Terminal(r) /\ ~ InUse(r, c)

RemovedReleases(c) == {release[r] : r \in {r \in ExcessRows(c) \ ProtectedRows(c) : Removable(r, c)}}

FinishPrune(r, c) ==
    /\ finishes[r] = "pruning"
    /\ c \in todo[r]
    /\ LockFree(c)
    /\ kept' = [q \in RunIds |-> IF release[q] \in RemovedReleases(c) THEN kept[q] \ {c} ELSE kept[q]]
    /\ todo' = [todo EXCEPT ![r] = @ \ {c}]
    /\ UNCHANGED <<runVars, row, rowStage, prev, started, active, hostVars, envVars, queued, starts,
                   finishes, lockVars, faults>>

\* However the loop ends, next() runs: after the last component; when a lock is
\* taken, and the job returns to the queue; when a component throws, and then
\* once more from failed().  A lost job goes straight to failed().
FinishNext(r) ==
    /\ \/ /\ finishes[r] = "pruning"
          /\ todo[r] = {}
          /\ finishes' = [finishes EXCEPT ![r] = "none"]
          /\ UNCHANGED faults
       \/ /\ finishes[r] = "pruning"
          /\ \E c \in todo[r] : ~ LockFree(c)
          /\ finishes' = [finishes EXCEPT ![r] = "queued"]
          /\ UNCHANGED faults
       \/ /\ finishes[r] = "pruning"
          /\ todo[r] # {}
          /\ faults < MaxFaults
          /\ faults' = faults + 1
          /\ finishes' = [finishes EXCEPT ![r] = "failing"]
       \/ /\ finishes[r] = "failing"
          /\ finishes' = [finishes EXCEPT ![r] = "none"]
          /\ UNCHANGED faults
    /\ todo' = [todo EXCEPT ![r] = {}]
    /\ NextRun
    /\ UNCHANGED <<stage, recovering, target, rowVars, hostVars, envVars, queued, lockVars>>

\* The worker is lost: the job comes back out of retries.
FinishLost(r) ==
    /\ finishes[r] \in {"queued", "pruning"}
    /\ faults < MaxFaults
    /\ faults' = faults + 1
    /\ finishes' = [finishes EXCEPT ![r] = "failing"]
    /\ todo' = [todo EXCEPT ![r] = {}]
    /\ UNCHANGED <<runVars, rowVars, hostVars, envVars, queued, starts, lockVars>>
-----------------------------------------------------------------------------
(* Time and the watchdog: deployments:check-stalled, once a minute *)

PassDeadline(r) ==
    /\ "late" \in Events
    /\ deadline[r] = "future"
    /\ deadline' = [deadline EXCEPT ![r] = "past"]
    /\ UNCHANGED <<origin, status, stage, recovering, version, rowVars, hostVars, envVars, jobVars,
                   lockVars, faults>>

Stalled_RunningOnly(r) == status[r] = "running" /\ deadline[r] # "future"
Stalled(r) == Occupying(r) /\ deadline[r] # "future"

LocksFree_NotTaken(r) == TRUE
LocksFree(r) == \A c \in Components : row[r][c] # "none" => LockFree(c)

\* FailStalledEnvironmentDeployments::fail.  It holds the lock of every component
\* of the run, which only keeps others out while its transaction runs.
FailStalled(r) ==
    /\ Stalled(r)
    /\ LocksFree(r)
    /\ \/ /\ stage[r] = "none"
          /\ FinishRun(r, "failed")
          /\ UNCHANGED advances
       \/ /\ stage[r] # "none"
          /\ row' = [row EXCEPT ![r] = [c \in Components |->
                        IF c \in Participants(r, stage[r], row) /\ @[c] = "deploying" THEN "failed"
                        ELSE @[c]]]
          /\ advances' = advances \cup {[run |-> r, comp |-> NoComponent, stage |-> stage[r],
                                         rec |-> recovering[r]]}
          /\ UNCHANGED <<status, deadline, needs, finishes>>
    /\ UNCHANGED <<origin, stage, recovering, version, releaseVars, rowStage, hostVars, settings,
                   live, starts, todo, stageJobs, lockVars, faults>>

WakePending ==
    /\ \E r \in RunIds : status[r] = "pending"
    /\ NextRun
    /\ UNCHANGED <<stage, recovering, target, rowVars, hostVars, envVars, queued, finishes, todo,
                   lockVars, faults>>
-----------------------------------------------------------------------------
Request ==
    \/ Deploy \/ Rollback \/ WhenReady \/ WhenReadyFails \/ WebhookFails \/ Join
    \/ \E r \in RunIds : Cancel(r)

Environment ==
    \/ EditVariables \/ BeginTeardown
    \/ \E c \in Components : ComponentReady(c) \/ ComponentUnready(c)

Start(r) == StartCheck(r) \/ StartFails(r) \/ StartRun(r) \/ StartStale(r)

StageQueue == \E j \in stageJobs : SkipStageJob(j) \/ TakeStageJob(j) \/ ExpireStageJob(j)

Work(c) ==
    \/ CloneRelease(c)
    \/ BeginRelease(c) \/ ReleaseEnv(c) \/ SwitchRelease(c) \/ ActivateRelease(c)
    \/ RestoreRelease(c) \/ RestoreActive(c)
    \/ CompleteStage(c)

Disturb(c) ==
    StageReturns(c) \/ StageThrows(c) \/ StageTimesOut(c) \/ WorkerCrashes(c) \/ LeaseExpires(c)

Finish(r) ==
    \/ FinishBegin(r) \/ FinishNext(r) \/ FinishLost(r)
    \/ \E c \in Apps : FinishPrune(r, c)

Watchdog(r) == PassDeadline(r) \/ FailStalled(r)

Next ==
    \/ Request
    \/ Environment
    \/ \E r \in RunIds : Start(r) \/ Finish(r) \/ Watchdog(r)
    \/ StageQueue
    \/ \E c \in Components : Work(c) \/ Disturb(c)
    \/ \E a \in advances : Advance(a) \/ LoseAdvance(a)
    \/ WakePending

Spec == Init /\ [][Next]_vars

\* Horizon keeps its workers and the scheduler its minute: a job that can run
\* runs, time passes, and a lock whose owner is gone expires.  Nothing is
\* assumed of requests, of errors, or of a stage ending by itself.
Fairness ==
    /\ \A r \in RunIds :
        /\ WF_vars(StartCheck(r) \/ StartRun(r) \/ StartStale(r))
        /\ WF_vars(PassDeadline(r))
        /\ WF_vars(FailStalled(r))
        /\ WF_vars(\E a \in advances : a.run = r /\ Advance(a))
    /\ \A c \in Components : WF_vars(StageTimesOut(c)) /\ WF_vars(LeaseExpires(c))
    /\ WF_vars(WakePending)

FairSpec == Spec /\ Fairness
-----------------------------------------------------------------------------
(* Properties *)

RunTypes ==
    /\ status \in [RunIds -> Statuses]
    /\ stage \in [RunIds -> Stages \cup {"none"}]
    /\ recovering \in [RunIds -> BOOLEAN]
    /\ deadline \in [RunIds -> Deadlines]
    /\ join \in SUBSET RunIds
    /\ target \in [RunIds -> MaybeRun]
    /\ release \in [RunIds -> MaybeRun]
    /\ version \in [RunIds -> Versions]
RowTypes ==
    /\ row \in [RunIds -> [Components -> RowStatuses]]
    /\ rowStage \in [RunIds -> [Components -> Stages \cup {"none"}]]
    /\ kept \in [RunIds -> SUBSET Apps]
    /\ prev \in [RunIds -> [Apps -> MaybeRun]]
    /\ started \in [RunIds -> SUBSET Apps]
    /\ active \in [Apps -> MaybeRun]
HostTypes ==
    /\ prepared \in [RunIds -> SUBSET Apps]
    /\ symlink \in [Apps -> MaybeRun]
    /\ served \in [Apps -> Versions]
    /\ envPrev \in [Apps -> Versions]
EnvTypes ==
    /\ envStatus \in {"ready", "deleting"}
    /\ deployOnReady \in BOOLEAN
    /\ live \in MaybeRun
    /\ edits \in Versions
    /\ ready \in SUBSET Components
    /\ needs \in SUBSET Apps
JobTypes ==
    /\ starts \in [RunIds -> {"none", "queued", "checked"}]
    /\ finishes \in [RunIds -> FinishSteps]
    /\ todo \in [RunIds -> SUBSET Apps]
    /\ stageJobs \in SUBSET StageJob
    /\ advances \in SUBSET AdvanceCall
LockTypes ==
    /\ worker \in [Components -> WorkerSteps]
    /\ holding \in [Components -> StageJob \cup {NoJob}]

\* Every variable keeps to its values.  The columns are string enums and
\* nullable keys in the code: no step writes one that the enum does not have.
TypeOK ==
    /\ RunTypes /\ RowTypes /\ HostTypes /\ EnvTypes /\ JobTypes /\ LockTypes
    /\ faults \in 0..MaxFaults

\* One run is active per environment: at most one run carries out stages or
\* drains, and at most one waits (deployments.md, "One run is active").
OneActiveRun == \A q, r \in RunIds : Occupying(q) /\ Occupying(r) => q = r

\* The waiting run is the newest request: whatever was requested after it never
\* ran, so an older request cannot overtake a newer one.
NewestWaits ==
    \A r \in RunIds : status[r] = "pending" =>
        \A q \in RunIds : q > r => status[q] \in {"none", "failed"} /\ stage[q] = "none"

\* Work on servers never overlaps: whoever works on a component works for the
\* one active run, in the stage that run is in, on a row that still deploys.
\* Neither a cancelled, timed out or recovered stage nor an older run is ever
\* still being carried out while its successor is.
NoOverlappingWork ==
    \A c \in Components : Working(c) =>
        /\ holding[c].comp = c
        /\ Occupying(holding[c].run)
        /\ Awaited(holding[c])

\* A run that was cancelled or superseded, or that failed before its release
\* stage, never touched what an app serves.
EarlyEndLeavesLiveCode ==
    \A r \in RunIds :
        status[r] \in {"cancelled", "superseded"} \/ (status[r] = "failed" /\ stage[r] # "post-release")
            => /\ started[r] = {}
               /\ live # r
               /\ \A c \in Apps : active[c] # r

\* The symlink an app serves and the deployment marked active agree, except
\* while a release is being switched or after a recovery that failed.
Unsettled(c) == \E r \in RunIds : c \in started[r] /\ status[r] \in {"running", "partial"}
LinkMatchesActive ==
    \A c \in Apps : ~ Unsettled(c) =>
        symlink[c] = IF active[c] = NoRun THEN NoRun ELSE release[active[c]]

\* Release cleanup never takes a release that is served, or that the active run
\* would restore.
ReleasesInUseKept ==
    \A c \in Apps :
        /\ active[c] # NoRun => c \in kept[active[c]]
        /\ \A r \in RunIds : Occupying(r) /\ prev[r][c] # NoRun => c \in kept[prev[r][c]]

\* An app whose served variables are out of date asks for a deploy, whatever
\* edits, clones, cancellations and faults raced.
StaleVariablesAreFlagged ==
    \A c \in Apps :
        HasRows(c) /\ served[c] # edits /\ ~ (\E r \in RunIds : Occupying(r) /\ row[r][c] # "none")
            => c \in needs

\* A join touches only components that never had a deployment, and a join that
\* ended has marked them: next() cannot join the same component for ever.
JoinsAreFirstDeployments ==
    \A r \in join :
        /\ Terminal(r) => \E c \in Apps : row[r][c] # "none"
        /\ \A c \in Apps : row[r][c] # "none" =>
            prev[r][c] = NoRun /\ \A q \in RunIds : q < r => row[q][c] = "none"

\* Teardown never meets a deployment: neither a run nor work left over from one.
TeardownIsQuiet ==
    envStatus = "deleting" =>
        /\ \A r \in RunIds : status[r] \notin {"pending", "running"}
        /\ \A c \in Components : ~ Working(c)

\* "Active releases are preserved" (deployments.md): cleanup never takes the
\* release an app is linked to.
ServedReleaseKept ==
    \A c \in Apps : symlink[c] # NoRun =>
        \E r \in RunIds : c \in kept[r] /\ release[r] = symlink[c]

\* Stages move together: a run leaves a stage only when each of its components
\* has finished, and none of them is still being worked on for it.
StageBarrier ==
    [][\A r \in RunIds : stage[r] # "none" /\ stage'[r] # stage[r] =>
        \A c \in Components : row[r][c] # "none" =>
            row[r][c] = "finished" /\ ~ (Working(c) /\ holding[c].run = r)]_vars

\* What a run that waits or runs is going to need is not cleaned up under it:
\* above all, the old release a rollback asked for.
WantedReleasesStay ==
    [][\A b, q \in RunIds, c \in Apps :
        Blocking(b) /\ release[q] = release[b] /\ c \in kept[q] => c \in kept'[q]]_vars

\* The live run moves only to a run whose release every participant finished,
\* load balancers included, and every app then serves it.
LiveMovesWhole ==
    [][live' # live =>
        /\ live' \notin join
        /\ status[live'] = "running"
        /\ \A c \in Components : row[live'][c] # "none" => row[live'][c] = "finished"
        /\ \A c \in Apps : row[live'][c] # "none" =>
              active[c] = live' /\ symlink[c] = release[live']]_vars

\* A run reported as rolled back left every app as it found it, unless an
\* earlier recovery had failed there.
RolledBackRestores ==
    [][\A r \in RunIds : status[r] # "rolled_back" /\ status'[r] = "rolled_back" =>
        \A c \in Apps :
            row[r][c] # "none" /\ ~ (\E q \in RunIds : c \in started[q] /\ status[q] = "partial") =>
                /\ active'[c] = prev[r][c]
                /\ symlink'[c] = IF prev[r][c] = NoRun THEN NoRun ELSE release[prev[r][c]]]_vars

\* A run that ended stays as it ended, and nothing starts on it again.
EndedStaysEnded ==
    [][\A r \in RunIds : Terminal(r) /\ ~ Occupying(r) =>
        /\ status'[r] = status[r]
        /\ stage'[r] = stage[r]
        /\ row'[r] = row[r]
        /\ deadline'[r] = "none"]_vars

\* The runs implement the abstract queue: a draining run is still active there.
Phase == [r \in RunIds |-> CASE status[r] = "none" -> "none"
                              [] status[r] = "pending" -> "waiting"
                              [] Occupying(r) -> "active"
                              [] OTHER -> "over"]
Queue == INSTANCE RunQueue WITH phase <- Phase
ImplementsRunQueue == Queue!Spec

\* Deadlines keep an abandoned stage from blocking for ever: whatever is lost, a
\* run that is running or draining is eventually over.
RunsEnd == \A r \in RunIds : Occupying(r) ~> ~ Occupying(r)

\* A request that waits is eventually started, superseded or cancelled.
WaitingEnds == \A r \in RunIds : status[r] = "pending" ~> status[r] # "pending"
=============================================================================
