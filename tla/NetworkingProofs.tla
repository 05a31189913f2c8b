-------------------------- MODULE NetworkingProofs ---------------------------
(***************************************************************************)
(* What opening and closing a service leaves on the server, for any number *)
(* of requests and passwords: as long as no change met another and none    *)
(* failed since the last that opened it, the row fits the files, and the   *)
(* service is open only with a password.  The dialog leaves the service    *)
(* what it is, and never offers its buttons over a view from before its    *)
(* own change.                                                             *)
(***************************************************************************)
EXTENDS NetworkingDialog, TLAPS

Steps == {"write", "restart", "save", "rollback", "again", "fail", "persist"}
Broken == {"rollback", "again", "fail"}
Changes == Toggles \cup Secrets

\* How far a job is says what it is, and what happened to it.
JobShape ==
  job # None =>
    /\ job.step \notin {"write", "persist"} => job.kind \in Changes
    /\ job.step = "persist" => job.kind = "refresh" /\ job.seen \in [state: Units, open: BOOLEAN]
    /\ job.step = "restart" => job.previous = "ready"
    /\ job.step \in Broken => faulty
\* A refresh is asked for once at a time.
OneRefresh ==
  /\ \A i, j \in queue: i.kind = "refresh" /\ j.kind = "refresh" => i = j
  /\ job # None /\ job.kind = "refresh" => \A j \in queue: j.kind # "refresh"
\* A copy that is put back is one of a configuration.
CopyShape == bakConf # None => (bakConf.open => bakConf.block)
Types == TypeOK /\ JobShape /\ OneRefresh /\ CopyShape

\* Without others there is one job at most.
Alone == (job # None => queue = {}) /\ \A i, j \in queue: i = j

\* The job that opens the service takes the password of the row, and leaves it in the file.
Opens ==
  job # None /\ job.kind = "enable" =>
    /\ job.secret = service.secret
    /\ job.step \in {"restart", "save"} =>
         conf.open /\ conf.block /\ file = job.secret /\ job.secret # NoSecret
    /\ job.step = "save" /\ job.previous = "ready" => OpenHasPassword

Doing(kind) == (\E j \in queue: j.kind = kind) \/ (job # None /\ job.kind = kind)
Changed == job # None /\ job.step \in {"restart", "save"}

\* Before and after a change the row fits the files; one that opens may have made a new password.
Fits ==
  ~Doing("enable") =>
    /\ service.networking => service.secret # NoSecret
    /\ service.secret # NoSecret => conf.block
    /\ service.secret # NoSecret /\ ~(Changed /\ job.kind \in Secrets) => file = service.secret
    /\ ~(Changed /\ job.kind = "disable") => conf.open = service.networking
\* While a change is under way the files are those that the row will fit.
Fitting ==
  /\ Doing("remove") => ~service.networking /\ service.secret # NoSecret
  /\ Doing("regenerate") => service.secret # NoSecret
  /\ Changed /\ job.kind = "disable" => ~conf.open
  /\ Changed /\ job.kind \in Secrets => conf.block /\ file = job.secret
  /\ Changed /\ job.kind = "regenerate" => job.secret # NoSecret
  /\ Changed /\ job.kind = "remove" => job.secret = NoSecret

Calm == ~mixed => Alone /\ Opens
Whole == ~mixed /\ ~faulty => OpenHasPassword /\ Fits /\ Fitting
Inv == Types /\ Calm /\ Whole
-----------------------------------------------------------------------------
LEMMA Bounds == MaxRequests \in Nat /\ MaxSecrets \in Nat /\ MaxSecrets > 0 /\ MaxStops \in Nat /\ None \notin Jobs
BY ServiceNetworkingAssumption DEF ServiceNetworkingAssumption

LEMMA ServiceInit == Init => Inv
<1> SUFFICES ASSUME Init PROVE Inv
  OBVIOUS
<1>1. PICK opened, opens \in BOOLEAN:
       /\ opens => opened
       /\ service = [status |-> "ready", networking |-> opens, failed |-> FALSE, effective |-> opens,
                     secret |-> IF opened THEN 1 ELSE NoSecret]
       /\ conf = [open |-> opens, block |-> opened] /\ file = IF opened THEN 1 ELSE Missing
       /\ bakConf = (IF opened THEN [open |-> ~opens, block |-> ~opens] ELSE None) /\ bakFile = Missing
       /\ live = [open |-> opens, secret |-> IF opened THEN 1 ELSE NoSecret]
       /\ secrets = IF opened THEN 1 ELSE 0
  BY DEF Init
<1>2. /\ unit = "active" /\ queue = {} /\ job = None /\ flagged = FALSE /\ checked = None /\ pendingStatus = None
      /\ requests = 0 /\ stops = 0 /\ mixed = FALSE /\ faulty = FALSE
  BY DEF Init
<1>3. {0, 1} \subseteq Passwords /\ 0 \in 0..MaxRequests /\ 0 \in 0..MaxStops
  BY Bounds DEF Passwords
<1>4. service \in Row /\ conf \in Conf /\ live \in [open: BOOLEAN, secret: Passwords]
  BY <1>1, <1>3 DEF Row, Conf, NoSecret, Statuses, SETTLED_STATUSES
<1>5. file \in Passwords \cup {Missing} /\ bakConf \in Conf \cup {None} /\ bakFile \in Passwords \cup {Missing}
  BY <1>1, <1>3 DEF Conf
<1>6. secrets \in Passwords /\ queue \subseteq Waiting /\ job \in Jobs \cup {None} /\ unit \in Units
  BY <1>1, <1>2, <1>3 DEF Units
<1>7. TypeOK
  BY <1>1, <1>2, <1>3, <1>4, <1>5, <1>6 DEF TypeOK
<1>8. JobShape /\ OneRefresh /\ CopyShape /\ Alone /\ Opens
  BY <1>1, <1>2 DEF JobShape, OneRefresh, CopyShape, Alone, Opens
<1>9. OpenHasPassword /\ Fits /\ Fitting
  BY <1>1, <1>2 DEF OpenHasPassword, Fits, Fitting, Doing, Changed, NoSecret
<1> QED
  BY <1>7, <1>8, <1>9 DEF Inv, Types, Calm, Whole
-----------------------------------------------------------------------------
(* Types. *)

\* What is queued is what may be queued, and a refresh only once.
LEMMA DispatchTypes ==
  ASSUME NEW kind \in JobKinds \ {"refresh"}, Types, dispatch(kind), Settled \/ kind \in Actions, UNCHANGED <<job, flagged>>
  PROVE  /\ queue' \subseteq Waiting /\ requests' \in 0..MaxRequests /\ mixed' \in BOOLEAN
         /\ OneRefresh' /\ (flagged' <=> \E j \in queue' \cup ({job'} \ {None}): j.kind = "refresh")
<1> DEFINE j == [id |-> requests, kind |-> kind,
                 previous |-> IF kind \in Changes THEN service.status ELSE "ready"]
<1>1. queue' = queue \cup {j} /\ j.kind = kind
  BY DEF dispatch, Changes
<1>2. j \in Waiting /\ requests' \in 0..MaxRequests
  <2>1. requests \in 0..MaxRequests /\ requests + 1 \in 0..MaxRequests
    BY Bounds DEF dispatch, Types, TypeOK
  <2>2. (IF kind \in Changes THEN service.status ELSE "ready") \in SETTLED_STATUSES
    BY DEF Settled, SETTLED_STATUSES, Changes, Toggles, Secrets, Actions
  <2> QED
    BY <2>1, <2>2 DEF Waiting, dispatch
<1> HIDE DEF j
<1>3. queue' \subseteq Waiting /\ mixed' \in BOOLEAN
  BY <1>1, <1>2 DEF dispatch, Types, TypeOK, Busy
<1>4. OneRefresh' /\ (flagged' <=> \E i \in queue' \cup ({job'} \ {None}): i.kind = "refresh")
  BY <1>1 DEF Types, TypeOK, OneRefresh
<1> QED
  BY <1>2, <1>3, <1>4

LEMMA RequestTypes == Types /\ Request => Types'
<1> SUFFICES ASSUME Types, Request PROVE Types'
  OBVIOUS
<1> USE Bounds DEF Types
<1>1. ASSUME NEW kind \in JobKinds \ {"refresh"}, dispatch(kind), Settled \/ kind \in Actions,
             UNCHANGED <<files, process, job, flagged, checking, stops, faulty>>,
             service' \in Row, secrets' \in Passwords
      PROVE  Types'
  <2>1. TypeOK'
    BY <1>1, DispatchTypes DEF TypeOK, files, process, checking
  <2>2. JobShape' /\ CopyShape'
    BY <1>1 DEF JobShape, CopyShape, files
  <2> QED
    BY <1>1, <2>1, <2>2, DispatchTypes
<1>2. ASSUME NEW status \in Statuses
      PROVE  [service EXCEPT !.status = status] \in Row
  BY DEF TypeOK, Row
<1>3. CASE enable
  <2>1. secrets' \in Passwords /\ (service.secret = NoSecret => secrets + 1 \in Passwords)
    BY <1>3 DEF enable, TypeOK, Passwords
  <2>2. service' \in Row
    BY <1>3, <2>1 DEF enable, TypeOK, Row, Statuses
  <2> QED
    BY <1>1, <1>3, <2>1, <2>2 DEF enable, JobKinds, Toggles
<1>4. CASE disable
  BY <1>1, <1>2, <1>4 DEF disable, JobKinds, Toggles, TypeOK, Statuses
<1>5. CASE regenerate
  BY <1>1, <1>2, <1>5 DEF regenerate, JobKinds, Secrets, TypeOK, Statuses
<1>6. CASE remove
  BY <1>1, <1>2, <1>6 DEF remove, JobKinds, Secrets, TypeOK, Statuses
<1>7. ASSUME NEW a \in Actions, manage(a) PROVE Types'
  <2>1. Pending(a) \in Statuses
    BY DEF Pending, Statuses, Actions
  <2> QED
    BY <1>1, <1>2, <1>7, <2>1 DEF manage, JobKinds, TypeOK, Actions
<1>8. CASE refresh
  <2>1. PICK j: j = [id |-> requests, kind |-> "refresh", previous |-> "ready"] /\ queue' = queue \cup {j}
    BY <1>8 DEF refresh, dispatch, Toggles, Secrets
  <2>2. requests \in 0..MaxRequests /\ requests' \in 0..MaxRequests /\ mixed' \in BOOLEAN
    BY <1>8 DEF refresh, dispatch, TypeOK, Busy
  <2>3. j \in Waiting /\ j.kind = "refresh"
    BY <2>1, <2>2 DEF Waiting, JobKinds, SETTLED_STATUSES
  <2>4. ~(\E i \in queue \cup ({job} \ {None}): i.kind = "refresh")
    BY <1>8 DEF refresh, TypeOK
  <2>5. OneRefresh' /\ (flagged' <=> \E i \in queue' \cup ({job'} \ {None}): i.kind = "refresh")
    BY <1>8, <2>1, <2>3, <2>4 DEF refresh, OneRefresh
  <2>6. TypeOK'
    BY <1>8, <2>1, <2>2, <2>3, <2>5 DEF refresh, TypeOK, files, process, checking
  <2> QED
    BY <1>8, <2>5, <2>6 DEF refresh, JobShape, CopyShape, files
<1> QED
  BY <1>3, <1>4, <1>5, <1>6, <1>7, <1>8 DEF Request

\* A step of the job leaves what waits, unless the job ends; a refresh ends with its flag.
LEMMA QueueTypes ==
  ASSUME Types, queue' = queue,
         \/ job # None /\ job' # None /\ job'.kind = job.kind /\ flagged' = flagged
         \/ job # None /\ job.kind # "refresh" /\ job' = None /\ flagged' = flagged
         \/ job # None /\ job.kind = "refresh" /\ job' = None /\ flagged' = FALSE
  PROVE  OneRefresh' /\ (flagged' <=> \E j \in queue' \cup ({job'} \ {None}): j.kind = "refresh")
BY DEF Types, TypeOK, OneRefresh

LEMMA BegunTypes ==
  ASSUME Types, NEW j \in queue, Begin(j)
  PROVE  job' \in Jobs /\ job' # None /\ job'.kind = j.kind /\ job'.step = "write" /\ job'.secret = service.secret
<1> DEFINE n == [kind |-> j.kind, previous |-> j.previous, loaded |-> service.status, secret |-> service.secret,
                 step |-> "write", seen |-> None]
<1>1. n \in Jobs
  BY DEF Types, TypeOK, Waiting, Jobs, Row
<1> QED
  BY <1>1, Bounds DEF Begin

LEMMA BeginTypes == ASSUME Types, NEW j \in queue, Begin(j) PROVE Types'
<1> USE DEF Types
<1>1. job = None /\ queue' = queue \ {j}
  BY DEF Begin
<1>2. job' \in Jobs /\ job' # None /\ job'.kind = j.kind /\ job'.step = "write"
  BY BegunTypes
<1>3. OneRefresh' /\ (flagged' <=> \E i \in queue' \cup ({job'} \ {None}): i.kind = "refresh")
  BY <1>1, <1>2 DEF Begin, TypeOK, OneRefresh
<1>4. TypeOK'
  BY <1>1, <1>2, <1>3 DEF Begin, TypeOK, files, process, checking, bounds
<1>5. JobShape' /\ CopyShape'
  BY <1>1, <1>2 DEF Begin, JobShape, CopyShape, files, Broken
<1> QED
  BY <1>3, <1>4, <1>5

\* The steps that a job may go to.
LEMMA StepTypes ==
  ASSUME Types, job # None, NEW step \in Steps, Step(step)
  PROVE  job' \in Jobs /\ job' # None /\ job'.kind = job.kind /\ job'.step = step
         /\ job'.previous = job.previous /\ job'.secret = job.secret /\ job'.seen = job.seen
BY Bounds DEF Types, TypeOK, Step, Jobs, Steps

LEMMA FailsTypes ==
  ASSUME Types, job # None, job.kind \in Changes, Fails
  PROVE  job' \in Jobs /\ job' # None /\ job'.kind = job.kind /\ job'.secret = job.secret
         /\ job'.step \in {"fail", "rollback"} /\ faulty' = TRUE
<1>1. OnFailure \in Steps /\ OnFailure \in {"fail", "rollback"}
  BY DEF OnFailure, Steps
<1> QED
  BY <1>1, StepTypes DEF Fails

LEMMA StartedTypes == ASSUME Types, Started PROVE unit' \in Units /\ live' \in [open: BOOLEAN, secret: Passwords]
BY Bounds DEF Types, TypeOK, Started, Units, Conf, Passwords, NoSecret

\* What the script leaves, and the job that wrote it.
LEMMA WrittenTypes ==
  ASSUME Types, job \in Jobs, job.kind \in Changes, Written
  PROVE  /\ conf' \in Conf /\ (conf'.open => conf'.block) /\ file' \in Passwords
         /\ bakConf' \in Conf \cup {None} /\ bakFile' \in Passwords \cup {Missing} /\ secrets' \in Passwords /\ CopyShape'
<1> USE Bounds DEF Types
<1>1. NoSecret \in Passwords /\ job.secret \in Passwords
  BY DEF Passwords, NoSecret, Jobs
<1>2. CASE job.kind = "enable"
  <2>1. /\ conf' = [open |-> TRUE, block |-> TRUE] /\ file' = job.secret /\ bakConf' = conf /\ bakFile' = file
        /\ secrets' = secrets
    BY <1>2 DEF Written
  <2> QED
    BY <1>1, <2>1 DEF TypeOK, CopyShape, Conf
<1>3. CASE job.kind = "disable"
  <2>1. /\ conf' = [open |-> FALSE, block |-> TRUE] /\ file' = (IF file = Missing THEN NoSecret ELSE file)
        /\ bakConf' = conf /\ bakFile' = bakFile /\ secrets' = secrets
    BY <1>3 DEF Written
  <2> QED
    BY <1>1, <2>1 DEF TypeOK, CopyShape, Conf
<1>4. CASE job.kind = "regenerate"
  <2>1. /\ secrets < MaxSecrets /\ secrets' = secrets + 1 /\ file' = secrets + 1 /\ bakFile' = file
        /\ UNCHANGED <<conf, bakConf>>
    BY <1>4 DEF Written
  <2> QED
    BY <2>1 DEF TypeOK, CopyShape, Passwords
<1>5. CASE job.kind = "remove"
  BY <1>1, <1>5 DEF Written, TypeOK, CopyShape
<1> QED
  BY <1>2, <1>3, <1>4, <1>5 DEF Changes, Toggles, Secrets

LEMMA WrittenJob ==
  ASSUME Types, job \in Jobs, job.kind \in Changes, Written,
         job' = [job EXCEPT !.step = IF Running THEN "restart" ELSE "save", !.secret = file']
  PROVE  /\ job' \in Jobs /\ job' # None /\ job'.kind = job.kind /\ job'.step \in {"restart", "save"}
         /\ job'.secret = file' /\ job'.previous = job.previous /\ (job'.step = "restart" <=> job.previous = "ready")
<1>1. PICK step \in {"restart", "save"}: /\ job' = [job EXCEPT !.step = step, !.secret = file']
                                        /\ (step = "restart" <=> job.previous = "ready")
  BY DEF Running
<1>2. file' \in Passwords
  BY WrittenTypes
<1>3. /\ job'.step = step /\ job'.secret = file' /\ job'.kind = job.kind /\ job'.previous = job.previous
  BY <1>1 DEF Jobs
<1>4. job' \in Jobs
  BY <1>1, <1>2 DEF Jobs
<1> QED
  BY <1>1, <1>3, <1>4, Bounds

LEMMA WriteTypes == Types /\ Write => Types'
<1> SUFFICES ASSUME Types, Write PROVE Types'
  OBVIOUS
<1>1. job # None /\ job \in Jobs /\ job.step = "write" /\ job.kind \in Changes
  BY DEF Types, Write, TypeOK, Changes
<1>2. /\ conf' \in Conf /\ (conf'.open => conf'.block) /\ file' \in Passwords \cup {Missing}
      /\ bakConf' \in Conf \cup {None} /\ bakFile' \in Passwords \cup {Missing} /\ secrets' \in Passwords /\ CopyShape'
  <2>1. CASE UNCHANGED <<files, secrets>>
    BY <2>1 DEF files, Types, TypeOK, CopyShape
  <2>2. CASE Written
    BY <1>1, <2>2, WrittenTypes
  <2> QED
    BY <2>1, <2>2 DEF Write
<1>3. /\ job' \in Jobs /\ job' # None /\ job'.kind = job.kind /\ faulty' \in BOOLEAN
      /\ job'.step \notin {"write", "persist"} /\ (job'.step = "restart" => job'.previous = "ready")
      /\ (job'.step \in Broken => faulty')
  <2>1. CASE Fails
    BY <1>1, <2>1, FailsTypes DEF Broken
  <2>2. CASE /\ Written /\ job' = [job EXCEPT !.step = IF Running THEN "restart" ELSE "save", !.secret = file']
             /\ UNCHANGED faulty
    BY <1>1, <2>2, WrittenJob DEF Types, TypeOK, Broken
  <2> QED
    BY <2>1, <2>2 DEF Write
<1>4. OneRefresh' /\ (flagged' <=> \E j \in queue' \cup ({job'} \ {None}): j.kind = "refresh")
  BY <1>1, <1>3, QueueTypes DEF Write
<1>5. TypeOK'
  BY <1>1, <1>2, <1>3, <1>4 DEF Write, Types, TypeOK, process, checking
<1>6. JobShape'
  BY <1>1, <1>3 DEF JobShape
<1> QED
  BY <1>2, <1>4, <1>5, <1>6 DEF Types

\* A step that goes on to another, and leaves the row and what waits.
LEMMA GoesOn ==
  ASSUME Types, job # None, NEW step \in Steps \ {"write", "persist", "restart"}, Step(step), job.kind \in Changes,
         faulty' \in BOOLEAN, step \in Broken => faulty', UNCHANGED <<service, queue, flagged, checking, bounds, mixed>>,
         conf' \in Conf, conf'.open => conf'.block, file' \in Passwords \cup {Missing}, UNCHANGED <<bakConf, bakFile>>,
         unit' \in Units, live' \in [open: BOOLEAN, secret: Passwords]
  PROVE  Types'
<1>1. /\ job' \in Jobs /\ job' # None /\ job'.kind = job.kind /\ job'.step = step
  BY StepTypes
<1>2. OneRefresh' /\ (flagged' <=> \E j \in queue' \cup ({job'} \ {None}): j.kind = "refresh")
  BY <1>1, QueueTypes
<1>3. TypeOK'
  BY <1>1, <1>2 DEF Types, TypeOK, checking, bounds
<1>4. JobShape' /\ CopyShape'
  BY <1>1 DEF Types, JobShape, CopyShape
<1> QED
  BY <1>2, <1>3, <1>4 DEF Types

\* A step that ends the job.
LEMMA Ends ==
  ASSUME Types, job # None, job' = None, flagged' = (flagged /\ job.kind # "refresh"), UNCHANGED <<files, queue, checked, bounds, mixed>>,
         faulty' \in BOOLEAN, service' \in Row, unit' \in Units, live' \in [open: BOOLEAN, secret: Passwords],
         pendingStatus' \in SETTLED_STATUSES \cup {None}
  PROVE  Types'
<1>1. flagged \in BOOLEAN
  BY DEF Types, TypeOK
<1>2. OneRefresh' /\ (flagged' <=> \E j \in queue' \cup ({job'} \ {None}): j.kind = "refresh")
  <2>1. CASE job.kind = "refresh"
    BY <2>1, QueueTypes
  <2>2. CASE job.kind # "refresh"
    BY <1>1, <2>2, QueueTypes
  <2> QED
    BY <2>1, <2>2
<1>3. TypeOK'
  BY <1>2 DEF Types, TypeOK, files, bounds
<1>4. JobShape' /\ CopyShape'
  BY DEF Types, JobShape, CopyShape, files
<1> QED
  BY <1>2, <1>3, <1>4 DEF Types

LEMMA RowWith ==
  ASSUME Types, NEW status \in Statuses
  PROVE  /\ [service EXCEPT !.status = status] \in Row
         /\ [service EXCEPT !.status = status, !.failed = TRUE, !.effective = None] \in Row
         /\ \A b \in BOOLEAN: /\ [service EXCEPT !.status = status, !.failed = FALSE, !.networking = b, !.effective = b] \in Row
                             /\ [service EXCEPT !.effective = b, !.status = status] \in Row
         /\ \A x \in Passwords: [service EXCEPT !.status = status, !.secret = x] \in Row
BY DEF Types, TypeOK, Row

LEMMA ManagedTypes ==
  ASSUME Types, Managed \/ UNCHANGED process \/ (unit' = "failed" /\ UNCHANGED live)
  PROVE  unit' \in Units /\ live' \in [open: BOOLEAN, secret: Passwords]
BY StartedTypes DEF Types, TypeOK, Managed, process, Units

LEMMA JobTypes == Types /\ JobStep => Types'
<1> SUFFICES ASSUME Types, JobStep PROVE Types'
  OBVIOUS
<1> USE Bounds
<1>1. TypeOK /\ JobShape /\ OneRefresh /\ CopyShape
  BY DEF Types
<1>2. CASE Write
  BY <1>2, WriteTypes
<1>3. CASE Restart
  <2>1. unit' \in Units /\ live' \in [open: BOOLEAN, secret: Passwords]
    BY <1>1, <1>3, StartedTypes DEF Restart, TypeOK, process, Units
  <2>2. job # None /\ job.kind \in Changes /\ UNCHANGED <<service, files, queue, flagged, checking, bounds, mixed>>
    BY <1>1, <1>3 DEF Restart, JobShape
  <2>3. CASE Fails
    BY <1>1, <2>1, <2>2, <2>3, GoesOn DEF Fails, OnFailure, Steps, files, TypeOK
  <2>4. CASE Step("save") /\ UNCHANGED faulty
    BY <1>1, <2>1, <2>2, <2>4, GoesOn DEF Steps, Broken, files, TypeOK
  <2> QED
    BY <1>3, <2>3, <2>4 DEF Restart
<1>4. CASE Rollback
  <2>1. job # None /\ job.kind \in Changes /\ faulty = TRUE
    BY <1>1, <1>4 DEF Rollback, JobShape, Broken, TypeOK
  <2>2. conf' \in Conf /\ (conf'.open => conf'.block) /\ file' \in Passwords \cup {Missing}
    BY <1>1, <1>4 DEF Rollback, TypeOK, CopyShape
  <2>3. PICK step \in {"again", "fail"}: Step(step)
    BY <1>4 DEF Rollback
  <2> QED
    BY <1>1, <1>4, <2>1, <2>2, <2>3, GoesOn DEF Rollback, Steps, Broken, TypeOK, process
<1>5. CASE RestartAgain
  <2>1. job # None /\ job.kind \in Changes /\ faulty = TRUE
    BY <1>1, <1>5 DEF RestartAgain, JobShape, Broken, TypeOK
  <2>2. unit' \in Units /\ live' \in [open: BOOLEAN, secret: Passwords]
    BY <1>1, <1>5, StartedTypes DEF RestartAgain, TypeOK, process, Units
  <2> QED
    BY <1>1, <1>5, <2>1, <2>2, GoesOn DEF RestartAgain, Steps, Broken, TypeOK, files
<1>6. CASE Fail
  <2>1. job.kind # "refresh" /\ "failed" \in Statuses
    BY <1>1, <1>6 DEF Fail, JobShape, Changes, Toggles, Secrets, Statuses, SETTLED_STATUSES
  <2>2. service' \in Row
    BY <1>6, <2>1, RowWith DEF Fail
  <2> QED
    BY <1>1, <1>6, <2>1, <2>2, Ends DEF Fail, TypeOK, process, checking
<1>7. CASE Save
  <2>1. job.kind # "refresh" /\ job # None /\ job \in Jobs
    BY <1>1, <1>7 DEF Save, JobShape, Changes, Toggles, Secrets, TypeOK
  <2>2. StatusWritten(job.previous) \in Statuses /\ job.secret \in Passwords
    BY <1>1, <2>1 DEF StatusWritten, Jobs, TypeOK, Row, Statuses
  <2>3. service' \in Row
    BY <1>7, <2>2, RowWith DEF Save, Saved
  <2>4. faulty' \in BOOLEAN
    BY <1>1, <1>7 DEF Save, TypeOK
  <2> QED
    BY <1>1, <1>7, <2>1, <2>3, <2>4, Ends DEF Save, TypeOK, process, checking
<1>8. CASE ManageJob
  <2>1. job.kind # "refresh" /\ job # None
    BY <1>8 DEF ManageJob, Actions
  <2>2. unit' \in Units /\ live' \in [open: BOOLEAN, secret: Passwords]
    BY <1>8, ManagedTypes DEF ManageJob
  <2>3. \A status \in SETTLED_STATUSES: StatusWritten(status) \in Statuses
    BY <1>1 DEF StatusWritten, TypeOK, Row, Statuses
  <2>4. service' \in Row
    <3>1. PICK status \in Statuses: service' = [service EXCEPT !.status = status]
      <4>1. {"stopped", "ready", "failed"} \subseteq SETTLED_STATUSES /\ "failed" \in Statuses
        BY DEF Statuses, SETTLED_STATUSES
      <4>2. CASE service' = [service EXCEPT !.status = StatusWritten(IF job.kind = "stop" THEN "stopped" ELSE "ready")]
        BY <2>3, <4>1, <4>2
      <4>3. CASE \E status \in {StatusWritten("failed"), "failed"}: service' = [service EXCEPT !.status = status]
        BY <2>3, <4>1, <4>3
      <4> QED
        BY <1>8, <4>2, <4>3 DEF ManageJob
    <3> QED
      BY <3>1, RowWith
  <2> QED
    BY <1>1, <1>8, <2>1, <2>2, <2>4, Ends DEF ManageJob, TypeOK, checking
<1>9. CASE Probe
  <2>1. job # None /\ job \in Jobs /\ job.kind = "refresh"
    BY <1>1, <1>9 DEF Probe, TypeOK
  <2>2. CASE job' = None /\ clearFlag
    <3>1. flagged' = (flagged /\ job.kind # "refresh")
      BY <2>1, <2>2 DEF clearFlag
    <3> QED
      BY <1>1, <1>9, <2>1, <2>2, <3>1, Ends DEF Probe, TypeOK, process, checking
  <2>3. CASE /\ job' = [job EXCEPT !.step = "persist", !.seen = [state |-> unit, open |-> conf.open]] /\ UNCHANGED flagged
    <3>1. /\ job' \in Jobs /\ job'.kind = "refresh" /\ job'.step = "persist"
          /\ job'.seen = [state |-> unit, open |-> conf.open]
      BY <1>1, <2>1, <2>3 DEF Jobs, TypeOK, Conf
    <3>2. OneRefresh' /\ (flagged' <=> \E j \in queue' \cup ({job'} \ {None}): j.kind = "refresh")
      BY <1>9, <2>1, <2>3, <3>1, QueueTypes DEF Probe
    <3>3. TypeOK' /\ CopyShape'
      BY <1>1, <1>9, <3>1, <3>2 DEF Probe, TypeOK, CopyShape, files, process, checking, bounds
    <3>4. JobShape'
      BY <1>1, <3>1 DEF JobShape, Broken, TypeOK, Conf
    <3> QED
      BY <3>2, <3>3, <3>4 DEF Types
  <2> QED
    BY <1>9, <2>2, <2>3 DEF Probe
<1>10. CASE persist
  <2>1. job # None /\ job.kind = "refresh"
    BY <1>1, <1>10 DEF persist
  <2>2. job.seen \in [state: Units, open: BOOLEAN]
    BY <1>1, <1>10 DEF persist, JobShape
  <2>3. job.seen.open \in BOOLEAN /\ StatusOf(job.seen.state) \in Statuses
    BY <2>2 DEF StatusOf, Units, Statuses, SETTLED_STATUSES
  <2>4. service' \in Row
    BY <1>10, <2>3, RowWith DEF persist
  <2> QED
    BY <1>1, <1>10, <2>1, <2>4, Ends DEF persist, clearFlag, TypeOK, process
<1> QED
  BY <1>2, <1>3, <1>4, <1>5, <1>6, <1>7, <1>8, <1>9, <1>10 DEF JobStep

LEMMA OtherTypes == Types /\ (check \/ sync \/ Stops \/ UNCHANGED svars) => Types'
<1> SUFFICES ASSUME Types, check \/ sync \/ Stops \/ UNCHANGED svars PROVE Types'
  OBVIOUS
<1> USE Bounds DEF Types
<1>1. CASE check
  <2>1. StatusOf(unit) \in SETTLED_STATUSES
    BY DEF TypeOK, StatusOf, Units, SETTLED_STATUSES
  <2>2. checked' \in [status: SETTLED_STATUSES, new: SETTLED_STATUSES]
    BY <1>1, <2>1 DEF check, Settled
  <2> QED
    BY <1>1, <2>2 DEF check, TypeOK, JobShape, OneRefresh, CopyShape, files, process, bounds
<1>2. CASE sync
  <2>1. checked \in [status: SETTLED_STATUSES, new: SETTLED_STATUSES]
    BY <1>2 DEF sync, TypeOK
  <2>2. service.status \in Statuses /\ checked.new \in SETTLED_STATUSES /\ checked.new \in Statuses
    BY <2>1 DEF TypeOK, Row, Statuses
  <2>3. service' \in Row /\ pendingStatus' \in SETTLED_STATUSES \cup {None}
    <3>1. service' = service \/ service' = [service EXCEPT !.status = IF @ = checked.status THEN checked.new ELSE @]
      BY <1>2 DEF sync
    <3>2. (IF service.status = checked.status THEN checked.new ELSE service.status) \in Statuses
      BY <2>2
    <3> QED
      BY <1>2, <2>2, <3>1, <3>2, RowWith DEF sync, TypeOK
  <2> QED
    BY <1>2, <2>3 DEF sync, TypeOK, JobShape, OneRefresh, CopyShape, files, process, bounds
<1>3. CASE Stops
  BY <1>3 DEF Stops, TypeOK, JobShape, OneRefresh, CopyShape, files, checking, Units
<1>4. CASE UNCHANGED svars
  BY <1>4 DEF svars, TypeOK, JobShape, OneRefresh, CopyShape, files, process, checking, bounds
<1> QED
  BY <1>1, <1>2, <1>3, <1>4

LEMMA ServiceTypes == Types /\ [Next]_svars => Types'
BY RequestTypes, JobTypes, OtherTypes, BeginTypes DEF Next, BeginSome

-----------------------------------------------------------------------------
(* What the files hold. *)

\* A request beside no other leaves the files, and says what will be done with them.
LEMMA RequestKeeps == Inv /\ Request => Calm' /\ Whole'
<1> SUFFICES ASSUME Inv, Request, ~mixed' PROVE Alone' /\ Opens' /\ (~faulty' => OpenHasPassword' /\ Fits' /\ Fitting')
  BY DEF Calm, Whole
<1> USE DEF Inv, Calm, Whole
<1>1. PICK kind \in JobKinds: dispatch(kind) /\ (kind = "enable" => enable) /\ (kind = "remove" => Removable)
                             /\ (kind = "regenerate" => service.secret # NoSecret)
                             /\ (kind # "enable" => service'.secret = service.secret)
  <2> USE DEF JobKinds, Toggles, Secrets, Actions
  <2>1. \A status: [service EXCEPT !.status = status].secret = service.secret
    BY DEF Types, TypeOK, Row
  <2>2. CASE enable
    BY <2>2 DEF enable
  <2>3. CASE disable
    BY <2>1, <2>3 DEF disable
  <2>4. CASE regenerate
    BY <2>1, <2>4 DEF regenerate
  <2>5. CASE remove
    BY <2>1, <2>5 DEF remove
  <2>6. CASE \E a \in Actions: manage(a)
    BY <2>1, <2>6 DEF manage
  <2>7. CASE refresh
    BY <2>7 DEF refresh
  <2> QED
    BY <2>2, <2>3, <2>4, <2>5, <2>6, <2>7 DEF Request
<1>2. /\ queue = {} /\ job = None /\ ~mixed /\ UNCHANGED <<files, process, job, faulty>>
      /\ service'.networking = service.networking
  <2>1. UNCHANGED <<files, process, job, faulty>>
    BY DEF Request, enable, disable, regenerate, remove, manage, refresh
  <2>2. service'.networking = service.networking
    BY DEF Request, enable, disable, regenerate, remove, manage, refresh, Types, TypeOK, Row
  <2> QED
    BY <1>1, <2>1, <2>2 DEF dispatch, Busy, Types, TypeOK
<1>3. PICK j: queue' = {j} /\ j.kind = kind
  <2> DEFINE n == [id |-> requests, kind |-> kind,
                   previous |-> IF kind \in Toggles \cup Secrets THEN service.status ELSE "ready"]
  <2>1. queue' = {n} /\ n.kind = kind
    BY <1>1, <1>2 DEF dispatch
  <2> QED
    BY <2>1
<1>4. Alone' /\ Opens'
  BY <1>2, <1>3 DEF Alone, Opens
<1>5. ASSUME ~faulty' PROVE OpenHasPassword' /\ Fits' /\ Fitting'
  <2>1. OpenHasPassword /\ Fits /\ ~Doing("enable") /\ ~Changed
    BY <1>2, <1>5 DEF Doing, Changed
  <2>2. OpenHasPassword'
    BY <1>2, <2>1 DEF OpenHasPassword, process
  <2>3. Fits'
    BY <1>1, <1>2, <1>3, <2>1 DEF Fits, Doing, Changed, files
  <2>4. Fitting'
    BY <1>1, <1>2, <1>3 DEF Fitting, Doing, Changed, Removable
  <2> QED
    BY <2>2, <2>3, <2>4
<1> QED
  BY <1>4, <1>5

LEMMA BeginKeeps == ASSUME Inv, NEW j \in queue, Begin(j) PROVE Calm' /\ Whole'
<1> SUFFICES ASSUME ~mixed' PROVE Alone' /\ Opens' /\ (~faulty' => OpenHasPassword' /\ Fits' /\ Fitting')
  BY DEF Calm, Whole
<1> USE DEF Inv, Calm, Whole
<1>1. ~mixed /\ Alone /\ job = None /\ queue' = {} /\ UNCHANGED <<service, files, process, faulty>>
  BY DEF Begin, Alone
<1>2. job' # None /\ job'.kind = j.kind /\ job'.step = "write" /\ job'.secret = service.secret
  BY BegunTypes
<1>3. Alone' /\ Opens'
  BY <1>1, <1>2 DEF Alone, Opens
<1>4. ASSUME ~faulty' PROVE OpenHasPassword' /\ Fits' /\ Fitting'
  <2>1. OpenHasPassword /\ Fits /\ Fitting /\ ~Changed /\ ~Changed'
    BY <1>1, <1>2, <1>4 DEF Changed
  <2>2. \A kind: (\E i \in queue: i.kind = kind) <=> j.kind = kind
    BY <1>1 DEF Alone
  <2>3. \A kind: Doing(kind)' <=> Doing(kind)
    BY <1>1, <1>2, <2>2 DEF Doing
  <2> QED
    BY <1>1, <2>1, <2>3 DEF OpenHasPassword, Fits, Fitting, files, process
<1> QED
  BY <1>3, <1>4

\* Alone, what is done is what the job does.
LEMMA OwnWork ==
  ASSUME Inv, ~mixed, job # None
  PROVE  queue = {} /\ Opens /\ \A kind: Doing(kind) <=> job.kind = kind
BY DEF Inv, Calm, Alone, Doing

\* A step that fails is the last that is spoken of.
LEMMA FailsKeeps ==
  ASSUME Inv, job # None, job.kind \in Changes, Fails, UNCHANGED <<service, queue, mixed>>
  PROVE  Calm' /\ Whole'
<1>1. /\ job' # None /\ job'.kind = job.kind /\ job'.secret = job.secret
      /\ job'.step \in {"fail", "rollback"} /\ faulty'
  BY FailsTypes DEF Inv
<1>2. Whole'
  BY <1>1 DEF Whole
<1>3. CASE ~mixed
  BY <1>1, <1>2, <1>3, OwnWork DEF Calm, Alone, Opens
<1>4. CASE mixed
  BY <1>2, <1>4 DEF Calm, Inv, Types, TypeOK
<1> QED
  BY <1>2, <1>3, <1>4

LEMMA WriteKeeps == Inv /\ Write => Calm' /\ Whole'
<1> SUFFICES ASSUME Inv, Write PROVE Calm' /\ Whole'
  OBVIOUS
<1>1. /\ job # None /\ job \in Jobs /\ job.step = "write" /\ job.kind \in Changes
      /\ UNCHANGED <<service, process, queue, mixed>>
  BY DEF Write, Inv, Types, TypeOK, Changes
<1>2. CASE Fails
  BY <1>1, <1>2, FailsKeeps
<1>3. CASE mixed
  BY <1>1, <1>3 DEF Calm, Whole
<1>4. ASSUME ~mixed, ~(job.kind = "enable" /\ job.secret = NoSecret), Written,
             job' = [job EXCEPT !.step = IF Running THEN "restart" ELSE "save", !.secret = file'], UNCHANGED faulty
      PROVE  Calm' /\ Whole'
  <2>1. /\ job' # None /\ job'.kind = job.kind /\ job'.step \in {"restart", "save"} /\ job'.secret = file'
        /\ (job'.step = "save" => job'.previous # "ready")
    BY <1>1, <1>4, WrittenJob DEF Inv
  <2>2. queue = {} /\ Opens /\ \A kind: Doing(kind) <=> job.kind = kind
    BY <1>1, <1>4, OwnWork
  <2>3. (\A kind: Doing(kind)' <=> job.kind = kind) /\ Alone' /\ Changed'
    BY <1>1, <2>1, <2>2 DEF Doing, Alone, Changed
  <2>4. Opens'
    <3>1. CASE job.kind = "enable"
      <4>1. conf' = [open |-> TRUE, block |-> TRUE] /\ file' = job.secret
        BY <1>4, <3>1 DEF Written
      <4> QED
        BY <1>1, <1>4, <2>1, <2>2, <3>1, <4>1 DEF Opens
    <3>2. CASE job.kind # "enable"
      BY <2>1, <3>2 DEF Opens
    <3> QED
      BY <3>1, <3>2
  <2>5. ASSUME ~faulty PROVE OpenHasPassword' /\ Fits' /\ Fitting'
    <3>1. OpenHasPassword /\ Fits /\ Fitting /\ ~Changed
      BY <1>1, <1>4, <2>5 DEF Inv, Whole, Changed
    <3>2. OpenHasPassword'
      BY <1>1, <3>1 DEF OpenHasPassword, process
    <3>3. CASE job.kind = "enable"
      BY <2>1, <2>3, <3>2, <3>3 DEF Fits, Fitting, Secrets
    <3>4. CASE job.kind = "disable"
      <4>1. conf' = [open |-> FALSE, block |-> TRUE] /\ file' = (IF file = Missing THEN NoSecret ELSE file)
        BY <1>4, <3>4 DEF Written
      <4>2. service.secret # NoSecret => file = service.secret /\ file # Missing
        BY <2>2, <3>1, <3>4, Bounds DEF Fits, Inv, Types, TypeOK, Row, Passwords, Missing
      <4> QED
        BY <1>1, <2>1, <2>2, <2>3, <3>1, <3>2, <3>4, <4>1, <4>2 DEF Fits, Fitting, Secrets
    <3>5. CASE job.kind = "regenerate"
      <4>1. file' = secrets + 1 /\ UNCHANGED conf
        BY <1>4, <3>5 DEF Written
      <4>2. file' # NoSecret
        BY <4>1, Bounds DEF Inv, Types, TypeOK, Passwords, NoSecret
      <4> QED
        BY <1>1, <2>1, <2>2, <2>3, <3>1, <3>2, <3>5, <4>1, <4>2 DEF Fits, Fitting, Secrets
    <3>6. CASE job.kind = "remove"
      <4>1. file' = NoSecret /\ UNCHANGED conf
        BY <1>4, <3>6 DEF Written
      <4> QED
        BY <1>1, <2>1, <2>2, <2>3, <3>1, <3>2, <3>6, <4>1 DEF Fits, Fitting, Secrets
    <3> QED
      BY <1>1, <3>2, <3>3, <3>4, <3>5, <3>6 DEF Changes, Toggles, Secrets
  <2> QED
    BY <1>4, <2>3, <2>4, <2>5 DEF Calm, Whole
<1> QED
  BY <1>2, <1>3, <1>4 DEF Write

LEMMA RestartKeeps == Inv /\ Restart => Calm' /\ Whole'
<1> SUFFICES ASSUME Inv, Restart PROVE Calm' /\ Whole'
  OBVIOUS
<1>1. /\ job # None /\ job \in Jobs /\ job.step = "restart" /\ job.kind \in Changes
      /\ UNCHANGED <<service, files, queue, mixed>>
  BY DEF Restart, Inv, Types, TypeOK, JobShape
<1>2. CASE Fails
  BY <1>1, <1>2, FailsKeeps
<1>3. CASE mixed
  BY <1>1, <1>3 DEF Calm, Whole, Inv, Types, TypeOK
<1>4. ASSUME ~mixed, CanStart, Started, Step("save"), UNCHANGED faulty
      PROVE  Calm' /\ Whole'
  <2>1. job' # None /\ job'.kind = job.kind /\ job'.step = "save" /\ job'.secret = job.secret
    BY <1>1, <1>4, StepTypes DEF Inv, Steps
  <2>2. queue = {} /\ Opens /\ \A kind: Doing(kind) <=> job.kind = kind
    BY <1>1, <1>4, OwnWork
  <2>3. (\A kind: Doing(kind)' <=> job.kind = kind) /\ Alone' /\ Changed /\ Changed'
    BY <1>1, <2>1, <2>2 DEF Doing, Alone, Changed
  <2>4. live' = [open |-> conf.open, secret |-> IF file = Missing THEN NoSecret ELSE file]
    BY <1>4 DEF Started
  <2>5. Opens'
    <3>1. CASE job.kind = "enable"
      <4>1. conf.open /\ conf.block /\ file = job.secret /\ job.secret # NoSecret /\ job.secret = service.secret
        BY <1>1, <2>2, <3>1 DEF Opens
      <4>2. file # Missing
        BY <1>1, <4>1, Bounds DEF Jobs, Passwords, Missing
      <4>3. OpenHasPassword'
        BY <2>4, <4>1, <4>2 DEF OpenHasPassword
      <4> QED
        BY <1>1, <2>1, <4>1, <4>3 DEF Opens, files
    <3>2. CASE job.kind # "enable"
      BY <2>1, <3>2 DEF Opens
    <3> QED
      BY <3>1, <3>2
  <2>6. ASSUME ~faulty PROVE OpenHasPassword' /\ Fits' /\ Fitting'
    <3>1. Fits /\ Fitting
      BY <1>4, <2>6 DEF Inv, Whole
    <3>2. Fits' /\ Fitting'
      BY <1>1, <2>1, <2>2, <2>3, <3>1 DEF Fits, Fitting, files
    <3>3. conf.open => file # NoSecret /\ file # Missing
      <4>1. service.secret \in Passwords /\ job.secret \in Passwords
        BY <1>1 DEF Inv, Types, TypeOK, Row, Jobs
      <4>2. CASE job.kind = "enable"
        BY <1>1, <2>2, <4>1, <4>2, Bounds DEF Opens, Passwords, Missing
      <4>3. CASE job.kind = "disable"
        BY <2>3, <3>1, <4>3 DEF Fitting
      <4>4. CASE job.kind = "regenerate"
        BY <2>3, <3>1, <4>1, <4>4, Bounds DEF Fitting, Secrets, Passwords, Missing
      <4>5. CASE job.kind = "remove"
        <5>1. Doing("remove") /\ ~Doing("enable")
          BY <2>2, <4>5
        <5> QED
          BY <3>1, <4>5, <5>1 DEF Fits, Fitting
      <4> QED
        BY <1>1, <4>2, <4>3, <4>4, <4>5 DEF Changes, Toggles, Secrets
    <3>4. OpenHasPassword'
      BY <2>4, <3>3 DEF OpenHasPassword
    <3> QED
      BY <3>2, <3>4
  <2> QED
    BY <1>4, <2>3, <2>5, <2>6 DEF Calm, Whole
<1> QED
  BY <1>2, <1>3, <1>4 DEF Restart

\* A job that failed goes on to its end, and the files are not spoken of.
LEMMA BrokenKeeps == Inv /\ (Rollback \/ RestartAgain \/ Fail) => Calm' /\ Whole'
<1> SUFFICES ASSUME Inv, Rollback \/ RestartAgain \/ Fail, ~mixed' PROVE Alone' /\ Opens' /\ faulty'
  BY DEF Calm, Whole
<1>1. /\ job # None /\ job.step \in Broken /\ job.kind \in Changes /\ faulty' /\ ~mixed /\ queue' = queue
  BY DEF Rollback, RestartAgain, Fail, Broken, Inv, Types, JobShape
<1>2. queue = {} /\ Opens
  BY <1>1, OwnWork
<1>3. CASE job' = None
  BY <1>1, <1>2, <1>3 DEF Alone, Opens
<1>4. ASSUME NEW step \in {"again", "fail"}, Step(step), service' = service PROVE Alone' /\ Opens'
  <2>1. job' # None /\ job'.kind = job.kind /\ job'.step = step /\ job'.secret = job.secret
    BY <1>1, <1>4, StepTypes DEF Inv, Steps
  <2> QED
    BY <1>1, <1>2, <1>4, <2>1 DEF Alone, Opens
<1> QED
  BY <1>1, <1>3, <1>4 DEF Rollback, RestartAgain, Fail

LEMMA SaveKeeps == Inv /\ Save => Calm' /\ Whole'
<1> SUFFICES ASSUME Inv, Save, ~mixed'
    PROVE  Alone' /\ Opens' /\ (~faulty' => OpenHasPassword' /\ Fits' /\ Fitting')
  BY DEF Calm, Whole
<1>1. /\ job # None /\ job \in Jobs /\ job.step = "save" /\ job.kind \in Changes /\ ~mixed
      /\ job' = None /\ UNCHANGED <<files, process, queue, mixed>>
  BY DEF Save, Inv, Types, TypeOK, JobShape
<1>2. queue = {} /\ Opens /\ \A kind: Doing(kind) <=> job.kind = kind
  BY <1>1, OwnWork
<1>3. Alone' /\ Opens' /\ ~Changed' /\ \A kind: ~Doing(kind)'
  BY <1>1, <1>2 DEF Alone, Opens, Changed, Doing
<1>4. service \in Row
  BY DEF Inv, Types, TypeOK
<1>5. ASSUME ~faulty' PROVE OpenHasPassword' /\ Fits' /\ Fitting'
  <2>1. Fitting'
    BY <1>3 DEF Fitting
  <2>2. CASE job.kind = "enable"
    <3>1. service'.networking = TRUE /\ service'.secret = service.secret
      BY <1>4, <2>2 DEF Save, Saved, Toggles, Row
    <3>2. conf.open /\ conf.block /\ file = service.secret /\ service.secret # NoSecret
      BY <1>1, <1>2, <2>2 DEF Opens
    <3>3. conf.open = TRUE
      BY <3>2 DEF Inv, Types, TypeOK, Conf
    <3>4. OpenHasPassword
      <4>1. CASE job.previous = "ready"
        BY <1>1, <1>2, <2>2, <4>1 DEF Opens
      <4>2. CASE job.previous # "ready"
        BY <1>1, <1>5, <4>2 DEF Save, Running, Inv, Whole
      <4> QED
        BY <4>1, <4>2
    <3>5. OpenHasPassword'
      BY <1>1, <3>4 DEF OpenHasPassword, process
    <3>6. Fits'
      BY <1>1, <3>1, <3>2, <3>3, <1>3 DEF Fits, files
    <3> QED
      BY <2>1, <3>5, <3>6
  <2>3. CASE job.kind # "enable"
    <3>1. OpenHasPassword /\ Fits /\ Fitting /\ Changed
      BY <1>1, <1>5, <2>3 DEF Save, Inv, Whole, Changed
    <3>2. OpenHasPassword'
      BY <1>1, <3>1 DEF OpenHasPassword, process
    <3>3. ~Doing("enable")
      BY <1>2, <2>3
    <3>4. CASE job.kind = "disable"
      <4>1. service'.networking = FALSE /\ service'.secret = service.secret
        BY <1>4, <3>4 DEF Save, Saved, Toggles, Row
      <4>2. conf.open = FALSE
        BY <3>1, <3>4 DEF Fitting, Inv, Types, TypeOK, Conf
      <4>3. Fits'
        BY <1>1, <1>3, <3>1, <3>3, <3>4, <4>1, <4>2 DEF Fits, files, Secrets
      <4> QED
        BY <2>1, <3>2, <4>3
    <3>5. CASE job.kind \in Secrets
      <4>1. service'.networking = service.networking /\ service'.secret = job.secret
        BY <1>4, <3>5 DEF Save, Saved, Toggles, Secrets, Row
      <4>2. conf.open = service.networking /\ conf.block /\ file = job.secret
        BY <3>1, <3>3, <3>5 DEF Fits, Fitting, Secrets
      <4>3. service.networking => job.secret # NoSecret
        <5>1. CASE job.kind = "regenerate"
          BY <3>1, <5>1 DEF Fitting
        <5>2. CASE job.kind = "remove"
          BY <1>2, <3>1, <5>2 DEF Fitting
        <5> QED
          BY <3>5, <5>1, <5>2 DEF Secrets
      <4>4. Fits'
        BY <1>1, <1>3, <4>1, <4>2, <4>3 DEF Fits, files
      <4> QED
        BY <2>1, <3>2, <4>4
    <3> QED
      BY <1>1, <2>3, <3>4, <3>5 DEF Changes, Toggles
  <2> QED
    BY <2>2, <2>3
<1> QED
  BY <1>3, <1>5

\* Starting a service that fits starts it with its password.
LEMMA ManageKeeps == Inv /\ ManageJob => Calm' /\ Whole'
<1> SUFFICES ASSUME Inv, ManageJob, ~mixed'
    PROVE  Alone' /\ Opens' /\ (~faulty' => OpenHasPassword' /\ Fits' /\ Fitting')
  BY DEF Calm, Whole
<1>1. /\ job # None /\ job.kind \in Actions /\ ~mixed
      /\ job' = None /\ UNCHANGED <<files, queue, mixed, faulty>>
  BY DEF ManageJob
<1>2. queue = {} /\ Opens /\ \A kind: Doing(kind) <=> job.kind = kind
  BY <1>1, OwnWork
<1>3. Alone' /\ Opens' /\ ~Changed' /\ \A kind: ~Doing(kind)'
  BY <1>1, <1>2 DEF Alone, Opens, Changed, Doing
<1>4. service'.networking = service.networking /\ service'.secret = service.secret
  BY DEF ManageJob, Inv, Types, TypeOK, Row
<1>5. ASSUME ~faulty' PROVE OpenHasPassword' /\ Fits' /\ Fitting'
  <2>1. OpenHasPassword /\ Fits /\ ~Doing("enable") /\ ~(Changed /\ job.kind \in Changes)
    BY <1>1, <1>2, <1>5 DEF Inv, Whole, Changes, Toggles, Secrets, Actions
  <2>2. /\ service.networking => service.secret # NoSecret
        /\ service.secret # NoSecret => conf.block /\ file = service.secret
        /\ conf.open = service.networking
    BY <2>1 DEF Fits, Changes, Toggles
  <2>3. Fits' /\ Fitting'
    BY <1>1, <1>3, <1>4, <2>2 DEF Fits, Fitting, files
  <2>4. conf.open => file # NoSecret /\ file # Missing
    BY <2>2, Bounds DEF Inv, Types, TypeOK, Row, Passwords, Missing
  <2>5. Started => OpenHasPassword'
    BY <2>4 DEF Started, OpenHasPassword
  <2>6. UNCHANGED process => OpenHasPassword'
    BY <2>1 DEF OpenHasPassword, process
  <2>7. unit' \in {"inactive", "failed"} => OpenHasPassword'
    BY DEF OpenHasPassword
  <2>8. OpenHasPassword'
    BY <2>5, <2>6, <2>7 DEF ManageJob, Managed
  <2> QED
    BY <2>3, <2>8
<1> QED
  BY <1>3, <1>5

\* What reads the server, or stops the service, leaves files and passwords.
LEMMA ReadingKeeps == Inv /\ (Probe \/ persist \/ check \/ sync \/ Stops \/ UNCHANGED svars) => Calm' /\ Whole'
<1> SUFFICES ASSUME Inv, Probe \/ persist \/ check \/ sync \/ Stops \/ UNCHANGED svars, ~mixed'
    PROVE  Alone' /\ Opens' /\ (~faulty' => OpenHasPassword' /\ Fits' /\ Fitting')
  BY DEF Calm, Whole
<1>1. /\ UNCHANGED <<conf, file, live, queue, mixed, faulty>>
      /\ service'.networking = service.networking /\ service'.secret = service.secret
      /\ (unit' = unit \/ unit' \in {"inactive", "failed"})
  BY DEF Probe, persist, check, sync, Stops, svars, files, process, Inv, Types, TypeOK, Row
<1>2. OpenHasPassword => OpenHasPassword'
  BY <1>1 DEF OpenHasPassword
<1>3. CASE job' = job
  BY <1>1, <1>2, <1>3 DEF Inv, Calm, Whole, Alone, Opens, Fits, Fitting, Doing, Changed, OpenHasPassword
<1>4. CASE Probe \/ persist
  <2>1. job # None /\ job \in Jobs /\ job.kind = "refresh"
    BY <1>4 DEF Probe, persist, Inv, Types, TypeOK
  <2>2. queue = {} /\ ~mixed
    BY <1>1, <2>1, OwnWork
  <2>3. job' = None \/ (job'.kind = "refresh" /\ job'.step = "persist")
    BY <1>4, <2>1 DEF Probe, persist, Jobs
  <2>4. /\ \A kind: Doing(kind)' => kind = "refresh"
        /\ \A kind: Doing(kind) => kind = "refresh"
        /\ ~Changed'
    BY <1>1, <2>1, <2>2, <2>3 DEF Doing, Changed
  <2>5. Alone' /\ Opens'
    BY <1>1, <2>2, <2>3 DEF Alone, Opens
  <2>6. ASSUME ~faulty' PROVE Fits' /\ Fitting'
    <3>1. Fits /\ ~Doing("enable")
      BY <1>1, <2>2, <2>4, <2>6 DEF Inv, Whole
    <3>2. Fits'
      BY <1>1, <2>1, <2>4, <3>1 DEF Fits, Secrets
    <3>3. ~Doing("remove")' /\ ~Doing("regenerate")'
      BY <2>4
    <3> QED
      BY <2>4, <3>2, <3>3 DEF Fitting
  <2> QED
    BY <1>1, <1>2, <2>2, <2>5, <2>6 DEF Inv, Whole
<1> QED
  BY <1>3, <1>4 DEF check, sync, Stops, svars

LEMMA ServiceStep == Inv /\ [Next]_svars => Inv'
BY ServiceTypes, RequestKeeps, BeginKeeps, WriteKeeps, RestartKeeps, BrokenKeeps, SaveKeeps, ManageKeeps, ReadingKeeps
DEF Inv, Next, JobStep, BeginSome
\* What the invariant was made for.
LEMMA InvariantFits == Inv => RowFitsServer
<1> SUFFICES ASSUME Inv, ~mixed, ~faulty, ~Busy
    PROVE  conf.open = service.networking /\ (conf.block /\ service.secret # NoSecret => file = service.secret)
  BY DEF RowFitsServer
<1>1. queue = {} /\ job = None /\ Fits
  BY DEF Busy, Inv, Whole
<1> QED
  BY <1>1 DEF Fits, Doing, Changed

LEMMA InvariantHasPassword == Inv => OpenHasPasswordAlone
BY DEF Inv, Whole, OpenHasPasswordAlone
-----------------------------------------------------------------------------
\* The row, the files, the service, and the jobs keep to their values, and the flag of a refresh to its
\* job (RefreshServices.php).
THEOREM ServiceTypeOK == Spec => []TypeOK
<1>1. Inv => TypeOK
  BY DEF Inv, Types
<1> QED
  BY <1>1, ServiceInit, ServiceStep, PTL DEF Spec

\* The row says what the server has, whatever the order of changes that met no other (ToggleNetworkingJob.php,
\* UpdateNetworkingSecretJob.php).
THEOREM RowFits == Spec => []RowFitsServer
BY InvariantFits, ServiceInit, ServiceStep, PTL DEF Spec

\* A service that is open asks for a password (ManagesMemoryDatabaseNetworking.php).
THEOREM OpenWithPassword == Spec => []OpenHasPasswordAlone
BY InvariantHasPassword, ServiceInit, ServiceStep, PTL DEF Spec
-----------------------------------------------------------------------------
(* The dialog. *)

\* While what is shown is from before the own change, the change is being read, or reading it failed.
Shows == stale => loadFailed \/ (submitting /\ sent = None)
WindowTypes ==
  /\ {open, loadFailed, submitting, stale} \subseteq BOOLEAN
  /\ shown \in Views \cup {None} /\ answer \in Views \cup {None} /\ sent \in Kinds \cup {None}
  /\ reading \in {"no", "asked", "answered"} /\ (answer # None <=> reading = "answered")
  /\ (shown # None \/ reading # "no" \/ submitting => open)
DialogInv == Inv /\ WindowTypes /\ Shows

\* The dialog is a user of the service: each of its steps is a request, or leaves the service alone.
LEMMA DialogUsesService == WindowTypes /\ [DialogNext]_vars => [Next]_svars
<1> SUFFICES ASSUME WindowTypes, [DialogNext]_vars PROVE [Next]_svars
  OBVIOUS
<1>1. CASE \/ Open \/ Close \/ Poll \/ Read \/ Loaded \/ LoadFailure \/ Event \/ Refused
           \/ (\E k \in Kinds: submit(k)) \/ UNCHANGED vars
  BY <1>1 DEF Open, Close, Poll, Read, Loaded, LoadFailure, Event, Refused, submit, vars
<1>2. CASE Accepted
  <2>1. sent \in {"enable", "disable", "regenerate", "remove"}
    BY <1>2 DEF Accepted, WindowTypes, Kinds, Toggles, Secrets
  <2>2. enable \/ disable \/ regenerate \/ remove
    BY <1>2, <2>1 DEF Accepted
  <2> QED
    BY <2>2 DEF Next, Request
<1>3. CASE Server
  BY <1>3 DEF Server
<1> QED
  BY <1>1, <1>2, <1>3 DEF DialogNext

LEMMA ViewIsOne == Types => View \in Views /\ View # None
<1> SUFFICES ASSUME Types PROVE View \in Views
  BY DialogAssumption DEF DialogAssumption
<1>1. service.networking \in BOOLEAN /\ service.effective \in BOOLEAN \cup {None}
  BY DEF Types, TypeOK, Row
<1>2. (IF service.effective = None THEN service.networking ELSE service.effective) \in BOOLEAN
  BY <1>1
<1> QED
  BY <1>2 DEF View, Views

LEMMA DialogStarts == DialogInit => DialogInv
<1>1. DialogInit => Inv
  BY ServiceInit DEF DialogInit
<1>2. DialogInit => WindowTypes /\ Shows
  BY DEF DialogInit, WindowTypes, Shows
<1> QED
  BY <1>1, <1>2 DEF DialogInv

\* What is on the screen keeps to its values, and what is stale is being read.
LEMMA WindowStep == Types /\ WindowTypes /\ Shows /\ [DialogNext]_vars => WindowTypes' /\ Shows'
<1> SUFFICES ASSUME Types, WindowTypes, Shows, [DialogNext]_vars PROVE WindowTypes' /\ Shows'
  OBVIOUS
<1> USE DEF WindowTypes, Shows
<1>1. CASE Open
  BY <1>1 DEF Open
<1>2. CASE Close
  BY <1>2 DEF Close
<1>3. CASE Poll
  BY <1>3 DEF Poll
<1>4. CASE Read
  BY <1>4, ViewIsOne DEF Read
<1>5. CASE Loaded
  BY <1>5 DEF Loaded, Ended
<1>6. CASE LoadFailure
  BY <1>6 DEF LoadFailure, Ended
<1>7. CASE Event
  BY <1>7 DEF Event, Invalidated
<1>8. CASE Accepted
  <2>1. /\ sent' = None /\ stale' = submitting /\ submitting' = submitting /\ answer' = None
        /\ reading' = (IF open THEN "asked" ELSE "no") /\ UNCHANGED <<open, shown, loadFailed>>
    BY <1>8 DEF Accepted, Asked, Invalidated
  <2> QED
    BY <2>1
<1>9. CASE Refused
  BY <1>9 DEF Refused
<1>10. ASSUME NEW k \in Kinds, submit(k) PROVE WindowTypes' /\ Shows'
  <2>1. ~submitting
    BY <1>10 DEF submit, Offered
  <2> QED
    BY <1>10, <2>1 DEF submit
<1>11. CASE Server \/ UNCHANGED vars
  BY <1>11 DEF Server, vars, window
<1> QED
  BY <1>1, <1>2, <1>3, <1>4, <1>5, <1>6, <1>7, <1>8, <1>9, <1>10, <1>11 DEF DialogNext

LEMMA DialogStep == DialogInv /\ [DialogNext]_vars => DialogInv'
BY DialogUsesService, ServiceStep, WindowStep DEF DialogInv, Inv
-----------------------------------------------------------------------------
\* The dialog and the service keep to their values; among them that nothing is shown, read or sent in a
\* dialog that is closed (networking-dialog.tsx).
THEOREM DialogTypesOK == DialogSpec => []DialogTypeOK
<1>1. DialogInv => DialogTypeOK
  BY DEF DialogInv, Inv, Types, WindowTypes, DialogTypeOK
<1> QED
  BY <1>1, DialogStarts, DialogStep, PTL DEF DialogSpec

\* Whatever is sent from the dialog, in any order with the changes of others: the row says what the server has
\* (ToggleNetworkingJob.php, UpdateNetworkingSecretJob.php).
THEOREM DialogRowFits == DialogSpec => []RowFitsServer
<1>1. DialogInv => RowFitsServer
  BY InvariantFits DEF DialogInv
<1> QED
  BY <1>1, DialogStarts, DialogStep, PTL DEF DialogSpec

\* Neither does the dialog open a service without a password.
THEOREM DialogOpensWithPassword == DialogSpec => []OpenHasPasswordAlone
<1>1. DialogInv => OpenHasPasswordAlone
  BY InvariantHasPassword DEF DialogInv
<1> QED
  BY <1>1, DialogStarts, DialogStep, PTL DEF DialogSpec

\* When the buttons are back, what is shown was read after the own change, or an error is shown
\* (networking-dialog.tsx submit).
THEOREM OwnChangesAreShown == DialogSpec => []OwnChangeIsShown
<1>1. DialogInv => OwnChangeIsShown
  BY DEF DialogInv, Shows, OwnChangeIsShown
<1> QED
  BY <1>1, DialogStarts, DialogStep, PTL DEF DialogSpec
=============================================================================
