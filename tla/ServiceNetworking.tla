-------------------------- MODULE ServiceNetworking --------------------------
(***************************************************************************)
(* Opening a Redis-like service to other servers, with a password, and     *)
(* closing it again.  Requests change the row of the service and queue a   *)
(* job; the jobs of a server run one at a time, in any order, and change   *)
(* the files of the service, restart it, and write the row.  A refresh     *)
(* (a job too) and a check (outside of the queue) read the server and      *)
(* write the row.  Any command over SSH may fail, before or after it did   *)
(* its work.                                                               *)
(***************************************************************************)
EXTENDS Naturals, FiniteSets

CONSTANTS
  None,          \* no job, no answer, no knowledge
  MaxRequests,   \* bound: jobs that are queued
  MaxSecrets,    \* bound: passwords that are generated
  MaxStops,      \* bound: times the service stops by itself
  Checks         \* bound: whether the check runs

Toggles == {"enable", "disable"}
Secrets == {"regenerate", "remove"}
Actions == {"start", "stop", "restart"}
SETTLED_STATUSES == {"ready", "stopped", "failed"} \* "disabled" is like "stopped"
Pending(kind) == CASE kind = "start" -> "starting" [] kind = "stop" -> "stopping" [] OTHER -> "restarting"

NoSecret == 0
Missing == MaxSecrets + 1 \* the password file is not there

Passwords == 0..MaxSecrets
Statuses == SETTLED_STATUSES \cup {"starting", "stopping", "restarting"}
Units == {"active", "inactive", "failed"}
JobKinds == Toggles \cup Secrets \cup Actions \cup {"refresh"}
Waiting == [id: 0..MaxRequests, kind: JobKinds, previous: SETTLED_STATUSES]
Jobs == [kind: JobKinds, previous: SETTLED_STATUSES, loaded: Statuses, secret: Passwords,
         step: {"write", "restart", "save", "rollback", "again", "fail", "persist"},
         seen: [state: Units, open: BOOLEAN] \cup {None}]

ASSUME ServiceNetworkingAssumption ==
  /\ {MaxRequests, MaxSecrets, MaxStops} \subseteq Nat /\ MaxSecrets > 0 /\ Checks \in BOOLEAN
  /\ None \notin Jobs

VARIABLES
  service,       \* the row: status, networking and whether its last change failed, what a probe saw, the password
  conf, file,    \* the configuration: open to all interfaces, with Vito's block; the password file
  bakConf, bakFile, \* the copies the scripts leave behind
  unit, live,    \* the state of the unit; the configuration that the running process has read
  queue, job,    \* jobs that wait, and the one that has the lock of the server
  flagged,       \* a refresh is asked for
  checked, pendingStatus, \* what the check read, and the status it waits to see again
  requests, secrets, stops, \* bounds
  mixed, faulty  \* history: a job was queued beside another; one failed since the last that opened the service

files == <<conf, file, bakConf, bakFile>>
process == <<unit, live>>
checking == <<checked, pendingStatus>>
bounds == <<requests, secrets, stops>>
svars == <<service, files, process, queue, job, flagged, checking, bounds, mixed, faulty>>

Row == [status: Statuses, networking: BOOLEAN, failed: BOOLEAN, effective: BOOLEAN \cup {None}, secret: Passwords]
Conf == [open: BOOLEAN, block: BOOLEAN]
TypeOK ==
  /\ service \in Row /\ conf \in Conf /\ file \in Passwords \cup {Missing}
  /\ bakConf \in Conf \cup {None} /\ bakFile \in Passwords \cup {Missing}
  /\ unit \in Units /\ live \in [open: BOOLEAN, secret: Passwords]
  /\ queue \subseteq Waiting /\ job \in Jobs \cup {None}
  /\ checked \in [status: SETTLED_STATUSES, new: SETTLED_STATUSES] \cup {None}
  /\ pendingStatus \in SETTLED_STATUSES \cup {None}
  /\ {flagged, mixed, faulty} \subseteq BOOLEAN /\ requests \in 0..MaxRequests
  /\ secrets \in Passwords /\ stops \in 0..MaxStops
  /\ (conf.open => conf.block)
  /\ (flagged <=> \E j \in queue \cup ({job} \ {None}): j.kind = "refresh")

\* The service runs, closed or open; a password was set when it was opened first.
Init ==
  /\ \E opened, open \in BOOLEAN:
       /\ open => opened
       /\ service = [status |-> "ready", networking |-> open, failed |-> FALSE, effective |-> open,
                     secret |-> IF opened THEN 1 ELSE NoSecret]
       /\ conf = [open |-> open, block |-> opened] /\ file = IF opened THEN 1 ELSE Missing
       /\ bakConf = (IF opened THEN [open |-> ~open, block |-> ~open] ELSE None) /\ bakFile = Missing
       /\ live = [open |-> open, secret |-> IF opened THEN 1 ELSE NoSecret]
       /\ secrets = IF opened THEN 1 ELSE 0
  /\ unit = "active" /\ queue = {} /\ job = None /\ flagged = FALSE /\ checked = None /\ pendingStatus = None
  /\ requests = 0 /\ stops = 0 /\ mixed = FALSE /\ faulty = FALSE

-----------------------------------------------------------------------------
(* Requests. *)

Busy == queue # {} \/ job # None
dispatch(kind) ==
  /\ requests < MaxRequests /\ requests' = requests + 1 /\ mixed' = (mixed \/ Busy)
  /\ queue' = queue \cup {[id |-> requests, kind |-> kind,
                           previous |-> IF kind \in Toggles \cup Secrets THEN service.status ELSE "ready"]}
Settled_ReadyOnly == service.status = "ready"
Settled == service.status \in SETTLED_STATUSES

enable ==
  /\ Settled /\ dispatch("enable")
  /\ (service.secret = NoSecret => secrets < MaxSecrets)
  /\ secrets' = IF service.secret = NoSecret THEN secrets + 1 ELSE secrets
  /\ service' = [service EXCEPT !.status = "restarting", !.secret = IF @ = NoSecret THEN secrets + 1 ELSE @]
  /\ UNCHANGED <<files, process, job, flagged, checking, stops, faulty>>
disable ==
  /\ Settled /\ dispatch("disable") /\ service' = [service EXCEPT !.status = "restarting"]
  /\ UNCHANGED <<files, process, job, flagged, checking, secrets, stops, faulty>>
regenerate ==
  /\ Settled /\ service.secret # NoSecret /\ dispatch("regenerate")
  /\ service' = [service EXCEPT !.status = "restarting"]
  /\ UNCHANGED <<files, process, job, flagged, checking, secrets, stops, faulty>>
Removable_Unchecked == service.secret # NoSecret
Removable == service.secret # NoSecret /\ ~service.networking /\ service.effective # TRUE
remove ==
  /\ Settled /\ Removable /\ dispatch("remove")
  /\ service' = [service EXCEPT !.status = "restarting"]
  /\ UNCHANGED <<files, process, job, flagged, checking, secrets, stops, faulty>>
\* Starting, stopping and restarting do not wait for another change to settle.
manage(action) ==
  /\ dispatch(action) /\ service' = [service EXCEPT !.status = Pending(action)]
  /\ UNCHANGED <<files, process, job, flagged, checking, secrets, stops, faulty>>
refresh ==
  /\ ~flagged /\ flagged' = TRUE /\ dispatch("refresh")
  /\ UNCHANGED <<service, files, process, job, checking, secrets, stops, faulty>>

-----------------------------------------------------------------------------
(* Jobs.  One holds the lock; the others are released and come back in any order. *)

Begin(j) ==
  /\ job = None /\ queue' = queue \ {j}
  /\ job' = [kind |-> j.kind, previous |-> j.previous, loaded |-> service.status, secret |-> service.secret,
             step |-> "write", seen |-> None]
  /\ UNCHANGED <<service, files, process, flagged, checking, bounds, mixed, faulty>>

Step(step) == job' = [job EXCEPT !.step = step]
\* Only a failure to open, or to write the password, rolls back.
OnFailure == IF job.kind = "disable" THEN "fail" ELSE "rollback"
Fails == Step(OnFailure) /\ faulty' = TRUE
Running == job.previous = "ready"

\* The files as the script of the job leaves them, with copies of what was there.
Written ==
  CASE job.kind = "enable" ->
         /\ conf' = [open |-> TRUE, block |-> TRUE] /\ file' = job.secret /\ bakConf' = conf /\ bakFile' = file
         /\ UNCHANGED secrets
    [] job.kind = "disable" ->
         /\ conf' = [open |-> FALSE, block |-> TRUE] /\ file' = (IF file = Missing THEN NoSecret ELSE file)
         /\ bakConf' = conf /\ UNCHANGED <<bakFile, secrets>>
    [] job.kind = "regenerate" ->
         /\ secrets < MaxSecrets /\ secrets' = secrets + 1 /\ file' = secrets + 1 /\ bakFile' = file
         /\ UNCHANGED <<conf, bakConf>>
    [] job.kind = "remove" -> file' = NoSecret /\ bakFile' = file /\ UNCHANGED <<conf, bakConf, secrets>>
Write ==
  /\ job # None /\ job.step = "write" /\ job.kind \in Toggles \cup Secrets
  /\ \/ /\ ~(job.kind = "enable" /\ job.secret = NoSecret) /\ Written
        /\ \/ /\ job' = [job EXCEPT !.step = IF Running THEN "restart" ELSE "save", !.secret = file']
              /\ UNCHANGED faulty
           \/ Fails
     \/ Fails /\ UNCHANGED <<files, secrets>>
  /\ UNCHANGED <<service, process, queue, flagged, checking, requests, stops, mixed>>

\* Vito's block includes the password file: without the file the service does not start.
CanStart == ~(conf.block /\ file = Missing)
Started == unit' = "active" /\ live' = [open |-> conf.open, secret |-> IF file = Missing THEN NoSecret ELSE file]
Restart ==
  /\ job # None /\ job.step = "restart"
  /\ \/ CanStart /\ Started /\ (Fails \/ (Step("save") /\ UNCHANGED faulty))
     \/ unit' = "failed" /\ UNCHANGED live /\ Fails
     \/ UNCHANGED process /\ Fails
  /\ UNCHANGED <<service, files, queue, flagged, checking, bounds, mixed>>

\* The copies are put back, also those that an earlier job left.
Rollback ==
  /\ job # None /\ job.step = "rollback"
  /\ \/ /\ file' = bakFile /\ conf' = (IF job.kind = "enable" /\ bakConf # None THEN bakConf ELSE conf)
        /\ Step(IF Running THEN "again" ELSE "fail")
     \/ Step("fail") /\ UNCHANGED <<conf, file>>
  /\ UNCHANGED <<service, bakConf, bakFile, process, queue, flagged, checking, bounds, mixed, faulty>>
RestartAgain ==
  /\ job # None /\ job.step = "again" /\ Step("fail")
  /\ \/ CanStart /\ Started
     \/ unit' = "failed" /\ UNCHANGED live
     \/ UNCHANGED process
  /\ UNCHANGED <<service, files, queue, flagged, checking, bounds, mixed, faulty>>

Fail ==
  /\ job # None /\ job.step = "fail" /\ job' = None
  /\ service' = IF job.kind \in Toggles
                THEN [service EXCEPT !.status = "failed", !.failed = TRUE, !.effective = None]
                ELSE [service EXCEPT !.status = "failed"]
  /\ UNCHANGED <<files, process, queue, flagged, checking, bounds, mixed, faulty>>
\* Only a status that differs from the one the job read is written.
StatusWritten(status) == IF status # job.loaded THEN status ELSE service.status
Saved_SecretForgotten == [service EXCEPT !.status = StatusWritten(job.previous)]
Saved ==
  IF job.kind \in Toggles
  THEN [service EXCEPT !.status = StatusWritten(job.previous), !.failed = FALSE,
                       !.networking = (job.kind = "enable"), !.effective = (job.kind = "enable")]
  ELSE [service EXCEPT !.status = StatusWritten(job.previous), !.secret = job.secret]
Save ==
  /\ job # None /\ job.step = "save" /\ job' = None /\ service' = Saved
  /\ faulty' = (faulty /\ ~(job.kind = "enable" /\ Running))
  /\ UNCHANGED <<files, process, queue, flagged, checking, bounds, mixed>>

Managed ==
  IF job.kind = "stop" THEN unit' = "inactive" /\ UNCHANGED live
  ELSE IF job.kind = "start" /\ unit = "active" THEN UNCHANGED process
  ELSE CanStart /\ Started
\* A command that throws is written by failed(), on the row as it is then.
ManageJob ==
  /\ job # None /\ job.kind \in Actions /\ job' = None
  /\ \/ /\ Managed
        /\ service' = [service EXCEPT !.status = StatusWritten(IF job.kind = "stop" THEN "stopped" ELSE "ready")]
     \/ /\ Managed \/ UNCHANGED process \/ (job.kind # "stop" /\ unit' = "failed" /\ UNCHANGED live)
        /\ \E status \in {StatusWritten("failed"), "failed"}: service' = [service EXCEPT !.status = status]
  /\ UNCHANGED <<files, queue, flagged, checking, bounds, mixed, faulty>>

-----------------------------------------------------------------------------
(* Refresh and check. *)

StatusOf(state) ==
  CASE state = "active" -> "ready" [] state = "inactive" -> "stopped" [] state = "failed" -> "failed"

clearFlag == flagged' = FALSE
\* Only a service that is settled when the refresh begins is probed.
Probe ==
  /\ job # None /\ job.kind = "refresh" /\ job.step = "write"
  /\ \/ /\ job.loaded \in SETTLED_STATUSES
        /\ job' = [job EXCEPT !.step = "persist", !.seen = [state |-> unit, open |-> conf.open]]
        /\ UNCHANGED flagged
     \/ job' = None /\ clearFlag
  /\ UNCHANGED <<service, files, process, queue, checking, bounds, mixed, faulty>>
\* The row is read again: the status may have changed since, and is written all the same.
persist ==
  /\ job # None /\ job.kind = "refresh" /\ job.step = "persist" /\ job' = None /\ clearFlag
  /\ service' = [service EXCEPT !.effective = job.seen.open, !.status = StatusOf(job.seen.state)]
  /\ pendingStatus' = None
  /\ UNCHANGED <<files, process, queue, checked, bounds, mixed, faulty>>

check ==
  /\ Checks /\ checked = None /\ Settled /\ checked' = [status |-> service.status, new |-> StatusOf(unit)]
  /\ UNCHANGED <<service, files, process, queue, job, flagged, pendingStatus, bounds, mixed, faulty>>
\* Only "ready" is believed at once, and only the status that was read is replaced.
sync ==
  /\ checked # None /\ checked' = None
  /\ IF checked.new = checked.status THEN pendingStatus' = None /\ UNCHANGED service
     ELSE IF checked.new # "ready" /\ pendingStatus # checked.new
     THEN pendingStatus' = checked.new /\ UNCHANGED service
     ELSE /\ pendingStatus' = None
          /\ service' = [service EXCEPT !.status = IF @ = checked.status THEN checked.new ELSE @]
  /\ UNCHANGED <<files, process, queue, job, flagged, bounds, mixed, faulty>>

Stops ==
  /\ stops < MaxStops /\ stops' = stops + 1 /\ unit = "active" /\ unit' \in {"inactive", "failed"}
  /\ UNCHANGED <<service, files, live, queue, job, flagged, checking, requests, secrets, mixed, faulty>>

JobStep == Write \/ Restart \/ Rollback \/ RestartAgain \/ Fail \/ Save \/ ManageJob \/ Probe \/ persist
Request == enable \/ disable \/ regenerate \/ remove \/ refresh \/ \E a \in Actions: manage(a)
BeginSome == \E j \in queue: Begin(j)
Next ==
  \/ Request \/ JobStep \/ check \/ sync \/ Stops
  \/ BeginSome

\* A worker takes the jobs and ends them; the check runs every minute.
Fairness ==
  /\ WF_svars(BeginSome) /\ WF_svars(JobStep)
  /\ WF_svars(check) /\ WF_svars(sync)
Spec == Init /\ [][Next]_svars /\ Fairness

-----------------------------------------------------------------------------
(* Properties. *)

\* Once the changes are over and none of them failed or met another, the row says what the server has:
\* whether the service is open, and its password.
RowFitsServer ==
  ~mixed /\ ~faulty /\ ~Busy =>
    /\ conf.open = service.networking
    /\ conf.block /\ service.secret # NoSecret => file = service.secret

\* A service that is open asks for a password: as long as no change failed or met another.
OpenHasPassword == unit = "active" /\ live.open => live.secret # NoSecret
OpenHasPasswordAlone == ~mixed /\ ~faulty => OpenHasPassword

\* The status is that of the unit: in the end, see MCProgress.
StatusIsTrue == service.status = StatusOf(unit)
=============================================================================
