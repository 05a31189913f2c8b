-------------------------- MODULE NetworkingDialog ---------------------------
(***************************************************************************)
(* The dialog that shows whether a service is open to other servers and    *)
(* changes it: what it shows was read earlier, it reads again while a      *)
(* change is pending, after its own requests, and when an event tells of   *)
(* the service.  Events can be lost, reading can fail, and others change   *)
(* the same service.                                                       *)
(***************************************************************************)
EXTENDS ServiceNetworking

VARIABLES
  open, shown,      \* the dialog, and what it shows
  reading, answer,  \* a reading: "no", "asked" or "answered"; and the answer on its way
  loadFailed,       \* the last reading failed
  submitting, sent, \* the buttons are locked; the request under way
  stale             \* history: what is shown was read before the last own change was accepted

window == <<open, shown, reading, answer, loadFailed, submitting, sent, stale>>
vars == <<svars, window>>

View == [pending |-> service.status = "restarting",
         networked |-> IF service.effective = None THEN service.networking ELSE service.effective,
         unknown |-> service.status # "restarting" /\ service.effective = None,
         secret |-> service.secret # NoSecret]
Views == [pending: BOOLEAN, networked: BOOLEAN, unknown: BOOLEAN, secret: BOOLEAN]
Kinds == Toggles \cup Secrets

ASSUME DialogAssumption == None \notin Views

DialogTypeOK ==
  /\ TypeOK /\ {open, loadFailed, submitting, stale} \subseteq BOOLEAN
  /\ shown \in Views \cup {None} /\ answer \in Views \cup {None} /\ sent \in Kinds \cup {None}
  /\ reading \in {"no", "asked", "answered"} /\ (answer # None <=> reading = "answered")
  /\ (shown # None \/ reading # "no" \/ submitting => open)

\* Bound: the service has been open and is closed.
DialogInit ==
  /\ Init /\ service.secret # NoSecret /\ ~service.networking
  /\ open = FALSE /\ shown = None /\ reading = "no" /\ answer = None /\ loadFailed = FALSE
  /\ submitting = FALSE /\ sent = None /\ stale = FALSE

-----------------------------------------------------------------------------
(* Reading. *)

Open ==
  /\ ~open /\ open' = TRUE /\ reading' = "asked"
  /\ UNCHANGED <<svars, shown, answer, loadFailed, submitting, sent, stale>>
\* Nothing outlives the dialog but the request.
Close ==
  /\ open /\ open' = FALSE /\ shown' = None /\ reading' = "no" /\ answer' = None /\ loadFailed' = FALSE
  /\ submitting' = FALSE /\ stale' = FALSE /\ UNCHANGED <<svars, sent>>
\* Every three seconds while a change is pending.
Polled_OnlyEvents == FALSE
Polled == shown # None /\ shown.pending
Poll ==
  /\ open /\ reading = "no" /\ Polled /\ reading' = "asked"
  /\ UNCHANGED <<svars, open, shown, answer, loadFailed, submitting, sent, stale>>
Read ==
  /\ reading = "asked" /\ reading' = "answered" /\ answer' = View
  /\ UNCHANGED <<svars, open, shown, loadFailed, submitting, sent, stale>>
\* A change that was sent ends with the reading after it.
Ended == reading' = "no" /\ answer' = None /\ submitting' = (submitting /\ sent # None)
Loaded ==
  /\ reading = "answered" /\ shown' = answer /\ loadFailed' = FALSE /\ Ended
  /\ stale' = FALSE /\ UNCHANGED <<svars, open, sent>>
LoadFailure ==
  /\ reading = "answered" /\ loadFailed' = TRUE /\ Ended /\ UNCHANGED <<svars, open, shown, sent, stale>>

\* A new reading replaces the one under way.  Events come when a job, a refresh or a check is done, on this
\* service or on another of the server, or never.
Invalidated_Closed == reading' = "asked" /\ answer' = None
Invalidated == reading' = (IF open THEN "asked" ELSE "no") /\ answer' = None
Event ==
  /\ open /\ Invalidated
  /\ UNCHANGED <<svars, open, shown, loadFailed, submitting, sent, stale>>

-----------------------------------------------------------------------------
(* Changing. *)

\* What the buttons offer.
Offered == IF shown = None \/ submitting THEN {}
           ELSE {k \in Kinds: /\ ~shown.pending
                              /\ k = "enable" => ~shown.networked /\ ~shown.unknown
                              /\ k = "disable" => shown.networked /\ ~shown.unknown
                              /\ k = "regenerate" => shown.secret
                              /\ k = "remove" => shown.secret /\ ~shown.networked}
submit(k) ==
  /\ open /\ k \in Offered /\ sent = None /\ requests < MaxRequests /\ secrets < MaxSecrets
  /\ submitting' = TRUE /\ sent' = k
  /\ UNCHANGED <<svars, open, shown, reading, answer, loadFailed, stale>>

Accepts(k) == Settled /\ (k = "regenerate" => service.secret # NoSecret) /\ (k = "remove" => Removable)
Asked_NotAgain == submitting' = FALSE /\ UNCHANGED <<reading, answer>>
Asked == Invalidated /\ UNCHANGED submitting
Accepted ==
  /\ sent # None /\ Accepts(sent) /\ sent' = None /\ stale' = submitting
  /\ CASE sent = "enable" -> enable [] sent = "disable" -> disable
       [] sent = "regenerate" -> regenerate [] sent = "remove" -> remove
  /\ Asked /\ UNCHANGED <<open, shown, loadFailed>>
Refused ==
  /\ sent # None /\ sent' = None /\ submitting' = FALSE
  /\ UNCHANGED <<svars, open, shown, reading, answer, loadFailed, stale>>

-----------------------------------------------------------------------------

\* Others and the server.
Server ==
  Next /\ UNCHANGED <<open, shown, reading, answer, loadFailed, submitting, sent, stale>>
DialogNext ==
  \/ Open \/ Close \/ Poll \/ Read \/ Loaded \/ LoadFailure \/ Event \/ Accepted \/ Refused
  \/ \E k \in Kinds: submit(k)
  \/ Server

\* Requests end, and reading does not fail for ever.
DialogSpec ==
  /\ DialogInit /\ [][DialogNext]_vars /\ Fairness
  /\ WF_vars(Poll) /\ WF_vars(Read) /\ SF_vars(Loaded) /\ WF_vars(Accepted \/ Refused)

-----------------------------------------------------------------------------
(* Properties. *)

\* When the buttons come back, the dialog shows the service as it was after the own change, or an error.
OwnChangeIsShown == open /\ ~submitting /\ ~loadFailed => ~stale

\* A change that is shown as pending is not shown so for ever, also when every event is lost.
PendingEnds == (shown # None /\ shown.pending) ~> (shown = None \/ ~shown.pending)
=============================================================================
