----------------------------- MODULE EventSocket -----------------------------
(***************************************************************************)
(* The socket that brings the events of a project to the browser of one    *)
(* user: the store that connects, reconnects and switches projects, and    *)
(* the server that keeps each connection subscribed to one project.        *)
(***************************************************************************)
EXTENDS Naturals, Sequences, FiniteSets

CONSTANTS
  Projects,     \* projects of the user
  NoProject,    \* no project known, or no connection
  MaxPerUser,   \* MAX_CONNECTIONS_PER_USER
  MaxFast,      \* MAX_FAST_RECONNECT_ATTEMPTS
  MaxAttempts,  \* bound: attempts to connect
  MaxChanges,   \* bound: changes of the current project, and of being signed in
  MaxFaults     \* bound: lost connections, failed token requests, refused subscriptions

SocketAssumption ==
  /\ NoProject \notin Projects
  /\ {MaxPerUser, MaxFast, MaxAttempts} \subseteq Nat \ {0} /\ {MaxChanges, MaxFaults} \subseteq Nat

VARIABLES
  auth, project,   \* the props of the page: whether somebody is signed in, and the project
  phase,           \* how far each attempt is
  token,           \* the project each attempt's token was made for
  attached,        \* whether the socket of the attempt still has its handlers
  ws,              \* the attempt whose socket the store knows, or 0
  timer, retries,  \* a reconnection is scheduled; reconnectAttempt
  status, current, \* state of the store: status and currentProjectId
  conn, subs,      \* server: project of each connection, and connections of each project
  down, up,        \* messages on their way to the client and to the server
  faults, changes, \* used of the bounds
  overlapped,      \* history: an attempt began while another had no socket yet
  missed           \* history: a change of project was not sent to the server

store == <<ws, timer, retries, status, current>>
server == <<conn, subs>>
wire == <<down, up>>
bounds == <<faults, changes>>
vars == <<auth, project, phase, token, attached, store, server, wire, bounds, overlapped, missed>>

Attempts == 1..MaxAttempts
Phases == {"none", "asking", "granted", "opening", "open", "closed"}

TypeOK ==
  /\ auth \in BOOLEAN /\ project \in Projects
  /\ phase \in [Attempts -> Phases]
  /\ token \in [Attempts -> Projects \cup {NoProject}] /\ attached \in [Attempts -> BOOLEAN]
  /\ ws \in 0..MaxAttempts /\ timer \in BOOLEAN /\ retries \in 0..MaxFast + 1
  /\ status \in {"connecting", "connected", "disconnected"}
  /\ current \in Projects \cup {NoProject}
  /\ conn \in [Attempts -> Projects \cup {NoProject}] /\ subs \in [Projects -> SUBSET Attempts]
  /\ down \in [Attempts -> Seq([type: {"connected", "subscribed"}, project: Projects])]
  /\ up \in [Attempts -> Seq(Projects)]
  /\ faults \in 0..MaxFaults /\ changes \in 0..MaxChanges
  /\ overlapped \in BOOLEAN /\ missed \in BOOLEAN

Init ==
  /\ auth = TRUE /\ project \in Projects
  /\ phase = [n \in Attempts |-> "none"] /\ token = [n \in Attempts |-> NoProject]
  /\ attached = [n \in Attempts |-> FALSE]
  /\ ws = 0 /\ timer = FALSE /\ retries = 0 /\ status = "connecting" /\ current = NoProject
  /\ conn = [n \in Attempts |-> NoProject] /\ subs = [p \in Projects |-> {}]
  /\ down = [n \in Attempts |-> <<>>] /\ up = [n \in Attempts |-> <<>>]
  /\ faults = 0 /\ changes = 0 /\ overlapped = FALSE /\ missed = FALSE

Fault == faults < MaxFaults /\ faults' = faults + 1 /\ UNCHANGED changes
Asking == {n \in Attempts: phase[n] \in {"asking", "granted"}}
Live == {n \in Attempts: attached[n] /\ phase[n] \in {"opening", "open"}}

-----------------------------------------------------------------------------
(* The store. *)

\* scheduleReconnect(): fast at first, then slowly, and never not at all.
Schedule_GivesUp ==
  /\ retries' = IF retries > MaxFast THEN retries ELSE retries + 1
  /\ timer' = (retries' <= MaxFast)
  /\ status' = IF retries' > MaxFast THEN "disconnected" ELSE "connecting"
Schedule ==
  /\ timer' = TRUE
  /\ retries' = IF retries > MaxFast THEN retries ELSE retries + 1
  /\ status' = IF retries' > MaxFast THEN "disconnected" ELSE "connecting"

\* connect() up to its await: nothing to do while the known socket lives.
IsUp_OpenOnly(socket) == socket # 0 /\ phase[socket] = "open"
IsUp(socket) == socket # 0 /\ phase[socket] \in {"opening", "open"}
Begin(socket, phases) ==
  IF IsUp(socket) THEN UNCHANGED <<status, phase, overlapped>>
  ELSE \E n \in Attempts:
         /\ phase[n] = "none" /\ \A m \in 1..(n - 1): phase[m] # "none"
         /\ status' = "connecting" /\ phase' = [phases EXCEPT ![n] = "asking"]
         /\ overlapped' = (overlapped \/ Asking # {})

\* The effects of a page visit connect whenever somebody is signed in.
Visit ==
  /\ auth /\ Begin(ws, phase)
  /\ UNCHANGED <<auth, project, token, attached, ws, timer, retries, current, server, wire, bounds, missed>>

TimerFires ==
  /\ timer /\ timer' = FALSE /\ Begin(ws, phase)
  /\ UNCHANGED <<auth, project, token, attached, ws, retries, current, server, wire, bounds, missed>>

\* The server makes a token for the project that is current then.
GrantToken(n) ==
  /\ phase[n] = "asking" /\ phase' = [phase EXCEPT ![n] = "granted"]
  /\ token' = [token EXCEPT ![n] = project]
  /\ UNCHANGED <<auth, project, attached, store, server, wire, bounds, overlapped, missed>>

TokenFails(n) ==
  /\ phase[n] = "asking" /\ Fault /\ phase' = [phase EXCEPT ![n] = "closed"] /\ Schedule
  /\ UNCHANGED <<auth, project, token, attached, ws, current, server, wire, overlapped, missed>>

\* The rest of connect(), whatever happened during the await.
OpenSocket(n) ==
  /\ phase[n] = "granted" /\ phase' = [phase EXCEPT ![n] = "opening"]
  /\ attached' = [attached EXCEPT ![n] = TRUE] /\ ws' = n
  /\ UNCHANGED <<auth, project, token, timer, retries, status, current, server, wire, bounds, overlapped, missed>>

\* onclose: a socket without its handlers says nothing.
OnClose_Silent(n) ==
  IF attached[n] THEN ws' = 0 /\ UNCHANGED <<timer, retries, status, current>> ELSE UNCHANGED store
OnClose(n) ==
  IF attached[n] THEN ws' = 0 /\ Schedule /\ UNCHANGED current ELSE UNCHANGED store

\* onmessage: what the server confirms is the project of the store.
Confirmed_Shown(message) == IF message.type = "connected" THEN project ELSE message.project
Confirmed(message) == message.project
Receive(n) ==
  /\ down[n] # <<>> /\ phase[n] = "open" /\ attached[n]
  /\ down' = [down EXCEPT ![n] = Tail(@)] /\ current' = Confirmed(Head(down[n]))
  /\ IF Head(down[n]).type = "connected" THEN status' = "connected" /\ retries' = 0
     ELSE UNCHANGED <<status, retries>>
  /\ UNCHANGED <<auth, project, phase, token, attached, ws, timer, server, up, bounds, overlapped, missed>>

\* disconnect(): an attempt that waits for its token is not stopped.
Detached == IF ws = 0 THEN attached ELSE [attached EXCEPT ![ws] = FALSE]
ClosedNow == IF ws = 0 THEN phase ELSE [phase EXCEPT ![ws] = "closed"]
SignOut ==
  /\ auth /\ changes < MaxChanges /\ auth' = FALSE /\ changes' = changes + 1
  /\ timer' = FALSE /\ ws' = 0 /\ status' = "disconnected"
  /\ attached' = Detached /\ phase' = ClosedNow
  /\ UNCHANGED <<project, token, retries, current, server, wire, faults, overlapped, missed>>

SignIn ==
  /\ ~auth /\ auth' = TRUE /\ Begin(ws, phase)
  /\ UNCHANGED <<project, token, attached, ws, timer, retries, current, server, wire, bounds, missed>>

\* reconnect(): the button is enabled while the status is disconnected.
Reconnect ==
  /\ auth /\ status = "disconnected" /\ timer' = FALSE /\ retries' = 0 /\ ws' = 0
  /\ attached' = Detached /\ Begin(0, ClosedNow)
  /\ UNCHANGED <<auth, project, token, current, server, wire, bounds, missed>>

\* The page shows another project; switchProject() sends it when it can.
Sends(p) == ws # 0 /\ phase[ws] = "open" /\ p # current
ChangeProject(p) ==
  /\ auth /\ p # project /\ changes < MaxChanges /\ changes' = changes + 1 /\ project' = p
  /\ up' = IF Sends(p) THEN [up EXCEPT ![ws] = Append(@, p)] ELSE up
  /\ missed' = (missed \/ ~Sends(p))
  /\ UNCHANGED <<auth, phase, token, attached, store, server, down, faults, overlapped>>

-----------------------------------------------------------------------------
(* The server. *)

Connected == {n \in Attempts: conn[n] # NoProject}

\* authenticate() and onOpen(): one step of the event loop.
Full_OffByOne == Cardinality(Connected) > MaxPerUser
Full == Cardinality(Connected) >= MaxPerUser
Accept(n) ==
  /\ phase[n] = "opening" /\ ~Full /\ phase' = [phase EXCEPT ![n] = "open"]
  /\ conn' = [conn EXCEPT ![n] = token[n]] /\ subs' = [subs EXCEPT ![token[n]] = @ \cup {n}]
  /\ down' = [down EXCEPT ![n] = Append(@, [type |-> "connected", project |-> token[n]])]
  /\ UNCHANGED <<auth, project, token, attached, store, up, bounds, overlapped, missed>>

Lose(n) == phase' = [phase EXCEPT ![n] = "closed"] /\ OnClose(n)
Refuse(n) ==
  /\ phase[n] = "opening" /\ Full /\ Lose(n)
  /\ UNCHANGED <<auth, project, token, attached, server, wire, bounds, overlapped, missed>>

\* The connection breaks; the client notices now, the server perhaps later.
Break(n) ==
  /\ phase[n] \in {"opening", "open"} /\ Fault /\ Lose(n)
  /\ UNCHANGED <<auth, project, token, attached, server, wire, overlapped, missed>>

\* handleSubscribe(): too many, or not a project of the user; or the connection moves.
Moved_KeepsOld(n, p) == [q \in Projects |-> IF q = p THEN subs[q] \cup {n} ELSE subs[q]]
Moved(n, p) == [q \in Projects |-> IF q = p THEN subs[q] \cup {n} ELSE subs[q] \ {n}]
Joined_Before(n, p) == IF conn[n] = NoProject THEN [conn EXCEPT ![n] = p] ELSE conn
Joined(n, p) == [conn EXCEPT ![n] = p]
Subscribe(n) ==
  /\ up[n] # <<>> /\ conn[n] # NoProject /\ up' = [up EXCEPT ![n] = Tail(@)]
  /\ \/ /\ conn' = Joined(n, Head(up[n])) /\ subs' = Moved(n, Head(up[n]))
        /\ down' = [down EXCEPT ![n] = Append(@, [type |-> "subscribed", project |-> Head(up[n])])]
        /\ UNCHANGED <<bounds, missed>>
     \/ Fault /\ missed' = TRUE /\ UNCHANGED <<server, down>>
  /\ UNCHANGED <<auth, project, phase, token, attached, store, overlapped>>

\* onClose() of the handler.
Forget(n) ==
  /\ phase[n] = "closed" /\ conn[n] # NoProject
  /\ conn' = [conn EXCEPT ![n] = NoProject] /\ subs' = [subs EXCEPT ![conn[n]] = @ \ {n}]
  /\ UNCHANGED <<auth, project, phase, token, attached, store, wire, bounds, overlapped, missed>>

Next ==
  \/ Visit \/ TimerFires \/ SignOut \/ SignIn \/ Reconnect
  \/ \E p \in Projects: ChangeProject(p)
  \/ \E n \in Attempts:
       \/ GrantToken(n) \/ TokenFails(n) \/ OpenSocket(n) \/ Receive(n)
       \/ Accept(n) \/ Refuse(n) \/ Break(n) \/ Subscribe(n) \/ Forget(n)

Spec == Init /\ [][Next]_vars

\* Timers fire, requests and messages arrive and a dead connection is noticed:
\* the browser and the server's pings give that.  Visits and users owe nothing.
Progress(n) == GrantToken(n) \/ OpenSocket(n) \/ Receive(n) \/ Accept(n) \/ Refuse(n) \/ Forget(n)
FairSpec ==
  /\ Spec /\ WF_vars(TimerFires)
  /\ \A n \in Attempts: WF_vars(Progress(n))

-----------------------------------------------------------------------------
(* Properties. *)

\* Server: an event of a project goes to the connections that are subscribed to
\* it and to no other (EventsHandler.php keeps two maps of the same fact).
SubscriptionsMatch ==
  \A n \in Attempts, p \in Projects: n \in subs[p] <=> conn[n] = p

\* Server: a user never holds more connections than allowed, although the check
\* is made at the handshake and sockets are replaced by the client.
PerUserCap == Cardinality(Connected) <= MaxPerUser

\* Client: while attempts do not overlap, at most one socket delivers events, so
\* no list handles an event twice.
OneLiveSocket == ~overlapped => Cardinality(Live) <= 1

\* Client: whoever is signed in has a socket, a token request or a timer.
KeepsTrying == auth => ws # 0 \/ timer \/ Asking # {} \/ phase[1] = "none"

\* Client: the status says connected only with a socket that is.
StatusIsTrue ==
  status = "connected" => \E n \in Attempts: attached[n] /\ phase[n] = "open"

AtRest == ws # 0 /\ status = "connected" /\ phase[ws] = "open" /\ down[ws] = <<>> /\ up[ws] = <<>>

\* Both: with nothing on its way the client believes what the server does, and the
\* events of the project on the screen arrive, when each change of project could
\* be sent and was granted.
ProjectIsFollowed ==
  AtRest /\ ~overlapped => current = conn[ws] /\ (~missed => conn[ws] = project)

\* Client: after finitely many faults the user is connected, unless signed out
\* or attempts overlapped; see MCProgress.
Trying == auth /\ phase[1] # "none"
Reached == status = "connected" \/ ~auth \/ overlapped
=============================================================================
