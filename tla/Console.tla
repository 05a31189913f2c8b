------------------------------- MODULE Console -------------------------------
(***************************************************************************)
(* The web terminal: the page that opens a session for an SSH user of the  *)
(* server, starts another and changes the user, and the handler that joins *)
(* each socket to an SSH session.                                          *)
(***************************************************************************)
EXTENDS Naturals, Sequences, FiniteSets

CONSTANTS
  Users,       \* SSH users of the server
  NoUser,      \* no session
  MaxPerUser,  \* MAX_CONNECTIONS_PER_USER
  MaxAttempts  \* bound: sessions asked for

ConsoleAssumption ==
  /\ NoUser \notin Users /\ MaxPerUser \in Nat \ {0} /\ MaxAttempts \in Nat \ {0}

VARIABLES
  mounted,     \* whether the page is shown
  user,        \* the user that is selected
  status,      \* what the page says of the connection
  phase, by,   \* how far each attempt is, and the user it is for
  wsRef,       \* the attempt whose socket takes what is typed, or 0
  sessions,    \* server: attempts with a connection and whether it has a session
  inbox,       \* messages of the server on their way
  overlapped,  \* history: a session was asked for while another had no socket yet
  leftEarly    \* history: the page was left while a session had no socket yet

page == <<mounted, user, status, wsRef>>
history == <<overlapped, leftEarly>>
vars == <<page, phase, by, sessions, inbox, history>>

Attempts == 1..MaxAttempts
Phases == {"none", "asking", "opening", "open", "closed"}
Messages == {"connected", "error", "disconnected"}

TypeOK ==
  /\ mounted \in BOOLEAN /\ user \in Users /\ wsRef \in 0..MaxAttempts
  /\ status \in {"disconnected", "connecting", "connected", "error"}
  /\ phase \in [Attempts -> Phases] /\ by \in [Attempts -> Users \cup {NoUser}]
  /\ sessions \in [Attempts -> {"none", "bare", "joined"}]
  /\ inbox \in [Attempts -> Seq(Messages)]
  /\ overlapped \in BOOLEAN /\ leftEarly \in BOOLEAN

\* Mounting connects at once, as the server's own user.
Init ==
  /\ mounted = TRUE /\ user \in Users /\ status = "connecting" /\ wsRef = 0
  /\ phase = [n \in Attempts |-> IF n = 1 THEN "asking" ELSE "none"]
  /\ by = [n \in Attempts |-> IF n = 1 THEN user ELSE NoUser]
  /\ sessions = [n \in Attempts |-> "none"] /\ inbox = [n \in Attempts |-> <<>>]
  /\ overlapped = FALSE /\ leftEarly = FALSE

Asking == {n \in Attempts: phase[n] = "asking"}
Live == {n \in Attempts: phase[n] \in {"opening", "open"}}

-----------------------------------------------------------------------------
(* The page. *)

\* disconnect(): the known socket is closed and forgotten.
Shut(phases) == IF wsRef = 0 THEN phases ELSE [phases EXCEPT ![wsRef] = "closed"]

\* disconnect() and connect() up to its await.
Connect_KeepsRef(u) ==
  \E n \in Attempts:
    /\ phase[n] = "none" /\ \A m \in 1..(n - 1): phase[m] # "none"
    /\ phase' = [phase EXCEPT ![n] = "asking"] /\ by' = [by EXCEPT ![n] = u]
    /\ status' = "connecting" /\ overlapped' = (overlapped \/ Asking # {})
    /\ UNCHANGED <<mounted, wsRef, sessions, inbox, leftEarly>>
Connect(u) ==
  \E n \in Attempts:
    /\ phase[n] = "none" /\ \A m \in 1..(n - 1): phase[m] # "none"
    /\ phase' = [Shut(phase) EXCEPT ![n] = "asking"] /\ by' = [by EXCEPT ![n] = u]
    /\ wsRef' = 0 /\ status' = "connecting" /\ overlapped' = (overlapped \/ Asking # {})
    /\ UNCHANGED <<mounted, sessions, inbox, leftEarly>>

\* The button is never disabled; the select is while a session connects.
NewSession == mounted /\ Connect(user) /\ UNCHANGED user
ChangeUser(u) == mounted /\ status # "connecting" /\ u # user /\ user' = u /\ Connect(u)

TokenFails(n) ==
  /\ phase[n] = "asking" /\ phase' = [phase EXCEPT ![n] = "closed"] /\ status' = "error"
  /\ UNCHANGED <<mounted, user, wsRef, by, sessions, inbox, history>>

\* The rest of connect(), whatever happened during the await.
OpenSocket(n) ==
  /\ phase[n] = "asking" /\ phase' = [phase EXCEPT ![n] = "opening"] /\ wsRef' = n
  /\ UNCHANGED <<mounted, user, status, by, sessions, inbox, history>>

\* onmessage, of any socket that is still open.
Receive(n) ==
  /\ phase[n] = "open" /\ inbox[n] # <<>> /\ inbox' = [inbox EXCEPT ![n] = Tail(@)]
  /\ status' = Head(inbox[n])
  /\ UNCHANGED <<mounted, user, wsRef, phase, by, sessions, history>>

\* onclose: only the known socket changes the page.
Mine(n) == wsRef = n
Ended_Silent(n) == n \in Attempts /\ UNCHANGED <<status, wsRef>>
Ended(n) ==
  IF Mine(n) THEN status' = "disconnected" /\ wsRef' = 0 ELSE UNCHANGED <<status, wsRef>>

\* Leaving the page closes the known socket.
Leave ==
  /\ mounted /\ mounted' = FALSE /\ phase' = Shut(phase)
  /\ leftEarly' = (leftEarly \/ Asking # {})
  /\ UNCHANGED <<user, status, wsRef, by, sessions, inbox, overlapped>>

-----------------------------------------------------------------------------
(* The handler. *)

UserConnections == {n \in Attempts: sessions[n] # "none"}
Say(n, message) == inbox' = [inbox EXCEPT ![n] = Append(@, message)]

Full == Cardinality(UserConnections) >= MaxPerUser
Accept(n) ==
  /\ phase[n] = "opening" /\ ~Full /\ phase' = [phase EXCEPT ![n] = "open"]
  /\ sessions' = [sessions EXCEPT ![n] = "joined"] /\ Say(n, "connected")
  /\ UNCHANGED <<page, by, history>>

\* The SSH connection fails: the socket is told so and then closed.
AcceptFails(n) ==
  /\ phase[n] = "opening" /\ ~Full /\ phase' = [phase EXCEPT ![n] = "open"]
  /\ sessions' = [sessions EXCEPT ![n] = "bare"] /\ Say(n, "error")
  /\ UNCHANGED <<page, by, history>>

Refuse(n) ==
  /\ phase[n] = "opening" /\ Full /\ phase' = [phase EXCEPT ![n] = "closed"] /\ Ended(n)
  /\ UNCHANGED <<mounted, user, by, sessions, inbox, history>>

\* The shell ends: the session tells its socket and closes it.
SessionEnds(n) ==
  /\ sessions[n] = "joined" /\ sessions' = [sessions EXCEPT ![n] = "bare"]
  /\ Say(n, "disconnected") /\ UNCHANGED <<page, phase, by, history>>

\* A socket the server closes, once the page read what was sent; or the network breaks.
SocketCloses(n) ==
  /\ phase[n] \in {"opening", "open"} /\ (sessions[n] = "bare" => inbox[n] = <<>>)
  /\ phase' = [phase EXCEPT ![n] = "closed"] /\ Ended(n)
  /\ UNCHANGED <<mounted, user, by, sessions, inbox, history>>

\* onClose() ends the session with its connection.
Closed_KeepsSession(n) == IF sessions[n] = "bare" THEN [sessions EXCEPT ![n] = "none"] ELSE sessions
Closed(n) == [sessions EXCEPT ![n] = "none"]
Forget(n) ==
  /\ phase[n] = "closed" /\ n \in UserConnections /\ sessions' = Closed(n)
  /\ UNCHANGED <<page, phase, by, inbox, history>>

Next ==
  \/ NewSession \/ Leave \/ \E u \in Users: ChangeUser(u)
  \/ \E n \in Attempts:
       \/ TokenFails(n) \/ OpenSocket(n) \/ Receive(n)
       \/ Accept(n) \/ AcceptFails(n) \/ Refuse(n) \/ SessionEnds(n) \/ SocketCloses(n) \/ Forget(n)

Spec == Init /\ [][Next]_vars

\* The event loop of the server notices that a connection is gone.
FairSpec == Spec /\ \A n \in Attempts: WF_vars(Forget(n))

-----------------------------------------------------------------------------
(* Properties. *)

\* What is typed reaches a session of the user that is selected, never that of
\* the user before, while sessions are asked for one at a time.
InputGoesToSelected ==
  ~overlapped /\ mounted /\ wsRef # 0 => by[wsRef] = user

\* The page holds one socket: a session that was replaced does not live on.
OneSocket == ~overlapped => Cardinality(Live) <= 1

\* The status says connected only with a socket that takes the input.
ConnectedIsTrue ==
  ~overlapped /\ mounted /\ status = "connected" => wsRef # 0 /\ phase[wsRef] = "open"

\* A page that was left has no socket, unless it was left during the await.
LeavesNothing == ~mounted /\ ~overlapped /\ ~leftEarly => Live = {}

\* One user never holds more connections than allowed.
PerUserCap == Cardinality(UserConnections) <= MaxPerUser

\* A session that outlives its socket; not for ever, see MCProgress.
Orphaned(n) == phase[n] = "closed" /\ sessions[n] # "none"
=============================================================================
