---------------------------- MODULE SocketProofs ----------------------------
(***************************************************************************)
(* What a page learns from the server while it is open, for any number of  *)
(* attempts, faults, changes and chunks: the socket of events and its      *)
(* handler, the lists, records and tables that follow the events, and the  *)
(* logs that are read while they are written.                              *)
(***************************************************************************)
EXTENDS EventSocket, FiniteSetTheorems, SequenceTheorems, TLAPS

\* A page with rows: a list, a record and a table.
CONSTANTS Ids, Foreign, Tracked, MaxRowChanges, MaxVisits, MaxLost
VARIABLES row, born, clock, queue, asked, answers, props, list, record, fetchTimer, visits, lost, heard, stale, swapped,
          doubled
Rows == INSTANCE LiveList WITH timer <- fetchTimer, MaxChanges <- MaxRowChanges

\* The viewer of a log and the sheet of logs.
CONSTANTS MaxChunks, MaxOpens, Pages, MaxFetches
VARIABLES written, chunks, opened, viewing, fetched, content, outran, repeated, sheet, page, logs, loads, fetches, again
Log == INSTANCE LogStream WITH queue <- chunks, phase <- viewing
-----------------------------------------------------------------------------
(* The socket and its handler. *)

\* What is under way gets no further than it has come: before the handshake the
\* server knows nothing of an attempt and nothing was sent on it.
Untried(n) == conn[n] = NoProject /\ down[n] = <<>> /\ up[n] = <<>>
PhaseRules ==
  \A n \in Attempts:
    /\ phase[n] \in {"none", "asking", "granted", "opening"} => Untried(n)
    /\ phase[n] \in {"granted", "opening"} => token[n] # NoProject
    /\ phase[n] \in {"opening", "open"} => attached[n]
    /\ phase[n] = "open" => conn[n] # NoProject

\* The socket that the store knows lives.
KnownLives == ws # 0 => phase[ws] \in {"opening", "open"}

\* The attempts that can still deliver an event.
Hopeful == Asking \cup {n \in Attempts: phase[n] \in {"opening", "open"}}

\* While attempts do not overlap there is one at a time, and the store knows the
\* socket of it.
OneAttempt ==
  ~overlapped =>
    /\ \A m, n \in Hopeful: m = n
    /\ \A n \in Live: ws = n

\* The last of a sequence, as messages are sent and read.
Last(s) == s[Len(s)]

\* The last word that is on its way to the client is what the server does.
Believed(n) == IF down[n] = <<>> THEN current ELSE Last(down[n]).project
BeliefRule == ~overlapped => \A n \in Attempts: phase[n] = "open" => Believed(n) = conn[n]

\* The last word that is on its way to the server is the project on the screen.
Wanted(n) == IF up[n] = <<>> THEN conn[n] ELSE Last(up[n])
FollowRule ==
  ~overlapped /\ ~missed =>
    \A n \in Attempts:
      /\ phase[n] \in {"granted", "opening"} => token[n] = project
      /\ phase[n] = "open" => Wanted(n) = project

\* The types of all but the wire, and those of the wire.
PlainTypes ==
  /\ auth \in BOOLEAN /\ project \in Projects
  /\ phase \in [Attempts -> Phases]
  /\ token \in [Attempts -> Projects \cup {NoProject}] /\ attached \in [Attempts -> BOOLEAN]
  /\ ws \in 0..MaxAttempts /\ timer \in BOOLEAN /\ retries \in 0..MaxFast + 1
  /\ status \in {"connecting", "connected", "disconnected"}
  /\ current \in Projects \cup {NoProject}
  /\ conn \in [Attempts -> Projects \cup {NoProject}] /\ subs \in [Projects -> SUBSET Attempts]
  /\ faults \in 0..MaxFaults /\ changes \in 0..MaxChanges
  /\ overlapped \in BOOLEAN /\ missed \in BOOLEAN
Words == [type: {"connected", "subscribed"}, project: Projects]
Downs == [Attempts -> Seq(Words)]
Ups == [Attempts -> Seq(Projects)]

Typed == PlainTypes /\ down \in Downs /\ up \in Ups

Types == Typed /\ PhaseRules /\ KnownLives /\ SubscriptionsMatch
Inv == Types /\ OneAttempt /\ StatusIsTrue /\ KeepsTrying /\ BeliefRule /\ FollowRule
-----------------------------------------------------------------------------
(* Types and phases. *)

\* What a message that is sent or read does to the wire.
LEMMA Sending ==
  /\ \A d \in Downs, n \in Attempts, w \in Words: [d EXCEPT ![n] = Append(@, w)] \in Downs
  /\ \A u \in Ups, n \in Attempts, p \in Projects: [u EXCEPT ![n] = Append(@, p)] \in Ups
BY DEF Downs, Ups

LEMMA Reading ==
  /\ \A d \in Downs, n \in Attempts:
       d[n] # <<>> => Head(d[n]) \in Words /\ [d EXCEPT ![n] = Tail(@)] \in Downs
  /\ \A u \in Ups, n \in Attempts:
       u[n] # <<>> => Head(u[n]) \in Projects /\ [u EXCEPT ![n] = Tail(@)] \in Ups
BY DEF Downs, Ups

LEMMA SocketInit == ASSUME SocketAssumption, Init PROVE Inv
<1>1. 0 \in 0..MaxAttempts /\ 0 \in 0..(MaxFast + 1) /\ 0 \in 0..MaxFaults /\ 0 \in 0..MaxChanges /\ 1 \in Attempts
  BY DEF SocketAssumption, Attempts
<1>2. Typed
  <2>1. <<>> \in Seq(Projects) /\ <<>> \in Seq(Words)
    OBVIOUS
  <2>2. /\ conn \in [Attempts -> Projects \cup {NoProject}] /\ subs \in [Projects -> SUBSET Attempts]
        /\ down \in Downs /\ up \in Ups
    BY <2>1 DEF Init, Downs, Ups
  <2> QED
    BY <1>1, <2>2 DEF Init, Typed, PlainTypes, Phases
<1>3. PhaseRules /\ KnownLives /\ SubscriptionsMatch
  BY DEF Init, PhaseRules, Untried, KnownLives, SubscriptionsMatch, SocketAssumption
<1>4. OneAttempt /\ StatusIsTrue /\ KeepsTrying /\ BeliefRule /\ FollowRule
  BY <1>1 DEF Init, OneAttempt, Hopeful, Asking, Live, StatusIsTrue, KeepsTrying, BeliefRule, FollowRule
<1> QED
  BY <1>2, <1>3, <1>4 DEF Inv, Types

\* What a step of the store that may begin an attempt does to the attempts.
LEMMA Begins ==
  ASSUME NEW socket, NEW phases, Begin(socket, phases)
  PROVE  \/ UNCHANGED <<status, phase, overlapped>> /\ IsUp(socket)
         \/ /\ ~IsUp(socket)
            /\ status' = "connecting" /\ overlapped' = (overlapped \/ Asking # {})
            /\ \E n \in Attempts: phase[n] = "none" /\ phase' = [phases EXCEPT ![n] = "asking"]
BY DEF Begin

LEMMA Scheduled ==
  ASSUME SocketAssumption, Typed, Schedule
  PROVE  timer' = TRUE /\ retries' \in 0..(MaxFast + 1) /\ status' \in {"connecting", "disconnected"}
BY DEF Schedule, SocketAssumption, Typed, PlainTypes

\* The server's end and the wire keep their shape, and so do the phases.
LEMMA TypesStep == ASSUME SocketAssumption, Types, [Next]_vars PROVE Types'
<1> USE DEF Types, Typed, PlainTypes, store, server, wire, bounds, Phases
<1>0. 0 \in 0..MaxAttempts /\ Attempts \subseteq 0..MaxAttempts /\ 0 \in 0..(MaxFast + 1)
  BY DEF SocketAssumption, Attempts
<1>1. CASE Visit \/ TimerFires \/ SignIn
  <2>1. Begin(ws, phase)
        /\ UNCHANGED <<project, token, attached, ws, retries, current, conn, subs, down, up, faults, changes, missed>>
        /\ auth' \in BOOLEAN /\ timer' \in BOOLEAN
    BY <1>1 DEF Visit, TimerFires, SignIn
  <2>2. CASE UNCHANGED <<status, phase, overlapped>>
    BY <2>1, <2>2 DEF PhaseRules, Untried, KnownLives, SubscriptionsMatch
  <2>3. ASSUME NEW n \in Attempts, ~IsUp(ws), phase[n] = "none", phase' = [phase EXCEPT ![n] = "asking"],
               status' = "connecting", overlapped' = (overlapped \/ Asking # {})
        PROVE  Types'
    <3>1. Typed'
      BY <2>1, <2>3
    <3>2. PhaseRules'
      BY <2>1, <2>3 DEF PhaseRules, Untried
    <3>3. KnownLives' /\ SubscriptionsMatch'
      BY <2>1, <2>3 DEF KnownLives, IsUp, SubscriptionsMatch
    <3> QED
      BY <3>1, <3>2, <3>3
  <2> QED
    BY <2>1, <2>2, <2>3, Begins
<1>2. CASE SignOut
  <2>1. Typed'
    <3>1. phase' \in [Attempts -> Phases] /\ attached' \in [Attempts -> BOOLEAN]
      BY <1>2 DEF SignOut, Detached, ClosedNow
    <3>2. changes' \in 0..MaxChanges
      BY <1>2 DEF SignOut, SocketAssumption
    <3> QED
      BY <1>0, <1>2, <3>1, <3>2 DEF SignOut
  <2>2. PhaseRules'
    BY <1>2 DEF SignOut, Detached, ClosedNow, PhaseRules, Untried
  <2> QED
    BY <1>2, <2>1, <2>2 DEF SignOut, KnownLives, SubscriptionsMatch
<1>3. CASE Reconnect
  <2>1. ~IsUp(0)
    BY DEF IsUp
  <2>2. PICK n \in Attempts: phase[n] = "none" /\ phase' = [ClosedNow EXCEPT ![n] = "asking"]
    BY <1>3, <2>1, Begins DEF Reconnect
  <2>3. status' = "connecting" /\ overlapped' \in BOOLEAN
    BY <1>3, <2>1, Begins DEF Reconnect
  <2>4. Typed'
    BY <1>0, <1>3, <2>2, <2>3 DEF Reconnect, Detached, ClosedNow
  <2>5. PhaseRules'
    BY <1>3, <2>2 DEF Reconnect, Detached, ClosedNow, PhaseRules, Untried
  <2> QED
    BY <1>3, <2>4, <2>5 DEF Reconnect, KnownLives, SubscriptionsMatch
<1>4. ASSUME NEW p \in Projects, ChangeProject(p) PROVE Types'
  <2>1. up' \in Ups /\ \A n \in Attempts: phase[n] # "open" => up'[n] = up[n]
    <3>1. CASE Sends(p)
      BY <1>4, <3>1, Sending DEF ChangeProject, Sends, Attempts, Ups
    <3>2. CASE ~Sends(p)
      BY <1>4, <3>2 DEF ChangeProject
    <3> QED
      BY <3>1, <3>2
  <2>2. Typed'
    BY <1>4, <2>1 DEF ChangeProject, SocketAssumption
  <2> QED
    BY <1>4, <2>1, <2>2 DEF ChangeProject, PhaseRules, Untried, KnownLives, SubscriptionsMatch
<1>5. ASSUME NEW n \in Attempts, GrantToken(n) \/ OpenSocket(n) PROVE Types'
  <2>1. Typed'
    BY <1>0, <1>5 DEF GrantToken, OpenSocket
  <2>2. PhaseRules'
    BY <1>5 DEF GrantToken, OpenSocket, PhaseRules, Untried, SocketAssumption
  <2>3. KnownLives'
    <3>1. CASE GrantToken(n)
      BY <3>1 DEF GrantToken, KnownLives
    <3>2. CASE OpenSocket(n)
      BY <3>2 DEF OpenSocket, KnownLives
    <3> QED
      BY <1>5, <3>1, <3>2
  <2> QED
    BY <1>5, <2>1, <2>2, <2>3 DEF GrantToken, OpenSocket, SubscriptionsMatch
<1>6. ASSUME NEW n \in Attempts, TokenFails(n) PROVE Types'
  <2>1. timer' = TRUE /\ retries' \in 0..(MaxFast + 1) /\ status' \in {"connecting", "disconnected"}
    BY <1>6, Scheduled DEF TokenFails
  <2>2. Typed'
    BY <1>6, <2>1 DEF TokenFails, Fault, SocketAssumption
  <2> QED
    BY <1>6, <2>2 DEF TokenFails, PhaseRules, Untried, KnownLives, SubscriptionsMatch
<1>7. ASSUME NEW n \in Attempts, Receive(n) PROVE Types'
  <2>1. Head(down[n]) \in Words /\ down' \in Downs
    BY <1>7, Reading DEF Receive
  <2>2. Typed'
    BY <1>0, <1>7, <2>1 DEF Receive, Confirmed, Words
  <2> QED
    BY <1>7, <2>2 DEF Receive, PhaseRules, Untried, KnownLives, SubscriptionsMatch
<1>8. ASSUME NEW n \in Attempts, Accept(n) PROVE Types'
  <2>1. token[n] \in Projects /\ conn[n] = NoProject
    BY <1>8 DEF Accept, PhaseRules, Untried
  <2>2. [type |-> "connected", project |-> token[n]] \in Words
    BY <2>1 DEF Words
  <2>3. Typed'
    BY <1>8, <2>1, <2>2, Sending DEF Accept
  <2>4. PhaseRules' /\ KnownLives'
    BY <1>8, <2>1 DEF Accept, PhaseRules, Untried, KnownLives, SocketAssumption
  <2>5. SubscriptionsMatch'
    BY <1>8, <2>1 DEF Accept, SubscriptionsMatch, SocketAssumption
  <2> QED
    BY <2>3, <2>4, <2>5
<1>9. ASSUME NEW n \in Attempts, Refuse(n) \/ Break(n) PROVE Types'
  <2>1. attached[n] /\ Lose(n) /\ faults' \in 0..MaxFaults
        /\ UNCHANGED <<auth, project, token, attached, conn, subs, down, up, changes, overlapped, missed>>
    BY <1>9 DEF Refuse, Break, Fault, PhaseRules, SocketAssumption
  <2>2. ws' = 0 /\ Schedule /\ current' = current /\ phase' = [phase EXCEPT ![n] = "closed"]
    BY <2>1 DEF Lose, OnClose
  <2>3. Typed'
    BY <1>0, <2>1, <2>2, Scheduled
  <2> QED
    BY <2>1, <2>2, <2>3 DEF PhaseRules, Untried, KnownLives, SubscriptionsMatch
<1>10. ASSUME NEW n \in Attempts, Subscribe(n) PROVE Types'
  <2>1. Head(up[n]) \in Projects /\ up' \in Ups
    BY <1>10, Reading DEF Subscribe
  <2>2. [type |-> "subscribed", project |-> Head(up[n])] \in Words
    BY <2>1 DEF Words
  <2>3. Typed'
    <3>1. subs' \in [Projects -> SUBSET Attempts]
      <4>1. Moved(n, Head(up[n])) \in [Projects -> SUBSET Attempts]
        BY DEF Moved
      <4> QED
        BY <1>10, <4>1 DEF Subscribe
    <3>2. down' \in Downs
      BY <1>10, <2>2, Sending DEF Subscribe
    <3>3. faults' \in 0..MaxFaults /\ changes' \in 0..MaxChanges /\ missed' \in BOOLEAN
      <4>1. CASE UNCHANGED <<bounds, missed>>
        BY <4>1
      <4>2. CASE Fault /\ missed' = TRUE
        BY <4>2 DEF Fault, SocketAssumption
      <4> QED
        BY <1>10, <4>1, <4>2 DEF Subscribe
    <3>4. conn' \in [Attempts -> Projects \cup {NoProject}]
      BY <1>10, <2>1 DEF Subscribe, Joined
    <3> QED
      BY <1>10, <2>1, <3>1, <3>2, <3>3, <3>4 DEF Subscribe
  <2>4. PhaseRules' /\ KnownLives'
    <3>1. phase[n] \notin {"none", "asking", "granted", "opening"}
      BY <1>10 DEF Subscribe, PhaseRules, Untried
    <3>2. \A m \in Attempts: m # n => conn'[m] = conn[m] /\ down'[m] = down[m] /\ up'[m] = up[m]
      BY <1>10 DEF Subscribe, Joined, Downs, Ups
    <3>3. conn'[n] # NoProject
      BY <1>10, <2>1 DEF Subscribe, Joined, SocketAssumption
    <3> QED
      BY <1>10, <3>1, <3>2, <3>3 DEF Subscribe, PhaseRules, Untried, KnownLives
  <2>5. SubscriptionsMatch'
    BY <1>10, <2>1 DEF Subscribe, Joined, Moved, SubscriptionsMatch, SocketAssumption
  <2> QED
    BY <2>3, <2>4, <2>5
<1>11. ASSUME NEW n \in Attempts, Forget(n) PROVE Types'
  <2>1. conn[n] \in Projects
    BY <1>11 DEF Forget
  <2> QED
    BY <1>11, <2>1 DEF Forget, PhaseRules, Untried, KnownLives, SubscriptionsMatch, SocketAssumption
<1>12. CASE UNCHANGED vars
  BY <1>12 DEF vars, PhaseRules, Untried, KnownLives, SubscriptionsMatch
<1> QED
  BY <1>1, <1>2, <1>3, <1>4, <1>5, <1>6, <1>7, <1>8, <1>9, <1>10, <1>11, <1>12 DEF Next
-----------------------------------------------------------------------------
(* Attempts. *)

\* A step of the store either leaves the attempts alone, begins one while no
\* socket is known, gives up the one that is known, or both at once.
Fresh(n, phases) ==
  /\ phase[n] = "none" /\ phase' = [phases EXCEPT ![n] = "asking"]
  /\ overlapped' = (overlapped \/ Asking # {}) /\ status' = "connecting"

LEMMA KnownIsUp == Types => (IsUp(ws) <=> ws # 0)
BY DEF Types, KnownLives, IsUp

LEMMA Connecting ==
  ASSUME Types, Visit \/ TimerFires \/ SignIn
  PROVE  \/ UNCHANGED <<ws, attached, phase, status, overlapped>> /\ ws # 0
         \/ UNCHANGED <<ws, attached>> /\ ws = 0 /\ \E n \in Attempts: Fresh(n, phase)
<1>1. Begin(ws, phase) /\ UNCHANGED <<ws, attached>>
  BY DEF Visit, TimerFires, SignIn
<1> QED
  BY <1>1, Begins, KnownIsUp DEF Fresh

LEMMA Reconnecting ==
  ASSUME Reconnect
  PROVE  ws' = 0 /\ attached' = Detached /\ \E n \in Attempts: Fresh(n, ClosedNow)
<1>1. ~IsUp(0)
  BY DEF IsUp
<1> QED
  BY <1>1, Begins DEF Reconnect, Fresh

\* A socket that breaks is attached, so the store gives it up.
LEMMA Losing ==
  ASSUME SocketAssumption, Types, NEW n \in Attempts, Refuse(n) \/ Break(n)
  PROVE  /\ ws' = 0 /\ timer' = TRUE /\ status' # "connected"
         /\ phase[n] \in {"opening", "open"} /\ phase' = [phase EXCEPT ![n] = "closed"]
         /\ UNCHANGED <<auth, project, token, attached, current, conn, subs, down, up, overlapped, missed>>
<1>1. attached[n] /\ Lose(n) /\ phase[n] \in {"opening", "open"}
      /\ UNCHANGED <<auth, project, token, attached, conn, subs, down, up, overlapped, missed>>
  BY DEF Refuse, Break, Types, PhaseRules, server, wire
<1>2. ws' = 0 /\ Schedule /\ current' = current /\ phase' = [phase EXCEPT ![n] = "closed"]
  BY <1>1 DEF Lose, OnClose
<1> QED
  BY <1>1, <1>2, Scheduled DEF Types

\* While attempts do not overlap, those that can deliver are one at most.
LEMMA OneAttemptStep == ASSUME SocketAssumption, Types, OneAttempt, [Next]_vars PROVE OneAttempt'
<1> SUFFICES ASSUME ~overlapped' PROVE (\A m, n \in Hopeful: m = n)' /\ (\A n \in Live: ws = n)'
  BY DEF OneAttempt
<1> USE DEF Hopeful, Asking, Live, store, Types, Typed, PlainTypes, Phases
<1>1. \A n \in Attempts: phase[n] \in {"opening", "open"} => attached[n]
  BY DEF PhaseRules
<1>2. ASSUME ~overlapped
      PROVE  /\ \A m, n \in Hopeful: m = n
             /\ \A n \in Attempts: phase[n] \in {"opening", "open"} => ws = n
  BY <1>1, <1>2 DEF OneAttempt
<1>3. ASSUME UNCHANGED <<ws, attached, phase, overlapped>> PROVE OneAttempt'
  BY <1>2, <1>3 DEF OneAttempt
<1>4. CASE Visit \/ TimerFires \/ SignIn
  <2>1. ASSUME NEW n \in Attempts, UNCHANGED <<ws, attached>>, ws = 0, Fresh(n, phase) PROVE OneAttempt'
    <3>1. ~overlapped /\ Asking = {}
      BY <2>1 DEF Fresh
    <3>2. \A m \in Attempts: m # n => phase'[m] \notin {"asking", "granted", "opening", "open"}
      BY <1>2, <2>1, <3>1 DEF Fresh, Attempts
    <3>3. phase'[n] = "asking"
      BY <2>1 DEF Fresh
    <3> QED
      BY <3>2, <3>3 DEF OneAttempt
  <2> QED
    BY <1>3, <1>4, <2>1, Connecting DEF OneAttempt
<1>5. CASE Reconnect
  <2>1. PICK n \in Attempts: Fresh(n, ClosedNow)
    BY <1>5, Reconnecting
  <2>2. ~overlapped /\ Asking = {}
    BY <2>1 DEF Fresh
  <2>3. \A m \in Attempts: m # n => phase'[m] \notin {"asking", "granted", "opening", "open"}
    BY <1>2, <2>1, <2>2 DEF Fresh, ClosedNow, Attempts
  <2>4. phase'[n] = "asking"
    BY <2>1 DEF Fresh, ClosedNow
  <2> QED
    BY <2>3, <2>4
<1>6. CASE SignOut
  <2>1. ~overlapped /\ ws' = 0
    BY <1>6 DEF SignOut
  <2>2. \A m \in Attempts: phase'[m] \notin {"opening", "open"}
    BY <1>2, <1>6, <2>1 DEF SignOut, ClosedNow, Attempts
  <2>3. \A m \in Attempts: phase'[m] \in {"asking", "granted"} => phase[m] \in {"asking", "granted"}
    BY <1>6 DEF SignOut, ClosedNow
  <2> QED
    BY <1>2, <2>1, <2>2, <2>3
<1>7. ASSUME NEW n \in Attempts, GrantToken(n) PROVE OneAttempt'
  BY <1>2, <1>7 DEF GrantToken, OneAttempt
<1>8. ASSUME NEW n \in Attempts, OpenSocket(n) PROVE OneAttempt'
  BY <1>2, <1>8 DEF OpenSocket, OneAttempt
<1>9. ASSUME NEW n \in Attempts, TokenFails(n) PROVE OneAttempt'
  BY <1>2, <1>9 DEF TokenFails, OneAttempt
<1>10. ASSUME NEW n \in Attempts, Refuse(n) \/ Break(n) PROVE OneAttempt'
  <2>1. ws' = 0 /\ phase[n] \in {"opening", "open"} /\ phase' = [phase EXCEPT ![n] = "closed"]
        /\ attached' = attached /\ overlapped' = overlapped
    BY <1>10, Losing
  <2> QED
    BY <1>2, <2>1 DEF OneAttempt
<1>11. ASSUME NEW n \in Attempts, Accept(n) PROVE OneAttempt'
  BY <1>2, <1>11 DEF Accept, OneAttempt
<1>12. CASE \/ UNCHANGED vars \/ \E p \in Projects: ChangeProject(p)
            \/ \E n \in Attempts: Receive(n) \/ Subscribe(n) \/ Forget(n)
  BY <1>3, <1>12 DEF vars, ChangeProject, Receive, Subscribe, Forget, OneAttempt
<1> QED
  BY <1>4, <1>5, <1>6, <1>7, <1>8, <1>9, <1>10, <1>11, <1>12 DEF Next, OneAttempt

\* The status is that of a socket that is open, and whoever is signed in goes on trying.
LEMMA StatusStep ==
  ASSUME SocketAssumption, Types, StatusIsTrue, KeepsTrying, [Next]_vars
  PROVE  StatusIsTrue' /\ KeepsTrying'
<1> USE DEF Types, Typed, PlainTypes, Phases, StatusIsTrue, KeepsTrying, Asking, store
<1>1. CASE Visit \/ TimerFires \/ SignIn
  <2>1. ASSUME NEW n \in Attempts, Fresh(n, phase) PROVE StatusIsTrue' /\ KeepsTrying'
    BY <2>1 DEF Fresh
  <2>2. CASE UNCHANGED <<ws, attached, phase, status, overlapped>> /\ ws # 0
    BY <2>2
  <2> QED
    BY <1>1, <2>1, <2>2, Connecting
<1>2. CASE Reconnect
  <2>1. PICK n \in Attempts: Fresh(n, ClosedNow)
    BY <1>2, Reconnecting
  <2>2. phase'[n] = "asking" /\ status' = "connecting"
    BY <2>1 DEF Fresh, ClosedNow
  <2> QED
    BY <2>2
<1>3. CASE SignOut
  BY <1>3 DEF SignOut
<1>4. ASSUME NEW n \in Attempts, GrantToken(n) PROVE StatusIsTrue' /\ KeepsTrying'
  BY <1>4 DEF GrantToken, Attempts
<1>5. ASSUME NEW n \in Attempts, OpenSocket(n) PROVE StatusIsTrue' /\ KeepsTrying'
  BY <1>5 DEF OpenSocket, Attempts
<1>6. ASSUME NEW n \in Attempts, TokenFails(n) PROVE StatusIsTrue' /\ KeepsTrying'
  BY <1>6, Scheduled DEF TokenFails
<1>7. ASSUME NEW n \in Attempts, Refuse(n) \/ Break(n) PROVE StatusIsTrue' /\ KeepsTrying'
  BY <1>7, Losing
<1>8. ASSUME NEW n \in Attempts, Accept(n) PROVE StatusIsTrue' /\ KeepsTrying'
  BY <1>8 DEF Accept
<1>9. ASSUME NEW n \in Attempts, Receive(n) PROVE StatusIsTrue' /\ KeepsTrying'
  BY <1>9 DEF Receive
<1>10. CASE UNCHANGED vars \/ (\E p \in Projects: ChangeProject(p)) \/ (\E n \in Attempts: Subscribe(n) \/ Forget(n))
  <2>1. UNCHANGED <<auth, phase, attached, ws, timer, status>>
    BY <1>10 DEF vars, ChangeProject, Subscribe, Forget
  <2> QED
    BY <2>1
<1> QED
  BY <1>1, <1>2, <1>3, <1>4, <1>5, <1>6, <1>7, <1>8, <1>9, <1>10 DEF Next
-----------------------------------------------------------------------------
(* What the ends believe of each other. *)

\* What is sent last is the last word, and what is read was the last when nothing is left.
LEMMA LastSent ==
  ASSUME NEW S, NEW s \in Seq(S), NEW e \in S
  PROVE  Append(s, e) # <<>> /\ Last(Append(s, e)) = e
BY DEF Last

LEMMA EmptyByLength == ASSUME NEW S, NEW s \in Seq(S) PROVE s = <<>> <=> Len(s) = 0
BY EmptySeq

LEMMA LastRead ==
  ASSUME NEW S, NEW s \in Seq(S), s # <<>>
  PROVE  IF Tail(s) = <<>> THEN Last(s) = Head(s) ELSE Last(Tail(s)) = Last(s)
<1>1. Len(s) \in Nat /\ Len(s) # 0 /\ Tail(s) \in Seq(S) /\ Len(Tail(s)) = Len(s) - 1
  BY EmptySeq, HeadTailProperties
<1>2. Len(s) = 1 <=> Len(Tail(s)) = 0
  BY <1>1
<1>3. Tail(s) = <<>> <=> Len(s) = 1
  BY <1>1, <1>2, EmptyByLength, Zenon
<1>4. Len(s) # 1 => Tail(s)[Len(s) - 1] = s[Len(s)]
  BY <1>1, HeadTailProperties
<1> QED
  BY <1>1, <1>3, <1>4 DEF Last

\* While attempts do not overlap, one that can deliver is the only one.
LEMMA OnlyOne ==
  ASSUME OneAttempt, ~overlapped, NEW m \in Attempts, NEW n \in Attempts,
         phase[m] \in {"granted", "opening", "open"}, phase[n] \in {"granted", "opening", "open"}
  PROVE  m = n
BY DEF OneAttempt, Hopeful, Asking

LEMMA HistoryGrows == ASSUME TypeOK, [Next]_vars PROVE (overlapped => overlapped') /\ (missed => missed')
BY DEF TypeOK, Next, vars, Visit, TimerFires, SignOut, SignIn, Reconnect, ChangeProject, GrantToken,
       TokenFails, OpenSocket, Receive, Accept, Refuse, Break, Subscribe, Forget, Begin

\* An attempt opens by being accepted, and gets its token by being granted it.
LEMMA PhasesAdvance ==
  ASSUME Types, [Next]_vars, NEW n \in Attempts
  PROVE  /\ phase'[n] = "open" => phase[n] = "open" \/ Accept(n)
         /\ phase'[n] = "opening" => phase[n] = "opening" \/ OpenSocket(n)
         /\ phase'[n] = "granted" => phase[n] = "granted" \/ GrantToken(n)
<1> USE DEF Types, Typed, PlainTypes
<1>1. CASE Visit \/ TimerFires \/ SignIn
  BY <1>1, Connecting DEF Fresh
<1>2. CASE Reconnect
  BY <1>2, Reconnecting DEF Fresh, ClosedNow
<1>3. CASE SignOut
  BY <1>3 DEF SignOut, ClosedNow
<1>4. ASSUME NEW m \in Attempts, GrantToken(m) \/ OpenSocket(m) \/ TokenFails(m) \/ Accept(m)
      PROVE  phase'[n] = phase[n] \/ (m = n /\ (phase'[n] = "closed" \/ GrantToken(n) \/ OpenSocket(n) \/ Accept(n)))
  BY <1>4 DEF GrantToken, OpenSocket, TokenFails, Accept
<1>5. ASSUME NEW m \in Attempts, Refuse(m) \/ Break(m) PROVE phase'[n] = phase[n] \/ phase'[n] = "closed"
  BY <1>5 DEF Refuse, Break, Lose
<1>6. CASE \/ UNCHANGED vars \/ \E p \in Projects: ChangeProject(p)
           \/ \E m \in Attempts: Receive(m) \/ Subscribe(m) \/ Forget(m)
  BY <1>6 DEF vars, ChangeProject, Receive, Subscribe, Forget
<1>7. ASSUME NEW m \in Attempts, GrantToken(m) PROVE phase'[m] = "granted"
  BY <1>7 DEF GrantToken
<1>8. ASSUME NEW m \in Attempts, OpenSocket(m) PROVE phase'[m] = "opening"
  BY <1>8 DEF OpenSocket
<1>9. ASSUME NEW m \in Attempts, Accept(m) PROVE phase'[m] = "open"
  BY <1>9 DEF Accept
<1> QED
  BY <1>1, <1>2, <1>3, <1>4, <1>5, <1>6, <1>7, <1>8, <1>9 DEF Next

\* With nothing else under way, the client ends up believing what the server does.
LEMMA BeliefStep ==
  ASSUME SocketAssumption, Types, Types', OneAttempt, BeliefRule, [Next]_vars
  PROVE  BeliefRule'
<1> SUFFICES ASSUME ~overlapped', NEW n \in Attempts, phase'[n] = "open" PROVE Believed(n)' = conn'[n]
  BY DEF BeliefRule
<1> USE DEF Types, Typed, Believed
<1>0. ~overlapped /\ TypeOK
  BY HistoryGrows DEF PlainTypes, TypeOK, Words, Downs, Ups
<1>1. phase[n] = "open" => Believed(n) = conn[n]
  BY <1>0 DEF BeliefRule
<1>2. ASSUME phase[n] = "open", UNCHANGED current, down'[n] = down[n], conn'[n] = conn[n]
      PROVE  Believed(n)' = conn'[n]
  BY <1>1, <1>2
<1>3. CASE \/ UNCHANGED vars \/ Visit \/ TimerFires \/ SignIn \/ SignOut \/ Reconnect
           \/ (\E p \in Projects: ChangeProject(p))
           \/ \E m \in Attempts: GrantToken(m) \/ OpenSocket(m) \/ TokenFails(m)
  <2>1. ~ Accept(n)
    BY <1>3 DEF Accept, vars, wire, server, Visit, TimerFires, SignIn, SignOut, Reconnect,
                ChangeProject, GrantToken, OpenSocket, TokenFails, Typed, PlainTypes, Downs
  <2>2. UNCHANGED <<current, down, conn>>
    BY <1>3 DEF vars, store, wire, server, Visit, TimerFires, SignIn, SignOut, Reconnect,
                ChangeProject, GrantToken, OpenSocket, TokenFails
  <2> QED
    BY <1>2, <2>1, <2>2, PhasesAdvance
<1>4. ASSUME NEW m \in Attempts, Refuse(m) \/ Break(m) PROVE Believed(n)' = conn'[n]
  <2>1. phase'[n] = "open" => phase[n] = "open"
    BY <1>4, Losing DEF PlainTypes
  <2> QED
    BY <1>2, <1>4, <2>1, Losing
<1>5. ASSUME NEW m \in Attempts, Forget(m) PROVE Believed(n)' = conn'[n]
  BY <1>2, <1>5 DEF Forget, store, wire, PlainTypes
<1>6. ASSUME NEW m \in Attempts, Accept(m) PROVE Believed(n)' = conn'[n]
  <2>1. m = n
    BY <1>0, <1>6, OnlyOne DEF Accept, PlainTypes
  <2>2. down[n] = <<>> /\ token[n] \in Projects
    BY <1>6, <2>1 DEF Accept, PhaseRules, Untried, PlainTypes
  <2>3. [type |-> "connected", project |-> token[n]] \in Words /\ down[n] \in Seq(Words)
    BY <2>2 DEF Words, Downs
  <2>4. down'[n] = Append(down[n], [type |-> "connected", project |-> token[n]]) /\ conn'[n] = token[n]
    BY <1>6, <2>1 DEF Accept, Downs, PlainTypes
  <2> QED
    BY <2>3, <2>4, LastSent
<1>7. ASSUME NEW m \in Attempts, Receive(m) PROVE Believed(n)' = conn'[n]
  <2>1. m = n /\ phase[n] = "open" /\ down[n] # <<>>
    BY <1>0, <1>7, OnlyOne DEF Receive
  <2>2. /\ down[n] \in Seq(Words) /\ down'[n] = Tail(down[n]) /\ current' = Head(down[n]).project
        /\ conn'[n] = conn[n]
    BY <1>7, <2>1 DEF Receive, Downs, Confirmed, server
  <2> QED
    BY <1>1, <2>1, <2>2, LastRead
<1>8. ASSUME NEW m \in Attempts, Subscribe(m) PROVE Believed(n)' = conn'[n]
  <2>1. UNCHANGED <<current, phase>>
    BY <1>8 DEF Subscribe, store
  <2>2. CASE m # n \/ UNCHANGED <<conn, down>>
    BY <1>2, <1>8, <2>1, <2>2 DEF Subscribe, Joined, Downs, PlainTypes, server
  <2>3. CASE m = n /\ ~UNCHANGED <<conn, down>>
    <3>1. Head(up[n]) \in Projects
      BY <1>8, <2>3, Reading DEF Subscribe
    <3>2. [type |-> "subscribed", project |-> Head(up[n])] \in Words /\ down[n] \in Seq(Words)
      BY <3>1 DEF Words, Downs
    <3>3. /\ down'[n] = Append(down[n], [type |-> "subscribed", project |-> Head(up[n])])
          /\ conn'[n] = Head(up[n])
      BY <1>8, <2>3 DEF Subscribe, Joined, Downs, PlainTypes, server
    <3> QED
      BY <3>2, <3>3, LastSent
  <2> QED
    BY <2>2, <2>3
<1> QED
  BY <1>3, <1>4, <1>5, <1>6, <1>7, <1>8 DEF Next

\* The server ends up following the project on the screen, when each change could be sent.
LEMMA FollowStep ==
  ASSUME SocketAssumption, Types, Types', OneAttempt, FollowRule, [Next]_vars
  PROVE  FollowRule'
<1> DEFINE Follows(n) == /\ phase[n] \in {"granted", "opening"} => token[n] = project
                         /\ phase[n] = "open" => Wanted(n) = project
<1> SUFFICES ASSUME ~overlapped', ~missed', NEW n \in Attempts PROVE Follows(n)'
  BY DEF FollowRule
<1> USE DEF Types, Typed, Wanted
<1>0. ~overlapped /\ ~missed
  BY HistoryGrows DEF PlainTypes, TypeOK, Words, Downs, Ups
<1>1. Follows(n)
  BY <1>0 DEF FollowRule
<1>2. ASSUME UNCHANGED project, token'[n] = token[n], up'[n] = up[n], conn'[n] = conn[n],
             phase'[n] = phase[n] \/ phase'[n] \notin {"granted", "opening", "open"}
      PROVE  Follows(n)'
  BY <1>1, <1>2
<1>3. CASE Visit \/ TimerFires \/ SignIn \/ SignOut \/ Reconnect \/ UNCHANGED vars
  <2>1. UNCHANGED <<project, token, up, conn>>
    BY <1>3 DEF vars, store, wire, server, Visit, TimerFires, SignIn, SignOut, Reconnect
  <2>2. phase'[n] = phase[n] \/ phase'[n] \notin {"granted", "opening", "open"}
    <3>1. CASE Visit \/ TimerFires \/ SignIn
      BY <3>1, Connecting DEF Fresh, PlainTypes
    <3>2. CASE Reconnect
      BY <3>2, Reconnecting DEF Fresh, ClosedNow, PlainTypes
    <3>3. CASE SignOut \/ UNCHANGED vars
      BY <3>3 DEF SignOut, ClosedNow, vars, PlainTypes
    <3> QED
      BY <1>3, <3>1, <3>2, <3>3
  <2> QED
    BY <1>2, <2>1, <2>2
<1>4. ASSUME NEW p \in Projects, ChangeProject(p) PROVE Follows(n)'
  <2>1. ws # 0 /\ ws \in Attempts /\ phase[ws] = "open" /\ up' = [up EXCEPT ![ws] = Append(@, p)]
        /\ project' = p /\ UNCHANGED <<phase, token, conn>>
    <3>1. Sends(p)
      BY <1>0, <1>4 DEF ChangeProject
    <3>2. ws # 0 /\ ws \in Attempts /\ phase[ws] = "open"
      BY <3>1 DEF Sends, PlainTypes, Attempts
    <3> QED
      BY <1>4, <3>1, <3>2 DEF ChangeProject, server
  <2>2. CASE phase[n] \in {"granted", "opening", "open"}
    <3>1. n = ws
      BY <1>0, <2>1, <2>2, OnlyOne
    <3>2. up[n] \in Seq(Projects) /\ up'[n] = Append(up[n], p)
      BY <2>1, <3>1 DEF Ups
    <3> QED
      BY <2>1, <3>1, <3>2, LastSent
  <2> QED
    BY <2>1, <2>2
<1>5. ASSUME NEW m \in Attempts, GrantToken(m) PROVE Follows(n)'
  BY <1>2, <1>5 DEF GrantToken, wire, server, PlainTypes
<1>6. ASSUME NEW m \in Attempts, OpenSocket(m) PROVE Follows(n)'
  BY <1>1, <1>6 DEF OpenSocket, wire, server, PlainTypes
<1>7. ASSUME NEW m \in Attempts, TokenFails(m) \/ Receive(m) \/ Forget(m) PROVE Follows(n)'
  BY <1>1, <1>7 DEF TokenFails, Receive, Forget, wire, server, PlainTypes
<1>8. ASSUME NEW m \in Attempts, Refuse(m) \/ Break(m) PROVE Follows(n)'
  BY <1>2, <1>8, Losing DEF PlainTypes
<1>9. ASSUME NEW m \in Attempts, Accept(m) PROVE Follows(n)'
  <2>1. up[m] = <<>>
    BY <1>9 DEF Accept, PhaseRules, Untried
  <2> QED
    BY <1>1, <1>2, <1>9, <2>1 DEF Accept, PlainTypes
<1>10. ASSUME NEW m \in Attempts, Subscribe(m) PROVE Follows(n)'
  <2>1. /\ UNCHANGED <<project, phase, token>> /\ up[m] # <<>> /\ up' = [up EXCEPT ![m] = Tail(@)]
        /\ conn' = [conn EXCEPT ![m] = Head(up[m])]
    BY <1>10 DEF Subscribe, Joined
  <2>2. CASE m # n
    BY <1>2, <2>1, <2>2 DEF Ups, PlainTypes
  <2>3. CASE m = n
    <3>1. up[n] \in Seq(Projects) /\ up'[n] = Tail(up[n]) /\ conn'[n] = Head(up[n])
      BY <2>1, <2>3 DEF Ups, PlainTypes
    <3> QED
      BY <1>1, <2>1, <2>3, <3>1, LastRead
  <2> QED
    BY <2>2, <2>3
<1> QED
  BY <1>3, <1>4, <1>5, <1>6, <1>7, <1>8, <1>9, <1>10 DEF Next
-----------------------------------------------------------------------------
(* The limit of the server. *)

LEMMA FewConnections ==
  ASSUME SocketAssumption
  PROVE  IsFiniteSet(Connected) /\ Cardinality(Connected) \in Nat
<1>1. IsFiniteSet(Attempts)
  BY FS_Interval DEF Attempts, SocketAssumption
<1> QED
  BY <1>1, FS_Subset, FS_CardinalityType DEF Connected

LEMMA CapStep == ASSUME SocketAssumption, Types, PerUserCap, [Next]_vars PROVE PerUserCap'
<1> USE DEF Types, Typed, PlainTypes
<1>1. ASSUME Connected' \subseteq Connected PROVE PerUserCap'
  <2>1. Cardinality(Connected') <= Cardinality(Connected)
    BY <1>1, FewConnections, FS_Subset
  <2>2. Cardinality(Connected') \in Nat
    BY <1>1, FewConnections, FS_Subset, FS_CardinalityType
  <2> QED
    BY <2>1, <2>2, FewConnections DEF PerUserCap, SocketAssumption
<1>2. ASSUME NEW n \in Attempts, Accept(n) PROVE PerUserCap'
  <2>1. ~Full /\ Connected' = Connected \cup {n}
    BY <1>2 DEF Accept, Connected, PhaseRules, SocketAssumption
  <2>2. Cardinality(Connected \cup {n}) =
          IF n \in Connected THEN Cardinality(Connected) ELSE Cardinality(Connected) + 1
    BY FewConnections, FS_AddElement
  <2> QED
    BY <2>1, <2>2, FewConnections DEF PerUserCap, Full, SocketAssumption
<1>3. ASSUME NEW n \in Attempts, Forget(n) \/ Subscribe(n) \/ Refuse(n) \/ Break(n) PROVE PerUserCap'
  <2>1. Connected' \subseteq Connected
    BY <1>3 DEF Forget, Subscribe, Joined, Refuse, Break, server, Connected
  <2> QED
    BY <1>1, <2>1
<1>4. CASE \/ UNCHANGED vars \/ Visit \/ TimerFires \/ SignIn \/ SignOut \/ Reconnect
           \/ (\E p \in Projects: ChangeProject(p))
           \/ \E m \in Attempts: GrantToken(m) \/ OpenSocket(m) \/ TokenFails(m) \/ Receive(m)
  <2>1. UNCHANGED conn
    BY <1>4 DEF vars, server, Visit, TimerFires, SignIn, SignOut, Reconnect,
                ChangeProject, GrantToken, OpenSocket, TokenFails, Receive
  <2> QED
    BY <1>1, <2>1 DEF Connected
<1> QED
  BY <1>2, <1>3, <1>4 DEF Next

LEMMA CapInit == ASSUME SocketAssumption, Init PROVE PerUserCap
<1>1. Connected = {}
  BY DEF Init, Connected
<1> QED
  BY <1>1, FS_EmptySet DEF PerUserCap, SocketAssumption

LEMMA SocketStep == ASSUME SocketAssumption, Inv, [Next]_vars PROVE Inv'
BY TypesStep, OneAttemptStep, StatusStep, BeliefStep, FollowStep DEF Inv

LEMMA SocketInvariant == ASSUME SocketAssumption PROVE Spec => []Inv
<1>1. Inv /\ [Next]_vars => Inv'
  BY SocketStep
<1> QED
  BY <1>1, SocketInit, PTL DEF Spec

LEMMA TypesOK == Types => TypeOK
BY DEF Types, Typed, PlainTypes, TypeOK, Words, Downs, Ups

\* Whatever attempts, losses, projects and users come, the server's two maps of
\* subscriptions say the same.
THEOREM SubscriptionsAgree == ASSUME SocketAssumption PROVE Spec => [](TypeOK /\ SubscriptionsMatch)
<1>1. Inv => TypeOK /\ SubscriptionsMatch
  BY TypesOK DEF Inv, Types
<1> QED
  BY <1>1, SocketInvariant, PTL

\* No order of handshakes, refusals and connections that are forgotten late takes
\* a user over the limit.
THEOREM ConnectionsAreLimited == ASSUME SocketAssumption PROVE Spec => []PerUserCap
<1>1. Inv /\ PerUserCap /\ [Next]_vars => PerUserCap'
  BY CapStep DEF Inv
<1> QED
  BY <1>1, CapInit, SocketInvariant, PTL DEF Spec

\* At most one socket delivers events while attempts do not overlap.
THEOREM EventsComeOnce == ASSUME SocketAssumption PROVE Spec => []OneLiveSocket
<1>1. Inv => OneLiveSocket
  <2> SUFFICES ASSUME Inv, ~overlapped PROVE Cardinality(Live) <= 1
    BY DEF OneLiveSocket
  <2>1. CASE Live = {}
    BY <2>1, FS_EmptySet
  <2>2. CASE Live # {}
    <3>1. Live = {ws}
      BY <2>2 DEF Inv, OneAttempt
    <3> QED
      BY <3>1, FS_Singleton
  <2> QED
    BY <2>1, <2>2
<1> QED
  BY <1>1, SocketInvariant, PTL

\* The status of the store is never connected without a socket that is open.
THEOREM StatusIsNeverAhead == ASSUME SocketAssumption PROVE Spec => []StatusIsTrue
<1>1. Inv => StatusIsTrue
  BY DEF Inv
<1> QED
  BY <1>1, SocketInvariant, PTL

\* Whoever is signed in always has a socket, an attempt or a timer, whatever failed before.
THEOREM ReconnectionNeverStops == ASSUME SocketAssumption PROVE Spec => []KeepsTrying
<1>1. Inv => KeepsTrying
  BY DEF Inv
<1> QED
  BY <1>1, SocketInvariant, PTL

LEMMA KnownAtRest ==
  ASSUME SocketAssumption, Inv, AtRest
  PROVE  ws \in Attempts /\ phase[ws] = "open" /\ down[ws] = <<>> /\ up[ws] = <<>>
BY DEF AtRest, Inv, Types, Typed, PlainTypes, Attempts

\* With nothing on its way the store holds the project that the server has for the connection, and
\* it is the project on the screen, when each change could be sent.
THEOREM ProjectIsHeard == ASSUME SocketAssumption PROVE Spec => []ProjectIsFollowed
<1>1. ASSUME Inv, AtRest, ~overlapped PROVE current = conn[ws]
  BY <1>1, KnownAtRest DEF Inv, BeliefRule, Believed
<1>2. ASSUME Inv, AtRest, ~overlapped, ~missed PROVE conn[ws] = project
  BY <1>2, KnownAtRest DEF Inv, FollowRule, Wanted
<1>3. Inv => ProjectIsFollowed
  BY <1>1, <1>2 DEF ProjectIsFollowed
<1> QED
  BY <1>3, SocketInvariant, PTL
-----------------------------------------------------------------------------
(* Lists, records and tables. *)

\* Counting is counting, also in a module of its own.
LEMMA RowsCount ==
  ASSUME NEW S PROVE Rows!Cardinality(S) = Cardinality(S) /\ (Rows!IsFiniteSet(S) <=> IsFiniteSet(S))
BY DEF Cardinality, IsFiniteSet, Rows!Cardinality, Rows!IsFiniteSet

\* A finite set as a sequence: each of its elements once, and nothing else.
LEMMA SequenceOfSet ==
  ASSUME NEW S, IsFiniteSet(S)
  PROVE  /\ Rows!SetToSeq(S) \in Seq(S)
         /\ \A i, j \in DOMAIN Rows!SetToSeq(S): Rows!SetToSeq(S)[i] = Rows!SetToSeq(S)[j] => i = j
         /\ \A r \in S: \E i \in DOMAIN Rows!SetToSeq(S): Rows!SetToSeq(S)[i] = r
<1> DEFINE n == Cardinality(S)
           Once(f) == Rows!IsInjective(f)
<1>1. n \in Nat /\ ExistsBijection(1..n, S) /\ IsFiniteSet(1..n) /\ Cardinality(1..n) = n
  <2>1. n \in Nat /\ ExistsBijection(1..n, S)
    BY FS_CardinalityType
  <2>2. IsFiniteSet(1..n) /\ Cardinality(1..n) = IF 1 > n THEN 0 ELSE n - 1 + 1
    BY <2>1, FS_Interval
  <2> QED
    BY <2>1, <2>2
<1>2. Rows!SetToSeq(S) = CHOOSE f \in [1..n -> S]: Once(f)
  BY RowsCount DEF Rows!SetToSeq
<1>3. \E f \in [1..n -> S]: Once(f)
  BY <1>1 DEF ExistsBijection, Bijection, Injection, Surjection, IsInjective, Rows!IsInjective
<1> DEFINE s == Rows!SetToSeq(S)
<1>4. s \in [1..n -> S] /\ Once(s)
  BY <1>2, <1>3
<1>5. s \in Injection(1..n, S)
  BY <1>4 DEF Injection, IsInjective, Rows!IsInjective
<1>6. s \in Surjection(1..n, S)
  BY <1>1, <1>5, FS_Injection
<1>7. DOMAIN s = 1..n /\ s \in Seq(S)
  BY <1>1, <1>4
<1> QED
  BY <1>4, <1>6, <1>7 DEF Surjection, Rows!IsInjective

\* The number of places up to one of them; it tells the places apart and takes every value up to their number.
Rank(i, places) == Cardinality({j \in places: j <= i})
LEMMA RanksCount ==
  ASSUME NEW n \in Nat, NEW K \in SUBSET (1..n)
  PROVE  /\ IsFiniteSet(K) /\ Cardinality(K) \in Nat
         /\ \A i \in K: Rank(i, K) \in 1..Cardinality(K)
         /\ \A m \in 1..Cardinality(K): Rows!Nth(m, K) \in K /\ Rank(Rows!Nth(m, K), K) = m
         /\ \A i \in K: Rows!Nth(Rank(i, K), K) = i
<1>1. IsFiniteSet(K) /\ Cardinality(K) \in Nat
  <2>1. IsFiniteSet(1..n)
    BY FS_Interval
  <2> QED
    BY <2>1, FS_Subset, FS_CardinalityType
<1>2. ASSUME NEW i \in K PROVE Rank(i, K) \in 1..Cardinality(K)
  <2> DEFINE T == {j \in K: j <= i}
  <2>1. IsFiniteSet(T) /\ Cardinality(T) <= Cardinality(K) /\ i \in T
    BY <1>1, FS_Subset
  <2>2. Cardinality(T) \in Nat /\ Cardinality(T) # 0
    BY <2>1, FS_CardinalityType, FS_EmptySet
  <2> QED
    BY <1>1, <2>1, <2>2 DEF Rank
<1>3. ASSUME NEW i \in K, NEW k \in K, i < k PROVE Rank(i, K) < Rank(k, K)
  <2> DEFINE T == {j \in K: j <= i}
             U == {j \in K: j <= k}
  <2>1. T \subseteq U /\ k \in U /\ k \notin T
    <3>1. i \in 1..n /\ k \in 1..n /\ \A j \in K: j \in 1..n
      OBVIOUS
    <3>2. ~(k <= i) /\ k <= k /\ \A j \in K: j <= i => j <= k
      BY <1>3, <3>1
    <3> QED
      BY <3>2
  <2>2. IsFiniteSet(U) /\ IsFiniteSet(T)
    BY <1>1, FS_Subset
  <2>3. Cardinality(T) <= Cardinality(U) /\ (Cardinality(T) = Cardinality(U) => T = U)
    BY <2>1, <2>2, FS_Subset
  <2>4. Cardinality(T) \in Nat /\ Cardinality(U) \in Nat
    BY <2>2, FS_CardinalityType
  <2> HIDE DEF T, U
  <2>5. Cardinality(T) < Cardinality(U)
    BY <2>1, <2>3, <2>4
  <2> QED
    BY <2>5 DEF Rank, T, U
<1>4. \A i, k \in K: Rank(i, K) = Rank(k, K) => i = k
  <2>1. \A i, k \in K: i = k \/ i < k \/ k < i
    OBVIOUS
  <2> QED
    BY <1>1, <1>2, <1>3, <2>1
<1> DEFINE f == [i \in K |-> Rank(i, K)]
<1>5. f \in Injection(K, 1..Cardinality(K))
  BY <1>2, <1>4 DEF Injection, IsInjective
<1>6. IsFiniteSet(1..Cardinality(K)) /\ Cardinality(1..Cardinality(K)) = Cardinality(K)
  <2>1. IsFiniteSet(1..Cardinality(K))
        /\ Cardinality(1..Cardinality(K)) = IF 1 > Cardinality(K) THEN 0 ELSE Cardinality(K) - 1 + 1
    BY <1>1, FS_Interval
  <2> QED
    BY <1>1, <2>1
<1>7. f \in Surjection(K, 1..Cardinality(K))
  BY <1>5, <1>6, FS_Injection
<1>8. \A m: Rows!Nth(m, K) = CHOOSE i \in K: Rank(i, K) = m
  BY RowsCount DEF Rows!Nth, Rank
<1>9. ASSUME NEW m \in 1..Cardinality(K) PROVE Rows!Nth(m, K) \in K /\ Rank(Rows!Nth(m, K), K) = m
  <2>1. \E i \in K: Rank(i, K) = m
    BY <1>7 DEF Surjection
  <2> QED
    BY <1>8, <2>1
<1> QED
  BY <1>1, <1>2, <1>4, <1>9

\* Rows that the list may have, and events.
OwnRow == [id: Rows!Own, v: Rows!Versions \ {0}]
Happening == [type: {"created", "updated", "deleted"}, row: [id: Ids, v: Rows!Versions \ {0}], at: 1..MaxRowChanges]

\* The rows of a list, and the events that are under way.
RowsOf(l) == {l[i]: i \in DOMAIN l}
UniqueIn(l) == \A i, j \in DOMAIN l: l[i].id = l[j].id => i = j
Coming == RowsOf(queue)

LEMMA RowsAreOf == ASSUME NEW S, NEW l \in Seq(S) PROVE RowsOf(l) \subseteq S
BY ElementOfSeq DEF RowsOf

\* What an event makes of the list.
LEMMA AppliedCreated ==
  ASSUME list \in Seq(OwnRow), NEW e \in Happening, e.type = "created"
  PROVE  /\ Rows!Applied(e) \in Seq(OwnRow)
         /\ RowsOf(Rows!Applied(e)) = RowsOf(list) \cup (IF e.row.id \in Rows!Own THEN {e.row} ELSE {})
         /\ UniqueIn(list) /\ ~Rows!Listed(e.row.id) => UniqueIn(Rows!Applied(e))
<1>1. Rows!Applied(e) = IF e.row.id \in Rows!Own THEN <<e.row>> \o list ELSE list
  BY DEF Rows!Applied, Rows!InScope
<1>2. CASE e.row.id \notin Rows!Own
  BY <1>1, <1>2
<1>3. CASE e.row.id \in Rows!Own
  <2> DEFINE l == <<e.row>> \o list
  <2>1. e.row \in OwnRow
    BY <1>3 DEF OwnRow, Happening
  <2>2. /\ l \in Seq(OwnRow) /\ Len(list) \in Nat /\ DOMAIN list = 1..Len(list) /\ DOMAIN l = 1..Len(list) + 1
        /\ l[1] = e.row /\ \A i \in 2..Len(list) + 1: l[i] = list[i - 1]
    BY <2>1
  <2> HIDE DEF l
  <2>3. \A i \in DOMAIN l: i = 1 \/ (i \in 2..Len(list) + 1 /\ i - 1 \in DOMAIN list /\ l[i] = list[i - 1])
    BY <2>2
  <2>4. \A i \in DOMAIN list: i + 1 \in DOMAIN l /\ l[i + 1] = list[i]
    BY <2>2
  <2>5. RowsOf(l) = RowsOf(list) \cup {e.row}
    <3>1. 1 \in DOMAIN l
      BY <2>2
    <3>2. ASSUME NEW i \in DOMAIN l PROVE l[i] \in RowsOf(list) \cup {e.row}
      BY <2>2, <2>3 DEF RowsOf
    <3>3. e.row \in RowsOf(l) /\ \A i \in DOMAIN list: list[i] \in RowsOf(l)
      BY <2>2, <2>4, <3>1 DEF RowsOf
    <3> QED
      BY <3>2, <3>3 DEF RowsOf
  <2>6. ASSUME UniqueIn(list), ~Rows!Listed(e.row.id) PROVE UniqueIn(l)
    <3> SUFFICES ASSUME NEW i \in DOMAIN l, NEW j \in DOMAIN l, l[i].id = l[j].id PROVE i = j
      BY DEF UniqueIn
    <3>1. \A k \in DOMAIN list: list[k].id # e.row.id
      BY <2>6 DEF Rows!Listed
    <3>2. i \in Nat /\ j \in Nat
      BY <2>2
    <3> QED
      BY <2>2, <2>3, <2>6, <3>1, <3>2 DEF UniqueIn
  <2> QED
    BY <1>1, <1>3, <2>2, <2>5, <2>6 DEF l
<1> QED
  BY <1>2, <1>3

LEMMA AppliedUpdated ==
  ASSUME list \in Seq(OwnRow), NEW e \in Happening, e.type = "updated"
  PROVE  /\ Rows!Applied(e) \in Seq(OwnRow)
         /\ RowsOf(Rows!Applied(e)) = {IF r.id = e.row.id THEN e.row ELSE r: r \in RowsOf(list)}
         /\ UniqueIn(list) => UniqueIn(Rows!Applied(e))
<1> DEFINE l == [i \in DOMAIN list |-> IF list[i].id = e.row.id THEN e.row ELSE list[i]]
<1>1. Rows!Applied(e) = l
  BY DEF Rows!Applied
<1>2. Len(list) \in Nat /\ DOMAIN list = 1..Len(list) /\ \A i \in DOMAIN list: list[i] \in OwnRow
  OBVIOUS
<1>3. DOMAIN l = DOMAIN list
      /\ \A i \in DOMAIN list: l[i] = (IF list[i].id = e.row.id THEN e.row ELSE list[i]) /\ l[i].id = list[i].id
  BY DEF Happening
<1>4. \A i \in DOMAIN list: l[i] \in OwnRow
  BY <1>2 DEF OwnRow, Happening
<1>5. l \in Seq(OwnRow)
  BY <1>2, <1>4
<1> HIDE DEF l
<1>6. RowsOf(l) = {IF r.id = e.row.id THEN e.row ELSE r: r \in RowsOf(list)}
  BY <1>3 DEF RowsOf
<1> QED
  BY <1>1, <1>3, <1>5, <1>6 DEF UniqueIn

LEMMA AppliedDeleted ==
  ASSUME list \in Seq(OwnRow), NEW e \in Happening, e.type = "deleted"
  PROVE  /\ Rows!Applied(e) \in Seq(OwnRow)
         /\ RowsOf(Rows!Applied(e)) = {r \in RowsOf(list): r.id # e.row.id}
         /\ UniqueIn(list) => UniqueIn(Rows!Applied(e))
<1> DEFINE K == Rows!Kept(e.row.id)
           l == [m \in 1..Cardinality(K) |-> list[Rows!Nth(m, K)]]
<1>1. Rows!Applied(e) = l
  BY RowsCount DEF Rows!Applied, Rows!Without
<1>2. Len(list) \in Nat /\ DOMAIN list = 1..Len(list) /\ \A i \in DOMAIN list: list[i] \in OwnRow
  OBVIOUS
<1>3. K \in SUBSET (1..Len(list)) /\ \A i \in DOMAIN list: i \in K <=> list[i].id # e.row.id
  BY <1>2 DEF Rows!Kept
<1> HIDE DEF K
<1>4. /\ Cardinality(K) \in Nat /\ \A i \in K: Rank(i, K) \in 1..Cardinality(K) /\ Rows!Nth(Rank(i, K), K) = i
      /\ \A m \in 1..Cardinality(K): Rows!Nth(m, K) \in K /\ Rank(Rows!Nth(m, K), K) = m
  BY <1>2, <1>3, RanksCount
<1>5. /\ DOMAIN l = 1..Cardinality(K) /\ \A m \in DOMAIN l: l[m] = list[Rows!Nth(m, K)] /\ l[m] \in OwnRow
      /\ l \in Seq(OwnRow)
  <2>1. ASSUME NEW m \in 1..Cardinality(K) PROVE Rows!Nth(m, K) \in DOMAIN list
    BY <1>2, <1>3, <1>4
  <2>2. DOMAIN l = 1..Cardinality(K) /\ \A m \in DOMAIN l: l[m] = list[Rows!Nth(m, K)]
    OBVIOUS
  <2>3. \A m \in DOMAIN l: l[m] \in OwnRow
    BY <1>2, <2>1
  <2>4. l \in [1..Cardinality(K) -> OwnRow]
    BY <2>3
  <2> HIDE DEF l
  <2> QED
    BY <1>4, <2>2, <2>3, <2>4
<1> HIDE DEF l
<1>6. RowsOf(l) = {r \in RowsOf(list): r.id # e.row.id}
  <2>1. ASSUME NEW m \in DOMAIN l PROVE l[m] \in RowsOf(list) /\ l[m].id # e.row.id
    BY <1>2, <1>3, <1>4, <1>5 DEF RowsOf
  <2>2. ASSUME NEW i \in DOMAIN list, list[i].id # e.row.id PROVE \E m \in DOMAIN l: l[m] = list[i]
    BY <1>3, <1>4, <1>5, <2>2
  <2> QED
    BY <2>1, <2>2 DEF RowsOf
<1>7. ASSUME UniqueIn(list) PROVE UniqueIn(l)
  <2> SUFFICES ASSUME NEW i \in DOMAIN l, NEW j \in DOMAIN l, l[i].id = l[j].id PROVE i = j
    BY DEF UniqueIn
  <2>1. Rows!Nth(i, K) \in DOMAIN list /\ Rows!Nth(j, K) \in DOMAIN list
    BY <1>2, <1>3, <1>4, <1>5
  <2>2. Rows!Nth(i, K) = Rows!Nth(j, K)
    BY <1>5, <1>7, <2>1 DEF UniqueIn
  <2> QED
    BY <1>4, <1>5, <2>2
<1> QED
  BY <1>1, <1>5, <1>6, <1>7

\* The rows of an answer are those of the list's scope that it has, each once.
LEMMA PageRows ==
  ASSUME Rows!LiveAssumption, NEW a \in Rows!Snapshots
  PROVE  /\ Rows!Page(a) \in Seq(OwnRow) /\ UniqueIn(Rows!Page(a))
         /\ RowsOf(Rows!Page(a)) = {Rows!Row(id, a.rows[id]): id \in {i \in Rows!Own: a.rows[i] > 0}}
<1> DEFINE I == {i \in Rows!Own: a.rows[i] > 0}
           S == {Rows!Row(id, a.rows[id]): id \in I}
<1>1. IsFiniteSet(I)
  <2>1. IsFiniteSet(Ids) /\ I \subseteq Ids
    BY RowsCount DEF Rows!LiveAssumption, Rows!Own
  <2> QED
    BY <2>1, FS_Subset
<1>2. \A i \in I: a.rows[i] \in Rows!Versions \ {0}
  BY DEF Rows!Snapshots, Rows!Own, Rows!Versions
<1>3. IsFiniteSet(S)
  <2> DEFINE f == [i \in I |-> Rows!Row(i, a.rows[i])]
  <2>1. f \in Surjection(I, S)
    BY DEF Surjection
  <2> QED
    BY <1>1, <2>1, FS_Surjection
<1>4. S \subseteq OwnRow
  BY <1>2 DEF OwnRow, Rows!Row
<1>5. \A r, t \in S: r.id = t.id => r = t
  BY DEF Rows!Row
<1>6. Rows!Page(a) = Rows!SetToSeq(S)
  BY DEF Rows!Page
<1> HIDE DEF S
<1>7. /\ Rows!Page(a) \in Seq(S) /\ \A r \in S: \E i \in DOMAIN Rows!Page(a): Rows!Page(a)[i] = r
      /\ \A i, j \in DOMAIN Rows!Page(a): Rows!Page(a)[i] = Rows!Page(a)[j] => i = j
  BY <1>3, <1>6, SequenceOfSet
<1>8. \A i \in DOMAIN Rows!Page(a): Rows!Page(a)[i] \in S
  BY <1>7, ElementOfSeq
<1>9. Rows!Page(a) \in Seq(OwnRow)
  BY <1>4, <1>7, SeqMonotonic
<1>10. RowsOf(Rows!Page(a)) = S /\ UniqueIn(Rows!Page(a))
  BY <1>5, <1>7, <1>8 DEF RowsOf, UniqueIn
<1> QED
  BY <1>9, <1>10 DEF S

-----------------------------------------------------------------------------
\* The server counts its changes, and what is on its way was among them.
RowTypes ==
  /\ row \in [Ids -> Nat] /\ born \subseteq Ids /\ clock \in 0..MaxRowChanges
  /\ \A id \in Ids: row[id] <= clock + 1 /\ (id \notin born => row[id] = 0)
  /\ row[Tracked] > 0 /\ queue \in Seq(Happening) /\ asked \in Nat /\ answers \subseteq Rows!Snapshots
  /\ props \in Rows!Snapshots /\ list \in Seq(OwnRow) /\ record \in Rows!Versions /\ fetchTimer \in BOOLEAN
  /\ visits \in 0..MaxVisits /\ lost \in 0..MaxLost /\ heard \in 0..clock
  /\ stale \in BOOLEAN /\ swapped \in BOOLEAN /\ doubled \in BOOLEAN

\* Every fetch has a cause of its own: a visit, or an event that is heard no more than once.
FetchCount == asked + (IF fetchTimer THEN 1 ELSE 0) + Len(queue) <= visits + clock

\* Events come in order; what the last one says of a resource is what the server has.
ComingRule ==
  /\ \A i, j \in DOMAIN queue: i < j => queue[i].at < queue[j].at
  /\ \A e \in Coming:
       /\ heard < e.at /\ e.at <= clock /\ e.row.id \in born
       /\ e.type = "deleted" => row[e.row.id] = 0
       /\ e.type = "created" => e.row.id # Tracked
       /\ e.type # "deleted" /\ (\A f \in Coming: f.row.id = e.row.id => f.at <= e.at) => row[e.row.id] = e.row.v
  /\ \A e, f \in Coming: e.row.id = f.row.id /\ e.at < f.at => f.type # "created" /\ e.type # "deleted"

\* What an answer that is not older than the last event lacks is on its way.
LateRule ==
  /\ props.at <= clock /\ \A a \in answers: a.at <= clock
  /\ lost = 0 => \A a \in answers: heard <= a.at => \A id \in Ids:
       /\ a.rows[id] = row[id] \/ \E e \in Coming: e.row.id = id /\ a.at < e.at
       /\ row[id] > 0 /\ a.rows[id] = 0 =>
            \E e \in Coming: e.row.id = id /\ a.at < e.at /\ e.type = "created"

\* What the list and the record lack is on its way; and the table is fetched again.
ListRule ==
  lost = 0 /\ ~stale /\ ~doubled =>
    /\ \A r \in RowsOf(list): r.v = row[r.id] \/ \E e \in Coming: e.row.id = r.id
    /\ \A id \in Rows!Own: row[id] > 0 =>
         (\E r \in RowsOf(list): r.id = id) \/ \E e \in Coming: e.row.id = id /\ e.type = "created"
RecordRule == lost = 0 /\ ~stale => record = row[Tracked] \/ \E e \in Coming: e.row.id = Tracked
TableRule ==
  lost = 0 /\ ~swapped =>
    fetchTimer \/ queue # <<>> \/ asked > 0 \/ props.at = clock \/ \E a \in answers: a.at = clock
UniqueRule == ~doubled => UniqueIn(list)

Shared == RowTypes /\ FetchCount /\ ComingRule /\ LateRule
RowsInv == Shared /\ ListRule /\ RecordRule /\ TableRule /\ UniqueRule
-----------------------------------------------------------------------------
LEMMA RowsInit == ASSUME Rows!LiveAssumption, Rows!Init PROVE RowsInv
<1>1. /\ Tracked \in Ids \ Foreign /\ MaxRowChanges \in Nat /\ MaxVisits \in Nat /\ MaxLost \in Nat
      /\ row = [id \in Ids |-> IF id = Tracked THEN 1 ELSE 0] /\ born = {Tracked} /\ clock = 0
  BY DEF Rows!LiveAssumption, Rows!Init
<1>2. /\ queue = <<>> /\ queue \in Seq(Happening) /\ Len(queue) = 0 /\ DOMAIN queue = {} /\ Coming = {}
      /\ asked = 0 /\ answers = {} /\ props = Rows!Snapshot /\ list = Rows!Page(props) /\ record = 1
      /\ fetchTimer = FALSE
      /\ visits = 0 /\ lost = 0 /\ heard = 0 /\ stale = FALSE /\ swapped = FALSE /\ doubled = FALSE
  BY DEF Rows!Init, Coming, RowsOf
<1>3. props \in Rows!Snapshots /\ props.at = 0 /\ props.rows = row
  BY <1>1, <1>2 DEF Rows!Snapshot, Rows!Snapshots, Rows!Versions
<1>4. /\ list \in Seq(OwnRow) /\ UniqueIn(list)
      /\ RowsOf(list) = {Rows!Row(id, row[id]): id \in {i \in Rows!Own: row[i] > 0}}
  BY <1>2, <1>3, PageRows
<1>5. RowTypes
  <2>1. row \in [Ids -> Nat] /\ row[Tracked] > 0
        /\ \A id \in Ids: row[id] <= clock + 1 /\ (id \notin born => row[id] = 0)
    BY <1>1
  <2>2. born \subseteq Ids /\ clock \in 0..MaxRowChanges /\ record \in Rows!Versions /\ heard \in 0..clock
    BY <1>1, <1>2 DEF Rows!Versions
  <2>3. visits \in 0..MaxVisits /\ lost \in 0..MaxLost /\ answers \subseteq Rows!Snapshots /\ asked \in Nat
    BY <1>1, <1>2
  <2> QED
    BY <1>2, <1>3, <1>4, <2>1, <2>2, <2>3 DEF RowTypes
<1>6. FetchCount
  BY <1>1, <1>2 DEF FetchCount
<1>7. ComingRule /\ LateRule
  BY <1>1, <1>2, <1>3 DEF ComingRule, LateRule
<1>8. ListRule
  <2>1. \A r \in RowsOf(list): r.v = row[r.id]
    BY <1>4 DEF Rows!Row
  <2>2. ASSUME NEW id \in Rows!Own, row[id] > 0 PROVE \E r \in RowsOf(list): r.id = id
    <3>1. Rows!Row(id, row[id]) \in RowsOf(list) /\ Rows!Row(id, row[id]).id = id
      BY <1>4, <2>2 DEF Rows!Row
    <3> QED
      BY <3>1
  <2> QED
    BY <2>1, <2>2 DEF ListRule
<1>9. RecordRule /\ TableRule /\ UniqueRule
  BY <1>1, <1>2, <1>3, <1>4 DEF RecordRule, TableRule, UniqueRule
<1> QED
  BY <1>5, <1>6, <1>7, <1>8, <1>9 DEF RowsInv, Shared

\* The events under way when one is sent, and when one leaves.
LEMMA SentEvent ==
  ASSUME queue \in Seq(Happening), NEW e \in Happening, queue' = Append(queue, e)
  PROVE  /\ queue' \in Seq(Happening) /\ Len(queue') = Len(queue) + 1 /\ Len(queue) \in Nat
         /\ Coming' = Coming \cup {e}
         /\ (\A i, j \in DOMAIN queue: i < j => queue[i].at < queue[j].at) /\ (\A f \in Coming: f.at < e.at) =>
              \A i, j \in DOMAIN queue': i < j => queue'[i].at < queue'[j].at
<1>1. /\ queue' \in Seq(Happening) /\ Len(queue') = Len(queue) + 1 /\ Len(queue) \in Nat
      /\ DOMAIN queue = 1..Len(queue) /\ DOMAIN queue' = 1..Len(queue) + 1 /\ queue'[Len(queue) + 1] = e
      /\ \A i \in DOMAIN queue: queue'[i] = queue[i]
  OBVIOUS
<1>2. \A i \in DOMAIN queue': i \in DOMAIN queue \/ i = Len(queue) + 1
  BY <1>1
<1>3. Coming' = Coming \cup {e}
  <2>1. ASSUME NEW i \in DOMAIN queue' PROVE queue'[i] \in Coming \cup {e}
    BY <1>1, <1>2 DEF Coming, RowsOf
  <2>2. e \in Coming' /\ \A i \in DOMAIN queue: queue[i] \in Coming'
    <3>1. Len(queue) + 1 \in DOMAIN queue' /\ \A i \in DOMAIN queue: i \in DOMAIN queue'
      BY <1>1
    <3> QED
      BY <1>1, <3>1 DEF Coming, RowsOf
  <2> QED
    BY <2>1, <2>2 DEF Coming, RowsOf
<1>4. ASSUME \A i, j \in DOMAIN queue: i < j => queue[i].at < queue[j].at, \A f \in Coming: f.at < e.at,
             NEW i \in DOMAIN queue', NEW j \in DOMAIN queue', i < j
      PROVE  queue'[i].at < queue'[j].at
  <2>1. i \in DOMAIN queue /\ queue[i] \in Coming
    BY <1>1, <1>4 DEF Coming, RowsOf
  <2> QED
    BY <1>1, <1>2, <1>4, <2>1
<1> QED
  BY <1>1, <1>3, <1>4

LEMMA GoneEvent ==
  ASSUME queue \in Seq(Happening), queue # <<>>, queue' = Tail(queue),
         \A i, j \in DOMAIN queue: i < j => queue[i].at < queue[j].at
  PROVE  /\ queue' \in Seq(Happening) /\ Len(queue') = Len(queue) - 1 /\ Len(queue) \in Nat /\ Len(queue) > 0
         /\ Head(queue) \in Coming /\ Head(queue) \in Happening /\ Coming' = Coming \ {Head(queue)}
         /\ \A e \in Coming': Head(queue).at < e.at
         /\ \A i, j \in DOMAIN queue': i < j => queue'[i].at < queue'[j].at
<1>1. /\ queue' \in Seq(Happening) /\ Len(queue') = Len(queue) - 1 /\ Len(queue) \in Nat /\ Len(queue) > 0
      /\ DOMAIN queue = 1..Len(queue) /\ DOMAIN queue' = 1..Len(queue) - 1 /\ Head(queue) = queue[1]
      /\ Head(queue) \in Happening /\ \A i \in 1..Len(queue) - 1: queue'[i] = queue[i + 1]
  OBVIOUS
<1>2. \A i \in DOMAIN queue': i + 1 \in DOMAIN queue /\ 1 < i + 1 /\ queue'[i] = queue[i + 1]
  BY <1>1
<1>3. \A i \in DOMAIN queue: i = 1 \/ (i - 1 \in DOMAIN queue' /\ queue'[i - 1] = queue[i])
  BY <1>1
<1>4. \A i \in DOMAIN queue: queue[i] \in Happening /\ queue[i].at \in Nat
  <2>1. \A e \in Happening: e.at \in Nat
    BY DEF Happening
  <2> QED
    BY <2>1, ElementOfSeq
<1>5. 1 \in DOMAIN queue
  BY <1>1
<1>6. \A i \in DOMAIN queue': Head(queue).at < queue'[i].at /\ Head(queue) # queue'[i]
  BY <1>1, <1>2, <1>4, <1>5
<1>7. Coming' = Coming \ {Head(queue)} /\ Head(queue) \in Coming
  <2>1. ASSUME NEW i \in DOMAIN queue' PROVE queue'[i] \in Coming \ {Head(queue)}
    BY <1>2, <1>6 DEF Coming, RowsOf
  <2>2. ASSUME NEW i \in DOMAIN queue, queue[i] # Head(queue) PROVE queue[i] \in Coming'
    BY <1>1, <1>3, <2>2 DEF Coming, RowsOf
  <2>3. Head(queue) \in Coming
    BY <1>1, <1>5 DEF Coming, RowsOf
  <2> QED
    BY <2>1, <2>2, <2>3 DEF Coming, RowsOf
<1>8. ASSUME NEW i \in DOMAIN queue', NEW j \in DOMAIN queue', i < j PROVE queue'[i].at < queue'[j].at
  <2>1. i + 1 \in DOMAIN queue /\ j + 1 \in DOMAIN queue /\ i + 1 < j + 1
    BY <1>1, <1>8
  <2> QED
    BY <1>2, <2>1
<1>9. \A e \in Coming': Head(queue).at < e.at
  BY <1>6 DEF Coming, RowsOf
<1> QED
  BY <1>1, <1>7, <1>8, <1>9

\* The server gives a resource the version v, and sends e.
Changes(id, v, e) ==
  /\ e.row.id = id /\ e.at = clock + 1 /\ (e.type # "deleted" => e.row.v = v /\ v > 0)
  /\ clock < MaxRowChanges /\ clock' = clock + 1 /\ row' = [row EXCEPT ![id] = v] /\ v <= clock + 2
  /\ queue' = Append(queue, e) /\ born' = born \cup {id}
  /\ e.type = "created" => id \notin born /\ v = 1
  /\ e.type # "created" => id \in born /\ row[id] > 0
  /\ e.type = "deleted" => v = 0 /\ id # Tracked
  /\ UNCHANGED <<asked, answers, props, list, record, fetchTimer, visits, lost, heard, stale, swapped, doubled>>

\* The server changes a resource.
LEMMA ServerStep ==
  ASSUME Rows!LiveAssumption, RowsInv, NEW id \in Ids, Rows!Create(id) \/ Rows!Update(id) \/ Rows!Delete(id)
  PROVE  RowsInv'
<1> USE DEF RowsInv, Shared
<1>1. PICK v \in Nat, e \in Happening: Changes(id, v, e)
  <2>1. clock \in Nat /\ row[id] \in Nat /\ row[id] <= clock + 1 /\ MaxRowChanges \in Nat
        /\ (id \notin born => row[id] = 0)
    BY DEF RowTypes, Rows!LiveAssumption
  <2>2. CASE Rows!Create(id)
    <3> DEFINE e == [type |-> "created", row |-> Rows!Row(id, 1), at |-> clock + 1]
    <3>1. e \in Happening
      BY <2>1, <2>2 DEF Rows!Create, Rows!Change, Happening, Rows!Row, Rows!Versions
    <3>3. Changes(id, 1, e)
      BY <2>1, <2>2, <3>1 DEF Changes, Rows!Create, Rows!Change, Rows!Row, Rows!history
    <3> QED
      BY <2>1, <3>1, <3>3
  <2>3. CASE Rows!Update(id)
    <3> DEFINE e == [type |-> "updated", row |-> Rows!Row(id, row[id] + 1), at |-> clock + 1]
    <3>1. e \in Happening
      BY <2>1, <2>3 DEF Rows!Update, Rows!Change, Happening, Rows!Row, Rows!Versions
    <3>2. row[id] + 1 # 0
      BY <2>1
    <3>3. Changes(id, row[id] + 1, e)
      BY <2>1, <2>3, <3>1, <3>2 DEF Changes, Rows!Update, Rows!Change, Rows!Row, Rows!history
    <3> QED
      BY <2>1, <3>1, <3>3
  <2>4. CASE Rows!Delete(id)
    <3> DEFINE e == [type |-> "deleted", row |-> Rows!Row(id, row[id]), at |-> clock + 1]
    <3>1. e \in Happening
      BY <2>1, <2>4 DEF Rows!Delete, Rows!Change, Happening, Rows!Row, Rows!Versions
    <3>3. Changes(id, 0, e)
      BY <2>1, <2>4, <3>1 DEF Changes, Rows!Delete, Rows!Change, Rows!Row, Rows!history
    <3> QED
      BY <2>1, <3>1, <3>3
  <2> QED
    BY <2>2, <2>3, <2>4
<1> DEFINE type == e.type
<1> USE DEF Changes
<1>2. /\ clock \in Nat /\ MaxRowChanges \in Nat /\ heard \in Nat /\ row[id] \in Nat
      /\ \A i \in Ids: row'[i] = IF i = id THEN v ELSE row[i]
      /\ row' \in [Ids -> Nat] /\ Tracked \in Ids
      /\ \A f \in Coming: f \in Happening /\ f.at \in Nat /\ f.at < e.at /\ f.row.id \in Ids
  <2>1. clock \in Nat /\ MaxRowChanges \in Nat /\ heard \in Nat /\ row \in [Ids -> Nat] /\ Tracked \in Ids
    BY DEF RowTypes, Rows!LiveAssumption
  <2>2. \A f \in Coming: f \in Happening
    BY DEF RowTypes, Coming, RowsOf
  <2>3. \A f \in Coming: f.at \in Nat /\ f.row.id \in Ids
    BY <2>2 DEF Happening
  <2>4. \A f \in Coming: f.at <= clock
    BY DEF ComingRule
  <2>5. \A f \in Coming: f.at < e.at
    BY <1>1, <2>1, <2>3, <2>4
  <2> QED
    BY <1>1, <2>1, <2>2, <2>3, <2>5
<1>3. /\ queue' \in Seq(Happening) /\ Len(queue') = Len(queue) + 1 /\ Len(queue) \in Nat /\ Coming' = Coming \cup {e}
      /\ \A i, j \in DOMAIN queue': i < j => queue'[i].at < queue'[j].at
  BY <1>1, <1>2, SentEvent DEF RowTypes, ComingRule
<1>4. RowTypes'
  <2>1. clock' \in 0..MaxRowChanges /\ heard' \in 0..clock' /\ born' \subseteq Ids
    BY <1>1, <1>2 DEF RowTypes
  <2>2. \A i \in Ids: row'[i] <= clock' + 1 /\ (i \notin born' => row'[i] = 0)
    BY <1>1, <1>2 DEF RowTypes
  <2>3. row'[Tracked] > 0
    BY <1>1, <1>2 DEF RowTypes
  <2>4. UNCHANGED <<asked, answers, props, list, record, fetchTimer, visits, lost, stale, swapped, doubled>>
    BY <1>1
  <2> QED
    BY <1>2, <1>3, <2>1, <2>2, <2>3, <2>4 DEF RowTypes
<1>5. FetchCount'
  <2>1. asked \in Nat /\ visits \in Nat /\ fetchTimer \in BOOLEAN
    BY DEF RowTypes, Rows!LiveAssumption
  <2> QED
    BY <1>1, <1>2, <1>3, <2>1 DEF FetchCount
<1>6. ComingRule'
  <2>1. ASSUME NEW f \in Coming'
        PROVE  /\ heard' < f.at /\ f.at <= clock' /\ f.row.id \in born'
               /\ f.type = "deleted" => row'[f.row.id] = 0
               /\ f.type = "created" => f.row.id # Tracked
    <3>1. CASE f = e
      <4>1. heard <= clock
        BY DEF RowTypes
      <4>2. Tracked \in born
        BY <1>2 DEF RowTypes
      <4> QED
        BY <1>1, <1>2, <3>1, <4>1, <4>2
    <3>2. CASE f \in Coming
      <4>1. heard < f.at /\ f.at <= clock /\ f.row.id \in born /\ (f.type = "deleted" => row[f.row.id] = 0)
            /\ (f.type = "created" => f.row.id # Tracked)
        BY <3>2 DEF ComingRule
      <4>2. f.type = "deleted" => f.row.id # id
        BY <1>1, <4>1
      <4> QED
        BY <1>1, <1>2, <3>2, <4>1, <4>2
    <3> QED
      BY <1>3, <3>1, <3>2
  <2>2. ASSUME NEW f \in Coming', f.type # "deleted", \A g \in Coming': g.row.id = f.row.id => g.at <= f.at
        PROVE  row'[f.row.id] = f.row.v
    <3>1. CASE f = e
      BY <1>1, <1>2, <3>1, <2>2
    <3>2. CASE f \in Coming
      <4>1. f.row.id # id
        BY <1>1, <1>2, <1>3, <2>2, <3>2
      <4>2. row[f.row.id] = f.row.v
        BY <1>3, <2>2, <3>2 DEF ComingRule
      <4> QED
        BY <1>2, <3>2, <4>1, <4>2
    <3> QED
      BY <1>3, <3>1, <3>2
  <2>3. ASSUME NEW f \in Coming', NEW g \in Coming', f.row.id = g.row.id, f.at < g.at
        PROVE  g.type # "created" /\ f.type # "deleted"
    <3>1. f \in Coming
      BY <1>1, <1>2, <1>3, <2>3
    <3>2. CASE g \in Coming
      BY <2>3, <3>1, <3>2 DEF ComingRule
    <3>3. CASE g = e
      <4>1. id \in born /\ (f.type = "deleted" => row[id] = 0)
        BY <1>1, <2>3, <3>1, <3>3 DEF ComingRule
      <4> QED
        BY <1>1, <1>2, <3>3, <4>1
    <3> QED
      BY <1>3, <3>2, <3>3
  <2> QED
    BY <1>3, <2>1, <2>2, <2>3 DEF ComingRule
<1>7. e \in Coming' /\ \A f \in Coming: f \in Coming'
  BY <1>3
<1>8. LateRule'
  <2>1. props'.at <= clock' /\ \A a \in answers': a.at <= clock' /\ a.at < e.at
    <3>1. \A a \in Rows!Snapshots: a.at \in Nat
      BY DEF Rows!Snapshots
    <3> QED
      BY <1>1, <1>2, <3>1 DEF LateRule, RowTypes
  <2>2. ASSUME lost' = 0, NEW a \in answers', heard' <= a.at, NEW i \in Ids
        PROVE  /\ a.rows[i] = row'[i] \/ \E f \in Coming': f.row.id = i /\ a.at < f.at
               /\ row'[i] > 0 /\ a.rows[i] = 0 => \E f \in Coming': f.row.id = i /\ a.at < f.at /\ f.type = "created"
    <3>1. /\ a.rows[i] = row[i] \/ \E f \in Coming: f.row.id = i /\ a.at < f.at
          /\ row[i] > 0 /\ a.rows[i] = 0 => \E f \in Coming: f.row.id = i /\ a.at < f.at /\ f.type = "created"
      BY <1>1, <2>2 DEF LateRule
    <3>2. CASE i # id
      BY <1>2, <1>7, <3>1, <3>2
    <3>3. CASE i = id
      <4>1. e.row.id = i /\ a.at < e.at
        BY <1>1, <2>1, <3>3
      <4>2. CASE type = "created"
        BY <1>1, <1>7, <4>1, <4>2
      <4>3. CASE type = "updated"
        BY <1>1, <1>7, <3>1, <3>3, <4>1, <4>3
      <4>4. CASE type = "deleted"
        BY <1>1, <1>2, <1>7, <3>3, <4>1, <4>4
      <4> QED
        BY <4>2, <4>3, <4>4 DEF Happening
    <3> QED
      BY <3>2, <3>3
  <2> QED
    BY <2>1, <2>2 DEF LateRule
<1>9. ListRule'
  <2> SUFFICES ASSUME lost = 0, ~stale, ~doubled PROVE ListRule'
    BY <1>1 DEF ListRule
  <2>1. RowsOf(list)' = RowsOf(list)
    BY <1>1 DEF RowsOf
  <2>2. ASSUME NEW r \in RowsOf(list) PROVE r.v = row'[r.id] \/ \E f \in Coming': f.row.id = r.id
    <3>1. r.v = row[r.id] \/ \E f \in Coming: f.row.id = r.id
      BY DEF ListRule
    <3>2. r.id \in Ids
      <4>1. r \in OwnRow
        BY RowsAreOf DEF RowTypes
      <4> QED
        BY <4>1 DEF OwnRow, Rows!Own
    <3> QED
      BY <1>1, <1>2, <1>7, <3>1, <3>2
  <2>3. ASSUME NEW i \in Rows!Own, row'[i] > 0
        PROVE  (\E r \in RowsOf(list): r.id = i) \/ \E f \in Coming': f.row.id = i /\ f.type = "created"
    <3>1. i \in Ids
      BY DEF Rows!Own
    <3>2. row[i] > 0 => (\E r \in RowsOf(list): r.id = i) \/ \E f \in Coming: f.row.id = i /\ f.type = "created"
      BY DEF ListRule
    <3>3. CASE i # id
      BY <1>2, <1>7, <2>3, <3>1, <3>2, <3>3
    <3>4. CASE i = id
      BY <1>1, <1>2, <1>7, <2>3, <3>2, <3>4
    <3> QED
      BY <3>3, <3>4
  <2> QED
    BY <2>1, <2>2, <2>3 DEF ListRule
<1>10. RecordRule'
  BY <1>1, <1>2, <1>7 DEF RecordRule
<1>11. TableRule' /\ UniqueRule'
  <2>1. queue' # <<>>
    BY <1>3
  <2> QED
    BY <1>1, <2>1 DEF TableRule, UniqueRule, UniqueIn
<1> QED
  BY <1>4, <1>5, <1>6, <1>8, <1>9, <1>10, <1>11

\* An event leaves; what is still to come tells no less, except about its resource.
LEMMA HeadLeaves ==
  ASSUME Rows!LiveAssumption, Shared, queue # <<>>, queue' = Tail(queue), UNCHANGED <<row, born, clock>>,
         heard' \in Nat, heard' <= Head(queue).at
  PROVE  /\ ComingRule' /\ queue' \in Seq(Happening) /\ Len(queue') = Len(queue) - 1 /\ Len(queue) \in Nat
         /\ Head(queue) \in Coming /\ Head(queue) \in Happening /\ Coming' = Coming \ {Head(queue)}
         /\ Head(queue).at \in Nat /\ heard < Head(queue).at /\ Head(queue).at <= clock
         /\ \A f \in Coming': Head(queue).at < f.at /\ f \in Happening
         /\ Head(queue).type # "deleted" /\ (\A f \in Coming': f.row.id # Head(queue).row.id) =>
              row[Head(queue).row.id] = Head(queue).row.v
<1> DEFINE e == Head(queue)
<1>1. /\ queue' \in Seq(Happening) /\ Len(queue') = Len(queue) - 1 /\ Len(queue) \in Nat
      /\ e \in Coming /\ e \in Happening /\ Coming' = Coming \ {e}
      /\ \A f \in Coming': e.at < f.at
      /\ \A i, j \in DOMAIN queue': i < j => queue'[i].at < queue'[j].at
  BY GoneEvent DEF Shared, RowTypes, ComingRule
<1>2. e.at \in Nat /\ clock \in Nat /\ heard \in Nat /\ \A f \in Coming: f \in Happening /\ f.at \in Nat
  <2>1. \A f \in Happening: f.at \in Nat
    BY DEF Happening
  <2>2. Coming \subseteq Happening
    BY RowsAreOf DEF Coming, Shared, RowTypes
  <2>3. clock \in Nat /\ heard \in Nat
    BY DEF Shared, RowTypes, Rows!LiveAssumption
  <2> QED
    BY <1>1, <2>1, <2>2, <2>3
<1>3. heard < e.at /\ e.at <= clock
  BY <1>1 DEF Shared, ComingRule
<1>4. (\A f \in Coming': f.row.id # e.row.id) => \A f \in Coming: f.row.id = e.row.id => f.at <= e.at
  BY <1>1, <1>2
<1>5. e.type # "deleted" /\ (\A f \in Coming': f.row.id # e.row.id) => row[e.row.id] = e.row.v
  BY <1>1, <1>4 DEF Shared, ComingRule
<1>6. ComingRule'
  <2>1. ASSUME NEW f \in Coming'
        PROVE  /\ heard' < f.at /\ f.at <= clock' /\ f.row.id \in born'
               /\ f.type = "deleted" => row'[f.row.id] = 0
               /\ f.type = "created" => f.row.id # Tracked
    BY <1>1, <1>2 DEF Shared, ComingRule
  <2>2. ASSUME NEW f \in Coming', f.type # "deleted", \A g \in Coming': g.row.id = f.row.id => g.at <= f.at
        PROVE  row'[f.row.id] = f.row.v
    <3>1. e.at <= f.at
      BY <1>1, <1>2
    <3>2. \A g \in Coming: g.row.id = f.row.id => g.at <= f.at
      BY <1>1, <2>2, <3>1
    <3> QED
      BY <1>1, <2>2, <3>2 DEF Shared, ComingRule
  <2>3. ASSUME NEW f \in Coming', NEW g \in Coming', f.row.id = g.row.id, f.at < g.at
        PROVE  g.type # "created" /\ f.type # "deleted"
    BY <1>1, <2>3 DEF Shared, ComingRule
  <2> QED
    BY <1>1, <2>1, <2>2, <2>3 DEF ComingRule
<1> QED
  BY <1>1, <1>2, <1>3, <1>5, <1>6

\* An event is lost.
LEMMA LoseStep == ASSUME Rows!LiveAssumption, RowsInv, Rows!Lose PROVE RowsInv'
<1> USE DEF RowsInv, Shared
<1>1. /\ queue # <<>> /\ queue' = Tail(queue) /\ lost < MaxLost /\ lost' = lost + 1
      /\ UNCHANGED <<row, born, clock, asked, answers, props, list, record, fetchTimer, visits, heard, stale,
         swapped, doubled>>
  BY DEF Rows!Lose, Rows!remote, Rows!history
<1>2. clock \in Nat /\ heard \in Nat /\ lost \in Nat /\ MaxLost \in Nat /\ asked \in Nat /\ visits \in Nat
      /\ fetchTimer \in BOOLEAN
  BY DEF RowTypes, Rows!LiveAssumption
<1>3. lost' # 0 /\ lost' \in 0..MaxLost
  BY <1>1, <1>2
<1>4. heard' \in Nat /\ heard' <= Head(queue).at
  <2>1. Coming \subseteq Happening /\ Head(queue) \in Coming
    BY <1>1, RowsAreOf, GoneEvent DEF Coming, RowTypes, ComingRule
  <2>2. heard < Head(queue).at /\ Head(queue).at \in Nat
    BY <2>1 DEF ComingRule, Happening
  <2> QED
    BY <1>1, <1>2, <2>2
<1>5. /\ ComingRule' /\ queue' \in Seq(Happening) /\ Len(queue') = Len(queue) - 1 /\ Len(queue) \in Nat
  BY <1>1, <1>4, HeadLeaves
<1>6. RowTypes'
  BY <1>1, <1>3, <1>5 DEF RowTypes
<1>7. FetchCount'
  BY <1>1, <1>2, <1>5 DEF FetchCount
<1>8. LateRule' /\ ListRule' /\ RecordRule' /\ TableRule'
  BY <1>1, <1>3 DEF LateRule, ListRule, RecordRule, TableRule
<1>9. UniqueRule'
  BY <1>1 DEF UniqueRule, UniqueIn
<1> QED
  BY <1>5, <1>6, <1>7, <1>8, <1>9

\* What the server and the browser do without an event or an answer that arrives.
LEMMA AskStep == ASSUME Rows!LiveAssumption, RowsInv, Rows!Serve \/ Rows!Reload \/ Rows!Visit PROVE RowsInv'
<1> USE DEF RowsInv, Shared
<1>1. /\ UNCHANGED <<row, born, clock, queue, props, list, record, lost, heard, stale, swapped, doubled>>
      /\ Coming' = Coming /\ RowsOf(list)' = RowsOf(list)
  BY DEF Rows!Serve, Rows!Reload, Rows!Visit, Rows!remote, Rows!history, Coming, RowsOf
<1>2. clock \in Nat /\ asked \in Nat /\ visits \in Nat /\ fetchTimer \in BOOLEAN /\ Len(queue) \in Nat
      /\ MaxVisits \in Nat
  BY DEF RowTypes, Rows!LiveAssumption
<1>3. Rows!Snapshot \in Rows!Snapshots /\ Rows!Snapshot.at = clock /\ Rows!Snapshot.rows = row
  <2>1. row \in [Ids -> Rows!Versions] /\ clock \in 0..MaxRowChanges
    BY <1>2 DEF RowTypes, Rows!Versions, Rows!LiveAssumption
  <2> QED
    BY <2>1 DEF Rows!Snapshot, Rows!Snapshots
<1>4. RowTypes' /\ FetchCount' /\ (TableRule' \/ ~(lost = 0 /\ ~swapped))
  <2>1. CASE Rows!Serve
    <3>1. asked > 0 /\ asked' = asked - 1 /\ answers' = answers \cup {Rows!Snapshot}
          /\ UNCHANGED <<fetchTimer, visits>>
      BY <2>1 DEF Rows!Serve
    <3>2. RowTypes'
      BY <1>1, <1>2, <1>3, <3>1 DEF RowTypes
    <3>3. FetchCount' /\ TableRule'
      BY <1>1, <1>2, <1>3, <3>1 DEF FetchCount, TableRule
    <3> QED
      BY <3>2, <3>3
  <2>2. CASE Rows!Reload
    <3>1. fetchTimer /\ asked' = asked + 1 /\ UNCHANGED <<answers, visits>>
      BY <2>2 DEF Rows!Reload
    <3>5. fetchTimer' = FALSE
      BY <2>2, Zenon DEF Rows!Reload
    <3>6. fetchTimer' \in BOOLEAN
      BY <3>5, Zenon
    <3>7. asked' \in Nat /\ visits' = visits /\ answers' = answers
      BY <1>2, <3>1
    <3>2. RowTypes'
      BY <1>1, <3>6, <3>7 DEF RowTypes
    <3>3. FetchCount'
      <4>1. asked + 1 + Len(queue) <= visits + clock
        BY <1>2, <3>1 DEF FetchCount
      <4>2. ~fetchTimer' /\ queue' = queue /\ clock' = clock
        BY <1>1, <3>5
      <4> QED
        BY <1>2, <3>1, <4>1, <4>2 DEF FetchCount
    <3>4. TableRule'
      BY <1>1, <1>2, <3>1 DEF TableRule
    <3> QED
      BY <3>2, <3>3, <3>4
  <2>3. CASE Rows!Visit
    <3>1. visits < MaxVisits /\ visits' = visits + 1 /\ asked' = asked + 1 /\ UNCHANGED <<answers, fetchTimer>>
      BY <2>3 DEF Rows!Visit
    <3>2. RowTypes' /\ FetchCount' /\ TableRule'
      BY <1>1, <1>2, <3>1 DEF RowTypes, FetchCount, TableRule
    <3> QED
      BY <3>2
  <2> QED
    BY <2>1, <2>2, <2>3
<1>5. \A a \in answers': a \in answers \/ a = Rows!Snapshot
  BY DEF Rows!Serve, Rows!Reload, Rows!Visit
<1>6. LateRule'
  BY <1>1, <1>2, <1>3, <1>5 DEF LateRule
<1>7. ComingRule' /\ ListRule' /\ RecordRule' /\ UniqueRule'
  BY <1>1 DEF ComingRule, ListRule, RecordRule, UniqueRule, UniqueIn
<1>8. TableRule'
  BY <1>1, <1>4 DEF TableRule
<1> QED
  BY <1>4, <1>6, <1>7, <1>8

\* An event is heard.
LEMMA DeliverStep == ASSUME Rows!LiveAssumption, RowsInv, Rows!Deliver PROVE RowsInv'
<1> USE DEF RowsInv, Shared
<1> DEFINE e == Head(queue)
<1>1. /\ queue # <<>> /\ queue' = Tail(queue) /\ list' = Rows!Applied(e) /\ record' = Rows!Recorded(e)
      /\ heard' = e.at
      /\ doubled' = (doubled \/ (e.type = "created" /\ Rows!Listed(e.row.id)))
      /\ fetchTimer' = (fetchTimer \/ Rows!Arms)
      /\ UNCHANGED <<row, born, clock, asked, answers, props, visits, lost, stale, swapped>>
  BY DEF Rows!Deliver, Rows!remote
<1>2. e \in Happening /\ e.at \in Nat
  <2>1. e \in Happening
    BY <1>1, GoneEvent DEF RowTypes, ComingRule
  <2> QED
    BY <2>1 DEF Happening
<1>3. /\ ComingRule' /\ queue' \in Seq(Happening) /\ Len(queue') = Len(queue) - 1 /\ Len(queue) \in Nat
      /\ e \in Coming /\ Coming' = Coming \ {e} /\ heard < e.at /\ e.at <= clock
      /\ \A f \in Coming': e.at < f.at /\ f \in Happening
      /\ e.type # "deleted" /\ (\A f \in Coming': f.row.id # e.row.id) => row[e.row.id] = e.row.v
  BY <1>1, <1>2, HeadLeaves
<1>4. /\ clock \in Nat /\ heard \in Nat /\ asked \in Nat /\ visits \in Nat /\ fetchTimer \in BOOLEAN
      /\ doubled \in BOOLEAN
      /\ list \in Seq(OwnRow)
  BY DEF RowTypes, Rows!LiveAssumption
<1>5. fetchTimer' = TRUE
  BY <1>1, <1>4 DEF Rows!Arms
<1>6. doubled' \in BOOLEAN /\ (~doubled' => ~doubled /\ ~(e.type = "created" /\ Rows!Listed(e.row.id)))
  BY <1>1, Zenon
<1>7. e.type \in {"created", "updated", "deleted"} /\ e.row.id \in Ids /\ e.row.v \in Rows!Versions
  BY <1>2 DEF Happening
<1>8. list' \in Seq(OwnRow) /\ UniqueRule'
  <2>1. CASE e.type = "created"
    BY <1>1, <1>2, <1>4, <1>6, <2>1, AppliedCreated DEF UniqueRule, UniqueIn
  <2>2. CASE e.type = "updated"
    BY <1>1, <1>2, <1>4, <1>6, <2>2, AppliedUpdated DEF UniqueRule, UniqueIn
  <2>3. CASE e.type = "deleted"
    BY <1>1, <1>2, <1>4, <1>6, <2>3, AppliedDeleted DEF UniqueRule, UniqueIn
  <2> QED
    BY <1>7, <2>1, <2>2, <2>3
<1>9. RowTypes'
  <2>1. record' \in Rows!Versions
    BY <1>1, <1>7 DEF Rows!Recorded, RowTypes
  <2>2. heard' \in 0..clock'
    BY <1>1, <1>2, <1>3, <1>4
  <2> QED
    BY <1>1, <1>3, <1>5, <1>6, <1>8, <2>1, <2>2 DEF RowTypes
<1>10. FetchCount'
  BY <1>1, <1>3, <1>4, <1>5 DEF FetchCount
<1>11. LateRule'
  <2>1. ASSUME lost = 0, NEW a \in answers, e.at <= a.at, NEW i \in Ids
        PROVE  /\ a.rows[i] = row[i] \/ \E f \in Coming': f.row.id = i /\ a.at < f.at
               /\ row[i] > 0 /\ a.rows[i] = 0 => \E f \in Coming': f.row.id = i /\ a.at < f.at /\ f.type = "created"
    <3>1. a.at \in Nat
      BY DEF RowTypes, Rows!Snapshots
    <3>2. heard <= a.at /\ ~(a.at < e.at)
      BY <1>2, <1>3, <1>4, <2>1, <3>1
    <3>3. /\ a.rows[i] = row[i] \/ \E f \in Coming: f.row.id = i /\ a.at < f.at
          /\ row[i] > 0 /\ a.rows[i] = 0 => \E f \in Coming: f.row.id = i /\ a.at < f.at /\ f.type = "created"
      BY <2>1, <3>2 DEF LateRule
    <3> QED
      BY <1>3, <3>2, <3>3
  <2> QED
    BY <1>1, <2>1 DEF LateRule
<1>12. ListRule'
  <2> SUFFICES ASSUME lost = 0, ~stale, ~doubled' PROVE ListRule'
    BY <1>1 DEF ListRule
  <2>1. /\ \A r \in RowsOf(list): r.v = row[r.id] \/ \E f \in Coming: f.row.id = r.id
        /\ \A i \in Rows!Own: row[i] > 0 =>
             (\E r \in RowsOf(list): r.id = i) \/ \E f \in Coming: f.row.id = i /\ f.type = "created"
    BY <1>6 DEF ListRule
  <2>2. RowsOf(list)' = RowsOf(list')
    BY DEF RowsOf
  <2>3. \A f \in Coming: f.row.id # e.row.id => f \in Coming'
    BY <1>3
  <2>4. \A r \in RowsOf(list): r.id # e.row.id => r.v = row[r.id] \/ \E f \in Coming': f.row.id = r.id
    BY <2>1, <2>3
  <2>5. CASE e.type = "created"
    <3>1. RowsOf(list') = RowsOf(list) \cup (IF e.row.id \in Rows!Own THEN {e.row} ELSE {})
      BY <1>1, <1>2, <1>4, <2>5, AppliedCreated
    <3>2. \A r \in RowsOf(list): r.id # e.row.id
      BY <1>6, <2>5 DEF Rows!Listed, RowsOf
    <3>3. ASSUME NEW r \in RowsOf(list') PROVE r.v = row[r.id] \/ \E f \in Coming': f.row.id = r.id
      BY <1>3, <2>4, <2>5, <3>1, <3>2
    <3>4. ASSUME NEW i \in Rows!Own, row[i] > 0
          PROVE  (\E r \in RowsOf(list'): r.id = i) \/ \E f \in Coming': f.row.id = i /\ f.type = "created"
      BY <2>1, <2>3, <3>1, <3>4
    <3> QED
      BY <1>1, <2>2, <3>3, <3>4 DEF ListRule
  <2>6. CASE e.type = "updated"
    <3>1. RowsOf(list') = {IF r.id = e.row.id THEN e.row ELSE r: r \in RowsOf(list)}
      BY <1>1, <1>2, <1>4, <2>6, AppliedUpdated
    <3>2. \A f \in Coming: f.type = "created" => f \in Coming'
      BY <1>3, <2>6
    <3>3. ASSUME NEW r \in RowsOf(list') PROVE r.v = row[r.id] \/ \E f \in Coming': f.row.id = r.id
      <4>1. r = e.row \/ (r \in RowsOf(list) /\ r.id # e.row.id)
        BY <3>1
      <4> QED
        BY <1>3, <2>4, <2>6, <4>1
    <3>4. ASSUME NEW i \in Rows!Own, row[i] > 0
          PROVE  (\E r \in RowsOf(list'): r.id = i) \/ \E f \in Coming': f.row.id = i /\ f.type = "created"
      <4>1. ASSUME NEW r \in RowsOf(list) PROVE \E t \in RowsOf(list'): t.id = r.id
        BY <3>1
      <4> QED
        BY <2>1, <3>2, <3>4, <4>1
    <3> QED
      BY <1>1, <2>2, <3>3, <3>4 DEF ListRule
  <2>7. CASE e.type = "deleted"
    <3>1. RowsOf(list') = {r \in RowsOf(list): r.id # e.row.id}
      BY <1>1, <1>2, <1>4, <2>7, AppliedDeleted
    <3>2. row[e.row.id] = 0 /\ \A f \in Coming: f.type = "created" => f \in Coming'
      BY <1>3, <2>7 DEF ComingRule
    <3>3. ASSUME NEW r \in RowsOf(list') PROVE r.v = row[r.id] \/ \E f \in Coming': f.row.id = r.id
      BY <2>4, <3>1
    <3>4. ASSUME NEW i \in Rows!Own, row[i] > 0
          PROVE  (\E r \in RowsOf(list'): r.id = i) \/ \E f \in Coming': f.row.id = i /\ f.type = "created"
      <4>1. i # e.row.id
        BY <3>2, <3>4
      <4> QED
        BY <2>1, <3>1, <3>2, <3>4, <4>1
    <3> QED
      BY <1>1, <2>2, <3>3, <3>4 DEF ListRule
  <2> QED
    BY <1>7, <2>5, <2>6, <2>7
<1>13. RecordRule'
  <2> SUFFICES ASSUME lost = 0, ~stale, \A f \in Coming': f.row.id # Tracked PROVE record' = row[Tracked]
    BY <1>1 DEF RecordRule
  <2>1. CASE e.row.id = Tracked
    <3>1. e.type # "created" /\ (e.type = "deleted" => row[Tracked] = 0) /\ row[Tracked] > 0
      BY <1>3, <2>1 DEF ComingRule, RowTypes
    <3>2. e.type = "updated"
      BY <1>7, <3>1
    <3> QED
      BY <1>1, <1>3, <2>1, <3>2 DEF Rows!Recorded
  <2>2. CASE e.row.id # Tracked
    <3>1. record = row[Tracked]
      BY <1>3, <2>2 DEF RecordRule
    <3> QED
      BY <1>1, <2>2, <3>1 DEF Rows!Recorded
  <2> QED
    BY <2>1, <2>2
<1>14. TableRule'
  BY <1>5 DEF TableRule
<1> QED
  BY <1>3, <1>8, <1>9, <1>10, <1>11, <1>12, <1>13, <1>14

\* An answer is shown.
LEMMA ArriveStep == ASSUME Rows!LiveAssumption, RowsInv, NEW a \in answers, Rows!Arrive(a) PROVE RowsInv'
<1> USE DEF RowsInv, Shared
<1>1. /\ answers' = answers \ {a} /\ props' = a /\ list' = Rows!Page(a) /\ record' = a.rows[Tracked]
      /\ stale' = (stale \/ a.at < heard) /\ swapped' = (swapped \/ a.at < props.at)
      /\ UNCHANGED <<row, born, clock, queue, asked, fetchTimer, visits, lost, heard, doubled>>
      /\ Coming' = Coming /\ RowsOf(list)' = RowsOf(list')
  BY DEF Rows!Arrive, Rows!remote, Coming, RowsOf
<1>2. /\ a \in Rows!Snapshots /\ a.at \in Nat /\ a.rows \in [Ids -> Rows!Versions] /\ a.at <= clock
      /\ props.at \in Nat
      /\ heard \in Nat /\ clock \in Nat /\ Tracked \in Ids /\ a.rows \in [Ids -> Nat]
  <2>1. a \in Rows!Snapshots /\ props \in Rows!Snapshots /\ Tracked \in Ids /\ MaxRowChanges \in Nat
    BY DEF RowTypes, Rows!LiveAssumption
  <2>2. heard \in Nat /\ clock \in Nat /\ a.at <= clock
    BY <2>1 DEF RowTypes, LateRule
  <2> QED
    BY <2>1, <2>2 DEF Rows!Snapshots, Rows!Versions
<1>3. /\ list' \in Seq(OwnRow) /\ UniqueIn(list')
      /\ RowsOf(list') = {Rows!Row(id, a.rows[id]): id \in {i \in Rows!Own: a.rows[i] > 0}}
  BY <1>1, <1>2, PageRows
<1>4. /\ stale' \in BOOLEAN /\ swapped' \in BOOLEAN /\ (~stale' => ~stale /\ heard <= a.at)
      /\ (~swapped' => ~swapped /\ props.at <= a.at)
  <2>1. /\ stale' \in BOOLEAN /\ swapped' \in BOOLEAN /\ (~stale' => ~stale /\ ~(a.at < heard))
        /\ (~swapped' => ~swapped /\ ~(a.at < props.at))
    BY <1>1, Zenon
  <2> QED
    BY <1>2, <2>1
<1>5. RowTypes'
  BY <1>1, <1>2, <1>3, <1>4 DEF RowTypes
<1>6. FetchCount' /\ ComingRule' /\ LateRule'
  BY <1>1, <1>2 DEF FetchCount, ComingRule, LateRule
<1>7. ASSUME lost = 0, ~stale', NEW i \in Ids
      PROVE  /\ a.rows[i] = row[i] \/ \E f \in Coming: f.row.id = i
             /\ row[i] > 0 /\ a.rows[i] = 0 => \E f \in Coming: f.row.id = i /\ f.type = "created"
  BY <1>4, <1>7 DEF LateRule
<1>8. ListRule'
  <2> SUFFICES ASSUME lost = 0, ~stale' PROVE ListRule'
    BY <1>1 DEF ListRule
  <2>1. ASSUME NEW r \in RowsOf(list') PROVE r.v = row[r.id] \/ \E f \in Coming: f.row.id = r.id
    <3>1. PICK i \in Rows!Own: r.id = i /\ r.v = a.rows[i]
      BY <1>3 DEF Rows!Row
    <3> QED
      BY <1>7, <3>1 DEF Rows!Own
  <2>2. ASSUME NEW i \in Rows!Own, row[i] > 0
        PROVE  (\E r \in RowsOf(list'): r.id = i) \/ \E f \in Coming: f.row.id = i /\ f.type = "created"
    <3>1. i \in Ids /\ a.rows[i] \in Nat
      BY <1>2 DEF Rows!Own
    <3>2. CASE a.rows[i] = 0
      BY <1>7, <2>2, <3>1, <3>2
    <3>3. CASE a.rows[i] > 0
      <4>1. Rows!Row(i, a.rows[i]) \in RowsOf(list') /\ Rows!Row(i, a.rows[i]).id = i
        BY <1>3, <3>3 DEF Rows!Row
      <4> QED
        BY <4>1
    <3> QED
      BY <3>1, <3>2, <3>3
  <2> QED
    BY <1>1, <2>1, <2>2 DEF ListRule
<1>9. RecordRule'
  BY <1>1, <1>2, <1>7 DEF RecordRule
<1>10. TableRule'
  <2>1. ASSUME lost = 0, ~swapped', ~fetchTimer, queue = <<>>, asked = 0, a.at # clock
        PROVE \E b \in answers \ {a}: b.at = clock
    <3>1. props.at # clock /\ ~swapped
      BY <1>2, <1>4, <2>1 DEF LateRule
    <3>2. \E b \in answers: b.at = clock
      BY <2>1, <3>1 DEF TableRule
    <3> QED
      BY <2>1, <3>2
  <2>2. (fetchTimer' <=> fetchTimer) /\ queue' = queue /\ asked' = asked /\ lost' = lost
    BY <1>1
  <2>3. answers' = answers \ {a} /\ props'.at = a.at /\ clock' = clock /\ asked \in Nat
    BY <1>1 DEF RowTypes
  <2>4. lost' = 0 /\ ~swapped' =>
          fetchTimer' \/ queue' # <<>> \/ asked' > 0 \/ props'.at = clock' \/ \E b \in answers': b.at = clock'
    <3> SUFFICES ASSUME lost' = 0, ~swapped', ~fetchTimer', queue' = <<>>, ~(asked' > 0), props'.at # clock'
          PROVE \E b \in answers': b.at = clock'
      OBVIOUS
    <3>1. asked = 0 /\ a.at # clock /\ lost = 0 /\ queue = <<>>
      BY <2>2, <2>3
    <3>2. ~fetchTimer
      BY <2>2
    <3> QED
      BY <2>1, <2>3, <3>1, <3>2
  <2> QED
    BY <2>4 DEF TableRule
<1>11. UniqueRule'
  BY <1>3 DEF UniqueRule, UniqueIn
<1> QED
  BY <1>5, <1>6, <1>8, <1>9, <1>10, <1>11

LEMMA RowsInvariant == ASSUME Rows!LiveAssumption PROVE Rows!Spec => []RowsInv
<1>1. ASSUME RowsInv, [Rows!Next]_(Rows!vars) PROVE RowsInv'
  <2>1. CASE \E id \in Ids: Rows!Create(id) \/ Rows!Update(id) \/ Rows!Delete(id)
    BY <1>1, <2>1, ServerStep
  <2>2. CASE Rows!Serve \/ Rows!Reload \/ Rows!Visit
    BY <1>1, <2>2, AskStep
  <2>3. CASE Rows!Deliver
    BY <1>1, <2>3, DeliverStep
  <2>4. CASE Rows!Lose
    BY <1>1, <2>4, LoseStep
  <2>5. CASE \E a \in answers: Rows!Arrive(a)
    BY <1>1, <2>5, ArriveStep
  <2>6. CASE UNCHANGED Rows!vars
    BY <1>1, <2>6
       DEF Rows!vars, Rows!remote, Rows!history, RowsInv, Shared, RowTypes, FetchCount, ComingRule, LateRule,
           ListRule, RecordRule, TableRule, UniqueRule, Coming, RowsOf, UniqueIn
  <2> QED
    BY <1>1, <2>1, <2>2, <2>3, <2>4, <2>5, <2>6 DEF Rows!Next
<1>2. Rows!Init => RowsInv
  BY RowsInit
<1> QED
  BY <1>1, <1>2, PTL DEF Rows!Spec

\* Once nothing is on its way the list, the record and the table show what the server has, when no event was lost
\* and no answer overtaken; foreign rows never enter the list, and a row is on it once.
THEOREM RowsFollow ==
  ASSUME Rows!LiveAssumption
  PROVE  Rows!Spec => [](/\ Rows!TypeOK /\ Rows!ForeignRowsStayOut /\ Rows!RowsAreUnique
                         /\ Rows!ListFollows /\ Rows!RecordFollows /\ Rows!TableFollows)
<1> SUFFICES ASSUME RowsInv
             PROVE  /\ Rows!TypeOK /\ Rows!ForeignRowsStayOut /\ Rows!RowsAreUnique
                    /\ Rows!ListFollows /\ Rows!RecordFollows /\ Rows!TableFollows
  BY RowsInvariant, PTL
<1> USE DEF RowsInv, Shared
<1>1. Rows!TypeOK
  <2>1. MaxRowChanges \in Nat /\ MaxVisits \in Nat /\ MaxLost \in Nat /\ clock \in Nat
        /\ clock <= MaxRowChanges /\ visits \in Nat
        /\ visits <= MaxVisits /\ Len(queue) \in Nat /\ asked \in Nat /\ fetchTimer \in BOOLEAN
    BY DEF RowTypes, Rows!LiveAssumption
  <2>2. asked \in 0..MaxVisits + MaxRowChanges
    BY <2>1 DEF FetchCount
  <2>3. row \in [Ids -> Rows!Versions] /\ heard \in 0..MaxRowChanges
    BY <2>1 DEF RowTypes, Rows!Versions
  <2>4. list \in Seq([id: Ids, v: Rows!Versions \ {0}])
    <3>1. OwnRow \subseteq [id: Ids, v: Rows!Versions \ {0}] /\ list \in Seq(OwnRow)
      BY DEF OwnRow, Rows!Own, RowTypes
    <3> QED
      BY <3>1, SeqMonotonic
  <2>5. queue \in Seq([type: {"created", "updated", "deleted"}, row: [id: Ids, v: Rows!Versions],
             at: 1..MaxRowChanges])
    <3> DEFINE T == [type: {"created", "updated", "deleted"}, row: [id: Ids, v: Rows!Versions], at: 1..MaxRowChanges]
    <3>1. Happening \subseteq T /\ queue \in Seq(Happening)
      BY DEF Happening, RowTypes
    <3> HIDE DEF T
    <3>2. queue \in Seq(T)
      BY <3>1, SeqMonotonic
    <3> QED
      BY <3>2 DEF T
  <2> QED
    BY <2>2, <2>3, <2>4, <2>5 DEF RowTypes, Rows!TypeOK
<1>2. Rows!ForeignRowsStayOut
  <2>1. \A i \in DOMAIN list: list[i] \in OwnRow
    BY ElementOfSeq DEF RowTypes
  <2> QED
    BY <2>1 DEF Rows!ForeignRowsStayOut, OwnRow
<1>3. Rows!RowsAreUnique
  BY DEF Rows!RowsAreUnique, UniqueRule, UniqueIn
<1>4. Rows!Quiet => Coming = {}
  BY DEF Rows!Quiet, Coming, RowsOf
<1>5. Rows!ListFollows
  <2> SUFFICES ASSUME Rows!Quiet, lost = 0, ~stale, ~doubled PROVE RowsOf(list) = RowsOf(Rows!Page(Rows!Snapshot))
    BY DEF Rows!ListFollows, Rows!Complete, Rows!ToSet, RowsOf
  <2>1. Rows!Snapshot \in Rows!Snapshots /\ Rows!Snapshot.rows = row
    BY <1>1 DEF Rows!TypeOK, Rows!Snapshot, Rows!Snapshots
  <2>2. RowsOf(Rows!Page(Rows!Snapshot)) = {Rows!Row(id, row[id]): id \in {i \in Rows!Own: row[i] > 0}}
    BY <2>1, PageRows
  <2>3. /\ \A r \in RowsOf(list): r.v = row[r.id]
        /\ \A id \in Rows!Own: row[id] > 0 => \E r \in RowsOf(list): r.id = id
    BY <1>4 DEF ListRule
  <2>4. RowsOf(list) \subseteq OwnRow
    BY RowsAreOf DEF RowTypes
  <2>5. ASSUME NEW r \in RowsOf(list) PROVE r \in {Rows!Row(id, row[id]): id \in {i \in Rows!Own: row[i] > 0}}
    <3>1. r = Rows!Row(r.id, row[r.id]) /\ r.id \in Rows!Own /\ row[r.id] \in Rows!Versions \ {0}
      BY <2>3, <2>4 DEF OwnRow, Rows!Row
    <3>2. row[r.id] > 0
      BY <3>1 DEF RowTypes, Rows!Own
    <3> QED
      BY <3>1, <3>2
  <2>6. ASSUME NEW id \in Rows!Own, row[id] > 0 PROVE Rows!Row(id, row[id]) \in RowsOf(list)
    <3>1. PICK r \in RowsOf(list): r.id = id
      BY <2>3, <2>6
    <3>2. r = Rows!Row(id, row[id])
      BY <2>3, <2>4, <3>1 DEF OwnRow, Rows!Row
    <3> QED
      BY <3>2
  <2> QED
    BY <2>2, <2>5, <2>6
<1>6. Rows!RecordFollows
  BY <1>4 DEF Rows!RecordFollows, Rows!Complete, RecordRule
<1>7. Rows!TableFollows
  BY DEF Rows!TableFollows, Rows!Quiet, TableRule
<1> QED
  BY <1>1, <1>2, <1>3, <1>5, <1>6, <1>7
-----------------------------------------------------------------------------
(* The viewer of a log and the sheet of logs. *)

\* The chunks that came already; those that are to come follow them one by one.
Heard == written - Len(chunks)
QueueRule == Heard \in Nat /\ \A i \in DOMAIN chunks: chunks[i] = Heard + i
\* Before the answer is shown the viewer has what came since it was opened.
AnswerRule ==
  /\ fetched \in 0..written \cup {Log!Error, Log!NoAnswer}
  /\ viewing = "loading" /\ fetched \in 0..written /\ Heard > fetched => \E i \in DOMAIN content: content[i] = Heard
  /\ viewing = "loaded" => fetched \in 0..written
\* What was not repeated is in order, and new to what is to come.
OrderRule ==
  ~repeated =>
    /\ \A i, j \in DOMAIN content: i < j => content[i] < content[j]
    /\ viewing \in {"loading", "failed"} => \A i \in DOMAIN content: content[i] <= Heard
    /\ viewing = "loaded" => \A i \in DOMAIN content: content[i] <= Heard \/ content[i] <= fetched
\* The answer and what came after it make the log as far as it is known.
WholeRule ==
  viewing = "loaded" /\ ~outran /\ ~repeated =>
    \/ Heard <= fetched /\ content = Log!Upto(fetched)
    \/ Heard >= fetched /\ content = Log!Upto(Heard)
ViewerTypes ==
  /\ written \in 0..MaxChunks /\ chunks \in Seq(1..MaxChunks) /\ opened \in 0..MaxOpens
  /\ viewing \in {"closed", "loading", "loaded", "failed"} /\ content \in Seq(1..MaxChunks)
  /\ outran \in BOOLEAN /\ repeated \in BOOLEAN
ViewerInv == ViewerTypes /\ QueueRule /\ AnswerRule /\ OrderRule /\ WholeRule

\* Pages are listed in order, and the one that is asked for comes after them, or replaces them.
PageRule ==
  ~again =>
    /\ \A p, r \in loads: p = r
    /\ \A i, j \in DOMAIN logs: i < j => logs[i] < logs[j]
    /\ \A r \in loads: r.page = 1 \/ \A i \in DOMAIN logs: logs[i] < r.page
    /\ loads = {} => \A i \in DOMAIN logs: logs[i] <= page
\* Every page was asked for by a request of its own.
FetchRule ==
  /\ page \in 1..fetches + 1 /\ fetches \in 0..MaxFetches /\ logs \in Seq(1..Pages)
  /\ loads \subseteq [page: 1..fetches + 1, n: 1..fetches] /\ sheet \in BOOLEAN /\ again \in BOOLEAN
ListerInv == PageRule /\ FetchRule

\* What one more element at the end, one fewer at the front, and another sequence behind a sequence give.
LEMMA Appending ==
  ASSUME NEW S, NEW s \in Seq(S), NEW e \in S
  PROVE  /\ Append(s, e) \in Seq(S) /\ Len(s) \in Nat /\ Len(Append(s, e)) = Len(s) + 1
         /\ DOMAIN s = 1..Len(s) /\ DOMAIN Append(s, e) = 1..Len(s) + 1
         /\ Append(s, e)[Len(s) + 1] = e /\ \A i \in 1..Len(s): Append(s, e)[i] = s[i] /\ s[i] \in S
OBVIOUS
LEMMA Elements ==
  ASSUME NEW S, NEW s \in Seq(S)
  PROVE  Len(s) \in Nat /\ DOMAIN s = 1..Len(s) /\ \A i \in DOMAIN s: s[i] \in S
OBVIOUS
LEMMA Behead ==
  ASSUME NEW S, NEW s \in Seq(S), s # <<>>
  PROVE  /\ Tail(s) \in Seq(S) /\ Len(s) \in Nat /\ Len(s) > 0 /\ Len(Tail(s)) = Len(s) - 1
         /\ DOMAIN s = 1..Len(s) /\ DOMAIN Tail(s) = 1..Len(s) - 1 /\ Head(s) = s[1] /\ Head(s) \in S
         /\ \A i \in 1..Len(s) - 1: Tail(s)[i] = s[i + 1]
OBVIOUS

LEMMA LogStart == ASSUME Log!LogAssumption, Log!Init PROVE ViewerInv /\ ListerInv
<1>1. ViewerInv
  <2>1. /\ written = 0 /\ chunks = <<>> /\ opened = 0 /\ viewing = "closed" /\ fetched = Log!NoAnswer
        /\ content = <<>>
        /\ outran = FALSE /\ repeated = FALSE /\ Len(chunks) = 0 /\ DOMAIN chunks = {} /\ DOMAIN content = {}
        /\ chunks \in Seq(1..MaxChunks) /\ content \in Seq(1..MaxChunks) /\ 0 \in 0..MaxChunks /\ 0 \in 0..MaxOpens
    BY DEF Log!LogAssumption, Log!Init
  <2>2. ViewerTypes
    BY <2>1 DEF ViewerTypes
  <2>6. Heard = 0
    <3>1. written = 0 /\ Len(chunks) = 0
      BY <2>1
    <3> QED
      BY <3>1 DEF Heard
  <2>3. QueueRule
    <3>1. DOMAIN chunks = {} /\ Heard \in Nat
      BY <2>1, <2>6
    <3> QED
      BY <3>1 DEF QueueRule
  <2>4. AnswerRule
    BY <2>1 DEF AnswerRule
  <2>5. OrderRule /\ WholeRule
    BY <2>1 DEF OrderRule, WholeRule
  <2> QED
    BY <2>2, <2>3, <2>4, <2>5 DEF ViewerInv
<1>2. ListerInv
  <2>1. /\ sheet = FALSE /\ page = 1 /\ logs = <<>> /\ loads = {} /\ fetches = 0 /\ again = FALSE
        /\ DOMAIN logs = {} /\ logs \in Seq(1..Pages) /\ MaxFetches \in Nat
    BY DEF Log!LogAssumption, Log!Init
  <2>2. PageRule
    BY <2>1 DEF PageRule
  <2>3. page \in 1..fetches + 1 /\ fetches \in 0..MaxFetches
    BY <2>1
  <2> QED
    BY <2>1, <2>2, <2>3 DEF ListerInv, FetchRule
<1> QED
  BY <1>1, <1>2

\* The numbers that stand for an error and for no answer are no chunk.
LEMMA NoChunks ==
  ASSUME Log!LogAssumption
  PROVE  Log!Error \notin 0..MaxChunks /\ Log!NoAnswer \notin 0..MaxChunks /\ Log!Error # Log!NoAnswer
BY DEF Log!LogAssumption, Log!Error, Log!NoAnswer

LEMMA ViewerStep ==
  ASSUME Log!LogAssumption, ViewerInv, [Log!Next]_(Log!vars) PROVE ViewerInv'
<1> USE DEF ViewerInv
<1>0. /\ written \in 0..MaxChunks /\ MaxChunks \in Nat /\ Len(chunks) \in Nat /\ Heard \in Nat
      /\ Heard + Len(chunks) = written /\ Heard <= written /\ MaxOpens \in Nat
  BY DEF ViewerTypes, QueueRule, Heard, Log!LogAssumption
<1>1. CASE Log!Write
  <2>1. written' = written + 1 /\ written' \in 0..MaxChunks /\ chunks' = Append(chunks, written + 1)
        /\ Len(chunks') = Len(chunks) + 1 /\ chunks' \in Seq(1..MaxChunks) /\ Heard' = Heard
        /\ UNCHANGED <<opened, viewing, fetched, content, outran, repeated>>
    <3>1. written' = written + 1 /\ chunks' = Append(chunks, written + 1) /\ written + 1 \in 1..MaxChunks
          /\ UNCHANGED <<opened, viewing, fetched, content, outran, repeated>>
      BY <1>0, <1>1 DEF Log!Write
    <3> QED
      BY <1>0, <3>1, Appending DEF ViewerTypes, Heard
  <2>2. QueueRule'
    <3>1. /\ DOMAIN chunks = 1..Len(chunks) /\ DOMAIN chunks' = 1..Len(chunks) + 1
          /\ chunks'[Len(chunks) + 1] = written + 1 /\ \A i \in 1..Len(chunks): chunks'[i] = chunks[i]
      BY <1>0, <1>1, <2>1, Appending DEF ViewerTypes, Log!Write
    <3>2. \A i \in 1..Len(chunks) + 1: i \in 1..Len(chunks) \/ i = Len(chunks) + 1
      BY <1>0
    <3>3. ASSUME NEW i \in DOMAIN chunks' PROVE chunks'[i] = Heard' + i
      BY <1>0, <2>1, <3>1, <3>2 DEF QueueRule
    <3> QED
      BY <1>0, <2>1, <3>3 DEF QueueRule
  <2>3. ViewerTypes' /\ OrderRule' /\ WholeRule'
    BY <1>0, <2>1 DEF ViewerTypes, OrderRule, WholeRule
  <2>4. AnswerRule'
    <3>1. fetched \in 0..written => fetched \in 0..written' /\ (Heard' > fetched <=> Heard > fetched)
      BY <1>0, <2>1
    <3>2. fetched \notin 0..written => fetched \notin 0..written'
      BY <1>0, <2>1, NoChunks DEF AnswerRule
    <3> QED
      BY <1>0, <2>1, <3>1, <3>2 DEF AnswerRule
  <2> QED
    BY <2>2, <2>3, <2>4
<1>2. CASE Log!Open
  <2>1. /\ opened' \in 0..MaxOpens /\ viewing' = "loading" /\ fetched' = Log!NoAnswer /\ content' = <<>>
        /\ outran' = FALSE /\ repeated' = FALSE /\ UNCHANGED <<written, chunks>> /\ Heard' = Heard
        /\ content' \in Seq(1..MaxChunks) /\ DOMAIN content' = {} /\ fetched' \notin 0..written
    BY <1>0, <1>2, NoChunks DEF Log!Open, ViewerTypes, Heard
  <2> QED
    BY <1>0, <2>1 DEF ViewerTypes, QueueRule, AnswerRule, OrderRule, WholeRule
<1>3. CASE Log!Close
  BY <1>0, <1>3, NoChunks DEF Log!Close, ViewerTypes, QueueRule, AnswerRule, OrderRule, WholeRule, Heard
<1>4. CASE Log!Answer
  BY <1>0, <1>4, NoChunks DEF Log!Answer, ViewerTypes, QueueRule, AnswerRule, OrderRule, WholeRule, Heard
<1>5. CASE Log!Load
  <2>1. /\ viewing = "loading" /\ fetched \in 0..written /\ viewing' = "loaded" /\ content' = Log!Upto(fetched)
        /\ outran' = (outran \/ \E c \in Log!ToSet(content): c > fetched) /\ Heard' = Heard
        /\ UNCHANGED <<written, chunks, opened, fetched, repeated>>
    BY <1>0, <1>5, NoChunks DEF Log!Load, Log!Loaded, AnswerRule, Heard
  <2>2. content' \in Seq(1..MaxChunks) /\ \A i \in DOMAIN content': i \in 1..fetched /\ content'[i] = i
    BY <1>0, <2>1 DEF Log!Upto
  <2>3. ViewerTypes' /\ QueueRule' /\ AnswerRule'
    BY <1>0, <2>1, <2>2 DEF ViewerTypes, QueueRule, AnswerRule
  <2>4. OrderRule'
    BY <1>0, <2>1, <2>2 DEF OrderRule
  <2>5. WholeRule'
    <3>1. CASE Heard > fetched
      BY <2>1, <3>1 DEF AnswerRule, WholeRule, Log!ToSet
    <3>2. CASE Heard <= fetched
      BY <2>1, <3>2 DEF WholeRule
    <3> QED
      BY <1>0, <2>1, <3>1, <3>2
  <2> QED
    BY <2>3, <2>4, <2>5
<1>6. CASE Log!Fail
  BY <1>0, <1>6, NoChunks DEF Log!Fail, ViewerTypes, QueueRule, AnswerRule, OrderRule, WholeRule, Heard
<1>7. CASE Log!Deliver
  <2>1. /\ chunks # <<>> /\ chunks' = Tail(chunks) /\ content' = Log!Appended(Head(chunks))
        /\ repeated' = (repeated \/ (viewing = "loaded" /\ Head(chunks) <= fetched))
        /\ UNCHANGED <<written, opened, viewing, fetched, outran>>
    BY <1>7 DEF Log!Deliver
  <2>6. /\ chunks' \in Seq(1..MaxChunks) /\ Len(chunks) > 0 /\ Len(chunks') = Len(chunks) - 1
        /\ DOMAIN chunks = 1..Len(chunks) /\ DOMAIN chunks' = 1..Len(chunks) - 1 /\ Head(chunks) = chunks[1]
        /\ Head(chunks) \in 1..MaxChunks /\ \A i \in 1..Len(chunks) - 1: chunks'[i] = chunks[i + 1]
    BY <2>1, Behead DEF ViewerTypes
  <2>2. Head(chunks) = Heard + 1 /\ Heard' = Heard + 1 /\ Head(chunks) \in 1..MaxChunks
        /\ chunks' \in Seq(1..MaxChunks)
        /\ Len(chunks') = Len(chunks) - 1 /\ Heard' <= written
    BY <1>0, <2>1, <2>6 DEF QueueRule, Heard
  <2>3. QueueRule'
    <3>1. ASSUME NEW i \in DOMAIN chunks' PROVE chunks'[i] = Heard' + i
      <4>1. i \in 1..Len(chunks) - 1 /\ i + 1 \in DOMAIN chunks
        BY <1>0, <2>6
      <4> QED
        BY <1>0, <2>2, <2>6, <4>1 DEF QueueRule
    <3> QED
      BY <1>0, <2>2, <3>1 DEF QueueRule
  <2>4. CASE viewing = "closed"
    BY <1>0, <2>1, <2>2, <2>3, <2>4 DEF Log!Appended, ViewerTypes, AnswerRule, OrderRule, WholeRule
  <2>5. CASE viewing # "closed"
    <3>1. /\ content' = Append(content, Heard + 1) /\ content' \in Seq(1..MaxChunks)
          /\ Len(content') = Len(content) + 1 /\ content'[Len(content')] = Heard + 1 /\ Len(content) \in Nat
          /\ \A i \in DOMAIN content': (i \in DOMAIN content /\ content'[i] = content[i]) \/ i = Len(content) + 1
          /\ DOMAIN content = 1..Len(content) /\ DOMAIN content' = 1..Len(content')
      <4>1. content' = Append(content, Heard + 1) /\ content \in Seq(1..MaxChunks) /\ Heard + 1 \in 1..MaxChunks
        BY <2>1, <2>2, <2>5 DEF Log!Appended, ViewerTypes
      <4>2. /\ content' \in Seq(1..MaxChunks) /\ Len(content) \in Nat /\ Len(content') = Len(content) + 1
            /\ DOMAIN content = 1..Len(content) /\ DOMAIN content' = 1..Len(content) + 1
            /\ content'[Len(content) + 1] = Heard + 1 /\ \A i \in 1..Len(content): content'[i] = content[i]
        BY <4>1, Appending
      <4> QED
        BY <4>1, <4>2
    <3>2. AnswerRule'
      <4>1. \E i \in DOMAIN content': content'[i] = Heard'
        BY <2>2, <3>1
      <4> QED
        BY <2>1, <4>1 DEF AnswerRule
    <3>3. OrderRule'
      <4> SUFFICES ASSUME ~repeated' PROVE OrderRule'
        BY DEF OrderRule
      <4>0. ~repeated /\ ~(viewing = "loaded" /\ Head(chunks) <= fetched)
        BY <2>1, Zenon
      <4>1. \A i \in DOMAIN content: content[i] \in Nat
        BY <1>0, Elements DEF ViewerTypes
      <4>2. \A i \in DOMAIN content: content[i] <= Heard
        <5>1. CASE viewing = "loaded"
          <6>1. fetched \in Nat /\ fetched < Heard + 1
            BY <1>0, <2>2, <4>0, <5>1 DEF AnswerRule
          <6> QED
            BY <1>0, <4>0, <4>1, <5>1, <6>1 DEF OrderRule
        <5>2. CASE viewing \in {"loading", "failed"}
          BY <4>0, <5>2 DEF OrderRule
        <5> QED
          BY <2>5, <5>1, <5>2 DEF ViewerTypes
      <4>3. ASSUME NEW i \in DOMAIN content', NEW j \in DOMAIN content', i < j PROVE content'[i] < content'[j]
        <5>1. i \in DOMAIN content /\ content'[i] = content[i]
          BY <3>1, <4>3
        <5>2. CASE j \in DOMAIN content
          BY <3>1, <4>0, <4>3, <5>1, <5>2 DEF OrderRule
        <5>3. CASE j = Len(content) + 1
          BY <1>0, <3>1, <4>1, <4>2, <5>1, <5>3
        <5> QED
          BY <3>1, <5>2, <5>3
      <4>4. \A i \in DOMAIN content': content'[i] <= Heard'
        BY <1>0, <2>2, <3>1, <4>1, <4>2
      <4> QED
        BY <4>3, <4>4 DEF OrderRule
    <3>4. WholeRule'
      <4> SUFFICES ASSUME viewing = "loaded", ~outran, ~repeated' PROVE WholeRule'
        BY <2>1 DEF WholeRule
      <4>4. ~repeated /\ ~(Head(chunks) <= fetched)
        BY <2>1, Zenon
      <4>0. fetched \in 0..written /\ Heard + 1 > fetched /\ fetched \in Nat
        BY <1>0, <2>2, <4>4 DEF AnswerRule
      <4>3. Heard <= fetched => Heard = fetched
        BY <1>0, <4>0
      <4>1. fetched \in 0..written /\ Heard + 1 > fetched /\ content = Log!Upto(Heard)
        BY <4>0, <4>3, <4>4 DEF WholeRule
      <4>2. content' = Log!Upto(Heard + 1)
        BY <1>0, <3>1, <4>1 DEF Log!Upto
      <4> QED
        BY <1>0, <2>1, <2>2, <4>1, <4>2 DEF WholeRule
    <3>5. ViewerTypes'
      BY <2>1, <2>2, <3>1 DEF ViewerTypes
    <3> QED
      BY <2>3, <3>2, <3>3, <3>4, <3>5
  <2> QED
    BY <2>4, <2>5
<1>8. ASSUME UNCHANGED Log!viewer PROVE ViewerInv'
  BY <1>8 DEF Log!viewer, ViewerTypes, QueueRule, AnswerRule, OrderRule, WholeRule, Heard
<1>9. CASE \/ Log!OpenSheet \/ Log!CloseSheet \/ Log!LoadMore \/ Log!Reset \/ UNCHANGED Log!vars
           \/ \E r \in loads: Log!PageArrives(r)
  BY <1>8, <1>9 DEF Log!OpenSheet, Log!CloseSheet, Log!LoadMore, Log!Reset, Log!vars, Log!PageArrives
<1> QED
  BY <1>1, <1>2, <1>3, <1>4, <1>5, <1>6, <1>7, <1>9 DEF Log!Next

LEMMA ListerStep ==
  ASSUME Log!LogAssumption, ListerInv, [Log!Next]_(Log!vars) PROVE ListerInv'
<1> USE DEF ListerInv
<1>0. MaxFetches \in Nat /\ Pages \in Nat \ {0} /\ page \in Nat /\ fetches \in Nat
  BY DEF Log!LogAssumption, FetchRule
<1>1. ASSUME UNCHANGED Log!lister PROVE ListerInv'
  BY <1>1 DEF Log!lister, PageRule, FetchRule
<1>8. ASSUME NEW p, NEW q \in BOOLEAN, Log!Ask(p, q), p \in 1..fetches + 2
      PROVE  /\ fetches' = fetches + 1 /\ fetches' \in 0..MaxFetches
             /\ loads' \subseteq [page: 1..fetches' + 1, n: 1..fetches']
             /\ again' \in BOOLEAN /\ (~again' => ~again /\ loads = {} /\ ~q
                  /\ loads' = {[page |-> p, n |-> fetches + 1]})
  <2>1. fetches < MaxFetches /\ fetches' = fetches + 1 /\ loads' = loads \cup {[page |-> p, n |-> fetches + 1]}
        /\ again' = (again \/ loads # {} \/ q)
    BY <1>8 DEF Log!Ask
  <2>2. fetches' \in 0..MaxFetches /\ p \in 1..fetches' + 1 /\ fetches + 1 \in 1..fetches'
    BY <1>0, <1>8, <2>1
  <2>3. 1..fetches + 1 \subseteq 1..fetches' + 1 /\ 1..fetches \subseteq 1..fetches'
    BY <1>0, <2>1
  <2>4. loads' \subseteq [page: 1..fetches' + 1, n: 1..fetches']
    <3>1. [page |-> p, n |-> fetches + 1] \in [page: 1..fetches' + 1, n: 1..fetches']
      BY <2>2
    <3>2. ASSUME NEW l \in loads PROVE l \in [page: 1..fetches' + 1, n: 1..fetches']
      BY <2>3 DEF FetchRule
    <3> QED
      BY <2>1, <3>1, <3>2
  <2>5. again' \in BOOLEAN /\ (~again' => ~again /\ loads = {} /\ ~q)
    BY <2>1, Zenon
  <2>6. loads = {} => loads' = {[page |-> p, n |-> fetches + 1]}
    BY <2>1
  <2> QED
    BY <2>1, <2>2, <2>4, <2>5, <2>6
<1>9. \A i \in DOMAIN logs: logs[i] \in 1..Pages /\ logs[i] \in Nat
  <2>1. logs \in Seq(1..Pages)
    BY DEF FetchRule
  <2>2. \A i \in DOMAIN logs: logs[i] \in 1..Pages
    BY <2>1, Elements
  <2> QED
    BY <1>0, <2>2
<1>2. CASE Log!OpenSheet
  <2>1. Log!Ask(page, page # 1) /\ UNCHANGED <<page, logs>> /\ sheet' = TRUE /\ page \in 1..fetches + 2
    BY <1>0, <1>2 DEF Log!OpenSheet, FetchRule
  <2>4. /\ fetches' = fetches + 1 /\ fetches' \in 0..MaxFetches
        /\ loads' \subseteq [page: 1..fetches' + 1, n: 1..fetches']
        /\ again' \in BOOLEAN
        /\ ~again' => ~again /\ loads = {} /\ page = 1 /\ loads' = {[page |-> page, n |-> fetches + 1]}
    BY <1>8, <2>1
  <2>5. page' \in 1..fetches' + 1
    BY <1>0, <2>1, <2>4 DEF FetchRule
  <2>2. FetchRule'
    BY <2>1, <2>4, <2>5 DEF FetchRule
  <2>3. PageRule'
    BY <1>9, <2>1, <2>4 DEF PageRule
  <2> QED
    BY <2>2, <2>3
<1>3. CASE Log!CloseSheet
  BY <1>0, <1>3 DEF Log!CloseSheet, PageRule, FetchRule
<1>4. CASE Log!LoadMore
  <2>1. Log!Ask(page + 1, FALSE) /\ UNCHANGED <<sheet, logs>> /\ page' = page + 1 /\ page + 1 \in 1..fetches + 2
    <3>1. Log!Ask(page + 1, FALSE) /\ UNCHANGED <<sheet, logs>> /\ page' = page + 1
      BY <1>4 DEF Log!LoadMore
    <3>2. page + 1 \in 1..fetches + 2
      BY <1>0 DEF FetchRule
    <3> QED
      BY <3>1, <3>2
  <2>4. /\ fetches' = fetches + 1 /\ fetches' \in 0..MaxFetches
        /\ loads' \subseteq [page: 1..fetches' + 1, n: 1..fetches']
        /\ again' \in BOOLEAN
        /\ ~again' => ~again /\ loads = {} /\ loads' = {[page |-> page + 1, n |-> fetches + 1]}
    BY <1>8, <2>1
  <2>5. page' \in 1..fetches' + 1
    BY <1>0, <2>1, <2>4 DEF FetchRule
  <2>2. FetchRule'
    BY <2>1, <2>4, <2>5 DEF FetchRule
  <2>3. PageRule'
    <3> SUFFICES ASSUME ~again' PROVE PageRule'
      BY DEF PageRule
    <3>1. \A i \in DOMAIN logs: logs[i] < page + 1
      BY <1>0, <1>9, <2>4 DEF PageRule
    <3>2. loads' = {[page |-> page + 1, n |-> fetches + 1]} /\ logs' = logs /\ ~again
      BY <2>1, <2>4
    <3>3. \A i, j \in DOMAIN logs: i < j => logs[i] < logs[j]
      BY <3>2 DEF PageRule
    <3>4. \A p, r \in loads': p = r
      BY <3>2
    <3>5. loads' # {} /\ \A r \in loads': \A i \in DOMAIN logs': logs'[i] < r.page
      BY <3>1, <3>2
    <3> QED
      BY <3>2, <3>3, <3>4, <3>5 DEF PageRule
  <2> QED
    BY <2>2, <2>3
<1>5. CASE Log!Reset
  <2>1. /\ logs' = <<>> /\ page' = 1 /\ DOMAIN logs' = {} /\ logs' \in Seq(1..Pages) /\ UNCHANGED sheet
        /\ 1 \in 1..fetches + 2 /\ 1 \in 1..fetches + 1
    BY <1>0, <1>5 DEF Log!Reset
  <2>2. CASE page # 1
    <3>1. Log!Ask(1, FALSE)
      BY <1>5, <2>2 DEF Log!Reset
    <3>4. /\ fetches' = fetches + 1 /\ fetches' \in 0..MaxFetches
          /\ loads' \subseteq [page: 1..fetches' + 1, n: 1..fetches']
          /\ again' \in BOOLEAN /\ (~again' => ~again /\ loads = {} /\ loads' = {[page |-> 1, n |-> fetches + 1]})
      BY <1>8, <2>1, <3>1
    <3>5. page' \in 1..fetches' + 1
      BY <1>0, <2>1, <3>4
    <3>2. FetchRule'
      BY <2>1, <3>4, <3>5 DEF FetchRule
    <3>3. PageRule'
      <4>1. ~again' => loads' = {[page |-> 1, n |-> fetches + 1]}
        BY <3>4
      <4>2. DOMAIN logs' = {}
        BY <2>1
      <4> QED
        BY <4>1, <4>2 DEF PageRule
    <3> QED
      BY <3>2, <3>3
  <2>3. CASE page = 1
    <3>1. UNCHANGED <<loads, fetches, again>>
      BY <1>5, <2>3 DEF Log!Reset
    <3> QED
      BY <1>0, <2>1, <3>1 DEF PageRule, FetchRule
  <2> QED
    BY <2>2, <2>3
<1>6. ASSUME NEW r \in loads, Log!PageArrives(r) PROVE ListerInv'
  <2>1. /\ logs' = Log!Listed(r.page) /\ page' = r.page /\ r.page \in 1..fetches + 1 /\ r.n \in 1..fetches
        /\ UNCHANGED sheet
    BY <1>6 DEF Log!PageArrives, FetchRule
  <2>2. logs' \in Seq(1..Pages) /\ (~again' => PageRule')
    <3>0. ~again' => ~again /\ loads' = {}
      BY <1>6 DEF Log!PageArrives, PageRule
    <3>1. CASE r.page = 1
      <4>2. logs' = <<1>> /\ 1 \in 1..Pages /\ page' = 1
        BY <1>0, <2>1, <3>1 DEF Log!Listed, Log!Rows
      <4>1. logs' \in Seq(1..Pages) /\ DOMAIN logs' = {1} /\ logs'[1] = 1 /\ page' = 1
        BY <4>2
      <4> QED
        BY <3>0, <4>1 DEF PageRule
    <3>2. CASE r.page # 1 /\ r.page <= Pages
      <4>1. logs' = logs \o <<r.page>> /\ r.page \in 1..Pages
        BY <1>0, <2>1, <3>2 DEF Log!Listed, Log!Rows
      <4>2. logs' = Append(logs, r.page)
        BY <4>1 DEF FetchRule
      <4>3. /\ logs' \in Seq(1..Pages) /\ Len(logs) \in Nat /\ DOMAIN logs = 1..Len(logs)
            /\ DOMAIN logs' = 1..Len(logs) + 1
            /\ logs'[Len(logs) + 1] = r.page /\ \A i \in 1..Len(logs): logs'[i] = logs[i]
        BY <4>1, <4>2, Appending DEF FetchRule
      <4>4. ~again' => \A i \in DOMAIN logs: logs[i] < r.page
        BY <3>0, <3>2 DEF PageRule
      <4>5. ASSUME ~again', NEW i \in DOMAIN logs', NEW j \in DOMAIN logs', i < j PROVE logs'[i] < logs'[j]
        <5>1. i \in DOMAIN logs /\ logs'[i] = logs[i]
          BY <4>3, <4>5
        <5>2. CASE j \in DOMAIN logs
          BY <3>0, <4>3, <4>5, <5>1, <5>2 DEF PageRule
        <5>3. CASE j = Len(logs) + 1
          BY <4>3, <4>4, <4>5, <5>1, <5>3
        <5> QED
          BY <4>3, <5>2, <5>3
      <4>6. ~again' => \A i \in DOMAIN logs': logs'[i] <= page'
        BY <1>9, <2>1, <4>1, <4>3, <4>4
      <4> QED
        BY <3>0, <4>3, <4>5, <4>6 DEF PageRule
    <3>3. CASE r.page # 1 /\ ~(r.page <= Pages)
      <4>1. logs' = logs /\ logs \in Seq(1..Pages)
        BY <3>3, <2>1 DEF Log!Listed, Log!Rows, FetchRule
      <4>2. ~again' => \A i \in DOMAIN logs: logs[i] < r.page
        BY <3>0, <3>3 DEF PageRule
      <4> QED
        BY <1>0, <1>9, <2>1, <3>0, <4>1, <4>2 DEF PageRule
    <3> QED
      BY <3>1, <3>2, <3>3
  <2>3. CASE sheet /\ r.page # page
    <3>1. fetches' = fetches + 1 /\ fetches < MaxFetches /\ again' = TRUE
          /\ loads' = (loads \ {r}) \cup {[page |-> r.page, n |-> fetches + 1]}
      BY <1>6, <2>3 DEF Log!PageArrives
    <3>2. fetches' \in 0..MaxFetches /\ 1..fetches + 1 \subseteq 1..fetches' + 1 /\ 1..fetches \subseteq 1..fetches'
          /\ fetches + 1 \in 1..fetches'
      BY <1>0, <3>1 DEF FetchRule
    <3> QED
      BY <2>1, <2>2, <3>1, <3>2 DEF PageRule, FetchRule
  <2>4. CASE ~(sheet /\ r.page # page)
    BY <1>6, <2>1, <2>2, <2>4 DEF Log!PageArrives, PageRule, FetchRule
  <2> QED
    BY <2>3, <2>4
<1>7. CASE \/ Log!Write \/ Log!Open \/ Log!Close \/ Log!Answer \/ Log!Load \/ Log!Fail \/ Log!Deliver
           \/ UNCHANGED Log!vars
  BY <1>1, <1>7 DEF Log!Write, Log!Open, Log!Close, Log!Answer, Log!Load, Log!Fail, Log!Deliver, Log!vars
<1> QED
  BY <1>2, <1>3, <1>4, <1>5, <1>6, <1>7 DEF Log!Next

LEMMA LogInvariant == ASSUME Log!LogAssumption PROVE Log!Spec => [](ViewerInv /\ ListerInv)
<1>1. ViewerInv /\ ListerInv /\ [Log!Next]_(Log!vars) => (ViewerInv /\ ListerInv)'
  BY ViewerStep, ListerStep
<1>2. Log!Init => ViewerInv /\ ListerInv
  BY LogStart
<1> QED
  BY <1>1, <1>2, PTL DEF Log!Spec

\* What the viewer shows of a log that is written and read at once is the whole log, each chunk once and in the
\* order it was written, unless a chunk changed places with the response; and a page of logs is listed once.
THEOREM LogsAreWhole ==
  ASSUME Log!LogAssumption
  PROVE  Log!Spec => [](Log!TypeOK /\ Log!LogIsWhole /\ Log!ChunksInOrder /\ Log!PagesAreUnique)
<1>1. ViewerInv => Log!LogIsWhole
  <2> SUFFICES ASSUME ViewerInv, viewing = "loaded", chunks = <<>>, ~outran, ~repeated
        PROVE  content = Log!Upto(written)
    BY DEF Log!LogIsWhole
  <2>1. Heard = written /\ written \in Nat
    BY DEF ViewerInv, ViewerTypes, Heard
  <2> QED
    BY <2>1 DEF ViewerInv, WholeRule, AnswerRule
<1>2. ViewerInv => Log!ChunksInOrder
  BY DEF ViewerInv, OrderRule, Log!ChunksInOrder
<1>3. ListerInv => Log!PagesAreUnique
  <2> SUFFICES ASSUME ListerInv, ~again, NEW i \in DOMAIN logs, NEW j \in DOMAIN logs, logs[i] = logs[j] PROVE i = j
    BY DEF Log!PagesAreUnique
  <2>3. logs \in Seq(1..Pages) /\ Pages \in Nat
    BY DEF ListerInv, FetchRule, Log!LogAssumption
  <2>4. Len(logs) \in Nat /\ i \in 1..Len(logs) /\ j \in 1..Len(logs) /\ logs[i] \in 1..Pages /\ logs[j] \in 1..Pages
    BY <2>3, Elements
  <2>1. /\ i \in Nat /\ j \in Nat /\ logs[i] \in Nat /\ logs[j] \in Nat
    BY <2>3, <2>4
  <2>2. (i < j => logs[i] < logs[j]) /\ (j < i => logs[j] < logs[i])
    BY DEF ListerInv, PageRule
  <2> QED
    BY <2>1, <2>2
<1>4. ViewerInv /\ ListerInv => Log!TypeOK
  <2> SUFFICES ASSUME ViewerInv, ListerInv PROVE Log!TypeOK
    OBVIOUS
  <2>1. MaxChunks \in Nat /\ MaxFetches \in Nat /\ fetched \in 0..Log!NoAnswer
    BY DEF Log!LogAssumption, ViewerInv, ViewerTypes, AnswerRule, Log!Error, Log!NoAnswer
  <2>2. page \in 1..MaxFetches + 1 /\ loads \subseteq [page: 1..MaxFetches + 1, n: 1..MaxFetches]
    BY <2>1 DEF ListerInv, FetchRule
  <2> QED
    BY <2>1, <2>2 DEF ViewerInv, ListerInv, ViewerTypes, FetchRule, Log!TypeOK
<1> QED
  BY <1>1, <1>2, <1>3, <1>4, LogInvariant, PTL
=============================================================================
