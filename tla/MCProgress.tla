----------------------------- MODULE MCProgress ------------------------------
(***************************************************************************)
(* Small instances of the parts that have to get somewhere: the two        *)
(* sockets, the lookups that lock a form, and the status of a service.     *)
(* Each behaviour runs one part, as in MCPages.  The fairness is that of   *)
(* the parts: timers fire, requests are answered or fail, workers take the *)
(* jobs that wait; people owe nothing.                                     *)
(***************************************************************************)
EXTENDS Naturals, TLC

CONSTANTS None, none, one, two, twice

VARIABLES
  part, \* the part that runs
  s1, s2, s3, s4, s5, s6, s7, s8, s9, s10, s11, s12, s13, s14, s15, s16, s17, s18, s19, s20, s21, s22

-----------------------------------------------------------------------------
(* Values of the constants. *)

RepositoryBranches == "r1" :> {"main", "dev"}
DefaultBranch == "r1" :> "main"
RuntimeVersions == ("php" :> <<"v1", "v2">>) @@ ("node" :> <<"v2">>)
Detects ==
  (<<"r1", "main">> :> [runtime |-> "php", versions |-> <<>>])
    @@ (<<"r1", "dev">> :> [runtime |-> "node", versions |-> <<"v2">>])
InstalledVersions == (<<"s1", "php">> :> {"v2"}) @@ (<<"s1", "node">> :> {"v2"})
Matching == ("a" :> {"own", "wildcard"}) @@ ("b" :> {"wildcard"})
Best == ("a" :> "own") @@ ("b" :> "wildcard")
EnvTexts == {[list |-> one, comments |-> TRUE, multi |-> FALSE],
             [list |-> one, comments |-> FALSE, multi |-> TRUE]}
ReposOf == ("c1" :> {"r1", "r2"}) @@ ("c2" :> {"r2"})
BranchesOf == [c \in {"c1", "c2"} |->
  ("r1" :> {"main"}) @@ ("r2" :> IF c = "c1" THEN {"main", "dev"} ELSE {"dev"})]

-----------------------------------------------------------------------------
(* The parts. *)

Socket == INSTANCE EventSocket WITH
  auth <- s1, project <- s2, phase <- s3, token <- s4, attached <- s5, ws <- s6, timer <- s7,
  retries <- s8, status <- s9, current <- s10, conn <- s11, subs <- s12, down <- s13, up <- s14,
  faults <- s15, changes <- s16, overlapped <- s17, missed <- s18, Projects <- {"p1"},
  NoProject <- None, MaxPerUser <- 3, MaxFast <- 1, MaxAttempts <- 4, MaxChanges <- 0,
  MaxFaults <- 2

Terminal == INSTANCE Console WITH
  mounted <- s1, user <- s2, status <- s3, phase <- s4, by <- s5, wsRef <- s6, sessions <- s7,
  inbox <- s8, overlapped <- s9, leftEarly <- s10, Users <- {"root", "vito"}, NoUser <- None,
  MaxPerUser <- 2, MaxAttempts <- 2

App == INSTANCE CreateApplication WITH
  repository <- s1, branch <- s2, runtime <- s3, version <- s4, server <- s5, database <- s6,
  runtimeChosen <- s7, versionChosen <- s8, databaseChosen <- s9, detected <- s10,
  detectedKey <- s11, changing <- s12, lookup <- s13, asked <- s14, detecting <- s15, phase <- s16,
  changes <- s17, Repositories <- {"r1"}, Branches <- RepositoryBranches, Default <- DefaultBranch,
  Runtimes <- {"php", "node"}, Versions <- RuntimeVersions, Serviced <- {"php"},
  Suggesting <- {"php"}, Detects <- Detects, Servers <- {"s1"}, Installed <- InstalledVersions,
  Lacking <- {}, MaxChanges <- 3

Ssl == INSTANCE SslMatching WITH
  originalDomain <- s1, domain <- s2, method <- s3, ssl <- s4, matchingSsls <- s5,
  lastFetchedDomain <- s6, lookup <- s7, asked <- s8, loadingSsls <- s9, saved <- s10,
  changes <- s11, failed <- s12, entered <- s13, Domains <- {"a", "b"}, Matching <- Matching,
  Best <- Best, Originals <- {None, "b"}, MaxChanges <- 3

Env == INSTANCE EnvEditor WITH
  file <- s1, reveal <- s2, open <- s3, mode <- s4, variables <- s5, rawContent <- s6,
  variablesDirty <- s7, canEdit <- s8, path <- s9, committedPath <- s10, cache <- s11,
  status <- s12, isFetching <- s13, switching <- s14, importing <- s15, saving <- s16, edits <- s17,
  from <- s18, loaded <- s19, touched <- s20, superseded <- s21, abandoned <- s22,
  NoVariables <- none, Lists <- {none, one, twice}, Duplicated <- {twice}, Typed <- EnvTexts,
  Paths <- {"/.env", "/other"}, DefaultPath <- "/.env", MaxEdits <- 1

Source == INSTANCE SourceSelect WITH
  use_source_control <- s1, mounted <- s2, source_control <- s3, repository <- s4, branch <- s5,
  repos <- s6, branches <- s7, gettingRepos <- s8, gettingBranches <- s9, askedRepos <- s10,
  askedBranches <- s11, asked <- s12, crossedRepos <- s13, crossedBranches <- s14,
  Controls <- {"c1", "c2"}, Repos <- {"r1", "r2"}, Branches <- {"main", "dev"}, ReposOf <- ReposOf,
  BranchesOf <- BranchesOf, MaxAsked <- 4

Services == INSTANCE ServiceNetworking WITH
  service <- s1, conf <- s2, file <- s3, bakConf <- s4, bakFile <- s5, unit <- s6, live <- s7,
  queue <- s8, job <- s9, flagged <- s10, checked <- s11, pendingStatus <- s12, requests <- s13,
  secrets <- s14, stops <- s15, mixed <- s16, faulty <- s17, MaxRequests <- 2, MaxSecrets <- 2,
  MaxStops <- 1, Checks <- TRUE

ASSUME PartsAssumption ==
  /\ Socket!SocketAssumption
  /\ Terminal!ConsoleAssumption
  /\ App!CreateApplicationAssumption
  /\ Ssl!SslMatchingAssumption
  /\ Env!EnvEditorAssumption
  /\ Source!SourceSelectAssumption
  /\ Services!ServiceNetworkingAssumption

\* The slots after those a part uses: as they stay, and empty.
After18 == <<s19, s20, s21, s22>>
After17 == <<s18, After18>>
After14 == <<s15, s16, s17, After17>>
After13 == <<s14, After14>>
After10 == <<s11, s12, s13, After13>>
Slots == <<s1, s2, s3, s4, s5, s6, s7, s8, s9, s10, After10>>
Empty18 == s19 = None /\ s20 = None /\ s21 = None /\ s22 = None
Empty17 == s18 = None /\ Empty18
Empty14 == s15 = None /\ s16 = None /\ s17 = None /\ Empty17
Empty13 == s14 = None /\ Empty14
Empty10 == s11 = None /\ s12 = None /\ s13 = None /\ Empty13

ProgressInit ==
  \/ part = "socket" /\ Socket!Init /\ Empty18
  \/ part = "console" /\ Terminal!Init /\ Empty10
  \/ part = "application" /\ App!Init /\ Empty17
  \/ part = "certificates" /\ Ssl!Init /\ Empty13
  \/ part = "env" /\ Env!Init
  \/ part = "source" /\ Source!Init /\ Empty14
  \/ part = "services" /\ Services!Init /\ Empty17

\* A step of a part; also the form of the steps that have to be taken.
OfSocket(A) == part = "socket" /\ A /\ UNCHANGED <<part, After18>>
OfTerminal(A) == part = "console" /\ A /\ UNCHANGED <<part, After10>>
OfApp(A) == part = "application" /\ A /\ UNCHANGED <<part, After17>>
OfSsl(A) == part = "certificates" /\ A /\ UNCHANGED <<part, After13>>
OfEnv(A) == part = "env" /\ A /\ UNCHANGED part
OfSource(A) == part = "source" /\ A /\ UNCHANGED <<part, After14>>
OfServices(A) == part = "services" /\ A /\ UNCHANGED <<part, After17>>

ProgressNext ==
  \/ OfSocket(Socket!Next) \/ OfTerminal(Terminal!Next) \/ OfApp(App!Next) \/ OfSsl(Ssl!Next)
  \/ OfEnv(Env!Next) \/ OfSource(Source!Next) \/ OfServices(Services!Next)

progress == <<part, Slots>>


SocketFairness ==
  /\ WF_progress(OfSocket(Socket!TimerFires))
  /\ \A n \in 1..4: WF_progress(OfSocket(Socket!Progress(n)))
ConsoleFairness == \A n \in 1..2: WF_progress(OfTerminal(Terminal!Forget(n)))
LookupFairness ==
  /\ WF_progress(OfApp(App!Ask)) /\ WF_progress(OfApp(App!fallBackToPicker \/ App!Answer))
  /\ WF_progress(OfSsl(Ssl!Ask)) /\ WF_progress(OfSsl(Ssl!Answer \/ Ssl!Failure))
  /\ WF_progress(OfEnv(Env!FetchAnswer \/ Env!FetchError))
  /\ WF_progress(OfEnv(Env!SwitchAnswer \/ Env!SwitchError))
  /\ WF_progress(OfEnv(Env!ImportAnswer \/ Env!ImportError))
  /\ WF_progress(OfSource(Source!ReposEnd)) /\ WF_progress(OfSource(Source!BranchesEnd))
JobFairness ==
  /\ WF_progress(OfServices(Services!BeginSome)) /\ WF_progress(OfServices(Services!JobStep))
  /\ WF_progress(OfServices(Services!check)) /\ WF_progress(OfServices(Services!sync))

ProgressSpec ==
  /\ ProgressInit /\ [][ProgressNext]_progress
  /\ SocketFairness /\ ConsoleFairness /\ LookupFairness /\ JobFairness

-----------------------------------------------------------------------------
(* Properties. *)

\* After finitely many faults whoever is signed in has a connection that hears events, or attempts
\* overlapped: the socket never gives up.
Reconnects == (part = "socket" /\ Socket!Trying) ~> (part = "socket" /\ Socket!Reached)

\* No session of the console outlives its socket for ever.
SessionsEnd ==
  \A n \in 1..2: (part = "console" /\ Terminal!Orphaned(n)) ~> (part = "console" /\ ~Terminal!Orphaned(n))

\* The status of a service is in the end that of its unit, whatever jobs, refreshes and checks wrote
\* over each other.
StatusSettles == <>[](part = "services" => Services!StatusIsTrue)

\* No lookup locks its form for ever: detection, certificates, the .env editor, repositories, branches.
LocksEnd ==
  /\ []<>(part = "application" => ~App!Spins)
  /\ []<>(part = "certificates" => ~Ssl!Locked)
  /\ []<>(part = "env" => ~Env!busy)
  /\ []<>(part = "source" => ~Source!ReposSpin) /\ []<>(part = "source" => ~Source!BranchesSpin)
=============================================================================
