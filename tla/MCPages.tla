------------------------------ MODULE MCPages -------------------------------
(***************************************************************************)
(* Small instances of the parts of the frontend that share no state with   *)
(* each other: dialogs, the socket, live lists and logs, the console, the  *)
(* forms and the pages with answers that come late.  Each behaviour runs   *)
(* one part, chosen in the initial state; the parts take their variables   *)
(* from the same slots, and the socket of events, whose properties are     *)
(* checked as they stand, has variables of its own.                        *)
(***************************************************************************)
EXTENDS EventSocket, HostedForms, OwnForms, PageForms, TLC

CONSTANTS None, Custom, none, one, two, twice \* lists of variables of the .env editor

VARIABLES
  part, \* the part that runs
  s1, s2, s3, s4, s5, s6, s7, s8, s9, s10, s11, s12, s13, s14, s15, s16, s17, s18, s19, s20, s21, s22

-----------------------------------------------------------------------------
(* Values of the constants. *)

\* EventSocket: two projects.
UserProjects == {"p1", "p2"}

\* CreateServer: two providers with one connection each; one connection has two regions.
ServerConnections == {"cloud", "lab"}
ServerProviders == {"hetzner", "proxmox"}
ConnectionProvider == [c \in ServerConnections |-> IF c = "cloud" THEN "hetzner" ELSE "proxmox"]
ConnectionRegions == [c \in ServerConnections |-> IF c = "cloud" THEN {"here", "there"} ELSE {"node"}]
RegionPlans == [r \in {"here", "there", "node"} |-> IF r = "there" THEN {"large"} ELSE {"small"}]
ProviderFields == [p \in ServerProviders |-> IF p = "proxmox" THEN {"disk"} ELSE {}]

\* CreateApplication: two repositories, of which one has no default branch; two runtimes that share
\* a version, one of them a service; a server that has one of its versions, and one that has both.
RepositoryBranches == [r \in {"r1", "r2"} |-> IF r = "r1" THEN {"main", "dev"} ELSE {"dev"}]
DefaultBranch == [r \in {"r1", "r2"} |-> IF r = "r1" THEN "main" ELSE None]
RuntimeVersions == [r \in {"php", "node"} |-> IF r = "php" THEN <<"v1", "v2">> ELSE <<"v2", "v3">>]
Detects ==
  [k \in {"r1", "r2"} \X {"main", "dev"} |->
     IF k = <<"r1", "main">> THEN [runtime |-> "php", versions |-> <<>>]
     ELSE IF k = <<"r1", "dev">> THEN [runtime |-> "node", versions |-> <<"v3", "v2">>]
     ELSE [runtime |-> "php", versions |-> <<"v1">>]]
InstalledVersions ==
  [k \in {"s1", "s2"} \X {"php", "node"} |-> IF k[1] = "s1" THEN {"v2"} ELSE {"v1", "v2"}]

\* SslMatching: a domain with two certificates, one with one of them, one with none.
Matching == ("a" :> {"own", "wildcard"}) @@ ("b" :> {"wildcard"}) @@ ("c" :> {})
Best == ("a" :> "own") @@ ("b" :> "wildcard") @@ ("c" :> None)

\* EnvEditor: a text with comments, and one with a value over several lines.
EnvTexts == {[list |-> one, comments |-> TRUE, multi |-> FALSE],
             [list |-> two, comments |-> FALSE, multi |-> TRUE]}

\* CreateSite: two servers; a tool that is optional in one type and required in another.
Candidates == "d1" :> <<"r", "a", "b">>
SiteTypes == {"laravel", "nodejs", "plain"}
ToolingOf == ("laravel" :> {"node"}) @@ ("nodejs" :> {}) @@ ("plain" :> {})
PickerOf == ("laravel" :> {}) @@ ("nodejs" :> {"node"}) @@ ("plain" :> {})
SelectorOf == ("laravel" :> {}) @@ ("nodejs" :> {"node", "pnpm"}) @@ ("plain" :> {})
Supported == ("node" :> <<"22", "20">>) @@ ("pnpm" :> <<"9">>)
InstalledTools == [s \in {"s1", "s2"} |->
  [u \in {"a", "b", "r"} |-> [t \in {"node", "pnpm"} |->
    CASE t = "node" /\ u = "a" -> "20" [] t = "node" /\ u = "b" /\ s = "s1" -> "22"
      [] t = "pnpm" /\ u = "b" -> "9" [] OTHER -> None]]]

\* SourceSelect: two source controls that share a repository; one branch, and two.
ReposOf == ("c1" :> {"r1", "r2"}) @@ ("c2" :> {"r2"})
BranchesOf == [c \in {"c1", "c2"} |->
  ("r1" :> {"main"}) @@ ("r2" :> IF c = "c1" THEN {"main", "dev"} ELSE {"dev"})]

\* Forms: every form of the catalogues.
Catalogue == HostedCatalogue \cup OwnCatalogue \cup PageCatalogue

-----------------------------------------------------------------------------
(* The parts. *)

\* The forms of a server, an application and a site, with their proofs.
Creates == INSTANCE CreateProofs WITH
  \* CreateServer
  None <- None, Custom <- Custom, Connections <- ServerConnections, Providers <- ServerProviders,
  ProviderOf <- ConnectionProvider, RegionsOf <- ConnectionRegions, PlansOf <- RegionPlans,
  FieldsOf <- ProviderFields, MaxChoices <- 4, existing <- s1, serverProviders <- s2,
  listing <- s3, connection <- s4, region <- s6, plan <- s7, fields <- s8, regions <- s9,
  plans <- s10, askedRegions <- s11, askedPlans <- s12, open <- s5, processing <- s13,
  choices <- s14, overtaken <- s15, replaced <- s16,
  \* CreateApplication
  Repositories <- {"r1", "r2"}, Branches <- RepositoryBranches, Default <- DefaultBranch,
  Runtimes <- {"php", "node"}, Versions <- RuntimeVersions, Serviced <- {"php"},
  Suggesting <- {"php"}, Detects <- Detects, Servers <- {"s1", "s2"},
  Installed <- InstalledVersions, Lacking <- {<<"s2", "node">>}, MaxChanges <- 4,
  repository <- s11, branch <- s12, runtime <- s1, version <- s3, server <- s13, database <- s4,
  runtimeChosen <- s5, versionChosen <- s6, databaseChosen <- s7, detected <- s14,
  detectedKey <- s15, changing <- s16, lookup <- s8, asked <- s9, detecting <- s17, phase <- s2,
  changes <- s10,
  \* SourceSelect
  Controls <- {"c1", "c2"}, Repos <- {"r1", "r2"}, BranchesHere <- {"main", "dev"},
  ReposOf <- ReposOf, BranchesOf <- BranchesOf, MaxAsked <- 5, use_source_control <- s1,
  mounted <- s3, source_control <- s2, repos <- s4, branches <- s5, gettingRepos <- s6,
  gettingBranches <- s7, askedRepos <- s8, askedBranches <- s10, crossedRepos <- s13,
  crossedBranches <- s14,
  \* ServerTemplates
  Names <- {"web", "cache"}, Services <- {"nginx", "redis"}, Defaults <- {"nginx"},
  Initial <- {[id |-> 1, name |-> "web", services |-> {"redis"}]}, MaxRequests <- 1,
  services <- s1, value <- s2, query <- s3, fetching <- s6, dialog <- s4, form <- s7,
  request <- s8, here <- s9, templates <- s10, requests <- s11, unsure <- s12,
  \* CreateSite
  NotLoaded <- None, SiteUsers <- {"a", "b", "r"}, DomainsHere <- {"d1"},
  Candidates <- Candidates, Reserved <- {"r"}, Types <- SiteTypes, Tools <- {"node", "pnpm"},
  ToolingOf <- ToolingOf, PickerOf <- PickerOf, SelectorOf <- SelectorOf, Supported <- Supported,
  InstalledFor <- InstalledTools, MaxJoined <- 1, MaxSiteEdits <- 3, accounts <- s1, known <- s2,
  type <- s3, domain <- s7, user <- s4, versions <- s5, packageManager <- s8,
  userManuallyEdited <- s9, previousLocks <- s10, sent <- s11, created <- s12, joined <- s15,
  edits <- s14, origin <- s16, retyped <- s17

\* Dialogs, forms, certificates, the .env editor and the terminal, with their proofs.
Parts == INSTANCE PageProofs WITH
  \* SslMatching
  None <- None, Domains <- {"a", "b", "c"}, Matching <- Matching, Best <- Best,
  Originals <- {None, "b", "c"}, MaxChanges <- 4, originalDomain <- s1, domain <- s7,
  method <- s2, ssl <- s3, matchingSsls <- s4, lastFetchedDomain <- s5, lookup <- s8, asked <- s9,
  loadingSsls <- s6, saved <- s11, changes <- s10, failed <- s12, entered <- s13,
  \* EnvEditor
  NoVariables <- none, Lists <- {none, one, two, twice}, Duplicated <- {twice}, Typed <- EnvTexts,
  Paths <- {"/.env", "/other"}, DefaultPath <- "/.env", MaxEdits <- 2, file <- s2, reveal <- s3,
  open <- s5, mode <- s4, variables <- s6, rawContent <- s7, variablesDirty <- s8, canEdit <- s9,
  path <- s10, committedPath <- s11, cache <- s12, status <- s1, isFetching <- s13,
  switching <- s15, importing <- s16, saving <- s17, edits <- s14, from <- s18, loaded <- s19,
  touched <- s20, superseded <- s21, abandoned <- s22,
  \* DialogHost
  Keys <- {"edit", "sheet"}, RouteDialogs <- {"sheet"}, NoDialog <- None, NoElement <- None,
  MaxOpens <- 2, MaxPages <- 2, shown <- s1, opening <- s2, trigger <- s3, focus <- s4,
  frames <- s5, draft <- s6, since <- s7, visit <- s8, page <- s9,
  \* Console
  Users <- {"root", "vito"}, NoUser <- None, MaxPerUser <- 1, MaxAttempts <- 3, mounted <- s3,
  user <- s4, phase <- s2, by <- s5, wsRef <- s6, sessions <- s7, inbox <- s8, overlapped <- s9,
  leftEarly <- s10,
  \* Forms
  Catalogue <- Catalogue, MaxOpenings <- 2, MaxTypings <- 2, MaxSends <- 2, MaxVersions <- 1,
  form <- s7, item <- s4, data <- s6, defaults <- s8, typed <- s9, processing <- s13,
  sends <- s10, awaited <- s11, query <- s3, asker <- s14, lost <- s15, warm <- s16

\* Lists, records, tables and logs, with their proofs and those of the socket.
Feed == INSTANCE SocketProofs WITH
  \* LiveList
  row <- s1, born <- s2, clock <- s3, queue <- s4, asked <- s5, answers <- s6, props <- s7,
  list <- s8, record <- s9, fetchTimer <- s10, visits <- s11, lost <- s12, heard <- s13, stale <- s14,
  swapped <- s15, doubled <- s16, Ids <- {"r1", "r2", "f1"}, Foreign <- {"f1"}, Tracked <- "r1",
  MaxRowChanges <- 3, MaxVisits <- 1, MaxLost <- 1,
  \* LogStream
  written <- s1, chunks <- s2, opened <- s3, viewing <- s4, fetched <- s5, content <- s6, outran <- s7,
  repeated <- s8, sheet <- s9, page <- s10, logs <- s11, loads <- s12, fetches <- s13, again <- s14,
  MaxChunks <- 3, MaxOpens <- 2, Pages <- 2, MaxFetches <- 3

ASSUME PartsAssumption ==
  /\ Parts!Dialogs!DialogAssumption
  /\ SocketAssumption
  /\ Creates!Server!CreateServerAssumption
  /\ Feed!Rows!LiveAssumption
  /\ Feed!Log!LogAssumption
  /\ Parts!Terminal!ConsoleAssumption
  /\ Parts!Form!FormsAssumption
  /\ Creates!App!CreateApplicationAssumption
  /\ Parts!Ssl!SslMatchingAssumption
  /\ Parts!Env!EnvEditorAssumption
  /\ Creates!Templates!ServerTemplatesAssumption
  /\ Creates!Site!CreateSiteAssumption
  /\ Creates!Source!SourceSelectAssumption

\* The slots after those a part uses, as they stay.
After17 == <<s18, s19, s20, s21, s22>>
After16 == <<s17, After17>>
After14 == <<s15, s16, After16>>
After13 == <<s14, After14>>
After12 == <<s13, After13>>
After10 == <<s11, s12, After12>>
After9 == <<s10, After10>>
Slots == <<s1, s2, s3, s4, s5, s6, s7, s8, s9, After9>>

\* The same slots, empty.
Empty17 == s18 = None /\ s19 = None /\ s20 = None /\ s21 = None /\ s22 = None
Empty16 == s17 = None /\ Empty17
Empty14 == s15 = None /\ s16 = None /\ Empty16
Empty13 == s14 = None /\ Empty14
Empty12 == s13 = None /\ Empty13
Empty10 == s11 = None /\ s12 = None /\ Empty12
Empty9 == s10 = None /\ Empty10
Empty0 ==
  /\ s1 = None /\ s2 = None /\ s3 = None /\ s4 = None /\ s5 = None /\ s6 = None /\ s7 = None /\ s8 = None /\ s9 = None
  /\ Empty9

\* The socket of events, before anything happens.
NoSocket == project = "p1" /\ Init

PagesInit ==
  \/ part = "socket" /\ Init /\ Empty0
  \/ part = "dialogs" /\ Parts!Dialogs!Init /\ Empty9 /\ NoSocket
  \/ part = "server" /\ Creates!Server!Init /\ Empty16 /\ NoSocket
  \/ part = "lists" /\ Feed!Rows!Init /\ Empty16 /\ NoSocket
  \/ part = "logs" /\ Feed!Log!Init /\ Empty14 /\ NoSocket
  \/ part = "console" /\ Parts!Terminal!Init /\ Empty10 /\ NoSocket
  \/ part = "forms" /\ Parts!Form!Init /\ Empty16 /\ NoSocket
  \/ part = "application" /\ Creates!App!Init /\ Empty17 /\ NoSocket
  \/ part = "certificates" /\ Parts!Ssl!Init /\ Empty13 /\ NoSocket
  \/ part = "env" /\ Parts!Env!Init /\ NoSocket
  \/ part = "templates" /\ Creates!Templates!Init /\ Empty12 /\ NoSocket
  \/ part = "site" /\ Creates!Site!Init /\ s1 = ("s1" :> {"a"}) @@ ("s2" :> {"b"}) /\ Empty17 /\ NoSocket
  \/ part = "source" /\ Creates!Source!Init /\ Empty14 /\ NoSocket

SocketNext == part = "socket" /\ Next /\ UNCHANGED <<part, Slots>>
DialogsNext == part = "dialogs" /\ Parts!Dialogs!Next /\ UNCHANGED <<part, vars, After9>>
ServerNext == part = "server" /\ Creates!Server!Next /\ UNCHANGED <<part, vars, After16>>
RowsNext == part = "lists" /\ Feed!Rows!Next /\ UNCHANGED <<part, vars, After16>>
LogNext == part = "logs" /\ Feed!Log!Next /\ UNCHANGED <<part, vars, After14>>
TerminalNext == part = "console" /\ Parts!Terminal!Next /\ UNCHANGED <<part, vars, After10>>
FormNext == part = "forms" /\ Parts!Form!Next /\ UNCHANGED <<part, vars, After16>>
AppNext == part = "application" /\ Creates!App!Next /\ UNCHANGED <<part, vars, After17>>
SslNext == part = "certificates" /\ Parts!Ssl!Next /\ UNCHANGED <<part, vars, After13>>
EnvNext == part = "env" /\ Parts!Env!Next /\ UNCHANGED <<part, vars>>
TemplatesNext == part = "templates" /\ Creates!Templates!Next /\ UNCHANGED <<part, vars, After12>>
SiteNext == part = "site" /\ Creates!Site!Next /\ UNCHANGED <<part, vars, After17>>
SourceNext == part = "source" /\ Creates!Source!Next /\ UNCHANGED <<part, vars, After14>>
PagesNext ==
  \/ ServerNext \/ DialogsNext \/ SocketNext \/ RowsNext \/ LogNext \/ TerminalNext \/ FormNext
  \/ AppNext \/ SslNext \/ EnvNext \/ TemplatesNext \/ SiteNext \/ SourceNext

pages == <<part, vars, Slots>>
PagesSpec == PagesInit /\ [][PagesNext]_pages

-----------------------------------------------------------------------------
(* Properties. *)

\* Every part keeps its types: among them that a spinner spins only with a request, that an id names
\* one template, and that a version nobody wrote is empty.
PagesTypeOK ==
  /\ TypeOK
  /\ part = "dialogs" => Parts!Dialogs!TypeOK
  /\ part = "server" => Creates!Server!TypeOK
  /\ part = "lists" => Feed!Rows!TypeOK
  /\ part = "logs" => Feed!Log!TypeOK
  /\ part = "console" => Parts!Terminal!TypeOK
  /\ part = "forms" => Parts!Form!TypeOK
  /\ part = "application" => Creates!App!TypeOK
  /\ part = "certificates" => Parts!Ssl!TypeOK
  /\ part = "env" => Parts!Env!TypeOK
  /\ part = "templates" => Creates!Templates!TypeOK
  /\ part = "site" => Creates!Site!TypeOK
  /\ part = "source" => Creates!Source!TypeOK

\* An answer that comes late leaves alone what was opened, chosen, focused or typed since: a dialog
\* and a form opened after the submission, text typed after it, a runtime the user chose during
\* detection; and a save with a selected template sends the services that are selected then.
LateAnswersAreHarmless ==
  [][/\ part = "dialogs" => Parts!Dialogs!LateAnswerIsHarmless /\ Parts!Dialogs!FocusStaysInNewDialog
     /\ part = "forms" =>
          Parts!Form!LateAnswerIsHarmless /\ Parts!Form!TypingSurvives /\ Parts!Form!NothingTypedIsOverwritten
     /\ part = "application" => Creates!App!ChosenRuntimeStays
     /\ part = "templates" => Creates!Templates!UpdatesWithSelectedServices]_pages

\* A form opens fresh: without the text of an earlier opening, and of the page that was left.
DraftsAreFresh ==
  [][/\ part = "forms" => Parts!Form!OpensFresh
     /\ part = "dialogs" => Parts!Dialogs!DraftsAreFresh' /\ Parts!Dialogs!DialogsBelongToThePage']_pages

\* What was typed once is created once, nothing is sent that was not loaded, and a clean form shows
\* the record: whatever the order of answers, refreshes and key presses.
CreatedOnce ==
  part = "forms" =>
    Parts!Form!OneAtATime /\ Parts!Form!CreatedOnce /\ Parts!Form!LoadedBeforeSaved /\ Parts!Form!CleanFormsFollow

\* The terminal says connected only with the socket that takes the input, whose session is that of
\* the selected user; it has one socket, leaving it leaves none, and a user has no more sessions than
\* allowed.
TerminalIsTrue ==
  part = "console" =>
    /\ Parts!Terminal!ConnectedIsTrue /\ Parts!Terminal!InputGoesToSelected
    /\ Parts!Terminal!OneSocket /\ Parts!Terminal!LeavesNothing /\ Parts!Terminal!PerUserCap

\* Lists, records, tables and logs show what the server has once nothing is on its way, each row and
\* chunk once and in order; when no event was lost and no answer overtaken.
ShownFollows ==
  /\ part = "lists" =>
       /\ Feed!Rows!ForeignRowsStayOut /\ Feed!Rows!RowsAreUnique
       /\ Feed!Rows!ListFollows /\ Feed!Rows!RecordFollows /\ Feed!Rows!TableFollows
  /\ part = "logs" => Feed!Log!LogIsWhole /\ Feed!Log!ChunksInOrder /\ Feed!Log!PagesAreUnique

\* Dependent choices fit each other, whatever answer came last: region and plan their connection,
\* branch and version their repository and runtime, repository and branch their lists, the versions
\* of a site its user, a selected template one that is stored, the certificate of a new domain and the
\* list it is taken from the domain.
EveryChoiceFits ==
  /\ part = "server" =>
       Creates!Server!ChoicesFit /\ Creates!Server!ListsAreOfConnection /\ Creates!Server!FieldsAreOfProvider
  /\ part = "application" =>
       Creates!App!RuntimeIsChosenOrDetected /\ Creates!App!VersionFitsRuntime /\ Creates!App!BranchIsOfRepository
  /\ part = "source" => Creates!Source!ChoicesAreListed /\ Creates!Source!SourceOffIsEmpty
  /\ part = "site" =>
       Creates!Site!SuggestedUserIsFree /\ Creates!Site!LocksAreOfTheUser /\ Creates!Site!VersionsAreAccepted
  /\ part = "templates" => Creates!Templates!SelectedStaysStored
  /\ part = "certificates" => Parts!Ssl!AddedCertificateMatches /\ Parts!Ssl!ListIsOfDomain

\* What Save of the .env editor sends was read from the file it is written to, and both modes hold
\* it, comments included, as long as nothing was edited.
SavedWasRead ==
  part = "env" => Parts!Env!SavedWasRead /\ Parts!Env!ModesAgree /\ Parts!Env!NothingLostBySwitching
=============================================================================
