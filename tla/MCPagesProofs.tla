----------------------------- MODULE MCPagesProofs ---------------------------
(***************************************************************************)
(* What the run of the pages checks, by the proofs of its parts: a         *)
(* behaviour runs one part from the start, each of its steps is a step of  *)
(* that part, and a property asks nothing of the parts that do not run.    *)
(***************************************************************************)
EXTENDS MCPages, TLAPS

\* No step changes the part that runs.
LEMMA PartStays ==
  ASSUME NEW p
  PROVE  (part = p /\ [PagesNext]_pages => (part = p)') /\ (~(part = p) /\ [PagesNext]_pages => ~(part = p)')
BY DEF PagesNext, SocketNext, DialogsNext, ServerNext, RowsNext, LogNext, TerminalNext, FormNext, AppNext, SslNext,
       EnvNext, TemplatesNext, SiteNext, SourceNext, pages

\* The socket has variables of its own; as a part of Feed it is the same socket.
LEMMA SocketTerms ==
  /\ Feed!Attempts = Attempts /\ Feed!Asking = Asking /\ Feed!Live = Live /\ Feed!Connected = Connected
  /\ (Feed!Full <=> Full) /\ Feed!vars = vars /\ (Feed!Schedule <=> Schedule)
  /\ Feed!Cardinality(Connected) = Cardinality(Connected) /\ Feed!Cardinality(Live) = Cardinality(Live)
<1>1. \A S: Feed!Cardinality(S) = Cardinality(S)
  BY DEF Cardinality, IsFiniteSet, Feed!Cardinality, Feed!IsFiniteSet
<1>2. Feed!Attempts = Attempts /\ Feed!Asking = Asking /\ Feed!Live = Live /\ Feed!Connected = Connected
  BY DEF Attempts, Feed!Attempts, Asking, Feed!Asking, Live, Feed!Live, Connected, Feed!Connected
<1>3. Feed!Full <=> Full
  BY <1>1, <1>2 DEF Full, Feed!Full
<1>4. Feed!vars = vars
  BY DEF vars, Feed!vars, store, server, wire, bounds, Feed!store, Feed!server, Feed!wire, Feed!bounds
<1>5. Feed!Schedule <=> Schedule
  BY DEF Schedule, Feed!Schedule
<1> QED
  BY <1>1, <1>2, <1>3, <1>4, <1>5

LEMMA SocketSteps ==
  /\ (Feed!Visit <=> Visit) /\ (Feed!TimerFires <=> TimerFires) /\ (Feed!SignOut <=> SignOut)
  /\ (Feed!SignIn <=> SignIn) /\ (Feed!Reconnect <=> Reconnect)
  /\ \A p: Feed!ChangeProject(p) <=> ChangeProject(p)
  /\ \A n: /\ Feed!GrantToken(n) <=> GrantToken(n)
           /\ Feed!TokenFails(n) <=> TokenFails(n)
           /\ Feed!OpenSocket(n) <=> OpenSocket(n)
           /\ Feed!Receive(n) <=> Receive(n)
           /\ Feed!Accept(n) <=> Accept(n)
           /\ Feed!Refuse(n) <=> Refuse(n)
           /\ Feed!Break(n) <=> Break(n)
           /\ Feed!Subscribe(n) <=> Subscribe(n)
           /\ Feed!Forget(n) <=> Forget(n)
<1> USE SocketTerms DEF store, server, wire, bounds, Feed!store, Feed!server, Feed!wire, Feed!bounds
<1>1. \A socket, phases: Feed!Begin(socket, phases) <=> Begin(socket, phases)
  BY DEF Begin, Feed!Begin, IsUp, Feed!IsUp
<1>2. (Feed!Visit <=> Visit) /\ (Feed!TimerFires <=> TimerFires)
  BY <1>1 DEF Visit, Feed!Visit, TimerFires, Feed!TimerFires, IsUp, Feed!IsUp
<1>3. /\ (Feed!Fault <=> Fault) /\ Feed!ClosedNow = ClosedNow /\ Feed!Detached = Detached
      /\ (\A n: Feed!OnClose(n) <=> OnClose(n)) /\ \A n: Feed!Lose(n) <=> Lose(n)
  BY DEF Fault, Feed!Fault, ClosedNow, Feed!ClosedNow, Detached, Feed!Detached, Lose, Feed!Lose, OnClose, Feed!OnClose
<1>4. (Feed!SignOut <=> SignOut) /\ (Feed!SignIn <=> SignIn) /\ (Feed!Reconnect <=> Reconnect)
  BY <1>1, <1>3 DEF SignOut, Feed!SignOut, SignIn, Feed!SignIn, Reconnect, Feed!Reconnect
<1>5. \A p: Feed!ChangeProject(p) <=> ChangeProject(p)
  BY DEF ChangeProject, Feed!ChangeProject, Sends, Feed!Sends
<1>6. \A n: (Feed!GrantToken(n) <=> GrantToken(n)) /\ (Feed!TokenFails(n) <=> TokenFails(n))
  BY <1>3 DEF GrantToken, Feed!GrantToken, TokenFails, Feed!TokenFails
<1>7. \A n: (Feed!OpenSocket(n) <=> OpenSocket(n)) /\ (Feed!Receive(n) <=> Receive(n))
  BY DEF OpenSocket, Feed!OpenSocket, Receive, Feed!Receive, Confirmed, Feed!Confirmed
<1>8. \A n: Feed!Accept(n) <=> Accept(n)
  BY DEF Accept, Feed!Accept
<1>9. \A n: (Feed!Refuse(n) <=> Refuse(n)) /\ (Feed!Break(n) <=> Break(n))
  BY <1>3 DEF Refuse, Feed!Refuse, Break, Feed!Break
<1>10. \A n: Feed!Forget(n) <=> Forget(n)
  BY DEF Forget, Feed!Forget
<1>11. \A n: Feed!Subscribe(n) <=> Subscribe(n)
  <2>1. \A n, p: Feed!Moved(n, p) = Moved(n, p) /\ Feed!Joined(n, p) = Joined(n, p)
    BY DEF Moved, Feed!Moved, Joined, Feed!Joined
  <2> QED
    BY <1>3, <2>1 DEF Subscribe, Feed!Subscribe
<1> QED
  BY <1>2, <1>4, <1>5, <1>6, <1>7, <1>8, <1>9, <1>10, <1>11

\* What holds of the socket.
SocketSafe == TypeOK /\ SubscriptionsMatch /\ PerUserCap /\ OneLiveSocket /\ StatusIsTrue /\ ProjectIsFollowed

LEMMA SocketHere == PagesSpec => []SocketSafe
<1>1. PagesInit => Feed!Init
  <2>1. Feed!Init <=> Init
    BY SocketTerms DEF Feed!Init, Init
  <2> QED
    BY <2>1 DEF PagesInit, NoSocket
<1>2. [PagesNext]_pages => [Feed!Next]_(Feed!vars)
  <2>1. [PagesNext]_pages => [Next]_vars
    BY DEF PagesNext, SocketNext, DialogsNext, ServerNext, RowsNext, LogNext, TerminalNext, FormNext, AppNext,
           SslNext, EnvNext, TemplatesNext, SiteNext, SourceNext, pages
  <2>2. Next => Feed!Next
    BY SocketTerms, SocketSteps DEF Next, Feed!Next
  <2>3. UNCHANGED vars => UNCHANGED Feed!vars
    BY DEF vars, Feed!vars, store, server, wire, bounds, Feed!store, Feed!server, Feed!wire, Feed!bounds
  <2> QED
    BY <2>1, <2>2, <2>3
<1>3. /\ (Feed!TypeOK => TypeOK) /\ (Feed!SubscriptionsMatch => SubscriptionsMatch) /\ (Feed!PerUserCap => PerUserCap)
      /\ (Feed!OneLiveSocket => OneLiveSocket) /\ (Feed!StatusIsTrue => StatusIsTrue)
      /\ (Feed!ProjectIsFollowed => ProjectIsFollowed)
  BY SocketTerms
     DEF Feed!TypeOK, TypeOK, Feed!Phases, Phases, Feed!SubscriptionsMatch, SubscriptionsMatch, Feed!PerUserCap,
         PerUserCap, Feed!OneLiveSocket, OneLiveSocket, Feed!StatusIsTrue, StatusIsTrue, Feed!ProjectIsFollowed,
         ProjectIsFollowed, Feed!AtRest, AtRest
<1>4. Feed!SocketAssumption
  BY PartsAssumption DEF SocketAssumption, Feed!SocketAssumption
<1>5. PagesSpec => Feed!Spec
  BY <1>1, <1>2, PTL DEF PagesSpec, Feed!Spec
<1> QED
  BY <1>3, <1>4, <1>5, Feed!SubscriptionsAgree, Feed!ConnectionsAreLimited, Feed!EventsComeOnce,
     Feed!StatusIsNeverAhead, Feed!ProjectIsHeard, PTL
     DEF SocketSafe

\* A list, a record and a table.
RowsSafe ==
  /\ Feed!Rows!TypeOK
  /\ Feed!Rows!ForeignRowsStayOut /\ Feed!Rows!RowsAreUnique
  /\ Feed!Rows!ListFollows /\ Feed!Rows!RecordFollows /\ Feed!Rows!TableFollows

LEMMA RowsHere == PagesSpec => [](part = "lists" => RowsSafe)
<1>1. PagesInit /\ part = "lists" => Feed!Rows!Init
  BY DEF PagesInit
<1>2. part = "lists" /\ [PagesNext]_pages => [Feed!Rows!Next]_(Feed!Rows!vars)
  BY DEF PagesNext, SocketNext, DialogsNext, ServerNext, RowsNext, LogNext, TerminalNext, FormNext, AppNext,
         SslNext, EnvNext, TemplatesNext, SiteNext, SourceNext, pages, Slots, After9, After10, After12, After13,
         After14, After16, After17, Feed!Rows!vars, Feed!Rows!remote, Feed!Rows!history
<1>3. Feed!Rows!Init /\ [][Feed!Rows!Next]_(Feed!Rows!vars) => []RowsSafe
  BY PartsAssumption, Feed!RowsFollow, PTL DEF RowsSafe, Feed!Rows!Spec
<1>4. /\ part = "lists" /\ [PagesNext]_pages => (part = "lists")'
      /\ ~(part = "lists") /\ [PagesNext]_pages => ~(part = "lists")'
  BY PartStays
<1>5. PagesSpec /\ part = "lists" => []RowsSafe
  BY <1>1, <1>2, <1>3, <1>4, PTL DEF PagesSpec
<1>6. PagesSpec /\ ~(part = "lists") => [](~(part = "lists"))
  BY <1>4, PTL DEF PagesSpec
<1> QED
  BY <1>5, <1>6, PTL

\* A log that is read while it is written.
LogsSafe ==
  /\ Feed!Log!TypeOK
  /\ Feed!Log!LogIsWhole /\ Feed!Log!ChunksInOrder /\ Feed!Log!PagesAreUnique

LEMMA LogsHere == PagesSpec => [](part = "logs" => LogsSafe)
<1>1. PagesInit /\ part = "logs" => Feed!Log!Init
  BY DEF PagesInit
<1>2. part = "logs" /\ [PagesNext]_pages => [Feed!Log!Next]_(Feed!Log!vars)
  BY DEF PagesNext, SocketNext, DialogsNext, ServerNext, RowsNext, LogNext, TerminalNext, FormNext, AppNext,
         SslNext, EnvNext, TemplatesNext, SiteNext, SourceNext, pages, Slots, After9, After10, After12, After13,
         After14, After16, After17, Feed!Log!vars, Feed!Log!viewer, Feed!Log!lister
<1>3. Feed!Log!Init /\ [][Feed!Log!Next]_(Feed!Log!vars) => []LogsSafe
  BY PartsAssumption, Feed!LogsAreWhole, PTL DEF LogsSafe, Feed!Log!Spec
<1>4. /\ part = "logs" /\ [PagesNext]_pages => (part = "logs")'
      /\ ~(part = "logs") /\ [PagesNext]_pages => ~(part = "logs")'
  BY PartStays
<1>5. PagesSpec /\ part = "logs" => []LogsSafe
  BY <1>1, <1>2, <1>3, <1>4, PTL DEF PagesSpec
<1>6. PagesSpec /\ ~(part = "logs") => [](~(part = "logs"))
  BY <1>4, PTL DEF PagesSpec
<1> QED
  BY <1>5, <1>6, PTL

\* The terminal.
TerminalSafe ==
  /\ Parts!Terminal!TypeOK
  /\ Parts!Terminal!ConnectedIsTrue /\ Parts!Terminal!InputGoesToSelected /\ Parts!Terminal!OneSocket
  /\ Parts!Terminal!LeavesNothing /\ Parts!Terminal!PerUserCap

LEMMA TerminalHere == PagesSpec => [](part = "console" => TerminalSafe)
<1>1. PagesInit /\ part = "console" => Parts!Terminal!Init
  BY DEF PagesInit
<1>2. part = "console" /\ [PagesNext]_pages => [Parts!Terminal!Next]_(Parts!Terminal!vars)
  BY DEF PagesNext, SocketNext, DialogsNext, ServerNext, RowsNext, LogNext, TerminalNext, FormNext, AppNext,
         SslNext, EnvNext, TemplatesNext, SiteNext, SourceNext, pages, Slots, After9, After10, After12, After13,
         After14, After16, After17, Parts!Terminal!vars, Parts!Terminal!page, Parts!Terminal!history
<1>3. Parts!Terminal!Init /\ [][Parts!Terminal!Next]_(Parts!Terminal!vars) => []TerminalSafe
  <2>1. Parts!Terminal!ConsoleAssumption
    BY PartsAssumption
  <2> QED
    BY <2>1, Parts!InputReachesSelected, Parts!TerminalStatusIsTrue, Parts!SessionsAreLimited, PTL
       DEF TerminalSafe, Parts!Terminal!Spec
<1>4. /\ part = "console" /\ [PagesNext]_pages => (part = "console")'
      /\ ~(part = "console") /\ [PagesNext]_pages => ~(part = "console")'
  BY PartStays
<1>5. PagesSpec /\ part = "console" => []TerminalSafe
  BY <1>1, <1>2, <1>3, <1>4, PTL DEF PagesSpec
<1>6. PagesSpec /\ ~(part = "console") => [](~(part = "console"))
  BY <1>4, PTL DEF PagesSpec
<1> QED
  BY <1>5, <1>6, PTL

\* The editor of the .env file.
EditorSafe ==
  /\ Parts!Env!TypeOK
  /\ Parts!Env!SavedWasRead /\ Parts!Env!ModesAgree /\ Parts!Env!NothingLostBySwitching

LEMMA EditorHere == PagesSpec => [](part = "env" => EditorSafe)
<1>1. PagesInit /\ part = "env" => Parts!Env!Init
  BY DEF PagesInit
<1>2. part = "env" /\ [PagesNext]_pages => [Parts!Env!Next]_(Parts!Env!vars)
  BY DEF PagesNext, SocketNext, DialogsNext, ServerNext, RowsNext, LogNext, TerminalNext, FormNext, AppNext,
         SslNext, EnvNext, TemplatesNext, SiteNext, SourceNext, pages, Slots, After9, After10, After12, After13,
         After14, After16, After17, Parts!Env!vars, Parts!Env!server, Parts!Env!content, Parts!Env!queries,
         Parts!Env!requests, Parts!Env!history
<1>3. Parts!Env!Init /\ [][Parts!Env!Next]_(Parts!Env!vars) => []EditorSafe
  BY PartsAssumption, Parts!EditorTypeOK, Parts!SavedFileWasRead, PTL DEF EditorSafe
<1>4. /\ part = "env" /\ [PagesNext]_pages => (part = "env")'
      /\ ~(part = "env") /\ [PagesNext]_pages => ~(part = "env")'
  BY PartStays
<1>5. PagesSpec /\ part = "env" => []EditorSafe
  BY <1>1, <1>2, <1>3, <1>4, PTL DEF PagesSpec
<1>6. PagesSpec /\ ~(part = "env") => [](~(part = "env"))
  BY <1>4, PTL DEF PagesSpec
<1> QED
  BY <1>5, <1>6, PTL

\* The form of a server.
ServerSafe ==
  /\ Creates!Server!TypeOK
  /\ Creates!Server!ChoicesFit /\ Creates!Server!ListsAreOfConnection /\ Creates!Server!FieldsAreOfProvider

LEMMA ServerHere == PagesSpec => [](part = "server" => ServerSafe)
<1>1. PagesInit /\ part = "server" => Creates!Server!Init
  BY DEF PagesInit
<1>2. part = "server" /\ [PagesNext]_pages => [Creates!Server!Next]_(Creates!Server!vars)
  BY DEF PagesNext, SocketNext, DialogsNext, ServerNext, RowsNext, LogNext, TerminalNext, FormNext, AppNext,
         SslNext, EnvNext, TemplatesNext, SiteNext, SourceNext, pages, Slots, After9, After10, After12, After13,
         After14, After16, After17, Creates!Server!vars, Creates!Server!connections, Creates!Server!data,
         Creates!Server!lists, Creates!Server!lookups, Creates!Server!sheet, Creates!Server!history
<1>3. Creates!Server!Init /\ [][Creates!Server!Next]_(Creates!Server!vars) => []ServerSafe
  <2>1. Creates!Server!CreateServerAssumption
    BY PartsAssumption
  <2> QED
    BY <2>1, Creates!ServerChoicesFit, PTL DEF ServerSafe, Creates!Server!Spec
<1>4. /\ part = "server" /\ [PagesNext]_pages => (part = "server")'
      /\ ~(part = "server") /\ [PagesNext]_pages => ~(part = "server")'
  BY PartStays
<1>5. PagesSpec /\ part = "server" => []ServerSafe
  BY <1>1, <1>2, <1>3, <1>4, PTL DEF PagesSpec
<1>6. PagesSpec /\ ~(part = "server") => [](~(part = "server"))
  BY <1>4, PTL DEF PagesSpec
<1> QED
  BY <1>5, <1>6, PTL

\* The form of an application.
ApplicationSafe ==
  /\ Creates!App!TypeOK
  /\ Creates!App!RuntimeIsChosenOrDetected /\ Creates!App!VersionFitsRuntime /\ Creates!App!BranchIsOfRepository

LEMMA ApplicationHere == PagesSpec => [](part = "application" => ApplicationSafe)
<1>1. PagesInit /\ part = "application" => Creates!App!Init
  BY DEF PagesInit
<1>2. part = "application" /\ [PagesNext]_pages => [Creates!App!Next]_(Creates!App!vars)
  BY DEF PagesNext, SocketNext, DialogsNext, ServerNext, RowsNext, LogNext, TerminalNext, FormNext, AppNext,
         SslNext, EnvNext, TemplatesNext, SiteNext, SourceNext, pages, Slots, After9, After10, After12, After13,
         After14, After16, After17, Creates!App!vars, Creates!App!fields, Creates!App!chosen, Creates!App!looking
<1>3. Creates!App!Init /\ [][Creates!App!Next]_(Creates!App!vars) => []ApplicationSafe
  BY PartsAssumption, Creates!ApplicationTypeOK, Creates!ApplicationChoicesFit, PTL DEF ApplicationSafe
<1>4. /\ part = "application" /\ [PagesNext]_pages => (part = "application")'
      /\ ~(part = "application") /\ [PagesNext]_pages => ~(part = "application")'
  BY PartStays
<1>5. PagesSpec /\ part = "application" => []ApplicationSafe
  BY <1>1, <1>2, <1>3, <1>4, PTL DEF PagesSpec
<1>6. PagesSpec /\ ~(part = "application") => [](~(part = "application"))
  BY <1>4, PTL DEF PagesSpec
<1> QED
  BY <1>5, <1>6, PTL

\* The selects of a source control, its repositories and branches.
SourceSafe ==
  /\ Creates!Source!TypeOK
  /\ Creates!Source!ChoicesAreListed /\ Creates!Source!SourceOffIsEmpty

LEMMA SourceHere == PagesSpec => [](part = "source" => SourceSafe)
<1>1. PagesInit /\ part = "source" => Creates!Source!Init
  BY DEF PagesInit
<1>2. part = "source" /\ [PagesNext]_pages => [Creates!Source!Next]_(Creates!Source!vars)
  BY DEF PagesNext, SocketNext, DialogsNext, ServerNext, RowsNext, LogNext, TerminalNext, FormNext, AppNext,
         SslNext, EnvNext, TemplatesNext, SiteNext, SourceNext, pages, Slots, After9, After10, After12, After13,
         After14, After16, After17, Creates!Source!vars, Creates!Source!data, Creates!Source!repoField,
         Creates!Source!branchField
<1>3. Creates!Source!Init /\ [][Creates!Source!Next]_(Creates!Source!vars) => []SourceSafe
  BY PartsAssumption, Creates!SourceTypeOK, Creates!SourceChoicesFit, PTL DEF SourceSafe
<1>4. /\ part = "source" /\ [PagesNext]_pages => (part = "source")'
      /\ ~(part = "source") /\ [PagesNext]_pages => ~(part = "source")'
  BY PartStays
<1>5. PagesSpec /\ part = "source" => []SourceSafe
  BY <1>1, <1>2, <1>3, <1>4, PTL DEF PagesSpec
<1>6. PagesSpec /\ ~(part = "source") => [](~(part = "source"))
  BY <1>4, PTL DEF PagesSpec
<1> QED
  BY <1>5, <1>6, PTL

\* The form of a site.
SiteSafe ==
  /\ Creates!Site!TypeOK
  /\ Creates!Site!SuggestedUserIsFree /\ Creates!Site!LocksAreOfTheUser /\ Creates!Site!VersionsAreAccepted

LEMMA SiteHere == PagesSpec => [](part = "site" => SiteSafe)
<1>1. PagesInit /\ part = "site" => Creates!Site!Init
  BY DEF PagesInit
<1>2. part = "site" /\ [PagesNext]_pages => [Creates!Site!Next]_(Creates!Site!vars)
  BY DEF PagesNext, SocketNext, DialogsNext, ServerNext, RowsNext, LogNext, TerminalNext, FormNext, AppNext,
         SslNext, EnvNext, TemplatesNext, SiteNext, SourceNext, pages, Slots, After9, After10, After12, After13,
         After14, After16, After17, Creates!Site!vars, Creates!Site!remote, Creates!Site!query, Creates!Site!chosen,
         Creates!Site!effects, Creates!Site!submission
<1>3. Creates!Site!Init /\ [][Creates!Site!Next]_(Creates!Site!vars) => []SiteSafe
  BY PartsAssumption, Creates!SiteTypeOK, Creates!SiteChoicesFit, PTL DEF SiteSafe
<1>4. /\ part = "site" /\ [PagesNext]_pages => (part = "site")'
      /\ ~(part = "site") /\ [PagesNext]_pages => ~(part = "site")'
  BY PartStays
<1>5. PagesSpec /\ part = "site" => []SiteSafe
  BY <1>1, <1>2, <1>3, <1>4, PTL DEF PagesSpec
<1>6. PagesSpec /\ ~(part = "site") => [](~(part = "site"))
  BY <1>4, PTL DEF PagesSpec
<1> QED
  BY <1>5, <1>6, PTL

\* The picker of server templates.
TemplatesSafe ==
  /\ Creates!Templates!TypeOK
  /\ Creates!Templates!SelectedStaysStored

LEMMA TemplatesHere == PagesSpec => [](part = "templates" => TemplatesSafe)
<1>1. PagesInit /\ part = "templates" => Creates!Templates!Init
  BY DEF PagesInit
<1>2. part = "templates" /\ [PagesNext]_pages => [Creates!Templates!Next]_(Creates!Templates!vars)
  BY DEF PagesNext, SocketNext, DialogsNext, ServerNext, RowsNext, LogNext, TerminalNext, FormNext, AppNext,
         SslNext, EnvNext, TemplatesNext, SiteNext, SourceNext, pages, Slots, After9, After10, After12, After13,
         After14, After16, After17, Creates!Templates!vars, Creates!Templates!listing, Creates!Templates!visit,
         Creates!Templates!stored
<1>3. Creates!Templates!Init /\ [][Creates!Templates!Next]_(Creates!Templates!vars) => []TemplatesSafe
  BY PartsAssumption, Creates!TemplatesTypeOK, Creates!SelectedTemplatesStay, PTL DEF TemplatesSafe
<1>4. /\ part = "templates" /\ [PagesNext]_pages => (part = "templates")'
      /\ ~(part = "templates") /\ [PagesNext]_pages => ~(part = "templates")'
  BY PartStays
<1>5. PagesSpec /\ part = "templates" => []TemplatesSafe
  BY <1>1, <1>2, <1>3, <1>4, PTL DEF PagesSpec
<1>6. PagesSpec /\ ~(part = "templates") => [](~(part = "templates"))
  BY <1>4, PTL DEF PagesSpec
<1> QED
  BY <1>5, <1>6, PTL

\* The form of a domain.
CertificatesSafe ==
  /\ Parts!Ssl!TypeOK
  /\ Parts!Ssl!AddedCertificateMatches /\ Parts!Ssl!ListIsOfDomain

LEMMA CertificatesHere == PagesSpec => [](part = "certificates" => CertificatesSafe)
<1>1. PagesInit /\ part = "certificates" => Parts!Ssl!Init
  BY DEF PagesInit
<1>2. part = "certificates" /\ [PagesNext]_pages => [Parts!Ssl!Next]_(Parts!Ssl!vars)
  BY DEF PagesNext, SocketNext, DialogsNext, ServerNext, RowsNext, LogNext, TerminalNext, FormNext, AppNext,
         SslNext, EnvNext, TemplatesNext, SiteNext, SourceNext, pages, Slots, After9, After10, After12, After13,
         After14, After16, After17, Parts!Ssl!vars, Parts!Ssl!settings, Parts!Ssl!fetching
<1>3. Parts!Ssl!Init /\ [][Parts!Ssl!Next]_(Parts!Ssl!vars) => []CertificatesSafe
  BY PartsAssumption, Parts!AddedDomainsAreCovered, PTL DEF CertificatesSafe
<1>4. /\ part = "certificates" /\ [PagesNext]_pages => (part = "certificates")'
      /\ ~(part = "certificates") /\ [PagesNext]_pages => ~(part = "certificates")'
  BY PartStays
<1>5. PagesSpec /\ part = "certificates" => []CertificatesSafe
  BY <1>1, <1>2, <1>3, <1>4, PTL DEF PagesSpec
<1>6. PagesSpec /\ ~(part = "certificates") => [](~(part = "certificates"))
  BY <1>4, PTL DEF PagesSpec
<1> QED
  BY <1>5, <1>6, PTL

\* A form.
FormsSafe ==
  /\ Parts!Form!TypeOK
  /\ Parts!Form!OneAtATime /\ Parts!Form!CreatedOnce /\ Parts!Form!LoadedBeforeSaved /\ Parts!Form!CleanFormsFollow

LEMMA FormSteps ==
  /\ PagesInit /\ part = "forms" => Parts!Form!Init
  /\ part = "forms" /\ [PagesNext]_pages => [Parts!Form!Next]_(Parts!Form!vars)
<1>1. PagesInit /\ part = "forms" => Parts!Form!Init
  BY DEF PagesInit
<1>2. part = "forms" /\ [PagesNext]_pages => [Parts!Form!Next]_(Parts!Form!vars)
  BY DEF PagesNext, SocketNext, DialogsNext, ServerNext, RowsNext, LogNext, TerminalNext, FormNext, AppNext,
         SslNext, EnvNext, TemplatesNext, SiteNext, SourceNext, pages, Slots, After9, After10, After12, After13,
         After14, After16, After17, Parts!Form!vars, Parts!Form!values,
         Parts!Form!fetch, Parts!Form!bounds
<1> QED
  BY <1>1, <1>2

LEMMA FormsHere == PagesSpec => [](part = "forms" => FormsSafe)
<1>1. Parts!Form!Init /\ [][Parts!Form!Next]_(Parts!Form!vars) => []FormsSafe
  BY PartsAssumption, Parts!FormsSendOnce, PTL DEF FormsSafe, Parts!Form!Spec
<1>2. /\ part = "forms" /\ [PagesNext]_pages => (part = "forms")'
      /\ ~(part = "forms") /\ [PagesNext]_pages => ~(part = "forms")'
  BY PartStays
<1>3. PagesSpec /\ part = "forms" => []FormsSafe
  BY FormSteps, <1>1, <1>2, PTL DEF PagesSpec
<1>4. PagesSpec /\ ~(part = "forms") => [](~(part = "forms"))
  BY <1>2, PTL DEF PagesSpec
<1> QED
  BY <1>3, <1>4, PTL

\* What a step of a form does.
FormMoves ==
  Parts!Form!LateAnswerIsHarmless /\ Parts!Form!TypingSurvives /\ Parts!Form!NothingTypedIsOverwritten
LEMMA FormMovesHere == PagesSpec => [][part = "forms" => FormMoves /\ Parts!Form!OpensFresh]_pages
<1>1. Parts!Form!Init /\ [][Parts!Form!Next]_(Parts!Form!vars)
        => [][FormMoves]_(Parts!Form!vars) /\ [][Parts!Form!OpensFresh]_(Parts!Form!vars)
  <2>1. Parts!Form!FormsAssumption
    BY PartsAssumption
  <2>2. Parts!Form!Spec => [][FormMoves]_(Parts!Form!vars)
    <3>1. [/\ Parts!Form!LateAnswerIsHarmless /\ Parts!Form!TypingSurvives
           /\ Parts!Form!NothingTypedIsOverwritten]_(Parts!Form!vars) => [FormMoves]_(Parts!Form!vars)
      BY DEF FormMoves
    <3> QED
      BY <2>1, <3>1, Parts!LateAnswersSpareForms, PTL
  <2> QED
    BY <2>1, <2>2, Parts!FormsOpenFresh, PTL DEF Parts!Form!Spec
<1>2. part = "forms" /\ [PagesNext]_pages /\ UNCHANGED Parts!Form!vars => UNCHANGED pages
  BY DEF PagesNext, SocketNext, DialogsNext, ServerNext, RowsNext, LogNext, TerminalNext, FormNext, AppNext,
         SslNext, EnvNext, TemplatesNext, SiteNext, SourceNext, pages, Slots, After9, After10, After12, After13,
         After14, After16, After17, Parts!Form!vars, Parts!Form!values,
         Parts!Form!fetch, Parts!Form!bounds
<1>3. part = "forms" /\ [PagesNext]_pages /\ [FormMoves]_(Parts!Form!vars) /\ [Parts!Form!OpensFresh]_(Parts!Form!vars)
        => [part = "forms" => FormMoves /\ Parts!Form!OpensFresh]_pages
  BY <1>2
<1>4. ~(part = "forms") => [part = "forms" => FormMoves /\ Parts!Form!OpensFresh]_pages
  OBVIOUS
<1>5. /\ part = "forms" /\ [PagesNext]_pages => (part = "forms")'
      /\ ~(part = "forms") /\ [PagesNext]_pages => ~(part = "forms")'
  BY PartStays
<1>6. PagesSpec /\ part = "forms" => [][part = "forms" => FormMoves /\ Parts!Form!OpensFresh]_pages
  BY FormSteps, <1>1, <1>3, <1>5, PTL DEF PagesSpec
<1>7. PagesSpec /\ ~(part = "forms") => [][part = "forms" => FormMoves /\ Parts!Form!OpensFresh]_pages
  BY <1>4, <1>5, PTL DEF PagesSpec
<1> QED
  BY <1>6, <1>7, PTL

\* The dialogs.
DialogsSafe == Parts!Dialogs!TypeOK /\ Parts!Dialogs!DraftsAreFresh /\ Parts!Dialogs!DialogsBelongToThePage
DialogMoves == Parts!Dialogs!LateAnswerIsHarmless /\ Parts!Dialogs!FocusStaysInNewDialog

LEMMA DialogSteps ==
  /\ PagesInit /\ part = "dialogs" => Parts!Dialogs!Init
  /\ part = "dialogs" /\ [PagesNext]_pages => [Parts!Dialogs!Next]_(Parts!Dialogs!vars)
<1>1. PagesInit /\ part = "dialogs" => Parts!Dialogs!Init
  BY DEF PagesInit
<1>2. part = "dialogs" /\ [PagesNext]_pages => [Parts!Dialogs!Next]_(Parts!Dialogs!vars)
  BY DEF PagesNext, SocketNext, DialogsNext, ServerNext, RowsNext, LogNext, TerminalNext, FormNext, AppNext,
         SslNext, EnvNext, TemplatesNext, SiteNext, SourceNext, pages, Slots, After9, After10, After12, After13,
         After14, After16, After17, Parts!Dialogs!vars
<1> QED
  BY <1>1, <1>2

LEMMA DialogsHere == PagesSpec => [](part = "dialogs" => DialogsSafe)
<1>1. Parts!Dialogs!Init /\ [][Parts!Dialogs!Next]_(Parts!Dialogs!vars) => []DialogsSafe
  BY PartsAssumption, Parts!DialogsOpenFresh, PTL DEF DialogsSafe, Parts!Dialogs!Spec
<1>2. /\ part = "dialogs" /\ [PagesNext]_pages => (part = "dialogs")'
      /\ ~(part = "dialogs") /\ [PagesNext]_pages => ~(part = "dialogs")'
  BY PartStays
<1>3. PagesSpec /\ part = "dialogs" => []DialogsSafe
  BY DialogSteps, <1>1, <1>2, PTL DEF PagesSpec
<1>4. PagesSpec /\ ~(part = "dialogs") => [](~(part = "dialogs"))
  BY <1>2, PTL DEF PagesSpec
<1> QED
  BY <1>3, <1>4, PTL

LEMMA DialogMovesHere == PagesSpec => [][part = "dialogs" => DialogMoves /\ DialogsSafe']_pages
<1>1. Parts!Dialogs!Init /\ [][Parts!Dialogs!Next]_(Parts!Dialogs!vars)
        => []DialogsSafe /\ [][DialogMoves]_(Parts!Dialogs!vars)
  <2>1. Parts!Dialogs!DialogAssumption
    BY PartsAssumption
  <2>2. Parts!Dialogs!Spec => [][DialogMoves]_(Parts!Dialogs!vars)
    <3>1. [Parts!Dialogs!LateAnswerIsHarmless /\ Parts!Dialogs!FocusStaysInNewDialog]_(Parts!Dialogs!vars)
            => [DialogMoves]_(Parts!Dialogs!vars)
      BY DEF DialogMoves
    <3> QED
      BY <2>1, <3>1, Parts!LateAnswersSpareDialogs, PTL
  <2>3. Parts!Dialogs!Spec => []DialogsSafe
    BY <2>1, Parts!DialogsOpenFresh, PTL DEF DialogsSafe
  <2> QED
    BY <2>2, <2>3, PTL DEF Parts!Dialogs!Spec
<1>2. part = "dialogs" /\ [PagesNext]_pages /\ UNCHANGED Parts!Dialogs!vars => UNCHANGED pages
  BY DEF PagesNext, SocketNext, DialogsNext, ServerNext, RowsNext, LogNext, TerminalNext, FormNext, AppNext,
         SslNext, EnvNext, TemplatesNext, SiteNext, SourceNext, pages, Slots, After9, After10, After12, After13,
         After14, After16, After17, Parts!Dialogs!vars
<1>3. part = "dialogs" /\ [PagesNext]_pages /\ [DialogMoves]_(Parts!Dialogs!vars) /\ DialogsSafe'
        => [part = "dialogs" => DialogMoves /\ DialogsSafe']_pages
  BY <1>2
<1>4. ~(part = "dialogs") => [part = "dialogs" => DialogMoves /\ DialogsSafe']_pages
  OBVIOUS
<1>5. /\ part = "dialogs" /\ [PagesNext]_pages => (part = "dialogs")'
      /\ ~(part = "dialogs") /\ [PagesNext]_pages => ~(part = "dialogs")'
  BY PartStays
<1>6. PagesSpec /\ part = "dialogs" => [][part = "dialogs" => DialogMoves /\ DialogsSafe']_pages
  BY DialogSteps, <1>1, <1>3, <1>5, PTL DEF PagesSpec
<1>7. PagesSpec /\ ~(part = "dialogs") => [][part = "dialogs" => DialogMoves /\ DialogsSafe']_pages
  BY <1>4, <1>5, PTL DEF PagesSpec
<1> QED
  BY <1>6, <1>7, PTL

\* What a step of the form of an application does.
LEMMA RuntimeMovesHere == PagesSpec => [][part = "application" => Creates!App!ChosenRuntimeStays]_pages
<1>1. PagesInit /\ part = "application" => Creates!App!Init
  BY DEF PagesInit
<1>2. part = "application" /\ [PagesNext]_pages => [Creates!App!Next]_(Creates!App!vars)
  BY DEF PagesNext, SocketNext, DialogsNext, ServerNext, RowsNext, LogNext, TerminalNext, FormNext, AppNext,
         SslNext, EnvNext, TemplatesNext, SiteNext, SourceNext, pages, Slots, After9, After10, After12, After13,
         After14, After16, After17, Creates!App!vars, Creates!App!fields, Creates!App!chosen, Creates!App!looking
<1>3. part = "application" /\ [PagesNext]_pages /\ UNCHANGED Creates!App!vars => UNCHANGED pages
  BY DEF PagesNext, SocketNext, DialogsNext, ServerNext, RowsNext, LogNext, TerminalNext, FormNext, AppNext,
         SslNext, EnvNext, TemplatesNext, SiteNext, SourceNext, pages, Slots, After9, After10, After12, After13,
         After14, After16, After17, Creates!App!vars, Creates!App!fields, Creates!App!chosen, Creates!App!looking
<1>4. part = "application" /\ [PagesNext]_pages /\ [Creates!App!ChosenRuntimeStays]_(Creates!App!vars)
        => [part = "application" => Creates!App!ChosenRuntimeStays]_pages
  BY <1>3
<1>5. ~(part = "application") => [part = "application" => Creates!App!ChosenRuntimeStays]_pages
  OBVIOUS
<1>6. /\ part = "application" /\ [PagesNext]_pages => (part = "application")'
      /\ ~(part = "application") /\ [PagesNext]_pages => ~(part = "application")'
  BY PartStays
<1>7. PagesSpec /\ part = "application" => [][part = "application" => Creates!App!ChosenRuntimeStays]_pages
  BY <1>1, <1>2, <1>4, <1>6, Creates!ChosenRuntimesStay, PTL DEF PagesSpec
<1>8. PagesSpec /\ ~(part = "application") => [][part = "application" => Creates!App!ChosenRuntimeStays]_pages
  BY <1>5, <1>6, PTL DEF PagesSpec
<1> QED
  BY <1>7, <1>8, PTL

\* What a step of the picker of templates does.
LEMMA TemplateMovesHere == PagesSpec 
        => [][part = "templates" => Creates!Templates!UpdatesWithSelectedServices]_pages
<1>1. PagesInit /\ part = "templates" => Creates!Templates!Init
  BY DEF PagesInit
<1>2. part = "templates" /\ [PagesNext]_pages => [Creates!Templates!Next]_(Creates!Templates!vars)
  BY DEF PagesNext, SocketNext, DialogsNext, ServerNext, RowsNext, LogNext, TerminalNext, FormNext, AppNext,
         SslNext, EnvNext, TemplatesNext, SiteNext, SourceNext, pages, Slots, After9, After10, After12, After13,
         After14, After16, After17, Creates!Templates!vars, Creates!Templates!listing, Creates!Templates!visit,
         Creates!Templates!stored
<1>3. part = "templates" /\ [PagesNext]_pages /\ UNCHANGED Creates!Templates!vars => UNCHANGED pages
  BY DEF PagesNext, SocketNext, DialogsNext, ServerNext, RowsNext, LogNext, TerminalNext, FormNext, AppNext,
         SslNext, EnvNext, TemplatesNext, SiteNext, SourceNext, pages, Slots, After9, After10, After12, After13,
         After14, After16, After17, Creates!Templates!vars, Creates!Templates!listing, Creates!Templates!visit,
         Creates!Templates!stored
<1>4. part = "templates" /\ [PagesNext]_pages /\ [Creates!Templates!UpdatesWithSelectedServices]_(Creates!Templates!vars)
        => [part = "templates" => Creates!Templates!UpdatesWithSelectedServices]_pages
  BY <1>3
<1>5. ~(part = "templates") => [part = "templates" => Creates!Templates!UpdatesWithSelectedServices]_pages
  OBVIOUS
<1>6. /\ part = "templates" /\ [PagesNext]_pages => (part = "templates")'
      /\ ~(part = "templates") /\ [PagesNext]_pages => ~(part = "templates")'
  BY PartStays
<1>7. PagesSpec /\ part = "templates" 
        => [][part = "templates" => Creates!Templates!UpdatesWithSelectedServices]_pages
  BY <1>1, <1>2, <1>4, <1>6, PartsAssumption, Creates!UpdatesSendSelected, PTL DEF PagesSpec
<1>8. PagesSpec /\ ~(part = "templates") 
        => [][part = "templates" => Creates!Templates!UpdatesWithSelectedServices]_pages
  BY <1>5, <1>6, PTL DEF PagesSpec
<1> QED
  BY <1>7, <1>8, PTL
-----------------------------------------------------------------------------
\* The types of the socket and of the part that runs, with what some of them also say: a terminal of one socket,
\* a template of one id, a Detecting of one question, a version with a writer.
THEOREM TypesHold == PagesSpec => []PagesTypeOK
<1>1. /\ SocketSafe
      /\ (part = "dialogs" => DialogsSafe) /\ (part = "server" => ServerSafe) /\ (part = "lists" => RowsSafe)
      /\ (part = "logs" => LogsSafe) /\ (part = "console" => TerminalSafe) /\ (part = "forms" => FormsSafe)
      /\ (part = "application" => ApplicationSafe) /\ (part = "certificates" => CertificatesSafe)
      /\ (part = "env" => EditorSafe) /\ (part = "templates" => TemplatesSafe) /\ (part = "site" => SiteSafe)
      /\ (part = "source" => SourceSafe)
      => PagesTypeOK
  BY DEF PagesTypeOK, SocketSafe, DialogsSafe, ServerSafe, RowsSafe, LogsSafe, TerminalSafe, FormsSafe,
         ApplicationSafe, CertificatesSafe, EditorSafe, TemplatesSafe, SiteSafe, SourceSafe
<1> QED
  BY <1>1, SocketHere, DialogsHere, ServerHere, RowsHere, LogsHere, TerminalHere, FormsHere, ApplicationHere,
     CertificatesHere, EditorHere, TemplatesHere, SiteHere, SourceHere, PTL

\* The terminal says connected only with the socket that takes the input, whose session is that of the
\* selected user, and has one socket, which leaving it closes; a user has no more sessions than allowed.
THEOREM TerminalHolds == PagesSpec => []TerminalIsTrue
<1>1. (part = "console" => TerminalSafe) => TerminalIsTrue
  BY DEF TerminalIsTrue, TerminalSafe
<1> QED
  BY <1>1, TerminalHere, PTL

\* What Save of the .env editor sends was read from the file it is written to, and both modes hold it as
\* long as nothing was edited.
THEOREM EditorHolds == PagesSpec => []SavedWasRead
<1>1. (part = "env" => EditorSafe) => SavedWasRead
  BY DEF SavedWasRead, EditorSafe
<1> QED
  BY <1>1, EditorHere, PTL

\* Dependent choices fit each other in every form, whatever answer comes last.
THEOREM ChoicesHold == PagesSpec => []EveryChoiceFits
<1> DEFINE Fit ==
  /\ part = "server" => ServerSafe
  /\ part = "application" => ApplicationSafe
  /\ part = "source" => SourceSafe
  /\ part = "site" => SiteSafe
  /\ part = "templates" => TemplatesSafe
  /\ part = "certificates" => CertificatesSafe
<1>1. Fit => EveryChoiceFits
  BY DEF EveryChoiceFits, ServerSafe, ApplicationSafe, SourceSafe, SiteSafe, TemplatesSafe, CertificatesSafe
<1>2. PagesSpec => []Fit
  BY ServerHere, ApplicationHere, SourceHere, SiteHere, TemplatesHere, CertificatesHere, PTL
<1> HIDE DEF Fit
<1> QED
  BY <1>1, <1>2, PTL

\* Pages with a socket: the server sends a page the events of one project, a user has no more connections than
\* allowed, one socket delivers, and the status and the project a page believes in are those of that socket.
THEOREM SocketHolds ==
  PagesSpec => [](SubscriptionsMatch /\ PerUserCap /\ OneLiveSocket /\ StatusIsTrue /\ ProjectIsFollowed)
<1>1. SocketSafe => SubscriptionsMatch /\ PerUserCap /\ OneLiveSocket /\ StatusIsTrue /\ ProjectIsFollowed
  BY DEF SocketSafe
<1> QED
  BY <1>1, SocketHere, PTL

\* Lists, records, tables and logs show what the server has once nothing is on its way, each row and chunk once,
\* when no event was lost and no answer overtaken.
THEOREM ShownHolds == PagesSpec => []ShownFollows
<1>1. (part = "lists" => RowsSafe) /\ (part = "logs" => LogsSafe) => ShownFollows
  BY DEF ShownFollows, RowsSafe, LogsSafe
<1> QED
  BY <1>1, RowsHere, LogsHere, PTL

\* What was typed once is created once, nothing is sent that was not loaded, and a clean form shows the record,
\* whatever the order of answers, refreshes and key presses.
THEOREM FormsHold == PagesSpec => []CreatedOnce
<1>1. (part = "forms" => FormsSafe) => CreatedOnce
  BY DEF CreatedOnce, FormsSafe
<1> QED
  BY <1>1, FormsHere, PTL

\* An answer that comes late leaves alone what was opened, chosen, focused or typed since.
THEOREM LateAnswersHold == PagesSpec => LateAnswersAreHarmless
<1>1. /\ [part = "forms" => FormMoves /\ Parts!Form!OpensFresh]_pages
      /\ [part = "dialogs" => DialogMoves /\ DialogsSafe']_pages
      /\ [part = "application" => Creates!App!ChosenRuntimeStays]_pages
      /\ [part = "templates" => Creates!Templates!UpdatesWithSelectedServices]_pages
      => [/\ part = "dialogs" => Parts!Dialogs!LateAnswerIsHarmless /\ Parts!Dialogs!FocusStaysInNewDialog
          /\ part = "forms" =>
               Parts!Form!LateAnswerIsHarmless /\ Parts!Form!TypingSurvives /\ Parts!Form!NothingTypedIsOverwritten
          /\ part = "application" => Creates!App!ChosenRuntimeStays
          /\ part = "templates" => Creates!Templates!UpdatesWithSelectedServices]_pages
  BY DEF FormMoves, DialogMoves
<1> QED
  BY <1>1, FormMovesHere, DialogMovesHere, RuntimeMovesHere, TemplateMovesHere, PTL DEF LateAnswersAreHarmless

\* A form opens without the text of an earlier opening, and a dialog without that of the page that was left.
THEOREM OpeningsHold == PagesSpec => DraftsAreFresh
<1>1. /\ [part = "forms" => FormMoves /\ Parts!Form!OpensFresh]_pages
      /\ [part = "dialogs" => DialogMoves /\ DialogsSafe']_pages
      => [/\ part = "forms" => Parts!Form!OpensFresh
          /\ part = "dialogs" => Parts!Dialogs!DraftsAreFresh' /\ Parts!Dialogs!DialogsBelongToThePage']_pages
  BY DEF DialogsSafe
<1> QED
  BY <1>1, FormMovesHere, DialogMovesHere, PTL DEF DraftsAreFresh
=============================================================================
