----------------------------- MODULE CreateSite ------------------------------
(***************************************************************************)
(* The form that creates a site.  While nobody names the Linux user, the   *)
(* form suggests one that is free; a user that exists already brings the   *)
(* versions of its tools, which the form then takes over and locks.  Both  *)
(* are effects of the page: they run after every change and see the        *)
(* answers of the server whenever these come.                              *)
(***************************************************************************)
EXTENDS Naturals, Sequences, FiniteSets, SequencesExt

CONSTANTS
  None,               \* an empty field, a tool without a version
  NotLoaded,          \* a list that has not been read
  Servers, Users, Domains,
  Candidates,         \* [Domains -> Seq(Users)]: the names a domain suggests, the shortest first
  Reserved,           \* names no user may take
  Types, Tools,
  ToolingOf, PickerOf, SelectorOf, \* [Types -> SUBSET Tools]: optional, required, one of
  Supported,          \* [Tools -> Seq(versions)], the latest first
  Installed,          \* [Servers -> [Users -> [Tools -> a version or None]]]
  MaxJoined, MaxEdits \* bounds: users that others create meanwhile; changes of the form

NoVersion == "none"   \* the choice of an optional tool that installs nothing
\* What a user brought may be older than anything the form offers.
Versions == (UNION {ToSet(Supported[t]): t \in Tools}) \cup {NoVersion}
            \cup ({Installed[s][u][t]: s \in Servers, u \in Users, t \in Tools} \ {None})

CreateSiteAssumption ==
  /\ Candidates \in [Domains -> Seq(Users)] /\ Reserved \subseteq Users
  /\ {ToolingOf, PickerOf, SelectorOf} \subseteq [Types -> SUBSET Tools]
  /\ None \notin Servers \cup Users \cup Domains \cup Tools \cup Versions /\ \A list \in SUBSET Users: list # NotLoaded
  /\ {MaxJoined, MaxEdits} \subseteq Nat
  /\ \A t \in Tools: Supported[t] \in Seq(Versions) /\ Len(Supported[t]) > 0

VARIABLES
  accounts,           \* the users of each server
  known, fetching,    \* what the query of each server holds, and the queries under way
  server, type, domain, user, versions, packageManager, \* form.data; the last one is the selector's tool
  userManuallyEdited,
  previousLocks,      \* the versions the page locked last
  sent, created,      \* the submission under way; the site it created
  joined, edits,      \* bounds
  origin, retyped     \* history: who wrote each version; the type was changed

remote == <<accounts, joined>>
query == <<known, fetching>>
chosen == <<server, type, domain, packageManager, userManuallyEdited>>
effects == <<user, versions, previousLocks, origin>>
submission == <<sent, created>>
vars == <<remote, query, chosen, effects, submission, edits, retyped>>

TypeOK ==
  /\ accounts \in [Servers -> SUBSET Users] /\ known \in [Servers -> (SUBSET Users) \cup {NotLoaded}]
  /\ fetching \subseteq Servers /\ server \in Servers \cup {None} /\ type \in Types
  /\ domain \in Domains \cup {None} /\ user \in Users \cup {None} /\ packageManager \in Tools \cup {None}
  /\ {versions, previousLocks} \subseteq [Tools -> Versions \cup {None}]
  /\ origin \in [Tools -> {"nobody", "default", "user", "lock", "release"}]
  /\ {userManuallyEdited, retyped} \subseteq BOOLEAN /\ joined \in 0..MaxJoined /\ edits \in 0..MaxEdits
  /\ sent = None \/ sent.server \in Servers
  /\ (\A t \in Tools: versions[t] = None <=> origin[t] = "nobody")
  /\ (server = None /\ ~userManuallyEdited => user = None)

-----------------------------------------------------------------------------
(* The effects, over the state that the change leaves behind. *)

\* The first name of the domain that is neither taken nor reserved.
suggestIsolatedUsername(d, taken) ==
  LET free == {i \in 1..Len(Candidates[d]): Candidates[d][i] \notin taken \cup Reserved}
  IN IF free = {} THEN None ELSE Candidates[d][Min(free)]

existing(list) == IF list = NotLoaded THEN {} ELSE list
isLoading(s) == known'[s] = NotLoaded /\ s \in fetching'
SuggestedUser(current) ==
  IF userManuallyEdited' THEN current
  ELSE IF server' = None \/ domain' = None THEN None
  ELSE IF isLoading(server') THEN current
  ELSE suggestIsolatedUsername(domain', existing(known'[server']))

activeTools(ty) == ToolingOf[ty] \cup PickerOf[ty] \cup SelectorOf[ty]
lockedVersions(s, present, u) ==
  [t \in Tools |-> IF s # None /\ u \in present THEN Installed[s][u][t] ELSE None]
Fallback(t) == IF t \in ToolingOf[type'] THEN NoVersion ELSE Supported[t][1]

\* One pass over the tools: `v` is what the fields hold, with who wrote it and what was locked before.
Locked(locks, v) == [t \in Tools |->
  IF t \in activeTools(type') /\ locks[t] # None THEN [is |-> locks[t], by |-> "lock", lock |-> locks[t]]
  ELSE IF t \in activeTools(type') /\ v[t].lock # None
  THEN [is |-> Fallback(t), by |-> "release", lock |-> None]
  ELSE v[t]]

\* The suggestion is written by the pass that still sees the user before it; the next one sees it.
Effects(u, v) ==
  LET present == IF server' = None THEN {} ELSE existing(known'[server'])
      suggested == SuggestedUser(u)
      settled == Locked(lockedVersions(server', present, suggested),
                        Locked(lockedVersions(server', present, u), v))
  IN /\ user' = suggested
     /\ versions' = [t \in Tools |-> settled[t].is]
     /\ origin' = [t \in Tools |-> settled[t].by]
     /\ previousLocks' = [t \in Tools |-> settled[t].lock]

Current == [t \in Tools |-> [is |-> versions[t], by |-> origin[t], lock |-> previousLocks[t]]]
\* Required tools of a type start with their latest version.
Defaults(ty, v) == [t \in Tools |->
  IF t \in PickerOf[ty] /\ v[t].is = None THEN [v[t] EXCEPT !.is = Supported[t][1], !.by = "default"] ELSE v[t]]
Written(t, version) == [Current EXCEPT ![t].is = version, ![t].by = "user"]

Init ==
  /\ accounts \in [Servers -> SUBSET Users] /\ joined = 0 /\ edits = 0
  /\ known = [s \in Servers |-> NotLoaded] /\ fetching = {}
  /\ server = None /\ type \in Types /\ domain = None /\ user = None /\ packageManager = None
  /\ LET blank == [t \in Tools |-> [is |-> None, by |-> "nobody", lock |-> None]]
     IN /\ versions = [t \in Tools |-> Defaults(type, blank)[t].is]
        /\ origin = [t \in Tools |-> Defaults(type, blank)[t].by]
  /\ previousLocks = [t \in Tools |-> None] /\ userManuallyEdited = FALSE
  /\ sent = None /\ created = None /\ retyped = FALSE

-----------------------------------------------------------------------------
(* The person at the form. *)

Open == created = None
Edit == Open /\ edits < MaxEdits /\ edits' = edits + 1

SelectServer(s) ==
  /\ Edit /\ s # server /\ server' = s /\ fetching' = fetching \cup ({s} \ {None})
  /\ UNCHANGED <<known, type, domain, packageManager, userManuallyEdited>> /\ Effects(user, Current)
  /\ UNCHANGED <<remote, submission, retyped>>
SelectType(ty) ==
  /\ Edit /\ server # None /\ ty # type /\ type' = ty /\ retyped' = TRUE
  /\ UNCHANGED <<query, server, domain, packageManager, userManuallyEdited>>
  /\ Effects(user, Defaults(ty, Current)) /\ UNCHANGED <<remote, submission>>
TypeDomain(d) ==
  /\ Edit /\ server # None /\ d # domain /\ domain' = d
  /\ UNCHANGED <<query, server, type, packageManager, userManuallyEdited>> /\ Effects(user, Current)
  /\ UNCHANGED <<remote, submission, retyped>>
\* From the list, or a new name.
pick(u) ==
  /\ Edit /\ server # None /\ u \notin Reserved \ existing(known[server]) /\ userManuallyEdited' = TRUE
  /\ UNCHANGED <<query, server, type, domain, packageManager>> /\ Effects(u, Current)
  /\ UNCHANGED <<remote, submission, retyped>>
handleSearchChange ==
  /\ Edit /\ server # None /\ ~userManuallyEdited /\ userManuallyEdited' = TRUE
  /\ UNCHANGED <<query, server, type, domain, packageManager, effects, remote, submission, retyped>>

locks == lockedVersions(server, IF server = None THEN {} ELSE existing(known[server]), user)
\* A locked select is disabled; the tool of a selector has a version of its own unless it is required anyway.
Selectable(t) == locks[t] = None /\ \/ t \in ToolingOf[type] \cup PickerOf[type]
                                    \/ t \in SelectorOf[type] /\ t = packageManager
SelectVersion(t, v) ==
  /\ Edit /\ server # None /\ Selectable(t) /\ v # versions[t]
  /\ v \in ToSet(Supported[t]) \cup (IF t \in ToolingOf[type] THEN {NoVersion} ELSE {})
  /\ UNCHANGED <<query, chosen>> /\ Effects(user, Written(t, v))
  /\ UNCHANGED <<remote, submission, retyped>>
SelectTool(t) ==
  /\ Edit /\ server # None /\ t \in SelectorOf[type] /\ t # packageManager /\ packageManager' = t
  /\ UNCHANGED <<query, server, type, domain, userManuallyEdited>>
  /\ Effects(user, IF t \in PickerOf[type] THEN Current
                   ELSE Written(t, IF locks[t] # None THEN locks[t] ELSE Supported[t][1]))
  /\ UNCHANGED <<remote, submission, retyped>>

-----------------------------------------------------------------------------
(* The server. *)

Refetch(s) ==
  /\ Open /\ s = server /\ s \notin fetching /\ fetching' = fetching \cup {s}
  /\ UNCHANGED <<known, chosen>> /\ Effects(user, Current) /\ UNCHANGED <<remote, submission, edits, retyped>>
\* A failure keeps what was known.
GetIsolatedUsers(s) ==
  /\ Open /\ fetching' = fetching \ {s}
  /\ \/ known' = [known EXCEPT ![s] = accounts[s]]
     \/ UNCHANGED known
  /\ UNCHANGED chosen /\ Effects(user, Current) /\ UNCHANGED <<remote, submission, edits, retyped>>
Join(s, u) ==
  /\ joined < MaxJoined /\ joined' = joined + 1 /\ u \notin accounts[s]
  /\ accounts' = [accounts EXCEPT ![s] = @ \cup {u}]
  /\ UNCHANGED <<query, chosen, effects, submission, edits, retyped>>

submit ==
  /\ Open /\ sent = None /\ server # None
  /\ sent' = [server |-> server, domain |-> domain, user |-> user, versions |-> versions]
  /\ UNCHANGED <<remote, query, chosen, effects, created, edits, retyped>>
\* Every tool is compared, also the ones the type does not show.
Mismatched(data) == {t \in Tools:
  /\ data.server # None /\ data.user \in accounts[data.server]
  /\ Installed[data.server][data.user][t] # None
  /\ data.versions[t] \notin {None, Installed[data.server][data.user][t]}}
Refused ==
  /\ sent # None /\ sent' = None
  /\ UNCHANGED <<remote, query, chosen, effects, created, edits, retyped>>
\* The page of the new site is opened.
Create ==
  /\ sent # None /\ sent' = None
  /\ sent.domain # None /\ sent.user \notin Reserved \cup {None} /\ Mismatched(sent) = {}
  /\ created' = [server |-> sent.server, user |-> sent.user]
  /\ accounts' = [accounts EXCEPT ![sent.server] = @ \cup {sent.user}]
  /\ UNCHANGED <<joined, query, chosen, effects, edits, retyped>>

Next ==
  \/ \E s \in Servers \cup {None}: SelectServer(s)
  \/ \E ty \in Types: SelectType(ty)
  \/ \E d \in Domains \cup {None}: TypeDomain(d)
  \/ \E u \in Users: pick(u)
  \/ handleSearchChange
  \/ \E t \in Tools: SelectTool(t) \/ \E v \in Versions: SelectVersion(t, v)
  \/ \E s \in Servers: Refetch(s)
  \/ \E s \in fetching: GetIsolatedUsers(s)
  \/ \E s \in Servers, u \in Users: Join(s, u)
  \/ submit \/ Refused \/ Create

Spec == Init /\ [][Next]_vars

-----------------------------------------------------------------------------
(* Properties. *)

\* A suggestion is never the name of a user that the list of the server has, nor a reserved one.
SuggestedUserIsFree ==
  ~userManuallyEdited /\ user # None /\ server # None /\ ~(known[server] = NotLoaded /\ server \in fetching)
  => user \notin Reserved /\ (known[server] # NotLoaded => user \notin known[server])

\* A version that a user brought leaves the form with that user: what a tool of this type holds is the
\* lock of the user chosen now, or was not written by a lock.
LocksAreOfTheUser ==
  \A t \in activeTools(type): IF locks[t] # None THEN versions[t] = locks[t] ELSE origin[t] # "lock"

\* A form whose list is up to date is not refused for a version, as long as its type stays: what the
\* server compares is what the form took over.
VersionsAreAccepted ==
  server # None /\ ~retyped /\ known[server] = accounts[server] =>
    Mismatched([server |-> server, user |-> user, versions |-> versions]) = {}
=============================================================================
