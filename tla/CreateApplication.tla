------------------------- MODULE CreateApplication --------------------------
(***************************************************************************)
(* The dialog that creates an application.  Repository and branch are      *)
(* looked at after a pause, and the answer prefills branch, runtime,       *)
(* version and database; what the user chose stays.                        *)
(***************************************************************************)
EXTENDS Naturals, Sequences, FiniteSetsExt

CONSTANTS
  None,         \* an empty field
  Repositories, \* repositories, each with its source control
  Branches,     \* [Repositories -> sets of branches]
  Default,      \* [Repositories -> the branch detection suggests, or None]
  Runtimes,     \* runtimes of the configuration
  Versions,     \* [Runtimes -> sequences of versions]
  Serviced,     \* runtimes that are installed as services
  Suggesting,   \* runtimes that suggest a database
  Detects,      \* [repositories and branches -> what detection finds]
  Servers,      \* servers that are ready
  Installed,    \* [Servers \X Runtimes -> sets of versions]
  Lacking,      \* servers without a service that the runtime needs
  MaxChanges    \* bound: changes of repository and branch

\* Elements of a sequence.
Among(s) == {s[i]: i \in 1..Len(s)}
BranchNames == UNION {Branches[r]: r \in Repositories}
VersionNames == UNION {Among(Versions[r]): r \in Runtimes}
\* An answer of detection.
Result == [repository: Repositories, branch: BranchNames \cup {None},
           runtime: Runtimes \cup {None}, versions: Seq(VersionNames)]

\* Detection offers versions of the runtime it found (AbstractRuntimePreset.php:198).
CreateApplicationAssumption ==
  /\ None \notin Repositories \cup Runtimes \cup Servers \cup BranchNames \cup Result
  /\ None \notin Repositories \X (BranchNames \cup {None})
  /\ \A r \in Runtimes: Versions[r] \in Seq(Among(Versions[r]))
  /\ \A r \in Repositories: \A b \in Branches[r]:
       /\ Detects[r, b] \in [runtime: Runtimes, versions: Seq(VersionNames)]
       /\ Among(Detects[r, b].versions) \subseteq Among(Versions[Detects[r, b].runtime])
  /\ Serviced \subseteq Runtimes /\ Suggesting \subseteq Runtimes
  /\ \A r \in Repositories: Default[r] \in Branches[r] \cup {None}
  /\ Lacking \subseteq Servers \X Runtimes /\ MaxChanges \in Nat

VARIABLES
  repository, branch, runtime, version, server, database,  \* fields
  runtimeChosen, versionChosen, databaseChosen,            \* refs: chosen by the user
  detected,    \* the last answer, with the key it was asked for, or None
  detectedKey, \* repository and branch it stands for, or None
  changing,    \* the picker is shown although there is a runtime
  lookup,      \* "idle", "waiting" for the pause, or "asking"
  asked,       \* the key that is asked for, or None
  detecting,   \* the spinner is shown
  phase,       \* "editing", "sending" or "closed"
  changes      \* bound

fields == <<repository, branch, runtime, version, database>>
chosen == <<runtimeChosen, versionChosen, databaseChosen>>
looking == <<detected, detectedKey, lookup, asked, detecting>>
vars == <<fields, server, chosen, looking, changing, phase, changes>>

VersionsOf(r) == IF r = None THEN <<>> ELSE Versions[r]
InstalledOn(r, s) ==
  IF r # None /\ r \in Serviced THEN IF s = None THEN {} ELSE Installed[s, r] ELSE Among(VersionsOf(r))

pickVersion(r, s, found) ==
  LET candidates == IF found # <<>> THEN found ELSE VersionsOf(r)
      installed == {i \in 1..Len(candidates): candidates[i] \in InstalledOn(r, s)}
  IN IF installed # {} THEN candidates[Min(installed)]
     ELSE IF candidates # <<>> THEN Head(candidates) ELSE None

\* The effect that fills in the version and the database, after a step that leaves
\* runtime r, server s and answer d; v and b are what the step makes of them.
Prefill(r, s, d, v, b) ==
  LET found == IF d # None /\ r # None /\ d.runtime = r THEN d.versions ELSE <<>>
  IN /\ version' = IF versionChosen' THEN v ELSE pickVersion(r, s, found)
     /\ database' = IF databaseChosen' THEN b ELSE r \in Suggesting

\* The effect that looks at the repository: the one under way is aborted, and a new
\* one waits unless the last answer already stands for the key.
SameKey(key, known) == key = known
Stopped == detecting' = FALSE
Look(r, b) ==
  /\ Stopped /\ detectedKey' = IF r = None THEN None ELSE detectedKey
  /\ lookup' = (IF r = None \/ SameKey(<<r, b>>, detectedKey) THEN "idle" ELSE "waiting") /\ asked' = None

TypeOK ==
  /\ repository \in Repositories \cup {None}
  /\ branch \in BranchNames \cup {None}
  /\ runtime \in Runtimes \cup {None} /\ server \in Servers \cup {None}
  /\ {database, runtimeChosen, versionChosen, databaseChosen, changing, detecting} \subseteq BOOLEAN
  /\ (detecting => lookup = "asking") /\ (lookup = "asking" <=> asked # None)
  /\ lookup \in {"idle", "waiting", "asking"} /\ phase \in {"editing", "sending", "closed"}
  /\ changes \in 0..MaxChanges

Init ==
  /\ repository = None /\ branch = None /\ runtime = None /\ version = None /\ database = FALSE
  /\ server \in (IF \E s \in Servers: Servers = {s} THEN Servers ELSE {None})
  /\ runtimeChosen = FALSE /\ versionChosen = FALSE /\ databaseChosen = FALSE
  /\ detected = None /\ detectedKey = None /\ lookup = "idle" /\ asked = None /\ detecting = FALSE
  /\ changing = FALSE /\ phase = "editing" /\ changes = 0

-----------------------------------------------------------------------------
(* The user. *)

\* change, for the repository or its source control.
Forgets == runtimeChosen' = FALSE /\ versionChosen' = FALSE
ChooseRepository(r) ==
  /\ phase # "closed" /\ r # repository /\ changes < MaxChanges /\ changes' = changes + 1
  /\ repository' = r /\ branch' = None /\ runtime' = None /\ Forgets /\ changing' = FALSE
  /\ detected' = None /\ Look(r, None) /\ UNCHANGED <<databaseChosen, server, phase>>
  /\ Prefill(None, server, None, None, database)

changeBranch(b) ==
  /\ phase # "closed" /\ b # branch /\ changes < MaxChanges
  /\ changes' = changes + 1 /\ branch' = b /\ Look(repository, b)
  /\ UNCHANGED <<repository, runtime, version, database, server, chosen, detected, changing, phase>>

Picker == ~detecting /\ (runtime = None \/ changing) /\ (repository # None \/ changing)
selectRuntime(r) ==
  /\ phase # "closed" /\ Picker /\ r # runtime /\ runtime' = r
  /\ runtimeChosen' = TRUE /\ versionChosen' = FALSE /\ UNCHANGED databaseChosen
  /\ Prefill(r, server, detected, None, database)
  /\ UNCHANGED <<repository, branch, server, looking, changing, phase, changes>>

ChangeRuntime ==
  /\ phase # "closed" /\ ~detecting /\ runtime # None /\ ~changing /\ changing' = TRUE
  /\ UNCHANGED <<fields, server, chosen, looking, phase, changes>>

\* Under Advanced.
SelectVersion(v) ==
  /\ phase # "closed" /\ version' = v
  /\ versionChosen' = TRUE
  /\ UNCHANGED <<repository, branch, runtime, database, server, runtimeChosen, databaseChosen,
                 looking, changing, phase, changes>>

SelectServer(s) ==
  /\ phase # "closed" /\ s # server /\ server' = s /\ UNCHANGED chosen
  /\ Prefill(runtime, s, detected, version, database)
  /\ UNCHANGED <<repository, branch, runtime, looking, changing, phase, changes>>

SwitchDatabase ==
  /\ phase # "closed" /\ server # None /\ database' = ~database /\ databaseChosen' = TRUE
  /\ UNCHANGED <<repository, branch, runtime, version, server, runtimeChosen, versionChosen,
                 looking, changing, phase, changes>>

blocked ==
  /\ server # None /\ runtime # None
  /\ \/ <<server, runtime>> \in Lacking
     \/ runtime \in Serviced /\ version # None /\ version \notin InstalledOn(runtime, server)
submit ==
  /\ phase = "editing" /\ ~detecting /\ runtime # None /\ repository # None /\ branch # None
  /\ ~blocked /\ (Servers = {} \/ server # None) /\ phase' = "sending"
  /\ UNCHANGED <<fields, server, chosen, looking, changing, changes>>
Refused ==
  /\ phase = "sending" /\ phase' = "editing"
  /\ UNCHANGED <<fields, server, chosen, looking, changing, changes>>
Close ==
  /\ phase # "closed" /\ phase' = "closed" /\ lookup' = "idle" /\ asked' = None /\ detecting' = FALSE
  /\ UNCHANGED <<fields, server, chosen, detected, detectedKey, changing, changes>>

-----------------------------------------------------------------------------
(* The lookup. *)

\* 300 ms without a change.
Ask ==
  /\ lookup = "waiting" /\ lookup' = "asking" /\ detecting' = TRUE /\ asked' = <<repository, branch>>
  /\ UNCHANGED <<fields, server, chosen, detected, detectedKey, changing, phase, changes>>

\* DetectApplicationRuntime: the branch asked for or the default one, and a runtime
\* unless the provider cannot tell.
detect(r, b) ==
  LET found == IF b # None THEN b ELSE Default[r]
      unknown == [runtime |-> None, versions |-> <<>>]
      Found(at, what) ==
        [repository |-> r, branch |-> at, runtime |-> what.runtime, versions |-> what.versions]
  IN {Found(b, unknown), Found(found, unknown)} \cup
       (IF found = None THEN {} ELSE {Found(found, Detects[r, found])})

Finally == lookup' = "idle" /\ asked' = None /\ detecting' = FALSE
environmentDefaults(r) == IF Versions[r] = <<>> THEN None ELSE Head(Versions[r])
Keeps(r) == versionChosen /\ version \in Among(Versions[r])
Switching(result) == ~runtimeChosen /\ result.runtime \notin {None, runtime}
Answered(result) ==
  LET known == result.runtime # None
      switching == Switching(result)
      next == IF switching THEN result.runtime ELSE IF ~known /\ ~runtimeChosen THEN None ELSE runtime
      default == IF switching /\ ~Keeps(next) THEN environmentDefaults(next) ELSE version
  IN /\ Finally /\ detected' = result /\ detectedKey' = <<asked[1], result.branch>>
     /\ branch' = result.branch /\ runtime' = next
     /\ changing' = (IF runtimeChosen THEN changing ELSE ~known)
     /\ UNCHANGED <<repository, server, chosen, phase, changes>>
     /\ Prefill(next, server, result, default, database)

Answer == lookup = "asking" /\ \E result \in detect(asked[1], asked[2]): Answered(result)

fallBackToPicker ==
  /\ lookup = "asking" /\ Finally /\ changing' = TRUE
  /\ detected' = (IF runtimeChosen THEN detected ELSE None)
  /\ runtime' = (IF runtimeChosen THEN runtime ELSE None)
  /\ UNCHANGED <<repository, branch, server, chosen, detectedKey, phase, changes>>
  /\ Prefill(runtime', server, detected', version, database)

\* The spinner, which locks the form.
Spins == detecting

Next ==
  \/ \E r \in Repositories \cup {None}: ChooseRepository(r)
  \/ repository # None /\ \E b \in Branches[repository] \cup {None}: changeBranch(b)
  \/ \E r \in Runtimes: selectRuntime(r)
  \/ \E v \in Among(VersionsOf(runtime)): SelectVersion(v)
  \/ \E s \in Servers: SelectServer(s)
  \/ ChangeRuntime \/ SwitchDatabase \/ submit \/ Refused \/ Close \/ Ask \/ fallBackToPicker
  \/ Answer

Spec == Init /\ [][Next]_vars /\ WF_vars(Ask)
        /\ WF_vars(fallBackToPicker \/ Answer)

-----------------------------------------------------------------------------
(* Properties. *)

\* A runtime nobody chose is the one that was found in the repository, and at the
\* branch, the form shows.  While a new branch is waiting or being looked at, it may
\* still be that of the branch before.
RuntimeIsChosenOrDetected ==
  runtime # None /\ ~runtimeChosen =>
    /\ detected # None /\ detected.repository = repository /\ detected.runtime = runtime
    /\ lookup = "idle" /\ phase # "closed" => detected.branch = branch

\* No answer replaces a runtime the user chose for this repository.
ChosenRuntimeStays ==
  runtimeChosen /\ repository' = repository /\ looking' # looking => runtime' = runtime

\* The version is one of the runtime, and unless the user chose it, one that is
\* installed on the server whenever one of those found or offered is.
VersionFitsRuntime ==
  runtime # None /\ Versions[runtime] # <<>> =>
    /\ version \in Among(Versions[runtime])
    /\ ~versionChosen /\ detected = None /\ Among(Versions[runtime]) \cap InstalledOn(runtime, server) # {}
         => version \in InstalledOn(runtime, server)

\* The branch is one of the repository: no answer for another repository sets it.
BranchIsOfRepository == branch # None => repository # None /\ branch \in Branches[repository]
=============================================================================
