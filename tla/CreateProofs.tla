--------------------------- MODULE CreateProofs -----------------------------
(***************************************************************************)
(* The forms that create a server, an application and a site, with what    *)
(* they look up: templates, sources.  Each for any values of its own       *)
(* constants.  They share no state: a name that two of them have, such as  *)
(* server, stands for another variable in each.                            *)
(***************************************************************************)
EXTENDS Naturals, FiniteSetTheorems, SequenceTheorems, WellFoundedInduction, TLAPS

CONSTANTS None, Custom, Connections, Providers, ProviderOf, RegionsOf, PlansOf, FieldsOf, MaxChoices
VARIABLES existing, serverProviders, listing, connection, region, plan, fields, regions, plans, askedRegions,
          askedPlans, open, processing, choices, overtaken, replaced
Server == INSTANCE CreateServer

CONSTANTS Repositories, Branches, Default, Runtimes, Versions, Serviced, Suggesting, Detects, Servers,
          Installed, Lacking, MaxChanges
VARIABLES repository, branch, runtime, version, server, database, runtimeChosen, versionChosen, databaseChosen,
          detected, detectedKey, changing, lookup, asked, detecting, phase, changes
App == INSTANCE CreateApplication

CONSTANTS Controls, Repos, BranchesHere, ReposOf, BranchesOf, MaxAsked
VARIABLES use_source_control, mounted, source_control, repos, branches, gettingRepos, gettingBranches,
          askedRepos, askedBranches, crossedRepos, crossedBranches
Source == INSTANCE SourceSelect WITH Branches <- BranchesHere

CONSTANTS Names, Services, Defaults, Initial, MaxRequests
VARIABLES services, value, query, fetching, dialog, form, request, here, templates, requests, unsure
Templates == INSTANCE ServerTemplates

CONSTANTS NotLoaded, SiteUsers, DomainsHere, Candidates, Reserved, Types, Tools, ToolingOf, PickerOf,
          SelectorOf, Supported, InstalledFor, MaxJoined, MaxSiteEdits
VARIABLES accounts, known, type, domain, user, versions, packageManager, userManuallyEdited, previousLocks,
          sent, created, joined, edits, origin, retyped
Site == INSTANCE CreateSite WITH
  Users <- SiteUsers, Domains <- DomainsHere, Installed <- InstalledFor, MaxEdits <- MaxSiteEdits
-----------------------------------------------------------------------------
(* The form that creates a server. *)

\* The plans that are shown are those of the region, as long as no other region or answer came between.
PlansAreOfRegion == ~overtaken /\ ~replaced => plans = {} \/ (region # None /\ plans = PlansOf[region])

\* What holds of the choices and of the lists they are made from, together.
Fitting == Server!ChoicesFit /\ Server!ListsAreOfConnection /\ PlansAreOfRegion
ServerInv == Server!TypeOK /\ Fitting /\ Server!FieldsAreOfProvider
-----------------------------------------------------------------------------
\* The lists are made of what the constants name.
LEMMA NamedChoices ==
  ASSUME Server!CreateServerAssumption
  PROVE  /\ \A c \in Connections: RegionsOf[c] \subseteq Server!Regions /\ ProviderOf[c] \in Providers
         /\ \A r \in Server!Regions: PlansOf[r] \subseteq Server!Plans
         /\ \A p \in Providers: FieldsOf[p] \subseteq Server!Fields
         /\ Custom \notin Connections \cup Providers /\ None \notin Server!Regions \cup Server!Plans
BY DEF Server!CreateServerAssumption, Server!Regions, Server!Plans, Server!Fields

LEMMA ServerInit == ASSUME Server!CreateServerAssumption PROVE Server!Init => ServerInv
<1> SUFFICES ASSUME Server!Init PROVE ServerInv
  OBVIOUS
<1>1. existing \subseteq Connections /\ 0 \in 0..MaxChoices
  BY DEF Server!Init, Server!CreateServerAssumption
<1>2. Server!TypeOK
  BY <1>1 DEF Server!Init, Server!TypeOK
<1> QED
  BY <1>2
     DEF Server!Init, ServerInv, Fitting, Server!ChoicesFit, Server!ListsAreOfConnection, PlansAreOfRegion,
         Server!FieldsAreOfProvider

\* The state has the shape it is declared to have, whatever is chosen and answered.
LEMMA ServerTypes ==
  ASSUME Server!CreateServerAssumption
  PROVE  Server!TypeOK /\ Server!FieldsAreOfProvider /\ [Server!Next]_(Server!vars) => Server!TypeOK'
<1> SUFFICES ASSUME Server!TypeOK, Server!FieldsAreOfProvider, [Server!Next]_(Server!vars) PROVE Server!TypeOK'
  OBVIOUS
<1> USE DEF Server!TypeOK, Server!history, Server!sheet, Server!lookups, Server!lists, Server!data, Server!connections
<1>1. CASE Server!Open \/ Server!Close \/ Server!submit \/ Server!Refused
  BY <1>1 DEF Server!Open, Server!Close, Server!submit, Server!Refused, Server!fetchServerProviders
<1>2. ASSUME NEW c \in Connections, Server!Connect(c) PROVE Server!TypeOK'
  BY <1>2 DEF Server!Connect, Server!fetchServerProviders
<1>3. ASSUME NEW l \in listing, Server!Listed(l) PROVE Server!TypeOK'
  BY <1>3 DEF Server!Listed
<1>4. ASSUME NEW c \in Connections \cup {Custom}, Server!selectCombinedProvider(c) PROVE Server!TypeOK'
  <2>1. choices' \in 0..MaxChoices
    BY <1>4 DEF Server!selectCombinedProvider, Server!Choose, Server!CreateServerAssumption
  <2> QED
    BY <1>4, <2>1 DEF Server!selectCombinedProvider, Server!Emptied
<1>5. ASSUME NEW r \in Server!Regions, Server!selectRegion(r) PROVE Server!TypeOK'
  <2>1. choices' \in 0..MaxChoices
    BY <1>5 DEF Server!selectRegion, Server!Choose, Server!CreateServerAssumption
  <2>2. connection \in Connections /\ r # None
    BY <1>5, NamedChoices DEF Server!selectRegion
  <2> QED
    BY <1>5, <2>1, <2>2 DEF Server!selectRegion
<1>6. ASSUME NEW p \in Server!Plans, Server!selectPlan(p) PROVE Server!TypeOK'
  BY <1>6 DEF Server!selectPlan
<1>7. ASSUME NEW f \in Server!Fields, Server!FillField(f) PROVE Server!TypeOK'
  BY <1>7 DEF Server!FillField
<1>8. ASSUME NEW c \in askedRegions, Server!fetchRegions(c) PROVE Server!TypeOK'
  BY <1>8, NamedChoices DEF Server!fetchRegions
<1>9. ASSUME NEW a \in askedPlans, Server!fetchPlans(a[1], a[2]) PROVE Server!TypeOK'
  BY <1>9, NamedChoices DEF Server!fetchPlans
<1>10. CASE UNCHANGED Server!vars
  BY <1>10 DEF Server!vars
<1> QED
  BY <1>1, <1>2, <1>3, <1>4, <1>5, <1>6, <1>7, <1>8, <1>9, <1>10 DEF Server!Next

\* Regions, plans and the lists they are chosen from follow the connection.
LEMMA ServerFits ==
  ASSUME Server!CreateServerAssumption
  PROVE  Server!TypeOK /\ Fitting /\ [Server!Next]_(Server!vars) => Fitting'
<1> SUFFICES ASSUME Server!TypeOK, Fitting, [Server!Next]_(Server!vars) PROVE Fitting'
  OBVIOUS
<1> USE DEF Fitting, Server!ChoicesFit, Server!ListsAreOfConnection, PlansAreOfRegion
<1>1. CASE \/ Server!Open \/ Server!Close \/ Server!submit \/ Server!Refused \/ (\E c \in Connections: Server!Connect(c))
           \/ (\E l \in listing: Server!Listed(l)) \/ (\E f \in Server!Fields: Server!FillField(f)) \/ UNCHANGED Server!vars
  <2>1. UNCHANGED <<connection, region, plan, Server!lists, Server!history>>
    BY <1>1
       DEF Server!Open, Server!Close, Server!submit, Server!Refused, Server!Connect, Server!Listed,
           Server!FillField, Server!vars, Server!data
  <2> QED
    BY <2>1 DEF Server!lists, Server!history
<1>2. ASSUME NEW c \in Connections \cup {Custom}, Server!selectCombinedProvider(c) PROVE Fitting'
  BY <1>2 DEF Server!selectCombinedProvider, Server!Emptied
<1>3. ASSUME NEW r \in Server!Regions, Server!selectRegion(r) PROVE Fitting'
  <2>1. r # None
    BY NamedChoices
  <2>2. /\ connection # Custom /\ r \in regions /\ region' = r
        /\ replaced' = (replaced \/ (r # region /\ (plan # None \/ plans # {})))
        /\ UNCHANGED <<connection, plan, regions, plans, overtaken>>
    BY <1>3 DEF Server!selectRegion, Server!lists
  <2>3. CASE r = region
    BY <2>2, <2>3
  <2>4. CASE r # region
    BY <2>1, <2>2, <2>4
  <2> QED
    BY <2>3, <2>4
<1>4. ASSUME NEW p \in Server!Plans, Server!selectPlan(p) PROVE Fitting'
  BY <1>4 DEF Server!selectPlan, Server!lists, Server!history
<1>5. ASSUME NEW c \in askedRegions, Server!fetchRegions(c) PROVE Fitting'
  <2>1. c # Custom
    BY NamedChoices DEF Server!TypeOK
  <2> QED
    BY <1>5, <2>1 DEF Server!fetchRegions, Server!data
<1>6. ASSUME NEW a \in askedPlans, Server!fetchPlans(a[1], a[2]) PROVE Fitting'
  <2>1. a[2] # None
    BY NamedChoices DEF Server!TypeOK
  <2> QED
    BY <1>6, <2>1 DEF Server!fetchPlans, Server!data
<1> QED
  BY <1>1, <1>2, <1>3, <1>4, <1>5, <1>6 DEF Server!Next

\* The fields follow the provider: leaving one empties its fields.
LEMMA ServerFields ==
  ASSUME Server!CreateServerAssumption
  PROVE  Server!TypeOK /\ Server!FieldsAreOfProvider /\ [Server!Next]_(Server!vars) => Server!FieldsAreOfProvider'
<1> SUFFICES ASSUME Server!TypeOK, Server!FieldsAreOfProvider, [Server!Next]_(Server!vars) PROVE Server!FieldsAreOfProvider'
  OBVIOUS
<1>1. ASSUME NEW c \in Connections \cup {Custom}, Server!selectCombinedProvider(c) PROVE Server!FieldsAreOfProvider'
  <2>1. fields' = {}
    BY <1>1 DEF Server!selectCombinedProvider, Server!StaleFields, Server!FieldsAreOfProvider
  <2> QED
    BY <2>1 DEF Server!FieldsAreOfProvider
<1>2. ASSUME NEW f \in Server!Fields, Server!FillField(f) PROVE Server!FieldsAreOfProvider'
  BY <1>2 DEF Server!FillField, Server!FieldsAreOfProvider, Server!provider
<1>3. CASE UNCHANGED <<connection, fields>>
  BY <1>3 DEF Server!FieldsAreOfProvider, Server!provider
<1>4. CASE \/ Server!Open \/ Server!Close \/ Server!submit \/ Server!Refused \/ (\E c \in Connections: Server!Connect(c))
           \/ (\E l \in listing: Server!Listed(l)) \/ (\E r \in Server!Regions: Server!selectRegion(r)) \/ (\E p \in Server!Plans: Server!selectPlan(p))
           \/ (\E c \in askedRegions: Server!fetchRegions(c)) \/ (\E a \in askedPlans: Server!fetchPlans(a[1], a[2]))
           \/ UNCHANGED Server!vars
  BY <1>3, <1>4
     DEF Server!Open, Server!Close, Server!submit, Server!Refused, Server!Connect, Server!Listed,
         Server!selectRegion, Server!selectPlan, Server!fetchRegions,
                    Server!fetchPlans, Server!data, Server!vars
<1> QED
  BY <1>1, <1>2, <1>4 DEF Server!Next

LEMMA ServerStep == ASSUME Server!CreateServerAssumption PROVE ServerInv /\ [Server!Next]_(Server!vars) => ServerInv'
BY ServerTypes, ServerFits, ServerFields DEF ServerInv
-----------------------------------------------------------------------------
LEMMA ServerInvariant == ASSUME Server!CreateServerAssumption PROVE Server!Spec => []ServerInv
<1>1. Server!Init => ServerInv
  BY ServerInit
<1>2. ServerInv /\ [Server!Next]_(Server!vars) => ServerInv'
  BY ServerStep
<1> QED
  BY <1>1, <1>2, PTL DEF Server!Spec

\* Region and plan fit what is chosen above them, the regions that are offered are those of the
\* connection, and what is sent beside them belongs to the provider (create-server.tsx).
THEOREM ServerChoicesFit ==
  ASSUME Server!CreateServerAssumption
  PROVE  Server!Spec => [](Server!TypeOK /\ Server!ChoicesFit /\ Server!ListsAreOfConnection /\ Server!FieldsAreOfProvider)
<1>1. ServerInv => Server!TypeOK /\ Server!ChoicesFit /\ Server!ListsAreOfConnection /\ Server!FieldsAreOfProvider
  BY DEF ServerInv, Fitting
<1> QED
  BY <1>1, ServerInvariant, PTL
-----------------------------------------------------------------------------
(* The form of an application. *)

\* The least of a set of numbers.
LEMMA Least == ASSUME NEW S \in SUBSET Nat, S # {} PROVE \E x \in S: \A y \in S: x <= y
<1>1. PICK x \in S: \A y \in S: <<y, x>> \notin OpToRel(<, Nat)
  BY NatLessThanWellFounded, WFMin
<1>2. \A y \in S: ~ (y < x)
  BY <1>1 DEF OpToRel
<1> QED
  BY <1>2

\* The first version that is installed, or the first of all.
LEMMA PickFits ==
  ASSUME App!CreateApplicationAssumption, NEW r \in Runtimes, NEW s, NEW found \in Seq(App!VersionNames),
         App!Among(found) \subseteq App!Among(Versions[r]), Versions[r] # <<>>
  PROVE  /\ App!pickVersion(r, s, found) \in App!Among(Versions[r])
         /\ found = <<>> /\ App!Among(Versions[r]) \cap App!InstalledOn(r, s) # {}
              => App!pickVersion(r, s, found) \in App!InstalledOn(r, s)
<1> DEFINE candidates == IF found # <<>> THEN found ELSE Versions[r]
           installed == {i \in 1..Len(candidates): candidates[i] \in App!InstalledOn(r, s)}
<1>1. r # None /\ Versions[r] \in Seq(App!Among(Versions[r]))
  BY DEF App!CreateApplicationAssumption
<1>2. /\ candidates # <<>> /\ Len(candidates) \in Nat \ {0} /\ App!Among(candidates) \subseteq App!Among(Versions[r])
      /\ Head(candidates) = candidates[1]
  BY <1>1
<1>3. App!pickVersion(r, s, found) =
        IF installed # {} THEN candidates[App!Min(installed)] ELSE candidates[1]
  BY <1>1, <1>2 DEF App!pickVersion, App!VersionsOf
<1>4. ASSUME installed # {} PROVE App!Min(installed) \in installed
  <2> HIDE DEF candidates
  <2>1. installed \in SUBSET Nat
    BY <1>2
  <2>2. \E x \in installed: \A y \in installed: x <= y
    BY <1>4, <2>1, Least
  <2> QED
    BY <2>2 DEF App!Min
<1>5. App!pickVersion(r, s, found) \in App!Among(candidates)
  <2> HIDE DEF candidates
  <2>1. \A i \in installed: candidates[i] \in App!Among(candidates)
    BY DEF App!Among
  <2>2. candidates[1] \in App!Among(candidates)
    BY <1>2 DEF App!Among
  <2> QED
    BY <1>3, <1>4, <2>1, <2>2
<1>6. ASSUME found = <<>>, App!Among(Versions[r]) \cap App!InstalledOn(r, s) # {}
      PROVE  App!pickVersion(r, s, found) \in App!InstalledOn(r, s)
  <2>1. installed # {}
    BY <1>6 DEF App!Among
  <2> QED
    BY <2>1, <1>3, <1>4
<1> QED
  BY <1>2, <1>5, <1>6

-----------------------------------------------------------------------------
\* What is looked for is what the form shows, and the key stands for the answer.
AskRule ==
  lookup # "idle" => repository # None /\ (lookup = "asking" => asked = <<repository, branch>>)
KeyRule == detected # None => detectedKey = <<detected.repository, detected.branch>>
\* What detection offers belongs to the runtime it found.
OfferRule ==
  detected # None /\ detected.runtime # None =>
    App!Among(detected.versions) \subseteq App!Among(Versions[detected.runtime])
AppTypes ==
  /\ repository \in Repositories \cup {None} /\ runtime \in Runtimes \cup {None}
  /\ runtimeChosen \in BOOLEAN /\ versionChosen \in BOOLEAN /\ detected \in App!Result \cup {None}
AppRules == AskRule /\ KeyRule /\ OfferRule
AppFits == App!RuntimeIsChosenOrDetected /\ App!VersionFitsRuntime /\ App!BranchIsOfRepository
AppInv == AppTypes /\ AppRules /\ AppFits

\* An answer is of the repository it was asked for; it offers what its runtime has.
LEMMA DetectFinds ==
  ASSUME App!CreateApplicationAssumption, NEW r \in Repositories, NEW b \in Branches[r] \cup {None},
         NEW result \in App!detect(r, b)
  PROVE  /\ result \in App!Result /\ result.repository = r /\ result.branch \in Branches[r] \cup {None}
         /\ result.runtime # None => App!Among(result.versions) \subseteq App!Among(Versions[result.runtime])
<1> DEFINE found == IF b # None THEN b ELSE Default[r]
<1>1. found \in Branches[r] \cup {None} /\ Branches[r] \subseteq App!BranchNames
  BY DEF App!CreateApplicationAssumption, App!BranchNames
<1>2. ASSUME NEW at \in Branches[r] \cup {None},
             result = [repository |-> r, branch |-> at, runtime |-> None, versions |-> <<>>]
      PROVE  result \in App!Result /\ result.repository = r /\ result.branch = at /\ result.runtime = None
  <2>1. at \in App!BranchNames \cup {None} /\ <<>> \in Seq(App!VersionNames)
    BY <1>1
  <2> QED
    BY <1>2, <2>1 DEF App!Result
<1>3. ASSUME found # None, result = [repository |-> r, branch |-> found, runtime |-> Detects[r, found].runtime,
                                     versions |-> Detects[r, found].versions]
      PROVE  /\ result \in App!Result /\ result.repository = r /\ result.branch = found
             /\ App!Among(result.versions) \subseteq App!Among(Versions[result.runtime])
  <2>1. /\ Detects[r, found] \in [runtime: Runtimes, versions: Seq(App!VersionNames)]
        /\ App!Among(Detects[r, found].versions) \subseteq App!Among(Versions[Detects[r, found].runtime])
    BY <1>1, <1>3 DEF App!CreateApplicationAssumption
  <2> QED
    BY <1>1, <1>3, <2>1 DEF App!Result
<1>4. \/ result = [repository |-> r, branch |-> b, runtime |-> None, versions |-> <<>>]
      \/ result = [repository |-> r, branch |-> found, runtime |-> None, versions |-> <<>>]
      \/ found # None /\ result = [repository |-> r, branch |-> found, runtime |-> Detects[r, found].runtime,
                                   versions |-> Detects[r, found].versions]
  BY DEF App!detect
<1> QED
  BY <1>1, <1>2, <1>3, <1>4

\* What the effect writes for a runtime fits it, when the version is not the user's.
LEMMA PrefillFits ==
  ASSUME App!CreateApplicationAssumption, NEW r \in Runtimes, NEW s, NEW d \in App!Result \cup {None}, NEW v, NEW w,
         d # None /\ d.runtime # None => App!Among(d.versions) \subseteq App!Among(Versions[d.runtime]),
         App!Prefill(r, s, d, v, w), Versions[r] # <<>>, ~versionChosen'
  PROVE  /\ version' \in App!Among(Versions[r])
         /\ d = None /\ App!Among(Versions[r]) \cap App!InstalledOn(r, s) # {} => version' \in App!InstalledOn(r, s)
<1> DEFINE found == IF d # None /\ r # None /\ d.runtime = r THEN d.versions ELSE <<>>
<1>1. found \in Seq(App!VersionNames) /\ App!Among(found) \subseteq App!Among(Versions[r])
  <2>1. App!Among(<<>>) = {} /\ <<>> \in Seq(App!VersionNames)
    BY DEF App!Among
  <2>2. CASE found = <<>>
    BY <2>1, <2>2
  <2>3. CASE found # <<>>
    BY <2>3 DEF App!Result
  <2> QED
    BY <2>2, <2>3
<1>2. d = None => found = <<>>
  OBVIOUS
<1>3. version' = App!pickVersion(r, s, found)
  BY DEF App!Prefill
<1> HIDE DEF found
<1> QED
  BY <1>1, <1>2, <1>3, PickFits

LEMMA AppStart == ASSUME App!CreateApplicationAssumption, App!Init PROVE AppInv
BY DEF App!Init, AppInv, AppTypes, AppRules, AskRule, KeyRule, OfferRule, AppFits, App!RuntimeIsChosenOrDetected,
       App!VersionFitsRuntime, App!BranchIsOfRepository

LEMMA AppStep == ASSUME App!CreateApplicationAssumption, AppInv, [App!Next]_(App!vars) PROVE AppInv'
<1> USE DEF AppInv, AppTypes, AppRules, AskRule, KeyRule, OfferRule, AppFits, App!RuntimeIsChosenOrDetected,
            App!BranchIsOfRepository
<1>0. None \notin Repositories \cup Runtimes \cup Servers \cup App!BranchNames \cup App!Result
  BY DEF App!CreateApplicationAssumption
<1>1. ASSUME NEW r \in Repositories \cup {None}, App!ChooseRepository(r) PROVE AppInv'
  BY <1>1, <1>0 DEF App!ChooseRepository, App!Forgets, App!Look, App!VersionFitsRuntime
<1>2. ASSUME repository # None, NEW b \in Branches[repository] \cup {None}, App!changeBranch(b) PROVE AppInv'
  <2>1. App!VersionFitsRuntime'
    BY <1>2 DEF App!changeBranch, App!chosen, App!VersionFitsRuntime, App!InstalledOn, App!VersionsOf
  <2>2. /\ detectedKey' = detectedKey /\ detected' = detected /\ repository' = repository /\ runtime' = runtime
        /\ branch' = b /\ UNCHANGED <<runtimeChosen, versionChosen, phase>>
        /\ lookup' = (IF <<repository, b>> = detectedKey THEN "idle" ELSE "waiting")
    BY <1>2 DEF App!changeBranch, App!chosen, App!Look, App!SameKey
  <2>3. App!RuntimeIsChosenOrDetected'
    BY <2>2
  <2> QED
    BY <1>2, <2>1, <2>2, <2>3
<1>3. ASSUME NEW r \in Runtimes, App!selectRuntime(r) PROVE AppInv'
  <2>1. App!VersionFitsRuntime'
    BY <1>3, PrefillFits DEF App!selectRuntime, App!looking, App!VersionFitsRuntime, App!InstalledOn, App!VersionsOf
  <2> QED
    BY <1>3, <1>0, <2>1 DEF App!selectRuntime, App!looking
<1>4. ASSUME NEW v \in App!Among(App!VersionsOf(runtime)), App!SelectVersion(v) PROVE AppInv'
  <2>1. App!VersionFitsRuntime'
    BY <1>4 DEF App!SelectVersion, App!VersionFitsRuntime, App!VersionsOf
  <2> QED
    BY <1>4, <2>1 DEF App!SelectVersion, App!looking
<1>5. ASSUME NEW s \in Servers, App!SelectServer(s) PROVE AppInv'
  <2>1. App!VersionFitsRuntime'
    <3>1. CASE versionChosen
      BY <1>5, <3>1 DEF App!SelectServer, App!chosen, App!VersionFitsRuntime, App!Prefill
    <3>2. CASE ~versionChosen
      BY <1>5, <3>2, PrefillFits
         DEF App!SelectServer, App!looking, App!chosen, App!VersionFitsRuntime, App!InstalledOn, App!VersionsOf
    <3> QED
      BY <3>1, <3>2
  <2> QED
    BY <1>5, <2>1 DEF App!SelectServer, App!looking, App!chosen
<1>6. ASSUME NEW result \in App!detect(asked[1], asked[2]), lookup = "asking", App!Answered(result) PROVE AppInv'
  <2>1. repository \in Repositories /\ branch \in Branches[repository] \cup {None}
        /\ asked[1] = repository /\ asked[2] = branch
    BY <1>6
  <2>2. /\ result \in App!Result /\ result.repository = repository /\ result.branch \in Branches[repository] \cup {None}
        /\ result.runtime # None => App!Among(result.versions) \subseteq App!Among(Versions[result.runtime])
    BY <1>6, <2>1, DetectFinds
  <2>3. /\ lookup' = "idle" /\ detected' = result /\ detectedKey' = <<repository, result.branch>>
        /\ branch' = result.branch /\ UNCHANGED <<repository, server, runtimeChosen, versionChosen, phase>>
    BY <1>6, <2>1 DEF App!Answered, App!Finally, App!chosen
  <2>4. /\ runtimeChosen => runtime' = runtime
        /\ ~runtimeChosen => runtime' = result.runtime
    BY <1>6 DEF App!Answered, App!Switching
  <2>5. result # None /\ result.runtime \in Runtimes \cup {None}
    BY <1>0, <2>2 DEF App!Result
  <2>a. AppTypes'
    BY <2>2, <2>3, <2>4, <2>5
  <2>b. AppRules'
    BY <2>1, <2>2, <2>3
  <2>d. App!RuntimeIsChosenOrDetected'
    <3> SUFFICES ASSUME runtime' # None, ~runtimeChosen'
                 PROVE  /\ detected' # None /\ detected'.repository = repository' /\ detected'.runtime = runtime'
                        /\ detected'.branch = branch'
      BY DEF App!RuntimeIsChosenOrDetected
    <3> QED
      BY <2>2, <2>3, <2>4, <2>5
  <2>e. App!BranchIsOfRepository'
    BY <1>0, <2>1, <2>2, <2>3 DEF App!BranchIsOfRepository
  <2>6. AppTypes' /\ AppRules' /\ App!RuntimeIsChosenOrDetected' /\ App!BranchIsOfRepository'
    BY <2>a, <2>b, <2>d, <2>e
  <2>7. App!VersionFitsRuntime'
    <3> SUFFICES ASSUME runtime' # None, Versions[runtime'] # <<>>
                 PROVE  version' \in App!Among(Versions[runtime'])
      BY <2>3, <2>5 DEF App!VersionFitsRuntime
    <3>1. CASE ~versionChosen
      <4>1. \E v, w: App!Prefill(runtime', server, result, v, w)
        BY <1>6 DEF App!Answered
      <4> QED
        BY <2>2, <2>3, <2>6, <3>1, <4>1, PrefillFits
    <3>2. CASE versionChosen /\ runtime' = runtime /\ ~App!Switching(result)
      BY <1>6, <2>3, <3>2 DEF App!Answered, App!Prefill, App!VersionFitsRuntime
    <3>3. CASE versionChosen /\ App!Switching(result)
      <4>1. runtime' = result.runtime /\ runtime' \in Runtimes
        BY <1>6, <2>5, <3>3 DEF App!Answered
      <4>2. version' = IF App!Keeps(runtime') THEN version ELSE App!environmentDefaults(runtime')
        BY <1>6, <2>3, <3>3, <4>1 DEF App!Answered, App!Prefill
      <4>3. Versions[runtime'] \in Seq(App!Among(Versions[runtime']))
        BY <4>1 DEF App!CreateApplicationAssumption
      <4> QED
        BY <4>2, <4>3 DEF App!Keeps, App!environmentDefaults
    <3> QED
      BY <2>4, <3>1, <3>2, <3>3 DEF App!Switching
  <2> QED
    BY <2>6, <2>7
<1>7. CASE App!fallBackToPicker
  <2>1. /\ lookup' = "idle" /\ UNCHANGED <<repository, branch, server, runtimeChosen, versionChosen, detectedKey, phase>>
        /\ detected' = (IF runtimeChosen THEN detected ELSE None) /\ runtime' = (IF runtimeChosen THEN runtime ELSE None)
        /\ App!Prefill(runtime', server, detected', version, database)
    BY <1>7 DEF App!fallBackToPicker, App!Finally, App!chosen
  <2>2. App!VersionFitsRuntime'
    <3>1. CASE versionChosen
      BY <2>1, <3>1 DEF App!VersionFitsRuntime, App!Prefill
    <3>2. CASE ~versionChosen
      BY <2>1, <3>2, PrefillFits DEF App!VersionFitsRuntime, App!InstalledOn, App!VersionsOf
    <3> QED
      BY <3>1, <3>2
  <2> QED
    BY <2>1, <2>2
<1>8. CASE App!ChangeRuntime \/ App!SwitchDatabase \/ App!submit \/ App!Refused \/ App!Close \/ App!Ask \/ UNCHANGED App!vars
  <2>1. /\ UNCHANGED <<repository, branch, runtime, version, server, runtimeChosen, versionChosen, detected, detectedKey>>
        /\ lookup' = "idle" /\ lookup # "idle" => phase' = "closed"
        /\ phase' # phase => phase' = "closed" \/ phase # "closed"
        /\ lookup' = "asking" /\ lookup # "asking" => asked' = <<repository, branch>>
        /\ asked' # asked => lookup' = "idle" \/ asked' = <<repository, branch>>
        /\ lookup' # "idle" => lookup # "idle"
    BY <1>8
       DEF App!ChangeRuntime, App!SwitchDatabase, App!submit, App!Refused, App!Close, App!Ask, App!vars,
           App!fields,
               App!chosen, App!looking
  <2>2. App!VersionFitsRuntime'
    BY <2>1 DEF App!VersionFitsRuntime, App!InstalledOn, App!VersionsOf
  <2> QED
    BY <2>1, <2>2
<1> QED
  BY <1>1, <1>2, <1>3, <1>4, <1>5, <1>6, <1>7, <1>8 DEF App!Next, App!Answer

\* Whatever comes late: the runtime is the user's or that of the repository and branch on the form, the
\* version one of the runtime, and installed where that can be; the branch is one of the repository.
THEOREM ApplicationChoicesFit ==
  ASSUME App!CreateApplicationAssumption
  PROVE  App!Init /\ [][App!Next]_(App!vars)
           => [](App!RuntimeIsChosenOrDetected /\ App!VersionFitsRuntime /\ App!BranchIsOfRepository)
<1>1. AppInv => App!RuntimeIsChosenOrDetected /\ App!VersionFitsRuntime /\ App!BranchIsOfRepository
  BY DEF AppInv, AppFits
<1> QED
  BY <1>1, AppStart, AppStep, PTL

\* No late answer replaces a runtime that was chosen for the repository on the form.
THEOREM ChosenRuntimesStay ==
  App!Init /\ [][App!Next]_(App!vars) => [][App!ChosenRuntimeStays]_(App!vars)
<1>1. ASSUME [App!Next]_(App!vars) PROVE [App!ChosenRuntimeStays]_(App!vars)
  <2> SUFFICES ASSUME runtimeChosen, repository' = repository, App!looking' # App!looking PROVE runtime' = runtime
    BY DEF App!ChosenRuntimeStays
  <2>1. ASSUME NEW r, App!selectRuntime(r) PROVE FALSE
    BY <2>1 DEF App!selectRuntime
  <2>2. ASSUME NEW r, App!ChooseRepository(r) PROVE FALSE
    BY <2>2 DEF App!ChooseRepository
  <2>3. ASSUME NEW result, App!Answered(result) PROVE runtime' = runtime
    BY <2>3 DEF App!Answered, App!Switching
  <2>4. ASSUME App!fallBackToPicker PROVE runtime' = runtime
    BY <2>4 DEF App!fallBackToPicker
  <2>5. ASSUME NEW r, App!changeBranch(r) \/ App!SelectVersion(r) \/ App!SelectServer(r) PROVE runtime' = runtime
    BY <2>5 DEF App!changeBranch, App!SelectVersion, App!SelectServer
  <2>6. ASSUME \/ App!ChangeRuntime \/ App!SwitchDatabase \/ App!submit \/ App!Refused \/ App!Close \/ App!Ask
               \/ UNCHANGED App!vars
        PROVE  runtime' = runtime
    BY <2>6 DEF App!ChangeRuntime, App!SwitchDatabase, App!submit, App!Refused, App!Close, App!Ask, App!vars, App!fields
  <2> QED
    BY <1>1, <2>1, <2>2, <2>3, <2>4, <2>5, <2>6 DEF App!Next, App!Answer
<1> QED
  BY <1>1, PTL

\* The choices are flags; a detection runs only while its question is on its way.
AppFlags == database \in BOOLEAN /\ databaseChosen \in BOOLEAN /\ changing \in BOOLEAN /\ detecting \in BOOLEAN
AppPlaces ==
  /\ branch \in App!BranchNames \cup {None} /\ server \in Servers \cup {None}
  /\ (detecting => lookup = "asking") /\ (lookup = "asking" <=> asked # None)
  /\ lookup \in {"idle", "waiting", "asking"} /\ phase \in {"editing", "sending", "closed"}
  /\ changes \in 0..MaxChanges
AppShape == AppFlags /\ AppPlaces

\* Every change of the form, and every answer, leaves it in shape.
LEMMA AppShapeStays ==
  ASSUME App!CreateApplicationAssumption, AppInv, AppShape, [App!Next]_(App!vars) PROVE AppShape'
<1>0. /\ repository \in Repositories \cup {None} /\ runtimeChosen \in BOOLEAN /\ versionChosen \in BOOLEAN
      /\ lookup = "asking" => asked = <<repository, branch>> /\ repository # None
      /\ branch \in App!BranchNames \cup {None} /\ MaxChanges \in Nat
  BY DEF AppInv, AppTypes, AppRules, AskRule, AppShape, AppPlaces, App!CreateApplicationAssumption
<1>1. ASSUME NEW r \in Repositories, NEW b \in Branches[r] \cup {None} PROVE b \in App!BranchNames \cup {None}
  BY <1>1 DEF App!BranchNames
<1>2. ASSUME NEW r, NEW s, NEW d, NEW v, NEW b \in BOOLEAN, App!Prefill(r, s, d, v, b) PROVE database' \in BOOLEAN
  <2>1. database' = IF databaseChosen' THEN b ELSE r \in Suggesting
    BY <1>2 DEF App!Prefill
  <2>2. CASE databaseChosen'
    BY <2>1, <2>2
  <2>3. CASE ~databaseChosen'
    <3>1. database' = (r \in Suggesting)
      BY <2>1, <2>3
    <3>2. (r \in Suggesting) \in BOOLEAN
      BY SMT
    <3> QED
      BY <3>1, <3>2
  <2> QED
    BY <2>2, <2>3
<1>3. ASSUME NEW r, NEW b, App!Look(r, b)
      PROVE  detecting' = FALSE /\ lookup' \in {"idle", "waiting"} /\ asked' = None
  BY <1>3 DEF App!Look, App!Stopped
<1>4. ASSUME NEW r \in Repositories \cup {None}, App!ChooseRepository(r) PROVE AppShape'
  <2>1. database' \in BOOLEAN
    BY <1>2, <1>4, Zenon DEF App!ChooseRepository, AppShape, AppFlags
  <2>2. detecting' = FALSE /\ lookup' \in {"idle", "waiting"} /\ asked' = None
    BY <1>3, <1>4 DEF App!ChooseRepository
  <2>8. databaseChosen' \in BOOLEAN /\ changing' \in BOOLEAN /\ detecting' \in BOOLEAN
    BY <1>4, <2>2, Zenon DEF App!ChooseRepository, AppShape, AppFlags, AppFlags
  <2>9. AppFlags'
    BY <2>8, <2>1 DEF AppFlags
  <2> QED
    BY <2>9, <1>0, <1>4, <2>1, <2>2 DEF App!ChooseRepository, AppShape, AppPlaces
<1>5. ASSUME repository # None, NEW b \in Branches[repository] \cup {None}, App!changeBranch(b) PROVE AppShape'
  <2>1. detecting' = FALSE /\ lookup' \in {"idle", "waiting"} /\ asked' = None
    BY <1>3, <1>5 DEF App!changeBranch
  <2>2. b \in App!BranchNames \cup {None}
    BY <1>0, <1>1, <1>5
  <2>3. branch' = b /\ changes' = changes + 1 /\ changes < MaxChanges /\ UNCHANGED <<database, server, databaseChosen, changing, phase>>
    BY <1>5 DEF App!changeBranch, App!chosen
  <2>8. database' \in BOOLEAN /\ databaseChosen' \in BOOLEAN /\ changing' \in BOOLEAN /\ detecting' \in BOOLEAN
    BY <1>5, <2>1, Zenon DEF App!changeBranch, App!chosen, AppShape, AppFlags
  <2>9. AppFlags'
    BY <2>8, <2>8 DEF AppFlags
  <2> QED
    BY <2>9, <1>0, <2>1, <2>2, <2>3 DEF AppShape, AppPlaces
<1>6. ASSUME NEW r, App!selectRuntime(r) PROVE AppShape'
  <2>1. database' \in BOOLEAN
    BY <1>2, <1>6, Zenon DEF App!selectRuntime, AppShape, AppFlags
  <2>8. databaseChosen' \in BOOLEAN /\ changing' \in BOOLEAN /\ detecting' \in BOOLEAN
    BY <1>6, Zenon DEF App!selectRuntime, App!looking, AppShape, AppFlags
  <2>9. AppFlags'
    BY <2>8, <2>1 DEF AppFlags
  <2> QED
    BY <2>9, <1>6, <2>1 DEF App!selectRuntime, App!looking, AppShape, AppPlaces
<1>7. ASSUME NEW s \in Servers, App!SelectServer(s) PROVE AppShape'
  <2>1. database' \in BOOLEAN
    BY <1>2, <1>7, Zenon DEF App!SelectServer, AppShape, AppFlags
  <2>8. databaseChosen' \in BOOLEAN /\ changing' \in BOOLEAN /\ detecting' \in BOOLEAN
    BY <1>7, Zenon DEF App!SelectServer, App!looking, App!chosen, AppShape, AppFlags
  <2>9. AppFlags'
    BY <2>8, <2>1 DEF AppFlags
  <2> QED
    BY <2>9, <1>7, <2>1 DEF App!SelectServer, App!looking, App!chosen, AppShape, AppPlaces
<1>8. CASE App!SwitchDatabase
  <2>1. database' \in BOOLEAN
    BY <1>8, Zenon DEF App!SwitchDatabase
  <2>8. databaseChosen' \in BOOLEAN /\ changing' \in BOOLEAN /\ detecting' \in BOOLEAN
    BY <1>8, Zenon DEF App!SwitchDatabase, App!looking, AppShape, AppFlags
  <2>9. AppFlags'
    BY <2>8, <2>1 DEF AppFlags
  <2> QED
    BY <2>9, <1>8, <2>1 DEF App!SwitchDatabase, App!looking, AppShape, AppPlaces
<1>9. ASSUME NEW v, App!SelectVersion(v) PROVE AppShape'
  <2>8. database' \in BOOLEAN /\ databaseChosen' \in BOOLEAN /\ changing' \in BOOLEAN /\ detecting' \in BOOLEAN
    BY <1>9, Zenon DEF App!SelectVersion, App!looking, AppShape, AppFlags
  <2>9. AppFlags'
    BY <2>8, <2>8 DEF AppFlags
  <2> QED
    BY <2>9, <1>9 DEF App!SelectVersion, App!looking, AppShape, AppPlaces
<1>10. CASE App!ChangeRuntime \/ App!submit \/ App!Refused \/ UNCHANGED App!vars
  <2>8. database' \in BOOLEAN /\ databaseChosen' \in BOOLEAN /\ changing' \in BOOLEAN /\ detecting' \in BOOLEAN
    BY <1>10, Zenon DEF App!ChangeRuntime, App!submit, App!Refused, App!vars, App!fields, App!chosen, App!looking, AppShape, AppFlags
  <2>9. AppFlags'
    BY <2>8, <2>8 DEF AppFlags
  <2> QED
    BY <2>9, <1>10 DEF App!ChangeRuntime, App!submit, App!Refused, App!vars, App!fields, App!chosen, App!looking, AppShape, AppPlaces
<1>11. CASE App!Close
  <2>8. database' \in BOOLEAN /\ databaseChosen' \in BOOLEAN /\ changing' \in BOOLEAN /\ detecting' \in BOOLEAN
    BY <1>11, Zenon DEF App!Close, App!fields, App!chosen, AppShape, AppFlags
  <2>9. AppFlags'
    BY <2>8, <2>8 DEF AppFlags
  <2> QED
    BY <2>9, <1>11 DEF App!Close, App!fields, App!chosen, AppShape, AppPlaces
<1>12. CASE App!Ask
  <2>1. asked' # None
    <3>1. asked' = <<repository, branch>> /\ repository # None
      BY <1>12 DEF App!Ask, AppInv, AppRules, AskRule
    <3>2. <<repository, branch>> \in Repositories \X (App!BranchNames \cup {None})
      BY <1>0, <3>1
    <3>3. None \notin Repositories \X (App!BranchNames \cup {None})
      BY DEF App!CreateApplicationAssumption
    <3> QED
      BY <3>1, <3>2, <3>3
  <2>8. database' \in BOOLEAN /\ databaseChosen' \in BOOLEAN /\ changing' \in BOOLEAN /\ detecting' \in BOOLEAN
    BY <1>12, Zenon DEF App!Ask, App!fields, App!chosen, AppShape, AppFlags
  <2>9. AppFlags'
    BY <2>8, <2>8 DEF AppFlags
  <2> QED
    BY <2>9, <1>12, <2>1 DEF App!Ask, App!fields, App!chosen, AppShape, AppPlaces
<1>13. CASE App!fallBackToPicker
  <2>1. database' \in BOOLEAN
    BY <1>2, <1>13, Zenon DEF App!fallBackToPicker, AppShape, AppFlags
  <2>8. databaseChosen' \in BOOLEAN /\ changing' \in BOOLEAN /\ detecting' \in BOOLEAN
    BY <1>13, Zenon DEF App!fallBackToPicker, App!Finally, App!chosen, AppShape, AppFlags
  <2>9. AppFlags'
    BY <2>8, <2>1 DEF AppFlags
  <2> QED
    BY <2>9, <1>13, <2>1 DEF App!fallBackToPicker, App!Finally, App!chosen, AppShape, AppPlaces
<1>14. ASSUME App!Answer PROVE AppShape'
  <2>1. PICK result \in App!detect(repository, branch): lookup = "asking" /\ App!Answered(result)
    BY <1>0, <1>14 DEF App!Answer
  <2>2. repository \in Repositories /\ branch \in Branches[repository] \cup {None}
    BY <1>0, <2>1 DEF AppInv, AppFits, App!BranchIsOfRepository
  <2>3. result.branch \in App!BranchNames \cup {None}
    BY <1>1, <2>1, <2>2, DetectFinds
  <2>4. database' \in BOOLEAN
    BY <1>2, <2>1, Zenon DEF App!Answered, AppShape, AppFlags
  <2>5. changing' \in BOOLEAN
    BY <2>1, Zenon DEF App!Answered, AppShape, AppFlags
  <2>8. databaseChosen' \in BOOLEAN /\ changing' \in BOOLEAN /\ detecting' \in BOOLEAN
    BY <2>1, Zenon DEF App!Answered, App!Finally, App!chosen, AppShape, AppFlags
  <2>9. AppFlags'
    BY <2>8, <2>4 DEF AppFlags
  <2> QED
    BY <2>9, <2>1, <2>3, <2>4, <2>5 DEF App!Answered, App!Finally, App!chosen, AppShape, AppPlaces
<1> QED
  BY <1>4, <1>5, <1>6, <1>7, <1>8, <1>9, <1>10, <1>11, <1>12, <1>13, <1>14 DEF App!Next

\* Every field of the application form keeps to its values, and Detecting shows only while the form waits for the
\* answer about the repository and the branch it holds (the page's detection effect).
THEOREM ApplicationTypeOK ==
  ASSUME App!CreateApplicationAssumption PROVE App!Init /\ [][App!Next]_(App!vars) => []App!TypeOK
<1>1. App!Init => AppShape
  <2> SUFFICES ASSUME App!Init PROVE AppShape
    OBVIOUS
  <2>1. AppFlags
    BY Zenon DEF App!Init, AppFlags
  <2>2. server \in Servers \cup {None}
    BY DEF App!Init
  <2>3. ~detecting /\ MaxChanges \in Nat
    BY DEF App!Init, App!CreateApplicationAssumption
  <2>4. AppPlaces
    BY <2>2, <2>3 DEF App!Init, AppPlaces
  <2> QED
    BY <2>1, <2>4 DEF AppShape
<1>2. AppInv /\ AppShape => App!TypeOK
  BY DEF AppInv, AppTypes, AppShape, AppFlags, AppPlaces, App!TypeOK
<1> QED
  BY <1>1, <1>2, AppStart, AppStep, AppShapeStays, PTL
-----------------------------------------------------------------------------
(* The source of a site. *)

\* No request is of an appearance to come.
MountRule ==
  /\ mounted \in Nat /\ use_source_control \in BOOLEAN
  /\ \A q \in askedRepos \cup askedBranches: q.mount \in Nat /\ q.mount <= mounted
\* Unless it was crossed there is one request at most; that of the fields on the page is for what is
\* chosen above it and knows the value, and the list is empty until it ends.
ReposRule ==
  ~crossedRepos =>
    /\ \A p, q \in askedRepos: p = q
    /\ repos # {} => askedRepos = {} /\ source_control # None
    /\ \A q \in askedRepos: use_source_control /\ q.mount = mounted =>
         gettingRepos /\ source_control # None /\ q.control = source_control /\ q.value = repository
BranchesRule ==
  ~crossedBranches =>
    /\ \A p, q \in askedBranches: p = q
    /\ branches # {} => askedBranches = {} /\ source_control # None
    /\ \A q \in askedBranches: use_source_control /\ q.mount = mounted =>
         /\ gettingBranches /\ source_control # None /\ q.value = branch
         /\ repository # None => q.control = source_control /\ q.repo = repository
SourceFits == Source!ChoicesAreListed /\ Source!SourceOffIsEmpty
SourceInv == MountRule /\ ReposRule /\ BranchesRule /\ SourceFits

LEMMA SourceStart == ASSUME Source!Init PROVE SourceInv
BY DEF Source!Init, Source!data, SourceInv, MountRule, ReposRule, BranchesRule, SourceFits, Source!ChoicesAreListed,
       Source!SourceOffIsEmpty

\* What the field of repositories is made of, and that of branches.
ReposPart == <<use_source_control, mounted, source_control, repository, repos, gettingRepos, askedRepos, crossedRepos>>
BranchesPart ==
  <<use_source_control, mounted, source_control, repository, branch, branches, gettingBranches, askedBranches,
    crossedBranches>>
ReposFit ==
  repos # {} /\ ~crossedRepos => repository \in repos \cup {None} /\ repos = ReposOf[source_control]
BranchesFit ==
  branches # {} /\ ~crossedBranches /\ repository # None =>
    branch \in branches \cup {None} /\ branches = BranchesOf[source_control][repository]

\* A request for repositories.
LEMMA FetchedRepos ==
  ASSUME MountRule, ReposRule, NEW c, c # None, Source!fetchRepos(c), source_control' = c,
         repository' = repository, UNCHANGED <<use_source_control, mounted>>
  PROVE  ReposRule' /\ ReposFit' /\ \A q \in askedRepos': q.mount \in Nat /\ q.mount <= mounted'
<1> DEFINE new == [id |-> asked + 1, control |-> c, repo |-> None, mount |-> mounted, value |-> repository]
<1>1. /\ repos' = {} /\ gettingRepos' = TRUE /\ crossedRepos' = (askedRepos # {})
      /\ askedRepos' = askedRepos \cup {new}
  BY DEF Source!fetchRepos
<1>2. new.mount = mounted /\ new.control = c /\ new.value = repository
  OBVIOUS
<1> HIDE DEF new
<1>3. ReposFit'
  BY <1>1 DEF ReposFit
<1>4. ReposRule'
  BY <1>1, <1>2 DEF ReposRule
<1>5. \A q \in askedRepos': q.mount \in Nat /\ q.mount <= mounted'
  BY <1>1, <1>2 DEF MountRule
<1> QED
  BY <1>3, <1>4, <1>5

\* A request for branches, or none for an empty repository.
LEMMA FetchedBranches ==
  ASSUME MountRule, BranchesRule, NEW c, NEW r, NEW count,
         Source!fetchBranches(c, r, count), source_control' = c,
         repository' = r, branch' = branch, UNCHANGED <<use_source_control, mounted>>,
         use_source_control, c = None => source_control = None
  PROVE  /\ BranchesRule' /\ BranchesFit' /\ \A q \in askedBranches': q.mount \in Nat /\ q.mount <= mounted'
<1> DEFINE new == [id |-> asked + count, control |-> c, repo |-> r, mount |-> mounted, value |-> branch]
<1>1. branches' = {}
  BY DEF Source!fetchBranches
<1>2. BranchesFit'
  BY <1>1 DEF BranchesFit
<1>3. CASE c = None \/ r = None
  <2>1. UNCHANGED <<gettingBranches, askedBranches, crossedBranches>>
    BY <1>3 DEF Source!fetchBranches
  <2> QED
    BY <1>1, <1>2, <1>3, <2>1 DEF BranchesRule, MountRule
<1>4. CASE ~(c = None \/ r = None)
  <2>1. /\ gettingBranches' = TRUE /\ crossedBranches' = (askedBranches # {})
        /\ askedBranches' = askedBranches \cup {new}
    BY <1>4 DEF Source!fetchBranches
  <2>2. new.mount = mounted /\ new.control = c /\ new.value = branch /\ new.repo = r
    OBVIOUS
  <2> HIDE DEF new
  <2>3. BranchesRule'
    BY <1>1, <1>4, <2>1, <2>2 DEF BranchesRule
  <2>4. \A q \in askedBranches': q.mount \in Nat /\ q.mount <= mounted'
    BY <2>1, <2>2 DEF MountRule
  <2> QED
    BY <1>2, <2>3, <2>4
<1> QED
  BY <1>3, <1>4

LEMMA SourceStep ==
  ASSUME Source!SourceSelectAssumption, SourceInv, [Source!Next]_(Source!vars) PROVE SourceInv'
<1>0. None \notin Controls
  BY DEF Source!SourceSelectAssumption
<1>a. MountRule /\ ReposRule /\ BranchesRule /\ ReposFit /\ BranchesFit /\ Source!SourceOffIsEmpty
  BY DEF SourceInv, SourceFits, Source!ChoicesAreListed, ReposFit, BranchesFit
<1>b. SUFFICES MountRule' /\ ReposRule' /\ BranchesRule' /\ ReposFit' /\ BranchesFit' /\ Source!SourceOffIsEmpty'
  BY DEF SourceInv, SourceFits, Source!ChoicesAreListed, ReposFit, BranchesFit
<1>c. ASSUME UNCHANGED ReposPart PROVE ReposRule' /\ ReposFit'
  BY <1>a, <1>c DEF ReposPart, ReposRule, ReposFit
<1>d. ASSUME UNCHANGED BranchesPart PROVE BranchesRule' /\ BranchesFit'
  BY <1>a, <1>d DEF BranchesPart, BranchesRule, BranchesFit
<1> DEFINE Goal == MountRule' /\ ReposRule' /\ BranchesRule' /\ ReposFit' /\ BranchesFit' /\ Source!SourceOffIsEmpty'
<1>1. ASSUME Source!Switch PROVE Goal
  <2>1. MountRule'
    BY <1>1, <1>a DEF Source!Switch, MountRule
  <2>2. ReposFit' /\ BranchesFit'
    BY <1>1 DEF Source!Switch, ReposFit, BranchesFit
  <2>3. \A q \in askedRepos' \cup askedBranches': ~(use_source_control' /\ q.mount = mounted')
    <3>1. CASE use_source_control
      BY <1>1, <3>1 DEF Source!Switch
    <3>2. CASE ~use_source_control
      BY <1>1, <1>a, <3>2 DEF Source!Switch, MountRule
    <3> QED
      BY <3>1, <3>2
  <2>4. ReposRule' /\ BranchesRule'
    BY <1>1, <1>a, <2>3 DEF Source!Switch, ReposRule, BranchesRule
  <2>5. Source!SourceOffIsEmpty'
    BY <1>1 DEF Source!Switch, Source!Cleared, Source!SourceOffIsEmpty, Source!data
  <2> QED
    BY <2>1, <2>2, <2>4, <2>5
<1>2. ASSUME NEW c \in Controls, Source!SelectControl(c) PROVE Goal
  <2>1. ReposRule' /\ ReposFit' /\ \A q \in askedRepos': q.mount \in Nat /\ q.mount <= mounted'
    BY <1>0, <1>2, <1>a, FetchedRepos DEF Source!SelectControl
  <2>2. BranchesRule' /\ BranchesFit' /\ \A q \in askedBranches': q.mount \in Nat /\ q.mount <= mounted'
    BY <1>0, <1>2, <1>a, FetchedBranches DEF Source!SelectControl
  <2>3. MountRule' /\ Source!SourceOffIsEmpty'
    BY <1>2, <1>a, <2>1, <2>2 DEF Source!SelectControl, MountRule, Source!SourceOffIsEmpty
  <2> QED
    BY <2>1, <2>2, <2>3
<1>3. ASSUME NEW r \in Repos, Source!SelectRepo(r) PROVE Goal
  <2>1. BranchesRule' /\ BranchesFit' /\ \A q \in askedBranches': q.mount \in Nat /\ q.mount <= mounted'
    BY <1>3, <1>a, FetchedBranches DEF Source!SelectRepo, Source!fetchBranches
  <2>2. ReposRule' /\ ReposFit'
    BY <1>3, <1>a DEF Source!SelectRepo, Source!repoField, ReposRule, ReposFit
  <2>3. MountRule' /\ Source!SourceOffIsEmpty'
    BY <1>3, <1>a, <2>1 DEF Source!SelectRepo, Source!repoField, MountRule, Source!SourceOffIsEmpty
  <2> QED
    BY <2>1, <2>2, <2>3
<1>4. ASSUME NEW b \in BranchesHere, Source!SelectBranch(b) PROVE Goal
  <2>1. BranchesRule' /\ BranchesFit'
    BY <1>4, <1>a DEF Source!SelectBranch, Source!branchField, BranchesRule, BranchesFit
  <2>2. MountRule' /\ Source!SourceOffIsEmpty' /\ UNCHANGED ReposPart
    BY <1>4, <1>a
       DEF Source!SelectBranch, Source!branchField, Source!repoField, MountRule, Source!SourceOffIsEmpty,
           ReposPart
  <2> QED
    BY <2>1, <2>2, <1>c
<1>5. ASSUME Source!refreshRepos PROVE Goal
  <2>1. ReposRule' /\ ReposFit' /\ \A q \in askedRepos': q.mount \in Nat /\ q.mount <= mounted'
    BY <1>5, <1>a, FetchedRepos DEF Source!refreshRepos, Source!data
  <2>2. MountRule' /\ Source!SourceOffIsEmpty' /\ UNCHANGED BranchesPart
    BY <1>5, <1>a, <2>1
       DEF Source!refreshRepos, Source!data, Source!branchField, MountRule, Source!SourceOffIsEmpty, BranchesPart
  <2> QED
    BY <2>1, <2>2, <1>d
<1>6. ASSUME Source!refreshBranches PROVE Goal
  <2>1. BranchesRule' /\ BranchesFit' /\ \A q \in askedBranches': q.mount \in Nat /\ q.mount <= mounted'
    BY <1>6, <1>a, FetchedBranches DEF Source!refreshBranches, Source!data
  <2>2. MountRule' /\ Source!SourceOffIsEmpty' /\ UNCHANGED ReposPart
    BY <1>6, <1>a, <2>1
       DEF Source!refreshBranches, Source!data, Source!repoField, MountRule, Source!SourceOffIsEmpty, ReposPart
  <2> QED
    BY <2>1, <2>2, <1>c
<1>7. ASSUME NEW q \in askedRepos, Source!Repos_Answer(q) PROVE Goal
  <2>1. /\ UNCHANGED <<use_source_control, mounted, source_control, branch, crossedRepos>>
        /\ askedRepos' = askedRepos \ {q} /\ repository' \in {repository, None}
        /\ ~use_source_control => repository' = None
    BY <1>7 DEF Source!Repos_Answer, Source!Cleared, Source!KeptRepo
  <2>2. Source!SourceOffIsEmpty'
    BY <1>a, <2>1 DEF Source!SourceOffIsEmpty, Source!data
  <2>3. ASSUME q.mount = mounted, use_source_control PROVE ReposRule' /\ ReposFit'
    <3>1. /\ repos' = ReposOf[q.control] /\ gettingRepos' = FALSE
          /\ repository' = IF repos' # {} /\ q.value \notin repos' THEN None ELSE repository
      BY <1>7, <2>3 DEF Source!Repos_Answer, Source!Cleared, Source!KeptRepo
    <3>2. ASSUME ~crossedRepos
          PROVE  /\ q.control = source_control /\ q.value = repository /\ source_control # None /\ askedRepos' = {}
      BY <1>a, <1>7, <2>1, <2>3, <3>2 DEF ReposRule
    <3> QED
      BY <2>1, <3>1, <3>2 DEF ReposRule, ReposFit
  <2>4. ASSUME ~(q.mount = mounted /\ use_source_control) PROVE ReposRule' /\ ReposFit'
    <3>1. UNCHANGED <<repos, gettingRepos>>
      BY <1>7, <2>4 DEF Source!Repos_Answer
    <3>2. ASSUME ~crossedRepos PROVE repos = {} /\ askedRepos' = {}
      BY <1>a, <1>7, <2>1, <3>2 DEF ReposRule
    <3> QED
      BY <2>1, <3>1, <3>2 DEF ReposRule, ReposFit
  <2>5. ReposRule' /\ ReposFit'
    BY <2>3, <2>4
  <2>6. BranchesRule' /\ BranchesFit' /\ askedBranches' = askedBranches
    <3>1. CASE repository' # repository /\ use_source_control
      <4>1. branches' = {} /\ repository' = None /\ UNCHANGED <<gettingBranches, askedBranches, crossedBranches>>
        BY <1>7, <2>1, <3>1 DEF Source!Repos_Answer, Source!RepositoryEmptied, Source!fetchBranches
      <4> QED
        BY <1>a, <2>1, <4>1 DEF BranchesRule, BranchesFit
    <3>2. CASE ~(repository' # repository /\ use_source_control)
      <4>1. UNCHANGED <<branches, gettingBranches, askedBranches, crossedBranches>>
        BY <1>7, <3>2 DEF Source!Repos_Answer, Source!RepositoryEmptied, Source!branchField
      <4>2. CASE use_source_control
        BY <1>d, <2>1, <3>2, <4>1, <4>2 DEF BranchesPart
      <4>3. CASE ~use_source_control
        BY <1>a, <2>1, <4>1, <4>3 DEF BranchesRule, BranchesFit
      <4> QED
        BY <4>2, <4>3
    <3> QED
      BY <3>1, <3>2
  <2>7. MountRule'
    BY <1>a, <2>1, <2>6 DEF MountRule
  <2> QED
    BY <2>2, <2>5, <2>6, <2>7
<1>8. ASSUME NEW q \in askedRepos, Source!Repos_Failure(q) PROVE Goal
  <2>1. /\ askedRepos' = askedRepos \ {q} /\ crossedRepos' = crossedRepos
        /\ UNCHANGED <<use_source_control, mounted, source_control, repository, branch>>
        /\ UNCHANGED <<branches, gettingBranches, askedBranches, crossedBranches>>
        /\ repos' # {} => repos' = repos
    BY <1>8 DEF Source!Repos_Failure, Source!data, Source!branchField
  <2>2. ASSUME ~crossedRepos PROVE repos = {} /\ askedRepos' = {}
    BY <1>a, <1>8, <2>1, <2>2 DEF ReposRule
  <2>3. ReposRule' /\ ReposFit'
    BY <2>1, <2>2 DEF ReposRule, ReposFit
  <2>4. MountRule' /\ Source!SourceOffIsEmpty' /\ UNCHANGED BranchesPart
    BY <1>a, <2>1 DEF MountRule, Source!SourceOffIsEmpty, Source!data, BranchesPart
  <2> QED
    BY <1>d, <2>3, <2>4
<1>9. ASSUME NEW q \in askedBranches, Source!Branches_Answer(q) PROVE Goal
  <2> DEFINE list == BranchesOf[q.control][q.repo]
  <2>1. /\ UNCHANGED <<use_source_control, mounted, source_control, repository, crossedBranches>>
        /\ UNCHANGED <<repos, gettingRepos, askedRepos, crossedRepos>>
        /\ askedBranches' = askedBranches \ {q} /\ branch' = IF use_source_control THEN Source!KeptBranch(q, list) ELSE None
    BY <1>9 DEF Source!Branches_Answer, Source!Cleared, Source!repoField
  <2>2. Source!SourceOffIsEmpty'
    BY <1>a, <2>1 DEF Source!SourceOffIsEmpty, Source!data
  <2>3. ASSUME q.mount = mounted, use_source_control PROVE BranchesRule' /\ BranchesFit'
    <3>1. branches' = list /\ gettingBranches' = FALSE
      BY <1>9, <2>3 DEF Source!Branches_Answer
    <3>2. ASSUME ~crossedBranches
          PROVE  /\ q.value = branch /\ source_control # None /\ askedBranches' = {}
                 /\ repository # None => q.control = source_control /\ q.repo = repository
      BY <1>a, <1>9, <2>1, <2>3, <3>2 DEF BranchesRule
    <3>3. ASSUME ~crossedBranches, list # {} PROVE branch' \in list \cup {None}
      BY <2>1, <2>3, <3>2, <3>3 DEF Source!KeptBranch
    <3> HIDE DEF list
    <3>4. BranchesRule'
      BY <2>1, <3>1, <3>2 DEF BranchesRule
    <3>5. BranchesFit'
      BY <2>1, <3>1, <3>2, <3>3 DEF BranchesFit, list
    <3> QED
      BY <3>4, <3>5
  <2>4. ASSUME ~(q.mount = mounted /\ use_source_control) PROVE BranchesRule' /\ BranchesFit'
    <3>1. UNCHANGED <<branches, gettingBranches>>
      BY <1>9, <2>4 DEF Source!Branches_Answer
    <3>2. ASSUME ~crossedBranches PROVE branches = {} /\ askedBranches' = {}
      BY <1>a, <1>9, <2>1, <3>2 DEF BranchesRule
    <3> QED
      BY <2>1, <3>1, <3>2 DEF BranchesRule, BranchesFit
  <2>5. MountRule' /\ UNCHANGED ReposPart
    BY <1>a, <2>1 DEF MountRule, ReposPart
  <2> QED
    BY <1>c, <2>2, <2>3, <2>4, <2>5
<1>10. ASSUME NEW q \in askedBranches, Source!Branches_Failure(q) PROVE Goal
  <2>1. /\ askedBranches' = askedBranches \ {q} /\ crossedBranches' = crossedBranches
        /\ UNCHANGED <<use_source_control, mounted, source_control, repository, branch>>
        /\ UNCHANGED <<repos, gettingRepos, askedRepos, crossedRepos>>
        /\ branches' # {} => branches' = branches
    BY <1>10 DEF Source!Branches_Failure, Source!data, Source!repoField
  <2>2. ASSUME ~crossedBranches PROVE branches = {} /\ askedBranches' = {}
    BY <1>a, <1>10, <2>1, <2>2 DEF BranchesRule
  <2>3. BranchesRule' /\ BranchesFit'
    BY <2>1, <2>2 DEF BranchesRule, BranchesFit
  <2>4. MountRule' /\ Source!SourceOffIsEmpty' /\ UNCHANGED ReposPart
    BY <1>a, <2>1 DEF MountRule, Source!SourceOffIsEmpty, Source!data, ReposPart
  <2> QED
    BY <1>c, <2>3, <2>4
<1>11. ASSUME UNCHANGED Source!vars PROVE Goal
  <2>1. /\ UNCHANGED <<use_source_control, mounted, askedRepos, askedBranches, Source!data>>
        /\ UNCHANGED ReposPart /\ UNCHANGED BranchesPart
    BY <1>11 DEF Source!vars, Source!data, Source!repoField, Source!branchField, ReposPart, BranchesPart
  <2> QED
    BY <1>a, <1>c, <1>d, <2>1 DEF MountRule, Source!SourceOffIsEmpty
<1> QED
  BY <1>1, <1>2, <1>3, <1>4, <1>5, <1>6, <1>7, <1>8, <1>9, <1>10, <1>11 DEF Source!Next

\* The lists are those of what is chosen above them and hold what is chosen, whatever is answered late, as long
\* as no request crossed another; a site without source control has none of the three.
THEOREM SourceChoicesFit ==
  ASSUME Source!SourceSelectAssumption
  PROVE  Source!Init /\ [][Source!Next]_(Source!vars) => [](Source!ChoicesAreListed /\ Source!SourceOffIsEmpty)
<1>1. SourceInv => Source!ChoicesAreListed /\ Source!SourceOffIsEmpty
  BY DEF SourceInv, SourceFits
<1> QED
  BY <1>1, SourceStart, SourceStep, PTL

\* The switches are switches; the spinner of branches turns for a request of the fields on the page,
\* and requests for branches are for a repository.
SourceFlags ==
  /\ use_source_control \in BOOLEAN /\ gettingRepos \in BOOLEAN /\ gettingBranches \in BOOLEAN
  /\ crossedRepos \in BOOLEAN /\ crossedBranches \in BOOLEAN
SpinRule ==
  /\ mounted \in Nat /\ (~use_source_control => ~gettingBranches)
  /\ gettingBranches => \E q \in askedBranches: q.mount = mounted
SourceFields ==
  /\ source_control \in Controls \cup {None} /\ repository \in Repos \cup {None} /\ branch \in BranchesHere \cup {None}
  /\ repos \subseteq Repos /\ branches \subseteq BranchesHere
Requested ==
  /\ askedRepos \subseteq Source!Request /\ asked \in 0..MaxAsked
  /\ askedBranches \subseteq {q \in Source!Request: q.repo # None}
SourceShape == SourceFlags /\ SpinRule /\ SourceFields /\ Requested

\* A request for repositories is for the control that is chosen.
LEMMA ReposAsked ==
  ASSUME Source!SourceSelectAssumption, SourceShape, NEW c \in Controls, Source!fetchRepos(c), asked < MaxAsked
  PROVE  /\ repos' \subseteq Repos /\ askedRepos' \subseteq Source!Request
         /\ gettingRepos' \in BOOLEAN /\ crossedRepos' \in BOOLEAN
<1> DEFINE new == [id |-> asked + 1, control |-> c, repo |-> None, mount |-> mounted, value |-> repository]
<1>1. new \in Source!Request
  BY DEF SourceShape, SpinRule, SourceFields, Requested, Source!Request, Source!SourceSelectAssumption
<1>2. c # None
  BY DEF Source!SourceSelectAssumption
<1>3. repos' = {} /\ gettingRepos' = TRUE /\ askedRepos' = askedRepos \cup {new} /\ crossedRepos' = (askedRepos # {})
  BY <1>2 DEF Source!fetchRepos
<1> HIDE DEF new
<1>4. crossedRepos' \in BOOLEAN
  BY <1>3, Zenon
<1> QED
  BY <1>1, <1>3, <1>4 DEF SourceShape, Requested

LEMMA BranchesAsked ==
  ASSUME Source!SourceSelectAssumption, SourceShape, NEW c \in Controls \cup {None}, NEW r \in Repos \cup {None},
         NEW n \in {1, 2}, Source!fetchBranches(c, r, n), asked + n <= MaxAsked, mounted' = mounted,
         use_source_control, use_source_control'
  PROVE  /\ branches' = {} /\ askedBranches' \subseteq {q \in Source!Request: q.repo # None}
         /\ gettingBranches' \in BOOLEAN /\ crossedBranches' \in BOOLEAN
         /\ SpinRule'
<1>1. branches' = {}
  BY DEF Source!fetchBranches
<1>2. CASE c = None \/ r = None
  <2>1. UNCHANGED <<gettingBranches, askedBranches, crossedBranches>>
    BY <1>2 DEF Source!fetchBranches
  <2>2. gettingBranches' \in BOOLEAN /\ crossedBranches' \in BOOLEAN
    BY <2>1, Zenon DEF SourceShape, SourceFlags
  <2> QED
    BY <1>1, <2>1, <2>2 DEF SourceShape, Requested, SpinRule
<1>3. CASE ~(c = None \/ r = None)
  <2> DEFINE new == [id |-> asked + n, control |-> c, repo |-> r, mount |-> mounted, value |-> branch]
  <2>1. new \in Source!Request /\ new.repo # None /\ new.mount = mounted
    BY <1>3 DEF SourceShape, SpinRule, SourceFields, Requested, Source!Request, Source!SourceSelectAssumption
  <2>2. gettingBranches' = TRUE /\ askedBranches' = askedBranches \cup {new} /\ crossedBranches' = (askedBranches # {})
    BY <1>3 DEF Source!fetchBranches
  <2> HIDE DEF new
  <2>3. crossedBranches' \in BOOLEAN
    BY <2>2, Zenon
  <2>4. SpinRule'
    BY <2>1, <2>2 DEF SourceShape, SpinRule
  <2> QED
    BY <1>1, <2>1, <2>2, <2>3, <2>4 DEF SourceShape, Requested
<1> QED
  BY <1>2, <1>3

\* The branch that is kept is one of the list, or was there before.
LEMMA KeptBranchFits ==
  ASSUME NEW q, NEW list PROVE Source!KeptBranch(q, list) \in list \cup {branch, None}
<1>1. ASSUME Source!Cardinality(list) = 1 PROVE list # {}
  <2>1. Cardinality(list) = Source!Cardinality(list)
    BY DEF Cardinality, IsFiniteSet, Source!Cardinality, Source!IsFiniteSet
  <2> QED
    BY <1>1, <2>1, FS_EmptySet
<1> QED
  BY <1>1 DEF Source!KeptBranch

LEMMA SourceShapeStays ==
  ASSUME Source!SourceSelectAssumption, SourceShape, [Source!Next]_(Source!vars) PROVE SourceShape'
<1>1. MaxAsked \in Nat /\ ReposOf \in [Controls -> SUBSET Repos] /\ BranchesOf \in [Controls -> [Repos -> SUBSET BranchesHere]]
  BY DEF Source!SourceSelectAssumption
<1>2. SourceFlags /\ SpinRule /\ SourceFields /\ Requested
  BY DEF SourceShape
<1>3. ASSUME Source!Switch PROVE SourceShape'
  <2>1. gettingRepos' = FALSE /\ gettingBranches' = FALSE /\ UNCHANGED <<crossedRepos, crossedBranches>>
    BY <1>3 DEF Source!Switch
  <2>2. use_source_control' = ~use_source_control
    BY <1>3 DEF Source!Switch
  <2>3. use_source_control' \in BOOLEAN
    BY <2>2, Zenon
  <2>4. SourceFlags'
    BY <1>2, <2>1, <2>3, Zenon DEF SourceFlags
  <2>5. SourceFields' /\ Requested'
    BY <1>2, <1>3 DEF Source!Switch, Source!Cleared, SourceFields, Requested
  <2>6. SpinRule'
    BY <1>2, <1>3, <2>1 DEF Source!Switch, SpinRule
  <2> QED
    BY <2>4, <2>5, <2>6 DEF SourceShape
<1>4. ASSUME NEW c \in Controls, Source!SelectControl(c) PROVE SourceShape'
  <2>1. /\ use_source_control /\ asked + 2 <= MaxAsked /\ asked' = asked + 2 /\ source_control' = c
        /\ UNCHANGED <<repository, branch, use_source_control, mounted>>
        /\ Source!fetchRepos(c) /\ Source!fetchBranches(c, repository, 2)
    BY <1>4 DEF Source!SelectControl
  <2>2. asked < MaxAsked /\ asked \in Nat
    BY <1>1, <1>2, <2>1 DEF Requested
  <2>3. repos' \subseteq Repos /\ askedRepos' \subseteq Source!Request /\ gettingRepos' \in BOOLEAN /\ crossedRepos' \in BOOLEAN
    BY <2>1, <2>2, ReposAsked
  <2>4. /\ branches' = {} /\ askedBranches' \subseteq {q \in Source!Request: q.repo # None}
        /\ gettingBranches' \in BOOLEAN /\ crossedBranches' \in BOOLEAN /\ SpinRule'
    <3>1. use_source_control' /\ repository \in Repos \cup {None}
      BY <1>2, <2>1 DEF SourceFields
    <3> QED
      BY <2>1, <3>1, BranchesAsked
  <2>5. SourceFlags'
    BY <1>2, <2>1, <2>3, <2>4, Zenon DEF SourceFlags
  <2> QED
    BY <1>1, <1>2, <2>1, <2>2, <2>3, <2>4, <2>5 DEF SourceShape, SourceFields, Requested
<1>5. ASSUME NEW r \in Repos, Source!SelectRepo(r) PROVE SourceShape'
  <2>1. /\ use_source_control /\ asked < MaxAsked /\ asked' = asked + 1 /\ repository' = r
        /\ UNCHANGED <<source_control, branch, use_source_control, mounted, repos, gettingRepos, askedRepos, crossedRepos>>
        /\ Source!fetchBranches(source_control, r, 1)
    BY <1>5 DEF Source!SelectRepo, Source!repoField
  <2>2. asked + 1 <= MaxAsked /\ asked \in Nat
    BY <1>1, <1>2, <2>1 DEF Requested
  <2>4. /\ branches' = {} /\ askedBranches' \subseteq {q \in Source!Request: q.repo # None}
        /\ gettingBranches' \in BOOLEAN /\ crossedBranches' \in BOOLEAN /\ SpinRule'
    <3>1. use_source_control' /\ source_control \in Controls \cup {None}
      BY <1>2, <2>1 DEF SourceFields
    <3> QED
      BY <2>1, <2>2, <3>1, BranchesAsked
  <2>5. SourceFlags'
    BY <1>2, <2>1, <2>4, Zenon DEF SourceFlags
  <2> QED
    BY <1>1, <1>2, <2>1, <2>2, <2>4, <2>5 DEF SourceShape, SourceFields, Requested
<1>6. ASSUME NEW b \in BranchesHere, Source!SelectBranch(b) PROVE SourceShape'
  <2>1. SourceFlags'
    BY <1>2, <1>6, Zenon DEF Source!SelectBranch, Source!repoField, Source!branchField, SourceFlags
  <2> QED
    BY <1>2, <1>6, <2>1
       DEF Source!SelectBranch, Source!repoField, Source!branchField, SourceShape, SourceFields, Requested, SpinRule
<1>7. ASSUME Source!refreshRepos PROVE SourceShape'
  <2>1. /\ source_control # None /\ asked < MaxAsked /\ asked' = asked + 1 /\ Source!fetchRepos(source_control)
        /\ UNCHANGED <<source_control, repository, branch, use_source_control, mounted>>
        /\ UNCHANGED <<branches, gettingBranches, askedBranches, crossedBranches>>
    BY <1>7 DEF Source!refreshRepos, Source!data, Source!branchField
  <2>2. source_control \in Controls /\ asked \in Nat
    BY <1>2, <2>1 DEF SourceFields, Requested
  <2>3. repos' \subseteq Repos /\ askedRepos' \subseteq Source!Request /\ gettingRepos' \in BOOLEAN /\ crossedRepos' \in BOOLEAN
    BY <2>1, <2>2, ReposAsked
  <2>4. SourceFlags'
    BY <1>2, <2>1, <2>3, Zenon DEF SourceFlags
  <2> QED
    BY <1>1, <1>2, <2>1, <2>2, <2>3, <2>4 DEF SourceShape, SourceFields, Requested, SpinRule
<1>8. ASSUME Source!refreshBranches PROVE SourceShape'
  <2>1. /\ use_source_control /\ asked < MaxAsked /\ asked' = asked + 1
        /\ UNCHANGED <<source_control, repository, branch, use_source_control, mounted, repos, gettingRepos, askedRepos, crossedRepos>>
        /\ Source!fetchBranches(source_control, repository, 1)
    BY <1>8 DEF Source!refreshBranches, Source!data, Source!repoField
  <2>2. asked + 1 <= MaxAsked /\ asked \in Nat
    BY <1>1, <1>2, <2>1 DEF Requested
  <2>4. /\ branches' = {} /\ askedBranches' \subseteq {q \in Source!Request: q.repo # None}
        /\ gettingBranches' \in BOOLEAN /\ crossedBranches' \in BOOLEAN /\ SpinRule'
    <3>1. use_source_control' /\ source_control \in Controls \cup {None} /\ repository \in Repos \cup {None}
      BY <1>2, <2>1 DEF SourceFields
    <3> QED
      BY <2>1, <2>2, <3>1, BranchesAsked
  <2>5. SourceFlags'
    BY <1>2, <2>1, <2>4, Zenon DEF SourceFlags
  <2> QED
    BY <1>1, <1>2, <2>1, <2>2, <2>4, <2>5 DEF SourceShape, SourceFields, Requested
<1>9. ASSUME NEW q \in askedRepos, Source!Repos_Answer(q) PROVE SourceShape'
  <2>1. q.control \in Controls
    BY <1>2 DEF Requested, Source!Request
  <2>2. /\ UNCHANGED <<use_source_control, mounted, source_control, branch, asked, crossedRepos>>
        /\ askedRepos' = askedRepos \ {q} /\ repository' \in {repository, None}
        /\ repos' \in {repos, ReposOf[q.control]}
    BY <1>9 DEF Source!Repos_Answer, Source!Cleared, Source!KeptRepo
  <2>3. gettingRepos' = FALSE \/ gettingRepos' = gettingRepos
    BY <1>9 DEF Source!Repos_Answer
  <2>4. /\ UNCHANGED <<gettingBranches, askedBranches, crossedBranches>> /\ branches' \in {branches, {}}
    <3>1. CASE repository' # repository /\ use_source_control
      BY <1>9, <2>2, <3>1 DEF Source!Repos_Answer, Source!RepositoryEmptied, Source!fetchBranches
    <3>2. CASE ~(repository' # repository /\ use_source_control)
      BY <1>9, <3>2 DEF Source!Repos_Answer, Source!RepositoryEmptied, Source!branchField
    <3> QED
      BY <3>1, <3>2
  <2>5. gettingRepos' \in BOOLEAN
    BY <1>2, <2>3, Zenon DEF SourceFlags
  <2>6. SourceFlags'
    BY <1>2, <2>2, <2>4, <2>5, Zenon DEF SourceFlags
  <2>7. SpinRule' /\ Requested'
    BY <1>2, <2>2, <2>4 DEF SpinRule, Requested
  <2>8. SourceFields'
    BY <1>1, <1>2, <2>1, <2>2, <2>4 DEF SourceFields
  <2> QED
    BY <2>6, <2>7, <2>8 DEF SourceShape
<1>10. ASSUME NEW q \in askedRepos, Source!Repos_Failure(q) PROVE SourceShape'
  <2>1. /\ UNCHANGED <<use_source_control, mounted, source_control, repository, branch, asked, crossedRepos>>
        /\ UNCHANGED <<branches, gettingBranches, askedBranches, crossedBranches>>
        /\ askedRepos' = askedRepos \ {q} /\ repos' \in {repos, {}}
    BY <1>10 DEF Source!Repos_Failure, Source!data, Source!branchField
  <2>2. gettingRepos' = FALSE \/ gettingRepos' = gettingRepos
    BY <1>10 DEF Source!Repos_Failure, Source!Ended
  <2>3. gettingRepos' \in BOOLEAN
    BY <1>2, <2>2, Zenon DEF SourceFlags
  <2>4. SourceFlags'
    BY <1>2, <2>1, <2>3, Zenon DEF SourceFlags
  <2> QED
    BY <1>2, <2>1, <2>4 DEF SourceShape, SpinRule, Requested, SourceFields
<1>11. ASSUME NEW q \in askedBranches, Source!Branches_Answer(q) \/ Source!Branches_Failure(q) PROVE SourceShape'
  <2> DEFINE list == BranchesOf[q.control][q.repo]
  <2>1. list \subseteq BranchesHere
    <3>1. q.control \in Controls /\ q.repo \in Repos
      BY <1>2 DEF Requested, Source!Request
    <3> QED
      BY <1>1, <3>1
  <2>2. /\ UNCHANGED <<use_source_control, mounted, source_control, repository, asked, crossedBranches>>
        /\ UNCHANGED <<repos, gettingRepos, askedRepos, crossedRepos>>
        /\ askedBranches' = askedBranches \ {q} /\ branches' \in {branches, list, {}}
        /\ IF q.mount = mounted /\ use_source_control THEN gettingBranches' = FALSE ELSE gettingBranches' = gettingBranches
    BY <1>11 DEF Source!Branches_Answer, Source!Branches_Failure, Source!data, Source!repoField
  <2>3. branch' \in list \cup {branch, None}
    <3>1. Source!KeptBranch(q, list) \in list \cup {branch, None}
      BY KeptBranchFits
    <3> QED
      BY <1>11, <3>1 DEF Source!Branches_Answer, Source!Branches_Failure, Source!data, Source!Cleared
  <2> HIDE DEF list
  <2>4. gettingBranches' = FALSE \/ gettingBranches' = gettingBranches
    BY <2>2
  <2>5. gettingBranches' \in BOOLEAN
    BY <1>2, <2>4, Zenon DEF SourceFlags
  <2>6. SourceFlags'
    BY <1>2, <2>2, <2>5, Zenon DEF SourceFlags
  <2>7. SpinRule'
    <3>1. CASE q.mount = mounted /\ use_source_control
      BY <1>2, <2>2, <3>1 DEF SpinRule
    <3>2. CASE ~(q.mount = mounted /\ use_source_control)
      <4>1. gettingBranches' = gettingBranches
        BY <2>2, <3>2
      <4>2. gettingBranches => \E p \in askedBranches \ {q}: p.mount = mounted
        BY <1>2, <3>2 DEF SpinRule
      <4> QED
        BY <1>2, <2>2, <4>1, <4>2 DEF SpinRule
    <3> QED
      BY <3>1, <3>2
  <2>8. SourceFields' /\ Requested'
    BY <1>2, <2>1, <2>2, <2>3 DEF SourceFields, Requested
  <2> QED
    BY <2>6, <2>7, <2>8 DEF SourceShape
<1>12. CASE UNCHANGED Source!vars
  <2>1. SourceFlags'
    BY <1>2, <1>12, Zenon DEF Source!vars, Source!repoField, Source!branchField, SourceFlags
  <2> QED
    BY <1>2, <1>12, <2>1
       DEF Source!vars, Source!data, Source!repoField, Source!branchField, SourceShape, SourceFields, Requested, SpinRule
<1> QED
  BY <1>3, <1>4, <1>5, <1>6, <1>7, <1>8, <1>9, <1>10, <1>11, <1>12 DEF Source!Next

\* Every field of the source keeps to its values, and the spinner of branches turns only for a request of the
\* fields on the page.
THEOREM SourceTypeOK ==
  ASSUME Source!SourceSelectAssumption PROVE Source!Init /\ [][Source!Next]_(Source!vars) => []Source!TypeOK
<1>1. ASSUME Source!Init PROVE SourceShape
  <2>1. SourceFlags
    BY <1>1, Zenon DEF Source!Init, SourceFlags
  <2>2. MaxAsked \in Nat
    BY DEF Source!SourceSelectAssumption
  <2> QED
    BY <1>1, <2>1, <2>2 DEF Source!Init, SourceShape, SourceFields, Requested, SpinRule
<1>2. SourceShape => Source!TypeOK
  BY DEF SourceShape, SourceFlags, SourceFields, Requested, SpinRule, Source!TypeOK
<1> QED
  BY <1>1, <1>2, SourceShapeStays, PTL
-----------------------------------------------------------------------------
(* The templates of the server form. *)

IsTemplate(t) == t = [id |-> t.id, name |-> t.name, services |-> t.services]
IsForm(f) == f = [id |-> f.id, name |-> f.name, services |-> f.services, new |-> f.new]
\* A save is under way.
Saves(r) == r # None /\ r.kind = "save"

\* There is an id for one more template, also after the visit under way.
RoomRule ==
  /\ requests \in 0..MaxRequests /\ IsFiniteSet(templates)
  /\ Cardinality(templates) + (IF request = None THEN 0 ELSE 1) <= Cardinality(Initial) + requests
  /\ \A t \in templates: t.id # None
\* What is selected, listed and sent are templates; the form holds the services that are selected.
FormRule ==
  /\ open \in BOOLEAN /\ (~open => value = None) /\ (dialog # None => open) /\ (here => open)
  /\ value # None => IsTemplate(value) /\ form.services = services
  /\ IsForm(form) /\ \A t \in query \cup templates: IsTemplate(t)
  /\ Saves(request) => IsForm(request.form)
  /\ request # None => request.kind \in {"save", "delete"}
\* A visit of a sheet that was left meets no selection it could spoil.
VisitRule == ~unsure /\ request # None /\ ~here => value = None
TemplateInv == RoomRule /\ FormRule /\ VisitRule /\ Templates!SelectedStaysStored

LEMMA SameSizes ==
  ASSUME NEW S PROVE Templates!Cardinality(S) = Cardinality(S) /\ (Templates!IsFiniteSet(S) <=> IsFiniteSet(S))
BY DEF Cardinality, IsFiniteSet, Templates!Cardinality, Templates!IsFiniteSet

LEMMA TemplateStart ==
  ASSUME Templates!ServerTemplatesAssumption, Templates!Init PROVE TemplateInv
<1>1. IsFiniteSet(Initial) /\ Cardinality(Initial) \in Nat /\ MaxRequests \in Nat
  BY SameSizes, FS_CardinalityType DEF Templates!ServerTemplatesAssumption
<1>2. \A t \in Initial: t.id # None /\ IsTemplate(t)
  BY DEF Templates!ServerTemplatesAssumption, Templates!Template, IsTemplate
<1>3. IsForm(form)
  BY DEF Templates!Init, Templates!formOf, IsForm
<1>4. RoomRule
  BY <1>1, <1>2 DEF Templates!Init, RoomRule
<1>5. FormRule
  BY <1>2, <1>3 DEF Templates!Init, FormRule, Saves
<1> QED
  BY <1>4, <1>5 DEF Templates!Init, TemplateInv, VisitRule, Templates!SelectedStaysStored, Templates!SelectedIsStored

\* As long as a visit is under way there is an id for what it stores.
LEMMA RoomIsLeft ==
  ASSUME Templates!ServerTemplatesAssumption, RoomRule, request # None
  PROVE  Templates!Free \in Templates!Ids /\ \A t \in templates: t.id # Templates!Free
<1> DEFINE Used == {t.id: t \in templates}
           f == [t \in templates |-> t.id]
           last == MaxRequests + Cardinality(Initial)
<1>1. /\ Cardinality(Initial) \in Nat /\ MaxRequests \in Nat /\ IsFiniteSet(templates)
      /\ Cardinality(templates) \in Nat
  BY SameSizes, FS_CardinalityType DEF Templates!ServerTemplatesAssumption, RoomRule
<1>2. f \in Surjection(templates, Used)
  BY DEF Surjection
<1>3. IsFiniteSet(Used) /\ Cardinality(Used) \in Nat /\ Cardinality(Used) < last
  <2>1. IsFiniteSet(Used) /\ Cardinality(Used) <= Cardinality(templates) /\ Cardinality(Used) \in Nat
    BY <1>1, <1>2, FS_Surjection, FS_CardinalityType
  <2> HIDE DEF Used
  <2> QED
    BY <1>1, <2>1 DEF RoomRule
<1>4. Templates!Ids = 1..last /\ Cardinality(1..last) = last
  <2>1. last \in Nat
    BY <1>1
  <2>2. Cardinality(1..last) = IF 1 > last THEN 0 ELSE last - 1 + 1
    BY <2>1, FS_Interval
  <2>3. Templates!Ids = 1..last
    BY SameSizes DEF Templates!Ids
  <2> HIDE DEF last
  <2> QED
    BY <2>1, <2>2, <2>3
<1>5. ~(1..last \subseteq Used)
  <2> HIDE DEF Used
  <2> SUFFICES ASSUME 1..last \subseteq Used PROVE FALSE
    OBVIOUS
  <2>1. Cardinality(1..last) <= Cardinality(Used)
    BY <1>3, FS_Subset
  <2>2. last \in Nat
    BY <1>1
  <2> HIDE DEF last
  <2> QED
    BY <1>3, <1>4, <2>1, <2>2
<1>6. \E i \in Templates!Ids: \A t \in templates: t.id # i
  BY <1>4, <1>5
<1> QED
  BY <1>6 DEF Templates!Free

\* What the server stores for the visit under way.
LEMMA AfterFits ==
  ASSUME Templates!ServerTemplatesAssumption, RoomRule, FormRule, request # None, Templates!Accepted(request)
  PROVE  LET after == Templates!After(request) IN
         /\ IsFiniteSet(after) /\ Cardinality(after) <= Cardinality(templates) + 1
         /\ \A t \in after: t.id # None /\ IsTemplate(t)
         /\ Saves(request) /\ ~Templates!Creates(request) =>
              /\ request.form.id # None
              /\ \E t \in after: t.id = request.form.id /\ t.name = request.form.name
<1> DEFINE rest == {t \in templates: t.id # request.form.id}
<1>1. IsFiniteSet(templates) /\ Cardinality(templates) \in Nat
  BY FS_CardinalityType DEF RoomRule
<1>2. IsFiniteSet(rest) /\ Cardinality(rest) \in Nat /\ Cardinality(rest) <= Cardinality(templates)
  BY <1>1, FS_Subset, FS_CardinalityType
<1>3. \A t \in templates: t.id # None /\ IsTemplate(t)
  BY DEF RoomRule, FormRule
<1>4. ASSUME NEW i, NEW S \in {templates, rest}, i # None,
             Templates!After(request) =
               S \cup {[id |-> i, name |-> request.form.name, services |-> request.form.services]}
      PROVE  LET after == Templates!After(request) IN
             /\ IsFiniteSet(after) /\ Cardinality(after) <= Cardinality(templates) + 1
             /\ \A t \in after: t.id # None /\ IsTemplate(t)
             /\ \E t \in after: t.id = i /\ t.name = request.form.name
  <2> DEFINE new == [id |-> i, name |-> request.form.name, services |-> request.form.services]
  <2>1. IsTemplate(new) /\ new.id = i /\ new.name = request.form.name
    BY DEF IsTemplate
  <2> HIDE DEF new
  <2>2. S \subseteq templates /\ IsFiniteSet(S) /\ Cardinality(S) \in Nat /\ Cardinality(S) <= Cardinality(templates)
    BY <1>1, <1>2
  <2> HIDE DEF rest
  <2>3. /\ IsFiniteSet(S \cup {new})
        /\ Cardinality(S \cup {new}) = IF new \in S THEN Cardinality(S) ELSE Cardinality(S) + 1
    BY <2>2, FS_AddElement
  <2>4. Templates!After(request) = S \cup {new}
    BY <1>4 DEF new
  <2>5. Cardinality(S \cup {new}) <= Cardinality(templates) + 1
    BY <1>1, <2>2, <2>3
  <2> QED
    BY <1>3, <1>4, <2>1, <2>2, <2>3, <2>4, <2>5
<1>5. CASE request.kind = "delete"
  <2>1. Templates!After(request) = rest
    BY <1>5 DEF Templates!After, Templates!Creates
  <2> HIDE DEF rest
  <2>2. rest \subseteq templates
    BY DEF rest
  <2> QED
    BY <1>1, <1>2, <1>3, <1>5, <2>1, <2>2 DEF Saves
<1>6. CASE request.kind = "save" /\ Templates!Creates(request)
  <2>1. Templates!Free # None
    BY RoomIsLeft DEF Templates!ServerTemplatesAssumption
  <2>2. Templates!After(request) =
          templates \cup {[id |-> Templates!Free, name |-> request.form.name, services |-> request.form.services]}
    BY <1>6 DEF Templates!After
  <2> QED
    BY <1>4, <1>6, <2>1, <2>2
<1>7. CASE request.kind = "save" /\ ~Templates!Creates(request)
  <2>1. request.form.id # None
    BY <1>3, <1>7 DEF Templates!Accepted
  <2>2. Templates!After(request) =
          rest \cup {[id |-> request.form.id, name |-> request.form.name, services |-> request.form.services]}
    BY <1>7 DEF Templates!After
  <2> QED
    BY <1>4, <1>7, <2>1, <2>2
<1> QED
  BY <1>5, <1>6, <1>7 DEF FormRule

\* Services that change keep the selected template selected.
LEMMA ChangedFits ==
  ASSUME FormRule, NEW s, Templates!Changed(s)
  PROVE  /\ services' = s /\ (value = None => value' = None)
         /\ value # None => value'.id = value.id /\ value'.name = value.name /\ IsTemplate(value') /\ form'.services = s
         /\ IsForm(form')
<1>1. CASE value # None
  <2>1. /\ value' = [value EXCEPT !.services = s]
        /\ form' = [id |-> value.id, name |-> value.name, services |-> s, new |-> FALSE]
    BY <1>1 DEF Templates!Changed, Templates!Follows, Templates!formOf
  <2>2. value = [id |-> value.id, name |-> value.name, services |-> value.services]
    BY <1>1 DEF FormRule, IsTemplate
  <2>3. value' = [id |-> value.id, name |-> value.name, services |-> s]
    BY <2>1, <2>2
  <2> QED
    BY <1>1, <2>1, <2>3 DEF Templates!Changed, IsTemplate, IsForm
<1>2. CASE value = None
  BY <1>2 DEF Templates!Changed, Templates!Follows, FormRule
<1> QED
  BY <1>1, <1>2

\* A template that is chosen comes with its services, and none with none.
LEMMA ChosenFits ==
  ASSUME NEW t, t = None \/ IsTemplate(t), Templates!Choose(t)
  PROVE  /\ value' = t /\ form'.services = services' /\ IsForm(form')
         /\ value' # None => IsTemplate(value')
BY DEF Templates!Choose, Templates!formOf, IsForm

LEMMA TemplateStep ==
  ASSUME Templates!ServerTemplatesAssumption, TemplateInv, [Templates!Next]_(Templates!vars) PROVE TemplateInv'
<1>0. RoomRule /\ FormRule /\ VisitRule /\ Templates!SelectedStaysStored
  BY DEF TemplateInv
<1>a. ASSUME UNCHANGED <<requests, templates, request>> PROVE RoomRule'
  BY <1>0, <1>a DEF RoomRule
<1>b. Cardinality(Initial) \in Nat /\ MaxRequests \in Nat /\ Cardinality(templates) \in Nat /\ requests \in Nat
  BY <1>0, SameSizes, FS_CardinalityType DEF Templates!ServerTemplatesAssumption, RoomRule
<1>1. CASE Templates!Open
  <2>1. IsForm(form')
    BY <1>1 DEF Templates!Open, Templates!formOf, IsForm
  <2>2. FormRule'
    BY <1>0, <1>1, <2>1 DEF Templates!Open, FormRule, Templates!visit, Templates!stored
  <2> QED
    BY <1>0, <1>a, <1>1, <2>2
       DEF Templates!Open, Templates!visit, Templates!stored, TemplateInv, VisitRule,
           Templates!SelectedStaysStored, Templates!SelectedIsStored
<1>2. CASE Templates!Close
  <2>1. FormRule'
    BY <1>0, <1>2 DEF Templates!Close, FormRule, Templates!listing, Templates!stored
  <2> QED
    BY <1>0, <1>a, <1>2, <2>1
       DEF Templates!Close, Templates!stored, TemplateInv, VisitRule, Templates!SelectedStaysStored,
           Templates!SelectedIsStored
<1>3. CASE Templates!Fetched \/ Templates!CloseDialog \/ (\E d \in {"save", "delete"}: Templates!OpenDialog(d)) \/ UNCHANGED Templates!vars
  <2>1. /\ UNCHANGED <<open, services, value, form, request, here, templates, requests, unsure>>
        /\ query' = query \/ query' = templates
        /\ dialog' # None => open
    BY <1>0, <1>3
       DEF FormRule, Templates!Fetched, Templates!CloseDialog, Templates!OpenDialog, Templates!vars,
           Templates!listing, Templates!visit, Templates!stored
  <2>2. FormRule'
    BY <1>0, <2>1 DEF FormRule
  <2> QED
    BY <1>0, <1>a, <2>1, <2>2 DEF TemplateInv, VisitRule, Templates!SelectedStaysStored, Templates!SelectedIsStored
<1>4. ASSUME NEW s \in Services, Templates!handleAddService(s) \/ Templates!handleRemoveService(s) PROVE TemplateInv'
  <2>1. PICK t: Templates!Changed(t)
    BY <1>4 DEF Templates!handleAddService, Templates!handleRemoveService
  <2>2. UNCHANGED <<open, query, dialog, request, here, templates, requests, unsure>>
    BY <1>4
       DEF Templates!handleAddService, Templates!handleRemoveService, Templates!listing, Templates!visit,
           Templates!stored
  <2>3. FormRule'
    BY <1>0, <2>1, <2>2, ChangedFits DEF FormRule
  <2> QED
    BY <1>0, <1>a, <2>1, <2>2, <2>3, ChangedFits
       DEF TemplateInv, VisitRule, Templates!SelectedStaysStored, Templates!SelectedIsStored
<1>5. ASSUME NEW t \in query, Templates!Select(t) PROVE TemplateInv'
  <2>1. Templates!Choose(t) /\ IsTemplate(t) /\ open
    BY <1>0, <1>5 DEF Templates!Select, FormRule
  <2>2. UNCHANGED <<open, query, fetching, dialog, request, here, templates, requests>>
        /\ unsure' = (t \notin templates \/ request # None)
    BY <1>5 DEF Templates!Select, Templates!listing, Templates!visit, Templates!stored
  <2>3. FormRule'
    BY <1>0, <2>1, <2>2, ChosenFits DEF FormRule
  <2>4. VisitRule' /\ Templates!SelectedStaysStored'
    BY <2>1, <2>2, ChosenFits DEF VisitRule, Templates!SelectedStaysStored, Templates!SelectedIsStored
  <2> QED
    BY <1>a, <2>2, <2>3, <2>4 DEF TemplateInv
<1>6. ASSUME NEW n \in Names, NEW new \in BOOLEAN, Templates!Fill(n, new) PROVE TemplateInv'
  <2>1. UNCHANGED <<open, services, value, query, fetching, dialog, request, here, templates, requests, unsure>>
    BY <1>6 DEF Templates!Fill, Templates!listing, Templates!visit, Templates!stored
  <2>2. IsForm(form') /\ form'.services = form.services
    <3>1. form = [id |-> form.id, name |-> form.name, services |-> form.services, new |-> form.new]
      BY <1>0 DEF FormRule, IsForm
    <3>2. form' = [id |-> form.id, name |-> n, services |-> form.services, new |-> new]
      BY <1>6, <3>1 DEF Templates!Fill
    <3> QED
      BY <3>2 DEF IsForm
  <2>3. FormRule'
    BY <1>0, <2>1, <2>2 DEF FormRule
  <2> QED
    BY <1>0, <1>a, <2>1, <2>3 DEF TemplateInv, VisitRule, Templates!SelectedStaysStored, Templates!SelectedIsStored
<1>7. ASSUME Templates!Start(request'), request'.kind \in {"save", "delete"}, Saves(request') => IsForm(request'.form),
             open
      PROVE  TemplateInv'
  <2>1. /\ requests < MaxRequests /\ requests' = requests + 1 /\ here' = TRUE
        /\ unsure' = (unsure \/ request # None) /\ UNCHANGED <<open, services, value, query, dialog, form>>
        /\ \/ templates' = templates
           \/ request # None /\ Templates!Accepted(request) /\ templates' = Templates!After(request)
    BY <1>7 DEF Templates!Start, Templates!listing
  <2>2. /\ IsFiniteSet(templates') /\ Cardinality(templates') <= Cardinality(templates) + (IF request = None THEN 0 ELSE 1)
        /\ \A t \in templates': t.id # None /\ IsTemplate(t)
        /\ Cardinality(templates') \in Nat
    BY <1>0, <1>b, <2>1, AfterFits, FS_CardinalityType DEF RoomRule, FormRule
  <2>3. RoomRule'
    BY <1>0, <1>7, <1>b, <2>1, <2>2 DEF RoomRule
  <2>4. FormRule'
    BY <1>0, <1>7, <2>1, <2>2 DEF FormRule, Saves
  <2>5. VisitRule' /\ Templates!SelectedStaysStored'
    BY <1>0, <2>1 DEF VisitRule, Templates!SelectedStaysStored, Templates!SelectedIsStored
  <2> QED
    BY <2>3, <2>4, <2>5 DEF TemplateInv
<1>8. CASE Templates!save
  <2>1. open /\ IsForm(form)
    BY <1>0, <1>8 DEF Templates!ServerTemplatesAssumption, Templates!save, FormRule
  <2>2. request' = [kind |-> "save", form |-> form] /\ Templates!Start(request')
    BY <1>8 DEF Templates!save, Templates!Start
  <2>3. request'.kind = "save" /\ request'.form = form
    BY <2>2
  <2>4. IsForm(request'.form)
    BY <2>1, <2>3 DEF IsForm
  <2> QED
    BY <1>7, <2>1, <2>2, <2>3, <2>4
<1>9. CASE Templates!delete
  <2>1. open
    BY <1>0, <1>9 DEF Templates!ServerTemplatesAssumption, Templates!delete, FormRule
  <2>2. request' = [kind |-> "delete", form |-> value] /\ Templates!Start(request')
    BY <1>9 DEF Templates!delete, Templates!Start
  <2>3. request'.kind = "delete" /\ ~Saves(request')
    BY <2>2 DEF Saves
  <2> QED
    BY <1>7, <2>1, <2>2, <2>3
<1>10. CASE Templates!Success
  <2> DEFINE t == Templates!Outcome(request)
             s == IF t = None THEN {} ELSE t.services
  <2>1. /\ request # None /\ Templates!Accepted(request) /\ templates' = Templates!After(request) /\ request' = None
        /\ here' = FALSE /\ UNCHANGED <<open, query, requests>> /\ dialog' \in {dialog, None}
        /\ unsure' = (unsure \/ Templates!Creates(request))
        /\ IF here THEN Templates!Choose(t) ELSE Templates!Changed(s)
    BY <1>10 DEF Templates!Success, Templates!Closing
  <2>2. /\ IsFiniteSet(templates') /\ Cardinality(templates') <= Cardinality(templates) + 1
        /\ \A u \in templates': u.id # None /\ IsTemplate(u)
        /\ Cardinality(templates') \in Nat
    BY <1>0, <2>1, AfterFits, FS_CardinalityType
  <2>3. RoomRule'
    BY <1>0, <1>b, <2>1, <2>2 DEF RoomRule
  <2>4. t = None \/ IsTemplate(t)
    <3>1. t \in {None, Templates!Sent(request)}
      BY DEF Templates!Outcome
    <3> QED
      BY <3>1 DEF Templates!Sent, IsTemplate
  <2>5. FormRule'
    <3>1. CASE here
      BY <1>0, <2>1, <2>2, <2>4, <3>1, ChosenFits DEF FormRule, Saves
    <3>2. CASE ~here
      BY <1>0, <2>1, <2>2, <3>2, ChangedFits DEF FormRule, Saves
    <3> QED
      BY <3>1, <3>2
  <2>6. ASSUME ~unsure', value' # None PROVE Templates!SelectedIsStored'
    <3>1. ~Templates!Creates(request) /\ ~unsure
      BY <2>1, <2>6
    <3>2. here
      BY <1>0, <2>1, <2>6, <3>1, ChangedFits DEF VisitRule
    <3>3. value' = t
      BY <2>1, <2>4, <3>2, ChosenFits
    <3>4. request.kind = "save" /\ t = Templates!Sent(request)
      BY <2>6, <3>3 DEF Templates!Outcome
    <3>5. /\ request.form.id # None
          /\ \E u \in templates': u.id = request.form.id /\ u.name = request.form.name
      BY <1>0, <2>1, <3>1, <3>4, AfterFits DEF Saves
    <3>6. t.id = request.form.id /\ t.name = request.form.name
      BY <3>4, <3>5 DEF Templates!Sent
    <3> HIDE DEF t
    <3> QED
      BY <3>3, <3>5, <3>6 DEF Templates!SelectedIsStored
  <2> QED
    BY <2>1, <2>3, <2>5, <2>6 DEF TemplateInv, VisitRule, Templates!SelectedStaysStored, Templates!SelectedIsStored
<1>11. CASE Templates!Failure
  <2>1. UNCHANGED <<open, services, value, query, dialog, form, templates, requests, unsure>> /\ request' = None /\ here' = FALSE
    BY <1>11 DEF Templates!Failure, Templates!listing, Templates!stored
  <2>2. FormRule' /\ RoomRule'
    BY <1>0, <1>b, <2>1 DEF FormRule, RoomRule, Saves
  <2> QED
    BY <1>0, <2>1, <2>2 DEF TemplateInv, VisitRule, Templates!SelectedStaysStored, Templates!SelectedIsStored
<1> QED
  BY <1>1, <1>2, <1>3, <1>4, <1>5, <1>6, <1>8, <1>9, <1>10, <1>11 DEF Templates!Next

\* Where no template was saved as a new one and no visit interrupted, the selected template is one that is stored.
THEOREM SelectedTemplatesStay ==
  ASSUME Templates!ServerTemplatesAssumption
  PROVE  Templates!Init /\ [][Templates!Next]_(Templates!vars) => []Templates!SelectedStaysStored
<1>1. TemplateInv => Templates!SelectedStaysStored
  BY DEF TemplateInv
<1> QED
  BY <1>1, TemplateStart, TemplateStep, PTL

\* A selected template is saved with the services that are selected in the server form.
THEOREM UpdatesSendSelected ==
  ASSUME Templates!ServerTemplatesAssumption
  PROVE  Templates!Init /\ [][Templates!Next]_(Templates!vars)
           => [][Templates!UpdatesWithSelectedServices]_(Templates!vars)
<1>1. ASSUME TemplateInv, [Templates!Next]_(Templates!vars) PROVE [Templates!UpdatesWithSelectedServices]_(Templates!vars)
  <2> SUFFICES ASSUME request' # None, request' # request, request'.kind = "save", value # None
               PROVE  request'.form.services = services
    BY DEF Templates!UpdatesWithSelectedServices
  <2>1. CASE Templates!save
    <3>1. request' = [kind |-> "save", form |-> form] /\ UNCHANGED services
      BY <2>1 DEF Templates!save, Templates!Start
    <3> QED
      BY <1>1, <3>1 DEF TemplateInv, FormRule
  <2>2. CASE Templates!delete
    BY <2>2 DEF Templates!delete, Templates!Start
  <2>3. ASSUME request' = request \/ request' = None PROVE FALSE
    BY <2>3
  <2>4. CASE Templates!Open \/ Templates!Close \/ Templates!Fetched \/ Templates!CloseDialog \/ Templates!Success \/ Templates!Failure
    BY <2>3, <2>4
       DEF Templates!Open, Templates!Close, Templates!Fetched, Templates!CloseDialog, Templates!Success,
           Templates!Failure, Templates!visit
  <2>5. ASSUME NEW s, Templates!handleAddService(s) \/ Templates!handleRemoveService(s) PROVE FALSE
    BY <2>3, <2>5 DEF Templates!handleAddService, Templates!handleRemoveService, Templates!visit
  <2>6. ASSUME NEW t, Templates!Select(t) \/ Templates!OpenDialog(t) PROVE FALSE
    BY <2>3, <2>6 DEF Templates!Select, Templates!OpenDialog, Templates!visit
  <2>7. ASSUME NEW n, NEW new, Templates!Fill(n, new) PROVE FALSE
    BY <2>3, <2>7 DEF Templates!Fill, Templates!visit
  <2>8. CASE UNCHANGED Templates!vars
    BY <2>3, <2>8 DEF Templates!vars, Templates!visit
  <2> QED
    BY <1>1, <2>1, <2>2, <2>4, <2>5, <2>6, <2>7, <2>8 DEF Templates!Next
<1> QED
  BY <1>1, TemplateStart, TemplateStep, PTL

\* The flags of the picker; what it holds are templates and services; an id names one template.
PickerFlags == open \in BOOLEAN /\ fetching \in BOOLEAN /\ here \in BOOLEAN /\ unsure \in BOOLEAN
PickerFields ==
  /\ services \subseteq Services /\ value \in Templates!Template \cup {None}
  /\ dialog \in {None, "save", "delete"} /\ (dialog = "delete" => value # None) /\ form \in Templates!Form
PickerLists ==
  /\ query \subseteq Templates!Template /\ templates \subseteq Templates!Template
  /\ \A t, u \in templates: t.id = u.id => t = u
PickerVisit ==
  request \in {None} \cup [kind: {"save"}, form: Templates!Form] \cup [kind: {"delete"}, form: Templates!Template]
PickerShape == PickerFlags /\ PickerFields /\ PickerLists /\ PickerVisit

LEMMA PickerValues ==
  ASSUME Templates!ServerTemplatesAssumption
  PROVE  /\ None \notin Names /\ None \notin Templates!Ids \cup {0} \cup Templates!Template /\ Defaults \subseteq Services /\ MaxRequests \in Nat
         /\ None \notin {"save", "delete"}
         /\ \A i \in Templates!Ids \cup {0}, n \in Names, s \in SUBSET Services:
              [id |-> i, name |-> n, services |-> s] \in Templates!Template
         /\ \A i \in Templates!Ids \cup {0, None}, n \in Names \cup {None}, s \in SUBSET Services:
              \A b \in BOOLEAN: [id |-> i, name |-> n, services |-> s, new |-> b] \in Templates!Form
         /\ \A t \in Templates!Template:
              t.id \in Templates!Ids \cup {0} /\ t.name \in Names /\ t.services \subseteq Services
         /\ \A f \in Templates!Form:
              /\ f.id \in Templates!Ids \cup {0, None} /\ f.name \in Names \cup {None} /\ f.services \subseteq Services
              /\ f.new \in BOOLEAN
<1>1. /\ None \notin Names /\ None \notin Templates!Ids \cup {0} \cup Templates!Template /\ Defaults \subseteq Services /\ MaxRequests \in Nat
      /\ None \notin {"save", "delete"}
  BY DEF Templates!ServerTemplatesAssumption
<1>2. /\ \A i \in Templates!Ids \cup {0}, n \in Names, s \in SUBSET Services:
           [id |-> i, name |-> n, services |-> s] \in Templates!Template
      /\ \A t \in Templates!Template:
           t.id \in Templates!Ids \cup {0} /\ t.name \in Names /\ t.services \subseteq Services
  BY DEF Templates!Template
<1>3. /\ \A i \in Templates!Ids \cup {0, None}, n \in Names \cup {None}, s \in SUBSET Services:
           \A b \in BOOLEAN: [id |-> i, name |-> n, services |-> s, new |-> b] \in Templates!Form
      /\ \A f \in Templates!Form:
           /\ f.id \in Templates!Ids \cup {0, None} /\ f.name \in Names \cup {None} /\ f.services \subseteq Services
           /\ f.new \in BOOLEAN
  BY DEF Templates!Form
<1> QED
  BY <1>1, <1>2, <1>3

\* The form for a template, or for none.
LEMMA FormOfFits ==
  ASSUME Templates!ServerTemplatesAssumption, NEW t \in Templates!Template \cup {None}, NEW s \in SUBSET Services
  PROVE  Templates!formOf(t, s) \in Templates!Form
<1>1. CASE t = None
  BY <1>1, PickerValues DEF Templates!formOf
<1>2. CASE t # None
  <2>1. t.id \in Templates!Ids \cup {0, None} /\ t.name \in Names \cup {None}
    BY <1>2, PickerValues
  <2> QED
    BY <1>2, <2>1, PickerValues DEF Templates!formOf
<1> QED
  BY <1>1, <1>2

\* What the server stores are templates with ids of their own.
LEMMA AfterIsStored ==
  ASSUME Templates!ServerTemplatesAssumption, RoomRule, PickerLists, PickerVisit, request # None,
         Templates!Accepted(request)
  PROVE  LET after == Templates!After(request) IN
         after \subseteq Templates!Template /\ \A t, u \in after: t.id = u.id => t = u
<1>1. CASE request \in [kind: {"delete"}, form: Templates!Template]
  <2>1. Templates!After(request) \subseteq templates
    BY <1>1 DEF Templates!After, Templates!Creates
  <2> QED
    BY <2>1 DEF PickerLists
<1>2. CASE request \in [kind: {"save"}, form: Templates!Form]
  <2>1. /\ request.kind = "save" /\ request.form \in Templates!Form /\ request.form.name # None
    BY <1>2 DEF Templates!Accepted
  <2>2. request.form.name \in Names /\ request.form.services \in SUBSET Services
    BY <2>1, PickerValues
  <2>3. CASE Templates!Creates(request)
    <3> DEFINE new == [id |-> Templates!Free, name |-> request.form.name, services |-> request.form.services]
    <3>1. Templates!Free \in Templates!Ids /\ \A t \in templates: t.id # Templates!Free
      BY RoomIsLeft
    <3>2. new \in Templates!Template /\ new.id = Templates!Free
      BY <2>2, <3>1, PickerValues
    <3>3. Templates!After(request) = templates \cup {new}
      BY <2>3 DEF Templates!After
    <3> HIDE DEF new
    <3> QED
      BY <3>1, <3>2, <3>3 DEF PickerLists
  <2>4. CASE ~Templates!Creates(request)
    <3> DEFINE new == [id |-> request.form.id, name |-> request.form.name, services |-> request.form.services]
               rest == {t \in templates: t.id # request.form.id}
    <3>1. request.form.id \in Templates!Ids \cup {0}
      <4>1. PICK t \in templates: t.id = request.form.id
        BY <2>4 DEF Templates!Accepted
      <4> QED
        BY <4>1, PickerValues DEF PickerLists
    <3>2. new \in Templates!Template /\ new.id = request.form.id
      BY <2>2, <3>1, PickerValues
    <3>3. Templates!After(request) = rest \cup {new}
      BY <2>1, <2>4 DEF Templates!After
    <3> HIDE DEF new
    <3> QED
      BY <3>2, <3>3 DEF PickerLists
  <2> QED
    BY <2>3, <2>4
<1> QED
  BY <1>1, <1>2 DEF PickerVisit

\* What a template that was changed or chosen leaves behind.
LEMMA ChangedIsPicked ==
  ASSUME Templates!ServerTemplatesAssumption, PickerFields, NEW s \in SUBSET Services, Templates!Changed(s)
  PROVE  /\ services' \subseteq Services /\ value' \in Templates!Template \cup {None} /\ form' \in Templates!Form
         /\ value # None => value' # None
<1>1. CASE value = None
  BY <1>1 DEF Templates!Changed, Templates!Follows, PickerFields
<1>2. CASE value # None
  <2>1. services' = s /\ value' = [value EXCEPT !.services = s] /\ form' = Templates!formOf(value, s)
    BY <1>2 DEF Templates!Changed, Templates!Follows
  <2>2. value \in Templates!Template
    BY <1>2 DEF PickerFields
  <2>3. value' \in Templates!Template
    BY <2>1, <2>2 DEF Templates!Template
  <2>4. value' # None
    BY <2>3, PickerValues
  <2> QED
    BY <2>1, <2>2, <2>3, <2>4, FormOfFits
<1> QED
  BY <1>1, <1>2

LEMMA PickerStays ==
  ASSUME Templates!ServerTemplatesAssumption, TemplateInv, PickerShape, [Templates!Next]_(Templates!vars)
  PROVE  PickerShape'
<1>1. PickerFlags /\ PickerFields /\ PickerLists /\ PickerVisit /\ RoomRule
  BY DEF PickerShape, TemplateInv
<1>2. CASE Templates!Open
  <2>1. PickerFlags'
    BY <1>1, <1>2, Zenon DEF Templates!Open, Templates!visit, Templates!stored, PickerFlags
  <2>2. form' \in Templates!Form
    BY <1>1, <1>2, FormOfFits DEF Templates!Open, PickerFields
  <2> QED
    BY <1>1, <1>2, <2>1, <2>2
       DEF Templates!Open, Templates!visit, Templates!stored, PickerShape, PickerFields, PickerLists, PickerVisit
<1>3. CASE Templates!Close
  <2>1. PickerFlags'
    BY <1>1, <1>3, Zenon DEF Templates!Close, Templates!listing, Templates!stored, PickerFlags
  <2>2. dialog' # "delete"
    BY <1>3, PickerValues DEF Templates!Close
  <2> QED
    BY <1>1, <1>3, <2>1, <2>2
       DEF Templates!Close, Templates!listing, Templates!stored, PickerShape, PickerFields, PickerLists, PickerVisit
<1>4. CASE Templates!Fetched \/ Templates!CloseDialog \/ (\E d \in {"save", "delete"}: Templates!OpenDialog(d))
           \/ UNCHANGED Templates!vars
  <2>1. /\ UNCHANGED <<open, services, value, form, request, here, templates, unsure>>
        /\ query' = query \/ query' = templates
        /\ dialog' \in {dialog, None, "save", "delete"} /\ (dialog' = "delete" => dialog = "delete" \/ value # None)
    BY <1>4, PickerValues
       DEF Templates!Fetched, Templates!CloseDialog, Templates!OpenDialog, Templates!vars, Templates!listing,
           Templates!visit, Templates!stored
  <2>2. fetching' = FALSE \/ fetching' = fetching
    BY <1>4
       DEF Templates!Fetched, Templates!CloseDialog, Templates!OpenDialog, Templates!vars, Templates!listing
  <2>3. fetching' \in BOOLEAN
    BY <1>1, <2>2, Zenon DEF PickerFlags
  <2>4. PickerFlags'
    BY <1>1, <2>1, <2>3, Zenon DEF PickerFlags
  <2> QED
    BY <1>1, <2>1, <2>4 DEF PickerShape, PickerFields, PickerLists, PickerVisit
<1>5. ASSUME NEW s \in Services, Templates!handleAddService(s) \/ Templates!handleRemoveService(s) PROVE PickerShape'
  <2>1. PICK t \in SUBSET Services: Templates!Changed(t)
    BY <1>1, <1>5 DEF Templates!handleAddService, Templates!handleRemoveService, PickerFields
  <2>2. UNCHANGED <<open, query, fetching, dialog, request, here, templates, requests, unsure>>
    BY <1>5
       DEF Templates!handleAddService, Templates!handleRemoveService, Templates!listing, Templates!visit,
           Templates!stored
  <2>3. PickerFlags'
    BY <1>1, <2>2, Zenon DEF PickerFlags
  <2>4. PickerFields'
    BY <1>1, <2>1, <2>2, ChangedIsPicked DEF PickerFields
  <2> QED
    BY <1>1, <2>2, <2>3, <2>4 DEF PickerShape, PickerLists, PickerVisit
<1>6. ASSUME NEW t \in query, Templates!Select(t) PROVE PickerShape'
  <2>1. /\ UNCHANGED <<open, query, fetching, dialog, request, here, templates, requests>> /\ dialog = None
        /\ Templates!Choose(t) /\ t \in Templates!Template
    BY <1>1, <1>6 DEF Templates!Select, Templates!listing, Templates!visit, Templates!stored, PickerLists
  <2>2. unsure' = (t \notin templates \/ request # None)
    BY <1>6 DEF Templates!Select
  <2>3. unsure' \in BOOLEAN
    BY <2>2, Zenon
  <2>4. PickerFlags'
    BY <1>1, <2>1, <2>3, Zenon DEF PickerFlags
  <2>5. t # None /\ t.services \subseteq Services
    BY <2>1, PickerValues
  <2>6. value' = t /\ services' = t.services /\ form' = Templates!formOf(t, t.services)
    BY <2>1, <2>5 DEF Templates!Choose
  <2>7. form' \in Templates!Form
    BY <2>1, <2>5, <2>6, FormOfFits
  <2>8. PickerFields'
    BY <1>1, <2>1, <2>5, <2>6, <2>7 DEF PickerFields
  <2> QED
    BY <1>1, <2>1, <2>4, <2>8 DEF PickerShape, PickerLists, PickerVisit
<1>7. ASSUME NEW n \in Names, NEW new \in BOOLEAN, Templates!Fill(n, new) PROVE PickerShape'
  <2>1. UNCHANGED <<open, services, value, query, fetching, dialog, request, here, templates, requests, unsure>>
    BY <1>7 DEF Templates!Fill, Templates!listing, Templates!visit, Templates!stored
  <2>2. PickerFlags'
    BY <1>1, <2>1, Zenon DEF PickerFlags
  <2>3. form' \in Templates!Form
    <3>1. form' = [id |-> form.id, name |-> n, services |-> form.services, new |-> new] /\ form \in Templates!Form
      BY <1>1, <1>7 DEF Templates!Fill, PickerFields, Templates!Form
    <3> QED
      BY <3>1, PickerValues
  <2> QED
    BY <1>1, <2>1, <2>2, <2>3 DEF PickerShape, PickerFields, PickerLists, PickerVisit
<1>8. ASSUME Templates!Start(request'), PickerVisit' PROVE PickerShape'
  <2>1. /\ here' = TRUE /\ UNCHANGED <<open, services, value, query, fetching, dialog, form>>
        /\ \/ templates' = templates
           \/ request # None /\ Templates!Accepted(request) /\ templates' = Templates!After(request)
    BY <1>8 DEF Templates!Start, Templates!listing
  <2>2. unsure' = (unsure \/ request # None)
    BY <1>8 DEF Templates!Start
  <2>3. unsure' \in BOOLEAN
    BY <2>2, Zenon
  <2>4. PickerFlags'
    BY <1>1, <2>1, <2>3, Zenon DEF PickerFlags
  <2>5. PickerLists'
    BY <1>1, <2>1, AfterIsStored DEF PickerLists
  <2>6. PickerFields'
    BY <1>1, <2>1 DEF PickerFields
  <2> QED
    BY <1>8, <2>4, <2>5, <2>6 DEF PickerShape
<1>9. CASE Templates!save
  <2>1. request' = [kind |-> "save", form |-> form] /\ Templates!Start(request')
    BY <1>9 DEF Templates!save, Templates!Start
  <2>2. PickerVisit'
    BY <1>1, <2>1 DEF PickerVisit, PickerFields
  <2> QED
    BY <1>8, <2>1, <2>2
<1>10. CASE Templates!delete
  <2>1. request' = [kind |-> "delete", form |-> value] /\ Templates!Start(request') /\ dialog = "delete"
    BY <1>10 DEF Templates!delete, Templates!Start
  <2>2. PickerVisit'
    BY <1>1, <2>1 DEF PickerVisit, PickerFields
  <2> QED
    BY <1>8, <2>1, <2>2
<1>11. CASE Templates!Success
  <2> DEFINE t == Templates!Outcome(request)
             s == IF t = None THEN {} ELSE t.services
  <2>1. /\ request # None /\ Templates!Accepted(request) /\ templates' = Templates!After(request) /\ request' = None
        /\ here' = FALSE /\ fetching' = TRUE /\ UNCHANGED <<open, query, requests>>
        /\ dialog' = Templates!Closing(t)
        /\ IF here THEN Templates!Choose(t) ELSE Templates!Changed(s)
    BY <1>11 DEF Templates!Success
  <2>2. unsure' = (unsure \/ Templates!Creates(request))
    BY <1>11 DEF Templates!Success
  <2>3. unsure' \in BOOLEAN
    BY <2>2, Zenon
  <2>4. PickerFlags'
    BY <1>1, <2>1, <2>3, Zenon DEF PickerFlags
  <2>5. PickerLists'
    BY <1>1, <2>1, AfterIsStored DEF PickerLists
  <2>6. t \in Templates!Template \cup {None}
    <3>1. CASE request.kind = "save"
      <4>1. request.form \in Templates!Form /\ request.form.name # None
        BY <1>1, <2>1, <3>1 DEF PickerVisit, Templates!Accepted
      <4>2. t = [id |-> IF request.form.id = None THEN 0 ELSE request.form.id, name |-> request.form.name,
                 services |-> request.form.services]
        BY <3>1 DEF Templates!Outcome, Templates!Sent
      <4>3. /\ (IF request.form.id = None THEN 0 ELSE request.form.id) \in Templates!Ids \cup {0}
            /\ request.form.name \in Names /\ request.form.services \in SUBSET Services
        BY <4>1, PickerValues
      <4> QED
        BY <4>2, <4>3, PickerValues
    <3>2. CASE request.kind # "save"
      BY <3>2 DEF Templates!Outcome
    <3> QED
      BY <3>1, <3>2
  <2> HIDE DEF t
  <2>7. s \in SUBSET Services
    BY <2>6, PickerValues
  <2>8. dialog' \in {dialog, None} /\ (here /\ t = None => dialog' # "delete")
    BY <2>1, PickerValues DEF Templates!Closing
  <2>9. PickerFields'
    <3>1. CASE here
      <4>1. value' = t /\ services' = s /\ form' = Templates!formOf(t, s)
        BY <2>1, <3>1 DEF Templates!Choose
      <4>2. form' \in Templates!Form
        BY <2>6, <2>7, <4>1, FormOfFits
      <4> HIDE DEF s
      <4> QED
        BY <1>1, <2>6, <2>7, <2>8, <3>1, <4>1, <4>2 DEF PickerFields
    <3>2. CASE ~here
      <4>1. Templates!Changed(s)
        BY <2>1, <3>2
      <4> HIDE DEF s
      <4>2. /\ services' \subseteq Services /\ value' \in Templates!Template \cup {None} /\ form' \in Templates!Form
            /\ value # None => value' # None
        BY <1>1, <2>7, <4>1, ChangedIsPicked
      <4>3. None # "delete"
        BY PickerValues
      <4> QED
        BY <1>1, <2>8, <4>2, <4>3 DEF PickerFields
    <3> QED
      BY <3>1, <3>2
  <2> QED
    BY <2>1, <2>4, <2>5, <2>9 DEF PickerShape, PickerVisit
<1>12. CASE Templates!Failure
  <2>1. /\ UNCHANGED <<open, services, value, query, fetching, dialog, form, templates, requests, unsure>>
        /\ request' = None /\ here' = FALSE
    BY <1>12 DEF Templates!Failure, Templates!listing, Templates!stored
  <2>2. PickerFlags'
    BY <1>1, <2>1, Zenon DEF PickerFlags
  <2> QED
    BY <1>1, <2>1, <2>2 DEF PickerShape, PickerFields, PickerLists, PickerVisit
<1> QED
  BY <1>2, <1>3, <1>4, <1>5, <1>6, <1>7, <1>9, <1>10, <1>11, <1>12 DEF Templates!Next

\* What the picker of templates lists, selects and sends are templates, and an id names one of them.
THEOREM TemplatesTypeOK ==
  ASSUME Templates!ServerTemplatesAssumption
  PROVE  Templates!Init /\ [][Templates!Next]_(Templates!vars) => []Templates!TypeOK
<1>1. ASSUME Templates!Init PROVE PickerShape
  <2>1. PickerFlags
    BY <1>1, Zenon DEF Templates!Init, PickerFlags
  <2>2. form \in Templates!Form
    BY <1>1, FormOfFits, PickerValues DEF Templates!Init
  <2>3. PickerLists
    BY <1>1 DEF Templates!Init, PickerLists, Templates!ServerTemplatesAssumption
  <2>4. PickerFields
    BY <1>1, <2>2, PickerValues DEF Templates!Init, PickerFields
  <2> QED
    BY <1>1, <2>1, <2>3, <2>4 DEF Templates!Init, PickerShape, PickerVisit
<1>2. TemplateInv /\ PickerShape => Templates!TypeOK
  BY DEF TemplateInv, RoomRule, PickerShape, PickerFlags, PickerFields, PickerLists, PickerVisit, Templates!TypeOK
<1> QED
  BY <1>1, <1>2, TemplateStart, TemplateStep, PickerStays, PTL
-----------------------------------------------------------------------------
(* The user and the versions of a site. *)

\* The name that is suggested is free.
LEMMA SuggestionFits ==
  ASSUME Site!CreateSiteAssumption, NEW d \in DomainsHere, NEW taken
  PROVE  LET u == Site!suggestIsolatedUsername(d, taken) IN
         u # None => u \in SiteUsers /\ u \notin taken \cup Reserved
<1> DEFINE free == {i \in 1..Len(Candidates[d]): Candidates[d][i] \notin taken \cup Reserved}
<1>1. Candidates[d] \in Seq(SiteUsers)
  BY DEF Site!CreateSiteAssumption
<1>2. ASSUME free # {} PROVE Site!Min(free) \in free
  <2>1. free \in SUBSET Nat
    BY <1>1
  <2> HIDE DEF free
  <2>2. \E x \in free: \A y \in free: x <= y
    BY <1>2, <2>1, Least
  <2> QED
    BY <2>2 DEF Site!Min
<1>3. Site!suggestIsolatedUsername(d, taken) = IF free = {} THEN None ELSE Candidates[d][Site!Min(free)]
  BY DEF Site!suggestIsolatedUsername
<1>4. \A i \in free: Candidates[d][i] \in SiteUsers /\ Candidates[d][i] \notin taken \cup Reserved
  BY <1>1
<1> HIDE DEF free
<1> QED
  BY <1>2, <1>3, <1>4

SiteTypes ==
  /\ accounts \in [Servers -> SUBSET SiteUsers] /\ (sent # None => sent.server \in Servers /\ sent.user \in SiteUsers \cup {None})
  /\ server \in Servers \cup {None} /\ type \in Types /\ domain \in DomainsHere \cup {None} /\ user \in SiteUsers \cup {None}
\* A version that a lock wrote is remembered with it.
LockRule == \A t \in Tools: origin[t] = "lock" => previousLocks[t] # None
\* What the type does not show has no version, as long as the type stays.
OtherRule == ~retyped => \A t \in Tools \ Site!activeTools(type): versions[t] = None
SiteInv == SiteTypes /\ LockRule /\ OtherRule /\ Site!SuggestedUserIsFree /\ Site!LocksAreOfTheUser

\* A pass over the tools leaves the locks in the fields, and a lock that is gone leaves with its version.
LEMMA LockedFits ==
  ASSUME NEW locks, NEW v, NEW t \in Tools, v[t].by = "lock" => v[t].lock # None
  PROVE  LET next == Site!Locked(locks, v)[t] IN
         /\ t \in Site!activeTools(type') =>
              IF locks[t] # None THEN next.is = locks[t] ELSE next.lock = None /\ next.by # "lock"
         /\ next.by = "lock" => next.lock # None
         /\ t \notin Site!activeTools(type') => next = v[t]
BY DEF Site!Locked

\* What the effects leave behind.
LEMMA EffectsFit ==
  ASSUME Site!CreateSiteAssumption, NEW u \in SiteUsers \cup {None}, NEW v, Site!Effects(u, v),
         server' \in Servers \cup {None}, type' \in Types, domain' \in DomainsHere \cup {None},
         \A t \in Tools: v[t].by = "lock" => v[t].lock # None,
         ~retyped' => \A t \in Tools \ Site!activeTools(type'): v[t].is = None
  PROVE  user' \in SiteUsers \cup {None} /\ LockRule' /\ OtherRule' /\ Site!SuggestedUserIsFree' /\ Site!LocksAreOfTheUser'
<1> DEFINE present == IF server' = None THEN {} ELSE Site!existing(known'[server'])
           suggested == Site!SuggestedUser(u)
           first == Site!lockedVersions(server', present, u)
           second == Site!lockedVersions(server', present, suggested)
           once == Site!Locked(first, v)
           settled == Site!Locked(second, once)
<1>1. /\ user' = suggested /\ versions' = [t \in Tools |-> settled[t].is]
      /\ origin' = [t \in Tools |-> settled[t].by] /\ previousLocks' = [t \in Tools |-> settled[t].lock]
  BY DEF Site!Effects
<1>2. suggested \in SiteUsers \cup {None}
  BY SuggestionFits DEF Site!SuggestedUser
<1>3. Site!SuggestedUserIsFree'
  <2> SUFFICES ASSUME ~userManuallyEdited', user' # None, server' # None,
                      ~(known'[server'] = NotLoaded /\ server' \in fetching')
               PROVE  user' \notin Reserved /\ (known'[server'] # NotLoaded => user' \notin known'[server'])
    BY DEF Site!SuggestedUserIsFree
  <2>1. domain' # None /\ user' = Site!suggestIsolatedUsername(domain', Site!existing(known'[server']))
    BY <1>1 DEF Site!SuggestedUser, Site!isLoading
  <2> HIDE DEF suggested
  <2>2. user' \notin Reserved /\ user' \notin Site!existing(known'[server'])
    BY <2>1, SuggestionFits
  <2> QED
    BY <2>2 DEF Site!existing
<1>4. (Site!locks)' = second
  BY <1>1 DEF Site!locks
<1> HIDE DEF first, second, settled, suggested
<1>5. \A t \in Tools: once[t].by = "lock" => once[t].lock # None
  BY LockedFits
<1>6. \A t \in Tools \ Site!activeTools(type'): once[t] = v[t]
  BY LockedFits
<1> HIDE DEF once
<1>7. \A t \in Tools:
        /\ t \in Site!activeTools(type') =>
             IF second[t] # None THEN settled[t].is = second[t] ELSE settled[t].by # "lock"
        /\ settled[t].by = "lock" => settled[t].lock # None
        /\ t \notin Site!activeTools(type') => settled[t] = v[t]
  BY <1>5, <1>6, LockedFits DEF settled
<1>8. Site!activeTools(type') \subseteq Tools
  BY DEF Site!activeTools, Site!CreateSiteAssumption
<1>9. LockRule' /\ OtherRule'
  BY <1>1, <1>7 DEF LockRule, OtherRule
<1>10. Site!LocksAreOfTheUser'
  BY <1>1, <1>4, <1>7, <1>8 DEF Site!LocksAreOfTheUser
<1> QED
  BY <1>1, <1>2, <1>3, <1>9, <1>10

LEMMA SiteStart == ASSUME Site!CreateSiteAssumption, Site!Init PROVE SiteInv
<1> DEFINE blank == [t \in Tools |-> [is |-> None, by |-> "nobody", lock |-> None]]
           filled == Site!Defaults(type, blank)
<1>1. \A t \in Tools: filled[t].by # "lock" /\ (t \notin Site!activeTools(type) => filled[t].is = None)
  BY DEF Site!Defaults, Site!activeTools
<1>2. versions = [t \in Tools |-> filled[t].is] /\ origin = [t \in Tools |-> filled[t].by]
  BY DEF Site!Init
<1> HIDE DEF filled
<1>3. SiteTypes
  BY DEF Site!Init, SiteTypes
<1>4. LockRule /\ OtherRule
  BY <1>1, <1>2 DEF LockRule, OtherRule
<1>5. Site!activeTools(type) \subseteq Tools
  BY <1>3 DEF SiteTypes, Site!activeTools, Site!CreateSiteAssumption
<1>6. \A t \in Tools: Site!locks[t] = None
  BY DEF Site!Init, Site!locks, Site!lockedVersions
<1>7. Site!LocksAreOfTheUser
  BY <1>1, <1>2, <1>5, <1>6 DEF Site!LocksAreOfTheUser
<1> QED
  BY <1>3, <1>4, <1>7 DEF Site!Init, SiteInv, Site!SuggestedUserIsFree

LEMMA SiteStep == ASSUME Site!CreateSiteAssumption, SiteInv, [Site!Next]_(Site!vars) PROVE SiteInv'
<1>0. SiteTypes /\ LockRule /\ OtherRule /\ Site!SuggestedUserIsFree /\ Site!LocksAreOfTheUser
  BY DEF SiteInv
<1>a. /\ \A t \in Tools: Site!Current[t].by = "lock" => Site!Current[t].lock # None
      /\ ~retyped => \A t \in Tools \ Site!activeTools(type): Site!Current[t].is = None
  BY <1>0 DEF Site!Current, LockRule, OtherRule
<1>b. ASSUME UNCHANGED <<accounts, sent>>, UNCHANGED <<type, retyped>>, server' \in Servers \cup {None},
             domain' \in DomainsHere \cup {None}, NEW u \in SiteUsers \cup {None}, Site!Effects(u, Site!Current)
      PROVE  SiteInv'
  <2>1. type' \in Types
    BY <1>0, <1>b DEF SiteTypes
  <2>2. user' \in SiteUsers \cup {None} /\ LockRule' /\ OtherRule' /\ Site!SuggestedUserIsFree' /\ Site!LocksAreOfTheUser'
    BY <1>a, <1>b, <2>1, EffectsFit
  <2> QED
    BY <1>0, <1>b, <2>2 DEF SiteInv, SiteTypes
<1>c. user \in SiteUsers \cup {None} /\ domain \in DomainsHere \cup {None} /\ server \in Servers \cup {None} /\ type \in Types
  BY <1>0 DEF SiteTypes
<1>1. ASSUME NEW s \in Servers \cup {None}, Site!SelectServer(s) PROVE SiteInv'
  BY <1>b, <1>c, <1>1 DEF Site!SelectServer, Site!remote, Site!submission
<1>2. ASSUME NEW ty \in Types, Site!SelectType(ty) PROVE SiteInv'
  <2> DEFINE v == Site!Defaults(ty, Site!Current)
  <2>1. \A t \in Tools: v[t].by = "lock" => v[t].lock # None
    BY <1>a DEF Site!Defaults
  <2>2. /\ Site!Effects(user, v) /\ retyped' = TRUE /\ type' = ty /\ UNCHANGED <<server, domain, accounts, sent>>
    BY <1>2 DEF Site!SelectType, Site!remote, Site!submission
  <2> HIDE DEF v
  <2>3. user' \in SiteUsers \cup {None} /\ LockRule' /\ OtherRule' /\ Site!SuggestedUserIsFree' /\ Site!LocksAreOfTheUser'
    BY <1>c, <2>1, <2>2, EffectsFit
  <2> QED
    BY <1>0, <2>2, <2>3 DEF SiteInv, SiteTypes
<1>3. ASSUME NEW d \in DomainsHere \cup {None}, Site!TypeDomain(d) PROVE SiteInv'
  BY <1>b, <1>c, <1>3 DEF Site!TypeDomain, Site!remote, Site!query, Site!submission
<1>4. ASSUME NEW u \in SiteUsers, Site!pick(u) PROVE SiteInv'
  BY <1>b, <1>c, <1>4 DEF Site!pick, Site!remote, Site!query, Site!submission
<1>5. CASE Site!handleSearchChange
  <2>1. /\ userManuallyEdited' = TRUE
        /\ UNCHANGED <<accounts, known, server, type, domain, user, versions, previousLocks, origin, sent, retyped>>
    BY <1>5 DEF Site!handleSearchChange, Site!query, Site!effects, Site!remote, Site!submission
  <2> QED
    BY <1>0, <2>1
       DEF SiteInv, SiteTypes, LockRule, OtherRule, Site!SuggestedUserIsFree, Site!LocksAreOfTheUser,
           Site!locks, Site!activeTools,
           Site!lockedVersions, Site!existing
<1>d. ASSUME NEW t \in Tools, NEW x, t \in Site!activeTools(type)
      PROVE  /\ \A w \in Tools: Site!Written(t, x)[w].by = "lock" => Site!Written(t, x)[w].lock # None
             /\ ~retyped => \A w \in Tools \ Site!activeTools(type): Site!Written(t, x)[w].is = None
  BY <1>a, <1>d DEF Site!Written, Site!Current
<1>6. ASSUME NEW t \in Tools, NEW x, Site!Effects(user, Site!Written(t, x)), t \in Site!activeTools(type),
             UNCHANGED <<accounts, sent, server, type, domain, retyped>>
      PROVE  SiteInv'
  <2>1. user' \in SiteUsers \cup {None} /\ LockRule' /\ OtherRule' /\ Site!SuggestedUserIsFree' /\ Site!LocksAreOfTheUser'
    BY <1>c, <1>d, <1>6, EffectsFit
  <2> QED
    BY <1>0, <1>6, <2>1 DEF SiteInv, SiteTypes
<1>7. ASSUME NEW t \in Tools, NEW x \in Site!Versions, Site!SelectVersion(t, x) PROVE SiteInv'
  BY <1>6, <1>7
     DEF Site!SelectVersion, Site!Selectable, Site!activeTools, Site!query, Site!chosen, Site!remote,
         Site!submission
<1>8. ASSUME NEW t \in Tools, Site!SelectTool(t) PROVE SiteInv'
  <2>1. /\ UNCHANGED <<accounts, sent, server, type, domain, retyped>> /\ t \in Site!activeTools(type)
        /\ Site!Effects(user, IF t \in PickerOf[type] THEN Site!Current
                   ELSE Site!Written(t, IF Site!locks[t] # None THEN Site!locks[t] ELSE Supported[t][1]))
    BY <1>8 DEF Site!SelectTool, Site!activeTools, Site!query, Site!remote, Site!submission
  <2>2. CASE t \in PickerOf[type]
    BY <1>b, <1>c, <2>1, <2>2
  <2>3. CASE t \notin PickerOf[type]
    BY <1>6, <2>1, <2>3
  <2> QED
    BY <2>2, <2>3
<1>9. ASSUME NEW s, Site!Refetch(s) \/ Site!GetIsolatedUsers(s) PROVE SiteInv'
  BY <1>b, <1>c, <1>9 DEF Site!Refetch, Site!GetIsolatedUsers, Site!chosen, Site!remote, Site!submission
<1>e. ASSUME UNCHANGED <<Site!query, Site!chosen, Site!effects, retyped>>, SiteTypes' PROVE SiteInv'
  BY <1>0, <1>e
     DEF SiteInv, LockRule, OtherRule, Site!SuggestedUserIsFree, Site!LocksAreOfTheUser, Site!locks, Site!activeTools,
         Site!lockedVersions, Site!existing, Site!query, Site!chosen, Site!effects
<1>10. ASSUME NEW s \in Servers, NEW u \in SiteUsers, Site!Join(s, u) PROVE SiteInv'
  <2>1. SiteTypes'
    BY <1>0, <1>10 DEF SiteTypes, Site!Join, Site!chosen, Site!effects, Site!submission
  <2> QED
    BY <1>e, <1>10, <2>1 DEF Site!Join
<1>11. CASE Site!submit \/ Site!Refused
  <2>1. SiteTypes'
    BY <1>0, <1>11 DEF SiteTypes, Site!submit, Site!Refused, Site!chosen, Site!effects, Site!remote
  <2> QED
    BY <1>e, <1>11, <2>1 DEF Site!submit, Site!Refused
<1>12. CASE Site!Create
  <2>1. SiteTypes'
    BY <1>0, <1>12 DEF SiteTypes, Site!Create, Site!chosen, Site!effects
  <2> QED
    BY <1>e, <1>12, <2>1 DEF Site!Create
<1>13. CASE UNCHANGED Site!vars
  <2>1. SiteTypes'
    BY <1>0, <1>13 DEF SiteTypes, Site!vars, Site!chosen, Site!effects, Site!remote, Site!submission
  <2> QED
    BY <1>e, <1>13, <2>1 DEF Site!vars
<1> QED
  BY <1>1, <1>2, <1>3, <1>4, <1>5, <1>7, <1>8, <1>9, <1>10, <1>11, <1>12, <1>13 DEF Site!Next

\* With the users of the list, what the server compares is what the form took over.
LEMMA AcceptedWhenKnown ==
  ASSUME Site!CreateSiteAssumption, SiteInv PROVE Site!VersionsAreAccepted
<1> SUFFICES ASSUME server # None, ~retyped, known[server] = accounts[server],
                    NEW t \in Tools, user \in accounts[server], InstalledFor[server][user][t] # None
             PROVE  versions[t] \in {None, InstalledFor[server][user][t]}
  BY DEF Site!VersionsAreAccepted, Site!Mismatched
<1>1. known[server] # NotLoaded
  BY DEF SiteInv, SiteTypes, Site!CreateSiteAssumption
<1>2. Site!locks[t] = InstalledFor[server][user][t]
  BY <1>1 DEF Site!locks, Site!lockedVersions, Site!existing
<1> QED
  BY <1>2 DEF SiteInv, Site!LocksAreOfTheUser, OtherRule

\* Whatever the order of the answers, a suggested user is free on the list the form has, a version that a user
\* brought leaves with the user, and a form with the users of the server is not refused for a version.
THEOREM SiteChoicesFit ==
  ASSUME Site!CreateSiteAssumption
  PROVE  Site!Init /\ [][Site!Next]_(Site!vars)
           => [](Site!SuggestedUserIsFree /\ Site!LocksAreOfTheUser /\ Site!VersionsAreAccepted)
<1>1. SiteInv => Site!SuggestedUserIsFree /\ Site!LocksAreOfTheUser /\ Site!VersionsAreAccepted
  BY AcceptedWhenKnown DEF SiteInv
<1> QED
  BY <1>1, SiteStart, SiteStep, PTL

\* A tool holds a version exactly when somebody wrote one; what was locked before is a version too.
Writers == {"nobody", "default", "user", "lock", "release"}
Held(v) == \A t \in Tools:
  /\ v[t].is \in Site!Versions \cup {None} /\ v[t].by \in Writers /\ v[t].lock \in Site!Versions \cup {None}
  /\ v[t].is = None <=> v[t].by = "nobody"
SiteFlags == userManuallyEdited \in BOOLEAN /\ retyped \in BOOLEAN
SiteLists ==
  /\ known \in [Servers -> (SUBSET SiteUsers) \cup {NotLoaded}] /\ fetching \subseteq Servers
  /\ packageManager \in Tools \cup {None} /\ joined \in 0..MaxJoined /\ edits \in 0..MaxSiteEdits
SiteVersions ==
  /\ {versions, previousLocks} \subseteq [Tools -> Site!Versions \cup {None}] /\ origin \in [Tools -> Writers]
  /\ \A t \in Tools: versions[t] = None <=> origin[t] = "nobody"
NobodyYet == server = None /\ ~userManuallyEdited => user = None
SiteShape == SiteInv /\ SiteFlags /\ SiteLists /\ SiteVersions /\ NobodyYet

LEMMA OfferedVersions ==
  ASSUME Site!CreateSiteAssumption, NEW t \in Tools
  PROVE  /\ Supported[t][1] \in Site!Versions /\ None \notin Site!Versions /\ Site!NoVersion \in Site!Versions
         /\ \A s \in Servers, u \in SiteUsers: InstalledFor[s][u][t] \in Site!Versions \cup {None}
<1>1. Supported[t] \in Seq(Site!Versions) /\ Len(Supported[t]) > 0 /\ None \notin Site!Versions
  BY DEF Site!CreateSiteAssumption
<1>2. Supported[t][1] \in Site!Versions
  BY <1>1
<1>3. Site!NoVersion \in Site!Versions
  BY DEF Site!Versions
<1>4. \A s \in Servers, u \in SiteUsers: InstalledFor[s][u][t] \in Site!Versions \cup {None}
  BY DEF Site!Versions
<1> QED
  BY <1>1, <1>2, <1>3, <1>4

\* What a user brings is a version, on every server, whatever the list says.
LEMMA LocksFit ==
  ASSUME Site!CreateSiteAssumption, NEW s \in Servers \cup {None}, NEW u \in SiteUsers \cup {None},
         NEW present \in SUBSET SiteUsers
  PROVE  \A t \in Tools: Site!lockedVersions(s, present, u)[t] \in Site!Versions \cup {None}
BY OfferedVersions DEF Site!lockedVersions, Site!CreateSiteAssumption

LEMMA LockedHolds ==
  ASSUME Site!CreateSiteAssumption, NEW v, Held(v), NEW locks,
         \A t \in Tools: locks[t] \in Site!Versions \cup {None}
  PROVE  Held(Site!Locked(locks, v))
<1> SUFFICES ASSUME NEW t \in Tools
             PROVE  LET next == Site!Locked(locks, v)[t] IN
                    /\ next.is \in Site!Versions \cup {None} /\ next.by \in Writers
                    /\ next.lock \in Site!Versions \cup {None} /\ (next.is = None <=> next.by = "nobody")
  BY DEF Held
<1>1. Site!Fallback(t) \in Site!Versions /\ None \notin Site!Versions
  BY OfferedVersions DEF Site!Fallback
<1>2. Site!Locked(locks, v)[t] =
        IF t \in Site!activeTools(type') /\ locks[t] # None
        THEN [is |-> locks[t], by |-> "lock", lock |-> locks[t]]
        ELSE IF t \in Site!activeTools(type') /\ v[t].lock # None
             THEN [is |-> Site!Fallback(t), by |-> "release", lock |-> None]
             ELSE v[t]
  BY DEF Site!Locked
<1> QED
  BY <1>1, <1>2 DEF Held, Writers

\* The effects keep the fields in shape, from whatever the form holds.
LEMMA EffectsHold ==
  ASSUME Site!CreateSiteAssumption, NEW u \in SiteUsers \cup {None}, NEW v, Held(v), Site!Effects(u, v),
         server' \in Servers \cup {None}, domain' \in DomainsHere \cup {None},
         known' \in [Servers -> (SUBSET SiteUsers) \cup {NotLoaded}]
  PROVE  SiteVersions' /\ NobodyYet'
<1> DEFINE present == IF server' = None THEN {} ELSE Site!existing(known'[server'])
           suggested == Site!SuggestedUser(u)
           once == Site!Locked(Site!lockedVersions(server', present, u), v)
           settled == Site!Locked(Site!lockedVersions(server', present, suggested), once)
<1>1. /\ user' = suggested /\ versions' = [t \in Tools |-> settled[t].is]
      /\ origin' = [t \in Tools |-> settled[t].by] /\ previousLocks' = [t \in Tools |-> settled[t].lock]
  BY DEF Site!Effects
<1>2. suggested \in SiteUsers \cup {None}
  BY SuggestionFits DEF Site!SuggestedUser
<1>3. present \in SUBSET SiteUsers
  BY DEF Site!existing
<1>4. NobodyYet'
  BY <1>1 DEF NobodyYet, Site!SuggestedUser
<1> HIDE DEF present, suggested
<1>5. Held(once)
  BY <1>3, LocksFit, LockedHolds
<1> HIDE DEF once
<1>6. Held(settled)
  BY <1>2, <1>3, <1>5, LocksFit, LockedHolds
<1> HIDE DEF settled
<1>7. SiteVersions'
  BY <1>1, <1>6 DEF SiteVersions, Held
<1> QED
  BY <1>4, <1>7

LEMMA SiteShapeStays ==
  ASSUME Site!CreateSiteAssumption, SiteShape, [Site!Next]_(Site!vars) PROVE SiteShape'
<1>1. SiteInv' /\ SiteTypes /\ SiteTypes'
  BY SiteStep DEF SiteShape, SiteInv
<1>2. SiteFlags /\ SiteLists /\ SiteVersions /\ NobodyYet /\ MaxJoined \in Nat /\ MaxSiteEdits \in Nat
  BY DEF SiteShape, Site!CreateSiteAssumption
<1>3. Held(Site!Current)
  BY <1>2 DEF SiteVersions, Held, Site!Current
<1>4. ASSUME NEW u \in SiteUsers \cup {None}, NEW v, Held(v), Site!Effects(u, v), SiteLists'
      PROVE  SiteVersions' /\ NobodyYet'
  BY <1>1, <1>4, EffectsHold DEF SiteTypes, SiteLists
<1>5. user \in SiteUsers \cup {None}
  BY <1>1 DEF SiteTypes
<1>6. Site!Edit => edits' \in 0..MaxSiteEdits
  BY <1>2 DEF Site!Edit, SiteLists
<1>7. ASSUME NEW s \in Servers \cup {None}, Site!SelectServer(s) PROVE SiteShape'
  <2>1. SiteFlags'
    BY <1>2, <1>7, Zenon DEF SiteFlags, Site!SelectServer
  <2>2. SiteLists' /\ Site!Effects(user, Site!Current)
    BY <1>2, <1>6, <1>7 DEF SiteLists, Site!SelectServer, Site!remote
  <2> QED
    BY <1>1, <1>3, <1>4, <1>5, <2>1, <2>2 DEF SiteShape
<1>8. ASSUME NEW ty \in Types, Site!SelectType(ty) PROVE SiteShape'
  <2>1. SiteFlags'
    BY <1>2, <1>8, Zenon DEF SiteFlags, Site!SelectType
  <2>2. SiteLists' /\ Site!Effects(user, Site!Defaults(ty, Site!Current))
    BY <1>2, <1>6, <1>8 DEF SiteLists, Site!SelectType, Site!remote, Site!query
  <2>3. Held(Site!Defaults(ty, Site!Current))
    <3>1. ASSUME NEW t \in Tools
          PROVE  LET v == Site!Current[t] IN
                 \/ Site!Defaults(ty, Site!Current)[t] = v
                 \/ Site!Defaults(ty, Site!Current)[t] = [is |-> Supported[t][1], by |-> "default", lock |-> v.lock]
      BY DEF Site!Defaults, Site!Current
    <3>2. ASSUME NEW t \in Tools
          PROVE  Supported[t][1] \in Site!Versions /\ None \notin Site!Versions
      BY OfferedVersions
    <3> DEFINE v == Site!Current
               filled == Site!Defaults(ty, v)
    <3> HIDE DEF v, filled
    <3>3. ASSUME NEW t \in Tools
          PROVE  /\ filled[t].is \in Site!Versions \cup {None} /\ filled[t].by \in Writers
                 /\ filled[t].lock \in Site!Versions \cup {None} /\ (filled[t].is = None <=> filled[t].by = "nobody")
      <4>1. CASE filled[t] = v[t]
        BY <1>3, <4>1 DEF Held, v
      <4>2. CASE filled[t] = [is |-> Supported[t][1], by |-> "default", lock |-> v[t].lock]
        BY <1>3, <3>2, <4>2 DEF Held, Writers, v
      <4> QED
        BY <3>1, <4>1, <4>2 DEF v, filled
    <3> QED
      BY <3>3 DEF Held, v, filled
  <2> QED
    BY <1>1, <1>4, <1>5, <2>1, <2>2, <2>3 DEF SiteShape
<1>9. ASSUME NEW d \in DomainsHere \cup {None}, Site!TypeDomain(d) PROVE SiteShape'
  <2>1. SiteFlags'
    BY <1>2, <1>9, Zenon DEF SiteFlags, Site!TypeDomain
  <2>2. SiteLists' /\ Site!Effects(user, Site!Current)
    BY <1>2, <1>6, <1>9 DEF SiteLists, Site!TypeDomain, Site!remote, Site!query
  <2> QED
    BY <1>1, <1>3, <1>4, <1>5, <2>1, <2>2 DEF SiteShape
<1>10. ASSUME NEW u \in SiteUsers, Site!pick(u) PROVE SiteShape'
  <2>1. SiteFlags'
    BY <1>2, <1>10, Zenon DEF SiteFlags, Site!pick
  <2>2. SiteLists' /\ Site!Effects(u, Site!Current)
    BY <1>2, <1>6, <1>10 DEF SiteLists, Site!pick, Site!remote, Site!query
  <2> QED
    BY <1>1, <1>3, <1>4, <2>1, <2>2 DEF SiteShape
<1>11. ASSUME Site!handleSearchChange PROVE SiteShape'
  <2>1. SiteFlags'
    BY <1>2, <1>11, Zenon DEF SiteFlags, Site!handleSearchChange
  <2>2. SiteLists' /\ SiteVersions' /\ NobodyYet'
    BY <1>2, <1>6, <1>11
       DEF SiteLists, SiteVersions, NobodyYet, Site!handleSearchChange, Site!remote, Site!query, Site!effects
  <2> QED
    BY <1>1, <2>1, <2>2 DEF SiteShape
<1>12. ASSUME NEW t \in Tools, NEW x \in Site!Versions PROVE Held(Site!Written(t, x))
  <2> DEFINE v == Site!Current
             new == Site!Written(t, x)
  <2>1. v = [w \in Tools |-> [is |-> versions[w], by |-> origin[w], lock |-> previousLocks[w]]]
    BY DEF Site!Current
  <2>2. new[t] = [is |-> x, by |-> "user", lock |-> previousLocks[t]] /\ v[t].lock = previousLocks[t]
    BY <2>1 DEF Site!Written
  <2>3. \A w \in Tools \ {t}: new[w] = v[w]
    BY <2>1 DEF Site!Written
  <2>4. None \notin Site!Versions
    BY OfferedVersions
  <2> HIDE DEF v, new
  <2>5. ASSUME NEW w \in Tools
        PROVE  /\ new[w].is \in Site!Versions \cup {None} /\ new[w].by \in Writers
               /\ new[w].lock \in Site!Versions \cup {None} /\ (new[w].is = None <=> new[w].by = "nobody")
    <3>1. CASE w = t
      <4>1. v[t].lock \in Site!Versions \cup {None}
        BY <1>3 DEF Held, v
      <4>2. new[w].is = x /\ new[w].by = "user" /\ new[w].lock = v[t].lock
        BY <2>2, <3>1
      <4> QED
        BY <2>4, <4>1, <4>2 DEF Writers
    <3>2. CASE w # t
      <4>1. new[w] = v[w]
        BY <2>3, <3>2
      <4> QED
        BY <1>3, <4>1 DEF Held, v
    <3> QED
      BY <3>1, <3>2
  <2> QED
    BY <2>5 DEF Held, new
<1>13. ASSUME NEW t \in Tools, NEW x \in Site!Versions, Site!SelectVersion(t, x) PROVE SiteShape'
  <2>1. SiteFlags'
    BY <1>2, <1>13, Zenon DEF SiteFlags, Site!SelectVersion, Site!chosen
  <2>2. SiteLists' /\ Site!Effects(user, Site!Written(t, x))
    BY <1>2, <1>6, <1>13 DEF SiteLists, Site!SelectVersion, Site!remote, Site!query, Site!chosen
  <2> QED
    BY <1>1, <1>4, <1>5, <1>12, <2>1, <2>2 DEF SiteShape
<1>14. ASSUME NEW t \in Tools, Site!SelectTool(t) PROVE SiteShape'
  <2> DEFINE x == IF Site!locks[t] # None THEN Site!locks[t] ELSE Supported[t][1]
  <2>1. SiteFlags'
    BY <1>2, <1>14, Zenon DEF SiteFlags, Site!SelectTool
  <2>2. SiteLists' /\ Site!Effects(user, IF t \in PickerOf[type] THEN Site!Current ELSE Site!Written(t, x))
    BY <1>2, <1>6, <1>14 DEF SiteLists, Site!SelectTool, Site!remote, Site!query
  <2>3. x \in Site!Versions
    <3> DEFINE present == IF server = None THEN {} ELSE Site!existing(known[server])
    <3>1. present \in SUBSET SiteUsers /\ server \in Servers \cup {None}
      BY <1>1, <1>2, SMT DEF SiteTypes, SiteLists, Site!existing
    <3>2. Site!locks = Site!lockedVersions(server, present, user)
      BY DEF Site!locks
    <3> HIDE DEF present
    <3> QED
      BY <1>5, <3>1, <3>2, LocksFit, OfferedVersions
  <2> HIDE DEF x
  <2> QED
    BY <1>1, <1>3, <1>4, <1>5, <1>12, <2>1, <2>2, <2>3 DEF SiteShape
<1>15. ASSUME NEW s \in Servers, Site!Refetch(s) \/ (s \in fetching /\ Site!GetIsolatedUsers(s)) PROVE SiteShape'
  <2>1. SiteFlags'
    BY <1>2, <1>15, Zenon DEF SiteFlags, Site!Refetch, Site!GetIsolatedUsers, Site!chosen
  <2>2. SiteLists' /\ Site!Effects(user, Site!Current)
    <3>1. known' \in [Servers -> (SUBSET SiteUsers) \cup {NotLoaded}]
      BY <1>1, <1>2, <1>15 DEF SiteTypes, SiteLists, Site!Refetch, Site!GetIsolatedUsers
    <3> QED
      BY <1>2, <1>15, <3>1 DEF SiteLists, Site!Refetch, Site!GetIsolatedUsers, Site!remote, Site!chosen
  <2> QED
    BY <1>1, <1>3, <1>4, <1>5, <2>1, <2>2 DEF SiteShape
<1>16. ASSUME UNCHANGED <<Site!query, Site!chosen, Site!effects, edits, retyped>>, joined' \in 0..MaxJoined
       PROVE  SiteShape'
  <2>1. SiteFlags'
    BY <1>2, <1>16, Zenon DEF SiteFlags, Site!chosen
  <2>2. SiteLists' /\ SiteVersions' /\ NobodyYet'
    BY <1>2, <1>16 DEF SiteLists, SiteVersions, NobodyYet, Site!query, Site!effects, Site!chosen
  <2> QED
    BY <1>1, <2>1, <2>2 DEF SiteShape
<1>17. ASSUME NEW s \in Servers, NEW u \in SiteUsers, Site!Join(s, u) PROVE SiteShape'
  <2>1. joined' \in 0..MaxJoined
    BY <1>2, <1>17 DEF SiteLists, Site!Join
  <2> QED
    BY <1>16, <1>17, <2>1 DEF Site!Join
<1>18. ASSUME Site!submit \/ Site!Refused \/ Site!Create \/ UNCHANGED Site!vars PROVE SiteShape'
  <2>1. joined' \in 0..MaxJoined
    BY <1>2, <1>18 DEF SiteLists, Site!submit, Site!Refused, Site!Create, Site!vars, Site!remote
  <2> QED
    BY <1>16, <1>18, <2>1 DEF Site!submit, Site!Refused, Site!Create, Site!vars
<1>19. fetching \subseteq Servers
  BY <1>2 DEF SiteLists
<1> QED
  BY <1>7, <1>8, <1>9, <1>10, <1>11, <1>13, <1>14, <1>15, <1>17, <1>18, <1>19 DEF Site!Next

\* Every field of the site form keeps to its values; a tool holds a version exactly when somebody wrote one,
\* and without a server there is no user unless the person chose it (useEffect and the isolated users of the page).
THEOREM SiteTypeOK ==
  ASSUME Site!CreateSiteAssumption PROVE Site!Init /\ [][Site!Next]_(Site!vars) => []Site!TypeOK
<1>1. ASSUME Site!Init PROVE SiteShape
  <2>1. SiteInv /\ MaxJoined \in Nat /\ MaxSiteEdits \in Nat
    BY <1>1, SiteStart DEF Site!CreateSiteAssumption
  <2>2. SiteFlags
    BY <1>1, Zenon DEF Site!Init, SiteFlags
  <2>3. SiteLists /\ NobodyYet
    BY <1>1, <2>1 DEF Site!Init, SiteLists, NobodyYet
  <2>4. SiteVersions
    <3> DEFINE blank == [t \in Tools |-> [is |-> None, by |-> "nobody", lock |-> None]]
               filled == Site!Defaults(type, blank)
    <3>1. Held(filled)
      BY OfferedVersions DEF Held, Writers, Site!Defaults
    <3>2. versions = [t \in Tools |-> filled[t].is] /\ origin = [t \in Tools |-> filled[t].by]
      BY <1>1 DEF Site!Init
    <3>3. previousLocks = [t \in Tools |-> None]
      BY <1>1 DEF Site!Init
    <3> HIDE DEF filled
    <3> QED
      BY <3>1, <3>2, <3>3 DEF SiteVersions, Held
  <2> QED
    BY <2>1, <2>2, <2>3, <2>4 DEF SiteShape
<1>2. SiteShape => Site!TypeOK
  BY DEF SiteShape, SiteInv, SiteTypes, SiteFlags, SiteLists, SiteVersions, NobodyYet, Writers, Site!TypeOK
<1> QED
  BY <1>1, <1>2, SiteShapeStays, PTL
=============================================================================
