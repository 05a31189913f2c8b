---------------------------- MODULE CreateServer -----------------------------
(***************************************************************************)
(* The form that creates a server: a connection to a provider, one of its  *)
(* regions, and a plan of that region.  Each choice asks for the next list *)
(* and nothing says which choice an answer belongs to.  (The systems that  *)
(* can be installed are the same for every provider, and left out.)        *)
(***************************************************************************)
EXTENDS Naturals, FiniteSets

CONSTANTS
  Custom,       \* the provider of servers that exist already; no connection
  None,         \* an empty field
  Connections,  \* connections to providers that exist at some time
  Providers,    \* the other providers
  ProviderOf,   \* [Connections -> Providers]
  RegionsOf,    \* [Connections -> sets of regions]
  PlansOf,      \* [regions -> sets of plans]
  FieldsOf,     \* [Providers -> sets of further fields]
  MaxChoices    \* bound: choices of a connection and of a region

Regions == UNION {RegionsOf[c]: c \in Connections}
Plans == UNION {PlansOf[r]: r \in Regions}
Fields == UNION {FieldsOf[p]: p \in Providers}

CreateServerAssumption ==
  /\ Custom \notin Connections \cup Providers /\ None \notin Regions \cup Plans
  /\ ProviderOf \in [Connections -> Providers] /\ MaxChoices \in Nat

VARIABLES
  existing, serverProviders, listing, \* connections that exist, that are listed, and the answers that
                                      \* are under way with a list
  connection, region, plan, fields,   \* form.data: server_provider, region, plan, further fields filled in
  regions, plans,                     \* the lists that are shown
  askedRegions, askedPlans,           \* lookups under way: for a connection; for a region of one
  open, processing,                   \* the sheet, and the submission
  choices,                            \* bound
  overtaken, replaced                 \* history: an answer for another choice came, since a connection was
                                      \* chosen; a region was, since a plan was

connections == <<existing, serverProviders, listing>>
data == <<connection, region, plan, fields>>
lists == <<regions, plans>>
lookups == <<askedRegions, askedPlans>>
sheet == <<open, processing>>
history == <<overtaken, replaced>>
vars == <<connections, data, lists, lookups, sheet, choices, history>>

provider == IF connection = Custom THEN Custom ELSE ProviderOf[connection]

TypeOK ==
  /\ {existing, serverProviders} \subseteq SUBSET Connections /\ listing \subseteq SUBSET Connections
  /\ connection \in Connections \cup {Custom} /\ region \in Regions \cup {None}
  /\ plan \in Plans \cup {None} /\ fields \subseteq Fields /\ regions \subseteq Regions /\ plans \subseteq Plans
  /\ askedRegions \subseteq Connections /\ askedPlans \subseteq Connections \X Regions
  /\ {open, processing, overtaken, replaced} \subseteq BOOLEAN /\ choices \in 0..MaxChoices
  /\ (region = None => plan = None)

Init ==
  /\ existing \in SUBSET Connections /\ serverProviders = {} /\ listing = {}
  /\ connection = Custom /\ region = None /\ plan = None /\ fields = {} /\ regions = {} /\ plans = {}
  /\ askedRegions = {} /\ askedPlans = {} /\ open = FALSE /\ processing = FALSE /\ choices = 0
  /\ overtaken = FALSE /\ replaced = FALSE

-----------------------------------------------------------------------------
(* Connections are listed when the sheet opens and when an event tells of one. *)

fetchServerProviders == listing' = listing \cup {existing'}
Open ==
  /\ ~open /\ open' = TRUE /\ UNCHANGED existing /\ fetchServerProviders
  /\ UNCHANGED <<serverProviders, data, lists, lookups, processing, choices, history>>
Close ==
  /\ open /\ ~processing /\ open' = FALSE
  /\ UNCHANGED <<connections, data, lists, lookups, processing, choices, history>>
Connect(c) ==
  /\ c \notin existing /\ existing' = existing \cup {c} /\ fetchServerProviders
  /\ UNCHANGED <<serverProviders, data, lists, lookups, sheet, choices, history>>
Listed(l) ==
  /\ listing' = listing \ {l} /\ serverProviders' = l
  /\ UNCHANGED <<existing, data, lists, lookups, sheet, choices, history>>

-----------------------------------------------------------------------------
(* Choices. *)

Choose == open /\ choices < MaxChoices /\ choices' = choices + 1
StaleFields == IF connection = Custom THEN {} ELSE FieldsOf[provider]
Emptied_RegionKept == plan' = None /\ regions' = {} /\ plans' = {} /\ UNCHANGED region
Emptied == region' = None /\ plan' = None /\ regions' = {} /\ plans' = {}
selectCombinedProvider(c) ==
  /\ Choose /\ c # connection /\ c \in serverProviders \cup {Custom} /\ connection' = c
  /\ Emptied /\ fields' = fields \ StaleFields
  /\ askedRegions' = askedRegions \cup ({c} \ {Custom})
  /\ overtaken' = FALSE /\ replaced' = FALSE /\ UNCHANGED <<connections, askedPlans, sheet>>

\* The plan stays; one of the old list can still be chosen.
selectRegion(r) ==
  /\ Choose /\ connection # Custom /\ r \in regions /\ region' = r
  /\ askedPlans' = askedPlans \cup {<<connection, r>>}
  /\ replaced' = (replaced \/ (r # region /\ (plan # None \/ plans # {})))
  /\ UNCHANGED <<connections, connection, plan, fields, lists, askedRegions, sheet, overtaken>>
selectPlan(p) ==
  /\ open /\ connection # Custom /\ region # None /\ p \in plans /\ p # plan /\ plan' = p
  /\ UNCHANGED <<connections, connection, region, fields, lists, lookups, sheet, choices, history>>
FillField(f) ==
  /\ open /\ connection # Custom /\ f \in FieldsOf[provider] \ fields /\ fields' = fields \cup {f}
  /\ UNCHANGED <<connections, connection, region, plan, lists, lookups, sheet, choices, history>>

-----------------------------------------------------------------------------
(* Answers, in any order; one that fails changes nothing. *)

fetchRegions(c) ==
  /\ askedRegions' = askedRegions \ {c}
  /\ \/ UNCHANGED <<regions, overtaken>>
     \/ regions' = RegionsOf[c] /\ overtaken' = (overtaken \/ c # connection)
  /\ UNCHANGED <<connections, data, plans, askedPlans, sheet, choices, replaced>>
fetchPlans(c, r) ==
  /\ askedPlans' = askedPlans \ {<<c, r>>}
  /\ \/ UNCHANGED <<plans, overtaken>>
     \/ plans' = PlansOf[r] /\ overtaken' = (overtaken \/ c # connection \/ r # region)
  /\ UNCHANGED <<connections, data, regions, askedRegions, sheet, choices, replaced>>

submit ==
  /\ open /\ ~processing /\ processing' = TRUE
  /\ UNCHANGED <<connections, data, lists, lookups, open, choices, history>>
\* Refused: the sheet stays.  Otherwise the page of the server is opened.
Refused ==
  /\ processing /\ processing' = FALSE
  /\ UNCHANGED <<connections, data, lists, lookups, open, choices, history>>

Next ==
  \/ Open \/ Close \/ submit \/ Refused
  \/ \E c \in Connections: Connect(c)
  \/ \E l \in listing: Listed(l)
  \/ \E c \in Connections \cup {Custom}: selectCombinedProvider(c)
  \/ \E r \in Regions: selectRegion(r)
  \/ \E p \in Plans: selectPlan(p)
  \/ \E f \in Fields: FillField(f)
  \/ \E c \in askedRegions: fetchRegions(c)
  \/ \E a \in askedPlans: fetchPlans(a[1], a[2])

Spec == Init /\ [][Next]_vars

-----------------------------------------------------------------------------
(* Properties. *)

\* The region is one of the connection, and the plan one of the region, unless an answer for another
\* choice came last, or another region was chosen when a plan or a list of plans was there already.
ChoicesFit ==
  ~overtaken =>
    /\ region # None => connection # Custom /\ region \in RegionsOf[connection]
    /\ plan # None /\ ~replaced => plan \in PlansOf[region]

\* What can be chosen is never left from another connection.
ListsAreOfConnection ==
  ~overtaken => regions = {} \/ (connection # Custom /\ regions = RegionsOf[connection])

\* The further fields that are sent are those of the provider.
FieldsAreOfProvider == fields \subseteq IF connection = Custom THEN {} ELSE FieldsOf[provider]
=============================================================================
