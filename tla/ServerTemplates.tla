--------------------------- MODULE ServerTemplates ---------------------------
(***************************************************************************)
(* The services of the form that creates a server, and the templates they  *)
(* are saved to and taken from.  The selected template follows the         *)
(* services; the form of the Save dialog follows the selected template.    *)
(***************************************************************************)
EXTENDS Naturals, FiniteSets

CONSTANTS
  None,        \* null
  Names,       \* names of templates
  Services,    \* services that can be selected
  Defaults,    \* those of an untouched server form
  Initial,     \* the templates that are stored at first
  MaxRequests  \* bound: requests that save or delete

Ids == 1..(MaxRequests + Cardinality(Initial))
Template == [id: Ids \cup {0}, name: Names, services: SUBSET Services]

ServerTemplatesAssumption ==
  /\ Defaults \subseteq Services /\ MaxRequests \in Nat
  /\ None \notin Names \cup {"save", "delete"} /\ None \notin Ids \cup {0} \cup Template
  /\ IsFiniteSet(Initial) /\ Initial \subseteq Template /\ \A t, u \in Initial: t.id # 0 /\ (t.id = u.id => t = u)

VARIABLES
  open, services,      \* the sheet, and form.data.services as a set
  value, query,        \* the selected template, and the templates that are listed
  fetching,
  dialog, form,        \* the dialog that is open, and the form of the Save dialog
  request, here,       \* the visit under way, and whether the sheet is still the one it started in
  templates, requests, \* the server's, by their id; bound
  unsure               \* history: since one was selected, a template was saved as a new one or a visit
                       \* was interrupted, or the one that was selected had been changed

Form == [id: Ids \cup {0, None}, name: Names \cup {None}, services: SUBSET Services, new: BOOLEAN]
listing == <<query, fetching>>
visit == <<request, here>>
stored == <<templates, requests>>
vars == <<open, services, value, listing, dialog, form, visit, stored, unsure>>

TypeOK ==
  /\ {open, fetching, here, unsure} \subseteq BOOLEAN /\ services \subseteq Services
  /\ value \in Template \cup {None} /\ query \subseteq Template /\ templates \subseteq Template
  /\ dialog \in {None, "save", "delete"} /\ (dialog = "delete" => value # None) /\ form \in Form
  /\ request \in {None} \cup [kind: {"save"}, form: Form] \cup [kind: {"delete"}, form: Template]
  /\ requests \in 0..MaxRequests
  /\ \A t, u \in templates: t.id = u.id => t = u

\* The form of the Save dialog for a template, or for none.
formOf(t, selected) ==
  IF t = None THEN [id |-> None, name |-> None, services |-> selected, new |-> TRUE]
  ELSE [id |-> t.id, name |-> t.name, services |-> selected, new |-> FALSE]

Init ==
  /\ open = FALSE /\ services = Defaults /\ value = None /\ query = {} /\ fetching = FALSE
  /\ dialog = None /\ form = formOf(None, Defaults) /\ request = None /\ here = FALSE
  /\ templates = Initial /\ requests = 0 /\ unsure = FALSE

\* The list and the Save dialog are mounted with the sheet.
Open ==
  /\ ~open /\ open' = TRUE /\ fetching' = TRUE /\ form' = formOf(None, services)
  /\ UNCHANGED <<services, value, query, dialog, visit, stored, unsure>>
Close ==
  /\ open /\ dialog = None /\ open' = FALSE /\ value' = None /\ here' = FALSE
  /\ UNCHANGED <<services, listing, dialog, form, request, stored, unsure>>
Fetched ==
  /\ fetching /\ fetching' = FALSE /\ query' = templates
  /\ UNCHANGED <<open, services, value, dialog, form, visit, stored, unsure>>

\* The effect on the services: a selected template takes them over, and the form follows it.
Follows_Never == FALSE
Follows == value # None
Changed(s) ==
  /\ services' = s
  /\ IF Follows THEN value' = [value EXCEPT !.services = s] /\ form' = formOf(value, s)
     ELSE UNCHANGED <<value, form>>

\* add-service and remove-service on the event bus.
handleAddService(s) ==
  /\ open /\ dialog = None /\ s \notin services /\ Changed(services \cup {s})
  /\ UNCHANGED <<open, listing, dialog, visit, stored, unsure>>
handleRemoveService(s) ==
  /\ open /\ dialog = None /\ s \in services /\ Changed(services \ {s})
  /\ UNCHANGED <<open, listing, dialog, visit, stored, unsure>>

\* The selected template and the services of the server form change together.
Choose(t) ==
  LET s == IF t = None THEN {} ELSE t.services
  IN value' = t /\ services' = s /\ form' = formOf(t, s)
Select(t) ==
  /\ open /\ dialog = None /\ t \in query /\ Choose(t)
  /\ unsure' = (t \notin templates \/ request # None)
  /\ UNCHANGED <<open, listing, dialog, visit, stored>>

OpenDialog(d) ==
  /\ open /\ dialog = None /\ (d = "delete" => value # None) /\ dialog' = d
  /\ UNCHANGED <<open, services, value, listing, form, visit, stored, unsure>>
CloseDialog ==
  /\ dialog # None /\ dialog' = None
  /\ UNCHANGED <<open, services, value, listing, form, visit, stored, unsure>>
Fill(n, new) ==
  /\ dialog = "save" /\ form' = [form EXCEPT !.name = n, !.new = new]
  /\ UNCHANGED <<open, services, value, listing, dialog, visit, stored, unsure>>

-----------------------------------------------------------------------------
(* Requests: one visit at a time; a new one interrupts the one before, which *)
(* the server may have served.                                             *)

Free == CHOOSE i \in Ids: \A t \in templates: t.id # i
Creates(r) == r.kind = "save" /\ r.form.new
\* templates after request r, or None when it is refused
After(r) ==
  IF Creates(r)
  THEN templates \cup {[id |-> Free, name |-> r.form.name, services |-> r.form.services]}
  ELSE {t \in templates: t.id # r.form.id} \cup
         IF r.kind = "delete" THEN {}
         ELSE {[id |-> r.form.id, name |-> r.form.name, services |-> r.form.services]}
Accepted(r) ==
  IF Creates(r) THEN r.form.name # None
  ELSE r.form.name # None /\ \E t \in templates: t.id = r.form.id

Start(r) ==
  /\ requests < MaxRequests /\ requests' = requests + 1 /\ request' = r /\ here' = TRUE
  /\ \/ UNCHANGED templates
     \/ request # None /\ Accepted(request) /\ templates' = After(request)
  /\ unsure' = (unsure \/ request # None)
  /\ UNCHANGED <<open, services, value, listing, dialog, form>>
save ==
  /\ dialog = "save" /\ ~(request # None /\ request.kind = "save") /\ (form.new \/ form.id # None)
  /\ Start([kind |-> "save", form |-> form])
delete ==
  /\ dialog = "delete" /\ ~(request # None /\ request.kind = "delete")
  /\ Start([kind |-> "delete", form |-> value])

\* changesSaved and templateDeleted: the template as it was sent, with the id that was in the form,
\* or none, whatever is selected now.  A sheet that was left only changes the server form.
Sent(r) == [id |-> IF r.form.id = None THEN 0 ELSE r.form.id, name |-> r.form.name, services |-> r.form.services]
Outcome(r) == IF r.kind = "save" THEN Sent(r) ELSE None
\* The dialog of the request is closed; that of a template that is gone is unmounted.
Closing(t) == IF here /\ (dialog = request.kind \/ (dialog = "delete" /\ t = None)) THEN None ELSE dialog
Success ==
  LET t == Outcome(request)
  IN /\ request # None /\ Accepted(request) /\ templates' = After(request) /\ request' = None
     /\ IF here THEN Choose(t) ELSE Changed(IF t = None THEN {} ELSE t.services)
     /\ dialog' = Closing(t)
     /\ fetching' = TRUE /\ here' = FALSE
     /\ unsure' = (unsure \/ Creates(request))
     /\ UNCHANGED <<open, query, requests>>
Failure ==
  /\ request # None /\ request' = None /\ here' = FALSE
  /\ UNCHANGED <<open, services, value, listing, dialog, form, stored, unsure>>

Next ==
  \/ Open \/ Close \/ Fetched \/ CloseDialog \/ save \/ delete \/ Success \/ Failure
  \/ \E s \in Services: handleAddService(s) \/ handleRemoveService(s)
  \/ \E t \in query: Select(t)
  \/ \E d \in {"save", "delete"}: OpenDialog(d)
  \/ \E n \in Names, new \in BOOLEAN: Fill(n, new)

Spec == Init /\ [][Next]_vars

-----------------------------------------------------------------------------
(* Properties. *)

\* A save with a selected template sends the services that are selected in the server form.  (Without
\* one it sends those of the moment the sheet opened.)
UpdatesWithSelectedServices ==
  request' # None /\ request' # request /\ request'.kind = "save" /\ value # None
    => request'.form.services = services

\* What Save updates and Delete deletes is the template whose name is shown as selected.  It is not
\* after a template was saved as a new one: the id is that of the selection before, or 0.
SelectedIsStored ==
  value # None => \E t \in templates: t.id = value.id /\ t.name = value.name

\* It is when a template was selected that is stored, and none was saved as a new one and no visit
\* was interrupted or still under way.
SelectedStaysStored == ~unsure => SelectedIsStored
=============================================================================
