----------------------------- MODULE DialogHost -----------------------------
(***************************************************************************)
(* The dialogs of the frontend.  A store holds one active dialog and one   *)
(* nested above it, each with the number of its opening; a host renders    *)
(* them; what they submit answers later, when another dialog may be open   *)
(* or the user may be on another page.                                     *)
(***************************************************************************)
EXTENDS Naturals, FiniteSets

CONSTANTS
  Keys,          \* dialogs of the registry
  RouteDialogs,  \* those whose page opens and closes them with the URL
  NoDialog,      \* no dialog is open
  NoElement,     \* nothing has the focus, or no trigger is kept
  MaxOpens,      \* bound: openings, of either layer
  MaxPages       \* bound: pages visited

DialogAssumption ==
  /\ RouteDialogs \subseteq Keys /\ NoDialog \notin Keys
  /\ MaxOpens \in Nat /\ MaxPages \in Nat \ {0}

VARIABLES
  shown,    \* the key each layer shows
  opening,  \* number of the layer's last opening: instanceId and nestedId
  trigger,  \* the element that had the focus when the layer was opened
  focus,    \* the element that has the focus now
  frames,   \* animation frames that will restore a focus
  draft,    \* the opening in which the text typed into a layer was typed
  since,    \* the page a layer was opened on
  visit,    \* the submission under way, at most one
  page      \* number of the page shown

vars == <<shown, opening, trigger, focus, frames, draft, since, visit, page>>

Layers == {"active", "nested"}

\* An element of the page, or of one opening of a dialog.
Element(where, n) == [where |-> where, n |-> n]
Elements == [where: Layers, n: 1..MaxOpens] \cup [where: {"page"}, n: 1..MaxPages]
Numbers == 0..MaxOpens
NoVisit == [layer |-> "active", n |-> 0, landed |-> FALSE]
IsOpen(layer) == shown[layer] # NoDialog

IsConnected(e) ==
  \/ e.where = "page" /\ e.n = page
  \/ e.where \in Layers /\ IsOpen(e.where) /\ opening[e.where] = e.n

TypeOK ==
  /\ shown \in [Layers -> Keys \cup {NoDialog}] /\ opening \in [Layers -> Numbers]
  /\ trigger \in [Layers -> Elements \cup {NoElement}]
  /\ focus \in Elements \cup {NoElement}
  /\ frames \subseteq [layer: Layers, n: Numbers, to: Elements]
  /\ draft \in [Layers -> Numbers] /\ since \in [Layers -> 1..MaxPages]
  /\ visit \in [layer: Layers, n: Numbers, landed: BOOLEAN] /\ page \in 1..MaxPages

Init ==
  /\ shown = [l \in Layers |-> NoDialog] /\ opening = [l \in Layers |-> 0]
  /\ trigger = [l \in Layers |-> NoElement] /\ focus = Element("page", 1)
  /\ frames = {} /\ draft = [l \in Layers |-> 0] /\ since = [l \in Layers |-> 1]
  /\ visit = NoVisit /\ page = 1

\* React keeps the state of a component as long as its key stays the same.
Identity_KeyOnly(layer) == <<shown[layer]>>
Identity(layer) == <<shown[layer], opening[layer]>>

\* What the host renders after the store changed.
Render ==
  draft' = [l \in Layers |-> IF Identity(l)' = Identity(l) THEN draft[l] ELSE 0]

\* A frame that restores the focus, when an element was remembered.
Restore(layer, e) ==
  IF e = NoElement THEN {} ELSE {[layer |-> layer, n |-> opening[layer], to |-> e]}

-----------------------------------------------------------------------------
(* The store. *)

\* open(): a new active dialog; nothing stays nested.  The dialog takes the focus.
Open(key) ==
  /\ opening["active"] < MaxOpens
  /\ trigger' = [active |-> focus, nested |-> NoElement]
  /\ shown' = [active |-> key, nested |-> NoDialog]
  /\ opening' = [opening EXCEPT !["active"] = @ + 1]
  /\ since' = [since EXCEPT !["active"] = page]
  /\ focus' = Element("active", opening["active"] + 1)
  /\ Render /\ UNCHANGED <<frames, visit, page>>

\* openNested(): above the active dialog, or above a dialog of the page itself.
OpenNested(key) ==
  /\ opening["nested"] < MaxOpens
  /\ trigger' = [trigger EXCEPT !["nested"] = focus]
  /\ shown' = [shown EXCEPT !["nested"] = key]
  /\ opening' = [opening EXCEPT !["nested"] = @ + 1]
  /\ since' = [since EXCEPT !["nested"] = page]
  /\ focus' = Element("nested", opening["nested"] + 1)
  /\ Render /\ UNCHANGED <<frames, visit, page>>

\* close() and closeNested(); closing the active dialog closes the nested one.
Closing(layer) == IF layer = "active" THEN Layers ELSE {"nested"}
LosesFocus(layers) == focus # NoElement /\ focus.where \in layers
Close(layer) ==
  /\ trigger' = [l \in Layers |-> IF l \in Closing(layer) THEN NoElement ELSE trigger[l]]
  /\ shown' = [l \in Layers |-> IF l \in Closing(layer) THEN NoDialog ELSE shown[l]]
  /\ frames' = frames \cup Restore(layer, trigger[layer])
  /\ focus' = IF LosesFocus(Closing(layer)) THEN NoElement ELSE focus
  /\ UNCHANGED <<opening, since>> /\ Render

\* restoreFocus(): the frame does nothing when the layer was opened again
\* or the element is gone.
IsCurrent(f) == opening[f.layer] = f.n
Frame(f) ==
  /\ frames' = frames \ {f}
  /\ focus' = IF IsCurrent(f) /\ IsConnected(f.to) THEN f.to ELSE focus
  /\ UNCHANGED <<shown, opening, trigger, draft, since, visit, page>>

-----------------------------------------------------------------------------
(* The host, its dialogs and the router. *)

\* onClose(id): only the opening that asks is closed.
IsItsOwn_Any(layer, n) == n \in Numbers
IsItsOwn(layer, n) == opening[layer] = n
OnClose(layer, n) ==
  IF IsItsOwn(layer, n) THEN Close(layer)
  ELSE UNCHANGED <<shown, opening, trigger, focus, frames, draft, since>>

\* The user cancels the topmost dialog.
OnTop(layer) == IsOpen(layer) /\ (layer = "active" => ~IsOpen("nested"))
Dismiss(layer) ==
  OnTop(layer) /\ OnClose(layer, opening[layer]) /\ UNCHANGED <<visit, page>>

Type(layer) ==
  /\ OnTop(layer) /\ draft' = [draft EXCEPT ![layer] = opening[layer]]
  /\ focus' = Element(layer, opening[layer])
  /\ UNCHANGED <<shown, opening, trigger, frames, since, visit, page>>

\* A dialog submits its form; the visit under way is interrupted.
Submit(layer) ==
  /\ OnTop(layer) /\ visit' = [layer |-> layer, n |-> opening[layer], landed |-> FALSE]
  /\ UNCHANGED <<shown, opening, trigger, focus, frames, draft, since, page>>

\* The answer shows another page and 'navigate' is fired: what belongs to the
\* page that was left is closed.  A dialog that follows the URL is left to its page.
StaysOpen == IsOpen("active") /\ shown["active"] \in RouteDialogs
Navigate ==
  /\ page < MaxPages /\ page' = page + 1
  /\ IF StaysOpen THEN UNCHANGED <<shown, opening, trigger, focus, frames, draft, since>>
     ELSE Close("active")

\* The user follows a link: no submission is under way any more.
Follow == Navigate /\ visit' = NoVisit

\* The answer arrives; effects of the new page run before onSuccess does.
Land ==
  /\ visit # NoVisit /\ ~visit.landed /\ visit' = [visit EXCEPT !.landed = TRUE]
  /\ \/ Navigate
     \/ UNCHANGED <<shown, opening, trigger, focus, frames, draft, since, page>>

\* onSuccess calls onOpenChange(false) of the dialog that submitted.
Succeed ==
  /\ visit.landed /\ OnClose(visit.layer, visit.n)
  /\ visit' = NoVisit /\ UNCHANGED page

\* The answer is an error, shown in the dialog if that still exists.
Refuse ==
  /\ visit # NoVisit /\ ~visit.landed /\ visit' = NoVisit
  /\ UNCHANGED <<shown, opening, trigger, focus, frames, draft, since, page>>

\* The page of a route dialog closes it when its URL no longer asks for it.
PageCloses ==
  /\ IsOpen("active") /\ shown["active"] \in RouteDialogs
  /\ Close("active") /\ UNCHANGED <<visit, page>>

Next ==
  \/ \E key \in Keys: Open(key)
  \/ \E key \in Keys \ RouteDialogs: OpenNested(key)
  \/ \E layer \in Layers: Dismiss(layer)
  \/ \E layer \in Layers: Type(layer)
  \/ \E layer \in Layers: Submit(layer)
  \/ Follow \/ Land \/ Succeed \/ Refuse \/ PageCloses
  \/ \E f \in frames: Frame(f)

Spec == Init /\ [][Next]_vars

-----------------------------------------------------------------------------
(* Properties. *)

\* An answer closes the dialog that asked for it and what is nested in it,
\* never a dialog opened since (dialog-host.tsx compares the opening numbers).
LateAnswerIsHarmless ==
  \A l \in Layers:
    (visit.landed /\ ~visit'.landed /\ page' = page) /\ (IsOpen(l) /\ ~IsOpen(l)') =>
       \E m \in {l, "active"}: visit.layer = m /\ visit.n = opening[m]

\* What a dialog shows was typed into this opening of it: the form that was
\* typed and abandoned never comes back under another subject.
DraftsAreFresh ==
  \A l \in Layers: draft[l] # 0 => IsOpen(l) /\ draft[l] = opening[l]

\* Restoring a focus never takes it out of a dialog that was opened by open()
\* after the one that closed.
FocusStaysInNewDialog ==
  \A f \in frames \ frames':
    f.layer = "active" /\ IsOpen("active") => focus' = focus

\* A dialog of a page that was left is not on the screen, unless it follows
\* the URL or is nested in one that does.
DialogsBelongToThePage ==
  \A l \in Layers: IsOpen(l) => since[l] = page \/ shown["active"] \in RouteDialogs
=============================================================================
