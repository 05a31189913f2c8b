------------------------------- MODULE Forms --------------------------------
(***************************************************************************)
(* A form of the frontend from its first values to the answer of the       *)
(* server: typing, opening and closing, submissions and what answers them, *)
(* records that change elsewhere.  The record of FormKinds that describes  *)
(* the form is chosen in the initial state.                                *)
(***************************************************************************)
EXTENDS FormKinds, Naturals, Sequences, FiniteSets

CONSTANTS
  Catalogue,   \* the forms: records of FormKinds
  MaxOpenings, \* bound: times the dialog opens
  MaxTypings,  \* bound: changes typed
  MaxSends,    \* bound: submissions
  MaxVersions  \* bound: versions of the record

\* What the forms of the catalogues have in common.  A hosted dialog closes on success;
\* neither it nor a form that loads its first values, follows the record or freezes is
\* reset otherwise, and Enter reloads the page of none of them.
Steady(f) == "finish" \notin f.done /\ f.turn = "keeps" /\ f.enter \notin {"native", "reloads"}
Regular(f) ==
  /\ f.host = "hosted" => Steady(f) /\ "close" \in f.done
  /\ f.seed = "query" => Steady(f) /\ "reset" \notin f.done /\ f.host # "page" /\ f.enter # "free" /\ ~f.frozen
  /\ f.seed = "synced" => Steady(f) /\ f.host = "page"
  /\ f.frozen => Steady(f)

FormsAssumption ==
  /\ Catalogue \subseteq {f \in Kinds: Regular(f)} /\ MaxOpenings # 0
  /\ {MaxOpenings, MaxTypings, MaxSends, MaxVersions} \subseteq Nat

VARIABLES
  form,            \* the form; never changes
  item, shown,     \* version of the record on the server, and in the props of the page
  opening, open,   \* number of the opening, and whether the form is visible
  data, defaults,  \* values of the form: version they come from, last change typed
  typed,           \* number of changes typed
  processing,      \* form.processing of the instance on the page
  sends, awaited,  \* submissions, and the one whose answer the page awaits, or 0
  query, cache,    \* the request for first values: its phase, and version of its last answer
  asker,           \* instance whose form a request under way will fill, or 0
  lost, warm       \* history: an answer was not seen; a query was not new when the form opened

values == <<data, defaults>>
fetch == <<query, cache, asker>>
bounds == <<lost, warm>>
vars == <<form, item, shown, opening, open, values, typed, processing, sends, awaited, fetch, bounds>>

Unloaded == MaxVersions + 1
Values == [from: 0..Unloaded, last: 0..MaxTypings]
Send == [inst: 0..MaxOpenings, from: 0..Unloaded, last: 0..MaxTypings,
         state: {"sent", "done", "refused"}]

\* The instance on the page: a hosted dialog has a new one each time it opens.
Remounts == form.host = "hosted"
Instance == IF Remounts THEN opening ELSE 1
Alive(inst) == Remounts => open /\ inst = opening

TypeOK ==
  /\ form \in Kinds /\ item \in 0..MaxVersions /\ shown \in 0..MaxVersions
  /\ opening \in 0..MaxOpenings /\ open \in BOOLEAN
  /\ data \in Values /\ defaults \in Values /\ typed \in 0..MaxTypings
  /\ processing \in BOOLEAN /\ sends \in Seq(Send) /\ awaited \in 0..MaxSends
  /\ query \in {"new", "asking", "again", "ok", "failed"} /\ cache \in 0..Unloaded
  /\ asker \in 0..MaxOpenings /\ (processing /\ Alive(Instance) => awaited # 0) /\ lost \in BOOLEAN /\ warm \in BOOLEAN

\* A form that creates and edits behaves as one or the other; a choice is missing
\* only in some uses of a form that edits.
Modes(f) ==
  LET seeds == IF f.seed = "either" THEN {"blank", "item"} ELSE {f.seed}
      locks(seed) == IF seed = "blank" THEN {f.lock} ELSE {f.lock, f.lock \ {"incomplete"}}
      effect(seed) == IF f.seed = "either" /\ seed = "item" THEN "saves" ELSE f.effect
  IN UNION {{[f EXCEPT !.seed = seed, !.lock = lock, !.effect = effect(seed)]:
               lock \in locks(seed)}: seed \in seeds}

Edits == form.effect = "saves"
Queried == form.seed = "query"

\* useForm's first values, from the props the page has.
Blank == [from |-> 0, last |-> 0]
Fresh(v) ==
  CASE Queried -> [from |-> Unloaded, last |-> 0]
    [] form.seed \in {"item", "synced"} -> [from |-> v, last |-> 0]
    [] OTHER -> Blank

Init ==
  /\ form \in UNION {Modes(f): f \in Catalogue}
  /\ item = 0 /\ shown = 0 /\ open = (form.host = "page") /\ opening = IF open THEN 1 ELSE 0
  /\ data = Fresh(0) /\ defaults = Fresh(0) /\ typed = 0 /\ processing = FALSE
  /\ sends = <<>> /\ awaited = 0 /\ cache = Unloaded
  /\ query = (IF Queried /\ open THEN "asking" ELSE "new") /\ asker = IF Queried /\ open THEN 1 ELSE 0
  /\ lost = FALSE /\ warm = FALSE

\* The effect that follows the props runs when they change and when the form gets
\* clean: d are the values after a step, e the defaults, v the version shown.
Follows(d, e, v) == (d = e)
Becomes(d, e, v) ==
  IF form.seed = "synced" /\ Follows(d, e, v)
  THEN data' = Fresh(v) /\ defaults' = Fresh(v) ELSE data' = d /\ defaults' = e

-----------------------------------------------------------------------------
(* Opening, typing and closing. *)

\* A mounted query asks again, unless a request is under way; one that failed
\* before anything was loaded starts over.
Ask(inst) ==
  IF ~Queried THEN UNCHANGED fetch
  ELSE /\ query' = (CASE query \in {"asking", "again"} -> query
                      [] cache = Unloaded -> "asking" [] OTHER -> "again")
       /\ asker' = (IF query \in {"asking", "again"} THEN asker ELSE inst) /\ UNCHANGED cache

Open ==
  /\ ~open /\ opening < MaxOpenings /\ open' = TRUE /\ opening' = opening + 1
  /\ IF Remounts THEN data' = Fresh(shown) /\ defaults' = Fresh(shown) /\ processing' = FALSE
     ELSE /\ data' = CASE form.turn = "rereads" -> Fresh(shown)
                       [] form.turn = "resetsOnOpen" -> defaults [] OTHER -> data
          /\ UNCHANGED <<defaults, processing>>
  /\ warm' = (warm \/ (Queried /\ query # "new")) /\ Ask(IF Remounts THEN opening + 1 ELSE 1)
  /\ UNCHANGED <<form, item, shown, typed, sends, awaited, lost>>

\* Escape, Cancel, or a click outside; a submission goes on.
Close ==
  /\ open /\ form.host # "page" /\ open' = FALSE
  /\ data' = (IF form.turn = "resetsOnClose" THEN defaults ELSE data)
  /\ UNCHANGED <<form, item, shown, opening, defaults, typed, processing, sends, awaited, fetch, bounds>>

\* Fields of a query are rendered once it succeeded.
Loaded == cache # Unloaded /\ query \in {"ok", "again"}
Frozen == form.frozen /\ processing
Rendered == Queried => Loaded
Type ==
  /\ open /\ form.seed # "plain" /\ ~Frozen /\ Rendered /\ typed < MaxTypings
  /\ typed' = typed + 1 /\ data' = [data EXCEPT !.last = typed']
  /\ UNCHANGED <<form, item, shown, opening, open, defaults, processing, sends, awaited, fetch, bounds>>

\* Discard, or Cancel on a page.
Discard ==
  /\ form.host = "page" /\ ~Frozen /\ data # defaults /\ Becomes(defaults, defaults, shown)
  /\ UNCHANGED <<form, item, shown, opening, open, typed, processing, sends, awaited, fetch, bounds>>

-----------------------------------------------------------------------------
(* Submitting. *)

Holds(lock) ==
  CASE lock = "processing" -> processing
    [] lock = "fetching" -> query = "asking"
    [] lock = "unfetched" -> ~Loaded
    [] lock = "clean" -> data = defaults
    [] lock = "incomplete" -> data.last = 0
Locked == \E lock \in form.lock: Holds(lock)

\* A visit that starts interrupts the one that is awaited.
Sent == Append(sends, [inst |-> Instance, from |-> data.from, last |-> data.last, state |-> "sent"])
Press ==
  /\ open /\ ~Locked /\ Len(sends) < MaxSends /\ sends' = Sent
  /\ awaited' = Len(sends') /\ processing' = TRUE
  /\ UNCHANGED <<form, item, shown, opening, open, values, typed, fetch, bounds>>

\* Enter in the only text field of a form whose button is not its submit button.
Enter ==
  /\ open /\ form.enter = "free" /\ ~Frozen /\ Len(sends) < MaxSends /\ sends' = Sent
  /\ awaited' = Len(sends') /\ processing' = TRUE
  /\ UNCHANGED <<form, item, shown, opening, open, values, typed, fetch, bounds>>

\* The browser submits too: the page loads anew, and nobody awaits the answer.
EnterReloads ==
  /\ open /\ form.enter \in {"native", "reloads"} /\ Len(sends) < MaxSends
  /\ sends' = (IF form.enter = "native" THEN Sent ELSE sends)
  /\ awaited' = 0 /\ processing' = FALSE /\ open' = FALSE /\ lost' = TRUE
  /\ shown' = item /\ data' = Fresh(item) /\ defaults' = Fresh(item)
  /\ UNCHANGED <<form, item, opening, typed, fetch, warm>>

Served(i, state) == sends' = [sends EXCEPT ![i].state = state]
Accept(i) ==
  /\ sends[i].state = "sent" /\ Served(i, "done")
  /\ form.effect = "removes" => \A j \in 1..Len(sends): sends[j].state # "done"
  /\ IF Edits THEN item < MaxVersions /\ item' = item + 1 ELSE UNCHANGED item
  /\ UNCHANGED <<form, shown, opening, open, values, typed, processing, awaited, fetch, bounds>>
Refuse(i) ==
  /\ sends[i].state = "sent" /\ Served(i, "refused")
  /\ UNCHANGED <<form, item, shown, opening, open, values, typed, processing, awaited, fetch, bounds>>

\* onSuccess: the page has new props; what was submitted becomes the defaults; the
\* handler closes or resets.
Saved(d) == IF Edits THEN [from |-> item, last |-> 0] ELSE d
Closes(inst) == "close" \in form.done /\ Alive(inst)
Cleared_Not(d) == Saved(d)
Cleared(d) == IF form.done \cap {"reset", "finish"} # {} THEN defaults ELSE Saved(d)
Succeed ==
  /\ awaited # 0 /\ sends[awaited].state = "done" /\ awaited' = 0 /\ shown' = item
  /\ open' = (open /\ ~Closes(sends[awaited].inst))
  /\ IF Alive(sends[awaited].inst)
     THEN Becomes(Cleared(data), Cleared(data), item) /\ processing' = FALSE
     ELSE UNCHANGED <<values, processing>>
  /\ UNCHANGED <<form, item, opening, typed, sends, fetch, bounds>>

\* onFinish.
Busy == processing /\ ~Alive(sends[awaited].inst)
Fail ==
  /\ awaited # 0 /\ sends[awaited].state = "refused" /\ awaited' = 0
  /\ processing' = Busy
  /\ data' = (IF "finish" \in form.done THEN defaults ELSE data)
  /\ UNCHANGED <<form, item, shown, opening, open, defaults, typed, sends, fetch, bounds>>

\* Another visit interrupts, or the answer is an error page.
Lose ==
  /\ awaited # 0 /\ awaited' = 0 /\ lost' = TRUE
  /\ processing' = Busy
  /\ data' = (IF "finish" \in form.done THEN defaults ELSE data)
  /\ UNCHANGED <<form, item, shown, opening, open, defaults, typed, sends, fetch, warm>>

-----------------------------------------------------------------------------
(* The record, the props and the request for first values. *)

SomebodySaves ==
  /\ Edits /\ item < MaxVersions /\ item' = item + 1
  /\ UNCHANGED <<form, shown, opening, open, values, typed, processing, sends, awaited, fetch, bounds>>

\* The page reloads its props: a poll, an event, another visit.
Refresh ==
  /\ shown # item /\ shown' = item /\ Becomes(data, defaults, item)
  /\ UNCHANGED <<form, item, opening, open, typed, processing, sends, awaited, fetch, bounds>>

\* queryFn fills the form of the instance that asked.
Answered ==
  /\ query \in {"asking", "again"} /\ query' = "ok" /\ cache' = item /\ asker' = 0
  /\ data' = (IF Alive(asker) THEN [data EXCEPT !.from = item, !.last = 0] ELSE data)
  /\ UNCHANGED <<form, item, shown, opening, open, defaults, typed, processing, sends, awaited, bounds>>
\* The button of the dialogs that wait for their request.
Retry ==
  /\ open /\ "unfetched" \in form.lock /\ query = "failed" /\ Ask(Instance)
  /\ UNCHANGED <<form, item, shown, opening, open, values, typed, processing, sends, awaited, bounds>>
Unanswered ==
  /\ query \in {"asking", "again"} /\ query' = "failed" /\ asker' = 0
  /\ UNCHANGED <<form, item, shown, opening, open, values, typed, processing, sends, awaited, cache, bounds>>

Next ==
  \/ Open \/ Close \/ Type \/ Discard \/ Press \/ Enter \/ EnterReloads
  \/ Succeed \/ Fail \/ Lose \/ SomebodySaves \/ Refresh \/ Answered \/ Unanswered \/ Retry
  \/ \E i \in 1..Len(sends): Accept(i) \/ Refuse(i)

Spec == Init /\ [][Next]_vars

-----------------------------------------------------------------------------
(* Properties. *)

Careful == "processing" \in form.lock /\ form.enter \in {"off", "locked"} /\ ~lost

\* The server never holds two unanswered submissions of one form: the second could
\* overtake the first.  Enter in a form with a free button can break this.
Pending(i) == i = awaited \/ sends[i].state = "sent"
OneAtATime ==
  Careful => \A i, j \in 1..Len(sends):
    i # j /\ Pending(i) /\ Pending(j) => sends[i].inst # sends[j].inst

\* What was typed to add or start something does so once, in a form that is mounted
\* anew or reset after a success.
CreatedOnce ==
  Careful /\ form.effect \in {"adds", "runs"} /\ (form.host = "hosted" \/ "reset" \in form.done) =>
    \A i, j \in 1..Len(sends):
      i # j /\ sends[i].state = "done" /\ sends[j].state = "done" /\ sends[i].last # 0
        => sends[i].last # sends[j].last

\* An answer that comes after the dialog was closed and opened again leaves the new
\* opening alone, in dialogs that are mounted anew.
LateAnswerIsHarmless ==
  form.host = "hosted" /\ awaited # 0 /\ awaited' = 0 /\ sends' = sends /\ sends[awaited].inst # opening
    => open' = open /\ values' = values /\ processing' = processing

\* What is shown when a form opens was typed in no earlier opening, and is what the
\* page shows of the record, in forms that start over.
OpensFresh ==
  ~open /\ open' /\ (form.host = "hosted" \/ form.turn = "rereads")
    => data'.last = 0 /\ (form.seed = "item" => data'.from = shown)

\* Nothing is saved over a record that was not loaded, in a form that waits for its
\* request, unless a request or answer of an earlier opening was reused.
LoadedBeforeSaved ==
  Queried /\ "unfetched" \in form.lock /\ ~warm => \A i \in 1..Len(sends): sends[i].from # Unloaded

\* A clean form shows the record as the page shows it, also when the change came
\* while the form was dirty.
CleanFormsFollow == form.seed = "synced" /\ data = defaults => data.from = shown

\* An answer takes away no change that it does not answer, in a form that freezes
\* its fields.
TypingSurvives ==
  form.frozen /\ awaited # 0 /\ awaited' = 0 /\ sends' = sends /\ data'.last # data.last
    => data.last = sends[awaited].last

\* The answer of the request for first values overwrites nothing that was typed,
\* unless a request or answer of an earlier opening was reused.
NothingTypedIsOverwritten ==
  ~warm /\ query \in {"asking", "again"} /\ query' = "ok" => data.last = 0
=============================================================================
