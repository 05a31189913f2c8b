------------------------------ MODULE LiveList ------------------------------
(***************************************************************************)
(* Three ways a page stays in step with the server: a list that applies    *)
(* the events of the socket (useRealtime), a record that does              *)
(* (useRealtimeRecord), and a table that is fetched again after events     *)
(* (VitoTable).  Events come over the socket, in order; answers of visits  *)
(* and reloads come over HTTP, in any order, and replace all three.        *)
(***************************************************************************)
EXTENDS Naturals, Sequences, SequencesExt

CONSTANTS
  Ids,         \* resources of the project
  Foreign,     \* those outside the list's scope: of another server, say
  Tracked,     \* the resource the page's record follows; it is not deleted
  MaxChanges,  \* bound: changes on the server
  MaxVisits,   \* bound: answers the user asks for
  MaxLost      \* bound: events lost while the socket reconnects

LiveAssumption ==
  /\ IsFiniteSet(Ids) /\ Foreign \subseteq Ids /\ Tracked \in Ids \ Foreign
  /\ {MaxChanges, MaxVisits, MaxLost} \subseteq Nat

VARIABLES
  row,      \* server: version of each resource, 0 while it does not exist
  born,     \* server: resources that were created
  clock,    \* server: number of changes so far
  queue,    \* events on their way
  asked,    \* requests the server has not looked at
  answers,  \* answers on their way: what the server had, and when
  props,    \* the answer the page shows: the table
  list,     \* rows of the list, newest first
  record,   \* version of the record
  timer,    \* the table will be fetched when no event came for a while
  visits, lost,
  heard,    \* history: the time of the last event applied
  stale,    \* history: an answer older than an event applied before it was shown
  swapped,  \* history: an answer older than the one before it was shown
  doubled   \* history: an event told of a row that an answer had brought already

remote == <<row, born, clock>>
history == <<heard, stale, swapped, doubled>>
vars == <<remote, queue, asked, answers, props, list, record, timer, visits, lost, history>>

Own == Ids \ Foreign
Versions == 0..MaxChanges + 1
Snapshot == [rows |-> row, at |-> clock]
Snapshots == [rows: [Ids -> Versions], at: 0..MaxChanges]
Row(id, v) == [id |-> id, v |-> v]

\* The rows of an answer, as the server selects them for the list.
Page(answer) ==
  SetToSeq({Row(id, answer.rows[id]): id \in {i \in Own: answer.rows[i] > 0}})

TypeOK ==
  /\ row \in [Ids -> Versions] /\ born \subseteq Ids /\ clock \in 0..MaxChanges
  /\ queue \in Seq([type: {"created", "updated", "deleted"}, row: [id: Ids, v: Versions], at: 1..MaxChanges])
  /\ asked \in 0..MaxVisits + MaxChanges /\ answers \subseteq Snapshots
  /\ props \in Snapshots /\ list \in Seq([id: Ids, v: Versions \ {0}]) /\ record \in Versions
  /\ timer \in BOOLEAN /\ visits \in 0..MaxVisits /\ lost \in 0..MaxLost
  /\ heard \in 0..MaxChanges /\ stale \in BOOLEAN /\ swapped \in BOOLEAN
  /\ doubled \in BOOLEAN

Init ==
  /\ row = [id \in Ids |-> IF id = Tracked THEN 1 ELSE 0] /\ born = {Tracked} /\ clock = 0
  /\ queue = <<>> /\ asked = 0 /\ answers = {} /\ props = Snapshot
  /\ list = Page(Snapshot) /\ record = 1 /\ timer = FALSE /\ visits = 0 /\ lost = 0
  /\ heard = 0 /\ stale = FALSE /\ swapped = FALSE /\ doubled = FALSE

-----------------------------------------------------------------------------
(* The server: a change is stored, then broadcast to the whole project. *)

Change(type, id, v) ==
  /\ clock < MaxChanges /\ clock' = clock + 1 /\ row' = [row EXCEPT ![id] = v]
  /\ queue' = Append(queue, [type |-> type, row |-> Row(id, IF v = 0 THEN row[id] ELSE v), at |-> clock + 1])
  /\ UNCHANGED <<asked, answers, props, list, record, timer, visits, lost, history>>

Create(id) == id \notin born /\ Change("created", id, 1) /\ born' = born \cup {id}
Update(id) == row[id] > 0 /\ Change("updated", id, row[id] + 1) /\ UNCHANGED born
Delete(id) == row[id] > 0 /\ id # Tracked /\ Change("deleted", id, 0) /\ UNCHANGED born

\* A request is answered from what the server has at that moment.
Serve ==
  /\ asked > 0 /\ asked' = asked - 1 /\ answers' = answers \cup {Snapshot}
  /\ UNCHANGED <<remote, queue, props, list, record, timer, visits, lost, history>>

-----------------------------------------------------------------------------
(* The page. *)

\* What is left of the list without a resource, in the order it had: its places and
\* the n-th of them.
Kept(id) == {i \in DOMAIN list: list[i].id # id}
Nth(n, places) == CHOOSE i \in places: Cardinality({j \in places: j <= i}) = n
Without(id) == [n \in 1..Cardinality(Kept(id)) |-> list[Nth(n, Kept(id))]]

\* A created row must match the scope of the list.
InScope(r) == r.id \in Own
Listed(id) == \E i \in DOMAIN list: list[i].id = id

Applied(e) ==
  CASE e.type = "created" -> IF InScope(e.row) THEN <<e.row>> \o list ELSE list
    [] e.type = "updated" -> [i \in DOMAIN list |-> IF list[i].id = e.row.id THEN e.row ELSE list[i]]
    [] e.type = "deleted" -> Without(e.row.id)

\* The record takes the data of an event about itself.
Recorded(e) == IF e.type = "updated" /\ e.row.id = Tracked THEN e.row.v ELSE record

\* Every event of the table's kind starts its timer again.
Arms == TRUE

Deliver ==
  /\ queue # <<>> /\ queue' = Tail(queue)
  /\ LET e == Head(queue) IN
       /\ list' = Applied(e) /\ record' = Recorded(e) /\ heard' = e.at
       /\ doubled' = (doubled \/ (e.type = "created" /\ Listed(e.row.id)))
       /\ timer' = (timer \/ Arms)
  /\ UNCHANGED <<remote, asked, answers, props, visits, lost, stale, swapped>>

\* The socket was down when the event was sent; nobody asks for it later.
Lose ==
  /\ queue # <<>> /\ lost < MaxLost /\ queue' = Tail(queue) /\ lost' = lost + 1
  /\ UNCHANGED <<remote, asked, answers, props, list, record, timer, visits, history>>

\* The timer of the table fires: router.reload().
Reload ==
  /\ timer /\ timer' = FALSE /\ asked' = asked + 1
  /\ UNCHANGED <<remote, queue, answers, props, list, record, visits, lost, history>>

\* The user submits something or follows a link to the same page.
Visit ==
  /\ visits < MaxVisits /\ visits' = visits + 1 /\ asked' = asked + 1
  /\ UNCHANGED <<remote, queue, answers, props, list, record, timer, lost, history>>

\* New props: the list and the record start again from them.
Arrive(a) ==
  /\ answers' = answers \ {a} /\ props' = a /\ list' = Page(a) /\ record' = a.rows[Tracked]
  /\ stale' = (stale \/ a.at < heard) /\ swapped' = (swapped \/ a.at < props.at)
  /\ UNCHANGED <<remote, queue, asked, timer, visits, lost, heard, doubled>>

Next ==
  \/ \E id \in Ids: Create(id) \/ Update(id) \/ Delete(id)
  \/ Serve \/ Deliver \/ Lose \/ Reload \/ Visit
  \/ \E a \in answers: Arrive(a)

Spec == Init /\ [][Next]_vars

-----------------------------------------------------------------------------
(* Properties. *)

Quiet == queue = <<>> /\ asked = 0 /\ answers = {}
Complete == lost = 0 /\ ~stale

\* Events of the whole project reach the page; rows of others never enter the list.
ForeignRowsStayOut == \A i \in DOMAIN list: list[i].id \in Own

\* A row is on the list once, unless its creation is heard after it was fetched.
RowsAreUnique ==
  ~doubled => \A i, j \in DOMAIN list: list[i].id = list[j].id => i = j

\* With nothing on its way the list shows what the server has, when no event was
\* lost, no answer was older than an event that was heard, and no creation was
\* heard of a row that an answer had brought.  Answers may change places.
ListFollows == Quiet /\ Complete /\ ~doubled => ToSet(list) = ToSet(Page(Snapshot))

\* The same of the record.
RecordFollows == Quiet /\ Complete => record = row[Tracked]

\* The table, which takes events only as a hint, needs less: whatever came, the
\* last event is followed by a fetch that sees it, unless answers change places.
TableFollows == Quiet /\ ~timer /\ lost = 0 /\ ~swapped => props.at = clock
=============================================================================
