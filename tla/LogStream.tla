------------------------------ MODULE LogStream ------------------------------
(***************************************************************************)
(* Reading a log that is still written.  A viewer fetches the log and      *)
(* appends the chunks its events bring (use-log-content.ts and the rows of *)
(* instant-logs.tsx); the sheet of instant logs lists logs page by page.   *)
(***************************************************************************)
EXTENDS Naturals, Sequences, FiniteSets, SequencesExt

CONSTANTS
  MaxChunks,   \* bound: chunks written to the log
  MaxOpens,    \* bound: times the viewer is opened
  Pages,       \* pages of logs the server has
  MaxFetches   \* bound: pages fetched

LogAssumption ==
  MaxChunks \in Nat /\ MaxOpens \in Nat /\ MaxFetches \in Nat /\ Pages \in Nat \ {0}

VARIABLES
  written,   \* chunks in the log; the log is 1 .. written
  queue,     \* chunks on their way as events
  opened,    \* openings of the viewer so far
  phase,     \* the viewer: closed, loading, loaded or failed
  fetched,   \* what the server answered: a number of chunks, none yet, or an error
  content,   \* the chunks the viewer has
  outran,    \* history: a chunk the answer lacks was appended before the answer came
  repeated,  \* history: a chunk the answer has was appended after it
  sheet,     \* whether the sheet of instant logs is open
  page,      \* the page it is at
  logs,      \* the pages whose rows it lists, in order
  loads,     \* requests of pages under way: [page, n]
  fetches,   \* how many there were
  again      \* history: a page was asked for while another was under way, or a second time

viewer == <<written, queue, opened, phase, fetched, content, outran, repeated>>
lister == <<sheet, page, logs, loads, fetches, again>>
vars == <<viewer, lister>>

Error == MaxChunks + 1
NoAnswer == MaxChunks + 2
Upto(n) == [i \in 1..n |-> i]

TypeOK ==
  /\ written \in 0..MaxChunks /\ queue \in Seq(1..MaxChunks) /\ opened \in 0..MaxOpens
  /\ phase \in {"closed", "loading", "loaded", "failed"} /\ fetched \in 0..NoAnswer
  /\ content \in Seq(1..MaxChunks) /\ outran \in BOOLEAN /\ repeated \in BOOLEAN
  /\ sheet \in BOOLEAN /\ page \in 1..MaxFetches + 1 /\ logs \in Seq(1..Pages)
  /\ loads \subseteq [page: 1..MaxFetches + 1, n: 1..MaxFetches]
  /\ fetches \in 0..MaxFetches /\ again \in BOOLEAN

Init ==
  /\ written = 0 /\ queue = <<>> /\ opened = 0 /\ phase = "closed" /\ fetched = NoAnswer
  /\ content = <<>> /\ outran = FALSE /\ repeated = FALSE
  /\ sheet = FALSE /\ page = 1 /\ logs = <<>> /\ loads = {} /\ fetches = 0 /\ again = FALSE

-----------------------------------------------------------------------------
(* The viewer of one log. *)

\* The server appends a chunk to the file, then sends it to the project.
Write ==
  /\ written < MaxChunks /\ written' = written + 1 /\ queue' = Append(queue, written + 1)
  /\ UNCHANGED <<opened, phase, fetched, content, outran, repeated, lister>>

\* The effect of the hook: ask for the log, with nothing shown meanwhile.
Open ==
  /\ phase = "closed" /\ opened < MaxOpens /\ opened' = opened + 1
  /\ phase' = "loading" /\ fetched' = NoAnswer /\ content' = <<>>
  /\ outran' = FALSE /\ repeated' = FALSE /\ UNCHANGED <<written, queue, lister>>

\* Closing unmounts the viewer; what still comes for it has no effect.
Close ==
  /\ phase # "closed" /\ phase' = "closed" /\ fetched' = NoAnswer
  /\ UNCHANGED <<written, queue, opened, content, outran, repeated, lister>>

Answer ==
  /\ phase = "loading" /\ fetched = NoAnswer /\ fetched' \in {written, Error}
  /\ UNCHANGED <<written, queue, opened, phase, content, outran, repeated, lister>>

\* The response replaces what was appended while it was on its way.
Loaded(n) == Upto(n)
Load ==
  /\ phase = "loading" /\ fetched \in 0..MaxChunks
  /\ phase' = "loaded" /\ content' = Loaded(fetched)
  /\ outran' = (outran \/ \E c \in ToSet(content): c > fetched)
  /\ UNCHANGED <<written, queue, opened, fetched, repeated, lister>>

Fail ==
  /\ phase = "loading" /\ fetched = Error /\ phase' = "failed"
  /\ UNCHANGED <<written, queue, opened, fetched, content, outran, repeated, lister>>

\* An event appends its chunk, also while the log is being fetched.
Appended_Loaded(chunk) == IF phase = "loaded" THEN Append(content, chunk) ELSE content
Appended(chunk) == IF phase # "closed" THEN Append(content, chunk) ELSE content
Deliver ==
  /\ queue # <<>> /\ queue' = Tail(queue) /\ content' = Appended(Head(queue))
  /\ repeated' = (repeated \/ (phase = "loaded" /\ Head(queue) <= fetched))
  /\ UNCHANGED <<written, opened, phase, fetched, outran, lister>>

-----------------------------------------------------------------------------
(* The sheet of instant logs. *)

Ask(p, twice) ==
  IF fetches < MaxFetches
    THEN /\ fetches' = fetches + 1 /\ loads' = loads \cup {[page |-> p, n |-> fetches + 1]}
         /\ again' = (again \/ loads # {} \/ twice)
    ELSE FALSE

\* Opening the sheet, and every change of the page while it is open, fetches.
OpenSheet == ~sheet /\ sheet' = TRUE /\ Ask(page, page # 1) /\ UNCHANGED <<viewer, page, logs>>
CloseSheet == sheet /\ sheet' = FALSE /\ UNCHANGED <<viewer, page, logs, loads, fetches, again>>
LoadMore ==
  /\ sheet /\ page' = page + 1 /\ Ask(page + 1, FALSE) /\ UNCHANGED <<viewer, sheet, logs>>

\* The button titled Reload empties the list and goes to the first page.
Reset ==
  /\ sheet /\ logs' = <<>> /\ page' = 1
  /\ IF page # 1 THEN Ask(1, FALSE) ELSE UNCHANGED <<loads, fetches, again>>
  /\ UNCHANGED <<viewer, sheet>>

\* A page arrives: the first replaces the list, others are appended; the sheet
\* goes to the page that came, which fetches again when it is another.
Rows(p) == IF p <= Pages THEN <<p>> ELSE <<>>
Listed(p) == IF p = 1 THEN Rows(1) ELSE logs \o Rows(p)
PageArrives(r) ==
  /\ logs' = Listed(r.page) /\ page' = r.page
  /\ IF sheet /\ r.page # page
       THEN /\ fetches < MaxFetches /\ fetches' = fetches + 1
            /\ loads' = (loads \ {r}) \cup {[page |-> r.page, n |-> fetches + 1]} /\ again' = TRUE
       ELSE loads' = loads \ {r} /\ UNCHANGED <<fetches, again>>
  /\ UNCHANGED <<viewer, sheet>>

Next ==
  \/ Write \/ Open \/ Close \/ Answer \/ Load \/ Fail \/ Deliver
  \/ OpenSheet \/ CloseSheet \/ LoadMore \/ Reset
  \/ \E r \in loads: PageArrives(r)

Spec == Init /\ [][Next]_vars

-----------------------------------------------------------------------------
(* Properties. *)

\* A log that is written and read at once is shown whole and once, unless a chunk
\* changed places with the response.
LogIsWhole ==
  phase = "loaded" /\ queue = <<>> /\ ~outran /\ ~repeated => content = Upto(written)

\* Chunks are never shown out of the order in which they were written, unless one
\* came twice; the response replaces them, it does not follow them.
ChunksInOrder ==
  ~repeated => \A i, j \in DOMAIN content: i < j => content[i] < content[j]

\* A page of logs is on the list once while pages are asked for one at a time and
\* the sheet is not opened again at a later page.
PagesAreUnique ==
  ~again => \A i, j \in DOMAIN logs: logs[i] = logs[j] => i = j
=============================================================================
