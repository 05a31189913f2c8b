----------------------------- MODULE FormKinds ------------------------------
(***************************************************************************)
(* What one form of the frontend says about itself, as far as the order of *)
(* its events depends on it.  The catalogues describe each form of the     *)
(* code by such a record, and Forms gives the records their behaviour.     *)
(***************************************************************************)

\* Where the form lives: in a dialog that is mounted each time it opens, in a
\* dialog that stays mounted while it is closed, or on the page itself.
Hosts == {"hosted", "own", "page"}

\* Where its first values come from: nowhere, the record that is edited, either of
\* the two, a request made when it opens, or the record again whenever it changes
\* and the form is clean.  A "plain" form has no fields.
Seeds == {"plain", "blank", "item", "either", "query", "synced"}

\* What disables the button that submits: a submission under way, a first request
\* under way or not yet answered, no change since the defaults, a missing choice
\* (not in every use of a form that edits).
Locks == {"processing", "fetching", "unfetched", "clean", "incomplete"}

\* What Enter does in a field: nothing, or what the button would do.  When the
\* button is not a submit button of the form and the form has a single text field,
\* it submits whatever the button says; "native" lets the browser submit as well,
\* which loads the page anew, and "reloads" does nothing else.
Enters == {"off", "locked", "free", "native", "reloads"}

\* What the server does with it: add something, replace the record that is edited,
\* remove what it is about, or start something; twice, it adds or starts two.
Effects == {"adds", "saves", "removes", "runs"}

\* What the form does when it opens or closes, besides that.
Turns == {"keeps", "resetsOnOpen", "resetsOnClose", "rereads"}

Kinds == [host: Hosts, effect: Effects, seed: Seeds, lock: SUBSET Locks, enter: Enters,
          frozen: BOOLEAN,  \* the fields are disabled while a submission is under way
          done: SUBSET {"close", "reset", "finish"}, \* on success; "finish" resets on any answer
          turn: Turns]

\* A dialog of the registry with one submit button; dialog-host closes it on success.
Hosted == [host |-> "hosted", effect |-> "adds", seed |-> "blank", lock |-> {"processing"},
           enter |-> "locked", frozen |-> FALSE, done |-> {"close"}, turn |-> "keeps"]
HostedEdit == [Hosted EXCEPT !.effect = "saves", !.seed = "item"]
HostedBoth == [Hosted EXCEPT !.seed = "either"]

\* One that only asks.
HostedPlain == [Hosted EXCEPT !.effect = "runs", !.seed = "plain", !.enter = "off"]

\* A dialog with its own open state.
Own == [Hosted EXCEPT !.host = "own"]
OwnReset == [Own EXCEPT !.done = {"close", "reset"}]
OwnEdit == [Own EXCEPT !.effect = "saves", !.seed = "item"]
OwnClick == [Own EXCEPT !.enter = "off"]
OwnPlain == [OwnClick EXCEPT !.effect = "runs", !.seed = "plain"]

\* A form on the page.
Page == [Hosted EXCEPT !.host = "page", !.done = {}]
PageEdit == [Page EXCEPT !.effect = "saves", !.seed = "item"]
PageButton == [Page EXCEPT !.effect = "runs", !.seed = "plain", !.enter = "off"]
PageSynced == [Page EXCEPT !.effect = "saves", !.seed = "synced",
               !.lock = {"processing", "clean"}, !.frozen = TRUE]
=============================================================================
