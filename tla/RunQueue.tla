------------------------------ MODULE RunQueue ------------------------------
(***************************************************************************)
(* What the deployment queue of an environment promises, without stages,   *)
(* jobs or locks: one run is active, at most one waits, a newer request    *)
(* replaces the one that waits, and what is over stays over.  A run is     *)
(* active from its start until its last work has settled, so a cancelled   *)
(* run stays active while it drains.                                       *)
(***************************************************************************)
EXTENDS Naturals

CONSTANT MaxRuns

Runs == 1..MaxRuns

VARIABLE phase      \* of each run

Phases == {"none", "waiting", "active", "over"}

Busy == \E r \in Runs : phase[r] = "active"
Newest(r) == phase[r] = "none" /\ \A q \in Runs : q < r => phase[q] # "none"

Init == phase = [r \in Runs |-> "none"]

\* A request: it starts at once or waits, and replaces the one that waited.
Ask(r) ==
    /\ Newest(r)
    /\ phase' = [q \in Runs |-> IF q = r THEN (IF Busy THEN "waiting" ELSE "active")
                                ELSE IF phase[q] = "waiting" THEN "over" ELSE phase[q]]

\* A request that could not be made.
Reject(r) == Newest(r) /\ phase' = [phase EXCEPT ![r] = "over"]

Promote(r) == phase[r] = "waiting" /\ ~ Busy /\ phase' = [phase EXCEPT ![r] = "active"]

\* The active run ends, or the waiting one is withdrawn.
End(r) == phase[r] \in {"waiting", "active"} /\ phase' = [phase EXCEPT ![r] = "over"]

Next == \E r \in Runs : Ask(r) \/ Reject(r) \/ Promote(r) \/ End(r)

Spec == Init /\ [][Next]_phase
-----------------------------------------------------------------------------
\* At most one run is active and at most one waits.
OneAtATime ==
    \A q, r \in Runs :
        /\ phase[q] = "active" /\ phase[r] = "active" => q = r
        /\ phase[q] = "waiting" /\ phase[r] = "waiting" => q = r

TypeInv == phase \in [Runs -> Phases]
=============================================================================
