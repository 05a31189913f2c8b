---------------------------- MODULE SourceSelect -----------------------------
(***************************************************************************)
(* The source of a new site: a source control, one of its repositories,    *)
(* and a branch of that.  Both lists are looked up whenever what they      *)
(* depend on changes.  An answer replaces the list, empties a choice that  *)
(* is not in it, judged by the value that was there when the request was   *)
(* sent, and ends the spinner, also when a later request is under way.     *)
(***************************************************************************)
EXTENDS Naturals, FiniteSets

CONSTANTS
  None,               \* an empty field
  Controls, Repos, Branches,
  ReposOf,            \* [Controls -> SUBSET Repos]
  BranchesOf,         \* [Controls -> [Repos -> SUBSET Branches]]
  MaxAsked            \* bound: requests that are sent

SourceSelectAssumption ==
  /\ ReposOf \in [Controls -> SUBSET Repos] /\ BranchesOf \in [Controls -> [Repos -> SUBSET Branches]]
  /\ None \notin Controls \cup Repos \cup Branches /\ MaxAsked \in Nat

VARIABLES
  use_source_control, \* the switch: off, neither field is on the page
  mounted,            \* which appearance of the fields this is
  source_control, repository, branch, \* form.data
  repos, branches, gettingRepos, gettingBranches,
  askedRepos, askedBranches, \* requests under way: what for, the value at that time, from which appearance
  asked,              \* bound, and the number of the next request
  crossedRepos, crossedBranches \* history: the last request was sent while another was under way

data == <<source_control, repository, branch>>
repoField == <<repos, gettingRepos, askedRepos, crossedRepos>>
branchField == <<branches, gettingBranches, askedBranches, crossedBranches>>
vars == <<use_source_control, mounted, data, repoField, branchField, asked>>

Request == [id: 1..MaxAsked, control: Controls, repo: Repos \cup {None}, mount: Nat,
            value: Repos \cup Branches \cup {None}]
TypeOK ==
  /\ {use_source_control, gettingRepos, gettingBranches, crossedRepos, crossedBranches} \subseteq BOOLEAN
  /\ source_control \in Controls \cup {None} /\ repository \in Repos \cup {None}
  /\ branch \in Branches \cup {None} /\ repos \subseteq Repos /\ branches \subseteq Branches
  /\ askedRepos \cup askedBranches \subseteq Request /\ asked \in 0..MaxAsked
  /\ (gettingBranches => \E q \in askedBranches: q.mount = mounted)

Init ==
  /\ use_source_control = FALSE /\ mounted = 0
  /\ source_control = None /\ repository = None /\ branch = None
  /\ repos = {} /\ branches = {} /\ gettingRepos = FALSE /\ gettingBranches = FALSE
  /\ askedRepos = {} /\ askedBranches = {} /\ asked = 0 /\ crossedRepos = FALSE /\ crossedBranches = FALSE

-----------------------------------------------------------------------------
(* Requests.  Nothing is asked for an empty field, but the list is emptied. *)

fetchRepos(control) ==
  /\ repos' = {}
  /\ IF control = None THEN UNCHANGED <<gettingRepos, askedRepos, crossedRepos>>
     ELSE /\ gettingRepos' = TRUE /\ crossedRepos' = (askedRepos # {})
          /\ askedRepos' = askedRepos \cup {[id |-> asked + 1, control |-> control, repo |-> None,
                                             mount |-> mounted, value |-> repository]}
fetchBranches(control, repo, count) ==
  /\ branches' = {}
  /\ IF control = None \/ repo = None THEN UNCHANGED <<gettingBranches, askedBranches, crossedBranches>>
     ELSE /\ gettingBranches' = TRUE /\ crossedBranches' = (askedBranches # {})
          /\ askedBranches' = askedBranches \cup {[id |-> asked + count, control |-> control, repo |-> repo,
                                                   mount |-> mounted, value |-> branch]}

-----------------------------------------------------------------------------
(* The person at the form. *)

\* Without the switch on, the page empties what anything writes into the three fields.
Cleared(value) == IF use_source_control' THEN value ELSE None

Switch ==
  /\ use_source_control' = ~use_source_control
  /\ (use_source_control' => mounted < MaxAsked) /\ mounted' = mounted + (IF use_source_control THEN 0 ELSE 1)
  /\ source_control' = Cleared(source_control) /\ repository' = Cleared(repository) /\ branch' = Cleared(branch)
  /\ repos' = {} /\ branches' = {} /\ gettingRepos' = FALSE /\ gettingBranches' = FALSE
  /\ UNCHANGED <<askedRepos, askedBranches, crossedRepos, crossedBranches, asked>>

SelectControl(c) ==
  /\ use_source_control /\ c # source_control /\ asked + 2 <= MaxAsked
  /\ source_control' = c /\ UNCHANGED <<repository, branch>>
  /\ fetchRepos(c) /\ fetchBranches(c, repository, 2) /\ asked' = asked + 2
  /\ UNCHANGED <<use_source_control, mounted>>
\* From the list, or typed when there is none.
SelectRepo(r) ==
  /\ use_source_control /\ ~gettingRepos /\ asked < MaxAsked /\ r # repository
  /\ (repos # {} /\ source_control # None => r \in repos)
  /\ repository' = r /\ UNCHANGED <<source_control, branch>>
  /\ fetchBranches(source_control, r, 1) /\ asked' = asked + 1
  /\ UNCHANGED <<use_source_control, mounted, repoField>>
SelectBranch(b) ==
  /\ use_source_control /\ ~gettingBranches /\ b # branch
  /\ (branches # {} /\ source_control # None /\ repository # None => b \in branches)
  /\ branch' = b
  /\ UNCHANGED <<source_control, repository, use_source_control, mounted, repoField, branchField, asked>>
refreshRepos ==
  /\ use_source_control /\ ~gettingRepos /\ source_control # None /\ asked < MaxAsked
  /\ fetchRepos(source_control) /\ asked' = asked + 1
  /\ UNCHANGED <<use_source_control, mounted, data, branchField>>
refreshBranches ==
  /\ use_source_control /\ ~gettingBranches /\ source_control # None /\ repository # None /\ asked < MaxAsked
  /\ fetchBranches(source_control, repository, 1) /\ asked' = asked + 1
  /\ UNCHANGED <<use_source_control, mounted, data, repoField>>

-----------------------------------------------------------------------------
(* Answers.  One to fields that are gone still writes into the form. *)

KeptRepo(q, list) == IF list # {} /\ q.value \notin list THEN None ELSE repository
KeptBranch(q, list) ==
  IF Cardinality(list) = 1 THEN CHOOSE b \in list: TRUE
  ELSE IF list # {} /\ q.value \notin list THEN None ELSE branch

\* The field of branches follows a repository that was emptied.
RepositoryEmptied ==
  IF repository' # repository /\ use_source_control
  THEN fetchBranches(source_control, repository', 0) ELSE UNCHANGED branchField
Repos_Answer(q) ==
  /\ UNCHANGED <<use_source_control, mounted, source_control, branch, asked, crossedRepos>>
  /\ askedRepos' = askedRepos \ {q} /\ repository' = Cleared(KeptRepo(q, ReposOf[q.control]))
  /\ IF q.mount = mounted /\ use_source_control THEN repos' = ReposOf[q.control] /\ gettingRepos' = FALSE
     ELSE UNCHANGED <<repos, gettingRepos>>
  /\ RepositoryEmptied
Branches_Answer(q) ==
  /\ UNCHANGED <<use_source_control, mounted, source_control, repository, asked, crossedBranches, repoField>>
  /\ askedBranches' = askedBranches \ {q} /\ branch' = Cleared(KeptBranch(q, BranchesOf[q.control][q.repo]))
  /\ IF q.mount = mounted /\ use_source_control
     THEN branches' = BranchesOf[q.control][q.repo] /\ gettingBranches' = FALSE
     ELSE UNCHANGED <<branches, gettingBranches>>

Ended == FALSE
Repos_Failure(q) ==
  /\ askedRepos' = askedRepos \ {q}
  /\ IF q.mount = mounted /\ use_source_control THEN repos' = {} /\ gettingRepos' = Ended
     ELSE UNCHANGED <<repos, gettingRepos>>
  /\ UNCHANGED <<use_source_control, mounted, data, asked, crossedRepos, branchField>>
Branches_Failure_Spins(q) ==
  /\ askedBranches' = askedBranches \ {q}
  /\ UNCHANGED <<use_source_control, mounted, data, asked, crossedBranches, branches, gettingBranches, repoField>>
Branches_Failure(q) ==
  /\ askedBranches' = askedBranches \ {q}
  /\ IF q.mount = mounted /\ use_source_control THEN branches' = {} /\ gettingBranches' = FALSE
     ELSE UNCHANGED <<branches, gettingBranches>>
  /\ UNCHANGED <<use_source_control, mounted, data, asked, crossedBranches, repoField>>

\* The spinners, which lock a field each.
ReposSpin == gettingRepos
BranchesSpin == gettingBranches

Next ==
  \/ Switch \/ refreshRepos \/ refreshBranches
  \/ \E c \in Controls: SelectControl(c)
  \/ \E r \in Repos: SelectRepo(r)
  \/ \E b \in Branches: SelectBranch(b)
  \/ \E q \in askedRepos: Repos_Answer(q) \/ Repos_Failure(q)
  \/ \E q \in askedBranches: Branches_Answer(q) \/ Branches_Failure(q)

\* A request ends: with an answer or an error.
ReposEnd == \E q \in askedRepos: Repos_Answer(q) \/ Repos_Failure(q)
BranchesEnd == \E q \in askedBranches: Branches_Answer(q) \/ Branches_Failure(q)
Fairness == WF_vars(ReposEnd) /\ WF_vars(BranchesEnd)
Spec == Init /\ [][Next]_vars /\ Fairness

-----------------------------------------------------------------------------
(* Properties. *)

\* When a list is there, what is chosen is in it, and it is the list of what is chosen above it; unless
\* the request for it was sent while another one was under way.
ChoicesAreListed ==
  /\ repos # {} /\ ~crossedRepos => repository \in repos \cup {None} /\ repos = ReposOf[source_control]
  /\ branches # {} /\ ~crossedBranches /\ repository # None =>
       branch \in branches \cup {None} /\ branches = BranchesOf[source_control][repository]

\* A site without source control sends none, whatever answers come after the switch.
SourceOffIsEmpty == ~use_source_control => data = <<None, None, None>>
=============================================================================
