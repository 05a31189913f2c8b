---------------------------- MODULE SslMatching -----------------------------
(***************************************************************************)
(* The dialogs that add and edit a domain of a site.  After a pause the    *)
(* certificates that match what was typed are fetched; the best of them is *)
(* selected, and Save is locked until the list is that of the domain.      *)
(***************************************************************************)
EXTENDS Naturals, FiniteSets

CONSTANTS
  None,        \* the empty string
  Domains,     \* domains that are typed
  Matching,    \* [Domains -> sets of certificates that match]
  Best,        \* [Domains -> the best of them, or None]
  Originals,   \* domains that are edited; None adds one
  MaxChanges   \* bound: changes of the domain

SslMatchingAssumption ==
  /\ None \notin Domains /\ Originals \subseteq Domains \cup {None} /\ MaxChanges \in Nat
  /\ \A d \in Domains: None \notin Matching[d] /\ Best[d] \in Matching[d] \cup {None}

VARIABLES
  originalDomain, domain, method, ssl, \* form.data, and the domain that is edited
  matchingSsls, lastFetchedDomain,     \* the list, and the domain it was fetched for
  lookup, asked, loadingSsls,          \* the request: its phase, its domain, and the spinner
  saved,    \* what the server stored last, or None
  changes,  \* bound
  failed,   \* history: a request failed
  entered   \* history: Enter submitted a form whose button was locked

settings == <<method, ssl>>
fetching == <<lookup, asked, loadingSsls>>
vars == <<originalDomain, domain, settings, matchingSsls, lastFetchedDomain, fetching, saved, changes,
          failed, entered>>

Certificates == UNION {Matching[d]: d \in Domains}
Methods == {"none", "letsencrypt", "custom"}
Stored == [domain: Domains, method: Methods, ssl: Certificates \cup {None}]

TypeOK ==
  /\ originalDomain \in Originals /\ domain \in Domains \cup {None}
  /\ method \in Methods /\ ssl \in Certificates \cup {None}
  /\ matchingSsls \subseteq Certificates /\ lastFetchedDomain \in Domains \cup {None}
  /\ lookup \in {"idle", "waiting", "asking"} /\ asked \in Domains \cup {None}
  /\ loadingSsls \in BOOLEAN /\ (loadingSsls => lookup = "asking")
  /\ saved \in Stored \cup {None} /\ changes \in 0..MaxChanges /\ {failed, entered} \subseteq BOOLEAN

sslStale == domain # lastFetchedDomain

\* The effect when domain d is shown: what is under way is aborted, and a pause starts.
Fetch(d) ==
  IF d = None
  THEN /\ matchingSsls' = {} /\ lastFetchedDomain' = None
       /\ lookup' = "idle" /\ asked' = None /\ loadingSsls' = FALSE
  ELSE /\ lookup' = "waiting" /\ asked' = d /\ loadingSsls' = FALSE
       /\ UNCHANGED <<matchingSsls, lastFetchedDomain>>

\* A domain that is edited has no certificate, or one that matches.
Init ==
  /\ originalDomain \in Originals /\ domain = originalDomain /\ lastFetchedDomain = originalDomain
  /\ \/ method \in {"none", "letsencrypt"} /\ ssl = None
     \/ method = "custom" /\ originalDomain # None /\ ssl \in Matching[originalDomain]
  /\ matchingSsls = {} /\ loadingSsls = FALSE
  /\ lookup = (IF domain = None THEN "idle" ELSE "waiting") /\ asked = domain
  /\ saved = None /\ changes = 0 /\ failed = FALSE /\ entered = FALSE

Type(d) ==
  /\ d # domain /\ changes < MaxChanges /\ changes' = changes + 1 /\ domain' = d /\ Fetch(d)
  /\ UNCHANGED <<originalDomain, settings, saved, failed, entered>>

Ask ==
  /\ lookup = "waiting" /\ lookup' = "asking" /\ loadingSsls' = TRUE
  /\ UNCHANGED <<originalDomain, domain, settings, matchingSsls, lastFetchedDomain, asked, saved, changes,
                 failed, entered>>

\* The answer, or the error, for the domain that was asked.
Ended == lookup' = "idle" /\ asked' = None /\ loadingSsls' = FALSE
applySslSettings(best) ==
  IF best # None THEN method' = "custom" /\ ssl' = best ELSE method' = "letsencrypt" /\ ssl' = None
Skips_Always == TRUE
Skips == asked = originalDomain
Answer ==
  /\ lookup = "asking" /\ Ended /\ matchingSsls' = Matching[asked] /\ lastFetchedDomain' = asked
  /\ IF Skips THEN UNCHANGED settings ELSE applySslSettings(Best[asked])
  /\ UNCHANGED <<originalDomain, domain, saved, changes, failed, entered>>
Failure ==
  /\ lookup = "asking" /\ Ended /\ matchingSsls' = {} /\ lastFetchedDomain' = asked /\ failed' = TRUE
  /\ UNCHANGED <<originalDomain, domain, settings, saved, changes, entered>>

handleSslMethodChange(m) ==
  /\ m # method /\ method' = m /\ ssl' = IF m = "custom" THEN ssl ELSE None
  /\ UNCHANGED <<originalDomain, domain, matchingSsls, lastFetchedDomain, fetching, saved, changes,
                 failed, entered>>
SelectCertificate(c) ==
  /\ method = "custom" /\ c \in matchingSsls /\ c # ssl /\ ssl' = c
  /\ UNCHANGED <<originalDomain, domain, method, matchingSsls, lastFetchedDomain, fetching, saved, changes,
                 failed, entered>>

\* The server checks that there is a certificate, not that it matches.
Store ==
  /\ saved = None /\ domain # None /\ (method = "custom" => ssl # None)
  /\ saved' = [domain |-> domain, method |-> method, ssl |-> IF method = "custom" THEN ssl ELSE None]
  /\ UNCHANGED <<originalDomain, domain, settings, matchingSsls, lastFetchedDomain, fetching, changes, failed>>
Locked == loadingSsls \/ sslStale
Save == ~Locked /\ Store /\ UNCHANGED entered
\* The button is not the submit button of the form.
Enter == Locked /\ Store /\ entered' = TRUE

Next ==
  \/ \E d \in Domains \cup {None}: Type(d)
  \/ Ask \/ Answer \/ Failure
  \/ \E m \in Methods: handleSslMethodChange(m)
  \/ \E c \in Certificates: SelectCertificate(c)
  \/ Save \/ Enter

Spec == Init /\ [][Next]_vars /\ WF_vars(Ask) /\ WF_vars(Answer \/ Failure)

-----------------------------------------------------------------------------
(* Properties. *)

StoredMatches ==
  saved # None /\ saved.method = "custom" => saved.ssl \in Matching[saved.domain]

\* The certificate a domain is stored with, by the button, is one that matches it.  When
\* a domain is edited to another one and back, it is not.
StoredCertificateMatches == ~failed /\ ~entered => StoredMatches

\* For a domain that is added it is, unless a request failed.
AddedCertificateMatches == originalDomain = None => StoredCertificateMatches

\* When Save is not locked, the list is that of the domain in the form: no answer for
\* a domain typed before shows its certificates.
ListIsOfDomain == ~Locked => \A c \in matchingSsls: domain # None /\ c \in Matching[domain]

=============================================================================
