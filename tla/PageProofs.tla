---------------------------- MODULE PageProofs ------------------------------
(***************************************************************************)
(* Dialogs, forms, certificates, the .env editor and the terminal of the   *)
(* frontend, each for any values of its own constants.  They share no      *)
(* state: a name that two of them have, such as open, stands for another   *)
(* variable in each.                                                       *)
(***************************************************************************)
EXTENDS Naturals, FiniteSetTheorems, SequenceTheorems, WellFoundedInduction, TLAPS

CONSTANTS None, Domains, Matching, Best, Originals, MaxChanges
VARIABLES originalDomain, domain, method, ssl, matchingSsls, lastFetchedDomain, lookup, asked, loadingSsls,
          saved, changes, failed, entered
Ssl == INSTANCE SslMatching

CONSTANTS NoVariables, Lists, Duplicated, Typed, Paths, DefaultPath, MaxEdits
VARIABLES file, reveal, open, mode, variables, rawContent, variablesDirty, canEdit, path, committedPath, cache,
          status, isFetching, switching, importing, saving, edits, from, loaded, touched, superseded,
          abandoned
Env == INSTANCE EnvEditor

CONSTANTS Keys, RouteDialogs, NoDialog, NoElement, MaxOpens, MaxPages
VARIABLES shown, opening, trigger, focus, frames, draft, since, visit, page
Dialogs == INSTANCE DialogHost

CONSTANTS Users, NoUser, MaxPerUser, MaxAttempts
VARIABLES mounted, user, phase, by, wsRef, sessions, inbox, overlapped, leftEarly
Terminal == INSTANCE Console

CONSTANTS Catalogue, MaxOpenings, MaxTypings, MaxSends, MaxVersions
VARIABLES form, item, data, defaults, typed, processing, sends, awaited, query, asker, lost, warm
Form == INSTANCE Forms
-----------------------------------------------------------------------------
(* The certificates of a domain. *)

\* A request has a domain.
LookupShape == lookup # "idle" => asked \in Domains
\* The list is that of the domain it was fetched for.
ListRule == \A c \in matchingSsls: lastFetchedDomain # None /\ c \in Matching[lastFetchedDomain]
\* The certificate of a domain that is added is in the list of that domain, too, as
\* long as no request failed.
SelectionRule ==
  originalDomain = None /\ ~failed /\ lastFetchedDomain # None /\ ssl # None => ssl \in Matching[lastFetchedDomain]
SslInv == Ssl!TypeOK /\ LookupShape /\ ListRule /\ SelectionRule /\ Ssl!AddedCertificateMatches

\* Certificates that match a domain are certificates.
LEMMA Matches ==
  ASSUME Ssl!SslMatchingAssumption
  PROVE  \A d \in Domains:
           /\ Matching[d] \subseteq Ssl!Certificates /\ None \notin Matching[d]
           /\ Best[d] \in Matching[d] \cup {None} /\ d # None
BY DEF Ssl!SslMatchingAssumption, Ssl!Certificates

LEMMA SslInit == ASSUME Ssl!SslMatchingAssumption, Ssl!Init PROVE SslInv
<1>1. originalDomain \in Domains \cup {None} /\ 0 \in 0..MaxChanges
  BY DEF Ssl!SslMatchingAssumption, Ssl!Init
<1>2. Ssl!TypeOK
  BY <1>1, Matches DEF Ssl!Init, Ssl!TypeOK, Ssl!Methods
<1>3. LookupShape /\ ListRule /\ SelectionRule
  BY <1>1 DEF Ssl!Init, LookupShape, ListRule, SelectionRule
<1> QED
  BY <1>2, <1>3 DEF SslInv, Ssl!Init, Ssl!AddedCertificateMatches, Ssl!StoredCertificateMatches, Ssl!StoredMatches

LEMMA SslStep == ASSUME Ssl!SslMatchingAssumption, SslInv, [Ssl!Next]_(Ssl!vars) PROVE SslInv'
<1> USE DEF SslInv, Ssl!TypeOK, LookupShape, ListRule, SelectionRule, Ssl!settings, Ssl!fetching
<1> USE DEF Ssl!AddedCertificateMatches, Ssl!StoredCertificateMatches, Ssl!StoredMatches
<1>1. ASSUME NEW d \in Domains \cup {None}, Ssl!Type(d) PROVE SslInv'
  <2>1. changes' \in 0..MaxChanges
    BY <1>1 DEF Ssl!Type, Ssl!SslMatchingAssumption
  <2>2. CASE d = None
    BY <1>1, <2>1, <2>2 DEF Ssl!Type, Ssl!Fetch
  <2>3. CASE d # None
    BY <1>1, <2>1, <2>3 DEF Ssl!Type, Ssl!Fetch
  <2> QED
    BY <2>2, <2>3
<1>2. CASE Ssl!Ask
  BY <1>2 DEF Ssl!Ask
<1>3. CASE Ssl!Answer
  <2>1. asked \in Domains /\ matchingSsls' = Matching[asked] /\ lastFetchedDomain' = asked
    BY <1>3 DEF Ssl!Answer
  <2>2. CASE Ssl!Skips
    BY <1>3, <2>1, <2>2, Matches DEF Ssl!Answer, Ssl!Ended, Ssl!Skips
  <2>3. CASE ~Ssl!Skips
    <3>1. ssl' = Best[asked] /\ method' \in Ssl!Methods
      <4>1. CASE Best[asked] = None
        BY <1>3, <2>3, <4>1 DEF Ssl!Answer, Ssl!applySslSettings, Ssl!Methods
      <4>2. CASE Best[asked] # None
        BY <1>3, <2>3, <4>2 DEF Ssl!Answer, Ssl!applySslSettings, Ssl!Methods
      <4> QED
        BY <4>1, <4>2
    <3> QED
      BY <1>3, <2>1, <3>1, Matches DEF Ssl!Answer, Ssl!Ended
  <2> QED
    BY <2>2, <2>3
<1>4. CASE Ssl!Failure
  BY <1>4 DEF Ssl!Failure, Ssl!Ended
<1>5. ASSUME NEW m \in Ssl!Methods, Ssl!handleSslMethodChange(m) PROVE SslInv'
  BY <1>5 DEF Ssl!handleSslMethodChange
<1>6. ASSUME NEW c \in Ssl!Certificates, Ssl!SelectCertificate(c) PROVE SslInv'
  BY <1>6 DEF Ssl!SelectCertificate
<1>7. CASE Ssl!Save \/ Ssl!Enter
  <2>1. saved' = [domain |-> domain, method |-> method, ssl |-> IF method = "custom" THEN ssl ELSE None]
    BY <1>7 DEF Ssl!Save, Ssl!Enter, Ssl!Store
  <2>2. domain # None /\ (method = "custom" => ssl # None)
        /\ UNCHANGED <<originalDomain, domain, method, ssl, matchingSsls, lastFetchedDomain, lookup, asked,
                       loadingSsls, changes, failed>>
    BY <1>7 DEF Ssl!Save, Ssl!Enter, Ssl!Store
  <2>3. saved' \in Ssl!Stored /\ entered' \in BOOLEAN
    BY <1>7, <2>1, <2>2 DEF Ssl!Save, Ssl!Enter, Ssl!Stored
  <2>4. ~entered' => domain = lastFetchedDomain
    BY <1>7 DEF Ssl!Save, Ssl!Enter, Ssl!Locked, Ssl!sslStale
  <2> QED
    BY <2>1, <2>2, <2>3, <2>4
<1>8. CASE UNCHANGED Ssl!vars
  BY <1>8 DEF Ssl!vars
<1> QED
  BY <1>1, <1>2, <1>3, <1>4, <1>5, <1>6, <1>7, <1>8 DEF Ssl!Next

\* The button never stores a new domain with a certificate that does not match
\* it, unless a request failed, and it is free only over the list of the domain.
THEOREM AddedDomainsAreCovered ==
  ASSUME Ssl!SslMatchingAssumption
  PROVE  Ssl!Init /\ [][Ssl!Next]_(Ssl!vars) => [](Ssl!TypeOK /\ Ssl!AddedCertificateMatches /\ Ssl!ListIsOfDomain)
<1>1. SslInv /\ [Ssl!Next]_(Ssl!vars) => SslInv'
  BY SslStep
<1>2. SslInv => Ssl!TypeOK /\ Ssl!AddedCertificateMatches /\ Ssl!ListIsOfDomain
  BY DEF SslInv, ListRule, Ssl!ListIsOfDomain, Ssl!Locked, Ssl!sslStale
<1> QED
  BY <1>1, <1>2, SslInit, PTL
-----------------------------------------------------------------------------
(* The editor of the .env file. *)

\* An open sheet that neither reads nor failed to has the content of the committed path.
ReadRule == open /\ ~isFetching /\ status # "error" => from = committedPath
\* A list that differs from the text was edited.
DirtyRule == variablesDirty => touched
\* While the mode is switched nothing is read, unless the sheet was closed; the server is
\* asked to write a list out only when it was edited.
SwitchRule ==
  switching # None /\ ~abandoned => open /\ ~isFetching /\ (switching.mode = "variables" => touched)
\* The flags are flags.
Flags ==
  /\ reveal \in BOOLEAN /\ variablesDirty \in BOOLEAN /\ touched \in BOOLEAN /\ superseded \in BOOLEAN
  /\ abandoned \in BOOLEAN
EnvInv ==
  Flags /\ ReadRule /\ DirtyRule /\ SwitchRule /\ Env!ModesAgree /\ Env!NothingLostBySwitching

\* What the sheet shows of a text has its list.
LEMMA ShownList ==
  ASSUME Flags, NEW p, NEW t, Env!Load(p, t)
  PROVE  /\ variables' = loaded'.list /\ rawContent' = loaded' /\ from' = p /\ canEdit' = reveal
         /\ variablesDirty' = FALSE /\ touched' = FALSE /\ superseded' = FALSE
         /\ reveal => rawContent'.list = variables'
<1>1. CASE reveal
  BY <1>1 DEF Env!Load
<1>2. CASE ~reveal
  <2>1. rawContent' = [Env!Blank EXCEPT !.list = t.list]
    BY <1>2 DEF Env!Load
  <2>2. [Env!Blank EXCEPT !.list = t.list].list = t.list
    BY DEF Env!Blank, Env!stringify
  <2> QED
    BY <1>2, <2>1, <2>2 DEF Env!Load
<1> QED
  BY <1>1, <1>2 DEF Flags

LEMMA EnvInit == ASSUME Env!EnvEditorAssumption, Env!Init PROVE EnvInv
<1>1. Env!Blank.list = NoVariables
  BY DEF Env!Blank, Env!stringify
<1> QED
  BY <1>1 DEF Env!EnvEditorAssumption, Env!Init, EnvInv, Flags, ReadRule, DirtyRule, SwitchRule,
                    Env!ModesAgree, Env!NothingLostBySwitching

\* Closing the sheet empties it.
LEMMA ClosedSheet ==
  ASSUME EnvInv, Env!Close,
         UNCHANGED <<reveal, canEdit, committedPath, status, isFetching, switching>>
  PROVE  EnvInv'
<1>1. Env!Blank.list = NoVariables
  BY DEF Env!Blank, Env!stringify
<1>2. abandoned' \in BOOLEAN
  BY DEF Env!Close
<1> QED
  BY <1>1, <1>2 DEF EnvInv, Flags, ReadRule, DirtyRule, SwitchRule, Env!ModesAgree, Env!NothingLostBySwitching,
                    Env!Close

LEMMA EnvStep == ASSUME Env!EnvEditorAssumption, EnvInv, [Env!Next]_(Env!vars) PROVE EnvInv'
<1> USE DEF EnvInv, Flags, ReadRule, DirtyRule, SwitchRule, Env!ModesAgree, Env!NothingLostBySwitching
<1> USE DEF Env!server, Env!content, Env!queries, Env!requests, Env!history, Env!busy
<1>1. CASE Env!Open
  BY <1>1 DEF Env!Open
<1>2. CASE Env!Cancel
  BY <1>2, ClosedSheet DEF Env!Cancel
<1>3. CASE Env!handleRefresh
  <2>1. isFetching' = TRUE /\ switching = None /\ UNCHANGED <<reveal, open, mode, switching, abandoned>>
    BY <1>3 DEF Env!handleRefresh
  <2>2. CASE Env!Load(path, cache[path])
    BY <2>1, <2>2, ShownList
  <2>3. CASE UNCHANGED <<variables, rawContent, variablesDirty, canEdit, from, loaded, touched, superseded>>
    BY <2>1, <2>3
  <2> QED
    BY <1>3, <2>2, <2>3 DEF Env!handleRefresh
<1>4. CASE Env!FetchAnswer
  <2>1. isFetching /\ Env!Load(committedPath, file[committedPath])
        /\ UNCHANGED <<reveal, open, mode, committedPath, switching, abandoned>>
    BY <1>4 DEF Env!FetchAnswer
  <2> QED
    BY <2>1, ShownList
<1>5. CASE Env!FetchError
  BY <1>5 DEF Env!FetchError
<1>6. CASE Env!switchMode
  <2>1. ~isFetching /\ open /\ switching = None
        /\ UNCHANGED <<reveal, open, variables, rawContent, variablesDirty, canEdit, committedPath,
                       status, isFetching, from, loaded, touched, superseded, abandoned>>
    BY <1>6 DEF Env!switchMode
  <2>2. CASE mode' = "classic" /\ UNCHANGED switching
    BY <2>1, <2>2
  <2>3. CASE /\ switching' = [mode |-> mode, value |-> IF mode = "variables" THEN variables ELSE rawContent]
             /\ UNCHANGED mode /\ ~(mode = "variables" /\ ~variablesDirty)
    <3>1. switching'.mode = mode
      BY <2>3
    <3> QED
      BY <2>1, <2>3, <3>1
  <2> QED
    BY <1>6, <2>2, <2>3 DEF Env!switchMode, Env!Untouched
<1>7. CASE Env!SwitchAnswer
  <2>1. switching # None /\ switching' = None
        /\ UNCHANGED <<reveal, open, canEdit, committedPath, status, isFetching, from, loaded, touched>>
    BY <1>7 DEF Env!SwitchAnswer
  <2>2. CASE /\ switching.mode = "variables" /\ mode' = "classic"
             /\ superseded' = (superseded \/ abandoned) /\ UNCHANGED <<variables, variablesDirty>>
    <3>1. superseded' \in BOOLEAN /\ (~superseded' => ~superseded /\ ~abandoned) /\ abandoned' = FALSE
      BY <1>7, <2>2 DEF Env!SwitchAnswer
    <3> QED
      BY <2>1, <2>2, <3>1
  <2>3. CASE /\ mode' = "variables" /\ Env!Parsed(switching.value.list)
             /\ superseded' = (superseded \/ abandoned \/ rawContent # switching.value)
    <3>1. superseded' \in BOOLEAN /\ (~superseded' => ~superseded /\ rawContent = switching.value)
          /\ abandoned' = FALSE
      BY <1>7, <2>3 DEF Env!SwitchAnswer
    <3>2. variables' = switching.value.list /\ variablesDirty' = FALSE /\ UNCHANGED rawContent
      BY <2>3 DEF Env!Parsed
    <3> QED
      BY <2>1, <2>3, <3>1, <3>2
  <2> QED
    BY <1>7, <2>2, <2>3 DEF Env!SwitchAnswer
<1>8. CASE Env!SwitchError
  BY <1>8 DEF Env!SwitchError, Env!SwitchEnded
<1>9. CASE Env!ImportParse \/ Env!ImportError \/ Env!submit \/ Env!SaveError \/ UNCHANGED Env!vars
  <2>1. UNCHANGED <<reveal, open, mode, variables, rawContent, variablesDirty, canEdit, committedPath,
                    status, isFetching, switching, from, loaded, touched, superseded, abandoned>>
    BY <1>9 DEF Env!ImportParse, Env!ImportError, Env!submit, Env!SaveError, Env!vars
  <2> QED
    BY <2>1
<1>10. CASE Env!ImportAnswer
  BY <1>10 DEF Env!ImportAnswer
<1>11. CASE Env!SaveAnswer(committedPath)
  BY <1>11, ClosedSheet DEF Env!SaveAnswer
<1>12. ASSUME NEW l \in Lists, Env!handleVariableChange(l) PROVE EnvInv'
  BY <1>12 DEF Env!handleVariableChange, Env!Marked
<1>13. ASSUME NEW t \in Typed, Env!TypeRaw(t) \/ Env!handlePaste(t) PROVE EnvInv'
  <2>1. CASE Env!TypeRaw(t)
    BY <2>1 DEF Env!TypeRaw
  <2>2. CASE Env!handlePaste(t)
    BY <2>2 DEF Env!handlePaste
  <2> QED
    BY <1>13, <2>1, <2>2
<1>14. ASSUME NEW p \in Paths, Env!ChangePath(p) PROVE EnvInv'
  BY <1>14 DEF Env!ChangePath
<1> QED
  BY <1>1, <1>2, <1>3, <1>4, <1>5, <1>6, <1>7, <1>8, <1>9, <1>10, <1>11, <1>12, <1>13, <1>14 DEF Env!Next

\* The values of the state, conjunct by conjunct.
EnvTypes ==
  /\ file \in [Paths -> Env!Text] /\ open \in BOOLEAN /\ isFetching \in BOOLEAN
  /\ mode \in {"variables", "classic"} /\ variables \in Lists /\ rawContent \in Env!Text
  /\ canEdit \in BOOLEAN \cup {None} /\ path \in Paths /\ committedPath \in Paths /\ from \in Paths \cup {None}
  /\ cache \in [Paths -> Env!Text \cup {None}] /\ status \in {"pending", "success", "error"}
  /\ (status = "success" => cache[committedPath] # None)
  /\ switching \in Env!Sent \cup {None} /\ saving \in Env!Sent \cup {None} /\ loaded \in Env!Text
  /\ importing \in [parsing: BOOLEAN, text: Env!Text] \cup {None}
  /\ edits \in 0..MaxEdits

LEMMA EnvTexts ==
  ASSUME Env!EnvEditorAssumption
  PROVE  /\ \A l \in Lists: Env!stringify(l) \in Env!Text
         /\ Env!Blank \in Env!Text /\ Typed \subseteq Env!Text /\ None \notin Env!Text /\ NoVariables \in Lists
         /\ \A t \in Env!Text: t.list \in Lists /\ [Env!Blank EXCEPT !.list = t.list] \in Env!Text
BY DEF Env!EnvEditorAssumption, Env!Text, Env!stringify, Env!Blank

LEMMA LoadedTypes ==
  ASSUME Env!EnvEditorAssumption, Flags, NEW p \in Paths, NEW t \in Env!Text, Env!Load(p, t)
  PROVE  /\ variables' \in Lists /\ rawContent' \in Env!Text /\ loaded' \in Env!Text /\ canEdit' \in BOOLEAN
         /\ from' \in Paths
BY EnvTexts DEF Env!Load, Flags

LEMMA EnvTypesStep ==
  ASSUME Env!EnvEditorAssumption, Flags, EnvTypes, [Env!Next]_(Env!vars) PROVE EnvTypes'
<1> USE DEF EnvTypes, Env!server, Env!content, Env!queries, Env!requests, Env!history
<1>1. CASE Env!Open
  BY <1>1 DEF Env!Open
<1>2. CASE Env!Cancel
  BY <1>2, EnvTexts DEF Env!Cancel, Env!Close
<1>3. CASE Env!handleRefresh
  <2>1. isFetching' = TRUE /\ committedPath' = path /\ UNCHANGED <<file, open, mode, path, switching, importing, saving, edits>>
    BY <1>3 DEF Env!handleRefresh
  <2>2. CASE cache[path] # None /\ status' = "success" /\ Env!Load(path, cache[path]) /\ UNCHANGED cache
    <3>1. cache[path] \in Env!Text
      BY <2>2
    <3> QED
      BY <2>1, <2>2, <3>1, LoadedTypes
  <2>3. CASE cache' = [cache EXCEPT ![path] = None] /\ status' = "pending"
             /\ UNCHANGED <<variables, rawContent, canEdit, from, loaded>>
    BY <2>1, <2>3
  <2>4. CASE path = committedPath /\ UNCHANGED <<variables, rawContent, canEdit, cache, from, loaded>>
             /\ status' = (IF cache[path] = None THEN "pending" ELSE status)
    BY <2>1, <2>4
  <2> QED
    BY <1>3, <2>2, <2>3, <2>4 DEF Env!handleRefresh
<1>4. CASE Env!FetchAnswer
  <2>1. file[committedPath] \in Env!Text
    OBVIOUS
  <2>2. cache' \in [Paths -> Env!Text \cup {None}] /\ cache'[committedPath] # None
    BY <1>4, <2>1, EnvTexts DEF Env!FetchAnswer, Env!Stored
  <2> QED
    BY <1>4, <2>1, <2>2, LoadedTypes DEF Env!FetchAnswer
<1>5. CASE Env!FetchError
  BY <1>5 DEF Env!FetchError
<1>6. CASE Env!switchMode
  <2>1. CASE mode' = "classic" /\ UNCHANGED switching
    BY <1>6, <2>1 DEF Env!switchMode
  <2>2. CASE switching' = [mode |-> mode, value |-> IF mode = "variables" THEN variables ELSE rawContent] /\ UNCHANGED mode
    <3>1. switching' \in Env!Sent
      BY <2>2 DEF Env!Sent
    <3> QED
      BY <1>6, <2>2, <3>1 DEF Env!switchMode
  <2> QED
    BY <1>6, <2>1, <2>2 DEF Env!switchMode
<1>7. CASE Env!SwitchAnswer
  <2>1. switching \in Env!Sent /\ switching' = None
        /\ UNCHANGED <<file, open, isFetching, canEdit, path, committedPath, cache, status, importing, saving, edits, from, loaded>>
    BY <1>7 DEF Env!SwitchAnswer
  <2>2. CASE switching.mode = "variables" /\ mode' = "classic" /\ rawContent' = Env!stringify(switching.value)
             /\ UNCHANGED variables
    <3>1. switching.value \in Lists
      BY <2>1, <2>2 DEF Env!Sent
    <3> QED
      BY <2>1, <2>2, <3>1, EnvTexts
  <2>3. CASE switching.mode = "classic" /\ mode' = "variables" /\ Env!Parsed(switching.value.list)
    <3>1. switching.value \in Env!Text
      BY <2>1, <2>3 DEF Env!Sent
    <3> QED
      BY <2>1, <2>3, <3>1, EnvTexts DEF Env!Parsed
  <2> QED
    BY <1>7, <2>2, <2>3 DEF Env!SwitchAnswer
<1>8. CASE Env!SwitchError \/ Env!SaveError \/ Env!ImportError \/ UNCHANGED Env!vars
  BY <1>8 DEF Env!SwitchError, Env!SwitchEnded, Env!SaveError, Env!ImportError, Env!vars
<1>9. CASE Env!ImportParse
  <2>1. importing' \in [parsing: BOOLEAN, text: Env!Text]
    BY <1>9 DEF Env!ImportParse
  <2> QED
    BY <1>9, <2>1 DEF Env!ImportParse
<1>10. CASE Env!ImportAnswer
  <2>1. importing \in [parsing: BOOLEAN, text: Env!Text]
    BY <1>10 DEF Env!ImportAnswer, Env!isUploading
  <2> QED
    BY <1>10, <2>1, EnvTexts DEF Env!ImportAnswer
<1>11. CASE Env!submit
  <2>1. saving' \in Env!Sent
    BY <1>11 DEF Env!submit, Env!Sent
  <2> QED
    BY <1>11, <2>1 DEF Env!submit
<1>12. CASE Env!SaveAnswer(committedPath)
  <2>1. saving \in Env!Sent
    BY <1>12 DEF Env!SaveAnswer
  <2>2. (IF saving.mode = "classic" THEN saving.value ELSE Env!stringify(saving.value)) \in Env!Text
    BY <2>1, EnvTexts DEF Env!Sent
  <2>3. file' \in [Paths -> Env!Text]
    BY <1>12, <2>2 DEF Env!SaveAnswer
  <2> QED
    BY <1>12, <2>3, EnvTexts DEF Env!SaveAnswer, Env!Close
<1>13. ASSUME NEW l \in Lists, Env!handleVariableChange(l) PROVE EnvTypes'
  <2>1. edits' \in 0..MaxEdits
    BY <1>13 DEF Env!handleVariableChange, Env!EnvEditorAssumption
  <2> QED
    BY <1>13, <2>1 DEF Env!handleVariableChange
<1>14. ASSUME NEW t \in Typed, Env!TypeRaw(t) \/ Env!handlePaste(t) PROVE EnvTypes'
  <2>1. edits' \in 0..MaxEdits
    BY <1>14 DEF Env!TypeRaw, Env!handlePaste, Env!EnvEditorAssumption
  <2>2. t \in Env!Text
    BY EnvTexts
  <2>3. CASE Env!TypeRaw(t)
    BY <2>1, <2>2, <2>3 DEF Env!TypeRaw
  <2>4. CASE Env!handlePaste(t)
    BY <2>1, <2>2, <2>4 DEF Env!handlePaste
  <2> QED
    BY <1>14, <2>3, <2>4
<1>15. ASSUME NEW p \in Paths, Env!ChangePath(p) PROVE EnvTypes'
  <2>1. edits' \in 0..MaxEdits
    BY <1>15 DEF Env!ChangePath, Env!EnvEditorAssumption
  <2> QED
    BY <1>15, <2>1 DEF Env!ChangePath
<1> QED
  BY <1>1, <1>2, <1>3, <1>4, <1>5, <1>6, <1>7, <1>8, <1>9, <1>10, <1>11, <1>12, <1>13, <1>14, <1>15 DEF Env!Next

LEMMA EnvInvariant == ASSUME Env!EnvEditorAssumption PROVE Env!Init /\ [][Env!Next]_(Env!vars) => [](EnvInv /\ EnvTypes)
<1>1. Env!Init => EnvInv /\ EnvTypes
  <2> SUFFICES ASSUME Env!Init PROVE EnvTypes
    BY EnvInit
  <2>1. file \in [Paths -> Env!Text] /\ cache \in [Paths -> Env!Text \cup {None}]
    BY EnvTexts DEF Env!Init
  <2>2. DefaultPath \in Paths /\ 0 \in 0..MaxEdits
    BY DEF Env!EnvEditorAssumption
  <2>3. /\ status = "pending" /\ variables = NoVariables /\ rawContent = Env!Blank /\ loaded = Env!Blank
        /\ switching = None /\ saving = None /\ importing = None /\ canEdit = None /\ from = None /\ edits = 0
        /\ mode = "variables" /\ path = DefaultPath /\ committedPath = DefaultPath /\ open = FALSE /\ isFetching = FALSE
    BY DEF Env!Init
  <2> QED
    BY <2>1, <2>2, <2>3, EnvTexts DEF EnvTypes
<1>2. EnvInv /\ EnvTypes /\ [Env!Next]_(Env!vars) => (EnvInv /\ EnvTypes)'
  BY EnvStep, EnvTypesStep DEF EnvInv
<1> QED
  BY <1>1, <1>2, PTL

\* The sheet is always in a state it is declared to be in: what is sent and shown is a list or a text.
THEOREM EditorTypeOK == ASSUME Env!EnvEditorAssumption PROVE Env!Init /\ [][Env!Next]_(Env!vars) => []Env!TypeOK
<1>1. EnvInv /\ EnvTypes => Env!TypeOK
  BY DEF EnvInv, Flags, EnvTypes, Env!TypeOK
<1> QED
  BY <1>1, EnvInvariant, PTL

\* Save never sends what was not read from the file it writes, and both modes hold the same text until
\* it is edited, or an answer to older content comes.
THEOREM SavedFileWasRead ==
  ASSUME Env!EnvEditorAssumption
  PROVE  Env!Init /\ [][Env!Next]_(Env!vars) => [](Env!SavedWasRead /\ Env!ModesAgree /\ Env!NothingLostBySwitching)
<1>1. EnvInv => Env!SavedWasRead /\ Env!ModesAgree /\ Env!NothingLostBySwitching
  BY DEF EnvInv, ReadRule, Env!SavedWasRead, Env!CanSave, Env!busy, Env!ReadFailed
<1> QED
  BY <1>1, EnvInvariant, PTL
-----------------------------------------------------------------------------
(* The dialogs. *)

\* A frame for the active layer is of an opening that came before the dialog that is open.
FrameRule ==
  \A f \in frames: f.layer = "active" =>
    f.n <= opening["active"] /\ (f.n = opening["active"] => ~Dialogs!IsOpen("active"))
\* A dialog that is open has been opened.
OpenedRule == \A l \in Dialogs!Layers: Dialogs!IsOpen(l) => opening[l] # 0
DialogsInv ==
  Dialogs!TypeOK /\ Dialogs!DraftsAreFresh /\ Dialogs!DialogsBelongToThePage /\ FrameRule /\ OpenedRule

\* What closing does, for what is said here of the dialogs.
ClosingOf(layer) ==
  /\ shown' = [l \in Dialogs!Layers |-> IF l \in Dialogs!Closing(layer) THEN NoDialog ELSE shown[l]]
  /\ trigger' \in [Dialogs!Layers -> Dialogs!Elements \cup {NoElement}]
  /\ frames \subseteq frames' /\ frames' \subseteq [layer: Dialogs!Layers, n: Dialogs!Numbers, to: Dialogs!Elements]
  /\ \A f \in frames' \ frames: f.layer = layer /\ f.n = opening[layer]
  /\ draft' = [l \in Dialogs!Layers |-> IF shown'[l] = shown[l] THEN draft[l] ELSE 0]
  /\ focus' \in {focus, NoElement} /\ UNCHANGED <<opening, since>>

LEMMA ClosesLayer ==
  ASSUME Dialogs!DialogAssumption, Dialogs!TypeOK, NEW layer \in Dialogs!Layers, Dialogs!Close(layer)
  PROVE  ClosingOf(layer)
<1> USE DEF Dialogs!Close
<1>1. trigger' \in [Dialogs!Layers -> Dialogs!Elements \cup {NoElement}]
  BY DEF Dialogs!TypeOK
<1>2. trigger[layer] # NoElement =>
        [layer |-> layer, n |-> opening[layer], to |-> trigger[layer]]
          \in [layer: Dialogs!Layers, n: Dialogs!Numbers, to: Dialogs!Elements]
  BY DEF Dialogs!TypeOK
<1>3. /\ frames \subseteq frames' /\ frames' \subseteq [layer: Dialogs!Layers, n: Dialogs!Numbers, to: Dialogs!Elements]
      /\ \A f \in frames' \ frames: f.layer = layer /\ f.n = opening[layer]
  BY <1>2 DEF Dialogs!Restore, Dialogs!TypeOK
<1>4. draft' = [l \in Dialogs!Layers |-> IF shown'[l] = shown[l] THEN draft[l] ELSE 0]
  BY DEF Dialogs!Render, Dialogs!Identity
<1> QED
  BY <1>1, <1>3, <1>4 DEF ClosingOf

\* Closing keeps the invariant, and leaves no dialog when the active one is closed.
LEMMA ClosedDialogs ==
  ASSUME Dialogs!DialogAssumption, DialogsInv, NEW layer \in Dialogs!Layers, Dialogs!Close(layer),
         visit' \in [layer: Dialogs!Layers, n: Dialogs!Numbers, landed: BOOLEAN], page' \in 1..MaxPages,
         layer = "active" \/ page' = page
  PROVE  DialogsInv'
<1>1. ClosingOf(layer)
  BY ClosesLayer DEF DialogsInv
<1> USE <1>1 DEF ClosingOf, DialogsInv
<1>2. Dialogs!TypeOK'
  <2>1. 0 \in Dialogs!Numbers
    BY DEF Dialogs!Numbers, Dialogs!DialogAssumption
  <2>2. draft' \in [Dialogs!Layers -> Dialogs!Numbers] /\ shown' \in [Dialogs!Layers -> Keys \cup {NoDialog}]
    BY <2>1 DEF Dialogs!TypeOK
  <2>3. focus' \in Dialogs!Elements \cup {NoElement}
    BY DEF Dialogs!TypeOK
  <2> QED
    BY <2>2, <2>3 DEF Dialogs!TypeOK
<1>3. Dialogs!DraftsAreFresh'
  BY DEF Dialogs!TypeOK, Dialogs!DraftsAreFresh, Dialogs!IsOpen
<1>4. Dialogs!DialogsBelongToThePage'
  BY DEF Dialogs!DialogsBelongToThePage, Dialogs!IsOpen, Dialogs!Closing, Dialogs!Layers
<1>5. FrameRule'
  <2> SUFFICES ASSUME NEW f \in frames', f.layer = "active"
               PROVE  f.n <= opening["active"] /\ (f.n = opening["active"] => shown'["active"] = NoDialog)
    BY DEF FrameRule, Dialogs!IsOpen
  <2>1. CASE f \in frames
    BY <2>1 DEF FrameRule, Dialogs!IsOpen, Dialogs!Closing, Dialogs!Layers
  <2>2. CASE f \notin frames
    <3>1. layer = "active" /\ f.n = opening["active"] /\ opening["active"] \in 0..MaxOpens
      BY <2>2 DEF Dialogs!TypeOK, Dialogs!Layers, Dialogs!Numbers
    <3> QED
      BY <3>1 DEF Dialogs!Closing, Dialogs!Layers, Dialogs!DialogAssumption
  <2> QED
    BY <2>1, <2>2
<1>6. OpenedRule'
  BY DEF OpenedRule, Dialogs!IsOpen
<1> QED
  BY <1>2, <1>3, <1>4, <1>5, <1>6

\* A dialog is asked to close by one of its openings.
LEMMA AskedToClose ==
  ASSUME Dialogs!DialogAssumption, DialogsInv, NEW layer \in Dialogs!Layers, NEW n, Dialogs!OnClose(layer, n),
         visit' \in [layer: Dialogs!Layers, n: Dialogs!Numbers, landed: BOOLEAN], UNCHANGED page
  PROVE  DialogsInv'
<1>1. CASE Dialogs!IsItsOwn(layer, n)
  <2>1. Dialogs!Close(layer) /\ page' \in 1..MaxPages
    BY <1>1 DEF Dialogs!OnClose, DialogsInv, Dialogs!TypeOK
  <2> QED
    BY <2>1, ClosedDialogs
<1>2. CASE ~Dialogs!IsItsOwn(layer, n)
  BY <1>2 DEF Dialogs!OnClose, DialogsInv, Dialogs!TypeOK, Dialogs!DraftsAreFresh, Dialogs!DialogsBelongToThePage,
              FrameRule, OpenedRule, Dialogs!IsOpen
<1> QED
  BY <1>1, <1>2

LEMMA DialogsInit == ASSUME Dialogs!DialogAssumption, Dialogs!Init PROVE DialogsInv
<1>1. 0 \in Dialogs!Numbers /\ 1 \in 1..MaxPages
  BY DEF Dialogs!Numbers, Dialogs!DialogAssumption
<1>2. Dialogs!Element("page", 1) \in Dialogs!Elements
  BY <1>1 DEF Dialogs!Element, Dialogs!Elements
<1>3. Dialogs!NoVisit \in [layer: Dialogs!Layers, n: Dialogs!Numbers, landed: BOOLEAN]
  BY <1>1 DEF Dialogs!NoVisit, Dialogs!Layers
<1>4. Dialogs!TypeOK
  BY <1>1, <1>2, <1>3 DEF Dialogs!Init, Dialogs!TypeOK
<1> QED
  BY <1>4 DEF Dialogs!Init, DialogsInv, Dialogs!DraftsAreFresh, Dialogs!DialogsBelongToThePage, FrameRule,
                OpenedRule, Dialogs!IsOpen

LEMMA DialogsStep == ASSUME Dialogs!DialogAssumption, DialogsInv, [Dialogs!Next]_(Dialogs!vars) PROVE DialogsInv'
<1> USE DEF DialogsInv
<1> DEFINE Visits == [layer: Dialogs!Layers, n: Dialogs!Numbers, landed: BOOLEAN]
<1>1. ASSUME NEW key \in Keys, Dialogs!Open(key) PROVE DialogsInv'
  <2>1. opening["active"] \in 0..MaxOpens /\ opening["active"] < MaxOpens /\ MaxOpens \in Nat /\ key # NoDialog
    BY <1>1 DEF Dialogs!Open, Dialogs!TypeOK, Dialogs!Layers, Dialogs!Numbers, Dialogs!DialogAssumption
  <2>2. opening' \in [Dialogs!Layers -> Dialogs!Numbers] /\ opening'["active"] = opening["active"] + 1
        /\ opening'["nested"] = opening["nested"]
    BY <1>1, <2>1 DEF Dialogs!Open, Dialogs!TypeOK, Dialogs!Layers, Dialogs!Numbers
  <2>3. shown' \in [Dialogs!Layers -> Keys \cup {NoDialog}] /\ shown'["active"] = key /\ shown'["nested"] = NoDialog
    BY <1>1 DEF Dialogs!Open, Dialogs!Layers
  <2>4. trigger' \in [Dialogs!Layers -> Dialogs!Elements \cup {NoElement}]
    BY <1>1 DEF Dialogs!Open, Dialogs!Layers, Dialogs!TypeOK
  <2>5. focus' \in Dialogs!Elements
    BY <1>1, <2>1 DEF Dialogs!Open, Dialogs!Element, Dialogs!Elements, Dialogs!Layers
  <2>6. draft' \in [Dialogs!Layers -> Dialogs!Numbers] /\ draft'["active"] = 0
        /\ draft'["nested"] \in {0, draft["nested"]} /\ (draft'["nested"] # 0 => shown["nested"] = shown'["nested"])
    BY <1>1, <2>1, <2>2
       DEF Dialogs!Open, Dialogs!Render, Dialogs!Identity, Dialogs!TypeOK, Dialogs!Layers, Dialogs!Numbers
  <2>7. since' \in [Dialogs!Layers -> 1..MaxPages] /\ since'["active"] = page
    BY <1>1 DEF Dialogs!Open, Dialogs!TypeOK, Dialogs!Layers
  <2>8. Dialogs!TypeOK'
    BY <1>1, <2>2, <2>3, <2>4, <2>5, <2>6, <2>7 DEF Dialogs!Open, Dialogs!TypeOK
  <2>9. Dialogs!DraftsAreFresh' /\ Dialogs!DialogsBelongToThePage'
    BY <1>1, <2>2, <2>3, <2>6, <2>7
       DEF Dialogs!Open, Dialogs!DraftsAreFresh, Dialogs!DialogsBelongToThePage, Dialogs!IsOpen,
                                   Dialogs!Layers
  <2>10. FrameRule'
    BY <1>1, <2>1, <2>2 DEF Dialogs!Open, FrameRule, Dialogs!TypeOK, Dialogs!Numbers
  <2>11. OpenedRule'
    BY <2>1, <2>2, <2>3 DEF OpenedRule, Dialogs!IsOpen, Dialogs!Layers
  <2> QED
    BY <2>8, <2>9, <2>10, <2>11
<1>2. ASSUME NEW key \in Keys, Dialogs!OpenNested(key) PROVE DialogsInv'
  <2>1. opening["nested"] \in 0..MaxOpens /\ opening["nested"] < MaxOpens /\ MaxOpens \in Nat /\ key # NoDialog
    BY <1>2 DEF Dialogs!OpenNested, Dialogs!TypeOK, Dialogs!Layers, Dialogs!Numbers, Dialogs!DialogAssumption
  <2>2. opening' \in [Dialogs!Layers -> Dialogs!Numbers] /\ opening'["nested"] = opening["nested"] + 1
        /\ opening'["active"] = opening["active"]
    BY <1>2, <2>1 DEF Dialogs!OpenNested, Dialogs!TypeOK, Dialogs!Layers, Dialogs!Numbers
  <2>3. shown' \in [Dialogs!Layers -> Keys \cup {NoDialog}] /\ shown'["nested"] = key /\ shown'["active"] = shown["active"]
    BY <1>2 DEF Dialogs!OpenNested, Dialogs!Layers, Dialogs!TypeOK
  <2>4. trigger' \in [Dialogs!Layers -> Dialogs!Elements \cup {NoElement}]
    BY <1>2 DEF Dialogs!OpenNested, Dialogs!TypeOK
  <2>5. focus' \in Dialogs!Elements
    BY <1>2, <2>1 DEF Dialogs!OpenNested, Dialogs!Element, Dialogs!Elements, Dialogs!Layers
  <2>6. draft' \in [Dialogs!Layers -> Dialogs!Numbers] /\ draft'["nested"] = 0 /\ draft'["active"] = draft["active"]
    BY <1>2, <2>1, <2>2, <2>3
       DEF Dialogs!OpenNested, Dialogs!Render, Dialogs!Identity, Dialogs!TypeOK, Dialogs!Layers, Dialogs!Numbers
  <2>7. since' \in [Dialogs!Layers -> 1..MaxPages] /\ since'["nested"] = page /\ since'["active"] = since["active"]
    BY <1>2 DEF Dialogs!OpenNested, Dialogs!TypeOK, Dialogs!Layers
  <2>8. Dialogs!TypeOK'
    BY <1>2, <2>2, <2>3, <2>4, <2>5, <2>6, <2>7 DEF Dialogs!OpenNested, Dialogs!TypeOK
  <2>9. Dialogs!DraftsAreFresh' /\ Dialogs!DialogsBelongToThePage'
    BY <1>2, <2>2, <2>3, <2>6, <2>7
       DEF Dialogs!OpenNested, Dialogs!DraftsAreFresh, Dialogs!DialogsBelongToThePage, Dialogs!IsOpen,
                                   Dialogs!Layers
  <2>10. FrameRule'
    BY <1>2, <2>2, <2>3 DEF Dialogs!OpenNested, FrameRule, Dialogs!IsOpen
  <2>11. OpenedRule'
    BY <2>1, <2>2, <2>3 DEF OpenedRule, Dialogs!IsOpen, Dialogs!Layers
  <2> QED
    BY <2>8, <2>9, <2>10, <2>11
<1>3. ASSUME NEW layer \in Dialogs!Layers, Dialogs!Dismiss(layer) PROVE DialogsInv'
  <2>1. visit' \in Visits
    BY <1>3 DEF Dialogs!Dismiss, Dialogs!TypeOK
  <2> QED
    BY <1>3, <2>1, AskedToClose DEF Dialogs!Dismiss
<1>4. ASSUME NEW layer \in Dialogs!Layers, Dialogs!Type(layer) PROVE DialogsInv'
  <2>1. Dialogs!IsOpen(layer) /\ opening[layer] \in 1..MaxOpens
    BY <1>4 DEF Dialogs!Type, Dialogs!OnTop, OpenedRule, Dialogs!TypeOK, Dialogs!Numbers, Dialogs!DialogAssumption
  <2>2. Dialogs!Element(layer, opening[layer]) \in Dialogs!Elements
    BY <2>1 DEF Dialogs!Element, Dialogs!Elements
  <2>3. Dialogs!TypeOK'
    BY <1>4, <2>2 DEF Dialogs!Type, Dialogs!TypeOK
  <2>4. Dialogs!DraftsAreFresh'
    BY <1>4, <2>1 DEF Dialogs!Type, Dialogs!DraftsAreFresh, Dialogs!IsOpen, Dialogs!TypeOK
  <2> QED
    BY <1>4, <2>3, <2>4 DEF Dialogs!Type, Dialogs!DialogsBelongToThePage, FrameRule, OpenedRule, Dialogs!IsOpen
<1>5. ASSUME NEW layer \in Dialogs!Layers, Dialogs!Submit(layer) PROVE DialogsInv'
  <2>1. visit' \in Visits
    BY <1>5 DEF Dialogs!Submit, Dialogs!TypeOK
  <2> QED
    BY <1>5, <2>1
       DEF Dialogs!Submit, Dialogs!TypeOK, Dialogs!DraftsAreFresh, Dialogs!DialogsBelongToThePage, FrameRule,
           OpenedRule,
                      Dialogs!IsOpen
<1>6. ASSUME Dialogs!Navigate, visit' \in Visits PROVE DialogsInv'
  <2>1. page' \in 1..MaxPages
    BY <1>6 DEF Dialogs!Navigate, Dialogs!TypeOK, Dialogs!DialogAssumption
  <2>2. CASE Dialogs!StaysOpen
    <3>1. shown["active"] \in RouteDialogs /\ UNCHANGED <<shown, opening, trigger, focus, frames, draft, since>>
      BY <1>6, <2>2 DEF Dialogs!Navigate, Dialogs!StaysOpen
    <3> QED
      BY <1>6, <2>1, <3>1
         DEF Dialogs!TypeOK, Dialogs!DraftsAreFresh, Dialogs!DialogsBelongToThePage, FrameRule, OpenedRule,
                              Dialogs!IsOpen
  <2>3. CASE ~Dialogs!StaysOpen
    <3>1. Dialogs!Close("active") /\ "active" \in Dialogs!Layers
      BY <1>6, <2>3 DEF Dialogs!Navigate, Dialogs!Layers
    <3> QED
      BY <1>6, <2>1, <3>1, ClosedDialogs
  <2> QED
    BY <2>2, <2>3
<1>7. Dialogs!NoVisit \in Visits
  BY DEF Dialogs!NoVisit, Dialogs!Layers, Dialogs!Numbers, Dialogs!DialogAssumption
<1>8. CASE Dialogs!Follow
  BY <1>6, <1>7, <1>8 DEF Dialogs!Follow
<1>9. ASSUME visit' \in Visits, UNCHANGED <<shown, opening, trigger, focus, frames, draft, since, page>> PROVE DialogsInv'
  BY <1>9
     DEF Dialogs!TypeOK, Dialogs!DraftsAreFresh, Dialogs!DialogsBelongToThePage, FrameRule, OpenedRule,
         Dialogs!IsOpen
<1>10. CASE Dialogs!Land
  <2>1. visit' \in Visits
    BY <1>10 DEF Dialogs!Land, Dialogs!TypeOK
  <2> QED
    BY <1>6, <1>9, <1>10, <2>1 DEF Dialogs!Land
<1>11. CASE Dialogs!Succeed
  <2>1. visit.layer \in Dialogs!Layers
    BY DEF Dialogs!TypeOK
  <2> QED
    BY <1>7, <1>11, <2>1, AskedToClose DEF Dialogs!Succeed
<1>12. CASE Dialogs!Refuse
  BY <1>7, <1>9, <1>12 DEF Dialogs!Refuse
<1>13. CASE Dialogs!PageCloses
  <2>1. Dialogs!Close("active") /\ "active" \in Dialogs!Layers /\ visit' \in Visits /\ page' \in 1..MaxPages
    BY <1>13 DEF Dialogs!PageCloses, Dialogs!Layers, Dialogs!TypeOK
  <2> QED
    BY <2>1, ClosedDialogs
<1>14. ASSUME NEW f \in frames, Dialogs!Frame(f) PROVE DialogsInv'
  <2>1. focus' \in Dialogs!Elements \cup {NoElement}
    BY <1>14 DEF Dialogs!Frame, Dialogs!TypeOK
  <2> QED
    BY <1>14, <2>1 DEF Dialogs!Frame, Dialogs!TypeOK, Dialogs!DraftsAreFresh, Dialogs!DialogsBelongToThePage, FrameRule,
                       OpenedRule, Dialogs!IsOpen
<1>15. CASE UNCHANGED Dialogs!vars
  <2>1. visit' \in Visits
    BY <1>15 DEF Dialogs!vars, Dialogs!TypeOK
  <2> QED
    BY <1>9, <1>15, <2>1 DEF Dialogs!vars
<1> QED
  BY <1>1, <1>2, <1>3, <1>4, <1>5, <1>8, <1>10, <1>11, <1>12, <1>13, <1>14, <1>15 DEF Dialogs!Next

LEMMA DialogsInvariant == ASSUME Dialogs!DialogAssumption PROVE Dialogs!Spec => []DialogsInv
BY DialogsInit, DialogsStep, PTL DEF Dialogs!Spec

\* A dialog opens without the text of an earlier opening, and one of a page that was left is not on the
\* screen: on the screen is what belongs to the page, or follows the URL.
THEOREM DialogsOpenFresh ==
  ASSUME Dialogs!DialogAssumption
  PROVE  Dialogs!Spec => [](Dialogs!TypeOK /\ Dialogs!DraftsAreFresh /\ Dialogs!DialogsBelongToThePage)
<1>1. DialogsInv => Dialogs!TypeOK /\ Dialogs!DraftsAreFresh /\ Dialogs!DialogsBelongToThePage
  BY DEF DialogsInv
<1> QED
  BY <1>1, DialogsInvariant, PTL

\* An answer that comes late closes the dialog that asked for it, if that is still open, and no other;
\* a focus that is restored late is not taken out of a dialog opened since.
THEOREM LateAnswersSpareDialogs ==
  ASSUME Dialogs!DialogAssumption
  PROVE  Dialogs!Spec => [][Dialogs!LateAnswerIsHarmless /\ Dialogs!FocusStaysInNewDialog]_(Dialogs!vars)
<1>1. ASSUME DialogsInv, Dialogs!Next PROVE Dialogs!FocusStaysInNewDialog
  <2> SUFFICES ASSUME NEW f \in frames \ frames', f.layer = "active", Dialogs!IsOpen("active") PROVE focus' = focus
    BY DEF Dialogs!FocusStaysInNewDialog
  <2>1. ~Dialogs!IsCurrent(f)
    BY <1>1 DEF DialogsInv, FrameRule, Dialogs!IsCurrent
  <2>2. Dialogs!Frame(f)
    <3>1. \A layer \in Dialogs!Layers: ~Dialogs!Close(layer)
      BY DEF Dialogs!Close
    <3>2. "active" \in Dialogs!Layers /\ visit.layer \in Dialogs!Layers
      BY <1>1 DEF Dialogs!Layers, DialogsInv, Dialogs!TypeOK
    <3>3. \A layer \in Dialogs!Layers: \A n: ~Dialogs!OnClose(layer, n)
      BY <3>1 DEF Dialogs!OnClose
    <3>4. ~Dialogs!Navigate
      BY <3>1, <3>2 DEF Dialogs!Navigate
    <3>5. ~Dialogs!Follow /\ ~Dialogs!Land /\ ~Dialogs!Succeed /\ ~Dialogs!Refuse /\ ~Dialogs!PageCloses
      BY <3>1, <3>2, <3>3, <3>4 DEF Dialogs!Follow, Dialogs!Land, Dialogs!Succeed, Dialogs!Refuse, Dialogs!PageCloses
    <3>6. /\ \A key \in Keys: ~Dialogs!Open(key) /\ ~Dialogs!OpenNested(key)
          /\ \A layer \in Dialogs!Layers: ~Dialogs!Dismiss(layer) /\ ~Dialogs!Type(layer) /\ ~Dialogs!Submit(layer)
      BY <3>3 DEF Dialogs!Open, Dialogs!OpenNested, Dialogs!Dismiss, Dialogs!Type, Dialogs!Submit
    <3> QED
      BY <1>1, <3>5, <3>6 DEF Dialogs!Next, Dialogs!Frame
  <2> QED
    BY <2>1, <2>2 DEF Dialogs!Frame
<1>2. ASSUME DialogsInv, Dialogs!Next PROVE Dialogs!LateAnswerIsHarmless
  <2> SUFFICES ASSUME NEW l \in Dialogs!Layers, visit.landed, ~visit'.landed, page' = page, Dialogs!IsOpen(l), ~Dialogs!IsOpen(l)'
               PROVE  \E m \in {l, "active"}: visit.layer = m /\ visit.n = opening[m]
    BY DEF Dialogs!LateAnswerIsHarmless
  <2>1. Dialogs!Succeed
    <3>1. visit' # visit /\ shown' # shown
      BY DEF Dialogs!IsOpen
    <3>2. ~Dialogs!Land /\ ~Dialogs!Refuse /\ ~Dialogs!PageCloses
      BY <3>1 DEF Dialogs!Land, Dialogs!Refuse, Dialogs!PageCloses
    <3>3. ~Dialogs!Follow
      BY <1>2 DEF Dialogs!Follow, Dialogs!Navigate, DialogsInv, Dialogs!TypeOK
    <3>4. /\ \A key \in Keys: ~Dialogs!Open(key) /\ ~Dialogs!OpenNested(key)
          /\ \A layer \in Dialogs!Layers: ~Dialogs!Dismiss(layer) /\ ~Dialogs!Type(layer) /\ ~Dialogs!Submit(layer)
          /\ \A f \in frames: ~Dialogs!Frame(f)
      BY <3>1 DEF Dialogs!Open, Dialogs!OpenNested, Dialogs!Dismiss, Dialogs!Type, Dialogs!Submit, Dialogs!Frame
    <3> QED
      BY <1>2, <3>2, <3>3, <3>4 DEF Dialogs!Next
  <2>2. visit.layer \in Dialogs!Layers
    BY <1>2 DEF DialogsInv, Dialogs!TypeOK
  <2>3. Dialogs!IsItsOwn(visit.layer, visit.n)
    BY <2>1 DEF Dialogs!Succeed, Dialogs!OnClose, Dialogs!IsOpen
  <2>4. shown' = [k \in Dialogs!Layers |-> IF k \in Dialogs!Closing(visit.layer) THEN NoDialog ELSE shown[k]]
    BY <2>1, <2>3 DEF Dialogs!Succeed, Dialogs!OnClose, Dialogs!Close
  <2>5. l \in Dialogs!Closing(visit.layer)
    BY <2>4 DEF Dialogs!IsOpen
  <2> QED
    BY <2>2, <2>3, <2>5 DEF Dialogs!Closing, Dialogs!IsItsOwn, Dialogs!Layers
<1>3. DialogsInv /\ [Dialogs!Next]_(Dialogs!vars)
        => [Dialogs!LateAnswerIsHarmless /\ Dialogs!FocusStaysInNewDialog]_(Dialogs!vars)
  BY <1>1, <1>2
<1> QED
  BY <1>3, DialogsInvariant, PTL DEF Dialogs!Spec
-----------------------------------------------------------------------------
(* The terminal.  What it shares by name with the socket above is of its own. *)

\* What is under way gets no further than it has come: before the handshake the
\* server has no session for an attempt.
TerminalTypes ==
  /\ mounted \in BOOLEAN /\ user \in Users /\ wsRef \in 0..MaxAttempts
  /\ status \in {"disconnected", "connecting", "connected", "error"}
  /\ phase \in [Terminal!Attempts -> Terminal!Phases] /\ by \in [Terminal!Attempts -> Users \cup {NoUser}]
  /\ sessions \in [Terminal!Attempts -> {"none", "bare", "joined"}]
  /\ overlapped \in BOOLEAN /\ leftEarly \in BOOLEAN
Inboxes == [Terminal!Attempts -> Seq(Terminal!Messages)]
Unjoined == \A n \in Terminal!Attempts: phase[n] \in {"none", "asking", "opening"} => sessions[n] = "none"
TerminalShape == TerminalTypes /\ inbox \in Inboxes /\ Unjoined

\* While sessions are asked for one at a time there is one attempt at a time; the
\* page knows its socket, and it is for the user that is selected.
UnderWay == Terminal!Asking \cup Terminal!Live
OneSession ==
  ~overlapped =>
    /\ \A m, n \in UnderWay: m = n
    /\ \A n \in Terminal!Live: wsRef = n
    /\ mounted =>
         /\ \A n \in Terminal!Asking: wsRef = 0 /\ by[n] = user
         /\ wsRef # 0 => wsRef \in Terminal!Live /\ by[wsRef] = user
         /\ status = "connected" => wsRef # 0 /\ phase[wsRef] = "open"
    /\ ~mounted /\ ~leftEarly => UnderWay = {}
-----------------------------------------------------------------------------
\* A message that is read or sent.
LEMMA InboxMoves ==
  /\ \A i \in Inboxes, n \in Terminal!Attempts, w \in Terminal!Messages: [i EXCEPT ![n] = Append(@, w)] \in Inboxes
  /\ \A i \in Inboxes, n \in Terminal!Attempts: i[n] # <<>> =>
       Head(i[n]) \in Terminal!Messages /\ [i EXCEPT ![n] = Tail(@)] \in Inboxes
BY DEF Inboxes

LEMMA TerminalInit == ASSUME Terminal!ConsoleAssumption, Terminal!Init PROVE TerminalShape /\ OneSession
<1>1. 0 \in 0..MaxAttempts /\ 1 \in Terminal!Attempts
  BY DEF Terminal!ConsoleAssumption, Terminal!Attempts
<1>2. <<>> \in Seq(Terminal!Messages)
  OBVIOUS
<1>3. inbox \in Inboxes
  BY <1>2 DEF Terminal!Init, Terminal!Attempts, Terminal!Attempts, Inboxes
<1>4. TerminalTypes /\ Unjoined
  BY <1>1 DEF Terminal!Init, Terminal!Attempts, Terminal!Attempts, Terminal!Phases, TerminalTypes, Unjoined
<1>5. OneSession
  BY <1>1 DEF Terminal!Init, Terminal!Attempts, Terminal!Attempts, Terminal!Asking, Terminal!Live, OneSession, UnderWay
<1> QED
  BY <1>3, <1>4, <1>5 DEF TerminalShape

\* A new session gives up the socket that is known and begins an attempt.
Asks(n, u) ==
  /\ phase[n] = "none" /\ phase' = [Terminal!Shut(phase) EXCEPT ![n] = "asking"]
  /\ by' = [by EXCEPT ![n] = u] /\ user' = u
  /\ wsRef' = 0 /\ status' = "connecting" /\ overlapped' = (overlapped \/ Terminal!Asking # {})
  /\ UNCHANGED <<sessions, inbox, leftEarly>> /\ mounted /\ mounted'

LEMMA Asked ==
  ASSUME TerminalShape, Terminal!NewSession \/ \E u \in Users: Terminal!ChangeUser(u)
  PROVE  \E n \in Terminal!Attempts, u \in Users: Asks(n, u)
BY DEF TerminalShape, TerminalTypes, Terminal!NewSession, Terminal!ChangeUser, Terminal!Connect,
       Terminal!Attempts, Terminal!Attempts, Asks

LEMMA TerminalShapeStep ==
  ASSUME Terminal!ConsoleAssumption, TerminalShape, [Terminal!Next]_(Terminal!vars)
  PROVE  TerminalShape'
<1> USE DEF TerminalShape, TerminalTypes, Unjoined, Terminal!Phases, Terminal!page, Terminal!history
<1>0. Terminal!Attempts = Terminal!Attempts /\ 0 \in 0..MaxAttempts /\ Terminal!Attempts \subseteq 0..MaxAttempts
  BY DEF Terminal!ConsoleAssumption, Terminal!Attempts, Terminal!Attempts
<1>1. ASSUME NEW n \in Terminal!Attempts, NEW u \in Users, Asks(n, u) PROVE TerminalShape'
  BY <1>0, <1>1 DEF Asks, Terminal!Shut
<1>2. CASE Terminal!Leave
  <2>1. phase' \in [Terminal!Attempts -> Terminal!Phases] /\ leftEarly' \in BOOLEAN
    BY <1>2 DEF Terminal!Leave, Terminal!Shut
  <2> QED
    BY <1>2, <2>1 DEF Terminal!Leave, Terminal!Shut
<1>3. ASSUME NEW n \in Terminal!Attempts, Terminal!TokenFails(n) \/ Terminal!OpenSocket(n) PROVE TerminalShape'
  BY <1>0, <1>3 DEF Terminal!TokenFails, Terminal!OpenSocket
<1>4. ASSUME NEW n \in Terminal!Attempts, Terminal!Receive(n) PROVE TerminalShape'
  <2>1. Head(inbox[n]) \in Terminal!Messages /\ inbox' \in Inboxes
    BY <1>4, InboxMoves DEF Terminal!Receive
  <2> QED
    BY <1>4, <2>1 DEF Terminal!Receive, Terminal!Messages
<1>5. ASSUME NEW n \in Terminal!Attempts, Terminal!Accept(n) \/ Terminal!AcceptFails(n) \/ Terminal!SessionEnds(n)
      PROVE  TerminalShape'
  <2>1. inbox' \in Inboxes
    <3>1. PICK w \in Terminal!Messages: Terminal!Say(n, w)
      BY <1>5 DEF Terminal!Accept, Terminal!AcceptFails, Terminal!SessionEnds, Terminal!Messages
    <3> QED
      BY <3>1, InboxMoves DEF Terminal!Say
  <2> QED
    BY <1>5, <2>1 DEF Terminal!Accept, Terminal!AcceptFails, Terminal!SessionEnds
<1>6. ASSUME NEW n \in Terminal!Attempts, Terminal!Refuse(n) \/ Terminal!SocketCloses(n) PROVE TerminalShape'
  <2>1. wsRef' \in 0..MaxAttempts /\ status' \in {"disconnected", "connecting", "connected", "error"}
    BY <1>0, <1>6 DEF Terminal!Refuse, Terminal!SocketCloses, Terminal!Ended
  <2> QED
    BY <1>6, <2>1 DEF Terminal!Refuse, Terminal!SocketCloses
<1>7. ASSUME NEW n \in Terminal!Attempts, Terminal!Forget(n) PROVE TerminalShape'
  BY <1>7 DEF Terminal!Forget, Terminal!Closed
<1>8. CASE UNCHANGED Terminal!vars
  BY <1>8 DEF Terminal!vars
<1> QED
  BY <1>0, <1>1, <1>2, <1>3, <1>4, <1>5, <1>6, <1>7, <1>8, Asked DEF Terminal!Next

LEMMA OneSessionStep ==
  ASSUME Terminal!ConsoleAssumption, TerminalShape, OneSession, [Terminal!Next]_(Terminal!vars)
  PROVE  OneSession'
<1> USE DEF TerminalShape, TerminalTypes, Terminal!Phases, Terminal!page, Terminal!history
<1> USE DEF OneSession, UnderWay, Terminal!Asking, Terminal!Live
<1>0. Terminal!Attempts = Terminal!Attempts /\ \A n \in Terminal!Attempts: n # 0
  BY DEF Terminal!Attempts, Terminal!Attempts
<1>1. ASSUME NEW n \in Terminal!Attempts, NEW u \in Users, Asks(n, u) PROVE OneSession'
  <2> SUFFICES ASSUME ~overlapped' PROVE OneSession'
    OBVIOUS
  <2>1. ~overlapped /\ \A m \in Terminal!Attempts: phase[m] # "asking" /\ (phase[m] \in {"opening", "open"} => wsRef = m)
    BY <1>0, <1>1 DEF Asks
  <2>2. phase'[n] = "asking" /\ by'[n] = u /\ user' = u /\ wsRef' = 0 /\ status' = "connecting" /\ mounted'
    BY <1>1 DEF Asks, Terminal!Shut
  <2>3. \A m \in Terminal!Attempts: m # n => phase'[m] \notin {"asking", "opening", "open"}
    BY <1>0, <1>1, <2>1 DEF Asks, Terminal!Shut
  <2> QED
    BY <1>0, <2>2, <2>3
<1>2. CASE Terminal!Leave
  <2>1. \A m \in Terminal!Attempts: phase'[m] = "asking" => phase[m] = "asking"
    BY <1>2 DEF Terminal!Leave, Terminal!Shut
  <2>2. ~overlapped => \A m \in Terminal!Attempts: phase'[m] \notin {"opening", "open"}
    BY <1>0, <1>2 DEF Terminal!Leave, Terminal!Shut
  <2>3. ~mounted' /\ overlapped' = overlapped /\ wsRef' = wsRef /\ (~leftEarly' => Terminal!Asking = {})
    BY <1>2 DEF Terminal!Leave
  <2> QED
    BY <1>0, <2>1, <2>2, <2>3
<1>3. ASSUME NEW n \in Terminal!Attempts, Terminal!TokenFails(n) PROVE OneSession'
  BY <1>0, <1>3 DEF Terminal!TokenFails
<1>4. ASSUME NEW n \in Terminal!Attempts, Terminal!OpenSocket(n) PROVE OneSession'
  BY <1>0, <1>4 DEF Terminal!OpenSocket
<1>5. ASSUME NEW n \in Terminal!Attempts, Terminal!Receive(n) PROVE OneSession'
  BY <1>0, <1>5 DEF Terminal!Receive
<1>6. ASSUME NEW n \in Terminal!Attempts, Terminal!Accept(n) \/ Terminal!AcceptFails(n) PROVE OneSession'
  <2>1. phase[n] = "opening" /\ phase' = [phase EXCEPT ![n] = "open"]
        /\ UNCHANGED <<mounted, user, status, wsRef, by, overlapped, leftEarly>>
    BY <1>6 DEF Terminal!Accept, Terminal!AcceptFails
  <2> QED
    BY <1>0, <2>1
<1>7. ASSUME NEW n \in Terminal!Attempts, Terminal!Refuse(n) \/ Terminal!SocketCloses(n) PROVE OneSession'
  <2>1. /\ phase[n] \in {"opening", "open"} /\ phase' = [phase EXCEPT ![n] = "closed"]
        /\ UNCHANGED <<mounted, user, by, overlapped, leftEarly>>
        /\ IF wsRef = n THEN status' = "disconnected" /\ wsRef' = 0 ELSE UNCHANGED <<status, wsRef>>
    BY <1>7 DEF Terminal!Refuse, Terminal!SocketCloses, Terminal!Ended, Terminal!Mine
  <2> QED
    BY <1>0, <2>1
<1>8. CASE UNCHANGED Terminal!vars \/ \E n \in Terminal!Attempts: Terminal!SessionEnds(n) \/ Terminal!Forget(n)
  <2>1. UNCHANGED <<mounted, user, status, wsRef, phase, by, overlapped, leftEarly>>
    BY <1>8 DEF Terminal!vars, Terminal!SessionEnds, Terminal!Forget
  <2> QED
    BY <2>1
<1> QED
  BY <1>0, <1>1, <1>2, <1>3, <1>4, <1>5, <1>6, <1>7, <1>8, Asked DEF Terminal!Next

\* The instance counts as this module does.
LEMMA SameCardinality == \A S: Terminal!Cardinality(S) = Cardinality(S)
BY Zenon DEF Terminal!Cardinality, Cardinality

LEMMA FewSessions ==
  ASSUME Terminal!ConsoleAssumption
  PROVE  IsFiniteSet(Terminal!UserConnections) /\ Cardinality(Terminal!UserConnections) \in Nat
<1>1. IsFiniteSet(Terminal!Attempts)
  BY FS_Interval DEF Terminal!Attempts, Terminal!ConsoleAssumption
<1> QED
  BY <1>1, FS_Subset, FS_CardinalityType DEF Terminal!UserConnections, Terminal!Attempts, Terminal!Attempts

LEMMA SessionCapStep ==
  ASSUME Terminal!ConsoleAssumption, TerminalShape, Terminal!PerUserCap, [Terminal!Next]_(Terminal!vars)
  PROVE  Terminal!PerUserCap'
<1> USE DEF TerminalShape, TerminalTypes, Terminal!page, Terminal!history
<1>0. Terminal!Attempts = Terminal!Attempts
  BY DEF Terminal!Attempts, Terminal!Attempts
<1>1. ASSUME Terminal!UserConnections' \subseteq Terminal!UserConnections PROVE Terminal!PerUserCap'
  <2>1. /\ Cardinality(Terminal!UserConnections') <= Cardinality(Terminal!UserConnections)
        /\ Cardinality(Terminal!UserConnections') \in Nat
    BY <1>1, FewSessions, FS_Subset, FS_CardinalityType
  <2> QED
    BY <2>1, FewSessions, SameCardinality DEF Terminal!PerUserCap, Terminal!ConsoleAssumption
<1>2. ASSUME NEW n \in Terminal!Attempts, Terminal!Accept(n) \/ Terminal!AcceptFails(n) PROVE Terminal!PerUserCap'
  <2>1. ~Terminal!Full /\ Terminal!UserConnections' = Terminal!UserConnections \cup {n}
    BY <1>0, <1>2 DEF Terminal!Accept, Terminal!AcceptFails, Terminal!UserConnections
  <2>2. Cardinality(Terminal!UserConnections \cup {n}) =
          IF n \in Terminal!UserConnections THEN Cardinality(Terminal!UserConnections)
          ELSE Cardinality(Terminal!UserConnections) + 1
    BY FewSessions, FS_AddElement
  <2> QED
    BY <2>1, <2>2, FewSessions, SameCardinality DEF Terminal!PerUserCap, Terminal!Full, Terminal!ConsoleAssumption
<1>3. ASSUME NEW n \in Terminal!Attempts, Terminal!SessionEnds(n) \/ Terminal!Forget(n) PROVE Terminal!PerUserCap'
  <2>1. Terminal!UserConnections' \subseteq Terminal!UserConnections
    BY <1>0, <1>3 DEF Terminal!SessionEnds, Terminal!Forget, Terminal!Closed, Terminal!UserConnections
  <2> QED
    BY <1>1, <2>1
<1>4. ASSUME UNCHANGED sessions PROVE Terminal!PerUserCap'
  BY <1>1, <1>4 DEF Terminal!UserConnections
<1>5. ASSUME NEW n \in Terminal!Attempts,
             \/ Terminal!TokenFails(n) \/ Terminal!OpenSocket(n) \/ Terminal!Receive(n)
             \/ Terminal!Refuse(n) \/ Terminal!SocketCloses(n)
      PROVE  UNCHANGED sessions
  BY <1>5 DEF Terminal!TokenFails, Terminal!OpenSocket, Terminal!Receive, Terminal!Refuse, Terminal!SocketCloses
<1>6. ASSUME NEW n \in Terminal!Attempts, NEW u \in Users, Asks(n, u) PROVE UNCHANGED sessions
  BY <1>6 DEF Asks
<1>7. CASE Terminal!Leave \/ UNCHANGED Terminal!vars
  BY <1>4, <1>7 DEF Terminal!Leave, Terminal!vars
<1> QED
  BY <1>0, <1>2, <1>3, <1>4, <1>5, <1>6, <1>7, Asked DEF Terminal!Next

TerminalInv == TerminalShape /\ OneSession /\ Terminal!PerUserCap

LEMMA TerminalInvariant == ASSUME Terminal!ConsoleAssumption PROVE Terminal!Spec => []TerminalInv
<1>1. Terminal!Init => TerminalInv
  <2> SUFFICES ASSUME Terminal!Init PROVE Terminal!PerUserCap
    BY TerminalInit DEF TerminalInv
  <2>1. Terminal!UserConnections = {}
    BY DEF Terminal!Init, Terminal!UserConnections
  <2> QED
    BY <2>1, FS_EmptySet, SameCardinality DEF Terminal!PerUserCap, Terminal!ConsoleAssumption
<1>2. TerminalInv /\ [Terminal!Next]_(Terminal!vars) => TerminalInv'
  BY TerminalShapeStep, OneSessionStep, SessionCapStep DEF TerminalInv
<1> QED
  BY <1>1, <1>2, PTL DEF Terminal!Spec

\* What is typed into the terminal never reaches the session of a user that was
\* selected before, while sessions are asked for one at a time.
THEOREM InputReachesSelected == ASSUME Terminal!ConsoleAssumption PROVE Terminal!Spec => []Terminal!InputGoesToSelected
<1>1. TerminalInv => Terminal!InputGoesToSelected
  BY DEF TerminalInv, OneSession, Terminal!InputGoesToSelected
<1> QED
  BY <1>1, TerminalInvariant, PTL

\* The status of the terminal is never connected without the socket that takes
\* the input, there is one socket, and a page that was left leaves none.
THEOREM TerminalStatusIsTrue ==
  ASSUME Terminal!ConsoleAssumption
  PROVE  Terminal!Spec => [](Terminal!ConnectedIsTrue /\ Terminal!OneSocket /\ Terminal!LeavesNothing)
<1>1. TerminalInv => Terminal!ConnectedIsTrue /\ Terminal!LeavesNothing
  BY DEF TerminalInv, OneSession, UnderWay, Terminal!ConnectedIsTrue, Terminal!LeavesNothing
<1>2. TerminalInv => Terminal!OneSocket
  <2> SUFFICES ASSUME TerminalInv, ~overlapped PROVE Cardinality(Terminal!Live) <= 1
    BY SameCardinality DEF Terminal!OneSocket
  <2>1. CASE Terminal!Live = {}
    BY <2>1, FS_EmptySet
  <2>2. CASE Terminal!Live # {}
    <3>1. Terminal!Live = {wsRef}
      BY <2>2 DEF TerminalInv, OneSession
    <3>2. Cardinality({wsRef}) = 1
      BY FS_Singleton
    <3> QED
      BY <3>1, <3>2
  <2> QED
    BY <2>1, <2>2
<1> QED
  BY <1>1, <1>2, TerminalInvariant, PTL

\* The handler never joins more sessions to one user than allowed, and its maps keep their shape.
THEOREM SessionsAreLimited ==
  ASSUME Terminal!ConsoleAssumption
  PROVE  Terminal!Spec => [](Terminal!TypeOK /\ Terminal!PerUserCap)
<1>1. TerminalInv => Terminal!TypeOK /\ Terminal!PerUserCap
  BY DEF TerminalInv, TerminalShape, TerminalTypes, Inboxes, Terminal!Attempts, Terminal!TypeOK, Terminal!Attempts
<1> QED
  BY <1>1, TerminalInvariant, PTL
-----------------------------------------------------------------------------
(* The life of a form, for any form of the catalogues. *)

\* The shape of the state. A query that was never asked has no answer.
Shape ==
  /\ form \in Form!Kinds /\ Form!Regular(form)
  /\ item \in 0..MaxVersions /\ shown \in 0..MaxVersions
  /\ opening \in 0..MaxOpenings /\ open \in BOOLEAN
  /\ data \in Form!Values /\ defaults \in Form!Values /\ typed \in 0..MaxTypings
  /\ processing \in BOOLEAN /\ sends \in Seq(Form!Send) /\ Len(sends) <= MaxSends /\ awaited \in 0..Len(sends)
  /\ query \in {"new", "asking", "again", "ok", "failed"} /\ cache \in 0..Form!Unloaded
  /\ asker \in 0..MaxOpenings /\ lost \in BOOLEAN /\ warm \in BOOLEAN
  /\ query = "new" => cache = Form!Unloaded
  /\ ~Form!Queried => query = "new"

\* What was sent was typed before, by an instance that was opened before.
SentRule ==
  /\ data.last <= typed /\ defaults.last <= typed
  /\ \A i \in DOMAIN sends:
       /\ sends[i].last <= typed
       /\ IF form.host = "hosted" THEN sends[i].inst <= opening ELSE sends[i].inst = 1

\* The form on the page is processing as long as the answer to its own submission is awaited.
AwaitRule ==
  /\ processing /\ Form!Alive(Form!Instance) => awaited # 0 /\ sends[awaited].inst = Form!Instance
  /\ awaited # 0 /\ Form!Alive(sends[awaited].inst) => processing

\* A careful form awaits the answer to whatever it sent.
BusyRule ==
  Form!Careful =>
    \A i \in DOMAIN sends: sends[i].state = "sent" /\ Form!Alive(sends[i].inst) => i = awaited

\* The defaults of a form that resets, or follows the record, were not typed.
ResetRule == form.seed = "synced" \/ "reset" \in form.done => defaults.last = 0

\* What a careful form has sent, and is not refused, is on the page only while its answer is awaited.
Creates == form.effect \in {"adds", "runs"} /\ (form.host = "hosted" \/ "reset" \in form.done)
Counts(i) == sends[i].state # "refused" /\ sends[i].last # 0
OnceRule ==
  Form!Careful /\ Creates =>
    /\ \A i, j \in DOMAIN sends: i # j /\ Counts(i) /\ Counts(j) => sends[i].last # sends[j].last
    /\ \A i \in DOMAIN sends:
         Counts(i) /\ sends[i].last = data.last /\ Form!Alive(Form!Instance) => processing /\ i = awaited

\* A query that was new when the form opened is asked for that opening, and fills it before anything is typed.
QueryRule ==
  Form!Queried /\ ~warm =>
    /\ query # "again" /\ (query = "ok" <=> cache # Form!Unloaded)
    /\ cache = Form!Unloaded => data.last = 0
    /\ form.host = "hosted" /\ query = "asking" => asker = opening
    /\ open /\ query = "ok" => data.from # Form!Unloaded

\* What a frozen form shows is what it sent, until the answer.
FrozenRule ==
  form.frozen /\ awaited # 0 /\ Form!Alive(sends[awaited].inst) => data.last = sends[awaited].last

FormBase == Shape /\ SentRule /\ AwaitRule /\ ResetRule
FormInv ==
  /\ FormBase /\ BusyRule /\ Form!OneAtATime /\ OnceRule /\ QueryRule /\ Form!LoadedBeforeSaved
  /\ Form!CleanFormsFollow /\ FrozenRule
-----------------------------------------------------------------------------
LEMMA FormBegins == ASSUME Form!FormsAssumption, Form!Init PROVE FormInv
<1>1. PICK f \in Catalogue: form \in Form!Modes(f)
  BY DEF Form!Init
<1>2. f \in Form!Kinds /\ Form!Regular(f)
  BY DEF Form!FormsAssumption
<1>3. form \in Form!Kinds /\ Form!Regular(form)
  <2> DEFINE Effect(seed) == IF f.seed = "either" /\ seed = "item" THEN "saves" ELSE f.effect
             Seeded == IF f.seed = "either" THEN {"blank", "item"} ELSE {f.seed}
             Lockings(seed) == IF seed = "blank" THEN {f.lock} ELSE {f.lock, f.lock \ {"incomplete"}}
             Seed(seed) == {[f EXCEPT !.seed = seed, !.lock = lock, !.effect = Effect(seed)]: lock \in Lockings(seed)}
  <2>5. form \in UNION {Seed(seed): seed \in Seeded}
    BY <1>1, Zenon DEF Form!Modes
  <2>6. PICK seed \in Seeded: form \in Seed(seed)
    <3> HIDE DEF Seed, Seeded
    <3> QED
      BY <2>5
  <2>7. PICK lock \in Lockings(seed): form = [f EXCEPT !.seed = seed, !.lock = lock, !.effect = Effect(seed)]
    BY <2>6
  <2>1. PICK effect: effect \in {f.effect, "saves"} /\ form = [f EXCEPT !.seed = seed, !.lock = lock, !.effect = effect]
    BY <2>7
  <2>2. /\ form.host = f.host /\ form.effect = effect /\ form.seed = seed /\ form.lock = lock /\ form.enter = f.enter
        /\ form.frozen = f.frozen /\ form.done = f.done /\ form.turn = f.turn
    BY <1>2, <2>1 DEF Form!Kinds
  <2>3. seed \in Form!Seeds /\ lock \in SUBSET Form!Locks /\ effect \in Form!Effects
    BY <1>2, <2>1, <2>6, <2>7 DEF Form!Kinds, Form!Seeds, Form!Effects
  <2>4. form \in Form!Kinds
    BY <1>2, <2>1, <2>3 DEF Form!Kinds
  <2> QED
    BY <1>2, <2>1, <2>2, <2>4 DEF Form!Regular, Form!Steady
<1>4. /\ item = 0 /\ shown = 0 /\ typed = 0 /\ sends = <<>> /\ awaited = 0 /\ cache = Form!Unloaded
      /\ data = Form!Fresh(0) /\ defaults = Form!Fresh(0) /\ opening \in {0, 1} /\ asker \in {0, 1}
      /\ query \in {"new", "asking"} /\ (form.host # "page" => query = "new") /\ (~Form!Queried => query = "new")
  BY DEF Form!Init
<1>5. processing = FALSE /\ lost = FALSE /\ warm = FALSE /\ open \in BOOLEAN
  BY DEF Form!Init
<1>6. MaxOpenings \in Nat /\ MaxOpenings # 0 /\ MaxTypings \in Nat /\ MaxSends \in Nat /\ MaxVersions \in Nat
  BY DEF Form!FormsAssumption
<1>7. /\ Form!Fresh(0) \in Form!Values /\ Form!Fresh(0).last = 0
      /\ form.seed = "synced" => Form!Fresh(0).from = 0
  BY <1>6 DEF Form!Fresh, Form!Blank, Form!Values, Form!Unloaded, Form!Queried
<1>8. sends \in Seq(Form!Send) /\ Len(sends) = 0 /\ DOMAIN sends = {}
  BY <1>4
<1>9. Shape
  <2>1. processing \in BOOLEAN /\ open \in BOOLEAN /\ lost \in BOOLEAN /\ warm \in BOOLEAN
    BY <1>5, Zenon
  <2>2. /\ item \in 0..MaxVersions /\ shown \in 0..MaxVersions /\ opening \in 0..MaxOpenings /\ typed \in 0..MaxTypings
        /\ Len(sends) <= MaxSends /\ awaited \in 0..Len(sends) /\ cache \in 0..Form!Unloaded /\ asker \in 0..MaxOpenings
    BY <1>4, <1>6, <1>8 DEF Form!Unloaded
  <2> QED
    BY <1>3, <1>4, <1>7, <1>8, <2>1, <2>2 DEF Shape
<1>10. SentRule /\ AwaitRule /\ ResetRule
  BY <1>4, <1>5, <1>7, <1>8 DEF SentRule, AwaitRule, ResetRule
<1>11. BusyRule /\ Form!OneAtATime /\ OnceRule /\ Form!LoadedBeforeSaved /\ FrozenRule
  BY <1>4, <1>8 DEF BusyRule, Form!OneAtATime, OnceRule, Form!LoadedBeforeSaved, FrozenRule
<1>12. Form!CleanFormsFollow
  BY <1>4, <1>7 DEF Form!CleanFormsFollow
<1>13. QueryRule
  BY <1>3, <1>4, <1>7 DEF QueryRule, Form!Regular, Form!Queried
<1> QED
  BY <1>9, <1>10, <1>11, <1>12, <1>13 DEF FormInv, FormBase

\* The first values, and what the effect that follows the record makes of a form.
LEMMA FirstValues ==
  ASSUME Form!FormsAssumption, NEW v \in 0..MaxVersions
  PROVE  /\ Form!Fresh(v) \in Form!Values /\ Form!Fresh(v).last = 0
         /\ form.seed \in {"item", "synced"} => Form!Fresh(v).from = v
         /\ Form!Queried => Form!Fresh(v).from = Form!Unloaded
BY DEF Form!FormsAssumption, Form!Fresh, Form!Blank, Form!Values, Form!Unloaded, Form!Queried

LEMMA Follow ==
  ASSUME Form!FormsAssumption, NEW d \in Form!Values, NEW e \in Form!Values, NEW v \in 0..MaxVersions, Form!Becomes(d, e, v)
  PROVE  /\ data' \in Form!Values /\ defaults' \in Form!Values
         /\ IF form.seed = "synced" /\ d = e THEN data' = Form!Fresh(v) /\ defaults' = Form!Fresh(v)
            ELSE data' = d /\ defaults' = e
BY FirstValues DEF Form!Becomes, Form!Follows

\* One more submission, and the answer of the server to one.
LEMMA SendsGrow ==
  ASSUME Form!FormsAssumption, Shape, sends' = Form!Sent, Len(sends) < MaxSends
  PROVE  /\ sends' \in Seq(Form!Send) /\ Len(sends) \in Nat /\ Len(sends') = Len(sends) + 1 /\ Len(sends') <= MaxSends
         /\ DOMAIN sends = 1..Len(sends) /\ DOMAIN sends' = 1..Len(sends) + 1
         /\ sends'[Len(sends) + 1] = [inst |-> Form!Instance, from |-> data.from, last |-> data.last, state |-> "sent"]
         /\ \A i \in 1..Len(sends): sends'[i] = sends[i]
<1> DEFINE e == [inst |-> Form!Instance, from |-> data.from, last |-> data.last, state |-> "sent"]
<1>1. MaxOpenings \in Nat /\ MaxOpenings # 0 /\ MaxSends \in Nat
  BY DEF Form!FormsAssumption
<1>2. e \in Form!Send
  BY <1>1 DEF Shape, Form!Send, Form!Values, Form!Instance
<1>3. sends \in Seq(Form!Send) /\ sends' = Append(sends, e)
  BY DEF Shape, Form!Sent
<1> HIDE DEF e
<1>4. /\ sends' \in Seq(Form!Send) /\ Len(sends) \in Nat /\ Len(sends') = Len(sends) + 1
      /\ DOMAIN sends = 1..Len(sends) /\ DOMAIN sends' = 1..Len(sends) + 1
      /\ sends'[Len(sends) + 1] = e /\ \A i \in 1..Len(sends): sends'[i] = sends[i]
  BY <1>2, <1>3
<1> QED
  BY <1>1, <1>4 DEF e

LEMMA SendServed ==
  ASSUME Shape, NEW i \in 1..Len(sends), NEW state \in {"done", "refused"}, Form!Served(i, state)
  PROVE  /\ sends' \in Seq(Form!Send) /\ Len(sends') = Len(sends) /\ Len(sends) \in Nat
         /\ DOMAIN sends = 1..Len(sends) /\ DOMAIN sends' = 1..Len(sends)
         /\ \A j \in 1..Len(sends):
              /\ sends'[j].inst = sends[j].inst /\ sends'[j].from = sends[j].from /\ sends'[j].last = sends[j].last
              /\ sends'[j].state = IF j = i THEN state ELSE sends[j].state
<1>1. sends \in Seq(Form!Send) /\ sends' = [sends EXCEPT ![i].state = state]
  BY DEF Shape, Form!Served
<1>2. Len(sends) \in Nat /\ DOMAIN sends = 1..Len(sends) /\ \A j \in 1..Len(sends): sends[j] \in Form!Send
  BY <1>1
<1>3. /\ DOMAIN sends' = 1..Len(sends) /\ \A j \in 1..Len(sends): j # i => sends'[j] = sends[j]
      /\ sends'[i] = [sends[i] EXCEPT !.state = state]
  BY <1>1, <1>2
<1>4. sends'[i] \in Form!Send
  BY <1>2, <1>3 DEF Form!Send
<1>5. sends' = [j \in 1..Len(sends) |-> sends'[j]]
  BY <1>1, <1>2
<1>6. \A j \in 1..Len(sends): sends'[j] \in Form!Send
  BY <1>2, <1>3, <1>4
<1>7. sends' \in [1..Len(sends) -> Form!Send]
  BY <1>5, <1>6
<1>8. sends' \in Seq(Form!Send) /\ Len(sends') = Len(sends)
  BY <1>2, <1>3, <1>7
<1>9. ASSUME NEW j \in 1..Len(sends)
      PROVE  /\ sends'[j].inst = sends[j].inst /\ sends'[j].from = sends[j].from /\ sends'[j].last = sends[j].last
             /\ sends'[j].state = IF j = i THEN state ELSE sends[j].state
  <2>1. CASE j = i
    BY <1>2, <1>3, <2>1 DEF Form!Send
  <2>2. CASE j # i
    BY <1>3, <2>2
  <2> QED
    BY <2>1, <2>2
<1> QED
  BY <1>2, <1>3, <1>8, <1>9

-----------------------------------------------------------------------------
\* What a step leaves alone, or a mounted query does.
LEMMA QueryAsks ==
  ASSUME Form!FormsAssumption, Shape, NEW inst \in 0..MaxOpenings, Form!Ask(inst)
  PROVE  /\ cache' = cache /\ query' \in {"new", "asking", "again", "ok", "failed"} /\ asker' \in 0..MaxOpenings
         /\ ~Form!Queried => query' = query /\ asker' = asker
         /\ Form!Queried => query' \in {"asking", "again"}
BY DEF Form!Ask, Form!fetch, Shape

\* The shape survives every step.
LEMMA ShapeStays == ASSUME Form!FormsAssumption, Shape, [Form!Next]_Form!vars PROVE Shape'
<1> USE Form!FormsAssumption, Shape
<1>0. MaxOpenings \in Nat /\ MaxOpenings # 0 /\ MaxTypings \in Nat /\ MaxSends \in Nat /\ MaxVersions \in Nat
  BY DEF Form!FormsAssumption
<1>a. /\ data \in Form!Values /\ defaults \in Form!Values /\ item \in 0..MaxVersions /\ shown \in 0..MaxVersions
      /\ opening \in 0..MaxOpenings /\ typed \in 0..MaxTypings /\ Len(sends) \in Nat /\ awaited \in 0..Len(sends)
  BY DEF Shape
<1>b. Form!Instance \in 0..MaxOpenings
  BY <1>0, <1>a DEF Form!Instance
<1>1. CASE Form!Open
  <2>1. opening' \in 0..MaxOpenings
    BY <1>0, <1>1, <1>a DEF Form!Open
  <2>2. data' \in Form!Values /\ defaults' \in Form!Values
    BY <1>1, <1>a, FirstValues DEF Form!Open
  <2>3. processing' \in BOOLEAN
    BY <1>1, Zenon DEF Form!Open, Shape
  <2>4. warm' \in BOOLEAN
    BY <1>1, Zenon DEF Form!Open
  <2>5. (IF Form!Remounts THEN opening + 1 ELSE 1) \in 0..MaxOpenings
    BY <1>0, <1>1, <1>a DEF Form!Open
  <2>6. Form!Ask(IF Form!Remounts THEN opening + 1 ELSE 1)
    BY <1>1 DEF Form!Open
  <2>7. /\ cache' = cache /\ query' \in {"new", "asking", "again", "ok", "failed"} /\ asker' \in 0..MaxOpenings
        /\ ~Form!Queried => query' = query
        /\ Form!Queried => query' \in {"asking", "again"}
    BY <2>5, <2>6, QueryAsks
  <2>8. UNCHANGED <<form, item, shown, typed, sends, awaited, lost>> /\ open' = TRUE
    BY <1>1 DEF Form!Open
  <2> QED
    BY <2>1, <2>2, <2>3, <2>4, <2>7, <2>8 DEF Shape, Form!Queried
<1>2. CASE Form!Close
  BY <1>2 DEF Form!Close, Shape, Form!fetch, Form!bounds, Form!Queried
<1>3. CASE Form!Type
  <2>1. typed' \in 0..MaxTypings /\ data' \in Form!Values
    BY <1>0, <1>3, <1>a DEF Form!Type, Form!Values
  <2> QED
    BY <1>3, <2>1 DEF Form!Type, Shape, Form!fetch, Form!bounds, Form!Queried
<1>4. CASE Form!Discard
  <2>1. data' \in Form!Values /\ defaults' \in Form!Values
    BY <1>4, <1>a, Follow DEF Form!Discard
  <2> QED
    BY <1>4, <2>1 DEF Form!Discard, Shape, Form!fetch, Form!bounds, Form!Queried
<1>5. ASSUME Form!Press \/ Form!Enter PROVE Shape'
  <2>1. sends' = Form!Sent /\ Len(sends) < MaxSends
    BY <1>5 DEF Form!Press, Form!Enter
  <2>2. sends' \in Seq(Form!Send) /\ Len(sends') = Len(sends) + 1 /\ Len(sends') <= MaxSends
    BY <2>1, SendsGrow
  <2>3. awaited' = Len(sends') /\ processing' = TRUE
    BY <1>5 DEF Form!Press, Form!Enter
  <2>4. awaited' \in 0..Len(sends') /\ processing' \in BOOLEAN
    BY <1>a, <2>2, <2>3
  <2>5. UNCHANGED <<form, item, shown, opening, open, data, defaults, typed, query, cache, asker, lost, warm>>
    BY <1>5 DEF Form!Press, Form!Enter, Form!fetch, Form!bounds, Form!values
  <2> QED
    BY <2>2, <2>4, <2>5 DEF Shape, Form!Queried
<1>6. CASE Form!EnterReloads
  <2>1. sends' \in Seq(Form!Send) /\ Len(sends') \in Nat /\ Len(sends') <= MaxSends
    BY <1>6, <1>a, SendsGrow DEF Form!EnterReloads, Shape
  <2>2. data' \in Form!Values /\ defaults' \in Form!Values
    BY <1>6, <1>a, FirstValues DEF Form!EnterReloads
  <2>3. awaited' \in 0..Len(sends')
    BY <1>6, <2>1 DEF Form!EnterReloads
  <2> QED
    BY <1>6, <2>1, <2>2, <2>3 DEF Form!EnterReloads, Shape, Form!fetch, Form!Queried
<1>7. CASE Form!Succeed
  <2>1. Form!Cleared(data) \in Form!Values
    BY <1>0, <1>a DEF Form!Cleared, Form!Saved, Form!Values, Form!Unloaded
  <2>2. data' \in Form!Values /\ defaults' \in Form!Values
    BY <1>7, <1>a, <2>1, Follow DEF Form!Succeed, Form!values
  <2>3. processing' \in BOOLEAN
    BY <1>7, Zenon DEF Form!Succeed, Shape
  <2>4. open' \in BOOLEAN
    BY <1>7, Zenon DEF Form!Succeed
  <2>5. UNCHANGED <<form, item, opening, typed, sends, query, cache, asker, lost, warm>> /\ awaited' = 0 /\ shown' = item
    BY <1>7 DEF Form!Succeed, Form!fetch, Form!bounds
  <2>6. awaited' \in 0..Len(sends')
    BY <1>a, <2>5
  <2> QED
    BY <2>2, <2>3, <2>4, <2>5, <2>6 DEF Shape, Form!Queried
<1>8. ASSUME Form!Fail \/ Form!Lose PROVE Shape'
  <2>1. processing' \in BOOLEAN
    BY <1>8, Zenon DEF Form!Fail, Form!Lose, Form!Busy
  <2>2. lost' \in BOOLEAN
    BY <1>8 DEF Form!Fail, Form!Lose, Form!bounds, Shape
  <2>3. /\ UNCHANGED <<form, item, shown, opening, open, defaults, typed, sends, query, cache, asker, warm>>
        /\ awaited' = 0 /\ data' \in {data, defaults}
    BY <1>8 DEF Form!Fail, Form!Lose, Form!bounds, Form!fetch
  <2>4. awaited' \in 0..Len(sends')
    BY <1>a, <2>3
  <2> QED
    BY <2>1, <2>2, <2>3, <2>4 DEF Shape, Form!Queried
<1>9. CASE Form!SomebodySaves
  <2>1. item' \in 0..MaxVersions
    BY <1>0, <1>9, <1>a DEF Form!SomebodySaves
  <2> QED
    BY <1>9, <2>1 DEF Form!SomebodySaves, Shape, Form!fetch, Form!bounds, Form!values, Form!Queried
<1>10. CASE Form!Refresh
  <2>1. data' \in Form!Values /\ defaults' \in Form!Values
    BY <1>10, <1>a, Follow DEF Form!Refresh
  <2> QED
    BY <1>10, <2>1 DEF Form!Refresh, Shape, Form!fetch, Form!bounds, Form!Queried
<1>11. CASE Form!Answered
  <2>1. cache' \in 0..Form!Unloaded /\ asker' \in 0..MaxOpenings
    BY <1>0, <1>11, <1>a DEF Form!Answered, Form!Unloaded
  <2>2. [data EXCEPT !.from = item, !.last = 0] \in Form!Values
    <3>1. item \in 0..Form!Unloaded /\ 0 \in 0..MaxTypings
      BY <1>0, <1>a DEF Form!Unloaded
    <3> QED
      BY <1>a, <3>1 DEF Form!Values
  <2>3. data' \in Form!Values
    BY <1>11, <1>a, <2>2 DEF Form!Answered
  <2>4. query' = "ok" /\ Form!Queried
    BY <1>11 DEF Form!Answered, Shape
  <2> QED
    BY <1>11, <2>1, <2>3, <2>4 DEF Form!Answered, Shape, Form!bounds, Form!Queried
<1>12. CASE Form!Unanswered
  <2>1. asker' \in 0..MaxOpenings
    BY <1>0, <1>12 DEF Form!Unanswered
  <2> QED
    BY <1>12, <2>1 DEF Form!Unanswered, Shape, Form!bounds, Form!values, Form!Queried
<1>13. CASE Form!Retry
  <2>1. Form!Ask(Form!Instance) /\ query = "failed"
    BY <1>13 DEF Form!Retry
  <2>2. /\ cache' = cache /\ query' \in {"new", "asking", "again", "ok", "failed"} /\ asker' \in 0..MaxOpenings
        /\ ~Form!Queried => query' = query
        /\ Form!Queried => query' \in {"asking", "again"}
    BY <1>b, <2>1, QueryAsks
  <2> QED
    BY <1>13, <2>2 DEF Form!Retry, Shape, Form!bounds, Form!values, Form!Queried
<1>14. ASSUME NEW i \in 1..Len(sends), Form!Accept(i) \/ Form!Refuse(i) PROVE Shape'
  <2>1. PICK state \in {"done", "refused"}: Form!Served(i, state)
    BY <1>14 DEF Form!Accept, Form!Refuse
  <2>2. sends' \in Seq(Form!Send) /\ Len(sends') = Len(sends)
    BY <2>1, SendServed
  <2>3. item' \in 0..MaxVersions
    BY <1>0, <1>14, <1>a DEF Form!Accept, Form!Refuse
  <2>4. UNCHANGED <<form, shown, opening, open, data, defaults, typed, processing, awaited, query, cache, asker, lost, warm>>
    BY <1>14 DEF Form!Accept, Form!Refuse, Form!values, Form!fetch, Form!bounds
  <2> QED
    BY <2>2, <2>3, <2>4 DEF Shape, Form!Queried
<1>15. CASE UNCHANGED Form!vars
  BY <1>15 DEF Form!vars, Form!values, Form!fetch, Form!bounds, Shape, Form!Queried
<1> QED
  BY <1>1, <1>2, <1>3, <1>4, <1>5, <1>6, <1>7, <1>8, <1>9, <1>10, <1>11, <1>12, <1>13, <1>14, <1>15 DEF Form!Next

\* What the steps of a form do to what the other rules are about.
LEMMA FormIsKept == ASSUME [Form!Next]_Form!vars PROVE form' = form
BY DEF Form!Next, Form!vars, Form!Open, Form!Close, Form!Type, Form!Discard, Form!Press, Form!Enter, Form!EnterReloads,
       Form!Succeed, Form!Fail, Form!Lose, Form!SomebodySaves, Form!Refresh, Form!Answered, Form!Unanswered,
       Form!Retry, Form!Accept, Form!Refuse

\* What was sent was typed, whatever step is taken.
LEMMA SentStays ==
  ASSUME Form!FormsAssumption, Shape, SentRule, [Form!Next]_Form!vars PROVE SentRule'
<1> USE Form!FormsAssumption, Shape
<1>a. /\ data \in Form!Values /\ defaults \in Form!Values /\ item \in 0..MaxVersions /\ shown \in 0..MaxVersions
      /\ opening \in 0..MaxOpenings /\ typed \in 0..MaxTypings /\ Len(sends) \in Nat /\ DOMAIN sends = 1..Len(sends)
      /\ \A i \in 1..Len(sends): sends[i] \in Form!Send
  BY DEF Shape
<1>b. /\ data.last \in Nat /\ defaults.last \in Nat /\ typed \in Nat /\ opening \in Nat
      /\ \A i \in 1..Len(sends): sends[i].last \in Nat /\ sends[i].inst \in Nat
  BY <1>a DEF Form!Values, Form!Send, Form!FormsAssumption
<1>c. /\ data.last <= typed /\ defaults.last <= typed
      /\ \A i \in 1..Len(sends):
           /\ sends[i].last <= typed
           /\ IF form.host = "hosted" THEN sends[i].inst <= opening ELSE sends[i].inst = 1
  BY <1>a DEF SentRule
<1>d. form' = form
  BY FormIsKept
<1>s. ASSUME sends' = sends, typed' >= typed, opening' >= opening, typed' \in Nat, opening' \in Nat,
             data'.last <= typed', defaults'.last <= typed'
      PROVE  SentRule'
  BY <1>a, <1>b, <1>c, <1>d, <1>s DEF SentRule
<1>1. CASE Form!Open
  <2>1. data'.last <= typed /\ defaults'.last <= typed
    BY <1>1, <1>a, <1>b, <1>c, FirstValues DEF Form!Open
  <2> QED
    BY <1>1, <1>b, <1>s, <2>1 DEF Form!Open
<1>2. CASE Form!Close
  BY <1>2, <1>b, <1>c, <1>s DEF Form!Close
<1>3. CASE Form!Type
  <2>1. data'.last = typed' /\ typed' = typed + 1
    BY <1>3, <1>a DEF Form!Type, Form!Values
  <2> QED
    BY <1>3, <1>b, <1>c, <1>s, <2>1 DEF Form!Type
<1>4. CASE Form!Discard
  <2>1. data'.last <= typed /\ defaults'.last <= typed
    BY <1>4, <1>a, <1>b, <1>c, Follow, FirstValues DEF Form!Discard
  <2> QED
    BY <1>4, <1>b, <1>s, <2>1 DEF Form!Discard
<1>5. ASSUME sends' = Form!Sent, Len(sends) < MaxSends, typed' = typed, opening' = opening,
             data'.last <= typed, defaults'.last <= typed
      PROVE  SentRule'
  <2>1. /\ DOMAIN sends' = 1..Len(sends) + 1
        /\ sends'[Len(sends) + 1].last = data.last /\ sends'[Len(sends) + 1].inst = Form!Instance
        /\ \A i \in 1..Len(sends): sends'[i] = sends[i]
    BY <1>5, SendsGrow
  <2>2. ASSUME NEW i \in DOMAIN sends'
        PROVE  sends'[i].last <= typed /\ IF form.host = "hosted" THEN sends'[i].inst <= opening ELSE sends'[i].inst = 1
    <3>1. CASE i = Len(sends) + 1
      BY <1>b, <1>c, <2>1, <3>1 DEF Form!Instance, Form!Remounts
    <3>2. CASE i \in 1..Len(sends)
      BY <1>c, <2>1, <3>2
    <3> QED
      BY <1>a, <2>1, <3>1, <3>2
  <2> QED
    BY <1>5, <1>d, <2>2 DEF SentRule
<1>6. CASE Form!Press
  BY <1>5, <1>6, <1>c DEF Form!Press, Form!values
<1>7. CASE Form!Enter
  BY <1>5, <1>7, <1>c DEF Form!Enter, Form!values
<1>8. CASE Form!EnterReloads
  <2>1. data'.last <= typed /\ defaults'.last <= typed
    BY <1>8, <1>a, <1>b, FirstValues DEF Form!EnterReloads
  <2> QED
    BY <1>5, <1>8, <1>b, <1>s, <2>1 DEF Form!EnterReloads
<1>9. CASE Form!Succeed
  <2>1. Form!Cleared(data) \in Form!Values /\ Form!Cleared(data).last <= typed
    BY <1>a, <1>b, <1>c DEF Form!Cleared, Form!Saved, Form!Values, Form!Unloaded, Form!FormsAssumption
  <2>2. data'.last <= typed /\ defaults'.last <= typed
    BY <1>9, <1>a, <1>b, <1>c, <2>1, Follow, FirstValues DEF Form!Succeed, Form!values
  <2> QED
    BY <1>9, <1>b, <1>s, <2>2 DEF Form!Succeed
<1>10. CASE Form!Fail \/ Form!Lose
  BY <1>10, <1>b, <1>c, <1>s DEF Form!Fail, Form!Lose
<1>11. CASE Form!Refresh
  <2>1. data'.last <= typed /\ defaults'.last <= typed
    BY <1>11, <1>a, <1>b, <1>c, Follow, FirstValues DEF Form!Refresh
  <2> QED
    BY <1>11, <1>b, <1>s, <2>1 DEF Form!Refresh
<1>12. CASE Form!Answered
  <2>1. data'.last <= typed
    BY <1>12, <1>a, <1>b, <1>c DEF Form!Answered, Form!Values
  <2> QED
    BY <1>12, <1>b, <1>c, <1>s, <2>1 DEF Form!Answered
<1>13. CASE Form!SomebodySaves \/ Form!Unanswered \/ Form!Retry
  BY <1>13, <1>b, <1>c, <1>s DEF Form!SomebodySaves, Form!Unanswered, Form!Retry, Form!values
<1>14. ASSUME NEW i \in 1..Len(sends), Form!Accept(i) \/ Form!Refuse(i) PROVE SentRule'
  <2>1. PICK state \in {"done", "refused"}: Form!Served(i, state)
    BY <1>14 DEF Form!Accept, Form!Refuse
  <2>2. /\ DOMAIN sends' = 1..Len(sends)
        /\ \A j \in 1..Len(sends): sends'[j].inst = sends[j].inst /\ sends'[j].last = sends[j].last
    BY <2>1, SendServed
  <2>3. typed' = typed /\ opening' = opening /\ data' = data /\ defaults' = defaults
    BY <1>14 DEF Form!Accept, Form!Refuse, Form!values
  <2> QED
    BY <1>c, <1>d, <2>2, <2>3 DEF SentRule
<1>15. CASE UNCHANGED Form!vars
  BY <1>15, <1>b, <1>c, <1>s DEF Form!vars, Form!values
<1> QED
  BY <1>1, <1>2, <1>3, <1>4, <1>6, <1>7, <1>8, <1>9, <1>10, <1>11, <1>12, <1>13, <1>14, <1>15 DEF Form!Next

\* The defaults of a form that resets, or follows the record, are never what was typed.
LEMMA ResetStays ==
  ASSUME Form!FormsAssumption, Shape, ResetRule, [Form!Next]_Form!vars PROVE ResetRule'
<1> USE Form!FormsAssumption, Shape
<1>a. data \in Form!Values /\ defaults \in Form!Values /\ item \in 0..MaxVersions /\ shown \in 0..MaxVersions
  BY DEF Shape
<1> SUFFICES ASSUME form.seed = "synced" \/ "reset" \in form.done PROVE defaults'.last = 0
  BY FormIsKept DEF ResetRule
<1>b. defaults.last = 0
  BY DEF ResetRule
<1>c. form.seed = "synced" => "finish" \notin form.done
  BY DEF Shape, Form!Regular, Form!Steady
<1>1. CASE Form!Open
  BY <1>1, <1>a, <1>b, FirstValues DEF Form!Open
<1>2. CASE Form!Discard
  BY <1>2, <1>a, <1>b, Follow, FirstValues DEF Form!Discard
<1>3. CASE Form!EnterReloads
  BY <1>3, <1>a, FirstValues DEF Form!EnterReloads
<1>4. CASE Form!Succeed
  <2>1. CASE ~Form!Alive(sends[awaited].inst)
    BY <1>4, <1>b, <2>1 DEF Form!Succeed, Form!values
  <2>2. CASE Form!Alive(sends[awaited].inst)
    <3>1. Form!Becomes(Form!Cleared(data), Form!Cleared(data), item)
      BY <1>4, <2>2 DEF Form!Succeed
    <3>2. Form!Cleared(data) \in Form!Values
      BY <1>a DEF Form!Cleared, Form!Saved, Form!Values, Form!Unloaded, Form!FormsAssumption
    <3>3. "reset" \in form.done => Form!Cleared(data) = defaults
      BY DEF Form!Cleared
    <3> QED
      BY <1>a, <1>b, <3>1, <3>2, <3>3, Follow, FirstValues
  <2> QED
    BY <2>1, <2>2
<1>5. CASE Form!Refresh
  BY <1>5, <1>a, <1>b, Follow, FirstValues DEF Form!Refresh
<1>6. ASSUME NEW i \in 1..Len(sends), Form!Accept(i) \/ Form!Refuse(i) PROVE defaults' = defaults
  BY <1>6 DEF Form!Accept, Form!Refuse, Form!values
<1>7. CASE UNCHANGED Form!vars
  BY <1>7, <1>b DEF Form!vars, Form!values
<1>8. CASE \/ Form!Close \/ Form!Type \/ Form!Press \/ Form!Enter \/ Form!Fail \/ Form!Lose \/ Form!SomebodySaves
           \/ Form!Answered \/ Form!Unanswered \/ Form!Retry
  BY <1>8, <1>b DEF Form!Close, Form!Type, Form!Press, Form!Enter, Form!Fail, Form!Lose, Form!SomebodySaves,
                    Form!Answered, Form!Unanswered, Form!Retry, Form!values
<1> QED
  BY <1>1, <1>2, <1>3, <1>4, <1>5, <1>6, <1>7, <1>8, <1>b DEF Form!Next

\* Whose answer the page awaits, in the words of the state.
LEMMA Awaited ==
  ASSUME Form!FormsAssumption, Shape, SentRule, AwaitRule
  PROVE  /\ Len(sends) \in Nat /\ DOMAIN sends = 1..Len(sends) /\ awaited \in 0..Len(sends)
         /\ \A i \in 1..Len(sends): sends[i].inst \in Nat /\ sends[i].last \in Nat
         /\ opening \in Nat /\ open \in BOOLEAN /\ processing \in BOOLEAN
         /\ awaited # 0 => awaited \in 1..Len(sends)
         /\ form.host = "hosted" => \A i \in 1..Len(sends): sends[i].inst <= opening
         /\ awaited # 0 /\ ~Form!Alive(sends[awaited].inst) /\ processing => ~Form!Alive(Form!Instance)
<1>1. /\ Len(sends) \in Nat /\ DOMAIN sends = 1..Len(sends) /\ awaited \in 0..Len(sends)
      /\ \A i \in 1..Len(sends): sends[i] \in Form!Send
      /\ opening \in Nat /\ open \in BOOLEAN
  BY DEF Shape, Form!FormsAssumption
<1>2. \A i \in 1..Len(sends): sends[i].inst \in Nat /\ sends[i].last \in Nat
  BY <1>1 DEF Form!Send, Form!FormsAssumption
<1>3. processing \in BOOLEAN
  BY Zenon DEF Shape
<1>4. awaited # 0 => awaited \in 1..Len(sends)
  BY <1>1
<1>5. form.host = "hosted" => \A i \in 1..Len(sends): sends[i].inst <= opening
  BY <1>1 DEF SentRule
<1>6. awaited # 0 /\ ~Form!Alive(sends[awaited].inst) /\ processing => ~Form!Alive(Form!Instance)
  BY DEF AwaitRule
<1> QED
  BY <1>1, <1>2, <1>3, <1>4, <1>5, <1>6

\* A form is processing exactly as long as it awaits the answer to its own submission.
LEMMA AwaitStays ==
  ASSUME Form!FormsAssumption, Shape, SentRule, AwaitRule, [Form!Next]_Form!vars PROVE AwaitRule'
<1> USE Form!FormsAssumption, Shape, SentRule, AwaitRule
<1>a. /\ Len(sends) \in Nat /\ DOMAIN sends = 1..Len(sends) /\ awaited \in 0..Len(sends)
      /\ \A i \in 1..Len(sends): sends[i].inst \in Nat
      /\ opening \in Nat /\ open \in BOOLEAN
      /\ awaited # 0 => awaited \in 1..Len(sends)
      /\ form.host = "hosted" => \A i \in 1..Len(sends): sends[i].inst <= opening
  BY Awaited
<1>b. /\ processing /\ Form!Alive(Form!Instance) => awaited # 0 /\ sends[awaited].inst = Form!Instance
      /\ awaited # 0 /\ Form!Alive(sends[awaited].inst) => processing
  BY DEF AwaitRule
<1>c. form' = form
  BY FormIsKept
<1>s. ASSUME opening' = opening, open' = open, processing' = processing, sends' = sends, awaited' = awaited
      PROVE  AwaitRule'
  BY <1>b, <1>c, <1>s DEF AwaitRule, Form!Alive, Form!Instance, Form!Remounts
<1>1. CASE Form!Open
  <2>1. CASE form.host = "hosted"
    <3>1. processing' = FALSE /\ opening' = opening + 1
      BY <1>1, <2>1, Zenon DEF Form!Open, Form!Remounts
    <3>2. sends' = sends /\ awaited' = awaited
      BY <1>1 DEF Form!Open
    <3> QED
      BY <1>a, <1>c, <2>1, <3>1, <3>2 DEF AwaitRule, Form!Alive, Form!Remounts
  <2>2. CASE form.host # "hosted"
    BY <1>1, <1>b, <1>c, <2>2 DEF Form!Open, AwaitRule, Form!Alive, Form!Instance, Form!Remounts
  <2> QED
    BY <2>1, <2>2
<1>2. CASE Form!Close
  <2>1. open' = FALSE /\ UNCHANGED <<opening, processing, sends, awaited>>
    BY <1>2 DEF Form!Close
  <2> QED
    BY <1>b, <1>c, <2>1 DEF AwaitRule, Form!Alive, Form!Instance, Form!Remounts
<1>3. ASSUME Form!Press \/ Form!Enter PROVE AwaitRule'
  <2>1. sends' = Form!Sent /\ Len(sends) < MaxSends /\ awaited' = Len(sends') /\ opening' = opening
    BY <1>3 DEF Form!Press, Form!Enter
  <2>2. processing' = TRUE
    BY <1>3, Zenon DEF Form!Press, Form!Enter
  <2>3. awaited' = Len(sends) + 1 /\ sends'[awaited'].inst = Form!Instance
    BY <2>1, SendsGrow
  <2> QED
    BY <1>a, <1>c, <2>1, <2>2, <2>3 DEF AwaitRule, Form!Instance, Form!Remounts
<1>4. CASE Form!EnterReloads
  <2>1. awaited' = 0 /\ processing' = FALSE
    BY <1>4, Zenon DEF Form!EnterReloads
  <2> QED
    BY <2>1 DEF AwaitRule
<1>5. CASE Form!Succeed
  <2>1. awaited # 0 /\ awaited' = 0 /\ opening' = opening /\ (open' => open)
    BY <1>5 DEF Form!Succeed
  <2>2. CASE Form!Alive(sends[awaited].inst)
    <3>1. processing' = FALSE
      BY <1>5, <2>2, Zenon DEF Form!Succeed
    <3> QED
      BY <2>1, <3>1 DEF AwaitRule
  <2>3. CASE ~Form!Alive(sends[awaited].inst)
    <3>1. processing' = processing
      BY <1>5, <2>3 DEF Form!Succeed
    <3>2. ~(processing /\ Form!Alive(Form!Instance))
      BY <1>b, <2>3, Zenon
    <3> QED
      BY <1>c, <2>1, <3>1, <3>2 DEF AwaitRule, Form!Alive, Form!Instance, Form!Remounts
  <2> QED
    BY <2>2, <2>3
<1>6. CASE Form!Fail \/ Form!Lose
  <2>1. awaited # 0 /\ awaited' = 0 /\ opening' = opening /\ open' = open
    BY <1>6 DEF Form!Fail, Form!Lose
  <2>2. processing' => processing /\ ~Form!Alive(sends[awaited].inst)
    BY <1>6, Zenon DEF Form!Fail, Form!Lose, Form!Busy
  <2>3. ~(processing' /\ Form!Alive(Form!Instance))
    BY <1>b, <2>2, Zenon
  <2> QED
    BY <1>c, <2>1, <2>3 DEF AwaitRule, Form!Alive, Form!Instance, Form!Remounts
<1>7. ASSUME NEW i \in 1..Len(sends), Form!Accept(i) \/ Form!Refuse(i) PROVE AwaitRule'
  <2>1. PICK state \in {"done", "refused"}: Form!Served(i, state)
    BY <1>7 DEF Form!Accept, Form!Refuse
  <2>2. \A j \in 1..Len(sends): sends'[j].inst = sends[j].inst
    BY <2>1, SendServed
  <2>3. UNCHANGED <<opening, open, processing, awaited>>
    BY <1>7 DEF Form!Accept, Form!Refuse
  <2> QED
    BY <1>a, <1>b, <1>c, <2>2, <2>3 DEF AwaitRule, Form!Alive, Form!Instance, Form!Remounts
<1>8. CASE \/ Form!Type \/ Form!Discard \/ Form!SomebodySaves \/ Form!Refresh
           \/ Form!Answered \/ Form!Unanswered \/ Form!Retry
  BY <1>8, <1>s DEF Form!Type, Form!Discard, Form!SomebodySaves, Form!Refresh, Form!Answered, Form!Unanswered, Form!Retry
<1>9. CASE UNCHANGED Form!vars
  BY <1>9, <1>s DEF Form!vars
<1> QED
  BY <1>1, <1>2, <1>3, <1>4, <1>5, <1>6, <1>7, <1>8, <1>9 DEF Form!Next

\* A careful form submits only when nothing it sent is unanswered.
LEMMA PressesAlone ==
  ASSUME Form!FormsAssumption, Shape, SentRule, AwaitRule, BusyRule, Form!Careful, Form!Press
  PROVE  /\ ~processing /\ Form!Alive(Form!Instance)
         /\ \A i \in 1..Len(sends): Form!Pending(i) => ~Form!Alive(sends[i].inst) /\ sends[i].inst # Form!Instance
<1>1. "processing" \in form.lock /\ open
  BY DEF Form!Careful, Form!Press
<1>2. ~processing
  BY <1>1, Zenon DEF Form!Press, Form!Locked, Form!Holds
<1>3. Form!Alive(Form!Instance)
  BY <1>1 DEF Form!Alive, Form!Instance
<1>4. ASSUME NEW i \in 1..Len(sends), Form!Pending(i) PROVE ~Form!Alive(sends[i].inst)
  <2>1. SUFFICES ASSUME Form!Alive(sends[i].inst) PROVE FALSE
    OBVIOUS
  <2>2. i = awaited
    BY <1>4, <2>1, Awaited DEF Form!Pending, BusyRule
  <2>3. awaited # 0
    BY <2>2, Awaited
  <2> QED
    BY <1>2, <2>1, <2>2, <2>3, Zenon DEF AwaitRule
<1> QED
  BY <1>2, <1>3, <1>4

\* A careful form awaits the answer to what it sent, and never has two.
LEMMA BusyStays ==
  ASSUME Form!FormsAssumption, Shape, SentRule, AwaitRule, BusyRule, Form!OneAtATime, [Form!Next]_Form!vars
  PROVE  BusyRule' /\ Form!OneAtATime'
<1> USE Form!FormsAssumption, Shape, SentRule, AwaitRule
<1>a. /\ Len(sends) \in Nat /\ DOMAIN sends = 1..Len(sends) /\ awaited \in 0..Len(sends)
      /\ \A i \in 1..Len(sends): sends[i].inst \in Nat
      /\ opening \in Nat /\ open \in BOOLEAN
      /\ awaited # 0 => awaited \in 1..Len(sends)
      /\ form.host = "hosted" => \A i \in 1..Len(sends): sends[i].inst <= opening
  BY Awaited
<1>b. form' = form
  BY FormIsKept
<1>0. CASE ~Form!Careful'
  BY <1>0 DEF BusyRule, Form!OneAtATime
<1>c. CASE Form!Careful'
  <2>0. "processing" \in form.lock /\ form.enter \in {"off", "locked"} /\ ~lost'
    BY <1>b, <1>c DEF Form!Careful
  <2>1. Form!Careful
    <3>1. lost' = lost
      BY <2>0 DEF Form!Next, Form!vars, Form!bounds, Form!Open, Form!Close, Form!Type, Form!Discard, Form!Press,
        Form!Enter, Form!EnterReloads, Form!Succeed, Form!Fail, Form!Lose, Form!SomebodySaves, Form!Refresh,
        Form!Answered, Form!Unanswered, Form!Retry, Form!Accept, Form!Refuse
    <3> QED
      BY <2>0, <3>1 DEF Form!Careful
  <2>2. /\ \A i \in 1..Len(sends): sends[i].state = "sent" /\ Form!Alive(sends[i].inst) => i = awaited
        /\ \A i, j \in 1..Len(sends): i # j /\ Form!Pending(i) /\ Form!Pending(j) => sends[i].inst # sends[j].inst
    BY <1>a, <2>1 DEF BusyRule, Form!OneAtATime
  <2>s. ASSUME Len(sends') = Len(sends), DOMAIN sends' = DOMAIN sends,
               \A i \in 1..Len(sends):
                 /\ sends'[i].inst = sends[i].inst /\ (sends'[i].state = "sent" => sends[i].state = "sent")
                 /\ Form!Alive(sends[i].inst)' /\ sends'[i].state = "sent" => Form!Alive(sends[i].inst) /\ awaited' = awaited,
               awaited' \in {0, awaited}
        PROVE  BusyRule' /\ Form!OneAtATime'
    <3>1. BusyRule'
      BY <1>a, <2>2, <2>s DEF BusyRule, Form!Alive, Form!Remounts
    <3>2. \A i \in 1..Len(sends): Form!Pending(i)' => Form!Pending(i)
      BY <1>a, <2>s DEF Form!Pending
    <3>3. Form!OneAtATime'
      BY <2>2, <2>s, <3>2 DEF Form!OneAtATime
    <3> QED
      BY <3>1, <3>3
  <2>3. CASE Form!Open
    <3>1. sends' = sends /\ awaited' = awaited
      BY <2>3 DEF Form!Open
    <3>2. form.host = "hosted" => opening' = opening + 1
      BY <2>3 DEF Form!Open
    <3>3. \A i \in 1..Len(sends): Form!Alive(sends[i].inst)' => Form!Alive(sends[i].inst)
      BY <1>a, <1>b, <3>1, <3>2 DEF Form!Alive, Form!Remounts
    <3> QED
      BY <2>s, <3>1, <3>3
  <2>4. CASE Form!Close
    <3>1. sends' = sends /\ awaited' = awaited /\ open' = FALSE
      BY <2>4 DEF Form!Close
    <3>2. \A i \in 1..Len(sends): Form!Alive(sends[i].inst)' => Form!Alive(sends[i].inst)
      BY <1>b, <3>1 DEF Form!Alive, Form!Remounts
    <3> QED
      BY <2>s, <3>1, <3>2
  <2>5. CASE Form!Press
    <3>1. sends' = Form!Sent /\ Len(sends) < MaxSends /\ awaited' = Len(sends') /\ opening' = opening /\ open' = open
      BY <2>5 DEF Form!Press
    <3>2. /\ Len(sends') = Len(sends) + 1 /\ DOMAIN sends' = 1..Len(sends) + 1
          /\ sends'[Len(sends) + 1].inst = Form!Instance
          /\ \A i \in 1..Len(sends): sends'[i] = sends[i]
      BY <3>1, SendsGrow
    <3>3. \A i \in 1..Len(sends): Form!Pending(i) => ~Form!Alive(sends[i].inst) /\ sends[i].inst # Form!Instance
      BY <1>a, <2>1, <2>5, PressesAlone, BusyRule
    <3>4. BusyRule'
      <4>1. SUFFICES ASSUME NEW i \in 1..Len(sends), sends'[i].state = "sent", Form!Alive(sends[i].inst)' PROVE FALSE
        BY <1>a, <3>1, <3>2 DEF BusyRule
      <4>2. Form!Pending(i) /\ Form!Alive(sends[i].inst)
        BY <1>b, <3>1, <3>2, <4>1 DEF Form!Pending, Form!Alive, Form!Remounts
      <4> QED
        BY <3>3, <4>2
    <3>5. \A i \in 1..Len(sends): Form!Pending(i)' => Form!Pending(i)
      BY <1>a, <3>1, <3>2 DEF Form!Pending
    <3>6. ASSUME NEW i \in 1..Len(sends'), NEW j \in 1..Len(sends'), i # j, Form!Pending(i)', Form!Pending(j)'
          PROVE  sends'[i].inst # sends'[j].inst
      <4>1. CASE i = Len(sends) + 1
        <5>1. j \in 1..Len(sends)
          BY <1>a, <3>2, <3>6, <4>1
        <5> QED
          BY <3>2, <3>3, <3>5, <3>6, <4>1, <5>1
      <4>2. CASE j = Len(sends) + 1
        <5>1. i \in 1..Len(sends)
          BY <1>a, <3>2, <3>6, <4>2
        <5> QED
          BY <3>2, <3>3, <3>5, <3>6, <4>2, <5>1
      <4>3. CASE i \in 1..Len(sends) /\ j \in 1..Len(sends)
        BY <2>2, <3>2, <3>5, <3>6, <4>3
      <4> QED
        BY <1>a, <3>2, <4>1, <4>2, <4>3
    <3>7. Form!OneAtATime'
      BY <3>6 DEF Form!OneAtATime
    <3> QED
      BY <3>4, <3>7
  <2>6. CASE Form!Enter \/ Form!EnterReloads
    BY <2>0, <2>6 DEF Form!Enter, Form!EnterReloads
  <2>7. CASE Form!Succeed \/ Form!Fail
    <3>0. open' => open
      BY <2>7, Zenon DEF Form!Succeed, Form!Fail
    <3>1. /\ sends' = sends /\ awaited # 0 /\ awaited' = 0 /\ opening' = opening /\ (open' => open)
          /\ sends[awaited].state # "sent"
      BY <2>7, <3>0 DEF Form!Succeed, Form!Fail
    <3>2. \A i \in 1..Len(sends): sends[i].state = "sent" => ~Form!Alive(sends[i].inst)'
      BY <1>b, <2>2, <3>1 DEF Form!Alive, Form!Remounts
    <3> QED
      BY <2>s, <3>1, <3>2
  <2>8. CASE Form!Lose
    BY <2>0, <2>8 DEF Form!Lose
  <2>9. ASSUME NEW i \in 1..Len(sends), Form!Accept(i) \/ Form!Refuse(i) PROVE BusyRule' /\ Form!OneAtATime'
    <3>1. PICK state \in {"done", "refused"}: Form!Served(i, state)
      BY <2>9 DEF Form!Accept, Form!Refuse
    <3>2. /\ Len(sends') = Len(sends) /\ DOMAIN sends' = 1..Len(sends)
          /\ \A j \in 1..Len(sends): sends'[j].inst = sends[j].inst
          /\ \A j \in 1..Len(sends): sends'[j].state = IF j = i THEN state ELSE sends[j].state
      BY <3>1, SendServed
    <3>3. UNCHANGED <<opening, open, awaited>>
      BY <2>9 DEF Form!Accept, Form!Refuse
    <3>4. \A j \in 1..Len(sends): Form!Alive(sends[j].inst)' => Form!Alive(sends[j].inst)
      BY <1>b, <3>2, <3>3 DEF Form!Alive, Form!Remounts
    <3>5. \A j \in 1..Len(sends): sends'[j].state = "sent" => sends[j].state = "sent"
      BY <3>2
    <3> QED
      BY <1>a, <2>s, <3>2, <3>3, <3>4, <3>5
  <2>10. ASSUME UNCHANGED <<opening, open, awaited, sends>> PROVE BusyRule' /\ Form!OneAtATime'
    <3>1. \A i \in 1..Len(sends): Form!Alive(sends[i].inst)' => Form!Alive(sends[i].inst)
      BY <1>b, <2>10 DEF Form!Alive, Form!Remounts
    <3> QED
      BY <2>s, <2>10, <3>1
  <2>11. CASE \/ Form!Type \/ Form!Discard \/ Form!SomebodySaves \/ Form!Refresh
              \/ Form!Answered \/ Form!Unanswered \/ Form!Retry
    BY <2>10, <2>11 DEF Form!Type, Form!Discard, Form!SomebodySaves, Form!Refresh, Form!Answered, Form!Unanswered, Form!Retry
  <2>12. CASE UNCHANGED Form!vars
    BY <2>10, <2>12 DEF Form!vars
  <2> QED
    BY <2>3, <2>4, <2>5, <2>6, <2>7, <2>8, <2>9, <2>11, <2>12 DEF Form!Next
<1> QED
  BY <1>0, <1>c

\* What was typed to add or start something is sent anew only after it was refused.
LEMMA OnceStays ==
  ASSUME Form!FormsAssumption, Shape, SentRule, AwaitRule, BusyRule, ResetRule, OnceRule, [Form!Next]_Form!vars
  PROVE  OnceRule'
<1> USE Form!FormsAssumption, Shape, SentRule, AwaitRule
<1>a. /\ Len(sends) \in Nat /\ DOMAIN sends = 1..Len(sends) /\ awaited \in 0..Len(sends)
      /\ \A i \in 1..Len(sends): sends[i].inst \in Nat /\ sends[i].last \in Nat
      /\ opening \in Nat /\ open \in BOOLEAN
      /\ awaited # 0 => awaited \in 1..Len(sends)
  BY Awaited
<1>b. form' = form /\ (Creates' <=> Creates)
  <2>1. form' = form
    BY FormIsKept
  <2> QED
    BY <2>1 DEF Creates
<1>c. /\ data \in Form!Values /\ defaults \in Form!Values /\ item \in 0..MaxVersions /\ shown \in 0..MaxVersions
      /\ typed \in Nat /\ \A i \in 1..Len(sends): sends[i].last <= typed
  BY <1>a DEF Shape, SentRule, Form!FormsAssumption
<1>0. CASE ~(Form!Careful' /\ Creates)
  BY <1>0, <1>b DEF OnceRule
<1>d. CASE Form!Careful' /\ Creates
  <2>0. "processing" \in form.lock /\ form.enter \in {"off", "locked"} /\ ~lost'
    BY <1>b, <1>d DEF Form!Careful
  <2>1. Form!Careful
    <3>1. lost' = lost
      BY <2>0 DEF Form!Next, Form!vars, Form!bounds, Form!Open, Form!Close, Form!Type, Form!Discard, Form!Press,
        Form!Enter, Form!EnterReloads, Form!Succeed, Form!Fail, Form!Lose, Form!SomebodySaves, Form!Refresh,
        Form!Answered, Form!Unanswered, Form!Retry, Form!Accept, Form!Refuse
    <3> QED
      BY <2>0, <3>1 DEF Form!Careful
  <2>2. /\ \A i, j \in 1..Len(sends): i # j /\ Counts(i) /\ Counts(j) => sends[i].last # sends[j].last
        /\ \A i \in 1..Len(sends):
             Counts(i) /\ sends[i].last = data.last /\ Form!Alive(Form!Instance) => processing /\ i = awaited
    BY <1>a, <1>d, <2>1 DEF OnceRule
  <2>3. /\ form.host = "hosted" => "close" \in form.done /\ "finish" \notin form.done
        /\ form.host # "hosted" => "reset" \in form.done /\ defaults.last = 0
    BY <1>d DEF Creates, Shape, Form!Regular, Form!Steady, ResetRule
  \* The first part looks at what was sent only.
  <2>s. ASSUME sends' = sends,
               data'.last # 0 /\ Form!Alive(Form!Instance)' =>
                 /\ data'.last = data.last /\ Form!Alive(Form!Instance)
                 /\ \A i \in 1..Len(sends): Counts(i) /\ sends[i].last = data.last /\ processing /\ i = awaited
                                            => processing' /\ awaited' = awaited
        PROVE  OnceRule'
    <3>1. \A i \in 1..Len(sends): Counts(i)' = Counts(i)
      BY <2>s DEF Counts
    <3>2. ASSUME NEW i \in 1..Len(sends), Counts(i), sends[i].last = data'.last, Form!Alive(Form!Instance)'
          PROVE  processing' /\ i = awaited'
      <4>1. data'.last # 0
        BY <3>2 DEF Counts
      <4>2. processing /\ i = awaited /\ data'.last = data.last
        BY <2>2, <2>s, <3>2, <4>1
      <4> QED
        BY <2>s, <3>2, <4>1, <4>2
    <3> QED
      BY <1>a, <2>2, <2>s, <3>1, <3>2 DEF OnceRule
  <2>4. CASE Form!Open
    <3>1. CASE form.host = "hosted"
      <4>1. data'.last = 0
        BY <1>c, <2>4, <3>1, FirstValues DEF Form!Open, Form!Remounts
      <4> QED
        BY <2>4, <2>s, <4>1 DEF Form!Open
    <3>2. CASE form.host # "hosted"
      <4>1. processing' = processing
        BY <2>4, <3>2 DEF Form!Open, Form!Remounts
      <4>2. data'.last = data.last \/ data'.last = 0
        BY <1>c, <2>3, <2>4, <3>2, FirstValues DEF Form!Open, Form!Remounts
      <4>3. Form!Alive(Form!Instance)
        BY <3>2 DEF Form!Alive, Form!Remounts
      <4> QED
        BY <2>4, <2>s, <4>1, <4>2, <4>3 DEF Form!Open
    <3> QED
      BY <3>1, <3>2
  <2>5. CASE Form!Close
    <3>1. sends' = sends /\ awaited' = awaited /\ processing' = processing /\ open' = FALSE /\ opening' = opening
      BY <2>5 DEF Form!Close
    <3>2. CASE form.host = "hosted"
      <4>1. ~Form!Alive(Form!Instance)'
        BY <1>b, <3>1, <3>2 DEF Form!Alive, Form!Remounts
      <4> QED
        BY <2>s, <3>1, <4>1
    <3>3. CASE form.host # "hosted"
      <4>1. data'.last = data.last \/ data'.last = 0
        BY <2>3, <2>5, <3>3 DEF Form!Close
      <4>2. Form!Alive(Form!Instance)
        BY <3>3 DEF Form!Alive, Form!Remounts
      <4> QED
        BY <2>s, <3>1, <4>1, <4>2
    <3> QED
      BY <3>2, <3>3
  <2>6. CASE Form!Type
    <3>1. data'.last = typed + 1
      BY <1>c, <2>6 DEF Form!Type, Form!Values
    <3>2. sends' = sends /\ \A i \in 1..Len(sends): sends[i].last # data'.last
      BY <1>a, <1>c, <2>6, <3>1 DEF Form!Type
    <3>3. \A i \in 1..Len(sends): Counts(i)' = Counts(i)
      BY <3>2 DEF Counts
    <3> QED
      BY <1>a, <2>2, <3>2, <3>3 DEF OnceRule
  <2>7. CASE Form!Discard
    <3>1. form.host # "hosted"
      BY <2>7 DEF Form!Discard
    <3>2. data'.last = 0
      BY <1>c, <2>3, <2>7, <3>1, Follow, FirstValues DEF Form!Discard
    <3> QED
      BY <2>7, <2>s, <3>2 DEF Form!Discard
  <2>8. CASE Form!Press
    <3>1. sends' = Form!Sent /\ Len(sends) < MaxSends /\ awaited' = Len(sends') /\ data' = data
      BY <2>8 DEF Form!Press, Form!values
    <3>2. processing' = TRUE
      BY <2>8, Zenon DEF Form!Press
    <3>3. /\ Len(sends') = Len(sends) + 1 /\ DOMAIN sends' = 1..Len(sends) + 1
          /\ sends'[Len(sends) + 1].last = data.last
          /\ \A i \in 1..Len(sends): sends'[i] = sends[i]
      BY <3>1, SendsGrow
    <3>4. ~processing /\ Form!Alive(Form!Instance)
      BY <2>1, <2>8, PressesAlone
    <3>5. \A i \in 1..Len(sends): Counts(i) => sends[i].last # data.last
      BY <2>2, <3>4, Zenon
    <3>6. \A i \in 1..Len(sends): Counts(i)' = Counts(i)
      BY <3>3 DEF Counts
    <3>7. ASSUME NEW i \in DOMAIN sends', NEW j \in DOMAIN sends', i # j, Counts(i)', Counts(j)'
          PROVE  sends'[i].last # sends'[j].last
      <4>1. CASE i = Len(sends) + 1
        <5>1. j \in 1..Len(sends)
          BY <1>a, <3>3, <3>7, <4>1
        <5> QED
          BY <3>3, <3>5, <3>6, <3>7, <4>1, <5>1
      <4>2. CASE j = Len(sends) + 1
        <5>1. i \in 1..Len(sends)
          BY <1>a, <3>3, <3>7, <4>2
        <5> QED
          BY <3>3, <3>5, <3>6, <3>7, <4>2, <5>1
      <4>3. CASE i \in 1..Len(sends) /\ j \in 1..Len(sends)
        BY <2>2, <3>3, <3>6, <3>7, <4>3
      <4> QED
        BY <1>a, <3>3, <4>1, <4>2, <4>3
    <3>8. ASSUME NEW i \in DOMAIN sends', Counts(i)', sends'[i].last = data'.last
          PROVE  processing' /\ i = awaited'
      <4>1. i \notin 1..Len(sends)
        BY <3>1, <3>3, <3>5, <3>6, <3>8
      <4>2. i = awaited'
        BY <1>a, <3>1, <3>3, <3>8, <4>1
      <4> QED
        BY <3>2, <4>2
    <3> QED
      BY <3>7, <3>8 DEF OnceRule
  <2>9. CASE Form!Enter \/ Form!EnterReloads \/ Form!Lose
    BY <2>0, <2>9 DEF Form!Enter, Form!EnterReloads, Form!Lose
  <2>10. CASE Form!Succeed
    <3>1. sends' = sends /\ awaited # 0 /\ opening' = opening
      BY <2>10 DEF Form!Succeed
    <3>0. open' => open /\ ~Form!Closes(sends[awaited].inst)
      BY <2>10, Zenon DEF Form!Succeed
    <3>2. CASE Form!Alive(sends[awaited].inst)
      <4>1. CASE form.host = "hosted"
        <5>1. ~open'
          BY <2>3, <3>0, <3>2, <4>1 DEF Form!Closes
        <5>2. ~Form!Alive(Form!Instance)'
          BY <1>b, <4>1, <5>1 DEF Form!Alive, Form!Remounts
        <5> QED
          BY <2>s, <3>1, <5>2
      <4>2. CASE form.host # "hosted"
        <5>1. Form!Cleared(data) = defaults
          BY <2>3, <4>2 DEF Form!Cleared
        <5>2. Form!Becomes(defaults, defaults, item)
          BY <2>10, <3>2, <5>1 DEF Form!Succeed
        <5>3. data'.last = 0
          BY <1>c, <2>3, <4>2, <5>2, Follow, FirstValues
        <5> QED
          BY <2>s, <3>1, <5>3
      <4> QED
        BY <4>1, <4>2
    <3>3. CASE ~Form!Alive(sends[awaited].inst)
      <4>1. data' = data /\ processing' = processing
        BY <2>10, <3>3 DEF Form!Succeed, Form!values
      <4>2. form.host = "hosted"
        BY <3>3 DEF Form!Alive, Form!Remounts
      <4>3. Form!Alive(Form!Instance)' => Form!Alive(Form!Instance)
        BY <1>b, <3>0, <3>1, <4>2 DEF Form!Alive, Form!Instance, Form!Remounts
      <4>4. ~(processing /\ Form!Alive(Form!Instance))
        BY <3>1, <3>3, Awaited, Zenon
      <4> QED
        BY <2>s, <3>1, <4>1, <4>3, <4>4
    <3> QED
      BY <3>2, <3>3
  <2>11. CASE Form!Fail
    <3>1. /\ sends' = sends /\ awaited # 0 /\ opening' = opening /\ open' = open /\ sends[awaited].state = "refused"
          /\ data' = (IF "finish" \in form.done THEN defaults ELSE data)
      BY <2>11 DEF Form!Fail
    <3>2. ~Counts(awaited)
      BY <3>1 DEF Counts
    <3>3. data' = data \/ data'.last = 0
      BY <2>3, <3>1
    <3>4. Form!Alive(Form!Instance)' = Form!Alive(Form!Instance)
      BY <1>b, <3>1 DEF Form!Alive, Form!Instance, Form!Remounts
    <3> QED
      BY <2>s, <3>1, <3>2, <3>3, <3>4
  <2>u. ASSUME sends' = sends, awaited' = awaited, opening' = opening, open' = open, processing' = processing,
               data'.last = data.last \/ data'.last = 0
        PROVE  OnceRule'
    <3>1. Form!Alive(Form!Instance)' = Form!Alive(Form!Instance)
      BY <1>b, <2>u DEF Form!Alive, Form!Instance, Form!Remounts
    <3> QED
      BY <2>s, <2>u, <3>1
  <2>12. CASE Form!Refresh
    <3>1. data'.last = data.last \/ data'.last = 0
      BY <1>c, <2>12, Follow, FirstValues DEF Form!Refresh
    <3> QED
      BY <2>12, <2>u, <3>1 DEF Form!Refresh
  <2>13. CASE Form!Answered
    <3>1. data'.last = data.last \/ data'.last = 0
      BY <1>c, <2>13 DEF Form!Answered, Form!Values
    <3> QED
      BY <2>13, <2>u, <3>1 DEF Form!Answered
  <2>14. ASSUME NEW i \in 1..Len(sends), Form!Accept(i) \/ Form!Refuse(i) PROVE OnceRule'
    <3>1. PICK state \in {"done", "refused"}: Form!Served(i, state)
      BY <2>14 DEF Form!Accept, Form!Refuse
    <3>2. /\ Len(sends') = Len(sends) /\ DOMAIN sends' = 1..Len(sends)
          /\ \A j \in 1..Len(sends): sends'[j].last = sends[j].last
          /\ \A j \in 1..Len(sends): sends'[j].state = IF j = i THEN state ELSE sends[j].state
      BY <3>1, SendServed
    <3>3. UNCHANGED <<opening, open, awaited, processing, data>>
      BY <2>14 DEF Form!Accept, Form!Refuse, Form!values
    <3>4. sends[i].state = "sent"
      BY <2>14 DEF Form!Accept, Form!Refuse
    <3>5. \A j \in 1..Len(sends): Counts(j)' => Counts(j)
      BY <3>2, <3>4 DEF Counts
    <3>6. Form!Alive(Form!Instance)' = Form!Alive(Form!Instance)
      BY <1>b, <3>3 DEF Form!Alive, Form!Instance, Form!Remounts
    <3>7. \A j, k \in 1..Len(sends): j # k /\ Counts(j)' /\ Counts(k)' => sends'[j].last # sends'[k].last
      BY <2>2, <3>2, <3>5
    <3>8. \A j \in 1..Len(sends):
            Counts(j)' /\ sends'[j].last = data'.last /\ Form!Alive(Form!Instance)' => processing' /\ j = awaited'
      BY <2>2, <3>2, <3>3, <3>5, <3>6
    <3> QED
      BY <3>2, <3>7, <3>8 DEF OnceRule
  <2>15. CASE Form!SomebodySaves \/ Form!Unanswered \/ Form!Retry
    BY <2>15, <2>u DEF Form!SomebodySaves, Form!Unanswered, Form!Retry, Form!values
  <2>16. CASE UNCHANGED Form!vars
    BY <2>16, <2>u DEF Form!vars, Form!values
  <2> QED
    BY <2>4, <2>5, <2>6, <2>7, <2>8, <2>9, <2>10, <2>11, <2>12, <2>13, <2>14, <2>15, <2>16 DEF Form!Next
<1> QED
  BY <1>0, <1>d

\* First values that were asked for an opening fill that opening, before it is typed in.
LEMMA QueryStays ==
  ASSUME Form!FormsAssumption, Shape, QueryRule, Form!LoadedBeforeSaved, [Form!Next]_Form!vars
  PROVE  QueryRule' /\ Form!LoadedBeforeSaved'
<1> USE Form!FormsAssumption, Shape
<1>0. form' = form /\ (Form!Queried' <=> Form!Queried) /\ Form!Unloaded' = Form!Unloaded
  <2>1. form' = form
    BY FormIsKept
  <2> QED
    BY <2>1 DEF Form!Queried, Form!Unloaded
<1>1. CASE ~(Form!Queried /\ ~warm')
  BY <1>0, <1>1 DEF QueryRule, Form!LoadedBeforeSaved
<1>2. CASE Form!Queried /\ ~warm'
  <2>0. /\ form.seed = "query" /\ "reset" \notin form.done /\ "finish" \notin form.done /\ form.host # "page"
        /\ form.enter \notin {"free", "native", "reloads"} /\ form.turn = "keeps" /\ ~form.frozen
    BY <1>2 DEF Form!Queried, Shape, Form!Regular, Form!Steady
  <2>1. /\ data \in Form!Values /\ defaults \in Form!Values /\ item \in 0..MaxVersions /\ shown \in 0..MaxVersions
        /\ Len(sends) \in Nat /\ DOMAIN sends = 1..Len(sends) /\ MaxVersions \in Nat
        /\ item # Form!Unloaded /\ (query = "new" => cache = Form!Unloaded)
    BY DEF Shape, Form!FormsAssumption, Form!Unloaded
  <2>2. CASE Form!Open
    <3>1. ~warm /\ query = "new"
      BY <1>2, <2>2, Zenon DEF Form!Open
    <3>2. /\ cache = Form!Unloaded /\ Form!Ask(IF Form!Remounts THEN opening + 1 ELSE 1)
          /\ sends' = sends /\ opening' = opening + 1
      BY <2>1, <2>2, <3>1 DEF Form!Open
    <3>3. query' = "asking" /\ cache' = cache /\ asker' = IF Form!Remounts THEN opening + 1 ELSE 1
      BY <1>2, <3>1, <3>2 DEF Form!Ask
    <3>4. data'.last = 0
      BY <1>2, <2>0, <2>1, <2>2, <3>1, <3>2, FirstValues DEF Form!Open, QueryRule
    <3>5. QueryRule'
      BY <1>0, <3>2, <3>3, <3>4 DEF QueryRule, Form!Remounts
    <3>6. Form!LoadedBeforeSaved'
      BY <1>0, <1>2, <3>1, <3>2 DEF Form!LoadedBeforeSaved
    <3> QED
      BY <3>5, <3>6
  <2>w. ASSUME ~Form!Open PROVE warm' = warm
    BY <2>w DEF Form!Next, Form!vars, Form!bounds, Form!Close, Form!Type, Form!Discard, Form!Press,
      Form!Enter, Form!EnterReloads, Form!Succeed, Form!Fail, Form!Lose, Form!SomebodySaves, Form!Refresh,
      Form!Answered, Form!Unanswered, Form!Retry, Form!Accept, Form!Refuse
  <2>3. CASE ~Form!Open
    <3>1. ~warm
      BY <1>2, <2>3, <2>w
    <3>2. /\ query # "again" /\ (query = "ok" <=> cache # Form!Unloaded)
          /\ cache = Form!Unloaded => data.last = 0
          /\ form.host = "hosted" /\ query = "asking" => asker = opening
          /\ open /\ query = "ok" => data.from # Form!Unloaded
      BY <1>2, <3>1 DEF QueryRule
    <3>3. "unfetched" \in form.lock => \A i \in 1..Len(sends): sends[i].from # Form!Unloaded
      BY <1>2, <3>1 DEF Form!LoadedBeforeSaved
    <3>s. ASSUME sends' = sends \/ (Len(sends') = Len(sends) /\ \A i \in 1..Len(sends): sends'[i].from = sends[i].from)
          PROVE  Form!LoadedBeforeSaved'
      BY <1>0, <3>3, <3>s DEF Form!LoadedBeforeSaved
    <3>q. ASSUME query' = query, cache' = cache, asker' = asker, opening' = opening, open' => open,
                 cache # Form!Unloaded \/ data'.last \in {0, data.last}, data'.from = data.from \/ data'.from # Form!Unloaded
          PROVE  QueryRule'
      BY <1>0, <3>2, <3>q DEF QueryRule
    <3>4. CASE Form!Close
      <4>1. data' = data /\ open' = FALSE /\ UNCHANGED <<query, cache, asker, opening, sends>>
        BY <2>0, <3>4 DEF Form!Close, Form!fetch
      <4> QED
        BY <3>q, <3>s, <4>1
    <3>5. CASE Form!Type
      <4>1. cache # Form!Unloaded /\ UNCHANGED <<query, cache, asker, opening, open, sends>>
        BY <1>2, <3>5 DEF Form!Type, Form!fetch, Form!Rendered, Form!Loaded
      <4>2. data'.from = data.from
        BY <2>1, <3>5 DEF Form!Type, Form!Values
      <4> QED
        BY <3>q, <3>s, <4>1, <4>2
    <3>6. CASE Form!Discard
      BY <2>0, <3>6 DEF Form!Discard
    <3>7. CASE Form!Press
      <4>1. /\ sends' = Form!Sent /\ Len(sends) < MaxSends /\ open
            /\ UNCHANGED <<query, cache, asker, opening, open, data>>
        BY <3>7 DEF Form!Press, Form!fetch, Form!values
      <4>2. /\ Len(sends') = Len(sends) + 1 /\ sends'[Len(sends) + 1].from = data.from
            /\ \A i \in 1..Len(sends): sends'[i] = sends[i]
        BY <4>1, SendsGrow
      <4>3. "unfetched" \in form.lock => query = "ok"
        BY <3>2, <3>7 DEF Form!Press, Form!Locked, Form!Holds, Form!Loaded
      <4>4. "unfetched" \in form.lock => \A i \in 1..Len(sends'): sends'[i].from # Form!Unloaded
        BY <2>1, <3>2, <3>3, <4>1, <4>2, <4>3
      <4>5. Form!LoadedBeforeSaved'
        BY <1>0, <4>4 DEF Form!LoadedBeforeSaved
      <4> QED
        BY <3>q, <4>1, <4>5
    <3>8. CASE Form!Enter \/ Form!EnterReloads
      BY <2>0, <3>8 DEF Form!Enter, Form!EnterReloads
    <3>9. CASE Form!Succeed
      <4>1. UNCHANGED <<query, cache, asker, opening, sends>>
        BY <3>9 DEF Form!Succeed, Form!fetch
      <4>2. open' => open
        BY <3>9, Zenon DEF Form!Succeed
      <4>3. Form!Cleared(data) = Form!Saved(data)
        BY <2>0 DEF Form!Cleared
      <4>4. data' = Form!Saved(data) \/ data' = data
        BY <2>0, <3>9, <4>3 DEF Form!Succeed, Form!Becomes, Form!values
      <4>5. data'.last \in {0, data.last} /\ (data'.from = data.from \/ data'.from # Form!Unloaded)
        BY <2>1, <4>4 DEF Form!Saved
      <4> QED
        BY <3>q, <3>s, <4>1, <4>2, <4>5
    <3>10. CASE Form!Fail \/ Form!Lose
      <4>1. data' = data /\ UNCHANGED <<query, cache, asker, opening, open, sends>>
        BY <2>0, <3>10 DEF Form!Fail, Form!Lose, Form!fetch
      <4> QED
        BY <3>q, <3>s, <4>1
    <3>11. CASE Form!Refresh
      <4>1. data' = data /\ UNCHANGED <<query, cache, asker, opening, open, sends>>
        BY <2>0, <3>11 DEF Form!Refresh, Form!fetch, Form!Becomes
      <4> QED
        BY <3>q, <3>s, <4>1
    <3>12. CASE Form!Answered
      <4>1. query' = "ok" /\ cache' = item /\ opening' = opening /\ open' = open /\ sends' = sends /\ query = "asking"
        BY <3>2, <3>12 DEF Form!Answered
      <4>2. ASSUME open PROVE data'.from # Form!Unloaded
        <5>1. Form!Alive(asker)
          BY <3>2, <4>1, <4>2 DEF Form!Alive, Form!Remounts
        <5>2. data' = [data EXCEPT !.from = item, !.last = 0]
          BY <3>12, <5>1 DEF Form!Answered
        <5> QED
          BY <2>1, <5>2 DEF Form!Values
      <4>3. QueryRule'
        BY <1>0, <2>1, <4>1, <4>2 DEF QueryRule
      <4> QED
        BY <3>s, <4>1, <4>3
    <3>13. CASE Form!Unanswered
      <4>1. /\ query' = "failed" /\ query = "asking" /\ cache = Form!Unloaded
            /\ UNCHANGED <<cache, opening, open, sends, data>>
        BY <3>2, <3>13 DEF Form!Unanswered, Form!values
      <4>2. QueryRule'
        BY <1>0, <3>2, <4>1 DEF QueryRule
      <4> QED
        BY <3>s, <4>1, <4>2
    <3>14. CASE Form!Retry
      <4>1. /\ query = "failed" /\ Form!Ask(Form!Instance) /\ cache = Form!Unloaded
            /\ UNCHANGED <<opening, open, sends, data>>
        BY <3>2, <3>14 DEF Form!Retry, Form!values
      <4>2. query' = "asking" /\ cache' = cache /\ asker' = Form!Instance
        BY <1>2, <4>1 DEF Form!Ask
      <4>3. QueryRule'
        BY <1>0, <3>2, <4>1, <4>2 DEF QueryRule, Form!Instance, Form!Remounts
      <4> QED
        BY <3>s, <4>1, <4>3
    <3>15. ASSUME NEW i \in 1..Len(sends), Form!Accept(i) \/ Form!Refuse(i) PROVE QueryRule' /\ Form!LoadedBeforeSaved'
      <4>1. PICK state \in {"done", "refused"}: Form!Served(i, state)
        BY <3>15 DEF Form!Accept, Form!Refuse
      <4>2. Len(sends') = Len(sends) /\ \A j \in 1..Len(sends): sends'[j].from = sends[j].from
        BY <4>1, SendServed
      <4>3. UNCHANGED <<query, cache, asker, opening, open, data>>
        BY <3>15 DEF Form!Accept, Form!Refuse, Form!values, Form!fetch
      <4> QED
        BY <3>q, <3>s, <4>2, <4>3
    <3>16. CASE Form!SomebodySaves \/ UNCHANGED Form!vars
      <4>1. UNCHANGED <<query, cache, asker, opening, open, data, sends>>
        BY <3>16 DEF Form!SomebodySaves, Form!vars, Form!values, Form!fetch
      <4> QED
        BY <3>q, <3>s, <4>1
    <3> QED
      BY <2>3, <3>4, <3>5, <3>6, <3>7, <3>8, <3>9, <3>10, <3>11, <3>12, <3>13, <3>14, <3>15, <3>16 DEF Form!Next
  <2> QED
    BY <2>2, <2>3
<1> QED
  BY <1>1, <1>2

\* A form that follows its record does so whenever it is clean.
LEMMA CleanStays ==
  ASSUME Form!FormsAssumption, Shape, SentRule, Form!CleanFormsFollow, [Form!Next]_Form!vars
  PROVE  Form!CleanFormsFollow'
<1> USE Form!FormsAssumption, Shape
<1>0. form' = form
  BY FormIsKept
<1>1. SUFFICES ASSUME form.seed = "synced" PROVE data' = defaults' => data'.from = shown'
  BY <1>0 DEF Form!CleanFormsFollow
<1>2. /\ "finish" \notin form.done /\ form.host = "page" /\ form.turn = "keeps" /\ form.enter \notin {"native", "reloads"}
      /\ query = "new"
  BY <1>1 DEF Shape, Form!Regular, Form!Steady, Form!Queried
<1>3. /\ data \in Form!Values /\ defaults \in Form!Values /\ item \in 0..MaxVersions /\ shown \in 0..MaxVersions
      /\ typed \in Nat /\ defaults.last \in Nat /\ defaults.last <= typed
  BY DEF Shape, SentRule, Form!Values, Form!FormsAssumption
<1>4. data = defaults => data.from = shown
  BY <1>1 DEF Form!CleanFormsFollow
<1>s. ASSUME data' = data, defaults' = defaults, shown' = shown PROVE data' = defaults' => data'.from = shown'
  BY <1>4, <1>s
<1>b. ASSUME NEW d \in Form!Values, NEW e \in Form!Values, NEW v \in 0..MaxVersions, Form!Becomes(d, e, v), shown' = v
      PROVE  data' = defaults' => data'.from = shown'
  BY <1>1, <1>b, Follow, FirstValues
<1>5. CASE Form!Open
  BY <1>2, <1>s, <1>5 DEF Form!Open, Form!Remounts
<1>6. CASE Form!Close
  BY <1>2, <1>6 DEF Form!Close
<1>7. CASE Form!Type
  <2>1. data'.last = typed + 1 /\ defaults' = defaults
    BY <1>3, <1>7 DEF Form!Type, Form!Values
  <2> QED
    BY <1>3, <2>1
<1>8. CASE Form!Discard
  BY <1>3, <1>8, <1>b DEF Form!Discard
<1>9. CASE Form!EnterReloads
  BY <1>2, <1>9 DEF Form!EnterReloads
<1>10. CASE Form!Succeed
  <2>1. Form!Alive(sends[awaited].inst)
    BY <1>2 DEF Form!Alive, Form!Remounts
  <2>2. Form!Becomes(Form!Cleared(data), Form!Cleared(data), item) /\ shown' = item
    BY <1>10, <2>1 DEF Form!Succeed
  <2>3. Form!Cleared(data) \in Form!Values
    BY <1>3 DEF Form!Cleared, Form!Saved, Form!Values, Form!Unloaded, Form!FormsAssumption
  <2> QED
    BY <1>3, <1>b, <2>2, <2>3
<1>11. CASE Form!Fail \/ Form!Lose
  BY <1>2, <1>11, <1>s DEF Form!Fail, Form!Lose
<1>12. CASE Form!Refresh
  BY <1>3, <1>12, <1>b DEF Form!Refresh
<1>13. CASE Form!Answered
  BY <1>2, <1>13 DEF Form!Answered
<1>14. ASSUME NEW i \in 1..Len(sends), Form!Accept(i) \/ Form!Refuse(i) PROVE UNCHANGED <<data, defaults, shown>>
  BY <1>14 DEF Form!Accept, Form!Refuse, Form!values
<1>15. CASE Form!Press \/ Form!Enter \/ Form!SomebodySaves \/ Form!Unanswered \/ Form!Retry
  BY <1>15, <1>s DEF Form!Press, Form!Enter, Form!SomebodySaves, Form!Unanswered, Form!Retry, Form!values
<1>16. CASE UNCHANGED Form!vars
  BY <1>16, <1>s DEF Form!vars, Form!values
<1> QED
  BY <1>5, <1>6, <1>7, <1>8, <1>9, <1>10, <1>11, <1>12, <1>13, <1>14, <1>15, <1>16, <1>s DEF Form!Next

\* A frozen form shows what it sent until it is answered.
LEMMA FrozenStays ==
  ASSUME Form!FormsAssumption, Shape, SentRule, AwaitRule, ResetRule, FrozenRule, [Form!Next]_Form!vars
  PROVE  FrozenRule'
<1> USE Form!FormsAssumption, Shape, SentRule, AwaitRule
<1>0. form' = form
  BY FormIsKept
<1>1. CASE ~form.frozen
  BY <1>0, <1>1 DEF FrozenRule
<1>2. CASE form.frozen
  <2>1. form.turn = "keeps" /\ form.enter \notin {"native", "reloads"} /\ query = "new"
    BY <1>2 DEF Shape, Form!Regular, Form!Steady, Form!Queried
  <2>2. /\ Len(sends) \in Nat /\ awaited \in 0..Len(sends) /\ \A i \in 1..Len(sends): sends[i].inst \in Nat
        /\ opening \in Nat /\ (awaited # 0 => awaited \in 1..Len(sends))
        /\ form.host = "hosted" => \A i \in 1..Len(sends): sends[i].inst <= opening
    BY Awaited
  <2>3. awaited # 0 /\ Form!Alive(sends[awaited].inst) => data.last = sends[awaited].last
    BY <1>2 DEF FrozenRule
  <2>s. ASSUME sends' = sends, awaited' = awaited,
               awaited # 0 /\ Form!Alive(sends[awaited].inst)' => Form!Alive(sends[awaited].inst) /\ data'.last = data.last
        PROVE  FrozenRule'
    BY <1>0, <2>3, <2>s DEF FrozenRule, Form!Alive, Form!Remounts
  <2>u. ASSUME sends' = sends, awaited' = awaited, open' = open, opening' = opening,
               awaited # 0 /\ Form!Alive(sends[awaited].inst) => data'.last = data.last
        PROVE  FrozenRule'
    BY <1>0, <2>s, <2>u DEF Form!Alive, Form!Remounts
  <2>4. CASE Form!Open
    <3>1. sends' = sends /\ awaited' = awaited /\ opening' = opening + 1
      BY <2>4 DEF Form!Open
    <3>2. CASE form.host = "hosted"
      <4>1. awaited # 0 => ~Form!Alive(sends[awaited].inst)'
        BY <1>0, <2>2, <3>1, <3>2 DEF Form!Alive, Form!Remounts
      <4> QED
        BY <2>s, <3>1, <4>1
    <3>3. CASE form.host # "hosted"
      <4>1. data' = data /\ Form!Alive(sends[awaited].inst)
        BY <2>1, <2>4, <3>3 DEF Form!Open, Form!Alive, Form!Remounts
      <4> QED
        BY <2>s, <3>1, <4>1
    <3> QED
      BY <3>2, <3>3
  <2>5. CASE Form!Close
    <3>1. sends' = sends /\ awaited' = awaited /\ opening' = opening /\ open' = FALSE /\ data' = data
      BY <2>1, <2>5 DEF Form!Close
    <3>2. Form!Alive(sends[awaited].inst)' => Form!Alive(sends[awaited].inst)
      BY <1>0, <3>1 DEF Form!Alive, Form!Remounts
    <3> QED
      BY <2>s, <3>1, <3>2
  <2>6. CASE Form!Type
    <3>1. ~processing
      BY <1>2, <2>6, Zenon DEF Form!Type, Form!Frozen
    <3>2. ~(awaited # 0 /\ Form!Alive(sends[awaited].inst))
      BY <3>1, Zenon DEF AwaitRule
    <3> QED
      BY <2>6, <2>u, <3>2 DEF Form!Type
  <2>7. CASE Form!Discard
    <3>1. ~processing
      BY <1>2, <2>7, Zenon DEF Form!Discard, Form!Frozen
    <3>2. ~(awaited # 0 /\ Form!Alive(sends[awaited].inst))
      BY <3>1, Zenon DEF AwaitRule
    <3> QED
      BY <2>7, <2>u, <3>2 DEF Form!Discard
  <2>8. CASE Form!Press \/ Form!Enter
    <3>1. sends' = Form!Sent /\ Len(sends) < MaxSends /\ awaited' = Len(sends') /\ data' = data
      BY <2>8 DEF Form!Press, Form!Enter, Form!values
    <3>2. awaited' = Len(sends) + 1 /\ sends'[awaited'].last = data.last
      BY <3>1, SendsGrow
    <3> QED
      BY <3>1, <3>2 DEF FrozenRule
  <2>9. CASE Form!EnterReloads
    BY <2>1, <2>9 DEF Form!EnterReloads
  <2>10. CASE Form!Succeed \/ Form!Fail \/ Form!Lose
    <3>1. awaited' = 0
      BY <2>10 DEF Form!Succeed, Form!Fail, Form!Lose
    <3> QED
      BY <3>1 DEF FrozenRule
  <2>11. CASE Form!Refresh
    <3>1. Form!Becomes(data, defaults, item) /\ data \in Form!Values /\ defaults \in Form!Values /\ item \in 0..MaxVersions
      BY <2>11 DEF Form!Refresh, Shape
    <3>2. form.seed = "synced" => defaults.last = 0
      BY DEF ResetRule
    <3>3. data'.last = data.last
      BY <3>1, <3>2, Follow, FirstValues
    <3> QED
      BY <2>11, <2>u, <3>3 DEF Form!Refresh
  <2>12. CASE Form!Answered
    BY <2>1, <2>12 DEF Form!Answered
  <2>13. ASSUME NEW i \in 1..Len(sends), Form!Accept(i) \/ Form!Refuse(i) PROVE FrozenRule'
    <3>1. PICK state \in {"done", "refused"}: Form!Served(i, state)
      BY <2>13 DEF Form!Accept, Form!Refuse
    <3>2. \A j \in 1..Len(sends): sends'[j].inst = sends[j].inst /\ sends'[j].last = sends[j].last
      BY <3>1, SendServed
    <3>3. UNCHANGED <<opening, open, awaited, data>>
      BY <2>13 DEF Form!Accept, Form!Refuse, Form!values
    <3> QED
      BY <1>0, <2>2, <2>3, <3>2, <3>3 DEF FrozenRule, Form!Alive, Form!Remounts
  <2>14. CASE Form!SomebodySaves \/ Form!Unanswered \/ Form!Retry
    BY <2>14, <2>u DEF Form!SomebodySaves, Form!Unanswered, Form!Retry, Form!values
  <2>15. CASE UNCHANGED Form!vars
    BY <2>15, <2>u DEF Form!vars, Form!values
  <2> QED
    BY <2>4, <2>5, <2>6, <2>7, <2>8, <2>9, <2>10, <2>11, <2>12, <2>13, <2>14, <2>15 DEF Form!Next
<1> QED
  BY <1>1, <1>2

LEMMA FormStep == ASSUME Form!FormsAssumption PROVE FormInv /\ [Form!Next]_(Form!vars) => FormInv'
BY ShapeStays, SentStays, AwaitStays, ResetStays, BusyStays, OnceStays, QueryStays, CleanStays, FrozenStays
   DEF FormInv, FormBase

LEMMA FormInvariant == ASSUME Form!FormsAssumption PROVE Form!Spec => []FormInv
BY FormBegins, FormStep, PTL DEF Form!Spec

\* Whatever the order of answers, refreshes and key presses: a careful form sends nothing while something it sent is
\* unanswered, and nothing twice that adds or starts something; a form that waits for its first values sends nothing
\* else; a clean form shows the record.
THEOREM FormsSendOnce ==
  ASSUME Form!FormsAssumption
  PROVE  Form!Spec => [](/\ Form!TypeOK /\ Form!OneAtATime /\ Form!CreatedOnce
                         /\ Form!LoadedBeforeSaved /\ Form!CleanFormsFollow)
<1>1. ASSUME FormInv PROVE Form!CreatedOnce
  <2> SUFFICES ASSUME Form!Careful, Creates, NEW i \in 1..Len(sends), NEW j \in 1..Len(sends), i # j,
                      sends[i].state = "done", sends[j].state = "done", sends[i].last # 0
               PROVE  sends[i].last # sends[j].last
    BY DEF Form!CreatedOnce, Creates
  <2>1. CASE sends[j].last = 0
    BY <2>1
  <2>2. CASE sends[j].last # 0
    BY <1>1, <2>2 DEF FormInv, FormBase, Shape, OnceRule, Counts
  <2> QED
    BY <2>1, <2>2
<1>2. ASSUME FormInv PROVE Form!TypeOK
  <2>1. processing /\ Form!Alive(Form!Instance) => awaited # 0
    BY <1>2, Zenon DEF FormInv, FormBase, AwaitRule
  <2>2. awaited \in 0..MaxSends
    BY <1>2 DEF FormInv, FormBase, Shape, Form!FormsAssumption
  <2>3. processing \in BOOLEAN
    BY <1>2, Zenon DEF FormInv, FormBase, Shape
  <2> QED
    BY <1>2, <2>1, <2>2, <2>3 DEF FormInv, FormBase, Shape, Form!TypeOK
<1>3. FormInv => Form!OneAtATime /\ Form!LoadedBeforeSaved /\ Form!CleanFormsFollow
  BY DEF FormInv
<1> QED
  BY <1>1, <1>2, <1>3, FormInvariant, PTL

\* An answer that comes late leaves alone what was opened or typed since, and the answer with the first values what
\* was typed.
THEOREM LateAnswersSpareForms ==
  ASSUME Form!FormsAssumption
  PROVE  Form!Spec => [][/\ Form!LateAnswerIsHarmless /\ Form!TypingSurvives
                         /\ Form!NothingTypedIsOverwritten]_(Form!vars)
<1>1. ASSUME FormInv, Form!Next PROVE Form!LateAnswerIsHarmless /\ Form!TypingSurvives
  <2> SUFFICES ASSUME form.host = "hosted" \/ form.frozen, awaited # 0, awaited' = 0, sends' = sends
               PROVE  /\ form.host = "hosted" /\ sends[awaited].inst # opening
                           => open' = open /\ Form!values' = Form!values /\ processing' = processing
                      /\ form.frozen /\ data'.last # data.last => data.last = sends[awaited].last
    BY DEF Form!LateAnswerIsHarmless, Form!TypingSurvives
  <2>1. "finish" \notin form.done /\ form.enter \notin {"native", "reloads"}
    BY <1>1 DEF FormInv, FormBase, Shape, Form!Regular, Form!Steady
  <2>2. Form!Succeed \/ Form!Fail \/ Form!Lose
    <3>1. ASSUME Form!Press \/ Form!Enter PROVE FALSE
      <4>1. sends' = Form!Sent /\ Len(sends) < MaxSends
        BY <3>1 DEF Form!Press, Form!Enter
      <4>2. Len(sends') = Len(sends) + 1 /\ Len(sends) \in Nat
        BY <1>1, <4>1, SendsGrow DEF FormInv, FormBase
      <4> QED
        BY <4>2
    <3>2. ~Form!EnterReloads
      BY <2>1 DEF Form!EnterReloads
    <3>3. ASSUME NEW i \in 1..Len(sends) PROVE ~Form!Accept(i) /\ ~Form!Refuse(i)
      BY DEF Form!Accept, Form!Refuse
    <3>4. ~Form!Open /\ ~Form!Close /\ ~Form!Type /\ ~Form!Discard
      BY DEF Form!Open, Form!Close, Form!Type, Form!Discard
    <3>5. ~Form!SomebodySaves /\ ~Form!Refresh /\ ~Form!Answered /\ ~Form!Unanswered /\ ~Form!Retry
      BY DEF Form!SomebodySaves, Form!Refresh, Form!Answered, Form!Unanswered, Form!Retry
    <3> QED
      BY <1>1, <3>1, <3>2, <3>3, <3>4, <3>5 DEF Form!Next
  <2>3. CASE Form!Alive(sends[awaited].inst)
    <3>1. form.host = "hosted" => sends[awaited].inst = opening
      BY <2>3 DEF Form!Alive, Form!Remounts
    <3>2. form.frozen => data.last = sends[awaited].last
      BY <1>1, <2>3 DEF FormInv, FrozenRule
    <3> QED
      BY <3>1, <3>2
  <2>4. CASE ~Form!Alive(sends[awaited].inst)
    <3>1. Form!values' = Form!values
      BY <2>1, <2>2, <2>4 DEF Form!Succeed, Form!Fail, Form!Lose, Form!values
    <3>a. open \in BOOLEAN /\ processing \in BOOLEAN
      BY <1>1, Zenon DEF FormInv, FormBase, Shape
    <3>2. ASSUME Form!Succeed PROVE open' = open /\ processing' = processing
      <4>1. open' = (open /\ ~Form!Closes(sends[awaited].inst))
        BY <3>2, Zenon DEF Form!Succeed
      <4>2. open' = open
        BY <2>4, <3>a, <4>1, Zenon DEF Form!Closes
      <4>3. processing' = processing
        BY <2>4, <3>2 DEF Form!Succeed
      <4> QED
        BY <4>2, <4>3
    <3>3. ASSUME Form!Fail \/ Form!Lose PROVE open' = open /\ processing' = processing
      <4>1. open' = open
        BY <3>3 DEF Form!Fail, Form!Lose
      <4>2. processing' = (processing /\ ~Form!Alive(sends[awaited].inst))
        BY <3>3, Zenon DEF Form!Fail, Form!Lose, Form!Busy
      <4>3. processing' = processing
        BY <2>4, <3>a, <4>2, Zenon
      <4> QED
        BY <4>1, <4>3
    <3>4. open' = open /\ processing' = processing
      BY <2>2, <3>2, <3>3, Zenon
    <3>5. data' = data
      BY <3>1 DEF Form!values
    <3> QED
      BY <3>1, <3>4, <3>5
  <2> QED
    BY <2>3, <2>4
<1>2. ASSUME FormInv PROVE Form!NothingTypedIsOverwritten
  <2> SUFFICES ASSUME ~warm, query \in {"asking", "again"} PROVE data.last = 0
    BY DEF Form!NothingTypedIsOverwritten
  <2>1. Form!Queried
    BY <1>2 DEF FormInv, FormBase, Shape
  <2> QED
    BY <1>2, <2>1 DEF FormInv, QueryRule
<1> QED
  BY <1>1, <1>2, FormInvariant, PTL DEF Form!Spec

\* A form that starts over opens with nothing that was typed before, and with the record as the page shows it.
THEOREM FormsOpenFresh ==
  ASSUME Form!FormsAssumption
  PROVE  Form!Spec => [][Form!OpensFresh]_(Form!vars)
<1>1. ASSUME FormInv, Form!Next PROVE Form!OpensFresh
  <2> SUFFICES ASSUME ~open, open', form.host = "hosted" \/ form.turn = "rereads"
               PROVE  data'.last = 0 /\ (form.seed = "item" => data'.from = shown)
    BY DEF Form!OpensFresh
  <2>1. Form!Open
    <3>1. ASSUME NEW i \in 1..Len(sends) PROVE ~Form!Accept(i) /\ ~Form!Refuse(i)
      BY DEF Form!Accept, Form!Refuse
    <3>2. ~Form!Close /\ ~Form!EnterReloads /\ ~Form!Succeed
      BY Zenon DEF Form!Close, Form!EnterReloads, Form!Succeed
    <3>3. /\ ~Form!Type /\ ~Form!Discard /\ ~Form!Press /\ ~Form!Enter /\ ~Form!Fail /\ ~Form!Lose /\ ~Form!SomebodySaves
          /\ ~Form!Refresh /\ ~Form!Answered /\ ~Form!Unanswered /\ ~Form!Retry
      BY DEF Form!Type, Form!Discard, Form!Press, Form!Enter, Form!Fail, Form!Lose, Form!SomebodySaves,
             Form!Refresh, Form!Answered, Form!Unanswered, Form!Retry
    <3> QED
      BY <1>1, <3>1, <3>2, <3>3 DEF Form!Next
  <2>2. data' = Form!Fresh(shown)
    BY <2>1 DEF Form!Open, Form!Remounts
  <2>3. shown \in 0..MaxVersions
    BY <1>1 DEF FormInv, FormBase, Shape
  <2> QED
    BY <2>2, <2>3, FirstValues
<1> QED
  BY <1>1, FormInvariant, PTL DEF Form!Spec
=============================================================================
