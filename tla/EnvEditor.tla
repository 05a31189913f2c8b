------------------------------ MODULE EnvEditor ------------------------------
(***************************************************************************)
(* The sheet that edits the .env file of a site: as a list of variables or *)
(* as raw text.  The file at the committed path is read each time the      *)
(* sheet opens; changing the mode, uploading and pasting each ask the      *)
(* server to convert, and the sheet can be closed while they do.           *)
(***************************************************************************)
EXTENDS Naturals

CONSTANTS
  None,        \* null
  NoVariables, \* the list without variables
  Lists,       \* lists of variables
  Duplicated,  \* those with a key twice
  Typed,       \* texts that are typed, pasted, or in a file
  Paths,       \* paths of .env files
  DefaultPath, \* the one of the site
  MaxEdits     \* bound: edits in the sheet

\* What a text is parsed to, whether it has comments, and whether it has lines that the
\* list cannot hold.
Text == [list: Lists, comments: BOOLEAN, multi: BOOLEAN]

EnvEditorAssumption ==
  /\ NoVariables \in Lists /\ Duplicated \subseteq Lists \ {NoVariables} /\ Typed \subseteq Text
  /\ DefaultPath \in Paths /\ None \notin Paths \cup Lists \cup Text
  /\ MaxEdits \in Nat

VARIABLES
  file, reveal,                          \* the server: its files, and whether the user may edit
  open, mode, variables, rawContent, variablesDirty, canEdit, \* the sheet
  path, committedPath,                   \* form.data.path and the path that is read
  cache, status, isFetching,             \* the queries: data per path, and the state of the one in use
  switching, importing, saving,          \* requests: None or what they were sent
  edits,                                 \* bound
  from, loaded, touched, superseded, \* history of the content: the path and the text it was read
                                     \* from, edited since, set by an answer to an older content
  abandoned                          \* history: the sheet was closed since the mode was switched
server == <<file, reveal>>
content == <<variables, rawContent, variablesDirty>>
queries == <<canEdit, path, committedPath, cache, status, isFetching>>
requests == <<switching, importing, saving>>
history == <<from, loaded, touched, superseded>>
vars == <<server, open, mode, content, queries, requests, edits, history, abandoned>>

stringify(l) == [list |-> l, comments |-> FALSE, multi |-> FALSE]
Blank == stringify(NoVariables)
Sent == [mode: {"classic"}, value: Text] \cup [mode: {"variables"}, value: Lists]

TypeOK ==
  /\ file \in [Paths -> Text] /\ {reveal, open, isFetching, variablesDirty, touched, superseded, abandoned} \subseteq BOOLEAN
  /\ mode \in {"variables", "classic"} /\ variables \in Lists /\ rawContent \in Text
  /\ canEdit \in BOOLEAN \cup {None} /\ {path, committedPath} \subseteq Paths /\ from \in Paths \cup {None}
  /\ cache \in [Paths -> Text \cup {None}] /\ status \in {"pending", "success", "error"}
  /\ (status = "success" => cache[committedPath] # None)
  /\ switching \in Sent \cup {None} /\ saving \in Sent \cup {None} /\ loaded \in Text
  /\ importing \in [parsing: BOOLEAN, text: Text] \cup {None}
  /\ edits \in 0..MaxEdits

isUploading == importing # None /\ importing.parsing
\* Fetching, uploading, pasting and switching lock the buttons.
busy == isFetching \/ isUploading \/ switching # None

Init ==
  /\ file \in [Paths -> Typed] /\ reveal \in BOOLEAN
  /\ open = FALSE /\ mode = "variables" /\ variables = NoVariables /\ rawContent = Blank
  /\ variablesDirty = FALSE /\ canEdit = None /\ path = DefaultPath /\ committedPath = DefaultPath
  /\ cache = [p \in Paths |-> None] /\ status = "pending" /\ isFetching = FALSE
  /\ switching = None /\ importing = None /\ saving = None /\ edits = 0
  /\ from = None /\ loaded = Blank /\ touched = FALSE /\ superseded = FALSE /\ abandoned = FALSE

\* The effect when the query has new data: the text is sent only to who may edit.
Load(p, t) ==
  LET shown == IF reveal THEN t ELSE [Blank EXCEPT !.list = t.list]
  IN /\ variables' = t.list /\ rawContent' = shown /\ canEdit' = reveal /\ variablesDirty' = FALSE
     /\ from' = p /\ loaded' = shown /\ touched' = FALSE /\ superseded' = FALSE

-----------------------------------------------------------------------------
(* The sheet and its query. *)

Open ==
  /\ ~open /\ open' = TRUE /\ isFetching' = TRUE
  /\ status' = IF cache[committedPath] = None THEN "pending" ELSE status
  /\ UNCHANGED <<server, mode, content, canEdit, path, committedPath, cache, requests, edits, history, abandoned>>

\* handleOpenChange(false): the requests under way go on.
Close ==
  /\ open' = FALSE /\ mode' = "variables" /\ variables' = NoVariables /\ rawContent' = Blank
  /\ variablesDirty' = FALSE /\ from' = None /\ loaded' = Blank /\ touched' = FALSE /\ superseded' = FALSE
  /\ abandoned' = (switching # None)
Cancel ==
  /\ open /\ Close /\ UNCHANGED <<server, queries, requests, edits>>

ChangePath(p) ==
  /\ open /\ canEdit # FALSE /\ p # path /\ edits < MaxEdits /\ edits' = edits + 1 /\ path' = p
  /\ UNCHANGED <<server, open, mode, content, canEdit, committedPath, cache, status, isFetching, requests, history, abandoned>>

\* The refresh button reads the path again, or another path, whose data may be cached.
handleRefresh ==
  /\ open /\ ~busy /\ isFetching' = TRUE /\ committedPath' = path
  /\ IF path = committedPath
     THEN /\ status' = (IF cache[path] = None THEN "pending" ELSE status)
          /\ UNCHANGED <<content, canEdit, cache, history>>
     ELSE \/ /\ cache[path] # None /\ status' = "success" /\ Load(path, cache[path]) /\ UNCHANGED cache
          \/ /\ cache' = [cache EXCEPT ![path] = None] /\ status' = "pending"
             /\ UNCHANGED <<content, canEdit, history>>
  /\ UNCHANGED <<server, open, mode, path, requests, edits, abandoned>>

Stored == cache' = [cache EXCEPT ![committedPath] = file[committedPath]]
FetchAnswer ==
  /\ isFetching /\ isFetching' = FALSE /\ status' = "success" /\ Stored
  /\ Load(committedPath, file[committedPath])
  /\ UNCHANGED <<server, open, mode, path, committedPath, requests, edits, abandoned>>
FetchError ==
  /\ isFetching /\ isFetching' = FALSE /\ status' = "error"
  /\ UNCHANGED <<server, open, mode, content, canEdit, path, committedPath, cache, requests, edits, history, abandoned>>

-----------------------------------------------------------------------------
(* Editing. *)

\* handleVariableChange, handleVariableDelete, handleAddVariable
Marked == variablesDirty' = TRUE
handleVariableChange(l) ==
  /\ open /\ mode = "variables" /\ status = "success" /\ switching = None /\ canEdit # FALSE
  /\ l # variables /\ edits < MaxEdits /\ edits' = edits + 1
  /\ variables' = l /\ Marked /\ touched' = TRUE
  /\ UNCHANGED <<server, open, mode, rawContent, queries, requests, from, loaded, superseded, abandoned>>
\* The editor of the raw text is never disabled.
TypeRaw(t) ==
  /\ open /\ mode = "classic" /\ t # rawContent /\ edits < MaxEdits /\ edits' = edits + 1
  /\ rawContent' = t /\ touched' = TRUE
  /\ UNCHANGED <<server, open, mode, variables, variablesDirty, queries, requests, from, loaded,
                 superseded, abandoned>>

\* From variables to classic, at once when nothing was edited.
Untouched == ~variablesDirty
switchMode ==
  /\ open /\ canEdit = TRUE /\ ~busy /\ ~(mode = "variables" /\ status = "error")
  /\ IF mode = "variables" /\ Untouched
     THEN mode' = "classic" /\ UNCHANGED switching
     ELSE /\ switching' = [mode |-> mode, value |-> IF mode = "variables" THEN variables ELSE rawContent]
          /\ UNCHANGED mode
  /\ UNCHANGED <<server, open, content, queries, importing, saving, edits, history, abandoned>>

\* A parsed list counts as unedited.
Parsed(l) == variables' = l /\ variablesDirty' = FALSE /\ UNCHANGED rawContent
SwitchAnswer ==
  /\ switching # None /\ switching' = None /\ abandoned' = FALSE
  /\ \/ /\ switching.mode = "variables" /\ mode' = "classic" /\ rawContent' = stringify(switching.value)
        /\ superseded' = (superseded \/ abandoned)
        /\ UNCHANGED <<variables, variablesDirty>>
     \/ /\ switching.mode = "classic" /\ ~switching.value.multi /\ mode' = "variables"
        /\ Parsed(switching.value.list)
        /\ superseded' = (superseded \/ abandoned \/ rawContent # switching.value)
  /\ UNCHANGED <<server, open, queries, importing, saving, edits, from, loaded, touched>>
\* The request fails, or the variables form cannot represent the text.
SwitchEnded_Spinning == UNCHANGED switching
SwitchEnded == switching' = None
SwitchError ==
  /\ switching # None /\ SwitchEnded /\ abandoned' = FALSE
  /\ UNCHANGED <<server, open, mode, content, queries, importing, saving, edits, history>>

\* A file or the clipboard is read, which does not show, and parsed.
handlePaste(t) ==
  /\ open /\ ~busy /\ mode = "variables" /\ importing = None /\ edits < MaxEdits /\ edits' = edits + 1
  /\ importing' = [parsing |-> FALSE, text |-> t]
  /\ UNCHANGED <<server, open, mode, content, queries, switching, saving, history, abandoned>>
ImportParse ==
  /\ importing # None /\ ~importing.parsing /\ importing' = [importing EXCEPT !.parsing = TRUE]
  /\ UNCHANGED <<server, open, mode, content, queries, switching, saving, edits, history, abandoned>>
ImportAnswer ==
  /\ isUploading /\ ~importing.text.multi /\ importing' = None
  /\ variables' = importing.text.list /\ variablesDirty' = TRUE /\ touched' = TRUE
  /\ UNCHANGED <<server, open, mode, rawContent, queries, switching, saving, edits, from, loaded, superseded, abandoned>>
ImportError ==
  /\ isUploading /\ importing' = None
  /\ UNCHANGED <<server, open, mode, content, queries, switching, saving, edits, history, abandoned>>

-----------------------------------------------------------------------------
(* Saving. *)

\* The locks of the Save button.
ReadFailed_Ignored == FALSE
ReadFailed == status = "error"
CanSave ==
  /\ open /\ saving = None /\ ~busy /\ ~ReadFailed /\ canEdit = TRUE /\ path = committedPath
  /\ (mode = "variables" => variables \notin Duplicated \cup {NoVariables})
submit ==
  /\ CanSave
  /\ saving' = [mode |-> mode, value |-> IF mode = "classic" THEN rawContent ELSE variables]
  /\ UNCHANGED <<server, open, mode, content, queries, switching, importing, edits, history, abandoned>>

\* The file is written; the sheet closes, also when it was closed and opened again.
SaveAnswer(p) ==
  /\ saving # None /\ saving' = None /\ Close
  /\ file' = [file EXCEPT ![p] = IF saving.mode = "classic" THEN saving.value ELSE stringify(saving.value)]
  /\ UNCHANGED <<reveal, queries, switching, importing, edits>>
SaveError ==
  /\ saving # None /\ saving' = None
  /\ UNCHANGED <<server, open, mode, content, queries, switching, importing, edits, history, abandoned>>

Next ==
  \/ Open \/ Cancel \/ handleRefresh \/ FetchAnswer \/ FetchError
  \/ switchMode \/ SwitchAnswer \/ SwitchError
  \/ ImportParse \/ ImportAnswer \/ ImportError
  \/ submit \/ SaveError \/ SaveAnswer(committedPath)
  \/ \E l \in Lists: handleVariableChange(l)
  \/ \E t \in Typed: TypeRaw(t) \/ handlePaste(t)
  \/ \E p \in Paths: ChangePath(p)

Spec ==
  /\ Init /\ [][Next]_vars
  /\ WF_vars(FetchAnswer \/ FetchError) /\ WF_vars(SwitchAnswer \/ SwitchError)
  /\ WF_vars(ImportAnswer \/ ImportError)

-----------------------------------------------------------------------------
(* Properties. *)

\* The two modes hold the same: whenever the list is shown unedited, it is what the raw text is
\* parsed to, so that leaving the mode at once is right.  (An answer to a text that was
\* edited or left meanwhile breaks this until the next load.)
ModesAgree ==
  mode = "variables" /\ ~variablesDirty /\ canEdit # FALSE /\ ~superseded => variables = rawContent.list

\* As long as nothing is edited, going to the other mode and back changes nothing: the raw
\* text is still the one that was read, comments included.
NothingLostBySwitching ==
  from # None /\ ~touched /\ ~superseded => rawContent = loaded /\ variables = loaded.list

\* Whatever Save may send was read from the path it is written to, since the sheet opened: not the
\* empty content the sheet starts with, nor the content of the path before.
SavedWasRead == CanSave => from = committedPath

=============================================================================
