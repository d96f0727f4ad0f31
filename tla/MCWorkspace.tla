----------------------------- MODULE MCWorkspace -----------------------------
(***************************************************************************)
(* What the users of the workspace do, in one instance: a file open in     *)
(* editors, what a save makes of an office file, the tree of folders,      *)
(* files on the server's disk, the operators' command that indexes what is *)
(* there, the requests that read a file, and the queue of a browser that   *)
(* uploads.  A behaviour moves one of them, its theme, and leaves the      *)
(* others at rest.                                                         *)
(***************************************************************************)
EXTENDS EditorSession, NodeTree, LocalFiles, IndexBackfill, OfficeSamples, FileReading, UploadQueue

CONSTANTS t1, t2, x, y,
          Themes   \* components that move: "editor", "office", "tree", "files", "backfill",
                   \* "reading", "queue"

VARIABLE theme

workspaceVars == <<theme, editorVars, officeVars, treeVars, localVars, backfillVars,
                   readVars, queueVars>>

-----------------------------------------------------------------------------
(* The overlaps one behaviour of the editors explores.                     *)
Alike == [tabs |-> {t1}, parts |-> {x}, edits |-> 2, saves |-> 2, calls |-> 1]
In(first, second) == t1 :> first @@ t2 :> second
Apart(engines, more) == {more @@ [engines |-> {e}] @@ Alike : e \in engines}
MCScopes ==
  \* typing and undo beside two saves
  Apart(Engines, [parts |-> {x, y}, calls |-> 2, events |-> In({"undo"}, {})])
  \* saves that break off, reloads and discards
  \cup Apart(Engines, [parts |-> {x, y}, calls |-> 2, events |-> In({"faults"}, {})])
  \cup Apart(Engines, [events |-> In({"faults", "reload"}, {})])
  \* drafts of one tab, left open or closed, and another tab's save
  \cup Apart(Engines, [edits |-> 1, events |-> In({"drafts", "reload"}, {})])
  \cup Apart(Engines, [tabs |-> {t1, t2}, edits |-> 1, events |-> In({"drafts", "leave"}, {})])
  \* drafts of two tabs and one save
  \cup Apart({"DOCUMENT"}, [tabs |-> {t1, t2}, edits |-> 1, saves |-> 1,
                            events |-> In({"drafts"}, {"drafts"})])
  \* saves of two tabs that break off
  \cup Apart(Engines, [tabs |-> {t1, t2}, edits |-> 1, calls |-> 2,
                       events |-> In({"faults"}, {"faults"})])

MCFaultScopes == Apart({"TEXT"}, [events |-> In({"faults"}, {})])

(* The trees: two folders and a file, two of them changed last at the same *)
(* moment, in a folder or at the root, that are listed during two changes  *)
(* or one; a chain of folders with a place left, under three changes; and  *)
(* a tree without nodes, under one.                                        *)
Flat == [parent |-> <<0, 1, 1, 1>>, there |-> 1..4, modified |-> <<0, 0, 1, 0>>, moment |-> 1,
         left |-> 2]
AtRoot == [Flat EXCEPT !.parent = <<0, 0, 0, 0>>, !.there = {1, 3, 4}]
Nested == [parent |-> <<0, 1, 2, 2>>, there |-> 1..3, modified |-> <<0, 0, 0, 0>>, moment |-> 0,
           left |-> 3, events |-> {"create", "trash", "permissions", "move"}]
Bare == [Nested EXCEPT !.there = {}, !.left = 1]
WithListing(tree, events) == tree @@ [events |-> {"list"} \cup events]
MCTrees ==
  {Bare, Nested, WithListing(Flat, {"move", "remove"}), WithListing(Flat, {"trash", "create"}),
   [WithListing(AtRoot, {"rename", "content"}) EXCEPT !.left = 1]}

(* Two requests of every two kinds, for one name, and two troubles.        *)
InTurn == <<"office", "initial", "version", "restore">>
MCJobs == {[kind |-> "r1" :> InTurn[k[1]] @@ "r2" :> InTurn[k[2]], troubles |-> 2] :
             k \in {k \in (1..4) \X (1..4) : k[1] <= k[2]}}
MCWanted == [r \in Requests |-> "report"]
MCOtherName == [n \in {"report"} |-> "report (1)"]

(* Files of both kinds in every order, a change, and one command or, for    *)
(* the first two files, two side by side.                                  *)
MCCorpora ==
  {[there |-> Corpus, revised |-> r, commands |-> {c}, left |-> 1] :
     r \in SUBSET Corpus, c \in {CHOOSE c \in Commands : TRUE}}
  \cup {[there |-> {1, 2}, revised |-> r, commands |-> Commands, left |-> 1] :
     r \in {{}, {2}}}

(* What readers do with a file while things happen to it: a local file     *)
(* that is shown from the volume, sessions of files in Drive, a model and  *)
(* its parts, and one request of each other kind under whatever happens.   *)
OneFile == [live |-> TRUE, link |-> TRUE, up |-> TRUE, listed |-> TRUE, version |-> 1, left |-> 2,
            asks |-> 2]
Kept(backing) == [backing |-> backing, current |-> IF backing = "local" THEN 1 ELSE 0,
                  format |-> "direct", account |-> "viewer", session |-> "none"] @@ OneFile
Shown(backing, format, kinds, events) ==
  [kinds |-> {"open"} \cup kinds, events |-> events, format |-> format] @@ Kept(backing)
InEditor(format, kinds) ==
  [format |-> format, account |-> "admin", session |-> "model", kinds |-> kinds,
   events |-> {"replace"}, left |-> 1, asks |-> 3] @@ Kept("drive")
MCScenes ==
  {Shown("local", "direct", {"local"}, {"trash", "account", "replace", "migrate"}),
   Shown("drive", "document", {"content", "model"}, {"trash", "replace"}),
   InEditor("slides", {"model", "part", "reload"}), InEditor("slides", {"model", "part", "save"}),
   [InEditor("sheets", {"model", "part", "save"}) EXCEPT !.asks = 2]}
  \cup {Shown("drive", f, {IF f = "direct" THEN "content" ELSE f}, {"account", "source", "replace"}) :
          f \in {"direct", "office", "export"}}
  \cup {[kinds |-> {k}, events |-> Happenings, asks |-> 1, account |-> "admin"] @@ Kept(b) :
          b \in {"local", "drive"},
          k \in {"download", "history", "shared", "public", "list", "mark", "save"}}
MCSizes == <<4, 2, 5>>
MCRangeHeaders == {[first |-> 1, last |-> Absent], [first |-> 2, last |-> 9],
                   [first |-> Absent, last |-> 2], [first |-> Absent, last |-> Absent]}

\* Two files and two runs, or as many files that a worker takes a second one.
MCSelections == {[files |-> {1, 2}, rounds |-> 2], [files |-> {1, 2, 3}, rounds |-> 1]}

-----------------------------------------------------------------------------
(* At rest no tab is open, no change is left, no request or command runs.  *)
EditorAtRest == (scope = CHOOSE s \in Scopes : "TEXT" \in s.engines) /\ EditorInit
TreeAtRest == world = Bare /\ TreeInit
FilesAtRest == (job = CHOOSE j \in Jobs : TRUE) /\ LocalInit
BackfillAtRest ==
  /\ BackfillInit
  /\ (\A f \in Corpus : ~HasRevisions(f)) /\ (\A c \in Commands : command[c].pc = "idle")

ReadingAtRest == subject = (CHOOSE s \in Scenes : TRUE) /\ ReadInit
QueueAtRest == batch = Untouched(CHOOSE s \in Selections : TRUE) /\ QueueInit

\* An office file at rest is a text file.
ASSUME RestingFile == \E f \in OfficeFiles : f.format = "TEXT"
OfficeAtRest == office = Opened(CHOOSE f \in OfficeFiles : f.format = "TEXT")

WorkspaceInit ==
  /\ theme \in Themes
  /\ IF theme = "editor" THEN EditorInit ELSE EditorAtRest
  /\ IF theme = "office" THEN OfficeInit ELSE OfficeAtRest
  /\ IF theme = "tree" THEN TreeInit ELSE TreeAtRest
  /\ IF theme = "files" THEN LocalInit ELSE FilesAtRest
  /\ IF theme = "backfill" THEN BackfillInit ELSE BackfillAtRest
  /\ IF theme = "reading" THEN ReadInit ELSE ReadingAtRest
  /\ IF theme = "queue" THEN QueueInit ELSE QueueAtRest

WorkspaceNext ==
  /\ UNCHANGED theme
  /\ \/ /\ theme = "editor" /\ EditorNext
        /\ UNCHANGED <<officeVars, treeVars, localVars, backfillVars, readVars, queueVars>>
     \/ /\ theme = "office" /\ OfficeNext
        /\ UNCHANGED <<editorVars, treeVars, localVars, backfillVars, readVars, queueVars>>
     \/ /\ theme = "tree" /\ TreeNext
        /\ UNCHANGED <<editorVars, officeVars, localVars, backfillVars, readVars, queueVars>>
     \/ /\ theme = "files" /\ LocalNext
        /\ UNCHANGED <<editorVars, officeVars, treeVars, backfillVars, readVars, queueVars>>
     \/ /\ theme = "backfill" /\ BackfillNext
        /\ UNCHANGED <<editorVars, officeVars, treeVars, localVars, readVars, queueVars>>
     \/ /\ theme = "reading" /\ ReadNext
        /\ UNCHANGED <<editorVars, officeVars, treeVars, localVars, backfillVars, queueVars>>
     \/ /\ theme = "queue" /\ QueueNext
        /\ UNCHANGED <<editorVars, officeVars, treeVars, localVars, backfillVars, readVars>>

WorkspaceSpec == WorkspaceInit /\ [][WorkspaceNext]_workspaceVars

\* Only one kind of them moves in a behaviour: they are exchanged all at once.
Alikes == {Calls, Readers, Senders}
WorkspaceSymmetry ==
  {p \in Permutations(UNION Alikes) :
     /\ \A kind \in Alikes : \A a \in kind : p[a] \in kind
     /\ \A a, b \in UNION Alikes : p[a] = a <=> p[b] = b}

(* Every part of the state has its type, and every reference its object.   *)
WorkspaceTypesOK == EditorTypeOK /\ TreeTypeOK /\ LocalTypeOK /\ BackfillTypeOK
                    /\ ReadTypeOK /\ QueueTypeOK
=============================================================================
