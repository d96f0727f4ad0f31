---------------------------- MODULE EditorSession ----------------------------
(***************************************************************************)
(* A file open in the editors of apps/web/src: typing, undo, save, reload, *)
(* discard and the recovery drafts in IndexedDB, against what the server's *)
(* save promises (FileMutation has its inside).                            *)
(*                                                                         *)
(* A content gives each part of the file (a block, a cell, a slide) the    *)
(* edit that last wrote it.  The four editors share one save protocol and  *)
(* differ in what typing does to the status, in what a save sends and in   *)
(* how the answer is merged into what was typed meanwhile.                 *)
(***************************************************************************)
EXTENDS Naturals, Sequences, FiniteSets

CONSTANTS Tabs,       \* browser tabs, each with one editor of the file
          Parts,      \* parts of the file
          Calls,      \* save requests that may be under way at once
          MaxEdits,   \* bound on the edits of one tab
          Scopes,     \* what one behaviour explores: engines, tabs, parts, the edits of
                      \* a tab, the saves, those under way at once, and in which tab
                      \* "undo", "drafts", "leave", "reload", "faults" happen
          MaxSaves,   \* bound on the operation ids issued
          MaxDrafts,  \* EDITOR_DRAFT_MAX_COUNT (20 in the code)
          NoTab,
          NoEdit,     \* what the file held before any edit
          Unset,      \* a cell without a pending edit, on the undo stack
          NoCall, NoDraft

Engines == {"TEXT", "DOCUMENT", "SPREADSHEET", "PRESENTATION"}

ASSUME EditorConstants ==
  /\ \A s \in Scopes :
       /\ s.engines \subseteq Engines /\ s.parts \subseteq Parts /\ s.tabs \subseteq Tabs
       /\ s.edits \in 0..MaxEdits /\ s.saves \in 0..MaxSaves
  /\ MaxEdits \in Nat /\ MaxSaves \in Nat \ {0} /\ MaxDrafts \in Nat \ {0}
  /\ Tabs # {} /\ NoEdit # Unset /\ NoEdit \notin Tabs \X Nat /\ NoCall \notin Calls

OpIds == 1..MaxSaves
Value == (Tabs \X (1..MaxEdits)) \cup {NoEdit}
Content == [Parts -> Value]
PatchOf(values) == UNION {[D -> values] : D \in SUBSET Parts}
Blank == [p \in Parts |-> NoEdit]
NoCommands == [p \in {} |-> NoEdit]
Alone(v) == [p \in Parts |-> {v[p]}]

VARIABLES
  scope,     \* the scope of this behaviour
  engine,    \* the engine of the file
  stored,    \* the file and its operation rows on the server; history: writer and
             \* since, the tab whose save last wrote a part and the revision it made
  tab,       \* the editor in each tab
  call,      \* the save requests under way
  drafts,    \* the user's drafts of this file
  issued,    \* operation ids that crypto.randomUUID has given out
  published  \* history: every edit the file has held

editorVars == <<scope, engine, stored, tab, call, drafts, issued, published>>

OpRow == [status : {"ABSENT", "PENDING", "PROVIDER_WRITTEN", "COMPLETED", "FAILED"},
          expected : Nat, result : Nat]
Stored == [rev : Nat, content : Content, writer : [Parts -> Tabs \cup {NoTab}],
           since : [Parts -> Nat], ops : [OpIds -> OpRow]]
\* age, how many of the drafts were put after it.
Draft == [tab : Tabs, base : Nat, value : Content, age : Nat,
          seen : [Parts -> SUBSET Value], from : SUBSET Tabs]

\* History: seen, what was on the server of each part on the way to what the tab
\* shows; from, the tabs that typed this; typed, the tab's edits in the content as
\* its user left it; reused, an id was sent more than once; mixed, a draft was
\* restored while what is typed was recorded for the answer to a save.
Editor == [open : BOOLEAN, status : {"clean", "dirty", "saving", "failed", "conflict"},
           base : Nat, baseline : Content, value : Content, count : 0..MaxEdits,
           undo : Seq(PatchOf(Value \cup {Unset})), op : OpIds \cup {0},
           commands : PatchOf(Value), recording : BOOLEAN, last : Calls \cup {NoCall},
           listing : BOOLEAN, offer : Draft \cup {NoDraft},
           recovered : (Tabs \X Nat) \cup {NoDraft},
           seen : [Parts -> SUBSET Value], from : SUBSET Tabs, typed : SUBSET Value,
           reused : BOOLEAN, mixed : BOOLEAN]
SaveCall == [stage : {"free", "sent", "begun", "written", "answered"},
             tab : Tabs, heard : BOOLEAN, op : OpIds, expected : Nat,
             payload : PatchOf(Value), snapshot : Content,
             seen : [Parts -> SUBSET Value], from : SUBSET Tabs,
             edited : BOOLEAN, answer : {"none", "ok", "conflict", "failed"},
             model : Content, rev : Nat]
IdleCall == [stage |-> "free", tab |-> CHOOSE t \in Tabs : TRUE, heard |-> FALSE, op |-> 1,
         expected |-> 0, payload |-> NoCommands, snapshot |-> Blank, seen |-> Alone(Blank),
         from |-> {}, edited |-> FALSE, answer |-> "none", model |-> Blank, rev |-> 0]

\* Nothing leaves its range, and no user has more drafts than are kept.
EditorTypeOK ==
  /\ scope \in Scopes /\ engine \in Engines
  /\ stored \in Stored /\ tab \in [Tabs -> Editor] /\ call \in [Calls -> SaveCall]
  /\ drafts \subseteq Draft /\ Cardinality(drafts) <= MaxDrafts
  /\ issued \in 0..MaxSaves /\ published \subseteq Value

-----------------------------------------------------------------------------
(* What an editor shows.                                                   *)

Over(v, patch) == [p \in Parts |-> IF p \in DOMAIN patch THEN patch[p] ELSE v[p]]
Changed(v, w) == [p \in {p \in Parts : v[p] # w[p]} |-> v[p]]
With(patch, p, v) == [q \in DOMAIN patch \cup {p} |-> IF q = p THEN v ELSE patch[q]]

EditsOf(t, v) == {v[p] : p \in Parts} \cap ({t} \X (1..MaxEdits))

\* The presentation is unsaved by its status, the others by comparison.
IsDirty(e) == IF engine = "PRESENTATION" THEN e.status = "dirty" ELSE e.value # e.baseline
ShownAsSaved(e) == e.open /\ e.status = "clean" /\ ~IsDirty(e)

InFlight(t) == {c \in Calls : call[c].stage # "free" /\ call[c].tab = t /\ call[c].heard}

\* Whether a change counts as one since the last save began.  The text editor
\* counts while it is dirty, the spreadsheet when its pending edits changed,
\* the presentation when its status or its history did.
Counts(old, new) ==
  CASE engine = "TEXT" -> new.value # new.baseline
    [] engine = "SPREADSHEET" -> Changed(new.value, new.baseline) # Changed(old.value, old.baseline)
    [] engine = "PRESENTATION" -> new.status = "dirty" /\
                                    (old.status # "dirty" \/ Len(old.undo) # Len(new.undo))
    [] OTHER -> TRUE
Count(t, calls, counts) ==
  [c \in Calls |-> IF counts /\ c \in InFlight(t) THEN [calls[c] EXCEPT !.edited = TRUE]
                   ELSE calls[c]]

\* The drafts are listed again when the base revision or the dirtiness changes.
Settle(old, new) ==
  [new EXCEPT !.listing = old.listing \/ new.base # old.base \/ IsDirty(new) # IsDirty(old)]

\* The user changed the content.  The hook of the text editor keeps its status
\* (a clean one shows as dirty); the other editors forget that they are saving.
UserChange(t, new) ==
  LET status == CASE engine = "TEXT" -> new.status
                  [] engine = "SPREADSHEET" /\ new.value = new.baseline -> "clean"
                  [] OTHER -> "dirty"
      left == [new EXCEPT !.status = status, !.typed = EditsOf(t, new.value)]
  IN /\ tab' = [tab EXCEPT ![t] = Settle(@, left)]
     /\ call' = Count(t, call, Counts(tab[t], left))

-----------------------------------------------------------------------------
(* Typing and undo.                                                        *)

Before(e, p) ==
  IF engine = "SPREADSHEET"
  THEN [q \in {p} |-> IF e.value[p] = e.baseline[p] THEN Unset ELSE e.value[p]]
  ELSE e.value

Type(t, p) ==
  LET e == tab[t]
      edit == <<t, e.count + 1>>
  IN /\ e.open /\ p \in scope.parts /\ e.count < scope.edits
     /\ UserChange(t, [e EXCEPT !.value[p] = edit, !.count = @ + 1,
                         !.undo = Append(@, Before(e, p)),
                         !.commands = IF e.recording THEN With(@, p, edit) ELSE @])
     /\ UNCHANGED <<scope, engine, stored, drafts, issued, published>>

\* The document's undo gives up replaying commands over a save under way.
Undo(t) ==
  LET e == tab[t]
      top == e.undo[Len(e.undo)]
      before == [p \in DOMAIN top |-> IF top[p] = Unset THEN e.baseline[p] ELSE top[p]]
  IN /\ "undo" \in scope.events[t] /\ e.open /\ e.undo # <<>>
     /\ UserChange(t, [e EXCEPT !.value = Over(@, before),
                         !.undo = SubSeq(@, 1, Len(@) - 1),
                         !.recording = @ /\ e.last = NoCall])
     /\ UNCHANGED <<scope, engine, stored, drafts, issued, published>>

-----------------------------------------------------------------------------
(* Recovery drafts, one for each tab and base revision.                    *)

Key(d) == <<d.tab, d.base>>
Aged(kept) == {[d EXCEPT !.age = Cardinality({l \in kept : l.age < d.age})] : d \in kept}
Without(kept, keys) == Aged({d \in kept : Key(d) \notin keys})
OwnKeys(t) == {<<t, tab[t].base>>} \cup ({tab[t].recovered} \ {NoDraft})

\* Mutant: the drafts of earlier revisions stay.
Untrimmed(kept) == kept

Trimmed(kept) == {d \in kept : d.age < MaxDrafts}

\* putRecoveryDraft: after 1.25 s without a change, or when the page hides.
Flush(t) ==
  LET e == tab[t]
      draft == [tab |-> t, base |-> e.base, value |-> e.value, age |-> 0, seen |-> e.seen,
                from |-> e.from]
      others == {[d EXCEPT !.age = @ + 1] : d \in Without(drafts, {Key(draft)})}
  IN /\ "drafts" \in scope.events[t] /\ e.open /\ IsDirty(e)
     /\ drafts' = Trimmed({draft} \cup others)
     /\ UNCHANGED <<scope, engine, stored, tab, call, issued, published>>

\* The newest is offered.
ListDrafts(t) ==
  /\ "drafts" \in scope.events[t] /\ tab[t].open /\ tab[t].listing
  /\ \E offer \in IF drafts = {} THEN {NoDraft} ELSE {d \in drafts : d.age = 0} :
       tab' = [tab EXCEPT ![t].listing = FALSE, ![t].offer = offer]
  /\ UNCHANGED <<scope, engine, stored, call, drafts, issued, published>>

\* Mutant: a draft of any revision is offered.
CanRestoreAny(e) == e.offer # NoDraft

CanRestore(e) == e.offer # NoDraft /\ e.offer.base = e.base

\* Only the text editor's restore can be undone, and only there it replaces
\* the status of a save under way.
Restore(t) ==
  LET e == tab[t]
      applied == [e EXCEPT !.value = e.offer.value, !.typed = EditsOf(t, e.offer.value),
                           !.seen = e.offer.seen, !.from = {t} \cup e.offer.from,
                           !.mixed = @ \/ e.recording,
                           !.recovered = Key(e.offer), !.offer = NoDraft,
                           !.undo = CASE engine = "TEXT" -> Append(@, e.value)
                                      [] engine = "DOCUMENT" -> <<>> [] OTHER -> @,
                           !.status = IF engine = "DOCUMENT" /\ e.offer.value = e.baseline
                                      THEN "clean" ELSE "dirty"]
  IN /\ e.open /\ CanRestore(e) /\ Len(e.undo) < MaxEdits
     /\ tab' = [tab EXCEPT ![t] = Settle(e, applied)]
     /\ call' = Count(t, call, engine # "DOCUMENT" /\ Counts(e, applied))
     /\ UNCHANGED <<scope, engine, stored, drafts, issued, published>>

DiscardDraft(t) ==
  /\ tab[t].open /\ tab[t].offer # NoDraft
  /\ drafts' = Without(drafts, {Key(tab[t].offer)})
  /\ tab' = [tab EXCEPT ![t].offer = NoDraft]
  /\ UNCHANGED <<scope, engine, stored, call, issued, published>>

-----------------------------------------------------------------------------
(* Opening, reloading and leaving.                                         *)

Fresh(t, count) ==
  [open |-> TRUE, status |-> "clean", base |-> stored.rev, baseline |-> stored.content,
   value |-> stored.content, count |-> count, undo |-> <<>>, op |-> 0, commands |-> NoCommands,
   recording |-> FALSE, last |-> NoCall, listing |-> TRUE, offer |-> NoDraft,
   recovered |-> NoDraft, seen |-> Alone(stored.content), from |-> {t}, typed |-> {},
   reused |-> FALSE, mixed |-> FALSE]
Closed(t, count) == [Fresh(t, count) EXCEPT !.open = FALSE, !.listing = FALSE]
Mounted(t) == Fresh(t, tab[t].count)

Unheard(t) == [c \in Calls |-> IF c \in InFlight(t) THEN [call[c] EXCEPT !.heard = FALSE]
                               ELSE call[c]]

OpenEditor(t) ==
  /\ t \in scope.tabs /\ ~tab[t].open
  /\ tab' = [tab EXCEPT ![t] = Mounted(t)]
  /\ UNCHANGED <<scope, engine, stored, call, drafts, issued, published>>

\* The tab is closed, or the browser dies; the server goes on.
CloseEditor(t) ==
  /\ "leave" \in scope.events[t] /\ tab[t].open
  /\ tab' = [tab EXCEPT ![t] = Closed(t, tab[t].count)]
  /\ call' = Unheard(t)
  /\ UNCHANGED <<scope, engine, stored, drafts, issued, published>>

\* The text editor is mounted anew.  The others take the fresh model into the
\* editor they have, and with it the id of a save that was never answered.
Reload(t) ==
  LET e == tab[t]
      kept == [Mounted(t) EXCEPT !.op = e.op, !.reused = e.reused, !.mixed = e.mixed,
                 !.commands = e.commands, !.recording = e.recording, !.last = e.last,
                 !.offer = e.offer, !.listing = e.listing]
  IN /\ "reload" \in scope.events[t] /\ e.open /\ e.status \in {"failed", "conflict"}
     /\ engine = "TEXT" => e.status = "conflict"
     /\ drafts' = Without(drafts, OwnKeys(t))
     /\ IF engine = "TEXT"
        THEN tab' = [tab EXCEPT ![t] = Mounted(t)] /\ call' = Unheard(t)
        ELSE /\ tab' = [tab EXCEPT ![t] = Settle(e, kept)]
             /\ call' = Count(t, call, engine = "SPREADSHEET" /\ Counts(e, kept))
     /\ UNCHANGED <<scope, engine, stored, issued, published>>

\* "View": what was typed is given up.
Discard(t) ==
  LET e == tab[t]
      left == [e EXCEPT !.value = e.baseline, !.typed = EditsOf(t, e.baseline), !.undo = <<>>,
                        !.status = "clean", !.recovered = NoDraft]
  IN /\ "reload" \in scope.events[t] /\ e.open /\ (IsDirty(e) \/ e.status # "clean")
     /\ drafts' = Without(drafts, OwnKeys(t))
     /\ tab' = [tab EXCEPT ![t] = Settle(e, left)]
     /\ call' = Count(t, call, engine = "TEXT" \/ (engine = "SPREADSHEET" /\ Counts(e, left)))
     /\ UNCHANGED <<scope, engine, stored, issued, published>>

-----------------------------------------------------------------------------
(* Saving.                                                                 *)

CanSave(e) == e.open /\ e.status \notin {"saving", "conflict"} /\ e.value # e.baseline

OperationId(e) == IF e.op = 0 THEN issued + 1 ELSE e.op

Busy == {c \in Calls : call[c].stage # "free"}

Save(t, c) ==
  LET e == tab[t]
      id == OperationId(e)
  IN /\ CanSave(e) /\ call[c].stage = "free"
     /\ Cardinality(Busy) < scope.calls /\ id \in 1..scope.saves
     /\ issued' = IF id > issued THEN id ELSE issued
     /\ tab' = [tab EXCEPT ![t] =
          [e EXCEPT !.status = "saving", !.op = id, !.last = c, !.reused = @ \/ e.op # 0,
                    !.commands = NoCommands, !.recording = (engine = "DOCUMENT")]]
     /\ call' = [call EXCEPT ![c] =
          [IdleCall EXCEPT !.stage = "sent", !.tab = t, !.heard = TRUE, !.op = id, !.expected = e.base,
             !.payload = IF engine = "TEXT" THEN e.value ELSE Changed(e.value, e.baseline),
             !.snapshot = e.value, !.seen = e.seen, !.from = e.from]]
     /\ UNCHANGED <<scope, engine, stored, drafts, published>>

\* A presentation whose slides are all as they were needs no request.
NothingToSave(t) ==
  /\ engine = "PRESENTATION" /\ tab[t].open
  /\ tab[t].status \in {"dirty", "failed"} /\ tab[t].value = tab[t].baseline
  /\ tab' = [tab EXCEPT ![t] = Settle(@, [@ EXCEPT !.status = "clean"])]
  /\ UNCHANGED <<scope, engine, stored, call, drafts, issued, published>>

-----------------------------------------------------------------------------
(* The server.                                                             *)

Unresolved(o) == \E p \in OpIds \ {o} : stored.ops[p].status \in {"PENDING", "PROVIDER_WRITTEN"}
SetRow(o, status) == stored' = [stored EXCEPT !.ops[o].status = status]
Reply(c, answer) == call' = [call EXCEPT ![c].stage = "answered", ![c].answer = answer]
ReplyOk(c) == call' = [call EXCEPT ![c].stage = "answered", ![c].answer = "ok",
                         ![c].model = stored.content, ![c].rev = stored.ops[call[c].op].result]

\* replayOperation: the same id, file and expected revision are enough; the
\* model is the file as it is now, whatever the request carried.
Replay(c) ==
  LET o == call[c].op
      row == stored.ops[o]
  IN /\ call[c].stage = "sent" /\ row.status # "ABSENT"
     /\ \/ row.expected # call[c].expected /\ Reply(c, "conflict") /\ UNCHANGED stored
        \/ /\ row.expected = call[c].expected
           /\ row.status \in {"PROVIDER_WRITTEN", "COMPLETED"}
           /\ SetRow(o, "COMPLETED") /\ ReplyOk(c)
        \/ /\ row.expected = call[c].expected /\ row.status \in {"PENDING", "FAILED"}
           /\ Reply(c, "failed") /\ UNCHANGED stored
     /\ UNCHANGED <<scope, engine, tab, drafts, issued, published>>

BeginSave(c) ==
  LET o == call[c].op
  IN /\ call[c].stage = "sent" /\ stored.ops[o].status = "ABSENT"
     /\ \/ Unresolved(o) /\ Reply(c, "failed") /\ UNCHANGED stored
        \/ ~Unresolved(o) /\ stored.rev # call[c].expected /\ Reply(c, "conflict")
             /\ UNCHANGED stored
        \/ /\ ~Unresolved(o) /\ stored.rev = call[c].expected
           /\ stored' = [stored EXCEPT !.ops[o] = [status |-> "PENDING", result |-> 0,
                                                   expected |-> call[c].expected]]
           /\ call' = [call EXCEPT ![c].stage = "begun"]
     /\ UNCHANGED <<scope, engine, tab, drafts, issued, published>>

\* The provider's replacement; when the process breaks off behind it the row
\* still says PENDING.
Write(c) ==
  LET k == call[c]
      written == [stored EXCEPT !.content = Over(stored.content, k.payload), !.rev = @ + 1,
                    !.writer = [p \in Parts |-> IF p \in DOMAIN k.payload THEN k.tab ELSE @[p]],
                    !.since = [p \in Parts |-> IF p \in DOMAIN k.payload THEN stored.rev + 1
                                               ELSE @[p]]]
  IN /\ k.stage = "begun"
     /\ \/ /\ stored.rev = k.expected
           /\ published' = published \cup {written.content[p] : p \in Parts}
           /\ \/ /\ call' = [call EXCEPT ![c].stage = "written"]
                 /\ stored' = [written EXCEPT !.ops[k.op].status = "PROVIDER_WRITTEN",
                                              !.ops[k.op].result = written.rev]
              \/ "faults" \in scope.events[k.tab] /\ stored' = written /\ Reply(c, "failed")
        \/ /\ stored.rev # k.expected
           /\ SetRow(k.op, "FAILED") /\ Reply(c, "conflict") /\ UNCHANGED published
     /\ UNCHANGED <<scope, engine, tab, drafts, issued>>

Finish(c) ==
  /\ call[c].stage = "written"
  /\ SetRow(call[c].op, "COMPLETED") /\ ReplyOk(c)
  /\ UNCHANGED <<scope, engine, tab, drafts, issued, published>>

\* An error of the server's own: 503, the row stays as it is.
BreakOff(c) ==
  /\ "faults" \in scope.events[call[c].tab] /\ call[c].stage \in {"begun", "written"}
  /\ Reply(c, "failed")
  /\ UNCHANGED <<scope, engine, stored, tab, drafts, issued, published>>

\* The reconciliation worker; PENDING rows are left for review.
Reconcile(o) ==
  /\ \A c \in Calls : call[c].stage \in {"begun", "written"} => call[c].op # o
  /\ stored.ops[o].status = "PROVIDER_WRITTEN" /\ SetRow(o, "COMPLETED")
  /\ UNCHANGED <<scope, engine, tab, call, drafts, issued, published>>

-----------------------------------------------------------------------------
(* The answer.                                                             *)

\* Mutant: any successful answer makes the editor clean.
AlwaysAllSaved(c) == TRUE

AllSaved(c) == ~call[c].edited

\* What the editor shows once a save succeeded, by engine.
Merged(c, e) ==
  LET k == call[c]
      all == AllSaved(c)
      ended == [e EXCEPT !.op = 0, !.base = k.rev, !.recovered = IF all THEN NoDraft ELSE @]
      later == [p \in Parts |-> IF e.value[p] # e.baseline[p]
                                   /\ ~(p \in DOMAIN k.payload /\ e.value[p] = k.payload[p])
                                THEN e.value[p] ELSE k.model[p]]
      rebased == IF e.recording /\ DOMAIN e.commands # {} THEN Over(k.model, e.commands)
                 ELSE e.value
      Showing(baseline, value, undo, clean) ==
        [ended EXCEPT !.baseline = baseline, !.value = value, !.undo = undo,
                      !.status = IF clean THEN "clean" ELSE "dirty"]
      undo == IF all THEN <<>> ELSE e.undo
  IN CASE engine = "TEXT" -> Showing(k.model, IF all THEN k.model ELSE e.value, undo, all)
       [] engine = "SPREADSHEET" -> Showing(k.model, later, undo, later = k.model)
       [] engine = "PRESENTATION" -> Showing(IF all THEN e.value ELSE k.snapshot, e.value, undo, all)
       [] OTHER -> IF e.value = k.snapshot THEN Showing(k.model, k.model, <<>>, TRUE)
                   ELSE Showing(k.model, rebased, <<>>, rebased = k.model)

Ended(e, c) == IF e.last = c THEN [e EXCEPT !.last = NoCall, !.recording = FALSE,
                                            !.commands = NoCommands]
               ELSE e
Freed(c) == [call EXCEPT ![c] = IdleCall]

TakeAnswer(c) ==
  LET t == call[c].tab
      e == tab[t]
      shown == Merged(c, e)
      dropped == (IF AllSaved(c) THEN OwnKeys(t) ELSE {})
                 \cup (IF IsDirty(shown) \/ shown.base = e.base THEN {} ELSE {<<t, e.base>>})
  IN /\ call[c].stage = "answered" /\ call[c].answer = "ok" /\ call[c].heard
     /\ drafts' = Without(drafts, dropped)
     /\ tab' = [tab EXCEPT ![t] = [Ended(Settle(e, shown), c) EXCEPT
                  !.seen = [p \in Parts |-> @[p] \cup call[c].seen[p]],
                  !.from = @ \cup call[c].from]]
     /\ call' = Count(t, Freed(c), engine \in {"SPREADSHEET", "PRESENTATION"} /\ Counts(e, shown))
     /\ UNCHANGED <<scope, engine, stored, issued, published>>

\* The id stays with the editor for the next save.
TakeFailure(c) ==
  LET t == call[c].tab
  IN /\ call[c].heard
     /\ \/ /\ call[c].stage = "answered" /\ call[c].answer # "ok"
           /\ call' = Freed(c)
           /\ tab' = [tab EXCEPT ![t] = Ended(Settle(@, [@ EXCEPT !.status = call[c].answer]), c)]
        \/ /\ "faults" \in scope.events[t] /\ call[c].stage # "free"  \* the connection breaks
           /\ call' = [call EXCEPT ![c].heard = FALSE]
           /\ tab' = [tab EXCEPT ![t] = Ended(Settle(@, [@ EXCEPT !.status = "failed"]), c)]
     /\ UNCHANGED <<scope, engine, stored, drafts, issued, published>>

\* A request whose client has gone, and a server that dies with it.
Vanish(c) ==
  /\ call[c].stage # "free" /\ ~call[c].heard
  /\ call' = Freed(c)
  /\ UNCHANGED <<scope, engine, stored, tab, drafts, issued, published>>

-----------------------------------------------------------------------------
EditorInit ==
  /\ scope \in Scopes /\ engine \in scope.engines
  /\ stored = [rev |-> 1, content |-> Blank, writer |-> [p \in Parts |-> NoTab],
               since |-> [p \in Parts |-> 0],
               ops |-> [o \in OpIds |-> [status |-> "ABSENT", expected |-> 0, result |-> 0]]]
  /\ tab = [t \in Tabs |-> Closed(t, 0)]
  /\ call = [c \in Calls |-> IdleCall]
  /\ drafts = {} /\ issued = 0 /\ published = {}

EditorNext ==
  \/ \E t \in Tabs : OpenEditor(t) \/ CloseEditor(t) \/ Undo(t) \/ Flush(t) \/ ListDrafts(t)
       \/ Restore(t) \/ DiscardDraft(t) \/ Reload(t) \/ Discard(t) \/ NothingToSave(t)
  \/ \E t \in Tabs, p \in Parts : Type(t, p)
  \/ \E t \in Tabs, c \in Calls : Save(t, c)
  \/ \E c \in Calls : Replay(c) \/ BeginSave(c) \/ Write(c) \/ Finish(c) \/ BreakOff(c)
       \/ TakeAnswer(c) \/ TakeFailure(c) \/ Vanish(c)
  \/ \E o \in OpIds : Reconcile(o)

EditorSpec == EditorInit /\ [][EditorNext]_editorVars

-----------------------------------------------------------------------------
(* Properties.                                                             *)

\* Whatever was typed last in an editor that says "saved" has been stored: no
\* edit made while a save was under way, and none made after a save whose
\* answer was lost, is given up in silence.
SavedMeansStored ==
  \A t \in Tabs : ShownAsSaved(tab[t]) => tab[t].typed \subseteq published

\* The same for an editor that never sent an operation id twice, nor restored a
\* draft into a document that was being saved: the four ways of merging an answer
\* with what was typed meanwhile lose nothing themselves.
MergeLosesNothing ==
  \A t \in Tabs :
    ShownAsSaved(tab[t]) /\ ~tab[t].reused /\ ~tab[t].mixed => tab[t].typed \subseteq published

\* A save replaces a part only if what it replaces was on the way to what it
\* saves, or was stored by the tab that typed this: neither a draft of an older
\* revision nor a late, resent or replayed save takes away what another tab stored.
NothingUnseenIsOverwritten ==
  [][\A c \in Calls : \A p \in Parts :
       /\ call[c].stage = "begun" /\ call'[c].stage # "begun"
       /\ stored'.content[p] # stored.content[p]
       => \/ stored.content[p] \in call[c].seen[p]
          \/ stored.writer[p] \in call[c].from]_editorVars

=============================================================================
