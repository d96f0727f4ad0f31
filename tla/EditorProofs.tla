---------------------------- MODULE EditorProofs ----------------------------
(***************************************************************************)
(* Theorems about EditorSession: for any number of tabs, parts of the      *)
(* file, edits and saves, in whatever scope.                               *)
(***************************************************************************)
EXTENDS EditorSession, FiniteSetTheorems, TLAPS

-----------------------------------------------------------------------------
(* The editors: what a patch, a record and a set of drafts are.            *)

LEMMA PatchFacts ==
    ASSUME NEW values, NEW patch \in PatchOf(values)
    PROVE  /\ DOMAIN patch \subseteq Parts
           /\ \A p \in DOMAIN patch : patch[p] \in values
BY DEF PatchOf

LEMMA PatchMade ==
    ASSUME NEW values, NEW D \in SUBSET Parts, NEW patch \in [D -> values]
    PROVE  patch \in PatchOf(values)
BY DEF PatchOf

LEMMA PatchesTyped ==
    /\ Blank \in Content /\ NoCommands \in PatchOf(Value)
    /\ \A v \in Content : v \in PatchOf(Value) /\ v \in PatchOf(Value \cup {Unset})
    /\ \A v, w \in Content : Changed(v, w) \in PatchOf(Value)
    /\ \A v \in Content : \A patch \in PatchOf(Value) : Over(v, patch) \in Content
    /\ \A patch \in PatchOf(Value) : \A p \in Parts : \A v \in Value :
          With(patch, p, v) \in PatchOf(Value)
    /\ \A v \in Content : Alone(v) \in [Parts -> SUBSET Value]
<1>1. NoEdit \in Value
  BY DEF Value
<1>2. Blank \in Content
  BY <1>1 DEF Blank, Content
<1>3. NoCommands \in PatchOf(Value)
  <2>1. NoCommands \in [{} -> Value]
    BY DEF NoCommands
  <2>2. QED BY <2>1, PatchMade
<1>4. ASSUME NEW v \in Content
      PROVE  v \in PatchOf(Value) /\ v \in PatchOf(Value \cup {Unset})
  <2>1. v \in [Parts -> Value] /\ v \in [Parts -> Value \cup {Unset}]
    BY DEF Content
  <2>2. Parts \in SUBSET Parts
    OBVIOUS
  <2>3. QED BY <2>1, <2>2, PatchMade
<1>5. ASSUME NEW v \in Content, NEW w \in Content
      PROVE  Changed(v, w) \in PatchOf(Value)
  <2>1. Changed(v, w) \in [{p \in Parts : v[p] # w[p]} -> Value]
    BY DEF Changed, Content
  <2>2. {p \in Parts : v[p] # w[p]} \in SUBSET Parts
    OBVIOUS
  <2>3. QED BY <2>1, <2>2, PatchMade
<1>6. ASSUME NEW v \in Content, NEW patch \in PatchOf(Value)
      PROVE  Over(v, patch) \in Content
  BY PatchFacts DEF Over, Content
<1>7. ASSUME NEW patch \in PatchOf(Value), NEW p \in Parts, NEW v \in Value
      PROVE  With(patch, p, v) \in PatchOf(Value)
  <2>1. DOMAIN patch \cup {p} \in SUBSET Parts
    BY PatchFacts
  <2>2. With(patch, p, v) \in [DOMAIN patch \cup {p} -> Value]
    BY PatchFacts DEF With
  <2>3. QED BY <2>1, <2>2, PatchMade
<1>8. ASSUME NEW v \in Content PROVE Alone(v) \in [Parts -> SUBSET Value]
  BY DEF Alone, Content
<1>9. QED BY <1>2, <1>3, <1>4, <1>5, <1>6, <1>7, <1>8

LEMMA EditsTyped ==
    \A t, v : /\ EditsOf(t, v) \subseteq {v[p] : p \in Parts}
              /\ EditsOf(t, v) \subseteq {t} \X (1..MaxEdits)
BY DEF EditsOf

LEMMA IdleTyped == IdleCall \in SaveCall /\ IdleCall.stage = "free" /\ IdleCall.answer = "none"
<1>1. 1 \in OpIds /\ (CHOOSE t \in Tabs : TRUE) \in Tabs
  BY EditorConstants DEF OpIds
<1>2. QED BY <1>1, PatchesTyped DEF IdleCall, SaveCall

-----------------------------------------------------------------------------
(* Each draft has an age of its own.                                       *)

AgesApart(kept) == \A d, l \in kept : d.age < MaxDrafts /\ (d # l => d.age # l.age)

LEMMA AgesBound ==
    ASSUME NEW kept \in SUBSET Draft, NEW n \in Nat,
           \A d \in kept : d.age < n, \A d, l \in kept : d # l => d.age # l.age
    PROVE  IsFiniteSet(kept) /\ Cardinality(kept) <= n
<1>. DEFINE ages == [d \in kept |-> d.age]
<1>1. ages \in Injection(kept, 0..n-1)
  <2>1. \A d \in kept : d.age \in 0..n-1
    BY DEF Draft
  <2>2. ages \in [kept -> 0..n-1]
    BY <2>1
  <2>3. QED BY <2>2 DEF Injection, IsInjective
<1>2. IsFiniteSet(0..n-1) /\ Cardinality(0..n-1) = n
  <2>1. 0 \in Int /\ n - 1 \in Int
    OBVIOUS
  <2>2. IsFiniteSet(0..n-1) /\ Cardinality(0..n-1) = IF 0 > n-1 THEN 0 ELSE n-1-0+1
    BY <2>1, FS_Interval
  <2>3. QED BY <2>2
<1>. HIDE DEF ages
<1>3. QED BY <1>1, <1>2, FS_Injection

LEMMA AgedFits ==
    ASSUME NEW kept \in SUBSET Draft, AgesApart(kept)
    PROVE  /\ Aged(kept) \subseteq Draft /\ AgesApart(Aged(kept))
           /\ \A n \in Aged(kept) : \E d \in kept :
                 n = [d EXCEPT !.age = n.age] /\ n.age <= d.age
<1>. DEFINE younger(d) == {l \in kept : l.age < d.age}
<1>. DEFINE rank(d) == Cardinality(younger(d))
<1>1. ASSUME NEW d \in kept
      PROVE  IsFiniteSet(younger(d)) /\ rank(d) \in Nat /\ rank(d) <= d.age
  <2>1. d.age \in Nat /\ younger(d) \in SUBSET Draft
    BY DEF Draft
  <2>2. IsFiniteSet(younger(d)) /\ rank(d) <= d.age
    BY <2>1, AgesBound DEF AgesApart
  <2>3. QED BY <2>2, FS_CardinalityType
<1>2. ASSUME NEW d \in kept, NEW l \in kept, d.age < l.age
      PROVE  rank(d) # rank(l)
  <2>1. younger(d) \in SUBSET younger(l)
    BY <1>2 DEF Draft
  <2>2. d \in younger(l) /\ d \notin younger(d)
    BY <1>2 DEF Draft
  <2>3. younger(d) # younger(l)
    BY <2>2
  <2>. HIDE DEF younger
  <2>4. IsFiniteSet(younger(l))
    BY <1>1
  <2>5. QED BY <2>1, <2>3, <2>4, FS_Subset
<1>3. ASSUME NEW d \in kept, NEW l \in kept, d # l PROVE rank(d) # rank(l)
  <2>1. d.age \in Nat /\ l.age \in Nat /\ d.age # l.age
    BY <1>3 DEF AgesApart, Draft
  <2>2. d.age < l.age \/ l.age < d.age
    BY <2>1
  <2>3. QED BY <2>2, <1>2
<1>4. Aged(kept) = {[d EXCEPT !.age = rank(d)] : d \in kept}
  BY DEF Aged
<1>. HIDE DEF rank
<1>5. ASSUME NEW d \in kept
      PROVE  /\ [d EXCEPT !.age = rank(d)] \in Draft
             /\ [d EXCEPT !.age = rank(d)].age = rank(d)
             /\ rank(d) < MaxDrafts /\ rank(d) <= d.age
  <2>1. d \in Draft /\ d.age < MaxDrafts /\ d.age \in Nat
    BY DEF AgesApart, Draft
  <2>2. rank(d) \in Nat /\ rank(d) <= d.age
    BY <1>1
  <2>3. QED BY <2>1, <2>2, EditorConstants DEF Draft
<1>6. Aged(kept) \subseteq Draft
  BY <1>4, <1>5
<1>7. AgesApart(Aged(kept))
  BY <1>3, <1>4, <1>5, ZenonT(60) DEF AgesApart
<1>8. ASSUME NEW n \in Aged(kept)
      PROVE  \E d \in kept : n = [d EXCEPT !.age = n.age] /\ n.age <= d.age
  BY <1>4, <1>5
<1>9. QED BY <1>6, <1>7, <1>8

LEMMA WithoutFits ==
    ASSUME NEW kept \in SUBSET Draft, AgesApart(kept), NEW keys
    PROVE  /\ Without(kept, keys) \subseteq Draft /\ AgesApart(Without(kept, keys))
           /\ \A n \in Without(kept, keys) : \E d \in kept : n = [d EXCEPT !.age = n.age]
<1>. DEFINE rest == {d \in kept : Key(d) \notin keys}
<1>1. rest \in SUBSET Draft /\ AgesApart(rest) /\ rest \subseteq kept
  BY DEF AgesApart
<1>2. Without(kept, keys) = Aged(rest)
  BY DEF Without
<1>. HIDE DEF rest
<1>3. QED BY <1>1, <1>2, AgedFits

LEMMA FlushedFits ==
    ASSUME NEW kept \in SUBSET Draft, AgesApart(kept), NEW draft \in Draft, draft.age = 0
    PROVE  LET put == Trimmed({draft} \cup {[d EXCEPT !.age = @ + 1] : d \in kept})
           IN  /\ put \subseteq Draft /\ AgesApart(put)
               /\ \A n \in put : n = draft \/ \E d \in kept : n = [d EXCEPT !.age = n.age]
<1>. DEFINE older(d) == [d EXCEPT !.age = @ + 1]
<1>. DEFINE put == Trimmed({draft} \cup {older(d) : d \in kept})
<1>1. ASSUME NEW d \in kept
      PROVE  /\ older(d) \in Draft /\ older(d).age = d.age + 1 /\ d.age \in Nat
             /\ older(d) = [d EXCEPT !.age = older(d).age]
  BY DEF Draft
<1>. HIDE DEF older
<1>2. ASSUME NEW n \in put
      PROVE  n \in Draft /\ n.age < MaxDrafts /\ (n = draft \/ \E d \in kept : n = older(d))
  BY <1>1 DEF Trimmed
<1>3. ASSUME NEW m \in put, NEW n \in put, m # n PROVE m.age # n.age
  <2>1. ASSUME NEW d \in kept, NEW l \in kept, older(d) # older(l)
        PROVE  older(d).age # older(l).age
    <3>1. d # l
      BY <2>1
    <3>2. QED BY <1>1, <3>1 DEF AgesApart
  <2>2. ASSUME NEW d \in kept PROVE older(d).age # draft.age
    BY <1>1
  <2>. HIDE DEF put
  <2>3. QED BY <1>2, <1>3, <2>1, <2>2
<1>. HIDE DEF put
<1>4. put \subseteq Draft /\ AgesApart(put)
  BY <1>2, <1>3 DEF AgesApart
<1>5. \A n \in put : n = draft \/ \E d \in kept : n = [d EXCEPT !.age = n.age]
  BY <1>1, <1>2
<1>6. QED BY <1>4, <1>5 DEF put, older

-----------------------------------------------------------------------------
(* The editors: types.                                                     *)

\* What the type invariant needs: an answer says something.
Answered == \A c \in Calls : call[c].stage = "answered" => call[c].answer # "none"
EditorTypes == EditorTypeOK /\ AgesApart(drafts) /\ Answered

LEMMA DraftsTyped ==
    ASSUME NEW kept \in SUBSET Draft, AgesApart(kept)
    PROVE  Cardinality(kept) <= MaxDrafts
BY AgesBound, EditorConstants DEF AgesApart

LEMMA SettleTyped ==
    ASSUME NEW old \in Editor, NEW new \in Editor
    PROVE  /\ Settle(old, new) \in Editor
           /\ Settle(old, new) = [new EXCEPT !.listing = Settle(old, new).listing]
<1>. DEFINE l == old.listing \/ new.base # old.base \/ IsDirty(new) # IsDirty(old)
<1>1. Settle(old, new) = [new EXCEPT !.listing = l]
  BY DEF Settle
<1>2. l \in BOOLEAN
  OBVIOUS
<1>. HIDE DEF l
<1>3. QED BY <1>1, <1>2, ZenonT(60) DEF Editor

CountTypes(before, after) ==
    /\ after \in [Calls -> SaveCall]
    /\ \A c \in Calls : after[c] = before[c] \/ after[c] = [before[c] EXCEPT !.edited = TRUE]

LEMMA CountTyped ==
    ASSUME NEW t, NEW calls \in [Calls -> SaveCall], NEW counts
    PROVE  CountTypes(calls, Count(t, calls, counts))
<1>1. \A c \in Calls : [calls[c] EXCEPT !.edited = TRUE] \in SaveCall
  BY ZenonT(60) DEF SaveCall
<1>2. QED BY <1>1 DEF Count, CountTypes

LEMMA UserChangeTyped ==
    ASSUME EditorTypes, NEW t \in Tabs, NEW new \in Editor, UserChange(t, new)
    PROVE  /\ tab' \in [Tabs -> Editor] /\ call' \in [Calls -> SaveCall] /\ Answered'
           /\ CountTypes(call, call')
<1>. DEFINE status == CASE engine = "TEXT" -> new.status
                         [] engine = "SPREADSHEET" /\ new.value = new.baseline -> "clean"
                         [] OTHER -> "dirty"
            left == [new EXCEPT !.status = status, !.typed = EditsOf(t, new.value)]
<1>1. status \in {new.status, "clean", "dirty"}
  BY SMT
<1>2. EditsOf(t, new.value) \in SUBSET Value
  BY EditsTyped DEF Editor, Content
<1>. HIDE DEF status
<1>3. left \in Editor
  BY <1>1, <1>2, ZenonT(60) DEF Editor
<1>4. /\ tab' = [tab EXCEPT ![t] = Settle(@, left)]
      /\ call' = Count(t, call, Counts(tab[t], left))
  BY DEF UserChange, status
<1>. HIDE DEF left
<1>5. tab' \in [Tabs -> Editor]
  BY <1>3, <1>4, SettleTyped DEF EditorTypes, EditorTypeOK
<1>6. CountTypes(call, call')
  BY <1>4, CountTyped DEF EditorTypes, EditorTypeOK
<1>7. Answered'
  BY <1>6 DEF CountTypes, Answered, EditorTypes, EditorTypeOK, SaveCall
<1>8. QED BY <1>5, <1>6, <1>7 DEF CountTypes

LEMMA TypeTyped ==
    ASSUME EditorTypes, NEW t \in Tabs, NEW p \in Parts, Type(t, p)
    PROVE  EditorTypes'
<1>. DEFINE e == tab[t]
            edit == <<t, e.count + 1>>
            new == [e EXCEPT !.value[p] = edit, !.count = @ + 1, !.undo = Append(@, Before(e, p)),
                             !.commands = IF e.recording THEN With(@, p, edit) ELSE @]
<1>1. /\ UserChange(t, new) /\ e.count < scope.edits
      /\ UNCHANGED <<scope, engine, stored, drafts, issued, published>>
  BY DEF Type
<1>2. e \in Editor /\ e.count \in 0..MaxEdits
  BY DEF EditorTypes, EditorTypeOK, Editor
<1>3. e.count + 1 \in 1..MaxEdits
  BY <1>1, <1>2, EditorConstants DEF EditorTypes, EditorTypeOK
<1>4. edit \in Value
  BY <1>3 DEF Value
<1>5. Before(e, p) \in PatchOf(Value \cup {Unset})
  <2>1. e.value \in Content
    BY <1>2 DEF Editor
  <2>2. [q \in {p} |-> IF e.value[p] = e.baseline[p] THEN Unset ELSE e.value[p]]
          \in [{p} -> Value \cup {Unset}]
    BY <2>1 DEF Content
  <2>3. {p} \in SUBSET Parts
    OBVIOUS
  <2>4. [q \in {p} |-> IF e.value[p] = e.baseline[p] THEN Unset ELSE e.value[p]]
          \in PatchOf(Value \cup {Unset})
    BY <2>2, <2>3, PatchMade
  <2>5. QED BY <2>1, <2>4, PatchesTyped DEF Before
<1>6. Append(e.undo, Before(e, p)) \in Seq(PatchOf(Value \cup {Unset}))
  BY <1>2, <1>5 DEF Editor
<1>7. With(e.commands, p, edit) \in PatchOf(Value)
  BY <1>2, <1>4, PatchesTyped DEF Editor
<1>8. [e.value EXCEPT ![p] = edit] \in Content
  BY <1>2, <1>4 DEF Editor, Content
<1>9. new \in Editor
  <2>. DEFINE v == [e.value EXCEPT ![p] = edit]
              u == Append(e.undo, Before(e, p))
              m == IF e.recording THEN With(e.commands, p, edit) ELSE e.commands
  <2>1. new = [e EXCEPT !.value = v, !.count = e.count + 1, !.undo = u, !.commands = m]
    BY <1>2 DEF Editor
  <2>2. m \in PatchOf(Value)
    BY <1>2, <1>7 DEF Editor
  <2>3. e.count + 1 \in 0..MaxEdits
    BY <1>3
  <2>4. v \in Content /\ u \in Seq(PatchOf(Value \cup {Unset}))
    BY <1>6, <1>8
  <2>. HIDE DEF v, u, m, new, e
  <2>5. QED BY <1>2, <2>1, <2>2, <2>3, <2>4, ZenonT(60) DEF Editor
<1>. HIDE DEF new
<1>10. QED BY <1>1, <1>9, UserChangeTyped DEF EditorTypes, EditorTypeOK

LEMMA UndoTyped ==
    ASSUME EditorTypes, NEW t \in Tabs, Undo(t)
    PROVE  EditorTypes'
<1>. DEFINE e == tab[t]
            top == e.undo[Len(e.undo)]
            before == [p \in DOMAIN top |-> IF top[p] = Unset THEN e.baseline[p] ELSE top[p]]
            new == [e EXCEPT !.value = Over(@, before), !.undo = SubSeq(@, 1, Len(@) - 1),
                             !.recording = @ /\ e.last = NoCall]
<1>1. /\ UserChange(t, new) /\ e.undo # <<>>
      /\ UNCHANGED <<scope, engine, stored, drafts, issued, published>>
  BY DEF Undo
<1>2. e \in Editor /\ e.undo \in Seq(PatchOf(Value \cup {Unset})) /\ e.value \in Content
      /\ e.baseline \in Content /\ e.recording \in BOOLEAN
  BY DEF EditorTypes, EditorTypeOK, Editor
<1>3. top \in PatchOf(Value \cup {Unset})
  BY <1>1, <1>2
<1>. HIDE DEF top
<1>4. before \in [DOMAIN top -> Value] /\ DOMAIN top \in SUBSET Parts
  BY <1>2, <1>3, PatchFacts DEF Content
<1>5. before \in PatchOf(Value)
  BY <1>4, PatchMade
<1>. HIDE DEF before
<1>6. Over(e.value, before) \in Content
  BY <1>2, <1>5, PatchesTyped
<1>7. SubSeq(e.undo, 1, Len(e.undo) - 1) \in Seq(PatchOf(Value \cup {Unset}))
  BY <1>2
<1>8. new \in Editor
  <2>. DEFINE v == Over(e.value, before)
              u == SubSeq(e.undo, 1, Len(e.undo) - 1)
              r == e.recording /\ e.last = NoCall
  <2>1. new = [e EXCEPT !.value = v, !.undo = u, !.recording = r]
    BY <1>2 DEF Editor
  <2>2. r \in BOOLEAN
    OBVIOUS
  <2>3. v \in Content /\ u \in Seq(PatchOf(Value \cup {Unset}))
    BY <1>6, <1>7
  <2>. HIDE DEF v, u, r, new, e
  <2>4. QED BY <1>2, <2>1, <2>2, <2>3, ZenonT(60) DEF Editor
<1>. HIDE DEF new
<1>9. QED BY <1>1, <1>8, UserChangeTyped DEF EditorTypes, EditorTypeOK, top, before

LEMMA DraftStepsTyped ==
    ASSUME EditorTypes, NEW t \in Tabs, Flush(t) \/ ListDrafts(t) \/ DiscardDraft(t)
    PROVE  EditorTypes'
<1>. DEFINE e == tab[t]
<1>1. e \in Editor /\ e.base \in Nat /\ e.value \in Content /\ e.from \in SUBSET Tabs
      /\ e.seen \in [Parts -> SUBSET Value]
  BY DEF EditorTypes, EditorTypeOK, Editor
<1>2. ASSUME Flush(t) PROVE EditorTypes'
  <2>. DEFINE draft == [tab |-> t, base |-> e.base, value |-> e.value, age |-> 0, seen |-> e.seen,
                        from |-> e.from]
              rest == Without(drafts, {Key(draft)})
  <2>1. draft \in Draft /\ draft.age = 0
    BY <1>1 DEF Draft
  <2>2. rest \in SUBSET Draft /\ AgesApart(rest)
    BY WithoutFits DEF EditorTypes, EditorTypeOK
  <2>3. /\ drafts' = Trimmed({draft} \cup {[d EXCEPT !.age = @ + 1] : d \in rest})
        /\ UNCHANGED <<scope, engine, stored, tab, call, issued, published>>
    BY <1>2 DEF Flush
  <2>. HIDE DEF draft, rest
  <2>4. drafts' \in SUBSET Draft /\ AgesApart(drafts')
    BY <2>1, <2>2, <2>3, FlushedFits
  <2>5. Cardinality(drafts') <= MaxDrafts
    BY <2>4, DraftsTyped
  <2>6. AgesApart(drafts)'
    BY <2>4 DEF AgesApart
  <2>7. QED BY <2>3, <2>4, <2>5, <2>6 DEF EditorTypes, EditorTypeOK, Answered
<1>3. ASSUME ListDrafts(t) PROVE EditorTypes'
  <2>1. PICK offer \in Draft \cup {NoDraft} :
          /\ tab' = [tab EXCEPT ![t] = [e EXCEPT !.listing = FALSE, !.offer = offer]]
          /\ UNCHANGED <<scope, engine, stored, call, drafts, issued, published>>
    <3>1. PICK offer \in IF drafts = {} THEN {NoDraft} ELSE {d \in drafts : d.age = 0} :
            tab' = [tab EXCEPT ![t].listing = FALSE, ![t].offer = offer]
      BY <1>3 DEF ListDrafts
    <3>2. offer \in Draft \cup {NoDraft}
      BY DEF EditorTypes, EditorTypeOK
    <3>3. tab' = [tab EXCEPT ![t] = [e EXCEPT !.listing = FALSE, !.offer = offer]]
      BY <3>1, <1>1 DEF EditorTypes, EditorTypeOK, Editor
    <3>4. QED BY <1>3, <3>2, <3>3 DEF ListDrafts
  <2>2. [e EXCEPT !.listing = FALSE, !.offer = offer] \in Editor
    BY <1>1, ZenonT(60) DEF Editor
  <2>3. tab' \in [Tabs -> Editor]
    BY <2>1, <2>2 DEF EditorTypes, EditorTypeOK
  <2>4. QED BY <2>1, <2>3 DEF EditorTypes, EditorTypeOK, AgesApart, Answered
<1>4. ASSUME DiscardDraft(t) PROVE EditorTypes'
  <2>1. /\ tab' = [tab EXCEPT ![t] = [e EXCEPT !.offer = NoDraft]]
        /\ drafts' = Without(drafts, {Key(e.offer)})
        /\ UNCHANGED <<scope, engine, stored, call, issued, published>>
    BY <1>4 DEF DiscardDraft
  <2>2. [e EXCEPT !.offer = NoDraft] \in Editor
    BY <1>1 DEF Editor
  <2>3. tab' \in [Tabs -> Editor]
    BY <2>1, <2>2 DEF EditorTypes, EditorTypeOK
  <2>4. drafts' \in SUBSET Draft /\ AgesApart(drafts')
    BY <2>1, WithoutFits DEF EditorTypes, EditorTypeOK
  <2>5. Cardinality(drafts') <= MaxDrafts /\ AgesApart(drafts)'
    BY <2>4, DraftsTyped DEF AgesApart
  <2>6. QED BY <2>1, <2>3, <2>4, <2>5 DEF EditorTypes, EditorTypeOK, Answered
<1>5. QED BY <1>2, <1>3, <1>4

LEMMA RestoreTyped ==
    ASSUME EditorTypes, NEW t \in Tabs, Restore(t)
    PROVE  EditorTypes'
<1>. DEFINE e == tab[t]
            undo == CASE engine = "TEXT" -> Append(e.undo, e.value)
                      [] engine = "DOCUMENT" -> <<>> [] OTHER -> e.undo
            status == IF engine = "DOCUMENT" /\ e.offer.value = e.baseline THEN "clean" ELSE "dirty"
            mixed == e.mixed \/ e.recording
            applied == [e EXCEPT !.value = e.offer.value, !.typed = EditsOf(t, e.offer.value),
                           !.seen = e.offer.seen, !.from = {t} \cup e.offer.from,
                           !.mixed = mixed, !.recovered = Key(e.offer), !.offer = NoDraft,
                           !.undo = undo, !.status = status]
<1>1. e \in Editor /\ e.value \in Content /\ e.undo \in Seq(PatchOf(Value \cup {Unset}))
      /\ e.offer \in Draft /\ e.mixed \in BOOLEAN /\ e.recording \in BOOLEAN
  BY DEF Restore, CanRestore, EditorTypes, EditorTypeOK, Editor
<1>2. /\ tab' = [tab EXCEPT ![t] = Settle(e, applied)]
      /\ call' = Count(t, call, engine # "DOCUMENT" /\ Counts(e, applied))
      /\ UNCHANGED <<scope, engine, stored, drafts, issued, published>>
  BY <1>1 DEF Restore, Editor
<1>3. undo \in Seq(PatchOf(Value \cup {Unset}))
  <2>1. e.value \in PatchOf(Value \cup {Unset})
    BY <1>1, PatchesTyped
  <2>2. Append(e.undo, e.value) \in Seq(PatchOf(Value \cup {Unset}))
    BY <1>1, <2>1
  <2>3. <<>> \in Seq(PatchOf(Value \cup {Unset}))
    OBVIOUS
  <2>4. undo \in {Append(e.undo, e.value), <<>>, e.undo}
    BY SMT
  <2>5. QED BY <1>1, <2>2, <2>3, <2>4
<1>4. /\ status \in {"clean", "dirty"} /\ mixed \in BOOLEAN /\ Key(e.offer) \in Tabs \X Nat
      /\ e.offer.value \in Content /\ EditsOf(t, e.offer.value) \in SUBSET Value
      /\ e.offer.seen \in [Parts -> SUBSET Value] /\ {t} \cup e.offer.from \in SUBSET Tabs
  <2>1. /\ e.offer.value \in Content /\ e.offer.seen \in [Parts -> SUBSET Value]
        /\ e.offer.from \in SUBSET Tabs /\ Key(e.offer) \in Tabs \X Nat
    BY <1>1 DEF Draft, Key
  <2>2. EditsOf(t, e.offer.value) \in SUBSET Value
    BY <2>1, EditsTyped DEF Content
  <2>3. QED BY <1>1, <2>1, <2>2
<1>. HIDE DEF undo, status, mixed
<1>5. applied \in Editor
  <2>. HIDE DEF e
  <2>1. QED BY <1>1, <1>3, <1>4, ZenonT(60) DEF Editor
<1>. HIDE DEF applied
<1>6. tab' \in [Tabs -> Editor]
  BY <1>1, <1>2, <1>5, SettleTyped DEF EditorTypes, EditorTypeOK
<1>7. CountTypes(call, call')
  BY <1>2, CountTyped DEF EditorTypes, EditorTypeOK
<1>8. Answered'
  BY <1>7 DEF CountTypes, Answered, EditorTypes, EditorTypeOK, SaveCall
<1>9. QED BY <1>2, <1>6, <1>7, <1>8 DEF CountTypes, EditorTypes, EditorTypeOK, AgesApart

LEMMA FreshTyped ==
    ASSUME EditorTypes, NEW t \in Tabs, NEW count \in 0..MaxEdits
    PROVE  Fresh(t, count) \in Editor /\ Closed(t, count) \in Editor
<1>1. stored.rev \in Nat /\ stored.content \in Content
  BY DEF EditorTypes, EditorTypeOK, Stored
<1>2. <<>> \in Seq(PatchOf(Value \cup {Unset}))
  OBVIOUS
<1>3. Fresh(t, count) \in Editor
  BY <1>1, <1>2, PatchesTyped DEF Fresh, Editor
<1>4. Closed(t, count) \in Editor
  BY <1>3, ZenonT(60) DEF Closed, Editor
<1>5. QED BY <1>3, <1>4

UnheardTypes(t, after) ==
    /\ after \in [Calls -> SaveCall]
    /\ \A c \in Calls : after[c] = IF c \in InFlight(t) THEN [call[c] EXCEPT !.heard = FALSE]
                                   ELSE call[c]

LEMMA UnheardTyped ==
    ASSUME EditorTypes, NEW t
    PROVE  UnheardTypes(t, Unheard(t))
<1>1. \A c \in Calls : [call[c] EXCEPT !.heard = FALSE] \in SaveCall
  BY ZenonT(60) DEF EditorTypes, EditorTypeOK, SaveCall
<1>2. QED BY <1>1 DEF Unheard, UnheardTypes, EditorTypes, EditorTypeOK

LEMMA OpenCloseTyped ==
    ASSUME EditorTypes, NEW t \in Tabs, OpenEditor(t) \/ CloseEditor(t)
    PROVE  EditorTypes'
<1>1. tab[t].count \in 0..MaxEdits
  BY DEF EditorTypes, EditorTypeOK, Editor
<1>2. ASSUME OpenEditor(t) PROVE EditorTypes'
  <2>1. tab' \in [Tabs -> Editor]
    BY <1>1, <1>2, FreshTyped DEF OpenEditor, Mounted, EditorTypes, EditorTypeOK
  <2>2. QED BY <1>2, <2>1 DEF OpenEditor, EditorTypes, EditorTypeOK, AgesApart, Answered
<1>3. ASSUME CloseEditor(t) PROVE EditorTypes'
  <2>1. tab' \in [Tabs -> Editor]
    BY <1>1, <1>3, FreshTyped DEF CloseEditor, EditorTypes, EditorTypeOK
  <2>2. UnheardTypes(t, call')
    BY <1>3, UnheardTyped DEF CloseEditor
  <2>3. Answered'
    BY <2>2, ZenonT(60) DEF UnheardTypes, Answered, EditorTypes, EditorTypeOK, SaveCall
  <2>4. QED BY <1>3, <2>1, <2>2, <2>3 DEF CloseEditor, UnheardTypes, EditorTypes, EditorTypeOK,
              AgesApart
<1>4. QED BY <1>2, <1>3

LEMMA DraftsDroppedTyped ==
    ASSUME EditorTypes, NEW keys, drafts' = Without(drafts, keys)
    PROVE  drafts' \subseteq Draft /\ Cardinality(drafts') <= MaxDrafts /\ AgesApart(drafts)'
<1>1. drafts' \in SUBSET Draft /\ AgesApart(drafts')
  BY WithoutFits DEF EditorTypes, EditorTypeOK
<1>2. QED BY <1>1, DraftsTyped DEF AgesApart

LEMMA ReloadTyped ==
    ASSUME EditorTypes, NEW t \in Tabs, Reload(t)
    PROVE  EditorTypes'
<1>. DEFINE e == tab[t]
            kept == [Mounted(t) EXCEPT !.op = e.op, !.reused = e.reused, !.mixed = e.mixed,
                       !.commands = e.commands, !.recording = e.recording, !.last = e.last,
                       !.offer = e.offer, !.listing = e.listing]
<1>1. e \in Editor /\ Mounted(t) \in Editor
  BY FreshTyped DEF Mounted, EditorTypes, EditorTypeOK, Editor
<1>2. kept \in Editor
  BY <1>1, ZenonT(60) DEF Editor
<1>3. /\ drafts' = Without(drafts, OwnKeys(t))
      /\ \/ tab' = [tab EXCEPT ![t] = Mounted(t)] /\ call' = Unheard(t)
         \/ /\ tab' = [tab EXCEPT ![t] = Settle(e, kept)]
            /\ call' = Count(t, call, engine = "SPREADSHEET" /\ Counts(e, kept))
      /\ UNCHANGED <<scope, engine, stored, issued, published>>
  BY DEF Reload
<1>. HIDE DEF kept
<1>4. tab' \in [Tabs -> Editor]
  BY <1>1, <1>2, <1>3, SettleTyped DEF EditorTypes, EditorTypeOK
<1>5. call' \in [Calls -> SaveCall] /\ Answered'
  <2>1. UnheardTypes(t, call') \/ CountTypes(call, call')
    BY <1>3, UnheardTyped, CountTyped DEF EditorTypes, EditorTypeOK
  <2>2. QED BY <2>1, ZenonT(60)
            DEF UnheardTypes, CountTypes, Answered, EditorTypes, EditorTypeOK, SaveCall
<1>6. QED BY <1>3, <1>4, <1>5, DraftsDroppedTyped DEF EditorTypes, EditorTypeOK

LEMMA DiscardTyped ==
    ASSUME EditorTypes, NEW t \in Tabs, Discard(t)
    PROVE  EditorTypes'
<1>. DEFINE e == tab[t]
            left == [e EXCEPT !.value = e.baseline, !.typed = EditsOf(t, e.baseline),
                              !.undo = <<>>, !.status = "clean", !.recovered = NoDraft]
<1>1. e \in Editor /\ e.baseline \in Content
  BY DEF EditorTypes, EditorTypeOK, Editor
<1>2. EditsOf(t, e.baseline) \in SUBSET Value
  BY <1>1, EditsTyped DEF Content
<1>3. left \in Editor
  <2>. HIDE DEF e
  <2>1. <<>> \in Seq(PatchOf(Value \cup {Unset}))
    OBVIOUS
  <2>2. QED BY <1>1, <1>2, <2>1, ZenonT(60) DEF Editor
<1>4. /\ drafts' = Without(drafts, OwnKeys(t))
      /\ tab' = [tab EXCEPT ![t] = Settle(e, left)]
      /\ call' = Count(t, call, engine = "TEXT" \/ (engine = "SPREADSHEET" /\ Counts(e, left)))
      /\ UNCHANGED <<scope, engine, stored, issued, published>>
  BY DEF Discard
<1>. HIDE DEF left
<1>5. tab' \in [Tabs -> Editor]
  BY <1>1, <1>3, <1>4, SettleTyped DEF EditorTypes, EditorTypeOK
<1>6. CountTypes(call, call')
  BY <1>4, CountTyped DEF EditorTypes, EditorTypeOK
<1>7. Answered'
  BY <1>6 DEF CountTypes, Answered, EditorTypes, EditorTypeOK, SaveCall
<1>8. QED BY <1>4, <1>5, <1>6, <1>7, DraftsDroppedTyped DEF CountTypes, EditorTypes, EditorTypeOK

LEMMA SaveTyped ==
    ASSUME EditorTypes, NEW t \in Tabs, NEW c \in Calls, Save(t, c)
    PROVE  EditorTypes'
<1>. DEFINE e == tab[t]
            id == OperationId(e)
            reused == e.reused \/ e.op # 0
            recording == (engine = "DOCUMENT")
            payload == IF engine = "TEXT" THEN e.value ELSE Changed(e.value, e.baseline)
            new == [e EXCEPT !.status = "saving", !.op = id, !.last = c, !.reused = reused,
                             !.commands = NoCommands, !.recording = recording]
            sent == [IdleCall EXCEPT !.stage = "sent", !.tab = t, !.heard = TRUE, !.op = id,
                          !.expected = e.base, !.payload = payload, !.snapshot = e.value,
                          !.seen = e.seen, !.from = e.from]
<1>1. e \in Editor /\ e.value \in Content /\ e.baseline \in Content /\ e.base \in Nat
      /\ e.seen \in [Parts -> SUBSET Value] /\ e.from \in SUBSET Tabs
  BY DEF EditorTypes, EditorTypeOK, Editor
<1>2. /\ tab' = [tab EXCEPT ![t] = new] /\ call' = [call EXCEPT ![c] = sent]
      /\ issued' = IF id > issued THEN id ELSE issued
      /\ UNCHANGED <<scope, engine, stored, drafts, published>> /\ id \in 1..scope.saves
  BY DEF Save
<1>3. id \in OpIds /\ issued' \in 0..MaxSaves
  <2>1. scope.saves \in 0..MaxSaves /\ issued \in 0..MaxSaves
    BY EditorConstants DEF EditorTypes, EditorTypeOK
  <2>2. id \in 1..MaxSaves
    BY <1>2, <2>1, EditorConstants
  <2>. HIDE DEF id
  <2>3. QED BY <1>2, <2>1, <2>2, EditorConstants DEF OpIds
<1>4. payload \in PatchOf(Value)
  BY <1>1, PatchesTyped
<1>5. reused \in BOOLEAN /\ recording \in BOOLEAN
  OBVIOUS
<1>. HIDE DEF id, reused, recording, payload
<1>6. new \in Editor
  <2>. HIDE DEF e
  <2>1. NoCommands \in PatchOf(Value) /\ c \in Calls \cup {NoCall} /\ id \in OpIds \cup {0}
    BY <1>3, PatchesTyped
  <2>. DEFINE mid == [e EXCEPT !.status = "saving", !.op = id, !.last = c]
  <2>2. mid \in Editor
    BY <1>1, <2>1, ZenonT(60) DEF Editor
  <2>3. new = [mid EXCEPT !.reused = reused, !.commands = NoCommands, !.recording = recording]
    BY <1>1 DEF Editor
  <2>. HIDE DEF mid, new
  <2>4. QED BY <1>5, <2>1, <2>2, <2>3, ZenonT(60) DEF Editor
<1>7. sent \in SaveCall /\ sent.stage = "sent"
  <2>. HIDE DEF e
  <2>1. QED BY <1>1, <1>3, <1>4, IdleTyped DEF SaveCall
<1>. HIDE DEF new, sent
<1>8. tab' \in [Tabs -> Editor] /\ call' \in [Calls -> SaveCall]
  BY <1>2, <1>6, <1>7 DEF EditorTypes, EditorTypeOK
<1>9. Answered'
  BY <1>2, <1>7 DEF EditorTypes, EditorTypeOK, Answered
<1>10. QED BY <1>2, <1>3, <1>8, <1>9 DEF EditorTypes, EditorTypeOK, AgesApart

LEMMA NothingToSaveTyped ==
    ASSUME EditorTypes, NEW t \in Tabs, NothingToSave(t)
    PROVE  EditorTypes'
<1>. DEFINE new == [tab[t] EXCEPT !.status = "clean"]
<1>1. tab[t] \in Editor
  BY DEF EditorTypes, EditorTypeOK
<1>. HIDE DEF new
<1>2. new \in Editor
  BY <1>1, ZenonT(60) DEF Editor, new
<1>3. /\ tab' = [tab EXCEPT ![t] = Settle(tab[t], new)]
      /\ UNCHANGED <<scope, engine, stored, call, drafts, issued, published>>
  BY DEF NothingToSave, EditorTypes, EditorTypeOK, new
<1>4. tab' \in [Tabs -> Editor]
  BY <1>1, <1>2, <1>3, SettleTyped DEF EditorTypes, EditorTypeOK
<1>5. QED BY <1>3, <1>4 DEF EditorTypes, EditorTypeOK, AgesApart, Answered

-----------------------------------------------------------------------------
(* What the server does to a row and to a request.                         *)

LEMMA SetRowTyped ==
    ASSUME EditorTypes, NEW o \in OpIds, NEW status \in {"PROVIDER_WRITTEN", "COMPLETED", "FAILED"},
           SetRow(o, status)
    PROVE  /\ stored' \in Stored
           /\ stored'.ops = [stored.ops EXCEPT ![o] = [stored.ops[o] EXCEPT !.status = status]]
           /\ stored'.rev = stored.rev /\ stored'.content = stored.content
           /\ stored'.writer = stored.writer /\ stored'.since = stored.since
<1>. DEFINE row == [stored.ops[o] EXCEPT !.status = status]
            rows == [stored.ops EXCEPT ![o] = row]
<1>1. stored \in Stored /\ stored.ops \in [OpIds -> OpRow]
  BY DEF EditorTypes, EditorTypeOK, Stored
<1>2. stored' = [stored EXCEPT !.ops = rows]
  BY <1>1 DEF SetRow, Stored
<1>3. row \in OpRow
  BY <1>1 DEF OpRow
<1>. HIDE DEF row
<1>4. rows \in [OpIds -> OpRow]
  BY <1>1, <1>3
<1>. HIDE DEF rows
<1>5. stored' \in Stored /\ stored'.ops = rows
      /\ stored'.rev = stored.rev /\ stored'.content = stored.content
      /\ stored'.writer = stored.writer /\ stored'.since = stored.since
  BY <1>1, <1>2, <1>4 DEF Stored
<1>6. QED BY <1>5 DEF rows, row

LEMMA ReplyTyped ==
    ASSUME EditorTypes, NEW c \in Calls, NEW answer \in {"conflict", "failed"}, Reply(c, answer)
    PROVE  /\ call' = [call EXCEPT ![c] = [call[c] EXCEPT !.stage = "answered", !.answer = answer]]
           /\ call' \in [Calls -> SaveCall] /\ Answered'
<1>. DEFINE new == [call[c] EXCEPT !.stage = "answered", !.answer = answer]
<1>1. call \in [Calls -> SaveCall] /\ call[c] \in SaveCall
  BY DEF EditorTypes, EditorTypeOK
<1>2. call' = [call EXCEPT ![c] = new]
  BY <1>1 DEF Reply, SaveCall
<1>3. new \in SaveCall /\ new.answer # "none"
  BY <1>1 DEF SaveCall
<1>. HIDE DEF new
<1>4. call' \in [Calls -> SaveCall] /\ Answered'
  BY <1>1, <1>2, <1>3 DEF EditorTypes, Answered
<1>5. QED BY <1>2, <1>4 DEF new

LEMMA ReplyOkTyped ==
    ASSUME EditorTypes, NEW c \in Calls, ReplyOk(c)
    PROVE  /\ call' = [call EXCEPT ![c] =
                 [call[c] EXCEPT !.stage = "answered", !.answer = "ok", !.model = stored.content,
                                 !.rev = stored.ops[call[c].op].result]]
           /\ call' \in [Calls -> SaveCall] /\ Answered'
<1>. DEFINE result == stored.ops[call[c].op].result
            new == [call[c] EXCEPT !.stage = "answered", !.answer = "ok",
                                   !.model = stored.content, !.rev = result]
<1>1. call \in [Calls -> SaveCall] /\ call[c] \in SaveCall /\ stored.content \in Content
      /\ call[c].op \in OpIds
  BY DEF EditorTypes, EditorTypeOK, Stored, SaveCall
<1>2. call' = [call EXCEPT ![c] = new]
  BY <1>1 DEF ReplyOk, SaveCall
<1>3. result \in Nat
  BY <1>1 DEF EditorTypes, EditorTypeOK, Stored, OpRow
<1>. HIDE DEF result
<1>4. new \in SaveCall /\ new.answer # "none"
  BY <1>1, <1>3 DEF SaveCall
<1>. HIDE DEF new
<1>5. call' \in [Calls -> SaveCall] /\ Answered'
  BY <1>1, <1>2, <1>4 DEF EditorTypes, Answered
<1>6. QED BY <1>2, <1>5 DEF new, result

\* A record that differs in one operation.
LEMMA RowTyped ==
    ASSUME EditorTypes, NEW s \in Stored, NEW o \in OpIds, NEW row \in OpRow
    PROVE  [s EXCEPT !.ops = [s.ops EXCEPT ![o] = row]] \in Stored
<1>1. [s.ops EXCEPT ![o] = row] \in [OpIds -> OpRow]
  BY DEF Stored
<1>2. QED BY <1>1 DEF Stored

LEMMA OpTyped ==
    ASSUME EditorTypes, NEW c \in Calls
    PROVE  /\ call[c] \in SaveCall /\ call[c].op \in OpIds /\ call[c].tab \in Tabs
           /\ stored \in Stored /\ stored.ops \in [OpIds -> OpRow]
           /\ stored.ops[call[c].op] \in OpRow
<1>1. call[c] \in SaveCall /\ stored \in Stored
  BY DEF EditorTypes, EditorTypeOK
<1>2. call[c].op \in OpIds /\ call[c].tab \in Tabs
  BY <1>1 DEF SaveCall
<1>3. stored.ops \in [OpIds -> OpRow]
  BY <1>1 DEF Stored
<1>4. QED BY <1>1, <1>2, <1>3

LEMMA ServerTyped ==
    ASSUME EditorTypes, UNCHANGED <<scope, engine, tab, drafts, issued>>,
           stored' \in Stored, call' \in [Calls -> SaveCall], Answered', published' \subseteq Value
    PROVE  EditorTypes'
BY DEF EditorTypes, EditorTypeOK, AgesApart

LEMMA ReplayTyped ==
    ASSUME EditorTypes, NEW c \in Calls, Replay(c) \/ Finish(c) \/ BreakOff(c)
    PROVE  EditorTypes'
<1>1. /\ call[c].op \in OpIds /\ stored \in Stored /\ published \subseteq Value
      /\ UNCHANGED <<scope, engine, tab, drafts, issued, published>>
  BY OpTyped DEF Replay, Finish, BreakOff, EditorTypes, EditorTypeOK
<1>2. \/ UNCHANGED stored /\ (Reply(c, "conflict") \/ Reply(c, "failed"))
      \/ SetRow(call[c].op, "COMPLETED") /\ ReplyOk(c)
  BY DEF Replay, Finish, BreakOff
<1>3. stored' \in Stored
  BY <1>1, <1>2, SetRowTyped
<1>4. call' \in [Calls -> SaveCall] /\ Answered'
  BY <1>2, ReplyTyped, ReplyOkTyped
<1>5. QED BY <1>1, <1>3, <1>4, ServerTyped

LEMMA BeginSaveTyped ==
    ASSUME EditorTypes, NEW c \in Calls, BeginSave(c)
    PROVE  EditorTypes'
<1>. DEFINE row == [status |-> "PENDING", result |-> 0, expected |-> call[c].expected]
            begun == [call[c] EXCEPT !.stage = "begun"]
<1>1. /\ call[c].op \in OpIds /\ stored \in Stored /\ published \subseteq Value
      /\ call \in [Calls -> SaveCall] /\ call[c] \in SaveCall
      /\ UNCHANGED <<scope, engine, tab, drafts, issued, published>>
  BY OpTyped DEF BeginSave, EditorTypes, EditorTypeOK
<1>2. CASE UNCHANGED stored /\ (Reply(c, "conflict") \/ Reply(c, "failed"))
  BY <1>1, <1>2, ReplyTyped, ServerTyped
<1>3. CASE /\ stored' = [stored EXCEPT !.ops[call[c].op] = row]
           /\ call' = [call EXCEPT ![c] = begun]
  <2>1. row \in OpRow /\ begun \in SaveCall /\ begun.stage = "begun"
    BY <1>1 DEF OpRow, SaveCall
  <2>2. stored' = [stored EXCEPT !.ops = [stored.ops EXCEPT ![call[c].op] = row]]
    BY <1>1, <1>3 DEF Stored
  <2>. HIDE DEF row, begun
  <2>3. stored' \in Stored
    BY <1>1, <2>1, <2>2, RowTyped
  <2>4. call' \in [Calls -> SaveCall] /\ Answered'
    BY <1>1, <1>3, <2>1 DEF EditorTypes, Answered
  <2>5. QED BY <1>1, <2>3, <2>4, ServerTyped
<1>4. \/ UNCHANGED stored /\ (Reply(c, "conflict") \/ Reply(c, "failed"))
      \/ /\ stored' = [stored EXCEPT !.ops[call[c].op] = row]
         /\ call' = [call EXCEPT ![c] = begun]
  BY <1>1 DEF BeginSave
<1>5. QED BY <1>2, <1>3, <1>4

\* The file after a call's payload is written, but for the operation rows.
WrittenBy(k) ==
    [stored EXCEPT !.content = Over(stored.content, k.payload), !.rev = @ + 1,
       !.writer = [p \in Parts |-> IF p \in DOMAIN k.payload THEN k.tab ELSE @[p]],
       !.since = [p \in Parts |-> IF p \in DOMAIN k.payload THEN stored.rev + 1 ELSE @[p]]]

LEMMA WrittenByTyped ==
    ASSUME EditorTypes, NEW k \in SaveCall
    PROVE  /\ WrittenBy(k) \in Stored /\ WrittenBy(k).rev = stored.rev + 1
           /\ WrittenBy(k).content = Over(stored.content, k.payload)
           /\ WrittenBy(k).ops = stored.ops
           /\ \A p \in Parts :
                 /\ WrittenBy(k).writer[p] = IF p \in DOMAIN k.payload THEN k.tab
                                             ELSE stored.writer[p]
                 /\ WrittenBy(k).since[p] = IF p \in DOMAIN k.payload THEN stored.rev + 1
                                            ELSE stored.since[p]
<1>. DEFINE content == Over(stored.content, k.payload)
            writer == [p \in Parts |-> IF p \in DOMAIN k.payload THEN k.tab ELSE stored.writer[p]]
            since == [p \in Parts |-> IF p \in DOMAIN k.payload THEN stored.rev + 1
                                      ELSE stored.since[p]]
<1>1. stored \in Stored /\ stored.rev \in Nat /\ stored.content \in Content
      /\ k.tab \in Tabs /\ k.payload \in PatchOf(Value)
  BY DEF EditorTypes, EditorTypeOK, Stored, SaveCall
<1>2. content \in Content
  BY <1>1, PatchesTyped
<1>3. writer \in [Parts -> Tabs \cup {NoTab}] /\ since \in [Parts -> Nat]
  BY <1>1 DEF Stored
<1>4. WrittenBy(k) = [stored EXCEPT !.content = content, !.rev = stored.rev + 1,
                                    !.writer = writer, !.since = since]
  BY <1>1 DEF WrittenBy, Stored
<1>5. /\ \A p \in Parts : writer[p] = IF p \in DOMAIN k.payload THEN k.tab ELSE stored.writer[p]
      /\ \A p \in Parts : since[p] = IF p \in DOMAIN k.payload THEN stored.rev + 1
                                     ELSE stored.since[p]
  OBVIOUS
<1>. HIDE DEF content, writer, since
<1>6. WrittenBy(k) \in Stored
  <2>. DEFINE w == WrittenBy(k)
              r == stored.rev + 1
  <2>1. r \in Nat /\ w = [stored EXCEPT !.content = content, !.rev = r, !.writer = writer,
                                         !.since = since]
    BY <1>1, <1>4
  <2>. HIDE DEF w, r
  <2>2. w \in Stored
    BY <1>1, <1>2, <1>3, <2>1 DEF Stored
  <2>3. QED BY <2>2 DEF w
<1>7. /\ WrittenBy(k).rev = stored.rev + 1 /\ WrittenBy(k).content = content
      /\ WrittenBy(k).ops = stored.ops /\ WrittenBy(k).writer = writer
      /\ WrittenBy(k).since = since
  BY <1>1, <1>4 DEF Stored
<1>8. QED BY <1>5, <1>6, <1>7 DEF content

\* The ways a write ends: done, done with the process gone, or refused.
LEMMA WriteDoes ==
    ASSUME EditorTypes, NEW c \in Calls, Write(c)
    PROVE  LET k == call[c]
               row == [stored.ops[k.op] EXCEPT !.status = "PROVIDER_WRITTEN",
                                               !.result = stored.rev + 1]
           IN  /\ k.stage = "begun" /\ row \in OpRow
               /\ \/ /\ stored.rev = k.expected
                     /\ published' =
                          published \cup {Over(stored.content, k.payload)[p] : p \in Parts}
                     /\ \/ /\ call' = [call EXCEPT ![c] = [k EXCEPT !.stage = "written"]]
                           /\ stored' = [WrittenBy(k) EXCEPT !.ops =
                                           [stored.ops EXCEPT ![k.op] = row]]
                        \/ /\ stored' = WrittenBy(k) /\ Reply(c, "failed")
                  \/ /\ stored.rev # k.expected /\ UNCHANGED published
                     /\ SetRow(k.op, "FAILED") /\ Reply(c, "conflict")
<1>. DEFINE k == call[c]
            row == [stored.ops[k.op] EXCEPT !.status = "PROVIDER_WRITTEN",
                                            !.result = stored.rev + 1]
<1>1. k \in SaveCall /\ k.op \in OpIds /\ stored \in Stored /\ stored.ops \in [OpIds -> OpRow]
      /\ stored.ops[k.op] \in OpRow /\ stored.rev \in Nat
  BY OpTyped DEF Stored
<1>2. row \in OpRow
  <2>. DEFINE old == stored.ops[k.op]
              r == stored.rev + 1
  <2>1. old \in OpRow /\ r \in Nat
    BY <1>1
  <2>. HIDE DEF old, r
  <2>2. [old EXCEPT !.status = "PROVIDER_WRITTEN", !.result = r] \in OpRow
    BY <2>1 DEF OpRow
  <2>3. QED BY <2>2 DEF old, r
<1>3. WrittenBy(k) \in Stored /\ WrittenBy(k).rev = stored.rev + 1
      /\ WrittenBy(k).content = Over(stored.content, k.payload) /\ WrittenBy(k).ops = stored.ops
  BY <1>1, WrittenByTyped
<1>4. /\ k.stage = "begun"
      /\ \/ /\ stored.rev = k.expected
            /\ published' = published \cup {WrittenBy(k).content[p] : p \in Parts}
            /\ \/ /\ call' = [call EXCEPT ![c].stage = "written"]
                  /\ stored' = [WrittenBy(k) EXCEPT !.ops[k.op].status = "PROVIDER_WRITTEN",
                                                    !.ops[k.op].result = WrittenBy(k).rev]
               \/ stored' = WrittenBy(k) /\ Reply(c, "failed")
         \/ /\ stored.rev # k.expected
            /\ SetRow(k.op, "FAILED") /\ Reply(c, "conflict") /\ UNCHANGED published
  BY DEF Write, WrittenBy
<1>5. ASSUME stored' = [WrittenBy(k) EXCEPT !.ops[k.op].status = "PROVIDER_WRITTEN",
                                            !.ops[k.op].result = WrittenBy(k).rev]
      PROVE  stored' = [WrittenBy(k) EXCEPT !.ops = [stored.ops EXCEPT ![k.op] = row]]
  <2>. DEFINE w == WrittenBy(k)
  <2>1. [w.ops EXCEPT ![k.op].status = "PROVIDER_WRITTEN", ![k.op].result = w.rev]
          = [stored.ops EXCEPT ![k.op] = row]
    BY <1>1, <1>3 DEF OpRow
  <2>2. [w EXCEPT !.ops[k.op].status = "PROVIDER_WRITTEN", !.ops[k.op].result = w.rev]
          = [w EXCEPT !.ops = [w.ops EXCEPT ![k.op].status = "PROVIDER_WRITTEN",
                                            ![k.op].result = w.rev]]
    BY <1>1, <1>3 DEF Stored
  <2>3. QED BY <1>5, <2>1, <2>2
<1>6. QED BY <1>1, <1>2, <1>3, <1>4, <1>5

LEMMA WriteTyped ==
    ASSUME EditorTypes, NEW c \in Calls, Write(c)
    PROVE  EditorTypes'
<1>. DEFINE k == call[c]
            row == [stored.ops[k.op] EXCEPT !.status = "PROVIDER_WRITTEN",
                                            !.result = stored.rev + 1]
            made == {Over(stored.content, k.payload)[p] : p \in Parts}
<1>1. k \in SaveCall /\ k.op \in OpIds /\ stored \in Stored /\ call \in [Calls -> SaveCall]
      /\ published \in SUBSET Value
  BY OpTyped DEF EditorTypes, EditorTypeOK
<1>2. UNCHANGED <<scope, engine, tab, drafts, issued>>
  BY DEF Write
<1>3. WrittenBy(k) \in Stored /\ WrittenBy(k).ops = stored.ops
  BY <1>1, WrittenByTyped
<1>4. made \in SUBSET Value
  <2>1. Over(stored.content, k.payload) \in Content
    BY <1>1, PatchesTyped DEF Stored, SaveCall
  <2>2. QED BY <2>1 DEF Content
<1>5. /\ [k EXCEPT !.stage = "written"] \in SaveCall
      /\ [k EXCEPT !.stage = "written"].stage = "written"
  BY <1>1 DEF SaveCall
<1>6. /\ row \in OpRow
      /\ \/ /\ published' = published \cup made
            /\ \/ /\ call' = [call EXCEPT ![c] = [k EXCEPT !.stage = "written"]]
                  /\ stored' = [WrittenBy(k) EXCEPT !.ops = [stored.ops EXCEPT ![k.op] = row]]
               \/ stored' = WrittenBy(k) /\ Reply(c, "failed")
         \/ UNCHANGED published /\ SetRow(k.op, "FAILED") /\ Reply(c, "conflict")
  BY WriteDoes
<1>. HIDE DEF row, made
<1>7. published' \subseteq Value
  BY <1>1, <1>4, <1>6
<1>8. stored' \in Stored
  <2>1. CASE stored' = [WrittenBy(k) EXCEPT !.ops = [stored.ops EXCEPT ![k.op] = row]]
    <3>. DEFINE w == WrittenBy(k)
    <3>1. w \in Stored /\ stored' = [w EXCEPT !.ops = [w.ops EXCEPT ![k.op] = row]]
      BY <1>3, <2>1
    <3>. HIDE DEF w, k
    <3>2. QED BY <1>1, <1>6, <3>1, RowTyped
  <2>2. CASE stored' = WrittenBy(k)
    BY <1>3, <2>2
  <2>3. CASE SetRow(k.op, "FAILED")
    BY <1>1, <2>3, SetRowTyped
  <2>4. QED BY <1>6, <2>1, <2>2, <2>3
<1>9. call' \in [Calls -> SaveCall] /\ Answered'
  <2>1. CASE call' = [call EXCEPT ![c] = [k EXCEPT !.stage = "written"]]
    BY <1>1, <1>5, <2>1 DEF EditorTypes, Answered
  <2>2. CASE Reply(c, "failed") \/ Reply(c, "conflict")
    BY <2>2, ReplyTyped
  <2>3. QED BY <1>6, <2>1, <2>2
<1>10. QED BY <1>2, <1>7, <1>8, <1>9, ServerTyped

LEMMA ReconcileTyped ==
    ASSUME EditorTypes, NEW o \in OpIds, Reconcile(o)
    PROVE  EditorTypes'
<1>1. SetRow(o, "COMPLETED") /\ UNCHANGED <<scope, engine, tab, call, drafts, issued, published>>
  BY DEF Reconcile
<1>2. stored' \in Stored
  BY <1>1, SetRowTyped
<1>3. QED BY <1>1, <1>2 DEF EditorTypes, EditorTypeOK, AgesApart, Answered

-----------------------------------------------------------------------------
(* What an editor makes of an answer.                                      *)

\* What neither the merge nor the end of a save touches.
SameUser(old, new) ==
    /\ new.open = old.open /\ new.count = old.count /\ new.offer = old.offer
    /\ new.typed = old.typed /\ new.reused = old.reused /\ new.mixed = old.mixed

Replayed(k, e) ==
    [p \in Parts |-> IF e.value[p] # e.baseline[p]
                        /\ ~(p \in DOMAIN k.payload /\ e.value[p] = k.payload[p])
                     THEN e.value[p] ELSE k.model[p]]
Rebased(k, e) ==
    IF e.recording /\ DOMAIN e.commands # {} THEN Over(k.model, e.commands) ELSE e.value

\* The four ways of merging.
ShowsText(k, all, e, new) ==
    /\ new.baseline = k.model /\ new.value = IF all THEN k.model ELSE e.value
    /\ new.status = IF all THEN "clean" ELSE "dirty"
ShowsSheet(k, all, e, new) ==
    /\ new.baseline = k.model /\ new.value = Replayed(k, e)
    /\ new.status = IF Replayed(k, e) = k.model THEN "clean" ELSE "dirty"
ShowsSlides(k, all, e, new) ==
    /\ new.baseline = IF all THEN e.value ELSE k.snapshot
    /\ new.value = e.value /\ new.status = IF all THEN "clean" ELSE "dirty"
ShowsDocument(k, all, e, new) ==
    /\ new.baseline = k.model
    /\ new.value = IF e.value = k.snapshot THEN k.model ELSE Rebased(k, e)
    /\ new.status = IF e.value = k.snapshot \/ Rebased(k, e) = k.model THEN "clean" ELSE "dirty"
Shows(k, all, e, new) ==
    /\ engine = "TEXT" => ShowsText(k, all, e, new)
    /\ engine = "SPREADSHEET" => ShowsSheet(k, all, e, new)
    /\ engine = "PRESENTATION" => ShowsSlides(k, all, e, new)
    /\ engine = "DOCUMENT" => ShowsDocument(k, all, e, new)

Keys == (Tabs \X Nat) \cup {NoDraft}
Undos == Seq(PatchOf(Value \cup {Unset}))

ShownAs(e, base, recovered, baseline, value, undo, status) ==
    LET ended == [e EXCEPT !.op = 0, !.base = base, !.recovered = recovered]
    IN  [ended EXCEPT !.baseline = baseline, !.value = value, !.undo = undo,
                      !.status = status]

LEMMA ShowingIs ==
    ASSUME NEW e \in Editor, NEW base \in Nat, NEW recovered \in Keys,
           NEW baseline \in Content, NEW value \in Content, NEW status \in {"clean", "dirty"},
           NEW undo \in Undos
    PROVE  LET new == ShownAs(e, base, recovered, baseline, value, undo, status)
           IN  /\ new \in Editor /\ new.op = 0 /\ new.base = base
               /\ SameUser(e, new) /\ new.seen = e.seen /\ new.from = e.from /\ new.last = e.last
               /\ new.recording = e.recording /\ new.commands = e.commands
               /\ new.baseline = baseline /\ new.value = value
               /\ new.status = status
<1>. DEFINE ended == [e EXCEPT !.op = 0, !.base = base, !.recovered = recovered]
            new == [ended EXCEPT !.baseline = baseline, !.value = value, !.undo = undo,
                                 !.status = status]
<1>1. ended \in Editor /\ ended.op = 0 /\ ended.base = base
      /\ SameUser(e, ended) /\ ended.seen = e.seen /\ ended.from = e.from /\ ended.last = e.last
      /\ ended.recording = e.recording /\ ended.commands = e.commands
  BY ZenonT(60) DEF Editor, Keys, Undos, SameUser
<1>. HIDE DEF ended
<1>2. new \in Editor
  <2>. DEFINE mid == [ended EXCEPT !.baseline = baseline, !.value = value]
  <2>1. mid \in Editor
    BY <1>1, ZenonT(60) DEF Editor, Keys, Undos
  <2>2. new = [mid EXCEPT !.undo = undo, !.status = status]
    BY <1>1 DEF Editor, Keys, Undos
  <2>. HIDE DEF mid, new
  <2>3. QED BY <2>1, <2>2, ZenonT(60) DEF Editor, Keys, Undos
<1>3. /\ new.op = ended.op /\ new.base = ended.base /\ SameUser(ended, new)
      /\ new.seen = ended.seen /\ new.from = ended.from /\ new.last = ended.last
      /\ new.recording = ended.recording /\ new.commands = ended.commands
  BY <1>1 DEF Editor, Keys, Undos, SameUser
<1>4. new.baseline = baseline /\ new.value = value /\ new.status = status
  BY <1>1 DEF Editor, Keys, Undos
<1>5. new = ShownAs(e, base, recovered, baseline, value, undo, status)
  BY DEF ShownAs, ended
<1>. HIDE DEF new
<1>6. SameUser(e, new)
  BY <1>1, <1>3 DEF SameUser
<1>7. QED BY <1>1, <1>2, <1>3, <1>4, <1>5, <1>6

LEMMA MergedIs ==
    ASSUME EditorTypes, NEW c \in Calls, NEW e \in Editor
    PROVE  LET k == call[c]
               new == Merged(c, e)
           IN  /\ new \in Editor /\ new.op = 0 /\ new.base = k.rev
               /\ SameUser(e, new) /\ new.seen = e.seen /\ new.from = e.from /\ new.last = e.last
               /\ new.recording = e.recording /\ new.commands = e.commands
               /\ Shows(k, AllSaved(c), e, new)
<1>. DEFINE k == call[c]
            all == AllSaved(c)
            new == Merged(c, e)
            recovered == IF all THEN NoDraft ELSE e.recovered
            undo == IF all THEN <<>> ELSE e.undo
            later == Replayed(k, e)
            rebased == Rebased(k, e)
            Showing(baseline, value, u, clean) ==
              ShownAs(e, k.rev, recovered, baseline, value, u, IF clean THEN "clean" ELSE "dirty")
<1>1. k \in SaveCall /\ k.model \in Content /\ k.snapshot \in Content /\ k.rev \in Nat
      /\ e.value \in Content /\ e.baseline \in Content /\ e.commands \in PatchOf(Value)
      /\ e.undo \in Undos
      /\ e.recovered \in Keys /\ all \in BOOLEAN
  BY OpTyped DEF SaveCall, Editor, AllSaved, Keys, Undos
<1>2. recovered \in Keys
  BY <1>1 DEF Keys
<1>3. <<>> \in Undos
  BY DEF Undos
<1>4. undo \in Undos
  BY <1>1, <1>3
<1>5. later \in Content
  BY <1>1 DEF Replayed, Content
<1>6. rebased \in Content
  BY <1>1, PatchesTyped DEF Rebased
<1>7. new = CASE engine = "TEXT" -> Showing(k.model, IF all THEN k.model ELSE e.value, undo, all)
         [] engine = "SPREADSHEET" -> Showing(k.model, later, undo, later = k.model)
         [] engine = "PRESENTATION" -> Showing(IF all THEN e.value ELSE k.snapshot, e.value,
                                               undo, all)
         [] OTHER -> IF e.value = k.snapshot THEN Showing(k.model, k.model, <<>>, TRUE)
                     ELSE Showing(k.model, rebased, <<>>, rebased = k.model)
  BY DEF Merged, Replayed, Rebased, ShownAs
<1>8. engine \in Engines
  BY DEF EditorTypes, EditorTypeOK
<1>. DEFINE Good(baseline, value, clean) ==
              /\ new \in Editor /\ new.op = 0 /\ new.base = k.rev
              /\ SameUser(e, new) /\ new.seen = e.seen /\ new.from = e.from /\ new.last = e.last
              /\ new.recording = e.recording /\ new.commands = e.commands
              /\ new.baseline = baseline /\ new.value = value
              /\ new.status = IF clean THEN "clean" ELSE "dirty"
<1>9. ASSUME NEW baseline \in Content, NEW value \in Content, NEW clean \in BOOLEAN,
             NEW u \in Undos, new = Showing(baseline, value, u, clean)
      PROVE  Good(baseline, value, clean)
  <2>. DEFINE base == k.rev
              status == IF clean THEN "clean" ELSE "dirty"
              n == ShownAs(e, base, recovered, baseline, value, u, status)
  <2>1. base \in Nat /\ status \in {"clean", "dirty"} /\ new = n
    BY <1>1, <1>9
  <2>. HIDE DEF base, recovered, status
  <2>2. /\ n \in Editor /\ n.op = 0 /\ n.base = base
        /\ SameUser(e, n) /\ n.seen = e.seen /\ n.from = e.from /\ n.last = e.last
        /\ n.recording = e.recording /\ n.commands = e.commands
        /\ n.baseline = baseline /\ n.value = value /\ n.status = status
    BY <1>2, <2>1, ShowingIs
  <2>. HIDE DEF n, new
  <2>3. QED BY <2>1, <2>2 DEF base, status
<1>. HIDE DEF new, later, rebased, undo, recovered, Showing
<1>10. CASE engine = "TEXT"
  <2>1. new = Showing(k.model, IF all THEN k.model ELSE e.value, undo, all)
    BY <1>7, <1>10
  <2>2. Good(k.model, IF all THEN k.model ELSE e.value, all)
    BY <1>1, <1>4, <1>9, <2>1
  <2>3. QED BY <1>10, <2>2 DEF Shows, ShowsText, new
<1>11. CASE engine = "SPREADSHEET"
  <2>1. new = Showing(k.model, later, undo, later = k.model)
    BY <1>7, <1>11
  <2>2. Good(k.model, later, later = k.model)
    BY <1>1, <1>4, <1>5, <1>9, <2>1
  <2>3. QED BY <1>11, <2>2 DEF Shows, ShowsSheet, new, later
<1>12. CASE engine = "PRESENTATION"
  <2>1. new = Showing(IF all THEN e.value ELSE k.snapshot, e.value, undo, all)
    BY <1>7, <1>12
  <2>2. Good(IF all THEN e.value ELSE k.snapshot, e.value, all)
    BY <1>1, <1>4, <1>9, <2>1
  <2>3. QED BY <1>12, <2>2 DEF Shows, ShowsSlides, new
<1>13. CASE engine = "DOCUMENT"
  <2>1. new = IF e.value = k.snapshot THEN Showing(k.model, k.model, <<>>, TRUE)
              ELSE Showing(k.model, rebased, <<>>, rebased = k.model)
    BY <1>7, <1>13
  <2>2. CASE e.value = k.snapshot
    <3>1. Good(k.model, k.model, TRUE)
      BY <1>1, <1>3, <1>9, <2>1, <2>2
    <3>2. QED BY <1>13, <2>2, <3>1 DEF Shows, ShowsDocument, new
  <2>3. CASE e.value # k.snapshot
    <3>1. Good(k.model, rebased, rebased = k.model)
      BY <1>1, <1>3, <1>6, <1>9, <2>1, <2>3, ZenonT(60)
    <3>2. QED BY <1>13, <2>3, <3>1 DEF Shows, ShowsDocument, new, rebased
  <2>4. QED BY <2>2, <2>3
<1>14. QED BY <1>8, <1>10, <1>11, <1>12, <1>13 DEF Engines

LEMMA EndedIs ==
    ASSUME NEW e \in Editor, NEW c \in Calls
    PROVE  LET new == Ended(e, c)
           IN  /\ new \in Editor /\ new.op = e.op /\ new.base = e.base
               /\ SameUser(e, new) /\ new.seen = e.seen /\ new.from = e.from
               /\ new.baseline = e.baseline /\ new.value = e.value /\ new.status = e.status
               /\ \/ new = e /\ e.last # c
                  \/ new.last = NoCall /\ ~new.recording
<1>. DEFINE none == [e EXCEPT !.last = NoCall, !.recording = FALSE, !.commands = NoCommands]
<1>1. NoCommands \in PatchOf(Value)
  BY PatchesTyped
<1>2. /\ none \in Editor /\ none.op = e.op /\ none.base = e.base
      /\ SameUser(e, none) /\ none.seen = e.seen /\ none.from = e.from
      /\ none.baseline = e.baseline /\ none.value = e.value /\ none.status = e.status
      /\ none.last = NoCall /\ ~none.recording
  BY <1>1, ZenonT(60) DEF Editor, SameUser
<1>3. SameUser(e, e)
  BY DEF SameUser
<1>4. Ended(e, c) = IF e.last = c THEN none ELSE e
  BY DEF Ended
<1>. HIDE DEF none
<1>5. QED BY <1>2, <1>3, <1>4

\* The editor of a tab that hears a good answer.
AnsweredBy(e, c) ==
    [Ended(Settle(e, Merged(c, e)), c) EXCEPT
       !.seen = [p \in Parts |-> @[p] \cup call[c].seen[p]], !.from = @ \cup call[c].from]

LEMMA AnsweredIs ==
    ASSUME EditorTypes, NEW c \in Calls, NEW e \in Editor
    PROVE  LET k == call[c]
               new == AnsweredBy(e, c)
           IN  /\ new \in Editor /\ new.op = 0 /\ new.base = k.rev
               /\ SameUser(e, new) /\ new.from = e.from \cup k.from
               /\ \A p \in Parts : new.seen[p] = e.seen[p] \cup k.seen[p]
               /\ Shows(k, AllSaved(c), e, new)
               /\ \/ new.recording = e.recording /\ new.last = e.last /\ e.last # c
                     /\ new.commands = e.commands
                  \/ new.last = NoCall /\ ~new.recording
<1>. DEFINE k == call[c]
            m == Merged(c, e)
            s == Settle(e, m)
            d == Ended(s, c)
            seen == [p \in Parts |-> d.seen[p] \cup k.seen[p]]
            from == d.from \cup k.from
            new == [d EXCEPT !.seen = seen, !.from = from]
<1>1. /\ m \in Editor /\ m.op = 0 /\ m.base = k.rev
      /\ SameUser(e, m) /\ m.seen = e.seen /\ m.from = e.from /\ m.last = e.last
      /\ m.recording = e.recording /\ m.commands = e.commands
      /\ Shows(k, AllSaved(c), e, m)
  BY MergedIs
<1>2. k.seen \in [Parts -> SUBSET Value] /\ k.from \in SUBSET Tabs
  BY OpTyped DEF SaveCall
<1>. HIDE DEF m
<1>3. s \in Editor /\ s = [m EXCEPT !.listing = s.listing]
  BY <1>1, SettleTyped
<1>. HIDE DEF s
<1>4. /\ SameUser(m, s) /\ s.op = m.op /\ s.base = m.base /\ s.seen = m.seen /\ s.from = m.from
      /\ s.last = m.last /\ s.recording = m.recording /\ s.commands = m.commands
      /\ s.baseline = m.baseline /\ s.value = m.value /\ s.status = m.status
  BY <1>1, <1>3 DEF Editor, SameUser
<1>5. /\ d \in Editor /\ d.op = s.op /\ d.base = s.base
      /\ SameUser(s, d) /\ d.seen = s.seen /\ d.from = s.from
      /\ d.baseline = s.baseline /\ d.value = s.value /\ d.status = s.status
      /\ \/ d = s /\ s.last # c
         \/ d.last = NoCall /\ ~d.recording
  BY <1>3, EndedIs
<1>. HIDE DEF d
<1>6. seen \in [Parts -> SUBSET Value] /\ from \in SUBSET Tabs
      /\ \A p \in Parts : seen[p] = d.seen[p] \cup k.seen[p]
  BY <1>2, <1>5 DEF Editor
<1>7. new = AnsweredBy(e, c)
  <2>1. seen = [p \in Parts |-> d.seen[p] \cup call[c].seen[p]]
    OBVIOUS
  <2>2. AnsweredBy(e, c) = [d EXCEPT !.seen = [p \in Parts |-> d.seen[p] \cup call[c].seen[p]],
                                     !.from = d.from \cup call[c].from]
    BY <1>5 DEF AnsweredBy, d, s, m, Editor
  <2>3. QED BY <2>1, <2>2
<1>. HIDE DEF seen
<1>8. new \in Editor
  <2>. HIDE DEF from
  <2>1. QED BY <1>5, <1>6, ZenonT(60) DEF Editor
<1>9. /\ SameUser(d, new) /\ new.op = d.op /\ new.base = d.base /\ new.seen = seen
      /\ new.from = from
      /\ new.last = d.last /\ new.recording = d.recording /\ new.commands = d.commands
      /\ new.baseline = d.baseline /\ new.value = d.value /\ new.status = d.status
  <2>. HIDE DEF from
  <2>1. QED BY <1>5 DEF Editor, SameUser
<1>. HIDE DEF new
<1>10. SameUser(e, new)
  BY <1>1, <1>4, <1>5, <1>9 DEF SameUser
<1>11. new.baseline = m.baseline /\ new.value = m.value /\ new.status = m.status
  BY <1>4, <1>5, <1>9
<1>12. Shows(k, AllSaved(c), e, new)
  BY <1>1, <1>11 DEF Shows, ShowsText, ShowsSheet, ShowsSlides, ShowsDocument
<1>13. \/ new.recording = e.recording /\ new.last = e.last /\ e.last # c
          /\ new.commands = e.commands
       \/ new.last = NoCall /\ ~new.recording
  BY <1>1, <1>4, <1>5, <1>9
<1>14. /\ new \in Editor /\ new.op = 0 /\ new.base = k.rev /\ new.from = e.from \cup k.from
       /\ \A p \in Parts : new.seen[p] = e.seen[p] \cup k.seen[p]
  BY <1>1, <1>4, <1>5, <1>6, <1>8, <1>9
<1>15. QED BY <1>7, <1>10, <1>12, <1>13, <1>14

\* Requests after one is gone and others may be marked.
FreedTypes(c, after) ==
    /\ after \in [Calls -> SaveCall] /\ after[c].stage = "free"
    /\ \A d \in Calls \ {c} : after[d] = call[d] \/ after[d] = [call[d] EXCEPT !.edited = TRUE]

LEMMA FreedTyped ==
    ASSUME EditorTypes, NEW c \in Calls
    PROVE  /\ Freed(c) \in [Calls -> SaveCall] /\ FreedTypes(c, Freed(c))
           /\ \A t, counts : FreedTypes(c, Count(t, Freed(c), counts))
           /\ \A after : FreedTypes(c, after) =>
                 \A d \in Calls : after[d].stage = "answered" => after[d].answer # "none"
<1>1. Freed(c) \in [Calls -> SaveCall] /\ Freed(c)[c] = IdleCall
      /\ \A d \in Calls \ {c} : Freed(c)[d] = call[d]
  BY IdleTyped DEF Freed, EditorTypes, EditorTypeOK
<1>2. FreedTypes(c, Freed(c))
  BY <1>1, IdleTyped DEF FreedTypes
<1>3. ASSUME NEW t, NEW counts PROVE FreedTypes(c, Count(t, Freed(c), counts))
  <2>1. CountTypes(Freed(c), Count(t, Freed(c), counts))
    BY <1>1, CountTyped
  <2>2. [IdleCall EXCEPT !.edited = TRUE].stage = "free"
    BY IdleTyped DEF SaveCall
  <2>. HIDE DEF Freed
  <2>3. QED BY <1>1, <2>1, <2>2, IdleTyped DEF CountTypes, FreedTypes
<1>4. ASSUME NEW after, FreedTypes(c, after)
      PROVE  \A d \in Calls : after[d].stage = "answered" => after[d].answer # "none"
  <2>1. \A d \in Calls : [call[d] EXCEPT !.edited = TRUE].stage = call[d].stage
                         /\ [call[d] EXCEPT !.edited = TRUE].answer = call[d].answer
    BY DEF EditorTypes, EditorTypeOK, SaveCall
  <2>2. QED BY <1>4, <2>1, ZenonT(60) DEF FreedTypes, EditorTypes, Answered
<1>5. QED BY <1>1, <1>2, <1>3, <1>4

LEMMA TakeAnswerTyped ==
    ASSUME EditorTypes, NEW c \in Calls, TakeAnswer(c)
    PROVE  /\ EditorTypes' /\ FreedTypes(c, call')
           /\ tab' = [tab EXCEPT ![call[c].tab] = AnsweredBy(tab[call[c].tab], c)]
           /\ \E keys : drafts' = Without(drafts, keys)
<1>. DEFINE t == call[c].tab
            e == tab[t]
<1>1. t \in Tabs /\ e \in Editor
  BY OpTyped DEF EditorTypes, EditorTypeOK
<1>2. PICK keys : drafts' = Without(drafts, keys)
  BY DEF TakeAnswer
<1>3. /\ tab' = [tab EXCEPT ![t] = AnsweredBy(e, c)]
      /\ UNCHANGED <<scope, engine, stored, issued, published>>
  BY DEF TakeAnswer, AnsweredBy
<1>4. FreedTypes(c, call')
  <2>1. PICK counts : call' = Count(t, Freed(c), counts)
    BY DEF TakeAnswer
  <2>2. QED BY <2>1, FreedTyped
<1>5. AnsweredBy(e, c) \in Editor
  BY <1>1, AnsweredIs
<1>6. tab' \in [Tabs -> Editor]
  BY <1>1, <1>3, <1>5 DEF EditorTypes, EditorTypeOK
<1>7. Answered'
  BY <1>4, FreedTyped DEF Answered
<1>8. EditorTypes'
  BY <1>2, <1>3, <1>4, <1>6, <1>7, DraftsDroppedTyped DEF FreedTypes, EditorTypes, EditorTypeOK
<1>9. QED BY <1>2, <1>3, <1>4, <1>8

\* The editor of a tab whose save failed.
FailedBy(e, c, status) == Ended(Settle(e, [e EXCEPT !.status = status]), c)

LEMMA FailedIs ==
    ASSUME EditorTypes, NEW c \in Calls, NEW e \in Editor, NEW status \in {"failed", "conflict"}
    PROVE  LET new == FailedBy(e, c, status)
           IN  /\ new \in Editor /\ new.op = e.op /\ new.base = e.base
               /\ SameUser(e, new) /\ new.seen = e.seen /\ new.from = e.from
               /\ new.baseline = e.baseline /\ new.value = e.value /\ new.status = status
               /\ \/ new.recording = e.recording /\ new.last = e.last /\ e.last # c
                     /\ new.commands = e.commands
                  \/ new.last = NoCall /\ ~new.recording
<1>. DEFINE m == [e EXCEPT !.status = status]
            s == Settle(e, m)
            new == Ended(s, c)
<1>1. /\ m \in Editor /\ SameUser(e, m) /\ m.op = e.op /\ m.base = e.base /\ m.seen = e.seen
      /\ m.from = e.from /\ m.last = e.last /\ m.recording = e.recording
      /\ m.commands = e.commands
      /\ m.baseline = e.baseline /\ m.value = e.value /\ m.status = status
  BY DEF Editor, SameUser
<1>. HIDE DEF m
<1>2. s \in Editor /\ s = [m EXCEPT !.listing = s.listing]
  BY <1>1, SettleTyped
<1>. HIDE DEF s
<1>3. /\ SameUser(m, s) /\ s.op = m.op /\ s.base = m.base /\ s.seen = m.seen /\ s.from = m.from
      /\ s.last = m.last /\ s.recording = m.recording /\ s.commands = m.commands
      /\ s.baseline = m.baseline /\ s.value = m.value /\ s.status = m.status
  BY <1>1, <1>2 DEF Editor, SameUser
<1>4. /\ new \in Editor /\ new.op = s.op /\ new.base = s.base
      /\ SameUser(s, new) /\ new.seen = s.seen /\ new.from = s.from
      /\ new.baseline = s.baseline /\ new.value = s.value /\ new.status = s.status
      /\ \/ new = s /\ s.last # c
         \/ new.last = NoCall /\ ~new.recording
  BY <1>2, EndedIs
<1>5. new = FailedBy(e, c, status)
  BY DEF FailedBy, s, m
<1>. HIDE DEF new
<1>6. SameUser(e, new)
  BY <1>1, <1>3, <1>4 DEF SameUser
<1>7. QED BY <1>1, <1>3, <1>4, <1>5, <1>6

\* The ways a save fails in its tab: told, or the connection breaks.
LEMMA TakeFailureTyped ==
    ASSUME EditorTypes, NEW c \in Calls, TakeFailure(c)
    PROVE  LET t == call[c].tab
           IN  /\ EditorTypes'
               /\ \E status \in {"failed", "conflict"} :
                     tab' = [tab EXCEPT ![t] = FailedBy(tab[t], c, status)]
               /\ \/ FreedTypes(c, call')
                  \/ call' = [call EXCEPT ![c] = [call[c] EXCEPT !.heard = FALSE]]
               /\ UNCHANGED <<scope, engine, stored, drafts, issued, published>>
<1>. DEFINE t == call[c].tab
            e == tab[t]
<1>1. t \in Tabs /\ e \in Editor /\ call[c] \in SaveCall /\ call \in [Calls -> SaveCall]
      /\ tab \in [Tabs -> Editor]
  BY OpTyped DEF EditorTypes, EditorTypeOK
<1>2. UNCHANGED <<scope, engine, stored, drafts, issued, published>>
  BY DEF TakeFailure
<1>3. \E status \in {"failed", "conflict"} : tab' = [tab EXCEPT ![t] = FailedBy(e, c, status)]
  <2>1. CASE call[c].stage = "answered" /\ call[c].answer # "ok"
             /\ tab' = [tab EXCEPT ![t] = FailedBy(e, c, call[c].answer)]
    <3>1. call[c].answer \in {"failed", "conflict"}
      BY <1>1, <2>1 DEF EditorTypes, Answered, SaveCall
    <3>2. QED BY <2>1, <3>1
  <2>2. CASE tab' = [tab EXCEPT ![t] = FailedBy(e, c, "failed")]
    BY <2>2
  <2>3. QED BY <1>1, <2>1, <2>2 DEF TakeFailure, FailedBy
<1>4. \/ FreedTypes(c, call')
      \/ call' = [call EXCEPT ![c] = [call[c] EXCEPT !.heard = FALSE]]
  <2>1. call' = Freed(c) \/ call' = [call EXCEPT ![c].heard = FALSE]
    BY DEF TakeFailure
  <2>2. [call EXCEPT ![c].heard = FALSE] = [call EXCEPT ![c] = [call[c] EXCEPT !.heard = FALSE]]
    BY <1>1 DEF SaveCall
  <2>3. QED BY <2>1, <2>2, FreedTyped
<1>5. tab' \in [Tabs -> Editor]
  BY <1>1, <1>3, FailedIs
<1>6. call' \in [Calls -> SaveCall] /\ Answered'
  <2>1. CASE FreedTypes(c, call')
    <3>1. Answered'
      BY <2>1, FreedTyped DEF Answered
    <3>2. QED BY <2>1, <3>1 DEF FreedTypes
  <2>2. CASE call' = [call EXCEPT ![c] = [call[c] EXCEPT !.heard = FALSE]]
    BY <1>1, <2>2 DEF SaveCall, EditorTypes, Answered
  <2>3. QED BY <1>4, <2>1, <2>2
<1>7. EditorTypes'
  BY <1>2, <1>5, <1>6 DEF EditorTypes, EditorTypeOK, AgesApart
<1>8. QED BY <1>2, <1>3, <1>4, <1>7

LEMMA VanishTyped ==
    ASSUME EditorTypes, NEW c \in Calls, Vanish(c)
    PROVE  EditorTypes' /\ FreedTypes(c, call')
<1>1. call' = Freed(c) /\ UNCHANGED <<scope, engine, stored, tab, drafts, issued, published>>
  BY DEF Vanish
<1>2. FreedTypes(c, call') /\ Answered'
  BY <1>1, FreedTyped DEF Answered
<1>3. QED BY <1>1, <1>2 DEF FreedTypes, EditorTypes, EditorTypeOK, AgesApart

-----------------------------------------------------------------------------
LEMMA EditorTypesStart == EditorInit => EditorTypes
<1>. SUFFICES ASSUME EditorInit PROVE EditorTypes
  OBVIOUS
<1>1. stored \in Stored
  <2>. DEFINE rows == [o \in OpIds |-> [status |-> "ABSENT", expected |-> 0, result |-> 0]]
              writer == [p \in Parts |-> NoTab]
              since == [p \in Parts |-> 0]
  <2>1. rows \in [OpIds -> OpRow] /\ writer \in [Parts -> Tabs \cup {NoTab}]
        /\ since \in [Parts -> Nat]
    BY DEF OpRow
  <2>2. stored = [rev |-> 1, content |-> Blank, writer |-> writer, since |-> since, ops |-> rows]
    BY DEF EditorInit
  <2>. HIDE DEF rows, writer, since
  <2>3. QED BY <2>1, <2>2, PatchesTyped DEF Stored
<1>2. tab \in [Tabs -> Editor]
  <2>1. stored.rev \in Nat /\ stored.content \in Content /\ 0 \in 0..MaxEdits
    BY <1>1, EditorConstants DEF Stored
  <2>2. <<>> \in Seq(PatchOf(Value \cup {Unset}))
    OBVIOUS
  <2>3. ASSUME NEW t \in Tabs PROVE Closed(t, 0) \in Editor
    <3>1. Fresh(t, 0) \in Editor
      BY <2>1, <2>2, PatchesTyped DEF Fresh, Editor
    <3>2. QED BY <3>1, ZenonT(60) DEF Closed, Editor
  <2>4. QED BY <2>3 DEF EditorInit
<1>3. call \in [Calls -> SaveCall] /\ Answered
  BY IdleTyped DEF EditorInit, Answered
<1>4. drafts = {} /\ Cardinality(drafts) <= MaxDrafts /\ AgesApart(drafts)
  BY FS_EmptySet, EditorConstants DEF EditorInit, AgesApart
<1>5. scope \in Scopes /\ engine \in Engines
  BY EditorConstants DEF EditorInit
<1>6. QED BY <1>1, <1>2, <1>3, <1>4, <1>5, EditorConstants DEF EditorInit, EditorTypes, EditorTypeOK

LEMMA EditorTypesKept == EditorTypes /\ [EditorNext]_editorVars => EditorTypes'
<1>. SUFFICES ASSUME EditorTypes, [EditorNext]_editorVars PROVE EditorTypes'
  OBVIOUS
<1>1. CASE UNCHANGED editorVars
  BY <1>1 DEF editorVars, EditorTypes, EditorTypeOK, AgesApart, Answered
<1>2. ASSUME NEW t \in Tabs,
             OpenEditor(t) \/ CloseEditor(t) \/ Undo(t) \/ Flush(t) \/ ListDrafts(t)
             \/ Restore(t) \/ DiscardDraft(t) \/ Reload(t) \/ Discard(t) \/ NothingToSave(t)
      PROVE  EditorTypes'
  BY <1>2, OpenCloseTyped, UndoTyped, DraftStepsTyped, RestoreTyped, ReloadTyped, DiscardTyped,
     NothingToSaveTyped
<1>3. ASSUME NEW t \in Tabs, NEW p \in Parts, Type(t, p) PROVE EditorTypes'
  BY <1>3, TypeTyped
<1>4. ASSUME NEW t \in Tabs, NEW c \in Calls, Save(t, c) PROVE EditorTypes'
  BY <1>4, SaveTyped
<1>5. ASSUME NEW c \in Calls,
             Replay(c) \/ BeginSave(c) \/ Write(c) \/ Finish(c) \/ BreakOff(c)
             \/ TakeAnswer(c) \/ TakeFailure(c) \/ Vanish(c)
      PROVE  EditorTypes'
  BY <1>5, ReplayTyped, BeginSaveTyped, WriteTyped, TakeAnswerTyped, TakeFailureTyped, VanishTyped
<1>6. ASSUME NEW o \in OpIds, Reconcile(o) PROVE EditorTypes'
  BY <1>6, ReconcileTyped
<1>7. QED BY <1>1, <1>2, <1>3, <1>4, <1>5, <1>6 DEF EditorNext

\* Editors, saves and drafts keep their types, and a user's drafts are never
\* more than the limit: every draft has an age of its own below it, whichever
\* drafts the editors delete and put.
THEOREM EditorTypesHold == EditorSpec => []EditorTypeOK
<1>1. EditorInit => EditorTypes
  BY EditorTypesStart
<1>2. EditorTypes /\ [EditorNext]_editorVars => EditorTypes'
  BY EditorTypesKept
<1>3. EditorTypes => EditorTypeOK
  BY DEF EditorTypes
<1>4. QED BY <1>1, <1>2, <1>3, PTL DEF EditorSpec

-----------------------------------------------------------------------------
(* What a save may rely on: that its editor has seen, or its user written, *)
(* whatever part of the file is as old as the revision it expects.         *)

InUse(c) == call[c].stage # "free"
Held == published \cup {NoEdit}

\* Of what has not been written since base, k knows what is there.
Knows(k, base) ==
    /\ base <= stored.rev
    /\ \A p \in Parts : stored.since[p] <= base =>
          stored.content[p] \in k.seen[p] \/ stored.writer[p] \in k.from
SettledRow(o) == stored.ops[o].status \in {"PROVIDER_WRITTEN", "COMPLETED"}
\* What the save of an operation wrote is the tab's.
WroteAs(o, t) ==
    SettledRow(o) =>
        \A p \in Parts : stored.since[p] = stored.ops[o].result => stored.writer[p] = t

OpRowsFit ==
    /\ \A p \in Parts : stored.content[p] \in Held /\ stored.since[p] <= stored.rev
    /\ \A o \in OpIds :
          /\ o > issued => stored.ops[o].status = "ABSENT"
          /\ SettledRow(o) => /\ stored.ops[o].result = stored.ops[o].expected + 1
                              /\ stored.ops[o].result <= stored.rev
StageFits(c) ==
    /\ call[c].stage = "begun" =>
          /\ stored.ops[call[c].op].status = "PENDING"
          /\ stored.ops[call[c].op].expected = call[c].expected
    /\ call[c].stage = "written" =>
          SettledRow(call[c].op) /\ stored.ops[call[c].op].expected = call[c].expected
    /\ call[c].stage = "answered" /\ call[c].answer = "ok" =>
          /\ SettledRow(call[c].op) /\ stored.ops[call[c].op].expected = call[c].expected
          /\ call[c].rev = stored.ops[call[c].op].result
          /\ \A p \in Parts : call[c].model[p] \in Held
CallFits(c) ==
    InUse(c) =>
        /\ call[c].op <= issued /\ call[c].tab \in call[c].from
        /\ Knows(call[c], call[c].expected) /\ WroteAs(call[c].op, call[c].tab)
        /\ StageFits(c)
CallsApart ==
    \A c, d \in Calls : InUse(c) /\ InUse(d) /\ call[c].op = call[d].op =>
        /\ call[c].tab = call[d].tab
        /\ call[c].stage \in {"begun", "written"} /\ call[d].stage \in {"begun", "written"} => c = d
Informed(t) ==
    /\ t \in tab[t].from /\ Knows(tab[t], tab[t].base)
    /\ tab[t].offer # NoDraft => Knows(tab[t].offer, tab[t].offer.base)
OpFits(t) ==
    /\ tab[t].op <= issued
    /\ tab[t].op # 0 =>
          /\ WroteAs(tab[t].op, t)
          /\ \A c \in Calls : InUse(c) /\ call[c].op = tab[t].op => call[c].tab = t
          /\ \A u \in Tabs \ {t} : tab[u].op # tab[t].op
LeavesNothing(t) == ~tab[t].open => InFlight(t) = {}
SaveInv ==
    /\ OpRowsFit /\ CallsApart
    /\ \A c \in Calls : CallFits(c)
    /\ \A t \in Tabs : Informed(t) /\ OpFits(t) /\ LeavesNothing(t)
    /\ \A d \in drafts : Knows(d, d.base)

KeptCall(old, new) ==
    /\ new.stage = old.stage /\ new.tab = old.tab /\ new.op = old.op /\ new.expected = old.expected
    /\ new.payload = old.payload /\ new.snapshot = old.snapshot
    /\ new.seen = old.seen /\ new.from = old.from
    /\ new.answer = old.answer /\ new.model = old.model /\ new.rev = old.rev
    /\ new.heard => old.heard
\* The calls after a step of a tab.
CallsKept == \A c \in Calls : call'[c].stage = "free" \/ KeptCall(call[c], call'[c])

LEMMA CallsAreKept ==
    ASSUME EditorTypes
    PROVE  /\ CountTypes(call, call') => CallsKept
           /\ \A t : UnheardTypes(t, call') => CallsKept /\ InFlight(t)' = {}
           /\ \A c \in Calls : FreedTypes(c, call') => CallsKept
           /\ \A c \in Calls : call' = [call EXCEPT ![c] = [call[c] EXCEPT !.heard = FALSE]]
                 => CallsKept
           /\ UNCHANGED call => CallsKept
<1>1. ASSUME NEW c \in Calls
      PROVE  /\ KeptCall(call[c], call[c])
             /\ KeptCall(call[c], [call[c] EXCEPT !.edited = TRUE])
             /\ KeptCall(call[c], [call[c] EXCEPT !.heard = FALSE])
             /\ ~[call[c] EXCEPT !.heard = FALSE].heard
             /\ [call[c] EXCEPT !.heard = FALSE].stage = call[c].stage
             /\ [call[c] EXCEPT !.heard = FALSE].tab = call[c].tab
  BY OpTyped DEF KeptCall, SaveCall
<1>2. CountTypes(call, call') => CallsKept
  BY <1>1 DEF CountTypes, CallsKept
<1>3. ASSUME NEW t, UnheardTypes(t, call') PROVE CallsKept /\ InFlight(t)' = {}
  <2>1. CallsKept
    BY <1>1, <1>3 DEF UnheardTypes, CallsKept
  <2>2. \A c \in Calls : ~(call'[c].stage # "free" /\ call'[c].tab = t /\ call'[c].heard)
    BY <1>1, <1>3 DEF UnheardTypes, InFlight
  <2>3. QED BY <2>1, <2>2 DEF InFlight
<1>4. ASSUME NEW c \in Calls, FreedTypes(c, call') PROVE CallsKept
  BY <1>1, <1>4 DEF FreedTypes, CallsKept
<1>5. ASSUME NEW c \in Calls, call' = [call EXCEPT ![c] = [call[c] EXCEPT !.heard = FALSE]]
      PROVE  CallsKept
  BY <1>1, <1>5 DEF CallsKept, EditorTypes, EditorTypeOK
<1>6. UNCHANGED call => CallsKept
  BY <1>1 DEF CallsKept
<1>7. QED BY <1>2, <1>3, <1>4, <1>5, <1>6

\* A step of a tab's editor.
LEMMA TabStepKeeps ==
    ASSUME EditorTypes, EditorTypes', SaveInv, NEW t \in Tabs, NEW n,
           tab' = [tab EXCEPT ![t] = n], UNCHANGED <<stored, issued, published>>, CallsKept,
           t \in n.from, Knows(n, n.base), n.offer # NoDraft => Knows(n.offer, n.offer.base),
           n.op \in {tab[t].op, 0}, n.open \/ InFlight(t)' = {},
           \A d \in drafts' : Knows(d, d.base)
    PROVE  SaveInv'
<1>1. tab'[t] = n /\ \A u \in Tabs \ {t} : tab'[u] = tab[u]
  BY DEF EditorTypes, EditorTypeOK
<1>2. OpRowsFit'
  BY DEF SaveInv, OpRowsFit, Held, SettledRow
<1>3. ASSUME NEW c \in Calls, InUse(c)' PROVE KeptCall(call[c], call'[c]) /\ InUse(c)
  BY <1>3 DEF CallsKept, InUse, KeptCall
<1>4. CallsApart'
  <2>. SUFFICES ASSUME NEW c \in Calls, NEW d \in Calls, InUse(c)', InUse(d)',
                       call'[c].op = call'[d].op
                PROVE  /\ call'[c].tab = call'[d].tab
                       /\ call'[c].stage \in {"begun", "written"}
                          /\ call'[d].stage \in {"begun", "written"} => c = d
    BY DEF CallsApart
  <2>1. QED BY <1>3 DEF SaveInv, CallsApart, KeptCall
<1>5. ASSUME NEW c \in Calls PROVE CallFits(c)'
  <2>1. InUse(c)' => CallFits(c) /\ InUse(c) /\ KeptCall(call[c], call'[c])
    BY <1>3 DEF SaveInv
  <2>2. QED BY <2>1 DEF CallFits, StageFits, KeptCall, Knows, WroteAs, SettledRow, Held
<1>6. ASSUME NEW u \in Tabs PROVE Informed(u)'
  <2>1. CASE u = t
    BY <1>1, <2>1 DEF Informed, Knows
  <2>2. CASE u # t
    <3>1. Informed(u)
      BY DEF SaveInv
    <3>2. QED BY <1>1, <2>2, <3>1 DEF Informed, Knows
  <2>3. QED BY <2>1, <2>2
<1>7. ASSUME NEW u \in Tabs PROVE OpFits(u)'
  <2>1. \A v \in Tabs : tab'[v].op \in {tab[v].op, 0}
    BY <1>1
  <2>2. OpFits(u) /\ issued \in Nat
    BY DEF SaveInv, EditorTypes, EditorTypeOK
  <2>3. tab'[u].op <= issued'
    BY <2>1, <2>2 DEF OpFits
  <2>4. ASSUME tab'[u].op # 0
        PROVE  /\ WroteAs(tab[u].op, u)' /\ tab'[u].op = tab[u].op
               /\ \A c \in Calls : InUse(c)' /\ call'[c].op = tab'[u].op => call'[c].tab = u
               /\ \A v \in Tabs \ {u} : tab'[v].op # tab'[u].op
    <3>1. tab'[u].op = tab[u].op /\ tab[u].op # 0
      BY <2>1, <2>4
    <3>2. WroteAs(tab'[u].op, u) /\ tab'[u].op = tab[u].op
      BY <2>2, <3>1 DEF OpFits
    <3>3. \A c \in Calls : InUse(c)' /\ call'[c].op = tab'[u].op => call'[c].tab = u
      BY <1>3, <2>2, <3>1 DEF OpFits, KeptCall
    <3>4. \A v \in Tabs \ {u} : tab'[v].op # tab'[u].op
      BY <2>1, <2>2, <3>1 DEF OpFits
    <3>5. WroteAs(tab[u].op, u)'
      BY <3>2 DEF WroteAs, SettledRow
    <3>6. QED BY <3>1, <3>3, <3>4, <3>5
  <2>5. QED BY <2>3, <2>4 DEF OpFits
<1>8. ASSUME NEW u \in Tabs PROVE LeavesNothing(u)'
  <2>1. CASE u = t
    BY <1>1, <2>1 DEF LeavesNothing
  <2>2. CASE u # t
    <3>1. tab'[u] = tab[u] /\ LeavesNothing(u)
      BY <1>1, <2>2 DEF SaveInv
    <3>2. \A c \in Calls : InUse(c)' /\ call'[c].tab = u /\ call'[c].heard => c \in InFlight(u)
      BY <1>3 DEF KeptCall, InFlight, InUse
    <3>3. QED BY <3>1, <3>2 DEF LeavesNothing, InFlight, InUse
  <2>3. QED BY <2>1, <2>2
<1>9. \A d \in drafts' : Knows(d, d.base)'
  BY DEF Knows
<1>10. QED BY <1>2, <1>4, <1>5, <1>6, <1>7, <1>8, <1>9 DEF SaveInv

-----------------------------------------------------------------------------
(* What the steps of an editor do.                                         *)

SameSession(old, new) ==
    /\ new.open = old.open /\ new.op = old.op /\ new.base = old.base
    /\ new.seen = old.seen /\ new.from = old.from /\ new.offer = old.offer
SameWork(old, new) ==
    /\ new.baseline = old.baseline /\ new.value = old.value /\ new.status = old.status
    /\ new.commands = old.commands /\ new.recording = old.recording /\ new.last = old.last
    /\ new.typed = old.typed /\ new.reused = old.reused /\ new.mixed = old.mixed

\* But for its listing the editor is new.
LEMMA SettledIs ==
    ASSUME NEW old \in Editor, NEW new \in Editor
    PROVE  /\ Settle(old, new) \in Editor
           /\ SameSession(new, Settle(old, new)) /\ SameWork(new, Settle(old, new))
<1>. DEFINE s == Settle(old, new)
<1>1. s \in Editor /\ s = [new EXCEPT !.listing = s.listing]
  BY SettleTyped
<1>. HIDE DEF s
<1>2. SameSession(new, s) /\ SameWork(new, s)
  BY <1>1 DEF SameSession, SameWork, Editor
<1>3. QED BY <1>1, <1>2 DEF s

\* Whatever a user changes: new is the editor before its status is set.
LEMMA UserChangeDoes ==
    ASSUME EditorTypes, NEW t \in Tabs, NEW new \in Editor, UserChange(t, new)
    PROVE  \E n \in Editor :
              /\ tab' = [tab EXCEPT ![t] = n] /\ SameSession(new, n)
              /\ n.baseline = new.baseline /\ n.value = new.value
              /\ n.commands = new.commands /\ n.recording = new.recording /\ n.last = new.last
              /\ n.reused = new.reused /\ n.mixed = new.mixed
              /\ n.typed = EditsOf(t, new.value)
              /\ engine = "PRESENTATION" => n.status = "dirty"
              /\ CountTypes(call, call')
              /\ \/ engine = "TEXT" /\ new.value # new.baseline
                 \/ engine = "PRESENTATION" /\ Len(tab[t].undo) # Len(new.undo)
                 => \A c \in InFlight(t) : call'[c].edited
<1>. DEFINE status == CASE engine = "TEXT" -> new.status
                         [] engine = "SPREADSHEET" /\ new.value = new.baseline -> "clean"
                         [] OTHER -> "dirty"
            typed == EditsOf(t, new.value)
            left == [new EXCEPT !.status = status, !.typed = typed]
            n == Settle(tab[t], left)
<1>1. status \in {new.status, "clean", "dirty"} /\ (engine = "PRESENTATION" => status = "dirty")
  BY SMT
<1>2. typed \in SUBSET Value
  BY EditsTyped DEF Editor, Content
<1>3. /\ tab' = [tab EXCEPT ![t] = n]
      /\ call' = Count(t, call, Counts(tab[t], left))
  BY DEF UserChange, EditorTypes, EditorTypeOK
<1>. HIDE DEF status, typed
<1>4. left \in Editor
  BY <1>1, <1>2, ZenonT(60) DEF Editor
<1>5. /\ SameSession(new, left) /\ left.baseline = new.baseline /\ left.value = new.value
      /\ left.commands = new.commands /\ left.recording = new.recording /\ left.last = new.last
      /\ left.reused = new.reused /\ left.mixed = new.mixed /\ left.typed = typed
      /\ left.status = status /\ left.undo = new.undo
  BY DEF Editor, SameSession
<1>. HIDE DEF left
<1>6. n \in Editor /\ SameSession(left, n) /\ SameWork(left, n)
  BY <1>4, SettledIs DEF EditorTypes, EditorTypeOK
<1>. HIDE DEF n
<1>7. CountTypes(call, call')
  BY <1>3, CountTyped DEF EditorTypes, EditorTypeOK
<1>8. ASSUME \/ engine = "TEXT" /\ new.value # new.baseline
             \/ engine = "PRESENTATION" /\ Len(tab[t].undo) # Len(new.undo)
      PROVE  \A c \in InFlight(t) : call'[c].edited
  <2>1. Counts(tab[t], left)
    <3>1. CASE engine = "TEXT" /\ new.value # new.baseline
      BY <1>5, <3>1 DEF Counts
    <3>2. CASE engine = "PRESENTATION" /\ Len(tab[t].undo) # Len(new.undo)
      <4>1. left.status = "dirty" /\ Len(tab[t].undo) # Len(left.undo)
        BY <1>1, <1>5, <3>2
      <4>2. engine # "TEXT" /\ engine # "SPREADSHEET" /\ engine = "PRESENTATION"
        BY <3>2
      <4>3. QED BY <4>1, <4>2 DEF Counts
    <3>3. QED BY <1>8, <3>1, <3>2
  <2>2. \A c \in InFlight(t) : c \in Calls /\ call'[c] = [call[c] EXCEPT !.edited = TRUE]
    BY <1>3, <2>1 DEF Count, InFlight
  <2>3. \A c \in Calls : [call[c] EXCEPT !.edited = TRUE].edited
    BY OpTyped DEF SaveCall
  <2>4. QED BY <2>2, <2>3
<1>9. /\ SameSession(new, n) /\ n.baseline = new.baseline /\ n.value = new.value
      /\ n.commands = new.commands /\ n.recording = new.recording /\ n.last = new.last
      /\ n.reused = new.reused /\ n.mixed = new.mixed /\ n.typed = typed
      /\ n.status = status
  BY <1>5, <1>6 DEF SameSession, SameWork
<1>10. QED BY <1>1, <1>3, <1>6, <1>7, <1>8, <1>9 DEF typed

\* Typing and undo: a part more is changed and recorded, or the recording ends
\* and the undo stack is shorter.
UserStep(t, n) ==
    /\ tab' = [tab EXCEPT ![t] = n] /\ SameSession(tab[t], n)
    /\ n.baseline = tab[t].baseline /\ n.last = tab[t].last
    /\ n.reused = tab[t].reused /\ n.mixed = tab[t].mixed
    /\ n.typed = EditsOf(t, n.value)
    /\ engine = "PRESENTATION" => n.status = "dirty"
    /\ CountTypes(call, call')
    /\ \/ engine = "TEXT" /\ n.value # n.baseline
       \/ engine = "PRESENTATION"
       => \A c \in InFlight(t) : call'[c].edited
    /\ \/ n.recording = (tab[t].recording /\ tab[t].last = NoCall)
       \/ /\ n.recording = tab[t].recording
          /\ \E p \in Parts :
                /\ \A q \in Parts \ {p} : n.value[q] = tab[t].value[q]
                /\ n.recording => n.commands = With(tab[t].commands, p, n.value[p])
    /\ UNCHANGED <<scope, engine, stored, drafts, issued, published>>

LEMMA TypeDoes ==
    ASSUME EditorTypes, NEW t \in Tabs, NEW p \in Parts, Type(t, p)
    PROVE  \E n \in Editor : UserStep(t, n)
<1>. DEFINE e == tab[t]
            edit == <<t, e.count + 1>>
            v == [e.value EXCEPT ![p] = edit]
            u == Append(e.undo, Before(e, p))
            m == IF e.recording THEN With(e.commands, p, edit) ELSE e.commands
            new == [e EXCEPT !.value = v, !.count = e.count + 1, !.undo = u, !.commands = m]
<1>1. e \in Editor /\ e.count \in 0..MaxEdits /\ e.value \in Content
      /\ e.undo \in Seq(PatchOf(Value \cup {Unset})) /\ e.recording \in BOOLEAN
  BY DEF EditorTypes, EditorTypeOK, Editor
<1>2. UserChange(t, new) /\ e.count < scope.edits
      /\ UNCHANGED <<scope, engine, stored, drafts, issued, published>>
  BY <1>1 DEF Type, Editor
<1>3. e.count + 1 \in 1..MaxEdits /\ e.count + 1 \in 0..MaxEdits
  BY <1>1, <1>2, EditorConstants DEF EditorTypes, EditorTypeOK
<1>4. edit \in Value
  BY <1>3 DEF Value
<1>5. v \in Content /\ v[p] = edit /\ \A q \in Parts \ {p} : v[q] = e.value[q]
  BY <1>1, <1>4 DEF Content
<1>6. Before(e, p) \in PatchOf(Value \cup {Unset})
  <2>1. [q \in {p} |-> IF e.value[p] = e.baseline[p] THEN Unset ELSE e.value[p]]
          \in [{p} -> Value \cup {Unset}]
    BY <1>1 DEF Content
  <2>2. {p} \in SUBSET Parts
    OBVIOUS
  <2>3. [q \in {p} |-> IF e.value[p] = e.baseline[p] THEN Unset ELSE e.value[p]]
          \in PatchOf(Value \cup {Unset})
    BY <2>1, <2>2, PatchMade
  <2>4. QED BY <1>1, <2>3, PatchesTyped DEF Before
<1>7. u \in Seq(PatchOf(Value \cup {Unset})) /\ Len(u) # Len(e.undo)
  BY <1>1, <1>6
<1>8. m \in PatchOf(Value)
  BY <1>1, <1>4, PatchesTyped DEF Editor
<1>9. e.recording => m = With(e.commands, p, v[p])
  BY <1>5
<1>. HIDE DEF v, u, m
<1>10. new \in Editor /\ SameSession(e, new) /\ new.value = v /\ new.commands = m
       /\ new.undo = u /\ new.baseline = e.baseline /\ new.recording = e.recording
       /\ new.last = e.last /\ new.reused = e.reused /\ new.mixed = e.mixed
  <2>. HIDE DEF e
  <2>1. QED BY <1>1, <1>3, <1>5, <1>7, <1>8, ZenonT(60) DEF Editor, SameSession
<1>. HIDE DEF new
<1>11. PICK n \in Editor :
         /\ tab' = [tab EXCEPT ![t] = n] /\ SameSession(new, n)
         /\ n.baseline = new.baseline /\ n.value = new.value
         /\ n.commands = new.commands /\ n.recording = new.recording /\ n.last = new.last
         /\ n.reused = new.reused /\ n.mixed = new.mixed
         /\ n.typed = EditsOf(t, new.value)
         /\ engine = "PRESENTATION" => n.status = "dirty"
         /\ CountTypes(call, call')
         /\ \/ engine = "TEXT" /\ new.value # new.baseline
            \/ engine = "PRESENTATION" /\ Len(tab[t].undo) # Len(new.undo)
            => \A c \in InFlight(t) : call'[c].edited
  BY <1>2, <1>10, UserChangeDoes
<1>12. SameSession(e, n) /\ n.typed = EditsOf(t, n.value)
  BY <1>10, <1>11 DEF SameSession
<1>13. \/ engine = "TEXT" /\ n.value # n.baseline
       \/ engine = "PRESENTATION"
       => \A c \in InFlight(t) : call'[c].edited
  BY <1>7, <1>10, <1>11
<1>14. /\ n.recording = e.recording
       /\ \A q \in Parts \ {p} : n.value[q] = e.value[q]
       /\ n.recording => n.commands = With(e.commands, p, n.value[p])
  BY <1>5, <1>9, <1>10, <1>11
<1>15. QED BY <1>2, <1>10, <1>11, <1>12, <1>13, <1>14 DEF UserStep

LEMMA UndoDoes ==
    ASSUME EditorTypes, NEW t \in Tabs, Undo(t)
    PROVE  \E n \in Editor : UserStep(t, n)
<1>. DEFINE e == tab[t]
            top == e.undo[Len(e.undo)]
            before == [p \in DOMAIN top |-> IF top[p] = Unset THEN e.baseline[p] ELSE top[p]]
            v == Over(e.value, before)
            u == SubSeq(e.undo, 1, Len(e.undo) - 1)
            r == e.recording /\ e.last = NoCall
            new == [e EXCEPT !.value = v, !.undo = u, !.recording = r]
<1>1. e \in Editor /\ e.undo \in Seq(PatchOf(Value \cup {Unset})) /\ e.value \in Content
      /\ e.baseline \in Content /\ e.recording \in BOOLEAN
  BY DEF EditorTypes, EditorTypeOK, Editor
<1>2. /\ UserChange(t, new) /\ e.undo # <<>>
      /\ UNCHANGED <<scope, engine, stored, drafts, issued, published>>
  BY <1>1 DEF Undo, Editor
<1>3. top \in PatchOf(Value \cup {Unset})
  BY <1>1, <1>2
<1>. HIDE DEF top
<1>4. before \in [DOMAIN top -> Value] /\ DOMAIN top \in SUBSET Parts
  BY <1>1, <1>3, PatchFacts DEF Content
<1>5. before \in PatchOf(Value)
  BY <1>4, PatchMade
<1>. HIDE DEF before
<1>6. v \in Content
  BY <1>1, <1>5, PatchesTyped
<1>7. u \in Seq(PatchOf(Value \cup {Unset})) /\ Len(u) # Len(e.undo)
  BY <1>1, <1>2
<1>8. r \in BOOLEAN
  OBVIOUS
<1>. HIDE DEF v, u, r
<1>9. new \in Editor /\ SameSession(e, new) /\ new.recording = r
      /\ new.undo = u /\ new.baseline = e.baseline
      /\ new.last = e.last /\ new.reused = e.reused /\ new.mixed = e.mixed
  <2>. HIDE DEF e
  <2>1. QED BY <1>1, <1>6, <1>7, <1>8, ZenonT(60) DEF Editor, SameSession
<1>. HIDE DEF new
<1>10. PICK n \in Editor :
         /\ tab' = [tab EXCEPT ![t] = n] /\ SameSession(new, n)
         /\ n.baseline = new.baseline /\ n.value = new.value
         /\ n.commands = new.commands /\ n.recording = new.recording /\ n.last = new.last
         /\ n.reused = new.reused /\ n.mixed = new.mixed
         /\ n.typed = EditsOf(t, new.value)
         /\ engine = "PRESENTATION" => n.status = "dirty"
         /\ CountTypes(call, call')
         /\ \/ engine = "TEXT" /\ new.value # new.baseline
            \/ engine = "PRESENTATION" /\ Len(tab[t].undo) # Len(new.undo)
            => \A c \in InFlight(t) : call'[c].edited
  BY <1>2, <1>9, UserChangeDoes
<1>11. SameSession(e, n) /\ n.typed = EditsOf(t, n.value)
  BY <1>9, <1>10 DEF SameSession
<1>12. \/ engine = "TEXT" /\ n.value # n.baseline
       \/ engine = "PRESENTATION"
       => \A c \in InFlight(t) : call'[c].edited
  BY <1>7, <1>9, <1>10
<1>13. n.recording = (e.recording /\ e.last = NoCall)
  BY <1>9, <1>10 DEF r
<1>14. QED BY <1>2, <1>9, <1>10, <1>11, <1>12, <1>13 DEF UserStep

\* A draft takes the place of what the editor shows.
RestoreStep(t, n) ==
    LET e == tab[t]
    IN  /\ tab' = [tab EXCEPT ![t] = n] /\ e.offer \in Draft /\ e.offer.base = e.base
        /\ e.open /\ n.open /\ n.op = e.op /\ n.base = e.base /\ n.offer = NoDraft
        /\ n.seen = e.offer.seen /\ n.from = {t} \cup e.offer.from
        /\ n.baseline = e.baseline /\ n.value = e.offer.value
        /\ n.last = e.last /\ n.recording = e.recording /\ n.commands = e.commands
        /\ n.typed = EditsOf(t, n.value) /\ n.reused = e.reused
        /\ n.mixed = (e.mixed \/ e.recording)
        /\ engine = "PRESENTATION" => n.status = "dirty"
        /\ CountTypes(call, call')
        /\ \/ engine = "TEXT" /\ n.value # n.baseline
           \/ engine = "PRESENTATION" /\ e.status # "dirty"
           => \A c \in InFlight(t) : call'[c].edited
        /\ UNCHANGED <<scope, engine, stored, drafts, issued, published>>

LEMMA RestoreDoes ==
    ASSUME EditorTypes, NEW t \in Tabs, Restore(t)
    PROVE  \E n \in Editor : RestoreStep(t, n)
<1>. DEFINE e == tab[t]
            undo == CASE engine = "TEXT" -> Append(e.undo, e.value)
                      [] engine = "DOCUMENT" -> <<>> [] OTHER -> e.undo
            status == IF engine = "DOCUMENT" /\ e.offer.value = e.baseline THEN "clean" ELSE "dirty"
            mixed == e.mixed \/ e.recording
            typed == EditsOf(t, e.offer.value)
            from == {t} \cup e.offer.from
            applied == [e EXCEPT !.value = e.offer.value, !.typed = typed,
                           !.seen = e.offer.seen, !.from = from,
                           !.mixed = mixed, !.recovered = Key(e.offer), !.offer = NoDraft,
                           !.undo = undo, !.status = status]
            n == Settle(e, applied)
<1>1. e \in Editor /\ e.value \in Content /\ e.undo \in Seq(PatchOf(Value \cup {Unset}))
      /\ e.offer \in Draft /\ e.mixed \in BOOLEAN /\ e.recording \in BOOLEAN
      /\ e.offer.base = e.base /\ e.open
  BY DEF Restore, CanRestore, EditorTypes, EditorTypeOK, Editor
<1>2. /\ tab' = [tab EXCEPT ![t] = n]
      /\ call' = Count(t, call, engine # "DOCUMENT" /\ Counts(e, applied))
      /\ UNCHANGED <<scope, engine, stored, drafts, issued, published>>
  BY <1>1 DEF Restore, Editor
<1>3. undo \in Seq(PatchOf(Value \cup {Unset}))
  <2>1. e.value \in PatchOf(Value \cup {Unset})
    BY <1>1, PatchesTyped
  <2>2. Append(e.undo, e.value) \in Seq(PatchOf(Value \cup {Unset}))
    BY <1>1, <2>1
  <2>3. <<>> \in Seq(PatchOf(Value \cup {Unset}))
    OBVIOUS
  <2>4. undo \in {Append(e.undo, e.value), <<>>, e.undo}
    BY SMT
  <2>5. QED BY <1>1, <2>2, <2>3, <2>4
<1>4. /\ status \in {"clean", "dirty"} /\ mixed \in BOOLEAN /\ Key(e.offer) \in Tabs \X Nat
      /\ e.offer.value \in Content /\ typed \in SUBSET Value
      /\ e.offer.seen \in [Parts -> SUBSET Value] /\ from \in SUBSET Tabs
      /\ engine \in {"TEXT", "PRESENTATION"} => status = "dirty"
  <2>1. /\ e.offer.value \in Content /\ e.offer.seen \in [Parts -> SUBSET Value]
        /\ e.offer.from \in SUBSET Tabs /\ Key(e.offer) \in Tabs \X Nat
    BY <1>1 DEF Draft, Key
  <2>2. typed \in SUBSET Value
    BY <2>1, EditsTyped DEF Content
  <2>3. QED BY <1>1, <2>1, <2>2
<1>. HIDE DEF undo, status, mixed, typed, from
<1>5. applied \in Editor
  <2>. HIDE DEF e
  <2>1. QED BY <1>1, <1>3, <1>4, ZenonT(60) DEF Editor
<1>6. /\ applied.open = e.open /\ applied.op = e.op /\ applied.base = e.base
      /\ applied.offer = NoDraft
      /\ applied.seen = e.offer.seen /\ applied.from = from
      /\ applied.baseline = e.baseline /\ applied.value = e.offer.value
      /\ applied.last = e.last /\ applied.recording = e.recording
      /\ applied.commands = e.commands
      /\ applied.typed = typed /\ applied.reused = e.reused
      /\ applied.mixed = mixed /\ applied.status = status
  <2>. HIDE DEF e
  <2>1. QED BY <1>1 DEF Editor
<1>. HIDE DEF applied
<1>7. n \in Editor /\ SameSession(applied, n) /\ SameWork(applied, n)
  BY <1>1, <1>5, SettledIs
<1>. HIDE DEF n
<1>8. CountTypes(call, call')
  BY <1>2, CountTyped DEF EditorTypes, EditorTypeOK
<1>9. ASSUME \/ engine = "TEXT" /\ n.value # n.baseline
             \/ engine = "PRESENTATION" /\ e.status # "dirty"
      PROVE  \A c \in InFlight(t) : call'[c].edited
  <2>1. Counts(e, applied)
    <3>1. CASE engine = "TEXT" /\ n.value # n.baseline
      <4>1. applied.value # applied.baseline
        BY <1>7, <3>1 DEF SameWork
      <4>2. QED BY <3>1, <4>1 DEF Counts
    <3>2. CASE engine = "PRESENTATION" /\ e.status # "dirty"
      <4>1. applied.status = "dirty"
        BY <1>4, <1>6, <3>2
      <4>2. engine # "TEXT" /\ engine # "SPREADSHEET" /\ engine = "PRESENTATION"
        BY <3>2
      <4>. HIDE DEF e
      <4>3. QED BY <3>2, <4>1, <4>2 DEF Counts
    <3>3. QED BY <1>9, <3>1, <3>2
  <2>2. \A c \in InFlight(t) : c \in Calls /\ call'[c] = [call[c] EXCEPT !.edited = TRUE]
    BY <1>2, <1>9, <2>1 DEF Count, InFlight
  <2>3. \A c \in Calls : [call[c] EXCEPT !.edited = TRUE].edited
    BY OpTyped DEF SaveCall
  <2>4. QED BY <2>2, <2>3
<1>10. /\ n.open = e.open /\ n.op = e.op /\ n.base = e.base /\ n.offer = NoDraft
       /\ n.seen = e.offer.seen /\ n.from = from
       /\ n.baseline = e.baseline /\ n.value = e.offer.value
       /\ n.last = e.last /\ n.recording = e.recording /\ n.commands = e.commands
       /\ n.typed = typed /\ n.reused = e.reused
       /\ n.mixed = mixed /\ n.status = status
  BY <1>6, <1>7 DEF SameSession, SameWork
<1>11. RestoreStep(t, n)
  BY <1>1, <1>2, <1>4, <1>8, <1>9, <1>10 DEF RestoreStep, typed, from, mixed
<1>12. QED BY <1>7, <1>11

\* What was typed is given up.
DiscardStep(t, n) ==
    /\ tab' = [tab EXCEPT ![t] = n] /\ SameSession(tab[t], n)
    /\ n.baseline = tab[t].baseline /\ n.value = tab[t].baseline
    /\ n.typed = EditsOf(t, n.value) /\ n.status = "clean"
    /\ n.last = tab[t].last /\ n.recording = tab[t].recording /\ n.commands = tab[t].commands
    /\ n.reused = tab[t].reused /\ n.mixed = tab[t].mixed
    /\ CountTypes(call, call')
    /\ UNCHANGED <<scope, engine, stored, issued, published>>
    /\ \E keys : drafts' = Without(drafts, keys)

LEMMA DiscardDoes ==
    ASSUME EditorTypes, NEW t \in Tabs, Discard(t)
    PROVE  \E n \in Editor : DiscardStep(t, n)
<1>. DEFINE e == tab[t]
            typed == EditsOf(t, e.baseline)
            left == [e EXCEPT !.value = e.baseline, !.typed = typed,
                              !.undo = <<>>, !.status = "clean", !.recovered = NoDraft]
            n == Settle(e, left)
<1>1. e \in Editor /\ e.baseline \in Content
  BY DEF EditorTypes, EditorTypeOK, Editor
<1>2. typed \in SUBSET Value
  BY <1>1, EditsTyped DEF Content
<1>3. /\ drafts' = Without(drafts, OwnKeys(t))
      /\ tab' = [tab EXCEPT ![t] = n]
      /\ call' = Count(t, call, engine = "TEXT" \/ (engine = "SPREADSHEET" /\ Counts(e, left)))
      /\ UNCHANGED <<scope, engine, stored, issued, published>>
  BY DEF Discard
<1>. HIDE DEF typed
<1>4. /\ left \in Editor /\ SameSession(e, left) /\ left.baseline = e.baseline
      /\ left.value = e.baseline /\ left.typed = typed /\ left.status = "clean"
      /\ left.last = e.last /\ left.recording = e.recording /\ left.commands = e.commands
      /\ left.reused = e.reused /\ left.mixed = e.mixed
  <2>. HIDE DEF e
  <2>1. <<>> \in Seq(PatchOf(Value \cup {Unset}))
    OBVIOUS
  <2>2. left \in Editor
    BY <1>1, <1>2, <2>1, ZenonT(60) DEF Editor
  <2>3. QED BY <1>1, <2>2 DEF Editor, SameSession
<1>5. CountTypes(call, call')
  BY <1>3, CountTyped DEF EditorTypes, EditorTypeOK
<1>. HIDE DEF left
<1>6. n \in Editor /\ SameSession(left, n) /\ SameWork(left, n)
  BY <1>1, <1>4, SettledIs
<1>. HIDE DEF n
<1>7. DiscardStep(t, n)
  BY <1>3, <1>4, <1>5, <1>6 DEF DiscardStep, SameSession, SameWork, typed
<1>8. QED BY <1>6, <1>7

\* An editor with the file as it is.
FreshFields(t, n) ==
    /\ n.base = stored.rev /\ n.baseline = stored.content /\ n.value = stored.content
    /\ n.seen = Alone(stored.content) /\ n.from = {t} /\ n.typed = {} /\ n.status = "clean"
LEMMA FreshIs ==
    ASSUME EditorTypes, NEW t \in Tabs, NEW count \in 0..MaxEdits
    PROVE  /\ FreshFields(t, Fresh(t, count)) /\ FreshFields(t, Closed(t, count))
           /\ \A n \in {Fresh(t, count), Closed(t, count)} :
                 /\ n \in Editor /\ n.op = 0 /\ n.offer = NoDraft /\ ~n.recording
                 /\ n.last = NoCall /\ ~n.reused /\ ~n.mixed
           /\ Fresh(t, count).open
<1>1. FreshFields(t, Fresh(t, count)) /\ FreshFields(t, Closed(t, count))
  BY DEF Fresh, Closed, FreshFields
<1>2. Fresh(t, count) \in Editor /\ Closed(t, count) \in Editor
  BY FreshTyped
<1>3. QED BY <1>1, <1>2 DEF Fresh, Closed

\* The editor is mounted anew, or takes the file and keeps the id of its save.
ReloadStep(t, n) ==
    LET e == tab[t]
    IN  /\ tab' = [tab EXCEPT ![t] = n] /\ FreshFields(t, n) /\ n.open /\ e.open
        /\ \/ /\ engine = "TEXT" /\ UnheardTypes(t, call')
              /\ n.op = 0 /\ n.offer = NoDraft /\ ~n.recording
           \/ /\ engine # "TEXT" /\ CountTypes(call, call')
              /\ n.op = e.op /\ n.reused = e.reused /\ n.mixed = e.mixed /\ n.offer = e.offer
              /\ n.last = e.last /\ n.recording = e.recording /\ n.commands = e.commands
        /\ UNCHANGED <<scope, engine, stored, issued, published>>
        /\ \E keys : drafts' = Without(drafts, keys)

LEMMA ReloadDoes ==
    ASSUME EditorTypes, NEW t \in Tabs, Reload(t)
    PROVE  \E n \in Editor : ReloadStep(t, n)
<1>. DEFINE e == tab[t]
            f == Mounted(t)
            kept == [f EXCEPT !.op = e.op, !.reused = e.reused, !.mixed = e.mixed,
                       !.commands = e.commands, !.recording = e.recording, !.last = e.last,
                       !.offer = e.offer, !.listing = e.listing]
            n == Settle(e, kept)
<1>1. e \in Editor /\ f \in Editor /\ FreshFields(t, f) /\ f.op = 0 /\ f.offer = NoDraft
      /\ ~f.recording /\ f.open
  <2>1. e \in Editor /\ e.count \in 0..MaxEdits
    BY DEF EditorTypes, EditorTypeOK, Editor
  <2>2. QED BY <2>1, FreshIs DEF Mounted
<1>2. /\ drafts' = Without(drafts, OwnKeys(t)) /\ e.open
      /\ \/ engine = "TEXT" /\ tab' = [tab EXCEPT ![t] = f] /\ call' = Unheard(t)
         \/ /\ engine # "TEXT" /\ tab' = [tab EXCEPT ![t] = n]
            /\ call' = Count(t, call, engine = "SPREADSHEET" /\ Counts(e, kept))
      /\ UNCHANGED <<scope, engine, stored, issued, published>>
  BY DEF Reload
<1>. HIDE DEF f
<1>3. kept \in Editor /\ kept.open /\ FreshFields(t, kept)
      /\ kept.op = e.op /\ kept.reused = e.reused /\ kept.mixed = e.mixed
      /\ kept.offer = e.offer /\ kept.last = e.last /\ kept.recording = e.recording
      /\ kept.commands = e.commands
  <2>. HIDE DEF e
  <2>1. kept \in Editor
    <3>1. e \in Editor /\ f \in Editor
      BY <1>1
    <3>2. QED BY <3>1, ZenonT(60) DEF Editor
  <2>2. /\ kept.open = f.open /\ kept.base = f.base /\ kept.baseline = f.baseline
        /\ kept.value = f.value /\ kept.seen = f.seen /\ kept.from = f.from
        /\ kept.typed = f.typed /\ kept.status = f.status
    BY <1>1, ZenonT(60) DEF Editor
  <2>3. /\ kept.op = e.op /\ kept.reused = e.reused /\ kept.mixed = e.mixed
        /\ kept.offer = e.offer /\ kept.last = e.last /\ kept.recording = e.recording
        /\ kept.commands = e.commands
    BY <1>1 DEF Editor
  <2>. HIDE DEF kept
  <2>4. QED BY <1>1, <2>1, <2>2, <2>3 DEF FreshFields
<1>. HIDE DEF kept
<1>4. n \in Editor /\ SameSession(kept, n) /\ SameWork(kept, n)
  BY <1>1, <1>3, SettledIs
<1>. HIDE DEF n
<1>5. CASE engine = "TEXT" /\ tab' = [tab EXCEPT ![t] = f] /\ call' = Unheard(t)
  <2>1. UnheardTypes(t, call')
    BY <1>5, UnheardTyped
  <2>2. ReloadStep(t, f)
    BY <1>1, <1>2, <1>5, <2>1 DEF ReloadStep
  <2>3. QED BY <1>1, <2>2
<1>6. CASE /\ engine # "TEXT" /\ tab' = [tab EXCEPT ![t] = n]
           /\ call' = Count(t, call, engine = "SPREADSHEET" /\ Counts(e, kept))
  <2>1. CountTypes(call, call')
    BY <1>6, CountTyped DEF EditorTypes, EditorTypeOK
  <2>2. FreshFields(t, n) /\ n.open
    BY <1>3, <1>4 DEF FreshFields, SameSession, SameWork
  <2>3. /\ n.op = e.op /\ n.reused = e.reused /\ n.mixed = e.mixed /\ n.offer = e.offer
        /\ n.last = e.last /\ n.recording = e.recording /\ n.commands = e.commands
    BY <1>3, <1>4 DEF SameSession, SameWork
  <2>4. ReloadStep(t, n)
    BY <1>2, <1>6, <2>1, <2>2, <2>3 DEF ReloadStep
  <2>5. QED BY <1>4, <2>4
<1>7. QED BY <1>2, <1>5, <1>6

-----------------------------------------------------------------------------
(* The steps of an editor keep what saves rely on.                         *)

LEMMA FewerDraftsKnown ==
    ASSUME EditorTypes, SaveInv, \E keys : drafts' = Without(drafts, keys)
    PROVE  \A d \in drafts' : Knows(d, d.base)
<1>1. PICK keys : drafts' = Without(drafts, keys)
  OBVIOUS
<1>2. drafts \in SUBSET Draft /\ AgesApart(drafts)
  BY DEF EditorTypes, EditorTypeOK
<1>3. ASSUME NEW d \in drafts' PROVE Knows(d, d.base)
  <2>1. PICK old \in drafts : d = [old EXCEPT !.age = d.age]
    BY <1>1, <1>2, WithoutFits
  <2>2. d.base = old.base /\ d.seen = old.seen /\ d.from = old.from
    BY <1>2, <2>1 DEF Draft
  <2>3. Knows(old, old.base)
    BY DEF SaveInv
  <2>4. QED BY <2>2, <2>3 DEF Knows
<1>4. QED BY <1>3

LEMMA FreshKnows ==
    ASSUME EditorTypes, SaveInv, NEW t, NEW n, FreshFields(t, n)
    PROVE  t \in n.from /\ Knows(n, n.base)
<1>1. stored.rev \in Nat /\ stored.rev <= stored.rev
  BY DEF EditorTypes, EditorTypeOK, Stored
<1>2. \A p \in Parts : stored.content[p] \in Alone(stored.content)[p]
  BY DEF Alone
<1>3. QED BY <1>1, <1>2 DEF FreshFields, Knows

\* A session that goes on is still informed.
LEMMA SameSessionKeeps ==
    ASSUME EditorTypes, EditorTypes', SaveInv, NEW t \in Tabs, NEW n \in Editor,
           tab' = [tab EXCEPT ![t] = n], SameSession(tab[t], n),
           UNCHANGED <<stored, issued, published>>, CallsKept,
           tab[t].open \/ UNCHANGED call,
           \A d \in drafts' : Knows(d, d.base)
    PROVE  SaveInv'
<1>1. Informed(t) /\ LeavesNothing(t)
  BY DEF SaveInv
<1>2. t \in n.from /\ Knows(n, n.base) /\ (n.offer # NoDraft => Knows(n.offer, n.offer.base))
  BY <1>1 DEF Informed, Knows, SameSession
<1>3. n.op \in {tab[t].op, 0}
  BY DEF SameSession
<1>4. n.open \/ InFlight(t)' = {}
  BY <1>1 DEF SameSession, LeavesNothing, InFlight
<1>5. QED BY <1>2, <1>3, <1>4, TabStepKeeps

LEMMA TypingSaves ==
    ASSUME EditorTypes, EditorTypes', SaveInv, NEW t \in Tabs,
           (\E p \in Parts : Type(t, p)) \/ Undo(t)
    PROVE  SaveInv'
<1>1. PICK n \in Editor : UserStep(t, n)
  BY TypeDoes, UndoDoes
<1>2. tab[t].open /\ UNCHANGED drafts
  BY DEF Type, Undo
<1>3. CallsKept
  BY <1>1, CallsAreKept DEF UserStep
<1>4. \A d \in drafts' : Knows(d, d.base)
  BY <1>2 DEF SaveInv
<1>5. QED BY <1>1, <1>2, <1>3, <1>4, SameSessionKeeps DEF UserStep

LEMMA DiscardSaves ==
    ASSUME EditorTypes, EditorTypes', SaveInv, NEW t \in Tabs, Discard(t)
    PROVE  SaveInv'
<1>1. PICK n \in Editor : DiscardStep(t, n)
  BY DiscardDoes
<1>2. tab[t].open
  BY DEF Discard
<1>3. CallsKept /\ \A d \in drafts' : Knows(d, d.base)
  BY <1>1, CallsAreKept, FewerDraftsKnown DEF DiscardStep
<1>4. QED BY <1>1, <1>2, <1>3, SameSessionKeeps DEF DiscardStep

LEMMA RestoreSaves ==
    ASSUME EditorTypes, EditorTypes', SaveInv, NEW t \in Tabs, Restore(t)
    PROVE  SaveInv'
<1>1. PICK n \in Editor : RestoreStep(t, n)
  BY RestoreDoes
<1>2. CallsKept /\ UNCHANGED <<stored, drafts, issued, published>>
  BY <1>1, CallsAreKept DEF RestoreStep
<1>3. tab[t].offer # NoDraft /\ Informed(t)
  BY DEF Restore, CanRestore, SaveInv
<1>4. t \in n.from /\ Knows(n, n.base)
  BY <1>1, <1>3 DEF Informed, RestoreStep, Knows
<1>5. n.offer = NoDraft /\ n.op = tab[t].op /\ n.open /\ tab' = [tab EXCEPT ![t] = n]
  BY <1>1 DEF RestoreStep
<1>6. \A d \in drafts' : Knows(d, d.base)
  BY <1>2 DEF SaveInv
<1>7. QED BY <1>2, <1>4, <1>5, <1>6, TabStepKeeps

LEMMA ReloadSaves ==
    ASSUME EditorTypes, EditorTypes', SaveInv, NEW t \in Tabs, Reload(t)
    PROVE  SaveInv'
<1>1. PICK n \in Editor : ReloadStep(t, n)
  BY ReloadDoes
<1>2. CallsKept /\ \A d \in drafts' : Knows(d, d.base)
  BY <1>1, CallsAreKept, FewerDraftsKnown DEF ReloadStep
<1>3. t \in n.from /\ Knows(n, n.base)
  BY <1>1, FreshKnows DEF ReloadStep
<1>4. n.offer # NoDraft => Knows(n.offer, n.offer.base)
  BY <1>1 DEF SaveInv, Informed, ReloadStep
<1>5. n.op \in {tab[t].op, 0} /\ n.open /\ tab' = [tab EXCEPT ![t] = n]
      /\ UNCHANGED <<stored, issued, published>>
  BY <1>1 DEF ReloadStep
<1>6. QED BY <1>2, <1>3, <1>4, <1>5, TabStepKeeps

LEMMA OpenCloseSaves ==
    ASSUME EditorTypes, EditorTypes', SaveInv, NEW t \in Tabs, OpenEditor(t) \/ CloseEditor(t)
    PROVE  SaveInv'
<1>. DEFINE count == tab[t].count
<1>1. count \in 0..MaxEdits
  BY DEF EditorTypes, EditorTypeOK, Editor
<1>2. PICK n \in {Fresh(t, count), Closed(t, count)} :
        /\ tab' = [tab EXCEPT ![t] = n] /\ CallsKept /\ (n.open \/ InFlight(t)' = {})
        /\ UNCHANGED <<stored, drafts, issued, published>>
  <2>1. CASE OpenEditor(t)
    BY <1>1, <2>1, FreshIs, CallsAreKept DEF OpenEditor, Mounted
  <2>2. CASE CloseEditor(t)
    <3>1. UnheardTypes(t, call')
      BY <2>2, UnheardTyped DEF CloseEditor
    <3>2. QED BY <2>2, <3>1, CallsAreKept DEF CloseEditor
  <2>3. QED BY <2>1, <2>2
<1>. HIDE DEF count
<1>3. FreshFields(t, n) /\ n.op = 0 /\ n.offer = NoDraft
  BY <1>1, <1>2, FreshIs
<1>4. t \in n.from /\ Knows(n, n.base)
  BY <1>3, FreshKnows
<1>5. \A d \in drafts' : Knows(d, d.base)
  BY <1>2 DEF SaveInv
<1>6. QED BY <1>2, <1>3, <1>4, <1>5, TabStepKeeps

LEMMA NothingToSaveSaves ==
    ASSUME EditorTypes, EditorTypes', SaveInv, NEW t \in Tabs, NothingToSave(t)
    PROVE  SaveInv'
<1>. DEFINE new == [tab[t] EXCEPT !.status = "clean"]
            n == Settle(tab[t], new)
<1>1. tab[t] \in Editor
  BY DEF EditorTypes, EditorTypeOK
<1>2. new \in Editor /\ SameSession(tab[t], new)
  BY <1>1 DEF Editor, SameSession
<1>3. /\ tab' = [tab EXCEPT ![t] = n]
      /\ UNCHANGED <<scope, engine, stored, call, drafts, issued, published>>
  BY DEF NothingToSave, EditorTypes, EditorTypeOK
<1>. HIDE DEF new
<1>4. n \in Editor /\ SameSession(new, n)
  BY <1>1, <1>2, SettledIs
<1>. HIDE DEF n
<1>5. SameSession(tab[t], n) /\ CallsKept
  BY <1>2, <1>3, <1>4, CallsAreKept DEF SameSession
<1>6. \A d \in drafts' : Knows(d, d.base)
  BY <1>3 DEF SaveInv
<1>7. QED BY <1>3, <1>4, <1>5, <1>6, SameSessionKeeps

LEMMA DraftStepsSave ==
    ASSUME EditorTypes, EditorTypes', SaveInv, NEW t \in Tabs,
           Flush(t) \/ ListDrafts(t) \/ DiscardDraft(t)
    PROVE  SaveInv'
<1>. DEFINE e == tab[t]
<1>1. e \in Editor /\ Informed(t) /\ drafts \in SUBSET Draft /\ AgesApart(drafts) /\ CallsKept
      /\ e.open /\ UNCHANGED <<stored, issued, published>>
  BY CallsAreKept DEF Flush, ListDrafts, DiscardDraft, SaveInv, EditorTypes, EditorTypeOK
<1>2. ASSUME Flush(t) PROVE SaveInv'
  <2>. DEFINE draft == [tab |-> t, base |-> e.base, value |-> e.value, age |-> 0, seen |-> e.seen,
                        from |-> e.from]
              rest == Without(drafts, {Key(draft)})
  <2>1. draft \in Draft /\ draft.age = 0 /\ draft.base = e.base /\ draft.seen = e.seen
        /\ draft.from = e.from
    BY <1>1 DEF Draft, Editor
  <2>2. rest \in SUBSET Draft /\ AgesApart(rest)
        /\ \A r \in rest : \E d \in drafts : r = [d EXCEPT !.age = r.age]
    BY <1>1, WithoutFits
  <2>3. /\ drafts' = Trimmed({draft} \cup {[d EXCEPT !.age = @ + 1] : d \in rest})
        /\ UNCHANGED <<tab, call>>
    BY <1>2 DEF Flush
  <2>. HIDE DEF draft, rest
  <2>4. \A d \in drafts' : d = draft \/ \E r \in rest : d = [r EXCEPT !.age = d.age]
    BY <2>1, <2>2, <2>3, FlushedFits
  <2>5. Knows(draft, draft.base)
    BY <1>1, <2>1 DEF Informed, Knows
  <2>6. ASSUME NEW d \in drafts' PROVE Knows(d, d.base)
    <3>1. CASE d = draft
      BY <2>5, <3>1
    <3>2. ASSUME NEW r \in rest, d = [r EXCEPT !.age = d.age] PROVE Knows(d, d.base)
      <4>1. PICK old \in drafts : r = [old EXCEPT !.age = r.age]
        BY <2>2
      <4>2. r.base = old.base /\ r.seen = old.seen /\ r.from = old.from
        BY <1>1, <4>1 DEF Draft
      <4>3. d.base = r.base /\ d.seen = r.seen /\ d.from = r.from
        BY <2>2, <3>2 DEF Draft
      <4>4. Knows(old, old.base)
        BY DEF SaveInv
      <4>5. QED BY <4>2, <4>3, <4>4 DEF Knows
    <3>3. QED BY <2>4, <3>1, <3>2
  <2>7. SameSession(e, e) /\ tab' = [tab EXCEPT ![t] = e]
    BY <2>3 DEF SameSession, EditorTypes, EditorTypeOK
  <2>8. QED BY <1>1, <2>3, <2>6, <2>7, SameSessionKeeps
<1>3. ASSUME ListDrafts(t) PROVE SaveInv'
  <2>1. PICK offer \in drafts \cup {NoDraft} :
          /\ tab' = [tab EXCEPT ![t] = [e EXCEPT !.listing = FALSE, !.offer = offer]]
          /\ UNCHANGED <<stored, call, drafts, issued, published>>
    <3>1. PICK offer \in IF drafts = {} THEN {NoDraft} ELSE {d \in drafts : d.age = 0} :
            tab' = [tab EXCEPT ![t].listing = FALSE, ![t].offer = offer]
      BY <1>3 DEF ListDrafts
    <3>2. offer \in drafts \cup {NoDraft}
      OBVIOUS
    <3>3. tab' = [tab EXCEPT ![t] = [e EXCEPT !.listing = FALSE, !.offer = offer]]
      <4>1. tab \in [Tabs -> Editor] /\ e \in Editor
        BY DEF EditorTypes, EditorTypeOK
      <4>2. QED BY <3>1, <4>1 DEF Editor
    <3>4. QED BY <1>3, <3>2, <3>3 DEF ListDrafts
  <2>. DEFINE n == [e EXCEPT !.listing = FALSE, !.offer = offer]
  <2>2. n.offer = offer /\ n.from = e.from /\ n.seen = e.seen /\ n.base = e.base /\ n.op = e.op
        /\ n.open = e.open
    BY <1>1 DEF Editor
  <2>3. tab' = [tab EXCEPT ![t] = n]
    BY <2>1
  <2>. HIDE DEF n
  <2>4. t \in n.from /\ Knows(n, n.base) /\ (n.offer # NoDraft => Knows(n.offer, n.offer.base))
    BY <1>1, <2>2 DEF SaveInv, Informed, Knows
  <2>5. \A d \in drafts' : Knows(d, d.base)
    BY <2>1 DEF SaveInv
  <2>6. QED BY <1>1, <2>2, <2>3, <2>4, <2>5, TabStepKeeps
<1>4. ASSUME DiscardDraft(t) PROVE SaveInv'
  <2>. DEFINE n == [e EXCEPT !.offer = NoDraft]
  <2>1. tab' = [tab EXCEPT ![t] = n] /\ \E keys : drafts' = Without(drafts, keys)
    BY <1>4 DEF DiscardDraft
  <2>2. n.offer = NoDraft /\ n.from = e.from /\ n.seen = e.seen /\ n.base = e.base
        /\ n.op = e.op /\ n.open = e.open
    BY <1>1 DEF Editor
  <2>. HIDE DEF n
  <2>3. t \in n.from /\ Knows(n, n.base)
    BY <1>1, <2>2 DEF Informed, Knows
  <2>4. \A d \in drafts' : Knows(d, d.base)
    BY <2>1, FewerDraftsKnown
  <2>5. QED BY <1>1, <2>1, <2>2, <2>3, <2>4, TabStepKeeps
<1>5. QED BY <1>2, <1>3, <1>4

\* A save that starts.
Request(t, k) ==
    LET e == tab[t]
    IN  /\ k.stage = "sent" /\ k.tab = t /\ k.heard /\ ~k.edited /\ k.op = OperationId(e)
        /\ k.expected = e.base /\ k.snapshot = e.value /\ k.seen = e.seen /\ k.from = e.from
        /\ k.answer = "none"
        /\ k.payload = IF engine = "TEXT" THEN e.value ELSE Changed(e.value, e.baseline)
SaveStep(t, c, n) ==
    LET e == tab[t]
    IN  /\ tab' = [tab EXCEPT ![t] = n]
        /\ n.open = e.open /\ n.base = e.base /\ n.seen = e.seen /\ n.from = e.from
        /\ n.offer = e.offer /\ n.baseline = e.baseline /\ n.value = e.value
        /\ n.typed = e.typed /\ n.mixed = e.mixed
        /\ n.op = OperationId(e) /\ n.status = "saving" /\ n.last = c
        /\ n.reused = (e.reused \/ e.op # 0) /\ n.recording = (engine = "DOCUMENT")
        /\ n.commands = NoCommands
        /\ e.open /\ ~InUse(c) /\ Request(t, call'[c])
        /\ \A d \in Calls \ {c} : call'[d] = call[d]
        /\ n.op \in OpIds /\ issued' = IF n.op > issued THEN n.op ELSE issued
        /\ UNCHANGED <<scope, engine, stored, drafts, published>>

LEMMA SaveDoes ==
    ASSUME EditorTypes, NEW t \in Tabs, NEW c \in Calls, Save(t, c)
    PROVE  \E n \in Editor : SaveStep(t, c, n)
<1>. DEFINE e == tab[t]
            id == OperationId(e)
            reused == e.reused \/ e.op # 0
            recording == (engine = "DOCUMENT")
            payload == IF engine = "TEXT" THEN e.value ELSE Changed(e.value, e.baseline)
            new == [e EXCEPT !.status = "saving", !.op = id, !.last = c, !.reused = reused,
                             !.commands = NoCommands, !.recording = recording]
            sent == [IdleCall EXCEPT !.stage = "sent", !.tab = t, !.heard = TRUE, !.op = id,
                          !.expected = e.base, !.payload = payload, !.snapshot = e.value,
                          !.seen = e.seen, !.from = e.from]
<1>0. e.open /\ ~InUse(c)
  BY DEF Save, CanSave, InUse
<1>1. e \in Editor /\ tab \in [Tabs -> Editor] /\ call \in [Calls -> SaveCall]
  BY DEF EditorTypes, EditorTypeOK
<1>2. /\ tab' = [tab EXCEPT ![t] = new] /\ call' = [call EXCEPT ![c] = sent]
      /\ issued' = IF id > issued THEN id ELSE issued
      /\ UNCHANGED <<scope, engine, stored, drafts, published>> /\ id \in 1..scope.saves
  BY DEF Save
<1>3. id \in OpIds
  <2>1. scope.saves \in 0..MaxSaves
    BY EditorConstants DEF EditorTypes, EditorTypeOK
  <2>. HIDE DEF id
  <2>2. QED BY <1>2, <2>1, EditorConstants DEF OpIds
<1>4. tab'[t] \in Editor /\ tab'[t] = new
  BY <1>1, <1>2, SaveTyped DEF EditorTypes, EditorTypeOK
<1>5. Request(t, sent)
  <2>1. sent.stage = "sent" /\ sent.tab = t /\ sent.heard /\ sent.op = id
        /\ sent.expected = e.base /\ sent.snapshot = e.value /\ sent.seen = e.seen
        /\ sent.from = e.from /\ sent.payload = payload
        /\ ~sent.edited /\ sent.answer = "none"
    <3>. HIDE DEF e, id, payload
    <3>1. QED BY DEF IdleCall
  <2>. HIDE DEF sent
  <2>2. QED BY <2>1 DEF Request
<1>. HIDE DEF sent
<1>6. call'[c] = sent /\ \A d \in Calls \ {c} : call'[d] = call[d]
  BY <1>1, <1>2
<1>. HIDE DEF id, reused, recording
<1>7. /\ new.open = e.open /\ new.base = e.base /\ new.seen = e.seen /\ new.from = e.from
      /\ new.offer = e.offer /\ new.baseline = e.baseline /\ new.value = e.value
      /\ new.typed = e.typed /\ new.mixed = e.mixed
      /\ new.op = id /\ new.status = "saving" /\ new.last = c
      /\ new.reused = reused /\ new.recording = recording /\ new.commands = NoCommands
  <2>. HIDE DEF e
  <2>1. QED BY <1>1 DEF Editor
<1>. HIDE DEF new
<1>8. SaveStep(t, c, new)
  <2>1. new.reused = (e.reused \/ e.op # 0) /\ new.recording = (engine = "DOCUMENT")
        /\ new.op = OperationId(e)
    BY <1>7 DEF id, reused, recording
  <2>2. /\ new.op \in OpIds /\ issued' = IF new.op > issued THEN new.op ELSE issued
        /\ Request(t, call'[c])
    BY <1>2, <1>3, <1>5, <1>6, <1>7
  <2>3. QED BY <1>2, <1>6, <1>7, <1>0, <2>1, <2>2 DEF SaveStep
<1>9. QED BY <1>4, <1>8

LEMMA SaveSaves ==
    ASSUME EditorTypes, EditorTypes', SaveInv, NEW t \in Tabs, NEW c \in Calls, Save(t, c)
    PROVE  SaveInv'
<1>. DEFINE e == tab[t]
            id == OperationId(e)
<1>1. PICK n \in Editor : SaveStep(t, c, n)
  BY SaveDoes
<1>2. /\ tab'[t] = n /\ \A u \in Tabs \ {t} : tab'[u] = tab[u]
      /\ call'[c].stage = "sent" /\ call'[c].tab = t /\ call'[c].op = id
      /\ call'[c].expected = e.base /\ call'[c].seen = e.seen /\ call'[c].from = e.from
      /\ \A d \in Calls \ {c} : call'[d] = call[d]
      /\ n.op = id /\ id \in OpIds /\ issued' = IF id > issued THEN id ELSE issued
      /\ n.open /\ n.base = e.base /\ n.seen = e.seen /\ n.from = e.from /\ n.offer = e.offer
      /\ UNCHANGED <<scope, engine, stored, drafts, published>>
  BY <1>1 DEF SaveStep, Request, EditorTypes, EditorTypeOK
<1>3. /\ issued \in Nat /\ issued' \in Nat /\ issued <= issued' /\ id <= issued' /\ id \in Nat
      /\ id # 0 /\ (e.op # 0 => id = e.op) /\ (e.op = 0 => id = issued + 1)
  BY <1>2 DEF EditorTypes, EditorTypeOK, OpIds, OperationId
<1>. HIDE DEF id
<1>4. Informed(t) /\ OpFits(t)
  BY DEF SaveInv
<1>5. WroteAs(id, t)
  <2>1. CASE e.op = 0
    BY <1>2, <1>3, <2>1 DEF SaveInv, OpRowsFit, WroteAs, SettledRow
  <2>2. CASE e.op # 0
    BY <1>3, <1>4, <2>2 DEF OpFits
  <2>3. QED BY <2>1, <2>2
<1>6. \A d \in Calls : InUse(d) /\ call[d].op = id => call[d].tab = t
  <2>1. CASE e.op = 0
    <3>1. \A d \in Calls : InUse(d) => call[d].op <= issued /\ call[d].op \in Nat
      BY OpTyped DEF SaveInv, CallFits, OpIds
    <3>2. QED BY <1>3, <2>1, <3>1
  <2>2. CASE e.op # 0
    BY <1>3, <1>4, <2>2 DEF OpFits
  <2>3. QED BY <2>1, <2>2
<1>7. \A u \in Tabs \ {t} : tab[u].op # id
  <2>1. CASE e.op = 0
    <3>1. \A u \in Tabs : tab[u].op <= issued /\ tab[u].op \in Nat
      BY DEF SaveInv, OpFits, EditorTypes, EditorTypeOK, Editor, OpIds
    <3>2. QED BY <1>3, <2>1, <3>1
  <2>2. CASE e.op # 0
    BY <1>3, <1>4, <2>2 DEF OpFits
  <2>3. QED BY <2>1, <2>2
<1>8. OpRowsFit'
  <2>1. OpRowsFit /\ \A o \in OpIds : o \in Nat /\ (o > issued' => o > issued)
    BY <1>3 DEF SaveInv, OpIds
  <2>2. QED BY <1>2, <2>1 DEF OpRowsFit, Held, SettledRow
<1>9. ASSUME NEW d \in Calls, InUse(d)'
      PROVE  d = c \/ (InUse(d) /\ call'[d] = call[d])
  BY <1>2, <1>9 DEF InUse
<1>10. CallsApart'
  <2>. SUFFICES ASSUME NEW d \in Calls, NEW b \in Calls, InUse(d)', InUse(b)',
                       call'[d].op = call'[b].op
                PROVE  /\ call'[d].tab = call'[b].tab
                       /\ call'[d].stage \in {"begun", "written"}
                          /\ call'[b].stage \in {"begun", "written"} => d = b
    BY DEF CallsApart
  <2>1. CASE d = c \/ b = c
    <3>1. d # c => call[d].tab = t /\ call'[d] = call[d]
      BY <1>2, <1>6, <1>9, <2>1
    <3>2. b # c => call[b].tab = t /\ call'[b] = call[b]
      BY <1>2, <1>6, <1>9, <2>1
    <3>3. QED BY <1>2, <2>1, <3>1, <3>2
  <2>2. CASE d # c /\ b # c
    <3>1. InUse(d) /\ InUse(b) /\ call'[d] = call[d] /\ call'[b] = call[b]
      BY <1>9, <2>2
    <3>2. QED BY <3>1 DEF SaveInv, CallsApart
  <2>3. QED BY <2>1, <2>2
<1>11. ASSUME NEW d \in Calls PROVE CallFits(d)'
  <2>1. CASE d = c
    <3>1. t \in e.from /\ Knows(e, e.base)
      BY <1>4 DEF Informed
    <3>2. Knows(call[c], call[c].expected)'
      BY <1>2, <3>1 DEF Knows
    <3>3. WroteAs(call[c].op, call[c].tab)'
      BY <1>2, <1>5 DEF WroteAs, SettledRow
    <3>4. StageFits(c)'
      BY <1>2 DEF StageFits
    <3>5. QED BY <1>2, <1>3, <2>1, <3>1, <3>2, <3>3, <3>4 DEF CallFits
  <2>2. CASE d # c /\ InUse(d)'
    <3>1. CallFits(d) /\ InUse(d) /\ call'[d] = call[d]
      BY <1>9, <2>2 DEF SaveInv
    <3>2. call[d].op \in Nat
      BY OpTyped DEF OpIds
    <3>3. /\ Knows(call[d], call[d].expected)' /\ WroteAs(call[d].op, call[d].tab)'
          /\ StageFits(d)'
      BY <1>2, <3>1 DEF CallFits, Knows, WroteAs, StageFits, SettledRow, Held
    <3>4. call'[d].op <= issued' /\ call'[d].tab \in call'[d].from
      BY <1>3, <3>1, <3>2 DEF CallFits
    <3>5. QED BY <3>3, <3>4 DEF CallFits
  <2>3. QED BY <2>1, <2>2 DEF CallFits
<1>12. ASSUME NEW u \in Tabs PROVE Informed(u)' /\ LeavesNothing(u)'
  <2>1. CASE u = t
    BY <1>2, <1>4, <2>1 DEF Informed, Knows, LeavesNothing
  <2>2. CASE u # t
    <3>1. Informed(u) /\ LeavesNothing(u) /\ tab'[u] = tab[u]
      BY <1>2, <2>2 DEF SaveInv
    <3>2. Informed(u)'
      BY <1>2, <3>1 DEF Informed, Knows
    <3>3. \A d \in Calls : InUse(d)' /\ call'[d].tab = u /\ call'[d].heard => d \in InFlight(u)
      BY <1>2, <1>9, <2>2 DEF InFlight, InUse
    <3>4. LeavesNothing(u)'
      BY <3>1, <3>3 DEF LeavesNothing, InFlight, InUse
    <3>5. QED BY <3>2, <3>4
  <2>3. QED BY <2>1, <2>2
<1>13. ASSUME NEW u \in Tabs PROVE OpFits(u)'
  <2>1. CASE u = t
    <3>1. \A d \in Calls : InUse(d)' /\ call'[d].op = id => call'[d].tab = t
      BY <1>2, <1>6, <1>9
    <3>2. \A v \in Tabs \ {t} : tab'[v].op # id
      BY <1>2, <1>7
    <3>3. tab'[t].op = id
      BY <1>2
    <3>4. WroteAs(tab[t].op, t)'
      BY <1>2, <1>5, <3>3 DEF WroteAs, SettledRow
    <3>5. QED BY <1>3, <2>1, <3>1, <3>2, <3>3, <3>4 DEF OpFits
  <2>2. CASE u # t
    <3>1. tab'[u] = tab[u] /\ OpFits(u) /\ tab[u].op # id
      BY <1>2, <1>7, <2>2 DEF SaveInv
    <3>2. tab[u].op \in Nat
      BY DEF EditorTypes, EditorTypeOK, Editor, OpIds
    <3>3. tab'[u].op <= issued'
      BY <1>3, <3>1, <3>2 DEF OpFits
    <3>4. ASSUME tab'[u].op # 0
          PROVE  /\ WroteAs(tab[u].op, u)'
                 /\ \A d \in Calls : InUse(d)' /\ call'[d].op = tab'[u].op => call'[d].tab = u
                 /\ \A v \in Tabs \ {u} : tab'[v].op # tab'[u].op
      <4>1. WroteAs(tab[u].op, u)'
        BY <1>2, <3>1, <3>4 DEF OpFits, WroteAs, SettledRow
      <4>2. \A d \in Calls : InUse(d)' /\ call'[d].op = tab'[u].op => call'[d].tab = u
        BY <1>2, <1>9, <3>1, <3>4 DEF OpFits
      <4>3. \A v \in Tabs \ {u} : tab'[v].op # tab'[u].op
        BY <1>2, <3>1, <3>4 DEF OpFits
      <4>4. QED BY <4>1, <4>2, <4>3
    <3>5. QED BY <3>3, <3>4 DEF OpFits
  <2>3. QED BY <2>1, <2>2
<1>14. \A d \in drafts' : Knows(d, d.base)'
  BY <1>2 DEF SaveInv, Knows
<1>15. QED BY <1>8, <1>10, <1>11, <1>12, <1>13, <1>14 DEF SaveInv

-----------------------------------------------------------------------------
(* The steps of the server.                                                *)

FileStays ==
    /\ stored'.rev = stored.rev /\ stored'.content = stored.content
    /\ stored'.writer = stored.writer /\ stored'.since = stored.since
\* The same operations have written the file.
SettledSame ==
    \A o \in OpIds :
        /\ SettledRow(o)' <=> SettledRow(o)
        /\ SettledRow(o) => /\ stored'.ops[o].result = stored.ops[o].result
                            /\ stored'.ops[o].expected = stored.ops[o].expected
SameRequest(old, new) ==
    /\ new.tab = old.tab /\ new.op = old.op /\ new.expected = old.expected
    /\ new.payload = old.payload /\ new.snapshot = old.snapshot
    /\ new.seen = old.seen /\ new.from = old.from /\ new.heard = old.heard
    /\ new.edited = old.edited

\* A step that changes a row, and at most one request's stage.
LEMMA RowStepKeeps ==
    ASSUME EditorTypes, EditorTypes', SaveInv, UNCHANGED <<tab, drafts, issued, published>>,
           FileStays, SettledSame,
           \A o \in OpIds : o > issued => stored'.ops[o].status = "ABSENT",
           \A c \in Calls : SameRequest(call[c], call'[c]) /\ (InUse(c)' <=> InUse(c)),
           \A c \in Calls : InUse(c)' => StageFits(c)',
           \A c, d \in Calls :
              InUse(c)' /\ InUse(d)' /\ call'[c].op = call'[d].op
              /\ call'[c].stage \in {"begun", "written"} /\ call'[d].stage \in {"begun", "written"}
              => c = d
    PROVE  SaveInv'
<1>1. OpRowsFit'
  BY DEF SaveInv, OpRowsFit, FileStays, SettledSame, Held
<1>2. \A k, base : Knows(k, base) => /\ base <= stored'.rev
                                     /\ \A p \in Parts : stored'.since[p] <= base =>
                                           \/ stored'.content[p] \in k.seen[p]
                                           \/ stored'.writer[p] \in k.from
  BY DEF Knows, FileStays
<1>3. CallsApart'
  <2>1. \A c, d \in Calls : InUse(c)' /\ InUse(d)' /\ call'[c].op = call'[d].op
           => call'[c].tab = call'[d].tab
    BY DEF SaveInv, CallsApart, SameRequest
  <2>2. QED BY <2>1 DEF CallsApart
<1>4. ASSUME NEW c \in Calls PROVE CallFits(c)'
  <2>. SUFFICES ASSUME InUse(c)'
                PROVE  /\ (call[c].op <= issued)' /\ (call[c].tab \in call[c].from)'
                       /\ Knows(call[c], call[c].expected)' /\ WroteAs(call[c].op, call[c].tab)'
                       /\ StageFits(c)'
    BY DEF CallFits
  <2>1. CallFits(c) /\ InUse(c) /\ SameRequest(call[c], call'[c]) /\ call[c].op \in OpIds
    BY OpTyped DEF SaveInv
  <2>2. (call[c].op <= issued)' /\ (call[c].tab \in call[c].from)'
    BY <2>1 DEF CallFits, SameRequest
  <2>3. Knows(call[c], call[c].expected)'
    BY <2>1 DEF CallFits, SameRequest, Knows, FileStays
  <2>4. WroteAs(call[c].op, call[c].tab)'
    BY <2>1 DEF CallFits, SameRequest, WroteAs, FileStays, SettledSame
  <2>5. QED BY <2>2, <2>3, <2>4
<1>5. ASSUME NEW t \in Tabs PROVE Informed(t)' /\ OpFits(t)' /\ LeavesNothing(t)'
  <2>1. Informed(t) /\ OpFits(t) /\ LeavesNothing(t) /\ tab[t].op \in OpIds \cup {0}
    BY DEF SaveInv, EditorTypes, EditorTypeOK, Editor
  <2>2. Informed(t)'
    BY <2>1 DEF Informed, Knows, FileStays
  <2>3. OpFits(t)'
    <3>1. tab[t].op # 0 => WroteAs(tab[t].op, t)'
      BY <2>1 DEF OpFits, WroteAs, FileStays, SettledSame
    <3>2. \A c \in Calls : InUse(c)' => InUse(c) /\ call'[c].op = call[c].op
                                        /\ call'[c].tab = call[c].tab
      BY DEF SameRequest
    <3>3. QED BY <2>1, <3>1, <3>2 DEF OpFits
  <2>4. LeavesNothing(t)'
    BY <2>1 DEF LeavesNothing, InFlight, SameRequest, InUse
  <2>5. QED BY <2>2, <2>3, <2>4
<1>6. \A d \in drafts' : Knows(d, d.base)'
  BY DEF SaveInv, Knows, FileStays
<1>7. QED BY <1>1, <1>3, <1>4, <1>5, <1>6 DEF SaveInv

\* One request moves on.
Moves(c, k) ==
    /\ call' = [call EXCEPT ![c] = k] /\ SameRequest(call[c], k) /\ k.stage # "free"

LEMMA ReplyMoves ==
    ASSUME EditorTypes, NEW c \in Calls
    PROVE  /\ \A answer \in {"conflict", "failed"} : Reply(c, answer) =>
                 \E k \in SaveCall : /\ Moves(c, k) /\ k.stage = "answered" /\ k.answer = answer
           /\ ReplyOk(c) =>
                 \E k \in SaveCall : /\ Moves(c, k) /\ k.stage = "answered" /\ k.answer = "ok"
                                     /\ k.model = stored.content
                                     /\ k.rev = stored.ops[call[c].op].result
<1>1. call[c] \in SaveCall /\ call \in [Calls -> SaveCall]
  BY DEF EditorTypes, EditorTypeOK
<1>2. ASSUME NEW answer \in {"conflict", "failed"}, Reply(c, answer)
      PROVE  \E k \in SaveCall : /\ Moves(c, k) /\ k.stage = "answered" /\ k.answer = answer
  <2>. DEFINE k == [call[c] EXCEPT !.stage = "answered", !.answer = answer]
  <2>1. call' = [call EXCEPT ![c] = k]
    BY <1>2, ReplyTyped
  <2>2. k \in SaveCall /\ SameRequest(call[c], k) /\ k.stage = "answered" /\ k.answer = answer
    BY <1>1 DEF SaveCall, SameRequest
  <2>. HIDE DEF k
  <2>3. QED BY <2>1, <2>2 DEF Moves
<1>3. ASSUME ReplyOk(c)
      PROVE  \E k \in SaveCall : /\ Moves(c, k) /\ k.stage = "answered" /\ k.answer = "ok"
                                 /\ k.model = stored.content
                                 /\ k.rev = stored.ops[call[c].op].result
  <2>. DEFINE result == stored.ops[call[c].op].result
              k == [call[c] EXCEPT !.stage = "answered", !.answer = "ok",
                                   !.model = stored.content, !.rev = result]
  <2>1. call' = [call EXCEPT ![c] = k] /\ call' \in [Calls -> SaveCall]
    BY <1>3, ReplyOkTyped
  <2>2. k \in SaveCall
    BY <1>1, <2>1
  <2>. HIDE DEF result
  <2>3. SameRequest(call[c], k) /\ k.stage = "answered" /\ k.answer = "ok"
        /\ k.model = stored.content /\ k.rev = result
    BY <1>1 DEF SaveCall, SameRequest
  <2>. HIDE DEF k
  <2>4. QED BY <2>1, <2>2, <2>3 DEF Moves, result
<1>4. QED BY <1>2, <1>3

LEMMA MovesOne ==
    ASSUME EditorTypes, NEW c \in Calls, InUse(c), NEW k, Moves(c, k)
    PROVE  /\ \A d \in Calls : SameRequest(call[d], call'[d]) /\ (InUse(d)' <=> InUse(d))
           /\ call'[c] = k /\ \A d \in Calls \ {c} : call'[d] = call[d]
BY DEF Moves, SameRequest, InUse, EditorTypes, EditorTypeOK

\* Of requests that keep their stage and whose row changes as little.
LEMMA StagesKept ==
    ASSUME EditorTypes, SaveInv, SettledSame, UNCHANGED published, NEW d \in Calls, InUse(d),
           call'[d] = call[d], stored.ops[call[d].op].status = "PENDING" /\ call[d].stage = "begun"
                               => stored'.ops[call[d].op] = stored.ops[call[d].op]
    PROVE  StageFits(d)'
<1>1. CallFits(d) /\ call[d].op \in OpIds
  BY OpTyped DEF SaveInv
<1>2. StageFits(d)
  BY <1>1 DEF CallFits
<1>3. call'[d].stage = "begun" =>
        /\ stored'.ops[call'[d].op].status = "PENDING"
        /\ stored'.ops[call'[d].op].expected = call'[d].expected
  BY <1>2 DEF StageFits
<1>4. call'[d].stage = "written" =>
        SettledRow(call[d].op)' /\ stored'.ops[call'[d].op].expected = call'[d].expected
  BY <1>1, <1>2 DEF StageFits, SettledSame, SettledRow
<1>5. call'[d].stage = "answered" /\ call'[d].answer = "ok" =>
        /\ SettledRow(call[d].op)' /\ stored'.ops[call'[d].op].expected = call'[d].expected
        /\ call'[d].rev = stored'.ops[call'[d].op].result
        /\ \A p \in Parts : (call[d].model[p] \in Held)'
  BY <1>1, <1>2 DEF StageFits, SettledSame, SettledRow, Held
<1>6. QED BY <1>3, <1>4, <1>5 DEF StageFits

\* Where the file is as it was and one request moves on.
LEMMA OneMoves ==
    ASSUME EditorTypes, EditorTypes', SaveInv, UNCHANGED <<tab, drafts, issued, published>>,
           FileStays, SettledSame,
           \A o \in OpIds : o > issued => stored'.ops[o].status = "ABSENT",
           NEW c \in Calls, InUse(c), NEW k, Moves(c, k), StageFits(c)',
           \A d \in Calls \ {c} : InUse(d) /\ call[d].stage = "begun"
              => stored'.ops[call[d].op] = stored.ops[call[d].op],
           k.stage \in {"begun", "written"} =>
              \/ call[c].stage \in {"begun", "written"}
              \/ \A d \in Calls \ {c} : InUse(d) /\ call[d].stage \in {"begun", "written"}
                    => call[d].op # call[c].op
    PROVE  SaveInv'
<1>1. /\ \A d \in Calls : SameRequest(call[d], call'[d]) /\ (InUse(d)' <=> InUse(d))
      /\ call'[c] = k /\ \A d \in Calls \ {c} : call'[d] = call[d]
  BY MovesOne
<1>2. ASSUME NEW d \in Calls, InUse(d)' PROVE StageFits(d)'
  <2>1. CASE d = c
    BY <2>1
  <2>2. CASE d # c
    <3>1. InUse(d) /\ call'[d] = call[d]
      BY <1>1, <1>2, <2>2
    <3>2. QED BY <2>2, <3>1, StagesKept
  <2>3. QED BY <2>1, <2>2
<1>3. ASSUME NEW d \in Calls, NEW b \in Calls, InUse(d)', InUse(b)', call'[d].op = call'[b].op,
             call'[d].stage \in {"begun", "written"}, call'[b].stage \in {"begun", "written"},
             d # b
      PROVE  FALSE
  <2>1. InUse(d) /\ InUse(b) /\ call[d].op = call[b].op
    BY <1>1, <1>3 DEF SameRequest
  <2>2. \A a \in Calls \ {c} : call'[a].stage = call[a].stage
    BY <1>1
  <2>3. call'[c].stage = k.stage
    BY <1>1
  <2>4. CASE call[d].stage \in {"begun", "written"} /\ call[b].stage \in {"begun", "written"}
    BY <1>3, <2>1, <2>4 DEF SaveInv, CallsApart
  <2>5. CASE d = c
    BY <1>3, <2>1, <2>2, <2>3, <2>4, <2>5
  <2>6. CASE b = c
    BY <1>3, <2>1, <2>2, <2>3, <2>4, <2>6
  <2>7. QED BY <1>3, <2>2, <2>4, <2>5, <2>6
<1>4. QED BY <1>1, <1>2, <1>3, RowStepKeeps

LEMMA SetRowDoes ==
    ASSUME EditorTypes, NEW o \in OpIds, NEW status \in {"PROVIDER_WRITTEN", "COMPLETED", "FAILED"},
           SetRow(o, status)
    PROVE  /\ FileStays /\ \A p \in OpIds \ {o} : stored'.ops[p] = stored.ops[p]
           /\ stored'.ops[o].status = status
           /\ stored'.ops[o].expected = stored.ops[o].expected
           /\ stored'.ops[o].result = stored.ops[o].result
<1>1. stored.ops \in [OpIds -> OpRow]
  BY DEF EditorTypes, EditorTypeOK, Stored
<1>2. /\ stored'.ops = [stored.ops EXCEPT ![o] = [stored.ops[o] EXCEPT !.status = status]]
      /\ FileStays
  BY SetRowTyped DEF FileStays
<1>3. /\ stored'.ops[o] = [stored.ops[o] EXCEPT !.status = status]
      /\ \A p \in OpIds \ {o} : stored'.ops[p] = stored.ops[p]
  BY <1>1, <1>2
<1>4. QED BY <1>1, <1>2, <1>3 DEF OpRow

\* A row that keeps its file: it was settled and is, or was not and is not.
LEMMA RowsSettled ==
    ASSUME NEW o \in OpIds, \A p \in OpIds \ {o} : stored'.ops[p] = stored.ops[p],
           SettledRow(o)' <=> SettledRow(o),
           SettledRow(o) => /\ stored'.ops[o].result = stored.ops[o].result
                            /\ stored'.ops[o].expected = stored.ops[o].expected
    PROVE  SettledSame
BY DEF SettledSame, SettledRow

LEMMA OwnRow ==
    ASSUME EditorTypes, SaveInv, NEW c \in Calls, InUse(c)
    PROVE  /\ call[c].op \in OpIds /\ call[c].op <= issued /\ StageFits(c) /\ CallFits(c)
           /\ call[c].op \in Nat /\ issued \in Nat
           /\ \A o \in OpIds : o > issued => o # call[c].op /\ stored.ops[o].status = "ABSENT"
<1>1. call[c].op \in OpIds /\ call[c].op <= issued /\ StageFits(c) /\ CallFits(c)
  BY OpTyped DEF SaveInv, CallFits
<1>2. issued \in Nat /\ call[c].op \in Nat
  BY <1>1 DEF EditorTypes, EditorTypeOK, OpIds
<1>3. ASSUME NEW o \in OpIds, o > issued PROVE o # call[c].op /\ stored.ops[o].status = "ABSENT"
  <2>1. o \in Nat
    BY DEF OpIds
  <2>2. QED BY <1>1, <1>2, <1>3, <2>1 DEF SaveInv, OpRowsFit
<1>4. QED BY <1>1, <1>2, <1>3

LEMMA ReplaySaves ==
    ASSUME EditorTypes, EditorTypes', SaveInv, NEW c \in Calls,
           Replay(c) \/ Finish(c) \/ BreakOff(c)
    PROVE  SaveInv'
<1>. DEFINE o == call[c].op
<1>1. /\ UNCHANGED <<scope, engine, tab, drafts, issued, published>> /\ InUse(c)
      /\ \/ UNCHANGED stored /\ (Reply(c, "conflict") \/ Reply(c, "failed"))
         \/ /\ SetRow(o, "COMPLETED") /\ ReplyOk(c)
            /\ \/ call[c].stage = "written"
               \/ stored.ops[o].expected = call[c].expected /\ SettledRow(o)
  BY DEF Replay, Finish, BreakOff, InUse, SettledRow
<1>2. /\ o \in OpIds /\ o <= issued /\ StageFits(c)
      /\ \A p \in OpIds : p > issued => p # o /\ stored.ops[p].status = "ABSENT"
  BY <1>1, OwnRow
<1>3. CASE UNCHANGED stored /\ (Reply(c, "conflict") \/ Reply(c, "failed"))
  <2>1. PICK k \in SaveCall : /\ Moves(c, k) /\ k.stage = "answered"
                              /\ k.answer \in {"conflict", "failed"}
    BY <1>3, ReplyMoves
  <2>2. FileStays /\ SettledSame
    BY <1>3 DEF FileStays, SettledSame, SettledRow
  <2>3. call'[c] = k
    BY <1>1, <2>1, MovesOne
  <2>4. StageFits(c)'
    BY <2>1, <2>3 DEF StageFits
  <2>5. QED BY <1>1, <1>2, <1>3, <2>1, <2>2, <2>4, OneMoves
<1>4. CASE /\ SetRow(o, "COMPLETED") /\ ReplyOk(c)
           /\ \/ call[c].stage = "written"
              \/ stored.ops[o].expected = call[c].expected /\ SettledRow(o)
  <2>1. stored.ops[o].expected = call[c].expected /\ SettledRow(o)
    BY <1>2, <1>4 DEF StageFits
  <2>2. /\ FileStays /\ \A p \in OpIds \ {o} : stored'.ops[p] = stored.ops[p]
        /\ stored'.ops[o].status = "COMPLETED"
        /\ stored'.ops[o].expected = stored.ops[o].expected
        /\ stored'.ops[o].result = stored.ops[o].result
    BY <1>2, <1>4, SetRowDoes
  <2>3. PICK k \in SaveCall : /\ Moves(c, k) /\ k.stage = "answered" /\ k.answer = "ok"
                              /\ k.model = stored.content /\ k.rev = stored.ops[o].result
    BY <1>4, ReplyMoves
  <2>4. call'[c] = k /\ k.op = o /\ k.expected = call[c].expected
    BY <1>1, <2>3, MovesOne DEF Moves, SameRequest
  <2>. HIDE DEF o
  <2>5. SettledSame
    <3>1. \A p \in OpIds : (SettledRow(p)' <=> SettledRow(p)) /\
             (SettledRow(p) => /\ stored'.ops[p].result = stored.ops[p].result
                               /\ stored'.ops[p].expected = stored.ops[p].expected)
      BY <2>1, <2>2 DEF SettledRow
    <3>2. QED BY <3>1 DEF SettledSame
  <2>6. StageFits(c)'
    <3>1. \A p \in Parts : stored.content[p] \in Held
      BY DEF SaveInv, OpRowsFit
    <3>2. QED BY <1>1, <2>1, <2>2, <2>3, <2>4, <3>1 DEF StageFits, SettledRow, Held
  <2>7. \A d \in Calls \ {c} : InUse(d) /\ call[d].stage = "begun"
           => stored'.ops[call[d].op] = stored.ops[call[d].op]
    <3>1. ASSUME NEW d \in Calls \ {c}, InUse(d), call[d].stage = "begun"
          PROVE  stored'.ops[call[d].op] = stored.ops[call[d].op]
      <4>1. call[d].op \in OpIds /\ stored.ops[call[d].op].status = "PENDING"
        BY <3>1, OwnRow DEF StageFits
      <4>2. call[d].op # o
        BY <2>1, <4>1 DEF SettledRow
      <4>3. QED BY <2>2, <4>1, <4>2
    <3>2. QED BY <3>1
  <2>8. \A p \in OpIds : p > issued => stored'.ops[p].status = "ABSENT"
    BY <1>2, <2>2
  <2>9. QED BY <1>1, <2>2, <2>3, <2>5, <2>6, <2>7, <2>8, OneMoves
<1>5. QED BY <1>1, <1>3, <1>4

LEMMA BeginSaveSaves ==
    ASSUME EditorTypes, EditorTypes', SaveInv, NEW c \in Calls, BeginSave(c)
    PROVE  SaveInv'
<1>. DEFINE o == call[c].op
            row == [status |-> "PENDING", result |-> 0, expected |-> call[c].expected]
            k == [call[c] EXCEPT !.stage = "begun"]
<1>1. /\ UNCHANGED <<scope, engine, tab, drafts, issued, published>> /\ InUse(c)
      /\ stored.ops[o].status = "ABSENT"
  BY DEF BeginSave, InUse
<1>2. /\ o \in OpIds /\ o <= issued /\ stored.ops \in [OpIds -> OpRow]
      /\ call \in [Calls -> SaveCall] /\ call[c] \in SaveCall /\ stored \in Stored
      /\ \A p \in OpIds : p > issued => p # o /\ stored.ops[p].status = "ABSENT"
  BY <1>1, OwnRow, OpTyped DEF EditorTypes, EditorTypeOK
<1>3. CASE UNCHANGED stored /\ (Reply(c, "conflict") \/ Reply(c, "failed"))
  <2>1. PICK m \in SaveCall : /\ Moves(c, m) /\ m.stage = "answered"
                              /\ m.answer \in {"conflict", "failed"}
    BY <1>3, ReplyMoves
  <2>2. FileStays /\ SettledSame
    BY <1>3 DEF FileStays, SettledSame, SettledRow
  <2>3. call'[c] = m
    BY <1>1, <2>1, MovesOne
  <2>4. StageFits(c)'
    BY <2>1, <2>3 DEF StageFits
  <2>5. QED BY <1>1, <1>2, <1>3, <2>1, <2>2, <2>4, OneMoves
<1>4. CASE /\ stored' = [stored EXCEPT !.ops[o] = row]
           /\ call' = [call EXCEPT ![c] = k]
  <2>1. k.stage = "begun" /\ SameRequest(call[c], k)
    BY <1>2 DEF SaveCall, SameRequest
  <2>2. row.status = "PENDING" /\ row.expected = call[c].expected
    OBVIOUS
  <2>. HIDE DEF row, k
  <2>3. FileStays /\ stored'.ops = [stored.ops EXCEPT ![o] = row]
    BY <1>2, <1>4 DEF FileStays, Stored
  <2>4. stored'.ops[o] = row /\ \A p \in OpIds \ {o} : stored'.ops[p] = stored.ops[p]
    BY <1>2, <2>3
  <2>5. Moves(c, k) /\ call'[c] = k
    BY <1>2, <1>4, <2>1 DEF Moves
  <2>6. ASSUME NEW d \in Calls \ {c}, InUse(d), call[d].stage \in {"begun", "written"}
        PROVE  call[d].op # o /\ call[d].op \in OpIds
    <3>1. StageFits(d) /\ call[d].op \in OpIds
      BY <2>6, OwnRow
    <3>2. QED BY <1>1, <2>6, <3>1 DEF StageFits, SettledRow
  <2>7. k.op = o /\ k.expected = call[c].expected
    BY <2>1 DEF SameRequest
  <2>8. StageFits(c)'
    BY <2>1, <2>2, <2>4, <2>5, <2>7 DEF StageFits
  <2>. HIDE DEF o
  <2>9. SettledSame
    <3>1. ~SettledRow(o) /\ ~(stored'.ops[o].status \in {"PROVIDER_WRITTEN", "COMPLETED"})
      BY <1>1, <2>2, <2>4 DEF SettledRow
    <3>2. \A p \in OpIds : (SettledRow(p)' <=> SettledRow(p)) /\
             (SettledRow(p) => stored'.ops[p] = stored.ops[p])
      BY <2>4, <3>1 DEF SettledRow
    <3>3. QED BY <3>2 DEF SettledSame
  <2>10. \A p \in OpIds : p > issued => stored'.ops[p].status = "ABSENT"
    BY <1>2, <2>4
  <2>11. \A d \in Calls \ {c} : InUse(d) /\ call[d].stage = "begun"
            => stored'.ops[call[d].op] = stored.ops[call[d].op]
    BY <2>4, <2>6
  <2>12. QED BY <1>1, <2>1, <2>3, <2>5, <2>6, <2>8, <2>9, <2>10, <2>11, OneMoves DEF o
<1>5. \/ UNCHANGED stored /\ (Reply(c, "conflict") \/ Reply(c, "failed"))
      \/ /\ stored' = [stored EXCEPT !.ops[o] = row]
         /\ call' = [call EXCEPT ![c] = k]
  BY <1>2 DEF BeginSave
<1>6. QED BY <1>3, <1>4, <1>5

LEMMA ReconcileSaves ==
    ASSUME EditorTypes, EditorTypes', SaveInv, NEW o \in OpIds, Reconcile(o)
    PROVE  SaveInv'
<1>1. /\ SetRow(o, "COMPLETED") /\ stored.ops[o].status = "PROVIDER_WRITTEN"
      /\ UNCHANGED <<tab, call, drafts, issued, published>>
  BY DEF Reconcile
<1>2. /\ FileStays /\ \A p \in OpIds \ {o} : stored'.ops[p] = stored.ops[p]
      /\ stored'.ops[o].status = "COMPLETED"
      /\ stored'.ops[o].expected = stored.ops[o].expected
      /\ stored'.ops[o].result = stored.ops[o].result
  BY <1>1, SetRowDoes
<1>3. SettledSame
  BY <1>1, <1>2, RowsSettled DEF SettledRow
<1>4. \A p \in OpIds : p > issued => stored'.ops[p].status = "ABSENT"
  BY <1>1, <1>2 DEF SaveInv, OpRowsFit
<1>5. \A c \in Calls : SameRequest(call[c], call'[c]) /\ (InUse(c)' <=> InUse(c))
  BY <1>1 DEF SameRequest, InUse
<1>6. ASSUME NEW c \in Calls, InUse(c)' PROVE StageFits(c)'
  <2>1. InUse(c) /\ call'[c] = call[c]
    BY <1>1, <1>6 DEF InUse
  <2>2. call[c].op \in OpIds /\ StageFits(c)
    BY <2>1, OwnRow
  <2>3. stored.ops[call[c].op].status = "PENDING" =>
          stored'.ops[call[c].op] = stored.ops[call[c].op]
    BY <1>1, <1>2, <2>2
  <2>4. QED BY <1>1, <1>3, <2>1, <2>3, StagesKept
<1>7. \A c, d \in Calls :
         InUse(c)' /\ InUse(d)' /\ call'[c].op = call'[d].op
         /\ call'[c].stage \in {"begun", "written"} /\ call'[d].stage \in {"begun", "written"}
         => c = d
  BY <1>1 DEF SaveInv, CallsApart, InUse
<1>8. QED BY <1>1, <1>2, <1>3, <1>4, <1>5, <1>6, <1>7, RowStepKeeps

\* The file is replaced: whatever was there is as old as it was, or the call's.
FileMoves(k) ==
    /\ stored'.rev = stored.rev + 1
    /\ stored'.content = Over(stored.content, k.payload)
    /\ \A p \in Parts :
          IF p \in DOMAIN k.payload
          THEN stored'.since[p] = stored.rev + 1 /\ stored'.writer[p] = k.tab
          ELSE stored'.since[p] = stored.since[p] /\ stored'.writer[p] = stored.writer[p]
    /\ \A o \in OpIds \ {k.op} : stored'.ops[o] = stored.ops[o]

\* Where a write succeeds.
WriteStep(c, m) ==
    LET k == call[c]
        row == stored'.ops[k.op]
    IN  /\ stored.rev = k.expected /\ FileMoves(k) /\ Moves(c, m)
        /\ published' = published \cup {Over(stored.content, k.payload)[p] : p \in Parts}
        /\ \/ /\ m.stage = "written" /\ row.status = "PROVIDER_WRITTEN"
              /\ row.result = stored.rev + 1 /\ row.expected = stored.ops[k.op].expected
           \/ m.stage = "answered" /\ m.answer = "failed" /\ row = stored.ops[k.op]

LEMMA WriteMoves ==
    ASSUME EditorTypes, NEW c \in Calls, Write(c)
    PROVE  /\ call[c].stage = "begun" /\ UNCHANGED <<scope, engine, tab, drafts, issued>>
           /\ \/ \E m \in SaveCall : WriteStep(c, m)
              \/ /\ stored.rev # call[c].expected /\ UNCHANGED published
                 /\ SetRow(call[c].op, "FAILED") /\ Reply(c, "conflict")
<1>. DEFINE k == call[c]
            row == [stored.ops[k.op] EXCEPT !.status = "PROVIDER_WRITTEN",
                                            !.result = stored.rev + 1]
            m == [k EXCEPT !.stage = "written"]
            done == [WrittenBy(k) EXCEPT !.ops = [stored.ops EXCEPT ![k.op] = row]]
            made == published' = published \cup {Over(stored.content, k.payload)[p] : p \in Parts}
<1>1. k \in SaveCall /\ k.op \in OpIds /\ stored \in Stored /\ stored.ops \in [OpIds -> OpRow]
      /\ stored.ops[k.op] \in OpRow /\ call \in [Calls -> SaveCall]
  BY OpTyped DEF EditorTypes, EditorTypeOK
<1>2. /\ WrittenBy(k) \in Stored /\ WrittenBy(k).rev = stored.rev + 1
      /\ WrittenBy(k).content = Over(stored.content, k.payload)
      /\ WrittenBy(k).ops = stored.ops
      /\ \A p \in Parts :
            /\ WrittenBy(k).writer[p] = IF p \in DOMAIN k.payload THEN k.tab ELSE stored.writer[p]
            /\ WrittenBy(k).since[p] = IF p \in DOMAIN k.payload THEN stored.rev + 1
                                       ELSE stored.since[p]
  BY <1>1, WrittenByTyped
<1>3. /\ k.stage = "begun" /\ row \in OpRow
      /\ \/ /\ stored.rev = k.expected /\ made
            /\ \/ call' = [call EXCEPT ![c] = m] /\ stored' = done
               \/ stored' = WrittenBy(k) /\ Reply(c, "failed")
         \/ /\ stored.rev # k.expected /\ UNCHANGED published
            /\ SetRow(k.op, "FAILED") /\ Reply(c, "conflict")
  BY WriteDoes
<1>4. row.status = "PROVIDER_WRITTEN" /\ row.result = stored.rev + 1
      /\ row.expected = stored.ops[k.op].expected
  BY <1>1 DEF OpRow
<1>5. m \in SaveCall /\ m.stage = "written" /\ SameRequest(k, m)
  BY <1>1 DEF SaveCall, SameRequest
<1>. HIDE DEF row, m
<1>6. /\ done.rev = WrittenBy(k).rev /\ done.content = WrittenBy(k).content
      /\ done.writer = WrittenBy(k).writer /\ done.since = WrittenBy(k).since
      /\ done.ops = [stored.ops EXCEPT ![k.op] = row]
  BY <1>2 DEF Stored
<1>7. done.ops[k.op] = row /\ \A o \in OpIds \ {k.op} : done.ops[o] = stored.ops[o]
  BY <1>1, <1>6
<1>8. CASE stored.rev = k.expected /\ made /\ call' = [call EXCEPT ![c] = m] /\ stored' = done
  <2>. HIDE DEF done
  <2>1. FileMoves(k)
    BY <1>2, <1>6, <1>7, <1>8 DEF FileMoves
  <2>2. Moves(c, m)
    BY <1>5, <1>8 DEF Moves
  <2>3. WriteStep(c, m)
    BY <1>4, <1>5, <1>7, <1>8, <2>1, <2>2 DEF WriteStep
  <2>4. QED BY <1>3, <1>5, <2>3 DEF Write
<1>9. CASE stored.rev = k.expected /\ made /\ stored' = WrittenBy(k) /\ Reply(c, "failed")
  <2>1. FileMoves(k) /\ stored'.ops[k.op] = stored.ops[k.op]
    BY <1>2, <1>9 DEF FileMoves
  <2>2. PICK n \in SaveCall : Moves(c, n) /\ n.stage = "answered" /\ n.answer = "failed"
    BY <1>9, ReplyMoves
  <2>3. WriteStep(c, n)
    BY <1>9, <2>1, <2>2 DEF WriteStep
  <2>4. QED BY <1>3, <2>3 DEF Write
<1>10. CASE /\ stored.rev # k.expected /\ UNCHANGED published
            /\ SetRow(k.op, "FAILED") /\ Reply(c, "conflict")
  BY <1>3, <1>10 DEF Write
<1>11. QED BY <1>3, <1>8, <1>9, <1>10

LEMMA WriteRefusedSaves ==
    ASSUME EditorTypes, EditorTypes', SaveInv, NEW c \in Calls, call[c].stage = "begun",
           UNCHANGED <<tab, drafts, issued, published>>,
           SetRow(call[c].op, "FAILED"), Reply(c, "conflict")
    PROVE  SaveInv'
<1>. DEFINE o == call[c].op
<1>1. InUse(c) /\ o \in OpIds /\ stored.ops[o].status = "PENDING"
      /\ \A p \in OpIds : p > issued => p # o /\ stored.ops[p].status = "ABSENT"
  BY OwnRow DEF InUse, StageFits
<1>2. /\ FileStays /\ \A p \in OpIds \ {o} : stored'.ops[p] = stored.ops[p]
      /\ stored'.ops[o].status = "FAILED"
  BY <1>1, SetRowDoes
<1>3. PICK k \in SaveCall : Moves(c, k) /\ k.stage = "answered" /\ k.answer = "conflict"
  BY ReplyMoves
<1>4. call'[c] = k
  BY <1>1, <1>3, MovesOne
<1>5. StageFits(c)'
  BY <1>3, <1>4 DEF StageFits
<1>6. ASSUME NEW d \in Calls \ {c}, InUse(d), call[d].stage = "begun"
      PROVE  stored'.ops[call[d].op] = stored.ops[call[d].op]
  <2>1. call[d].op # o
    BY <1>1, <1>6 DEF SaveInv, CallsApart
  <2>2. QED BY <1>2, <1>6, <2>1, OwnRow
<1>. HIDE DEF o
<1>7. SettledSame
  <2>1. \A p \in OpIds : (SettledRow(p)' <=> SettledRow(p)) /\
           (SettledRow(p) => stored'.ops[p] = stored.ops[p])
    BY <1>1, <1>2 DEF SettledRow
  <2>2. QED BY <2>1 DEF SettledSame
<1>8. \A p \in OpIds : p > issued => stored'.ops[p].status = "ABSENT"
  BY <1>1, <1>2
<1>9. QED BY <1>1, <1>2, <1>3, <1>5, <1>6, <1>7, <1>8, OneMoves

KnowsAfter(k, base) ==
    /\ base <= stored'.rev
    /\ \A p \in Parts : stored'.since[p] <= base =>
          stored'.content[p] \in k.seen[p] \/ stored'.writer[p] \in k.from

LEMMA WriteDoneSaves ==
    ASSUME EditorTypes, EditorTypes', SaveInv, NEW c \in Calls, call[c].stage = "begun",
           UNCHANGED <<tab, drafts, issued>>, NEW m \in SaveCall, WriteStep(c, m)
    PROVE  SaveInv'
<1>. DEFINE k == call[c]
            o == call[c].op
<1>1. InUse(c) /\ o \in OpIds /\ stored.ops[o].status = "PENDING"
      /\ stored.ops[o].expected = k.expected
      /\ \A p \in OpIds : p > issued => p # o /\ stored.ops[p].status = "ABSENT"
  BY OwnRow DEF InUse, StageFits
<1>2. /\ stored.rev = k.expected /\ FileMoves(k) /\ Moves(c, m)
      /\ published' = published \cup {Over(stored.content, k.payload)[p] : p \in Parts}
      /\ \/ /\ m.stage = "written" /\ stored'.ops[o].status = "PROVIDER_WRITTEN"
            /\ stored'.ops[o].result = stored.rev + 1
            /\ stored'.ops[o].expected = stored.ops[o].expected
         \/ m.stage = "answered" /\ m.answer = "failed" /\ stored'.ops[o] = stored.ops[o]
  BY DEF WriteStep
<1>3. /\ stored.rev \in Nat /\ \A p \in Parts : stored.since[p] \in Nat
      /\ \A p \in OpIds : stored.ops[p].result \in Nat
      /\ k.payload \in PatchOf(Value) /\ k.expected \in Nat
  BY OpTyped DEF EditorTypes, EditorTypeOK, Stored, OpRow, SaveCall
<1>4. OpRowsFit /\ \A p \in Parts : stored.since[p] <= stored.rev
  BY DEF SaveInv, OpRowsFit
<1>5. ASSUME NEW p \in Parts
      PROVE  IF p \in DOMAIN k.payload
             THEN stored'.since[p] = stored.rev + 1 /\ stored'.writer[p] = k.tab
             ELSE /\ stored'.since[p] = stored.since[p] /\ stored'.writer[p] = stored.writer[p]
                  /\ stored'.content[p] = stored.content[p]
  BY <1>2 DEF FileMoves, Over
<1>6. \A p \in Parts : stored'.content[p] = Over(stored.content, k.payload)[p]
  BY <1>2 DEF FileMoves
<1>7. stored'.rev = stored.rev + 1 /\ \A p \in OpIds \ {o} : stored'.ops[p] = stored.ops[p]
  BY <1>2 DEF FileMoves
<1>8. /\ \A d \in Calls : SameRequest(call[d], call'[d]) /\ (InUse(d)' <=> InUse(d))
      /\ call'[c] = m /\ \A d \in Calls \ {c} : call'[d] = call[d]
  BY <1>1, <1>2, MovesOne
<1>9. Held \subseteq Held'
  BY <1>2 DEF Held
<1>10. ASSUME NEW p \in Parts PROVE (stored.content[p] \in Held)' /\ stored'.since[p] <= stored'.rev
  <2>1. stored'.content[p] \in published'
    BY <1>2, <1>6
  <2>2. stored'.since[p] <= stored'.rev
    BY <1>3, <1>4, <1>5, <1>7
  <2>3. QED BY <2>1, <2>2 DEF Held
<1>11. ASSUME NEW i, NEW base \in Nat, Knows(i, base) PROVE KnowsAfter(i, base)
  <2>1. base <= stored'.rev
    BY <1>3, <1>7, <1>11 DEF Knows
  <2>2. ASSUME NEW p \in Parts, stored'.since[p] <= base
        PROVE  stored'.content[p] \in i.seen[p] \/ stored'.writer[p] \in i.from
    <3>1. p \notin DOMAIN k.payload
      BY <1>3, <1>5, <1>11, <2>2 DEF Knows
    <3>2. QED BY <1>5, <1>11, <2>2, <3>1 DEF Knows
  <2>3. QED BY <2>1, <2>2 DEF KnowsAfter
<1>12. ASSUME NEW p \in OpIds, SettledRow(p)'
       PROVE  /\ p # o => SettledRow(p) /\ stored'.ops[p] = stored.ops[p]
              /\ stored'.ops[p].result = stored'.ops[p].expected + 1
              /\ stored'.ops[p].result <= stored'.rev
              /\ p = o => stored'.ops[p].result = stored.rev + 1
                          /\ stored'.ops[p].expected = k.expected
  <2>1. CASE p = o
    BY <1>1, <1>2, <1>3, <1>7, <1>12, <2>1 DEF SettledRow
  <2>2. CASE p # o
    <3>1. SettledRow(p) /\ stored'.ops[p] = stored.ops[p]
      BY <1>7, <1>12, <2>2 DEF SettledRow
    <3>2. stored.ops[p].result = stored.ops[p].expected + 1 /\ stored.ops[p].result <= stored.rev
      BY <1>4, <3>1 DEF OpRowsFit
    <3>3. QED BY <1>3, <1>7, <2>2, <3>1, <3>2
  <2>3. QED BY <2>1, <2>2
<1>13. OpRowsFit'
  <2>1. \A p \in OpIds : p > issued => stored'.ops[p].status = "ABSENT"
    BY <1>1, <1>7
  <2>2. QED BY <1>10, <1>12, <2>1 DEF OpRowsFit
<1>14. ASSUME NEW p \in OpIds, NEW t \in Tabs, p = o \/ WroteAs(p, t), p = o => t = k.tab
       PROVE  WroteAs(p, t)'
  <2>. SUFFICES ASSUME SettledRow(p)', NEW q \in Parts, stored'.since[q] = stored'.ops[p].result
                PROVE  stored'.writer[q] = t
    BY DEF WroteAs
  <2>1. CASE p = o
    BY <1>3, <1>4, <1>5, <1>12, <1>14, <2>1
  <2>2. CASE p # o
    <3>1. SettledRow(p) /\ stored'.ops[p] = stored.ops[p] /\ stored.ops[p].result <= stored.rev
      BY <1>4, <1>12, <2>2 DEF OpRowsFit
    <3>2. q \notin DOMAIN k.payload
      BY <1>3, <1>5, <3>1
    <3>3. QED BY <1>5, <1>14, <2>2, <3>1, <3>2 DEF WroteAs
  <2>3. QED BY <2>1, <2>2
<1>15. CallsApart'
  <2>. SUFFICES ASSUME NEW d \in Calls, NEW b \in Calls, InUse(d)', InUse(b)',
                       call'[d].op = call'[b].op
                PROVE  /\ call'[d].tab = call'[b].tab
                       /\ call'[d].stage \in {"begun", "written"}
                          /\ call'[b].stage \in {"begun", "written"} => d = b
    BY DEF CallsApart
  <2>1. InUse(d) /\ InUse(b) /\ call[d].op = call[b].op
        /\ call'[d].tab = call[d].tab /\ call'[b].tab = call[b].tab
    BY <1>8 DEF SameRequest
  <2>2. /\ call'[d].stage \in {"begun", "written"} => call[d].stage \in {"begun", "written"}
        /\ call'[b].stage \in {"begun", "written"} => call[b].stage \in {"begun", "written"}
    BY <1>8
  <2>3. QED BY <2>1, <2>2 DEF SaveInv, CallsApart
<1>16. ASSUME NEW d \in Calls PROVE CallFits(d)'
  <2>. SUFFICES ASSUME InUse(d)'
                PROVE  /\ (call[d].op <= issued)' /\ (call[d].tab \in call[d].from)'
                       /\ Knows(call[d], call[d].expected)' /\ WroteAs(call[d].op, call[d].tab)'
                       /\ StageFits(d)'
    BY DEF CallFits
  <2>1. CallFits(d) /\ InUse(d) /\ SameRequest(call[d], call'[d]) /\ call[d].op \in OpIds
        /\ call[d].expected \in Nat /\ StageFits(d)
    BY <1>8, OpTyped, OwnRow DEF SaveInv, SaveCall
  <2>2. (call[d].op <= issued)' /\ (call[d].tab \in call[d].from)'
    BY <2>1 DEF CallFits, SameRequest
  <2>3. Knows(call[d], call[d].expected)'
    <3>1. KnowsAfter(call[d], call[d].expected)
      BY <1>11, <2>1 DEF CallFits
    <3>2. QED BY <2>1, <3>1 DEF SameRequest, Knows, KnowsAfter
  <2>4. WroteAs(call[d].op, call[d].tab)'
    <3>. DEFINE p == call[d].op
                t == call[d].tab
    <3>1. p = o => t = k.tab
      BY <1>1, <2>1 DEF SaveInv, CallsApart
    <3>2. WroteAs(p, t)
      BY <2>1 DEF CallFits
    <3>3. p = call'[d].op /\ t = call'[d].tab /\ p \in OpIds /\ t \in Tabs
      BY <2>1, OpTyped DEF SameRequest, SaveCall
    <3>4. \A q \in OpIds, u \in Tabs : 
            (q = o \/ WroteAs(q, u)) /\ (q = o => u = k.tab) => WroteAs(q, u)'
      BY <1>14
    <3>. HIDE DEF p, t
    <3>5. PICK q \in OpIds, u \in Tabs : q = p /\ u = t
      BY <3>3
    <3>6. WroteAs(q, u)'
      BY <3>1, <3>2, <3>4, <3>5
    <3>7. QED BY <3>3, <3>5, <3>6 DEF WroteAs, SettledRow
  <2>5. StageFits(d)'
    <3>1. CASE d = c
      BY <1>1, <1>2, <1>8, <3>1 DEF StageFits, SettledRow, Moves, SameRequest
    <3>2. CASE d # c
      <4>1. call'[d] = call[d]
        BY <1>8, <3>2
      <4>2. call[d].stage \in {"begun", "written"}
            \/ (call[d].stage = "answered" /\ call[d].answer = "ok")
            => call[d].op # o
        BY <1>1, <2>1, <3>2 DEF StageFits, SettledRow, SaveInv, CallsApart
      <4>3. call[d].op # o => stored'.ops[call[d].op] = stored.ops[call[d].op]
        BY <1>7, <2>1
      <4>4. QED BY <1>9, <2>1, <4>1, <4>2, <4>3 DEF StageFits, SettledRow
    <3>3. QED BY <3>1, <3>2
  <2>6. QED BY <2>2, <2>3, <2>4, <2>5
<1>17. ASSUME NEW t \in Tabs PROVE Informed(t)' /\ OpFits(t)' /\ LeavesNothing(t)'
  <2>1. /\ Informed(t) /\ OpFits(t) /\ LeavesNothing(t) /\ tab[t].op \in OpIds \cup {0}
        /\ tab[t].base \in Nat /\ (tab[t].offer # NoDraft => tab[t].offer.base \in Nat)
    BY DEF SaveInv, EditorTypes, EditorTypeOK, Editor, Draft
  <2>2. Informed(t)'
    <3>1. t \in tab[t].from /\ KnowsAfter(tab[t], tab[t].base)
          /\ (tab[t].offer # NoDraft => KnowsAfter(tab[t].offer, tab[t].offer.base))
      BY <1>11, <2>1 DEF Informed
    <3>2. QED BY <3>1 DEF Informed, Knows, KnowsAfter
  <2>3. OpFits(t)'
    <3>1. ASSUME tab[t].op # 0 PROVE WroteAs(tab[t].op, t)'
      <4>. DEFINE p == tab[t].op
      <4>1. p \in OpIds /\ WroteAs(p, t) /\ (p = o => t = k.tab) /\ p = tab'[t].op
        BY <1>1, <2>1, <3>1 DEF OpFits
      <4>2. \A q \in OpIds : (q = o \/ WroteAs(q, t)) /\ (q = o => t = k.tab) => WroteAs(q, t)'
        BY <1>14
      <4>. HIDE DEF p
      <4>3. PICK q \in OpIds : q = p
        BY <4>1
      <4>4. WroteAs(q, t)'
        BY <4>1, <4>2, <4>3
      <4>5. QED BY <4>1, <4>3, <4>4 DEF WroteAs, SettledRow
    <3>2. \A d \in Calls : InUse(d)' => InUse(d) /\ call'[d].op = call[d].op
                                        /\ call'[d].tab = call[d].tab
      BY <1>8 DEF SameRequest
    <3>3. QED BY <2>1, <3>1, <3>2 DEF OpFits
  <2>4. LeavesNothing(t)'
    BY <1>8, <2>1 DEF LeavesNothing, InFlight, SameRequest, InUse
  <2>5. QED BY <2>2, <2>3, <2>4
<1>18. ASSUME NEW d \in drafts' PROVE Knows(d, d.base)'
  <2>1. Knows(d, d.base) /\ d.base \in Nat
    BY DEF SaveInv, EditorTypes, EditorTypeOK, Draft
  <2>2. KnowsAfter(d, d.base)
    BY <1>11, <2>1
  <2>3. QED BY <2>2 DEF Knows, KnowsAfter
<1>19. QED BY <1>13, <1>15, <1>16, <1>17, <1>18 DEF SaveInv

-----------------------------------------------------------------------------
(* The answer.                                                             *)

\* The tab of a request that is heard is open.
LEMMA HeardInOpenTab ==
    ASSUME EditorTypes, SaveInv, NEW c \in Calls, InUse(c), call[c].heard
    PROVE  call[c].tab \in Tabs /\ tab[call[c].tab].open /\ c \in InFlight(call[c].tab)
<1>1. call[c].tab \in Tabs /\ c \in InFlight(call[c].tab)
  BY OpTyped DEF InFlight, InUse
<1>2. LeavesNothing(call[c].tab)
  BY <1>1 DEF SaveInv
<1>3. QED BY <1>1, <1>2 DEF LeavesNothing

\* An editor that takes the answer of a save knows the file as that save left it.
LEMMA AnswerKnows ==
    ASSUME EditorTypes, SaveInv, NEW c \in Calls,
           call[c].stage = "answered", call[c].answer = "ok", NEW n,
           \A p \in Parts : call[c].seen[p] \subseteq n.seen[p], call[c].from \subseteq n.from
    PROVE  Knows(n, call[c].rev)
<1>. DEFINE k == call[c]
            o == call[c].op
<1>1. /\ SettledRow(o) /\ stored.ops[o].expected = k.expected /\ k.rev = stored.ops[o].result
      /\ o \in OpIds /\ k.tab \in k.from /\ Knows(k, k.expected) /\ WroteAs(o, k.tab)
  BY OwnRow DEF InUse, StageFits, CallFits
<1>2. k.rev = k.expected + 1 /\ k.rev <= stored.rev
  BY <1>1 DEF SaveInv, OpRowsFit
<1>3. k.expected \in Nat /\ \A p \in Parts : stored.since[p] \in Nat
  BY OpTyped DEF SaveCall, Stored
<1>4. ASSUME NEW p \in Parts, stored.since[p] <= k.rev
      PROVE  stored.content[p] \in n.seen[p] \/ stored.writer[p] \in n.from
  <2>1. CASE stored.since[p] <= k.expected
    <3>1. stored.content[p] \in k.seen[p] \/ stored.writer[p] \in k.from
      BY <1>1, <2>1 DEF Knows
    <3>2. QED BY <3>1
  <2>2. CASE stored.since[p] = stored.ops[o].result
    BY <1>1, <2>2 DEF WroteAs
  <2>3. QED BY <1>1, <1>2, <1>3, <1>4, <2>1, <2>2
<1>5. QED BY <1>2, <1>4 DEF Knows

LEMMA TakeAnswerSaves ==
    ASSUME EditorTypes, EditorTypes', SaveInv, NEW c \in Calls, TakeAnswer(c)
    PROVE  SaveInv'
<1>. DEFINE k == call[c]
            t == call[c].tab
            e == tab[t]
            n == AnsweredBy(e, c)
<1>1. /\ k.stage = "answered" /\ k.answer = "ok" /\ k.heard
      /\ UNCHANGED <<scope, engine, stored, issued, published>>
  BY DEF TakeAnswer
<1>2. t \in Tabs /\ e.open /\ e \in Editor
  BY <1>1, HeardInOpenTab DEF InUse, EditorTypes, EditorTypeOK
<1>3. /\ n.op = 0 /\ n.base = k.rev /\ n.open = e.open /\ n.offer = e.offer
      /\ n.from = e.from \cup k.from /\ \A p \in Parts : n.seen[p] = e.seen[p] \cup k.seen[p]
  BY <1>2, AnsweredIs DEF SameUser
<1>4. /\ FreedTypes(c, call') /\ tab' = [tab EXCEPT ![t] = n]
      /\ \E keys : drafts' = Without(drafts, keys)
  BY TakeAnswerTyped
<1>. HIDE DEF n
<1>5. Knows(n, n.base)
  BY <1>1, <1>3, AnswerKnows
<1>6. t \in n.from /\ (n.offer # NoDraft => Knows(n.offer, n.offer.base))
  BY <1>2, <1>3 DEF SaveInv, Informed
<1>7. CallsKept /\ \A d \in drafts' : Knows(d, d.base)
  BY <1>4, CallsAreKept, FewerDraftsKnown
<1>8. QED BY <1>1, <1>2, <1>3, <1>4, <1>5, <1>6, <1>7, TabStepKeeps

LEMMA TakeFailureSaves ==
    ASSUME EditorTypes, EditorTypes', SaveInv, NEW c \in Calls, TakeFailure(c)
    PROVE  SaveInv'
<1>. DEFINE t == call[c].tab
            e == tab[t]
<1>1. call[c].heard /\ InUse(c)
  BY DEF TakeFailure, InUse
<1>2. t \in Tabs /\ e.open /\ e \in Editor
  BY <1>1, HeardInOpenTab DEF EditorTypes, EditorTypeOK
<1>3. PICK status \in {"failed", "conflict"} : tab' = [tab EXCEPT ![t] = FailedBy(e, c, status)]
  BY TakeFailureTyped
<1>. DEFINE n == FailedBy(e, c, status)
<1>4. /\ n \in Editor /\ n.op = e.op /\ n.base = e.base /\ SameUser(e, n) /\ n.seen = e.seen
      /\ n.from = e.from
  BY <1>2, FailedIs
<1>5. tab' = [tab EXCEPT ![t] = n]
  BY <1>3
<1>. HIDE DEF n
<1>6. SameSession(e, n)
  BY <1>4 DEF SameSession, SameUser
<1>7. /\ FreedTypes(c, call') \/ call' = [call EXCEPT ![c] = [call[c] EXCEPT !.heard = FALSE]]
      /\ UNCHANGED <<scope, engine, stored, drafts, issued, published>>
  BY TakeFailureTyped
<1>8. CallsKept /\ \A d \in drafts' : Knows(d, d.base)
  BY <1>7, CallsAreKept DEF SaveInv
<1>9. QED BY <1>2, <1>4, <1>5, <1>6, <1>7, <1>8, SameSessionKeeps

LEMMA VanishSaves ==
    ASSUME EditorTypes, EditorTypes', SaveInv, NEW c \in Calls, Vanish(c)
    PROVE  SaveInv'
<1>1. UNCHANGED <<stored, tab, drafts, issued, published>> /\ FreedTypes(c, call')
  BY VanishTyped DEF Vanish
<1>2. PICK t \in Tabs : TRUE
  BY EditorConstants
<1>3. Informed(t) /\ LeavesNothing(t) /\ CallsKept /\ tab' = [tab EXCEPT ![t] = tab[t]]
  BY <1>1, CallsAreKept DEF SaveInv, EditorTypes, EditorTypeOK
<1>4. /\ t \in tab[t].from /\ Knows(tab[t], tab[t].base)
      /\ tab[t].offer # NoDraft => Knows(tab[t].offer, tab[t].offer.base)
  BY <1>3 DEF Informed
<1>5. tab[t].open \/ InFlight(t)' = {}
  <2>1. \A d \in Calls : call'[d].stage # "free" /\ call'[d].tab = t /\ call'[d].heard
           => d \in InFlight(t)
    BY <1>3 DEF CallsKept, KeptCall, InFlight
  <2>2. QED BY <1>3, <2>1 DEF LeavesNothing, InFlight
<1>6. \A d \in drafts' : Knows(d, d.base)
  BY <1>1 DEF SaveInv
<1>7. QED BY <1>1, <1>3, <1>4, <1>5, <1>6, TabStepKeeps

LEMMA WriteSaves ==
    ASSUME EditorTypes, EditorTypes', SaveInv, NEW c \in Calls, Write(c)
    PROVE  SaveInv'
<1>1. /\ call[c].stage = "begun" /\ UNCHANGED <<scope, engine, tab, drafts, issued>>
      /\ \/ \E m \in SaveCall : WriteStep(c, m)
         \/ /\ stored.rev # call[c].expected /\ UNCHANGED published
            /\ SetRow(call[c].op, "FAILED") /\ Reply(c, "conflict")
  BY WriteMoves
<1>2. QED BY <1>1, WriteDoneSaves, WriteRefusedSaves

LEMMA SaveInvStart == EditorInit => SaveInv
<1>. SUFFICES ASSUME EditorInit PROVE SaveInv
  OBVIOUS
<1>1. EditorTypes
  BY EditorTypesStart
<1>2. /\ issued = 0 /\ drafts = {} /\ stored.rev = 1
      /\ \A p \in Parts : stored.content[p] = NoEdit /\ stored.since[p] = 0
      /\ \A o \in OpIds : stored.ops[o].status = "ABSENT"
  BY DEF EditorInit, Blank
<1>3. OpRowsFit
  BY <1>2 DEF OpRowsFit, Held, SettledRow
<1>4. \A c \in Calls : ~InUse(c)
  BY IdleTyped DEF EditorInit, InUse
<1>5. CallsApart /\ \A c \in Calls : CallFits(c)
  BY <1>4 DEF CallsApart, CallFits
<1>6. ASSUME NEW t \in Tabs PROVE Informed(t) /\ OpFits(t) /\ LeavesNothing(t)
  <2>1. 0 \in 0..MaxEdits
    BY EditorConstants
  <2>2. /\ FreshFields(t, tab[t]) /\ tab[t].op = 0 /\ tab[t].offer = NoDraft
    BY <1>1, <2>1, FreshIs DEF EditorInit
  <2>3. Alone(stored.content) = [p \in Parts |-> {stored.content[p]}]
    BY DEF Alone
  <2>4. Informed(t)
    BY <1>2, <2>2, <2>3 DEF Informed, FreshFields, Knows
  <2>5. OpFits(t) /\ LeavesNothing(t)
    BY <1>2, <1>4, <2>2 DEF OpFits, LeavesNothing, InFlight, InUse
  <2>6. QED BY <2>4, <2>5
<1>7. QED BY <1>2, <1>3, <1>5, <1>6 DEF SaveInv

LEMMA SaveInvKept ==
    EditorTypes /\ EditorTypes' /\ SaveInv /\ [EditorNext]_editorVars => SaveInv'
<1>. SUFFICES ASSUME EditorTypes, EditorTypes', SaveInv, [EditorNext]_editorVars PROVE SaveInv'
  OBVIOUS
<1>1. CASE UNCHANGED editorVars
  <2>1. UNCHANGED <<stored, tab, call, drafts, issued, published>>
    BY <1>1 DEF editorVars
  <2>2. OpRowsFit' /\ CallsApart'
    BY <2>1 DEF SaveInv, OpRowsFit, CallsApart, InUse, Held, SettledRow
  <2>3. ASSUME NEW c \in Calls PROVE CallFits(c)'
    BY <2>1 DEF SaveInv, CallFits, StageFits, InUse, Knows, WroteAs, SettledRow, Held
  <2>4. ASSUME NEW t \in Tabs PROVE Informed(t)' /\ OpFits(t)' /\ LeavesNothing(t)'
    BY <2>1 DEF SaveInv, Informed, OpFits, LeavesNothing, InFlight, InUse, Knows, WroteAs,
                SettledRow
  <2>5. \A d \in drafts' : Knows(d, d.base)'
    BY <2>1 DEF SaveInv, Knows
  <2>6. QED BY <2>2, <2>3, <2>4, <2>5 DEF SaveInv
<1>2. ASSUME NEW t \in Tabs,
             OpenEditor(t) \/ CloseEditor(t) \/ Undo(t) \/ Flush(t) \/ ListDrafts(t)
             \/ Restore(t) \/ DiscardDraft(t) \/ Reload(t) \/ Discard(t) \/ NothingToSave(t)
      PROVE  SaveInv'
  BY <1>2, OpenCloseSaves, TypingSaves, DraftStepsSave, RestoreSaves, ReloadSaves, DiscardSaves,
     NothingToSaveSaves
<1>3. ASSUME NEW t \in Tabs, NEW p \in Parts, Type(t, p) PROVE SaveInv'
  BY <1>3, TypingSaves
<1>4. ASSUME NEW t \in Tabs, NEW c \in Calls, Save(t, c) PROVE SaveInv'
  BY <1>4, SaveSaves
<1>5. ASSUME NEW c \in Calls,
             Replay(c) \/ BeginSave(c) \/ Write(c) \/ Finish(c) \/ BreakOff(c)
             \/ TakeAnswer(c) \/ TakeFailure(c) \/ Vanish(c)
      PROVE  SaveInv'
  BY <1>5, ReplaySaves, BeginSaveSaves, WriteSaves, TakeAnswerSaves, TakeFailureSaves, VanishSaves
<1>6. ASSUME NEW o \in OpIds, Reconcile(o) PROVE SaveInv'
  BY <1>6, ReconcileSaves
<1>7. QED BY <1>1, <1>2, <1>3, <1>4, <1>5, <1>6 DEF EditorNext

\* A step that changes the file is the write of a request, and the request has
\* seen, or its user has written, whatever it replaces.
ReplacesKnown ==
    \A c \in Calls : \A p \in Parts :
       /\ call[c].stage = "begun" /\ call'[c].stage # "begun"
       /\ stored'.content[p] # stored.content[p]
       => \/ stored.content[p] \in call[c].seen[p]
          \/ stored.writer[p] \in call[c].from

LEMMA StepReplacesKnown ==
    EditorTypes /\ SaveInv /\ [EditorNext]_editorVars => ReplacesKnown
<1>. SUFFICES ASSUME EditorTypes, SaveInv, [EditorNext]_editorVars, NEW c \in Calls,
                     NEW p \in Parts,
                     call[c].stage = "begun", call'[c].stage # "begun",
                     stored'.content[p] # stored.content[p]
              PROVE  \/ stored.content[p] \in call[c].seen[p]
                     \/ stored.writer[p] \in call[c].from
  BY DEF ReplacesKnown
<1>1. PICK d \in Calls : Write(d)
  <2>1. \A o \in OpIds, status \in {"PROVIDER_WRITTEN", "COMPLETED", "FAILED"} :
           SetRow(o, status) => stored'.content = stored.content
    BY SetRowDoes DEF FileStays
  <2>2. stored'.content # stored.content
    OBVIOUS
  <2>3. ASSUME NEW t \in Tabs,
               OpenEditor(t) \/ CloseEditor(t) \/ Undo(t) \/ Flush(t) \/ ListDrafts(t)
               \/ Restore(t) \/ DiscardDraft(t) \/ Reload(t) \/ Discard(t) \/ NothingToSave(t)
        PROVE  UNCHANGED stored
    BY <2>3 DEF OpenEditor, CloseEditor, Undo, Flush, ListDrafts, Restore, DiscardDraft, Reload,
                Discard, NothingToSave
  <2>4. ASSUME NEW t \in Tabs, \/ \E q \in Parts : Type(t, q)
                               \/ \E d \in Calls : Save(t, d)
        PROVE  UNCHANGED stored
    BY <2>4, ZenonT(60) DEF Type, Save
  <2>5. ASSUME NEW d \in Calls, TakeAnswer(d) \/ TakeFailure(d) \/ Vanish(d) \/ BreakOff(d)
        PROVE  UNCHANGED stored
    BY <2>5 DEF TakeAnswer, TakeFailure, Vanish, BreakOff
  <2>6. ASSUME NEW d \in Calls, Replay(d) \/ Finish(d) PROVE stored'.content = stored.content
    BY <2>1, <2>6, OpTyped DEF Replay, Finish
  <2>7. ASSUME NEW d \in Calls, BeginSave(d) PROVE stored'.content = stored.content
    <3>1. stored \in Stored
      BY OpTyped
    <3>2. CASE UNCHANGED stored
      BY <3>2
    <3>3. CASE stored' = [stored EXCEPT !.ops[call[d].op] = [status |-> "PENDING", result |-> 0,
                                                             expected |-> call[d].expected]]
      BY <3>1, <3>3 DEF Stored
    <3>4. QED BY <2>7, <3>2, <3>3 DEF BeginSave
  <2>8. ASSUME NEW o \in OpIds, Reconcile(o) PROVE stored'.content = stored.content
    BY <2>1, <2>8 DEF Reconcile
  <2>9. EditorNext
    BY DEF editorVars
  <2>10. QED BY <2>2, <2>3, <2>4, <2>5, <2>6, <2>7, <2>8, <2>9 DEF EditorNext
<1>2. PICK m \in SaveCall : WriteStep(d, m)
  <2>1. SetRow(call[d].op, "FAILED") => stored'.content = stored.content
    BY OpTyped, SetRowDoes DEF FileStays
  <2>2. QED BY <1>1, <2>1, WriteMoves
<1>3. c = d
  BY <1>2, OpTyped DEF WriteStep, Moves
<1>4. stored.rev = call[c].expected /\ call \in [Calls -> SaveCall]
  BY <1>2, <1>3 DEF WriteStep, EditorTypes, EditorTypeOK
<1>5. Knows(call[c], call[c].expected) /\ stored.since[p] <= stored.rev
  BY OwnRow DEF InUse, CallFits, SaveInv, OpRowsFit
<1>6. QED BY <1>4, <1>5 DEF Knows

\* Neither a draft of an older revision nor a late, resent or replayed save
\* takes away what another tab stored: a save that reaches the file expects its
\* revision, and its editor has seen or its user written all that is as old.
THEOREM UnseenIsKept == EditorSpec => NothingUnseenIsOverwritten
<1>1. EditorInit => EditorTypes /\ SaveInv
  BY EditorTypesStart, SaveInvStart
<1>2. EditorTypes /\ SaveInv /\ [EditorNext]_editorVars => (EditorTypes /\ SaveInv)'
  BY EditorTypesKept, SaveInvKept
<1>3. EditorTypes /\ SaveInv /\ [EditorNext]_editorVars => [ReplacesKnown]_editorVars
  BY StepReplacesKnown
<1>4. EditorSpec => [][ReplacesKnown]_editorVars
  BY <1>1, <1>2, <1>3, PTL DEF EditorSpec
<1>5. [ReplacesKnown]_editorVars <=>
      [\A c \in Calls : \A p \in Parts :
         /\ call[c].stage = "begun" /\ call'[c].stage # "begun"
         /\ stored'.content[p] # stored.content[p]
         => \/ stored.content[p] \in call[c].seen[p]
            \/ stored.writer[p] \in call[c].from]_editorVars
  BY DEF ReplacesKnown
<1>6. QED BY <1>4, <1>5, PTL DEF NothingUnseenIsOverwritten, ReplacesKnown

-----------------------------------------------------------------------------
(* What merging an answer relies on, in an editor that has sent every      *)
(* operation id once and restored no draft into a document being saved.    *)

Unmixed(t) == ~tab[t].reused /\ ~tab[t].mixed
Sent(k) == \A q \in DOMAIN k.payload : k.payload[q] \in published

\* The one request that the editor waits for.
CallAgrees(t, c) ==
    /\ call[c].op = tab[t].op /\ tab[t].op # 0
    /\ \A d \in Calls \ {c} : InUse(d) => call[d].op # call[c].op
    /\ call[c].stage = "sent" => stored.ops[call[c].op].status = "ABSENT"
    /\ call[c].stage = "written" \/ (call[c].stage = "answered" /\ call[c].answer = "ok")
          => Sent(call[c])
    /\ \A p \in Parts :
          IF p \in DOMAIN call[c].payload THEN call[c].payload[p] = call[c].snapshot[p]
          ELSE call[c].snapshot[p] \in Held
\* What the user did since then, as the engine tells: nothing, while the request
\* is not marked; in the document, what its commands hold.
MergeFits(t, e, k) ==
    /\ engine \in {"TEXT", "PRESENTATION"} /\ ~k.edited =>
          e.typed \subseteq EditsOf(t, k.snapshot) \cup published
    /\ engine = "PRESENTATION" /\ ~k.edited =>
          e.value \in {k.snapshot, e.baseline} /\ e.status \in {"saving", "clean"}
    /\ engine = "DOCUMENT" /\ e.recording =>
          \A p \in Parts :
             \/ e.value[p] \in Held
             \/ p \in DOMAIN e.commands /\ e.commands[p] = e.value[p]
             \/ p \notin DOMAIN e.commands /\ e.value[p] = k.snapshot[p]
\* What is typed is shown or stored.
ShownFits(t, e) ==
    /\ \A p \in Parts : e.baseline[p] \in Held
    /\ e.typed \subseteq EditsOf(t, e.value) \cup published
    /\ engine = "PRESENTATION" /\ e.status = "clean" => e.typed \subseteq published
TypingFits(t) ==
    /\ tab[t].recording => tab[t].last # NoCall /\ engine = "DOCUMENT"
    /\ Unmixed(t) =>
          /\ ShownFits(t, tab[t])
          /\ \A c \in InFlight(t) : CallAgrees(t, c) /\ MergeFits(t, tab[t], call[c])
MergeInv == \A t \in Tabs : TypingFits(t)

\* No request is unmarked.
MarksKept == \A c \in Calls : call'[c].stage = "free" \/ (call[c].edited => call'[c].edited)

LEMMA MarksAreKept ==
    ASSUME EditorTypes
    PROVE  /\ CountTypes(call, call') => MarksKept
           /\ \A t : UnheardTypes(t, call') => MarksKept
           /\ \A c \in Calls : FreedTypes(c, call') => MarksKept
           /\ \A c \in Calls : call' = [call EXCEPT ![c] = [call[c] EXCEPT !.heard = FALSE]]
                 => MarksKept
           /\ UNCHANGED call => MarksKept
<1>1. ASSUME NEW c \in Calls
      PROVE  /\ [call[c] EXCEPT !.edited = TRUE].edited
             /\ [call[c] EXCEPT !.heard = FALSE].edited = call[c].edited
  BY OpTyped DEF SaveCall
<1>2. CountTypes(call, call') => MarksKept
  BY <1>1 DEF CountTypes, MarksKept
<1>3. ASSUME NEW t, UnheardTypes(t, call') PROVE MarksKept
  BY <1>1, <1>3 DEF UnheardTypes, MarksKept
<1>4. ASSUME NEW c \in Calls, FreedTypes(c, call') PROVE MarksKept
  BY <1>1, <1>4 DEF FreedTypes, MarksKept
<1>5. ASSUME NEW c \in Calls, call' = [call EXCEPT ![c] = [call[c] EXCEPT !.heard = FALSE]]
      PROVE  MarksKept
  BY <1>1, <1>5 DEF MarksKept, EditorTypes, EditorTypeOK
<1>6. QED BY <1>2, <1>3, <1>4, <1>5 DEF MarksKept

\* What has been held is among the edits that the file has held.
LEMMA HeldEdits ==
    ASSUME NEW t \in Tabs, NEW v, \A p \in Parts : v[p] \in Held
    PROVE  EditsOf(t, v) \subseteq published
<1>1. ASSUME NEW i \in EditsOf(t, v) PROVE i \in published
  <2>1. PICK p \in Parts : i = v[p]
    BY DEF EditsOf
  <2>2. i \in {t} \X (1..MaxEdits)
    BY DEF EditsOf
  <2>3. 1..MaxEdits \in SUBSET Nat
    BY EditorConstants
  <2>4. i \in Tabs \X Nat
    BY <2>2, <2>3
  <2>5. i # NoEdit
    BY <2>4, EditorConstants
  <2>6. QED BY <2>1, <2>5 DEF Held
<1>2. QED BY <1>1

\* A request whose payload has been stored has nothing that was not.
LEMMA SnapshotHeld ==
    ASSUME NEW t, NEW c \in Calls, CallAgrees(t, c), Sent(call[c])
    PROVE  \A p \in Parts : call[c].snapshot[p] \in Held
BY DEF CallAgrees, Sent, Held

\* A Unmixed editor waits for one request.
LEMMA OneFlight ==
    ASSUME MergeInv, NEW t \in Tabs, Unmixed(t), NEW c \in InFlight(t)
    PROVE  InFlight(t) = {c}
<1>1. ASSUME NEW d \in InFlight(t) \ {c} PROVE FALSE
  <2>1. CallAgrees(t, c) /\ CallAgrees(t, d)
    BY DEF MergeInv, TypingFits
  <2>2. QED BY <2>1 DEF CallAgrees, InFlight, InUse
<1>2. QED BY <1>1

\* Where neither the request nor its editor moves on.
LEMMA FlightKeeps ==
    ASSUME EditorTypes, UNCHANGED <<engine, stored, published>>, CallsKept, MarksKept,
           NEW t \in Tabs, NEW c \in Calls, InUse(c)', tab'[t].op = tab[t].op, CallAgrees(t, c)
    PROVE  /\ CallAgrees(t, c)'
           /\ \A e : MergeFits(t, e, call[c]) => MergeFits(t, e, call'[c])
<1>1. /\ KeptCall(call[c], call'[c]) /\ (call[c].edited => call'[c].edited)
      /\ \A d \in Calls : InUse(d)' => InUse(d) /\ call'[d].op = call[d].op
  BY DEF CallsKept, MarksKept, InUse, KeptCall
<1>2. CallAgrees(t, c)'
  BY <1>1 DEF CallAgrees, KeptCall, Sent, Held
<1>3. ASSUME NEW e, MergeFits(t, e, call[c]) PROVE MergeFits(t, e, call'[c])
  BY <1>1, <1>3 DEF MergeFits, KeptCall
<1>4. QED BY <1>2, <1>3

\* A step of a tab's editor.
LEMMA TabStepFits ==
    ASSUME EditorTypes, EditorTypes', MergeInv, NEW t \in Tabs, NEW n,
           tab' = [tab EXCEPT ![t] = n], UNCHANGED <<engine, stored, published>>,
           CallsKept, MarksKept,
           n.recording => n.last # NoCall /\ engine = "DOCUMENT",
           ~n.reused /\ ~n.mixed =>
              /\ ShownFits(t, n)
              /\ \/ InFlight(t)' = {}
                 \/ /\ Unmixed(t) /\ n.op = tab[t].op
                    /\ \A c \in InFlight(t) :
                          MergeFits(t, n, call'[c]) \/ MergeFits(t, n, call[c])
    PROVE  MergeInv'
<1>1. tab'[t] = n /\ \A u \in Tabs \ {t} : tab'[u] = tab[u]
  BY DEF EditorTypes, EditorTypeOK
<1>2. \A u : \A c \in InFlight(u)' : c \in Calls /\ InUse(c)' /\ c \in InFlight(u)
  BY DEF CallsKept, KeptCall, InFlight, InUse
<1>3. ASSUME NEW u \in Tabs
      PROVE  /\ ShownFits(u, tab'[u]) => ShownFits(u, tab[u])'
             /\ \A c \in Calls : MergeFits(u, tab'[u], call'[c]) => MergeFits(u, tab[u], call[c])'
  BY DEF ShownFits, MergeFits, Held, EditsOf
<1>4. ASSUME NEW u \in Tabs \ {t} PROVE TypingFits(u)'
  <2>. SUFFICES ASSUME Unmixed(u)' PROVE ShownFits(u, tab[u])' /\ \A c \in InFlight(u)' :
                                          CallAgrees(u, c)' /\ MergeFits(u, tab[u], call[c])'
    BY <1>1 DEF MergeInv, TypingFits
  <2>1. Unmixed(u) /\ tab'[u] = tab[u]
    BY <1>1 DEF Unmixed
  <2>2. /\ ShownFits(u, tab[u])
        /\ \A c \in InFlight(u) : CallAgrees(u, c) /\ MergeFits(u, tab[u], call[c])
    BY <2>1 DEF MergeInv, TypingFits
  <2>3. ASSUME NEW c \in InFlight(u)' PROVE CallAgrees(u, c)' /\ MergeFits(u, tab[u], call[c])'
    <3>1. c \in Calls /\ InUse(c)' /\ CallAgrees(u, c) /\ MergeFits(u, tab[u], call[c])
      BY <1>2, <2>2, <2>3
    <3>2. CallAgrees(u, c)' /\ MergeFits(u, tab[u], call'[c])
      BY <2>1, <3>1, FlightKeeps
    <3>3. QED BY <1>3, <2>1, <3>1, <3>2
  <2>4. QED BY <1>3, <2>1, <2>2, <2>3
<1>5. TypingFits(t)'
  <2>. SUFFICES ASSUME Unmixed(t)' PROVE ShownFits(t, tab[t])' /\ \A c \in InFlight(t)' :
                                          CallAgrees(t, c)' /\ MergeFits(t, tab[t], call[c])'
    BY <1>1 DEF TypingFits
  <2>1. ShownFits(t, tab[t])' /\ ~n.reused /\ ~n.mixed
    BY <1>1, <1>3 DEF Unmixed
  <2>2. ASSUME NEW c \in InFlight(t)'
        PROVE  CallAgrees(t, c)' /\ MergeFits(t, tab[t], call[c])'
    <3>1. /\ Unmixed(t) /\ n.op = tab[t].op /\ c \in Calls /\ InUse(c)'
          /\ MergeFits(t, n, call'[c]) \/ MergeFits(t, n, call[c])
      BY <1>2, <2>1, <2>2
    <3>2. CallAgrees(t, c)
      BY <1>2, <2>2, <3>1 DEF MergeInv, TypingFits
    <3>3. CallAgrees(t, c)' /\ MergeFits(t, n, call'[c])
      BY <1>1, <3>1, <3>2, FlightKeeps
    <3>4. QED BY <1>1, <1>3, <3>1, <3>3
  <2>3. QED BY <2>1, <2>2
<1>6. QED BY <1>4, <1>5 DEF MergeInv

\* An editor that shows what it showed.
LEMMA SameWorkKeeps ==
    ASSUME EditorTypes, EditorTypes', MergeInv, NEW t \in Tabs, NEW n,
           tab' = [tab EXCEPT ![t] = n], SameWork(tab[t], n), n.op = tab[t].op,
           UNCHANGED <<engine, stored, published>>, CallsKept, MarksKept
    PROVE  MergeInv'
<1>1. TypingFits(t)
  BY DEF MergeInv
<1>2. n.recording => n.last # NoCall /\ engine = "DOCUMENT"
  BY <1>1 DEF TypingFits, SameWork
<1>3. ASSUME ~n.reused, ~n.mixed
      PROVE  /\ ShownFits(t, n) /\ Unmixed(t)
             /\ \A c \in InFlight(t) : MergeFits(t, n, call[c])
  <2>1. Unmixed(t)
    BY <1>3 DEF Unmixed, SameWork
  <2>2. ShownFits(t, n)
    BY <1>1, <2>1 DEF TypingFits, ShownFits, SameWork
  <2>3. \A c \in InFlight(t) : MergeFits(t, n, call[c])
    BY <1>1, <2>1 DEF TypingFits, MergeFits, SameWork
  <2>4. QED BY <2>1, <2>2, <2>3
<1>4. QED BY <1>2, <1>3, TabStepFits

-----------------------------------------------------------------------------
(* The steps of an editor keep what merging relies on.                     *)

\* Whoever types keeps what the engine tells of it.
LEMMA TypingFitsOn ==
    ASSUME EditorTypes, EditorTypes', MergeInv, NEW t \in Tabs,
           (\E p \in Parts : Type(t, p)) \/ Undo(t)
    PROVE  MergeInv'
<1>. DEFINE e == tab[t]
<1>1. PICK n \in Editor : UserStep(t, n)
  BY TypeDoes, UndoDoes
<1>2. /\ n.op = e.op /\ n.baseline = e.baseline /\ n.last = e.last
      /\ n.reused = e.reused /\ n.mixed = e.mixed /\ n.typed = EditsOf(t, n.value)
      /\ CallsKept /\ MarksKept /\ UNCHANGED <<engine, stored, published>>
      /\ tab' = [tab EXCEPT ![t] = n]
  BY <1>1, CallsAreKept, MarksAreKept DEF UserStep, SameSession
<1>3. TypingFits(t) /\ (n.recording => e.recording)
  BY <1>1 DEF MergeInv, UserStep
<1>4. n.recording => n.last # NoCall /\ engine = "DOCUMENT"
  BY <1>2, <1>3 DEF TypingFits
<1>5. ASSUME ~n.reused, ~n.mixed PROVE Unmixed(t) /\ ShownFits(t, n)
  <2>1. Unmixed(t)
    BY <1>2, <1>5 DEF Unmixed
  <2>2. engine = "PRESENTATION" => n.status # "clean"
    BY <1>1 DEF UserStep
  <2>3. QED BY <1>2, <1>3, <2>1, <2>2 DEF TypingFits, ShownFits
<1>6. ASSUME Unmixed(t), NEW c \in InFlight(t) PROVE MergeFits(t, n, call'[c])
  <2>1. MergeFits(t, e, call[c]) /\ ShownFits(t, e) /\ c \in Calls
    BY <1>3, <1>6 DEF TypingFits, InFlight
  <2>2. CASE engine = "TEXT"
    <3>1. ASSUME ~call'[c].edited PROVE n.typed \subseteq published
      <4>1. n.value = n.baseline
        BY <1>1, <1>6, <2>2, <3>1 DEF UserStep
      <4>2. \A p \in Parts : n.value[p] \in Held
        BY <1>2, <2>1, <4>1 DEF ShownFits
      <4>3. QED BY <1>2, <4>2, HeldEdits
    <3>2. QED BY <2>2, <3>1 DEF MergeFits
  <2>3. CASE engine = "PRESENTATION"
    <3>1. call'[c].edited
      BY <1>1, <1>6, <2>3 DEF UserStep
    <3>2. QED BY <2>3, <3>1 DEF MergeFits
  <2>4. CASE engine = "DOCUMENT" /\ n.recording
    <3>1. e.recording /\ e.last # NoCall
      BY <1>3, <2>4 DEF TypingFits
    <3>2. PICK p \in Parts : /\ \A q \in Parts \ {p} : n.value[q] = e.value[q]
                             /\ n.commands = With(e.commands, p, n.value[p])
      BY <1>1, <2>4, <3>1 DEF UserStep
    <3>3. /\ p \in DOMAIN n.commands /\ n.commands[p] = n.value[p]
          /\ \A q \in Parts \ {p} : /\ q \in DOMAIN n.commands <=> q \in DOMAIN e.commands
                                    /\ q \in DOMAIN e.commands => n.commands[q] = e.commands[q]
      BY <3>2 DEF With
    <3>4. \/ call'[c] = call[c]
          \/ call'[c] = [call[c] EXCEPT !.edited = TRUE]
      BY <1>1, <2>1 DEF UserStep, CountTypes
    <3>5. call'[c].snapshot = call[c].snapshot
      BY <2>1, <3>4, OpTyped DEF SaveCall
    <3>6. ASSUME NEW q \in Parts
          PROVE  \/ n.value[q] \in Held
                 \/ q \in DOMAIN n.commands /\ n.commands[q] = n.value[q]
                 \/ q \notin DOMAIN n.commands /\ n.value[q] = call'[c].snapshot[q]
      <4>1. CASE q = p
        BY <3>3, <4>1
      <4>2. CASE q # p
        <5>1. \/ e.value[q] \in Held
              \/ q \in DOMAIN e.commands /\ e.commands[q] = e.value[q]
              \/ q \notin DOMAIN e.commands /\ e.value[q] = call[c].snapshot[q]
          BY <2>1, <2>4, <3>1 DEF MergeFits
        <5>2. QED BY <3>2, <3>3, <3>5, <4>2, <5>1
      <4>3. QED BY <4>1, <4>2
    <3>7. QED BY <2>4, <3>6 DEF MergeFits
  <2>5. QED BY <2>2, <2>3, <2>4 DEF MergeFits
<1>7. QED BY <1>2, <1>4, <1>5, <1>6, TabStepFits

LEMMA DraftMerges ==
    ASSUME EditorTypes, EditorTypes', MergeInv, NEW t \in Tabs, Restore(t)
    PROVE  MergeInv'
<1>. DEFINE e == tab[t]
<1>1. PICK n \in Editor : RestoreStep(t, n)
  BY RestoreDoes
<1>2. /\ n.op = e.op /\ n.baseline = e.baseline /\ n.last = e.last
      /\ n.recording = e.recording /\ n.reused = e.reused /\ n.typed = EditsOf(t, n.value)
      /\ n.mixed = (e.mixed \/ e.recording) /\ (engine = "PRESENTATION" => n.status = "dirty")
      /\ CallsKept /\ MarksKept /\ UNCHANGED <<engine, stored, published>>
      /\ tab' = [tab EXCEPT ![t] = n]
  BY <1>1, CallsAreKept, MarksAreKept DEF RestoreStep
<1>3. TypingFits(t)
  BY DEF MergeInv
<1>4. n.recording => n.last # NoCall /\ engine = "DOCUMENT"
  BY <1>2, <1>3 DEF TypingFits
<1>5. ASSUME ~n.reused, ~n.mixed PROVE Unmixed(t) /\ ShownFits(t, n)
  <2>1. Unmixed(t)
    BY <1>2, <1>5 DEF Unmixed
  <2>2. QED BY <1>2, <1>3, <2>1 DEF TypingFits, ShownFits
<1>6. ASSUME ~n.mixed, Unmixed(t), NEW c \in InFlight(t) PROVE MergeFits(t, n, call'[c])
  <2>1. MergeFits(t, e, call[c]) /\ ShownFits(t, e) /\ c \in Calls
    BY <1>3, <1>6 DEF TypingFits, InFlight
  <2>2. CASE engine = "TEXT"
    <3>1. ASSUME ~call'[c].edited PROVE n.typed \subseteq published
      <4>1. n.value = n.baseline
        BY <1>1, <1>6, <2>2, <3>1 DEF RestoreStep
      <4>2. \A p \in Parts : n.value[p] \in Held
        BY <1>2, <2>1, <4>1 DEF ShownFits
      <4>3. QED BY <1>2, <4>2, HeldEdits
    <3>2. QED BY <2>2, <3>1 DEF MergeFits
  <2>3. CASE engine = "PRESENTATION"
    <3>1. CASE e.status # "dirty"
      <4>1. call'[c].edited
        BY <1>1, <1>6, <2>3, <3>1 DEF RestoreStep
      <4>2. QED BY <2>3, <4>1 DEF MergeFits
    <3>2. CASE e.status = "dirty"
      <4>1. call[c].edited
        BY <2>1, <2>3, <3>2 DEF MergeFits
      <4>2. \/ call'[c] = call[c]
            \/ call'[c] = [call[c] EXCEPT !.edited = TRUE]
        BY <1>1, <2>1 DEF RestoreStep, CountTypes
      <4>3. call'[c].edited
        BY <2>1, <4>1, <4>2, OpTyped DEF SaveCall
      <4>4. QED BY <2>3, <4>3 DEF MergeFits
    <3>3. QED BY <3>1, <3>2
  <2>4. ~n.recording
    BY <1>2, <1>6
  <2>5. QED BY <2>2, <2>3, <2>4 DEF MergeFits
<1>7. QED BY <1>2, <1>4, <1>5, <1>6, TabStepFits

\* What was stored stands for all that was typed.
LEMMA StoredFits ==
    ASSUME NEW t \in Tabs, NEW n, n.typed \subseteq published, n.value = n.baseline,
           \A p \in Parts : n.baseline[p] \in Held, n.status = "clean"
    PROVE  ShownFits(t, n) /\ \A k : MergeFits(t, n, k)
BY DEF ShownFits, MergeFits

LEMMA DiscardFits ==
    ASSUME EditorTypes, EditorTypes', MergeInv, NEW t \in Tabs, Discard(t)
    PROVE  MergeInv'
<1>. DEFINE e == tab[t]
<1>1. PICK n \in Editor : DiscardStep(t, n)
  BY DiscardDoes
<1>2. /\ n.op = e.op /\ n.baseline = e.baseline /\ n.value = e.baseline /\ n.last = e.last
      /\ n.recording = e.recording /\ n.reused = e.reused /\ n.typed = EditsOf(t, n.value)
      /\ n.mixed = e.mixed /\ n.status = "clean"
      /\ CallsKept /\ MarksKept /\ UNCHANGED <<engine, stored, published>>
      /\ tab' = [tab EXCEPT ![t] = n]
  BY <1>1, CallsAreKept, MarksAreKept DEF DiscardStep, SameSession
<1>3. TypingFits(t)
  BY DEF MergeInv
<1>4. n.recording => n.last # NoCall /\ engine = "DOCUMENT"
  BY <1>2, <1>3 DEF TypingFits
<1>5. ASSUME ~n.reused, ~n.mixed
      PROVE  Unmixed(t) /\ ShownFits(t, n) /\ \A k : MergeFits(t, n, k)
  <2>1. Unmixed(t)
    BY <1>2, <1>5 DEF Unmixed
  <2>2. \A p \in Parts : n.baseline[p] \in Held
    BY <1>2, <1>3, <2>1 DEF TypingFits, ShownFits
  <2>3. n.typed \subseteq published
    BY <1>2, <2>2, HeldEdits
  <2>4. QED BY <1>2, <2>1, <2>2, <2>3, StoredFits
<1>6. QED BY <1>2, <1>4, <1>5, TabStepFits

LEMMA FreshFits ==
    ASSUME SaveInv, NEW t \in Tabs, NEW n, FreshFields(t, n)
    PROVE  ShownFits(t, n) /\ \A k : MergeFits(t, n, k)
<1>1. \A p \in Parts : n.baseline[p] \in Held
  BY DEF FreshFields, SaveInv, OpRowsFit
<1>2. n.typed \subseteq published /\ n.value = n.baseline /\ n.status = "clean"
  BY DEF FreshFields
<1>3. QED BY <1>1, <1>2, StoredFits

LEMMA ReloadFits ==
    ASSUME EditorTypes, EditorTypes', SaveInv, MergeInv, NEW t \in Tabs, Reload(t)
    PROVE  MergeInv'
<1>. DEFINE e == tab[t]
<1>1. PICK n \in Editor : ReloadStep(t, n)
  BY ReloadDoes
<1>2. /\ CallsKept /\ MarksKept /\ UNCHANGED <<engine, stored, published>>
      /\ tab' = [tab EXCEPT ![t] = n] /\ FreshFields(t, n)
      /\ \/ InFlight(t)' = {} /\ ~n.recording
         \/ /\ n.op = e.op /\ n.reused = e.reused /\ n.mixed = e.mixed
            /\ n.last = e.last /\ n.recording = e.recording
  BY <1>1, CallsAreKept, MarksAreKept DEF ReloadStep
<1>3. ShownFits(t, n) /\ \A k : MergeFits(t, n, k)
  BY <1>2, FreshFits
<1>4. n.recording => n.last # NoCall /\ engine = "DOCUMENT"
  BY <1>2 DEF MergeInv, TypingFits
<1>5. ~n.reused /\ ~n.mixed => InFlight(t)' = {} \/ (Unmixed(t) /\ n.op = e.op)
  BY <1>2 DEF Unmixed
<1>6. QED BY <1>2, <1>3, <1>4, <1>5, TabStepFits

LEMMA OpenCloseFits ==
    ASSUME EditorTypes, EditorTypes', SaveInv, MergeInv, NEW t \in Tabs,
           OpenEditor(t) \/ CloseEditor(t)
    PROVE  MergeInv'
<1>. DEFINE count == tab[t].count
<1>1. count \in 0..MaxEdits
  BY DEF EditorTypes, EditorTypeOK, Editor
<1>2. PICK n \in {Fresh(t, count), Closed(t, count)} :
        /\ tab' = [tab EXCEPT ![t] = n] /\ CallsKept /\ MarksKept /\ InFlight(t)' = {}
        /\ UNCHANGED <<engine, stored, published>>
  <2>1. CASE OpenEditor(t)
    <3>1. UNCHANGED <<engine, stored, published, call>> /\ ~tab[t].open
          /\ tab' = [tab EXCEPT ![t] = Fresh(t, count)]
      BY <2>1 DEF OpenEditor, Mounted
    <3>2. InFlight(t)' = {}
      BY <3>1 DEF SaveInv, LeavesNothing, InFlight
    <3>3. QED BY <3>1, <3>2, CallsAreKept, MarksAreKept
  <2>2. CASE CloseEditor(t)
    <3>1. UnheardTypes(t, call')
      BY <2>2, UnheardTyped DEF CloseEditor
    <3>2. QED BY <2>2, <3>1, CallsAreKept, MarksAreKept DEF CloseEditor
  <2>3. QED BY <2>1, <2>2
<1>. HIDE DEF count
<1>3. FreshFields(t, n) /\ ~n.recording
  BY <1>1, <1>2, FreshIs
<1>4. ShownFits(t, n)
  BY <1>3, FreshFits
<1>5. QED BY <1>2, <1>3, <1>4, TabStepFits

LEMMA NothingToSaveFits ==
    ASSUME EditorTypes, EditorTypes', MergeInv, NEW t \in Tabs, NothingToSave(t)
    PROVE  MergeInv'
<1>. DEFINE e == tab[t]
            new == [e EXCEPT !.status = "clean"]
            n == Settle(e, new)
<1>1. e \in Editor
  BY DEF EditorTypes, EditorTypeOK
<1>2. /\ new \in Editor /\ SameSession(e, new) /\ new.status = "clean"
      /\ new.baseline = e.baseline /\ new.value = e.value /\ new.last = e.last
      /\ new.recording = e.recording /\ new.reused = e.reused /\ new.mixed = e.mixed
      /\ new.typed = e.typed
  <2>. HIDE DEF e
  <2>1. QED BY <1>1 DEF Editor, SameSession
<1>3. /\ tab' = [tab EXCEPT ![t] = n] /\ e.value = e.baseline
      /\ UNCHANGED <<scope, engine, stored, call, drafts, issued, published>>
  BY DEF NothingToSave, EditorTypes, EditorTypeOK
<1>. HIDE DEF new
<1>4. n \in Editor /\ SameSession(new, n) /\ SameWork(new, n)
  BY <1>1, <1>2, SettledIs
<1>. HIDE DEF n
<1>5. /\ n.op = e.op /\ n.baseline = e.baseline /\ n.value = e.value /\ n.last = e.last
      /\ n.recording = e.recording /\ n.reused = e.reused /\ n.mixed = e.mixed
      /\ n.typed = e.typed /\ n.status = "clean" /\ CallsKept /\ MarksKept
  BY <1>2, <1>3, <1>4, CallsAreKept, MarksAreKept DEF SameSession, SameWork
<1>6. TypingFits(t)
  BY DEF MergeInv
<1>7. n.recording => n.last # NoCall /\ engine = "DOCUMENT"
  BY <1>5, <1>6 DEF TypingFits
<1>8. ASSUME ~n.reused, ~n.mixed
      PROVE  Unmixed(t) /\ ShownFits(t, n) /\ \A k : MergeFits(t, n, k)
  <2>1. Unmixed(t)
    BY <1>5, <1>8 DEF Unmixed
  <2>2. ShownFits(t, e)
    BY <1>6, <2>1 DEF TypingFits
  <2>3. EditsOf(t, e.value) \subseteq published
    BY <1>3, <2>2, HeldEdits DEF ShownFits
  <2>4. n.typed \subseteq published /\ \A p \in Parts : n.baseline[p] \in Held
    BY <1>5, <2>2, <2>3 DEF ShownFits
  <2>5. QED BY <1>3, <1>5, <2>1, <2>4, StoredFits
<1>9. QED BY <1>3, <1>5, <1>7, <1>8, TabStepFits

LEMMA DraftStepsFit ==
    ASSUME EditorTypes, EditorTypes', MergeInv, NEW t \in Tabs,
           Flush(t) \/ ListDrafts(t) \/ DiscardDraft(t)
    PROVE  MergeInv'
<1>. DEFINE e == tab[t]
<1>1. e \in Editor /\ tab \in [Tabs -> Editor] /\ CallsKept /\ MarksKept
      /\ UNCHANGED <<engine, stored, published>>
  BY CallsAreKept, MarksAreKept DEF Flush, ListDrafts, DiscardDraft, EditorTypes, EditorTypeOK
<1>2. ASSUME Flush(t) PROVE MergeInv'
  <2>1. SameWork(e, e) /\ tab' = [tab EXCEPT ![t] = e]
    BY <1>1, <1>2 DEF Flush, SameWork
  <2>2. QED BY <1>1, <2>1, SameWorkKeeps
<1>3. ASSUME ListDrafts(t) PROVE MergeInv'
  <2>1. PICK offer : tab' = [tab EXCEPT ![t].listing = FALSE, ![t].offer = offer]
    BY <1>3 DEF ListDrafts
  <2>. DEFINE n == [e EXCEPT !.listing = FALSE, !.offer = offer]
  <2>2. tab' = [tab EXCEPT ![t] = n]
    BY <1>1, <2>1 DEF Editor
  <2>3. SameWork(e, n) /\ n.op = e.op
    <3>. HIDE DEF e
    <3>1. QED BY <1>1 DEF Editor, SameWork
  <2>. HIDE DEF n
  <2>4. QED BY <1>1, <2>2, <2>3, SameWorkKeeps
<1>4. ASSUME DiscardDraft(t) PROVE MergeInv'
  <2>. DEFINE n == [e EXCEPT !.offer = NoDraft]
  <2>1. tab' = [tab EXCEPT ![t] = n]
    BY <1>1, <1>4 DEF DiscardDraft
  <2>2. SameWork(e, n) /\ n.op = e.op
    <3>. HIDE DEF e
    <3>1. QED BY <1>1 DEF Editor, SameWork
  <2>. HIDE DEF n
  <2>3. QED BY <1>1, <2>1, <2>2, SameWorkKeeps
<1>5. QED BY <1>2, <1>3, <1>4

LEMMA SaveFits ==
    ASSUME EditorTypes, EditorTypes', SaveInv, SaveInv', MergeInv,
           NEW t \in Tabs, NEW c \in Calls, Save(t, c)
    PROVE  MergeInv'
<1>. DEFINE e == tab[t]
<1>1. PICK n \in Editor : SaveStep(t, c, n)
  BY SaveDoes
<1>2. /\ tab'[t] = n /\ \A u \in Tabs \ {t} : tab'[u] = tab[u]
      /\ n.baseline = e.baseline /\ n.value = e.value /\ n.typed = e.typed /\ n.mixed = e.mixed
      /\ n.op = OperationId(e) /\ n.status = "saving" /\ n.last = c
      /\ n.reused = (e.reused \/ e.op # 0) /\ n.recording = (engine = "DOCUMENT")
      /\ n.commands = NoCommands /\ ~InUse(c) /\ Request(t, call'[c])
      /\ \A d \in Calls \ {c} : call'[d] = call[d]
      /\ n.op \in OpIds /\ UNCHANGED <<engine, stored, published>>
  BY <1>1 DEF SaveStep, EditorTypes, EditorTypeOK
<1>3. /\ call'[c].stage = "sent" /\ call'[c].tab = t /\ call'[c].heard /\ call'[c].op = n.op
      /\ call'[c].snapshot = e.value /\ c \notin InFlight(t)
      /\ call'[c].payload = IF engine = "TEXT" THEN e.value ELSE Changed(e.value, e.baseline)
  BY <1>2 DEF Request, InUse, InFlight
<1>4. ASSUME NEW u \in Tabs \ {t} PROVE TypingFits(u)'
  <2>. SUFFICES ASSUME Unmixed(u)' PROVE ShownFits(u, tab[u])' /\ \A d \in InFlight(u)' :
                                          CallAgrees(u, d)' /\ MergeFits(u, tab[u], call[d])'
    BY <1>2 DEF MergeInv, TypingFits
  <2>1. Unmixed(u) /\ tab'[u] = tab[u]
    BY <1>2 DEF Unmixed
  <2>2. /\ ShownFits(u, tab[u])
        /\ \A d \in InFlight(u) : CallAgrees(u, d) /\ MergeFits(u, tab[u], call[d])
    BY <2>1 DEF MergeInv, TypingFits
  <2>3. ShownFits(u, tab[u])'
    BY <1>2, <2>1, <2>2 DEF ShownFits, Held, EditsOf
  <2>4. ASSUME NEW d \in InFlight(u)' PROVE CallAgrees(u, d)' /\ MergeFits(u, tab[u], call[d])'
    <3>1. d \in Calls \ {c} /\ d \in InFlight(u) /\ call'[d] = call[d] /\ InUse(d)
      BY <1>2, <1>3, <2>4 DEF InFlight, InUse
    <3>2. CallAgrees(u, d) /\ MergeFits(u, tab[u], call[d])
      BY <2>2, <3>1
    <3>3. call'[c].op # call'[d].op
      <4>1. tab'[u].op # 0 /\ call'[d].op = tab'[u].op
        BY <2>1, <3>1, <3>2 DEF CallAgrees
      <4>2. OpFits(u)'
        BY DEF SaveInv
      <4>3. call'[c].op = tab'[u].op => call'[c].tab = u
        BY <1>3, <4>1, <4>2 DEF OpFits, InUse
      <4>4. QED BY <1>3, <4>1, <4>3
    <3>4. CallAgrees(u, d)'
      <4>1. \A b \in Calls \ {d} : InUse(b)' => call'[b].op # call'[d].op
        BY <1>2, <3>1, <3>2, <3>3 DEF CallAgrees, InUse
      <4>2. QED BY <1>2, <2>1, <3>1, <3>2, <4>1 DEF CallAgrees, Sent, Held
    <3>5. MergeFits(u, tab[u], call[d])'
      BY <1>2, <2>1, <3>1, <3>2 DEF MergeFits, Held, EditsOf
    <3>6. QED BY <3>4, <3>5
  <2>5. QED BY <2>3, <2>4
<1>5. TypingFits(t)'
  <2>1. n.recording => n.last # NoCall /\ engine = "DOCUMENT"
    BY <1>2, EditorConstants
  <2>. SUFFICES ASSUME Unmixed(t)' PROVE ShownFits(t, tab[t])' /\ \A d \in InFlight(t)' :
                                          CallAgrees(t, d)' /\ MergeFits(t, tab[t], call[d])'
    BY <1>2, <2>1 DEF TypingFits
  <2>2. Unmixed(t) /\ e.op = 0
    BY <1>2 DEF Unmixed
  <2>3. /\ ShownFits(t, e)
        /\ \A d \in InFlight(t) : CallAgrees(t, d)
    BY <2>2 DEF MergeInv, TypingFits
  <2>4. InFlight(t) = {}
    BY <2>2, <2>3 DEF CallAgrees, InFlight
  <2>5. \A d \in InFlight(t)' : d = c
    BY <1>2, <2>4 DEF InFlight
  <2>6. ShownFits(t, tab[t])'
    BY <1>2, <2>3 DEF ShownFits, Held, EditsOf
  <2>7. CallAgrees(t, c)'
    <3>1. n.op = issued + 1 /\ issued \in Nat /\ n.op # 0 /\ n.op > issued
      BY <1>2, <2>2 DEF OperationId, EditorTypes, EditorTypeOK
    <3>2. \A d \in Calls : InUse(d) => call[d].op # n.op
      BY <3>1, OwnRow
    <3>3. stored.ops[n.op].status = "ABSENT"
      BY <1>2, <3>1 DEF SaveInv, OpRowsFit
    <3>4. /\ call'[c].op = tab'[t].op /\ tab'[t].op # 0
          /\ \A d \in Calls \ {c} : InUse(d)' => call'[d].op # call'[c].op
          /\ stored'.ops[call'[c].op].status = "ABSENT"
      BY <1>2, <1>3, <3>1, <3>2, <3>3 DEF InUse
    <3>5. ASSUME NEW p \in Parts
          PROVE  IF p \in DOMAIN call'[c].payload THEN call'[c].payload[p] = call'[c].snapshot[p]
                 ELSE call'[c].snapshot[p] \in Held'
      <4>1. CASE engine = "TEXT"
        <5>1. e.value \in [Parts -> Value]
          BY DEF EditorTypes, EditorTypeOK, Editor, Content
        <5>2. QED BY <1>3, <4>1, <5>1
      <4>2. CASE engine # "TEXT"
        <5>1. /\ p \in DOMAIN call'[c].payload <=> e.value[p] # e.baseline[p]
              /\ p \in DOMAIN call'[c].payload => call'[c].payload[p] = e.value[p]
          BY <1>3, <4>2 DEF Changed
        <5>2. e.baseline[p] \in Held'
          BY <1>2, <2>3 DEF ShownFits, Held
        <5>3. QED BY <1>3, <5>1, <5>2
      <4>3. QED BY <4>1, <4>2
    <3>6. QED BY <1>3, <3>4, <3>5 DEF CallAgrees
  <2>8. MergeFits(t, tab[t], call[c])'
    <3>1. /\ tab'[t].typed \subseteq EditsOf(t, call[c].snapshot)' \cup published'
          /\ tab'[t].value = call'[c].snapshot /\ tab'[t].status = "saving"
      BY <1>2, <1>3, <2>3 DEF ShownFits, EditsOf
    <3>2. \A p : p \notin DOMAIN tab'[t].commands
      BY <1>2 DEF NoCommands
    <3>3. QED BY <3>1, <3>2 DEF MergeFits, EditsOf
  <2>9. QED BY <2>5, <2>6, <2>7, <2>8
<1>6. QED BY <1>4, <1>5 DEF MergeInv

-----------------------------------------------------------------------------
(* The steps of the server keep it: the request that an editor waits for   *)
(* begins once and is written as it was sent.                              *)

LEMMA ServerStepFits ==
    ASSUME EditorTypes, MergeInv, UNCHANGED <<engine, tab>>, published \subseteq published',
           \A d \in Calls : SameRequest(call[d], call'[d]) /\ (InUse(d)' <=> InUse(d)),
           \A t \in Tabs : \A d \in InFlight(t) : CallAgrees(t, d) =>
              /\ call'[d].stage = "sent" => stored'.ops[call[d].op].status = "ABSENT"
              /\ call'[d].stage = "written"
                   \/ (call'[d].stage = "answered" /\ call'[d].answer = "ok")
                    => \A q \in DOMAIN call[d].payload : call[d].payload[q] \in published'
    PROVE  MergeInv'
<1>. SUFFICES ASSUME NEW t \in Tabs, Unmixed(t)
              PROVE  ShownFits(t, tab[t])' /\ \A d \in InFlight(t)' :
                        CallAgrees(t, d)' /\ MergeFits(t, tab[t], call[d])'
  <2>1. \A t \in Tabs : tab[t].recording => tab[t].last # NoCall /\ engine = "DOCUMENT"
    BY DEF MergeInv, TypingFits
  <2>2. \A t \in Tabs : Unmixed(t)' <=> Unmixed(t)
    BY DEF Unmixed
  <2>3. QED BY <2>1, <2>2 DEF MergeInv, TypingFits
<1>1. /\ ShownFits(t, tab[t])
      /\ \A d \in InFlight(t) : CallAgrees(t, d) /\ MergeFits(t, tab[t], call[d])
  BY DEF MergeInv, TypingFits
<1>2. ShownFits(t, tab[t])'
  BY <1>1 DEF ShownFits, Held, EditsOf
<1>3. ASSUME NEW d \in InFlight(t)' PROVE CallAgrees(t, d)' /\ MergeFits(t, tab[t], call[d])'
  <2>1. d \in Calls /\ d \in InFlight(t) /\ SameRequest(call[d], call'[d])
    BY <1>3 DEF InFlight, InUse, SameRequest
  <2>2. CallAgrees(t, d) /\ MergeFits(t, tab[t], call[d])
    BY <1>1, <2>1
  <2>3. \A b \in Calls \ {d} : InUse(b)' => call'[b].op # call'[d].op
    BY <2>1, <2>2 DEF CallAgrees, SameRequest
  <2>4. CallAgrees(t, d)'
    BY <2>1, <2>2, <2>3 DEF CallAgrees, SameRequest, Sent, Held
  <2>5. MergeFits(t, tab[t], call[d])'
    BY <2>1, <2>2 DEF MergeFits, SameRequest, Held, EditsOf
  <2>6. QED BY <2>4, <2>5
<1>4. QED BY <1>2, <1>3

\* One request moves on, and with it no row but its own.
LEMMA OneMoveFits ==
    ASSUME EditorTypes, MergeInv, UNCHANGED <<engine, tab>>, published \subseteq published',
           NEW c \in Calls, InUse(c), NEW k, Moves(c, k), k.stage # "sent",
           \A o \in OpIds \ {call[c].op} : stored'.ops[o] = stored.ops[o],
           \A t \in Tabs :
              /\ CallAgrees(t, c)
              /\ k.stage = "written" \/ (k.stage = "answered" /\ k.answer = "ok")
              => \A q \in DOMAIN call[c].payload : call[c].payload[q] \in published'
    PROVE  MergeInv'
<1>1. /\ \A d \in Calls : SameRequest(call[d], call'[d]) /\ (InUse(d)' <=> InUse(d))
      /\ call'[c] = k /\ \A d \in Calls \ {c} : call'[d] = call[d]
  BY MovesOne
<1>2. ASSUME NEW t \in Tabs, NEW d \in InFlight(t), CallAgrees(t, d)
      PROVE  /\ call'[d].stage = "sent" => stored'.ops[call[d].op].status = "ABSENT"
             /\ call'[d].stage = "written"
                  \/ (call'[d].stage = "answered" /\ call'[d].answer = "ok")
                   => \A q \in DOMAIN call[d].payload : call[d].payload[q] \in published'
  <2>1. CASE d = c
    BY <1>1, <1>2, <2>1
  <2>2. CASE d # c
    <3>1. d \in Calls \ {c} /\ call'[d] = call[d] /\ call[d].op \in OpIds
      BY <1>1, <2>2, OpTyped DEF InFlight
    <3>2. call[d].op # call[c].op
      BY <1>2, <3>1 DEF CallAgrees
    <3>3. stored'.ops[call[d].op] = stored.ops[call[d].op]
      BY <3>1, <3>2
    <3>4. QED BY <1>2, <3>1, <3>3 DEF CallAgrees, Sent
  <2>3. QED BY <2>1, <2>2
<1>3. QED BY <1>1, <1>2, ServerStepFits

LEMMA ReplayFits ==
    ASSUME EditorTypes, EditorTypes', SaveInv, MergeInv, NEW c \in Calls,
           Replay(c) \/ Finish(c) \/ BreakOff(c)
    PROVE  MergeInv'
<1>. DEFINE o == call[c].op
<1>1. /\ UNCHANGED <<scope, engine, tab, drafts, issued, published>> /\ InUse(c)
      /\ \/ UNCHANGED stored /\ (Reply(c, "conflict") \/ Reply(c, "failed"))
         \/ /\ SetRow(o, "COMPLETED") /\ ReplyOk(c)
            /\ \/ call[c].stage = "written"
               \/ call[c].stage = "sent" /\ stored.ops[o].status # "ABSENT"
  BY DEF Replay, Finish, BreakOff, InUse
<1>2. CASE UNCHANGED stored /\ (Reply(c, "conflict") \/ Reply(c, "failed"))
  <2>1. PICK k \in SaveCall : /\ Moves(c, k) /\ k.stage = "answered"
                              /\ k.answer \in {"conflict", "failed"}
    BY <1>2, ReplyMoves
  <2>2. QED BY <1>1, <1>2, <2>1, OneMoveFits
<1>3. CASE /\ SetRow(o, "COMPLETED") /\ ReplyOk(c)
           /\ \/ call[c].stage = "written"
              \/ call[c].stage = "sent" /\ stored.ops[o].status # "ABSENT"
  <2>1. PICK k \in SaveCall : Moves(c, k) /\ k.stage = "answered"
    BY <1>3, ReplyMoves
  <2>2. \A p \in OpIds \ {o} : stored'.ops[p] = stored.ops[p]
    BY <1>3, OpTyped, SetRowDoes
  <2>3. ASSUME NEW t \in Tabs, CallAgrees(t, c)
        PROVE  \A q \in DOMAIN call[c].payload : call[c].payload[q] \in published'
    BY <1>1, <1>3, <2>3 DEF CallAgrees, Sent
  <2>. HIDE DEF o
  <2>4. \A p \in OpIds \ {call[c].op} : stored'.ops[p] = stored.ops[p]
    BY <2>2 DEF o
  <2>5. QED BY <1>1, <2>1, <2>3, <2>4, OneMoveFits
<1>4. QED BY <1>1, <1>2, <1>3

LEMMA BeginSaveFits ==
    ASSUME EditorTypes, EditorTypes', SaveInv, MergeInv, NEW c \in Calls, BeginSave(c)
    PROVE  MergeInv'
<1>1. UNCHANGED <<scope, engine, tab, drafts, issued, published>> /\ InUse(c)
  BY DEF BeginSave, InUse
<1>2. CASE UNCHANGED stored /\ (Reply(c, "conflict") \/ Reply(c, "failed"))
  <2>1. PICK k \in SaveCall : /\ Moves(c, k) /\ k.stage = "answered"
                              /\ k.answer \in {"conflict", "failed"}
    BY <1>2, ReplyMoves
  <2>2. QED BY <1>1, <1>2, <2>1, OneMoveFits
<1>3. CASE /\ stored' = [stored EXCEPT !.ops[call[c].op] =
                           [status |-> "PENDING", result |-> 0, expected |-> call[c].expected]]
           /\ call' = [call EXCEPT ![c].stage = "begun"]
  <2>. DEFINE k == [call[c] EXCEPT !.stage = "begun"]
  <2>1. call' = [call EXCEPT ![c] = k] /\ k.stage = "begun" /\ SameRequest(call[c], k)
    BY <1>3, OpTyped DEF EditorTypes, EditorTypeOK, SaveCall, SameRequest
  <2>. HIDE DEF k
  <2>2. Moves(c, k)
    BY <2>1 DEF Moves
  <2>3. \A p \in OpIds \ {call[c].op} : stored'.ops[p] = stored.ops[p]
    BY <1>3, OpTyped DEF Stored
  <2>4. k.stage \notin {"sent", "written", "answered"}
    BY <2>1
  <2>5. QED BY <1>1, <2>2, <2>3, <2>4, OneMoveFits
<1>4. QED BY <1>2, <1>3 DEF BeginSave

LEMMA WriteFits ==
    ASSUME EditorTypes, EditorTypes', SaveInv, MergeInv, NEW c \in Calls, Write(c)
    PROVE  MergeInv'
<1>1. /\ call[c].stage = "begun" /\ UNCHANGED <<scope, engine, tab, drafts, issued>>
      /\ \/ \E m \in SaveCall : WriteStep(c, m)
         \/ /\ stored.rev # call[c].expected /\ UNCHANGED published
            /\ SetRow(call[c].op, "FAILED") /\ Reply(c, "conflict")
  BY WriteMoves
<1>2. InUse(c)
  BY <1>1 DEF InUse
<1>3. ASSUME NEW m \in SaveCall, WriteStep(c, m) PROVE MergeInv'
  <2>1. /\ Moves(c, m) /\ m.stage # "sent" /\ published \subseteq published'
        /\ \A p \in Parts : Over(stored.content, call[c].payload)[p] \in published'
        /\ \A o \in OpIds \ {call[c].op} : stored'.ops[o] = stored.ops[o]
    BY <1>3 DEF WriteStep, FileMoves
  <2>2. DOMAIN call[c].payload \subseteq Parts
    BY OpTyped, PatchFacts DEF SaveCall
  <2>3. \A q \in DOMAIN call[c].payload : call[c].payload[q] \in published'
    BY <2>1, <2>2 DEF Over
  <2>4. QED BY <1>1, <1>2, <2>1, <2>3, OneMoveFits
<1>4. ASSUME UNCHANGED published, SetRow(call[c].op, "FAILED"), Reply(c, "conflict")
      PROVE  MergeInv'
  <2>1. PICK k \in SaveCall : Moves(c, k) /\ k.stage = "answered" /\ k.answer = "conflict"
    BY <1>4, ReplyMoves
  <2>2. \A o \in OpIds \ {call[c].op} : stored'.ops[o] = stored.ops[o]
    BY <1>4, OpTyped, SetRowDoes
  <2>3. QED BY <1>1, <1>2, <1>4, <2>1, <2>2, OneMoveFits
<1>5. QED BY <1>1, <1>3, <1>4

LEMMA ReconcileFits ==
    ASSUME EditorTypes, EditorTypes', SaveInv, MergeInv, NEW o \in OpIds, Reconcile(o)
    PROVE  MergeInv'
<1>1. /\ SetRow(o, "COMPLETED") /\ stored.ops[o].status = "PROVIDER_WRITTEN"
      /\ UNCHANGED <<engine, tab, call, drafts, issued, published>>
  BY DEF Reconcile
<1>2. \A p \in OpIds \ {o} : stored'.ops[p] = stored.ops[p]
  BY <1>1, SetRowDoes
<1>3. \A d \in Calls : SameRequest(call[d], call'[d]) /\ (InUse(d)' <=> InUse(d))
  BY <1>1 DEF SameRequest, InUse
<1>4. ASSUME NEW t \in Tabs, NEW d \in InFlight(t), CallAgrees(t, d)
      PROVE  /\ call'[d].stage = "sent" => stored'.ops[call[d].op].status = "ABSENT"
             /\ call'[d].stage = "written"
                  \/ (call'[d].stage = "answered" /\ call'[d].answer = "ok")
                   => \A q \in DOMAIN call[d].payload : call[d].payload[q] \in published'
  <2>1. call[d].op \in OpIds
    BY OpTyped DEF InFlight
  <2>2. QED BY <1>1, <1>2, <1>4, <2>1 DEF CallAgrees, Sent
<1>5. QED BY <1>1, <1>3, <1>4, ServerStepFits

-----------------------------------------------------------------------------
(* The answer loses nothing.                                               *)

\* Once its one request is gone, a Unmixed editor waits for none.
LEMMA FlightEnds ==
    ASSUME MergeInv, NEW t \in Tabs, Unmixed(t), NEW c \in InFlight(t), CallsKept,
           call'[c].stage = "free" \/ ~call'[c].heard
    PROVE  InFlight(t)' = {}
<1>1. InFlight(t) = {c}
  BY OneFlight
<1>2. \A d \in Calls : call'[d].stage # "free" /\ call'[d].tab = t /\ call'[d].heard
         => d \in InFlight(t)
  BY DEF CallsKept, KeptCall, InFlight
<1>3. QED BY <1>1, <1>2 DEF InFlight

\* What each way of merging makes of what was typed, when the payload is stored.
LEMMA MergeShows ==
    ASSUME EditorTypes, NEW t \in Tabs, NEW c \in Calls, NEW e, NEW n,
           Shows(call[c], ~call[c].edited, e, n), n.typed = e.typed,
           ShownFits(t, e), CallAgrees(t, c), MergeFits(t, e, call[c]), Sent(call[c]),
           \A p \in Parts : call[c].model[p] \in Held, e.value \in Content
    PROVE  ShownFits(t, n)
<1>. DEFINE k == call[c]
<1>1. k \in SaveCall /\ k.model \in [Parts -> Value] /\ k.snapshot \in [Parts -> Value]
      /\ engine \in Engines
  BY OpTyped DEF SaveCall, Content, EditorTypes, EditorTypeOK
<1>2. \A p \in Parts : k.snapshot[p] \in Held
  BY SnapshotHeld
<1>3. EditsOf(t, k.snapshot) \subseteq published
  BY <1>2, HeldEdits
<1>4. \A p \in Parts : e.baseline[p] \in Held
  BY DEF ShownFits
<1>5. ASSUME NEW i \in e.typed, i \notin published
      PROVE  \E p \in Parts : /\ i = e.value[p] /\ e.value[p] \notin Held
                              /\ i \in {t} \X (1..MaxEdits)
  <2>1. i \in EditsOf(t, e.value)
    BY <1>5 DEF ShownFits
  <2>2. PICK p \in Parts : i = e.value[p]
    BY <2>1 DEF EditsOf
  <2>3. i \in {t} \X (1..MaxEdits)
    BY <2>1 DEF EditsOf
  <2>4. 1..MaxEdits \in SUBSET Nat
    BY EditorConstants
  <2>5. i \in Tabs \X Nat
    BY <2>3, <2>4
  <2>6. i # NoEdit
    BY <2>5, EditorConstants
  <2>7. QED BY <1>5, <2>2, <2>3, <2>6 DEF Held
\* Of a value that keeps what the file has never held.
<1>6. ASSUME \A p \in Parts : e.value[p] \notin Held => n.value[p] = e.value[p]
      PROVE  n.typed \subseteq EditsOf(t, n.value) \cup published
  <2>1. ASSUME NEW i \in e.typed, i \notin published PROVE i \in EditsOf(t, n.value)
    <3>1. PICK p \in Parts : /\ i = e.value[p] /\ e.value[p] \notin Held
                             /\ i \in {t} \X (1..MaxEdits)
      BY <1>5, <2>1
    <3>2. n.value[p] = i
      BY <1>6, <3>1
    <3>3. QED BY <3>1, <3>2 DEF EditsOf
  <2>2. QED BY <2>1
<1>7. CASE engine = "TEXT"
  <2>1. ShowsText(k, ~k.edited, e, n)
    BY <1>7 DEF Shows
  <2>2. \A p \in Parts : n.baseline[p] \in Held
    BY <2>1 DEF ShowsText
  <2>3. CASE k.edited
    <3>1. n.value = e.value
      BY <2>1, <2>3 DEF ShowsText
    <3>2. QED BY <1>6, <1>7, <2>2, <3>1 DEF ShownFits
  <2>4. CASE ~k.edited
    <3>1. e.typed \subseteq published
      BY <1>3, <1>7, <2>4 DEF MergeFits
    <3>2. QED BY <1>7, <2>2, <3>1 DEF ShownFits
  <2>5. QED BY <2>3, <2>4
<1>8. CASE engine = "SPREADSHEET"
  <2>1. n.baseline = k.model /\ n.value = Replayed(k, e)
    BY <1>8 DEF Shows, ShowsSheet
  <2>2. ASSUME NEW p \in Parts, e.value[p] \notin Held PROVE n.value[p] = e.value[p]
    <3>1. e.value[p] # e.baseline[p]
      BY <1>4, <2>2
    <3>2. ~(p \in DOMAIN k.payload /\ e.value[p] = k.payload[p])
      BY <2>2 DEF Sent, Held
    <3>3. QED BY <2>1, <3>1, <3>2 DEF Replayed
  <2>3. n.typed \subseteq EditsOf(t, n.value) \cup published
    BY <1>6, <2>2
  <2>4. QED BY <1>8, <2>1, <2>3 DEF ShownFits
<1>9. CASE engine = "PRESENTATION"
  <2>1. ShowsSlides(k, ~k.edited, e, n)
    BY <1>9 DEF Shows
  <2>2. n.value = e.value
    BY <2>1 DEF ShowsSlides
  <2>3. CASE k.edited
    <3>1. n.baseline = k.snapshot /\ n.status = "dirty"
      BY <2>1, <2>3 DEF ShowsSlides
    <3>2. QED BY <1>2, <1>6, <2>2, <3>1 DEF ShownFits
  <2>4. CASE ~k.edited
    <3>1. n.baseline = e.value /\ e.value \in {k.snapshot, e.baseline}
      BY <1>9, <2>1, <2>4 DEF ShowsSlides, MergeFits
    <3>2. \A p \in Parts : n.baseline[p] \in Held
      BY <1>2, <1>4, <3>1
    <3>3. e.typed \subseteq published
      BY <1>3, <1>9, <2>4 DEF MergeFits
    <3>4. QED BY <3>2, <3>3 DEF ShownFits
  <2>5. QED BY <2>3, <2>4
<1>10. CASE engine = "DOCUMENT"
  <2>1. /\ n.baseline = k.model
        /\ n.value = IF e.value = k.snapshot THEN k.model ELSE Rebased(k, e)
    BY <1>10 DEF Shows, ShowsDocument
  <2>2. CASE e.value = k.snapshot
    <3>1. e.typed \subseteq published
      BY <1>3, <2>2 DEF ShownFits
    <3>2. QED BY <1>10, <2>1, <3>1 DEF ShownFits
  <2>3. CASE e.value # k.snapshot
    <3>1. n.value = Rebased(k, e)
      BY <2>1, <2>3
    <3>2. ASSUME NEW p \in Parts, e.value[p] \notin Held PROVE n.value[p] = e.value[p]
      <4>1. CASE e.recording /\ DOMAIN e.commands # {}
        <5>1. p \in DOMAIN e.commands /\ e.commands[p] = e.value[p]
          BY <1>2, <1>10, <3>2, <4>1 DEF MergeFits
        <5>2. n.value[p] = Over(k.model, e.commands)[p]
          BY <3>1, <4>1 DEF Rebased
        <5>3. QED BY <5>1, <5>2 DEF Over
      <4>2. CASE ~(e.recording /\ DOMAIN e.commands # {})
        BY <3>1, <4>2 DEF Rebased
      <4>3. QED BY <4>1, <4>2
    <3>3. n.typed \subseteq EditsOf(t, n.value) \cup published
      BY <1>6, <3>2
    <3>4. QED BY <1>10, <2>1, <3>3 DEF ShownFits
  <2>4. QED BY <2>2, <2>3
<1>11. QED BY <1>1, <1>7, <1>8, <1>9, <1>10 DEF Engines

LEMMA TakeAnswerFits ==
    ASSUME EditorTypes, EditorTypes', SaveInv, MergeInv, NEW c \in Calls, TakeAnswer(c)
    PROVE  MergeInv'
<1>1. PICK t \in Tabs : t = call[c].tab
  BY OpTyped
<1>. DEFINE k == call[c]
            e == tab[t]
            n == AnsweredBy(e, c)
<1>2. /\ k.stage = "answered" /\ k.answer = "ok" /\ k.heard
      /\ UNCHANGED <<scope, engine, stored, issued, published>>
  BY DEF TakeAnswer
<1>3. c \in InFlight(t) /\ e \in Editor /\ e.value \in Content
  BY <1>1, <1>2, HeardInOpenTab DEF InUse, EditorTypes, EditorTypeOK, Editor
<1>4. /\ n.op = 0 /\ SameUser(e, n) /\ Shows(k, ~k.edited, e, n)
      /\ \/ n.recording = e.recording /\ n.last = e.last
         \/ ~n.recording
  BY <1>3, AnsweredIs DEF AllSaved
<1>5. FreedTypes(c, call') /\ tab' = [tab EXCEPT ![t] = n]
  BY <1>1, TakeAnswerTyped
<1>. HIDE DEF n
<1>6. CallsKept /\ MarksKept /\ call'[c].stage = "free"
  BY <1>5, CallsAreKept, MarksAreKept DEF FreedTypes
<1>7. TypingFits(t)
  BY DEF MergeInv
<1>8. n.recording => n.last # NoCall /\ engine = "DOCUMENT"
  BY <1>4, <1>7 DEF TypingFits
<1>9. ASSUME ~n.reused, ~n.mixed PROVE ShownFits(t, n) /\ InFlight(t)' = {}
  <2>1. Unmixed(t)
    BY <1>4, <1>9 DEF Unmixed, SameUser
  <2>2. InFlight(t)' = {}
    BY <1>3, <1>6, <2>1, FlightEnds
  <2>3. ShownFits(t, e) /\ CallAgrees(t, c) /\ MergeFits(t, e, k)
    BY <1>3, <1>7, <2>1 DEF TypingFits
  <2>4. Sent(k) /\ \A p \in Parts : k.model[p] \in Held
    BY <1>2, <2>3, OwnRow DEF CallAgrees, StageFits, InUse
  <2>5. n.typed = e.typed
    BY <1>4 DEF SameUser
  <2>. HIDE DEF e
  <2>6. ShownFits(t, n)
    BY <1>3, <1>4, <2>3, <2>4, <2>5, MergeShows
  <2>7. QED BY <2>2, <2>6
<1>10. QED BY <1>2, <1>5, <1>6, <1>8, <1>9, TabStepFits

LEMMA TakeFailureFits ==
    ASSUME EditorTypes, EditorTypes', SaveInv, MergeInv, NEW c \in Calls, TakeFailure(c)
    PROVE  MergeInv'
<1>1. PICK t \in Tabs : t = call[c].tab
  BY OpTyped
<1>. DEFINE e == tab[t]
<1>2. c \in InFlight(t) /\ e \in Editor
  BY <1>1 DEF TakeFailure, InFlight, EditorTypes, EditorTypeOK
<1>3. PICK status \in {"failed", "conflict"} : tab' = [tab EXCEPT ![t] = FailedBy(e, c, status)]
  BY <1>1, TakeFailureTyped
<1>. DEFINE n == FailedBy(e, c, status)
<1>4. /\ SameUser(e, n) /\ n.baseline = e.baseline /\ n.value = e.value /\ n.status = status
      /\ \/ n.recording = e.recording /\ n.last = e.last
         \/ ~n.recording
  BY <1>2, FailedIs
<1>5. tab' = [tab EXCEPT ![t] = n]
  BY <1>3
<1>. HIDE DEF n
<1>6. /\ FreedTypes(c, call') \/ call' = [call EXCEPT ![c] = [call[c] EXCEPT !.heard = FALSE]]
      /\ UNCHANGED <<scope, engine, stored, drafts, issued, published>>
  BY TakeFailureTyped
<1>7. /\ CallsKept /\ MarksKept
      /\ call'[c].stage = "free" \/ ~call'[c].heard
  <2>1. ~[call[c] EXCEPT !.heard = FALSE].heard
    BY OpTyped DEF SaveCall
  <2>2. QED BY <1>6, <2>1, CallsAreKept, MarksAreKept DEF FreedTypes, EditorTypes, EditorTypeOK
<1>8. TypingFits(t)
  BY DEF MergeInv
<1>9. n.recording => n.last # NoCall /\ engine = "DOCUMENT"
  BY <1>4, <1>8 DEF TypingFits
<1>10. ASSUME ~n.reused, ~n.mixed PROVE ShownFits(t, n) /\ InFlight(t)' = {}
  <2>1. Unmixed(t)
    BY <1>4, <1>10 DEF Unmixed, SameUser
  <2>2. InFlight(t)' = {}
    BY <1>2, <1>7, <2>1, FlightEnds
  <2>3. ShownFits(t, e) /\ n.typed = e.typed
    BY <1>4, <1>8, <2>1 DEF TypingFits, SameUser
  <2>4. n.status # "clean"
    BY <1>4
  <2>5. QED BY <1>4, <2>2, <2>3, <2>4 DEF ShownFits
<1>11. QED BY <1>5, <1>6, <1>7, <1>9, <1>10, TabStepFits

LEMMA VanishFits ==
    ASSUME EditorTypes, EditorTypes', MergeInv, NEW c \in Calls, Vanish(c)
    PROVE  MergeInv'
<1>1. UNCHANGED <<engine, stored, tab, published>> /\ FreedTypes(c, call')
  BY VanishTyped DEF Vanish
<1>2. PICK t \in Tabs : TRUE
  BY EditorConstants
<1>3. /\ tab' = [tab EXCEPT ![t] = tab[t]] /\ SameWork(tab[t], tab[t])
      /\ CallsKept /\ MarksKept
  BY <1>1, CallsAreKept, MarksAreKept DEF SameWork, EditorTypes, EditorTypeOK
<1>4. QED BY <1>1, <1>3, SameWorkKeeps

LEMMA MergeInvStart == EditorInit => MergeInv
<1>. SUFFICES ASSUME EditorInit, NEW t \in Tabs PROVE TypingFits(t)
  BY DEF MergeInv
<1>1. EditorTypes /\ SaveInv
  BY EditorTypesStart, SaveInvStart
<1>2. 0 \in 0..MaxEdits
  BY EditorConstants
<1>3. FreshFields(t, tab[t]) /\ ~tab[t].recording
  BY <1>1, <1>2, FreshIs DEF EditorInit
<1>4. ShownFits(t, tab[t])
  BY <1>1, <1>3, FreshFits
<1>5. InFlight(t) = {}
  BY IdleTyped DEF EditorInit, InFlight
<1>6. QED BY <1>3, <1>4, <1>5 DEF TypingFits

LEMMA MergeInvKept ==
    EditorTypes /\ EditorTypes' /\ SaveInv /\ SaveInv' /\ MergeInv /\ [EditorNext]_editorVars
    => MergeInv'
<1>. SUFFICES ASSUME EditorTypes, EditorTypes', SaveInv, SaveInv', MergeInv,
                     [EditorNext]_editorVars
              PROVE  MergeInv'
  OBVIOUS
<1>1. CASE UNCHANGED editorVars
  <2>1. PICK t \in Tabs : TRUE
    BY EditorConstants
  <2>2. /\ tab' = [tab EXCEPT ![t] = tab[t]] /\ SameWork(tab[t], tab[t])
        /\ CallsKept /\ MarksKept /\ UNCHANGED <<engine, stored, published>>
    BY <1>1, CallsAreKept, MarksAreKept DEF editorVars, SameWork, EditorTypes, EditorTypeOK
  <2>3. QED BY <2>2, SameWorkKeeps
<1>2. ASSUME NEW t \in Tabs,
             OpenEditor(t) \/ CloseEditor(t) \/ Undo(t) \/ Flush(t) \/ ListDrafts(t)
             \/ Restore(t) \/ DiscardDraft(t) \/ Reload(t) \/ Discard(t) \/ NothingToSave(t)
      PROVE  MergeInv'
  BY <1>2, OpenCloseFits, TypingFitsOn, DraftStepsFit, DraftMerges, ReloadFits, DiscardFits,
     NothingToSaveFits
<1>3. ASSUME NEW t \in Tabs, NEW p \in Parts, Type(t, p) PROVE MergeInv'
  BY <1>3, TypingFitsOn
<1>4. ASSUME NEW t \in Tabs, NEW c \in Calls, Save(t, c) PROVE MergeInv'
  BY <1>4, SaveFits
<1>5. ASSUME NEW c \in Calls,
             Replay(c) \/ BeginSave(c) \/ Write(c) \/ Finish(c) \/ BreakOff(c)
             \/ TakeAnswer(c) \/ TakeFailure(c) \/ Vanish(c)
      PROVE  MergeInv'
  BY <1>5, ReplayFits, BeginSaveFits, WriteFits, TakeAnswerFits, TakeFailureFits, VanishFits
<1>6. ASSUME NEW o \in OpIds, Reconcile(o) PROVE MergeInv'
  BY <1>6, ReconcileFits
<1>7. QED BY <1>1, <1>2, <1>3, <1>4, <1>5, <1>6 DEF EditorNext

LEMMA MergeInvIsEnough == EditorTypes /\ MergeInv => MergeLosesNothing
<1>. SUFFICES ASSUME EditorTypes, MergeInv, NEW t \in Tabs, ShownAsSaved(tab[t]), Unmixed(t)
              PROVE  tab[t].typed \subseteq published
  BY DEF MergeLosesNothing, Unmixed
<1>1. ShownFits(t, tab[t]) /\ tab[t].status = "clean"
  BY DEF MergeInv, TypingFits, ShownAsSaved
<1>2. CASE engine = "PRESENTATION"
  BY <1>1, <1>2 DEF ShownFits
<1>3. CASE engine # "PRESENTATION"
  <2>1. tab[t].value = tab[t].baseline
    BY <1>3 DEF ShownAsSaved, IsDirty
  <2>2. EditsOf(t, tab[t].value) \subseteq published
    BY <1>1, <2>1, HeldEdits DEF ShownFits
  <2>3. QED BY <1>1, <2>2 DEF ShownFits
<1>4. QED BY <1>2, <1>3

\* An editor that says "saved" has had every edit its user left in it stored,
\* whichever of the four ways its engine merges answers with later typing, unless
\* it sent an operation id twice or restored a draft into a document being saved.
THEOREM MergesAreSound == EditorSpec => []MergeLosesNothing
<1>1. EditorInit => EditorTypes /\ SaveInv /\ MergeInv
  BY EditorTypesStart, SaveInvStart, MergeInvStart
<1>2. EditorTypes /\ SaveInv /\ MergeInv /\ [EditorNext]_editorVars
      => (EditorTypes /\ SaveInv /\ MergeInv)'
  BY EditorTypesKept, SaveInvKept, MergeInvKept
<1>3. EditorTypes /\ SaveInv /\ MergeInv => MergeLosesNothing
  BY MergeInvIsEnough
<1>4. QED BY <1>1, <1>2, <1>3, PTL DEF EditorSpec

=============================================================================
