------------------------- MODULE MCWorkspaceProofs -------------------------
(***************************************************************************)
(* Theorems about the saves of office files, OfficeSaves, as far as no     *)
(* parser has to be followed over a text of any length: presentations and  *)
(* text files; and about the workspace as a whole, MCWorkspace.  One       *)
(* component moves in a behaviour and the others rest, so every behaviour  *)
(* of the whole is one of each component, and what is proved of the        *)
(* components in EditorProofs and WorkspaceProofs holds of it.             *)
(***************************************************************************)
EXTENDS MCWorkspace, EditorProofs, WorkspaceProofs

-----------------------------------------------------------------------------
(* The saves of office files.                                              *)

\* The state is a record; a text file and a slide keep their types, and the last
\* edits of one read as meant, unless they were a text that the format refuses.
OfficeInv ==
    /\ office = [format |-> office.format, before |-> office.before, content |-> office.content,
                 edits |-> office.edits, refused |-> office.refused, left |-> office.left]
    /\ office.format = "TEXT" =>
         /\ IsTextFile(office.content)
         /\ office.edits # <<>> =>
              /\ office.refused <=> Malformed
              /\ office.refused => office.content = office.before
              /\ ~office.refused => TextAsMeant(office.before, office.edits[1], office.content)
    /\ office.format = "PRESENTATION" =>
         /\ IsSlide(office.content)
         /\ office.edits # <<>> =>
              ~office.refused /\ SlideAsMeant(office.before, office.edits, office.content)

-----------------------------------------------------------------------------
(* Text files.                                                             *)

\* A sequence, by the values it has.
LEMMA SequenceIs ==
    ASSUME NEW s, s \in Seq(ToSet(s))
    PROVE Len(s) \in Nat /\ DOMAIN s = 1 .. Len(s) /\ s = [i \in 1 .. Len(s) |-> s[i]]
OBVIOUS

\* A sequence of its length, from its places.
LEMMA SequenceFrom ==
    ASSUME NEW n \in Nat, NEW s, s = [i \in 1 .. n |-> s[i]]
    PROVE s \in Seq(ToSet(s)) /\ Len(s) = n
<1>1. \A i \in 1 .. n : s[i] \in ToSet(s)
  BY DEF ToSet
<1>2. s \in Seq(ToSet(s))
  BY <1>1
<1> QED
  BY <1>2

LEMMA HasIs == ASSUME NEW text, IsText(text), NEW char
               PROVE Has(text, char) <=> \E i \in DOMAIN text : text[i] = char
<1> DEFINE S == {i \in DOMAIN text : text[i] = char}
<1>1. IsFiniteSet(S)
  <2>1. Len(text) \in Nat /\ DOMAIN text = 1 .. Len(text)
    BY SequenceIs DEF IsText
  <2>2. IsFiniteSet(1 .. Len(text)) /\ S \in SUBSET (1 .. Len(text))
    BY <2>1, FS_Interval
  <2> QED
    BY <2>2, FS_Subset
<1>2. Cardinality(S) \in Nat /\ (Cardinality(S) = 0 <=> S = {})
  BY <1>1, FS_CardinalityType, FS_EmptySet
<1>3. Has(text, char) <=> Cardinality(S) > 0
  BY DEF Has, Occurrences
<1> HIDE DEF S
<1>4. Has(text, char) <=> S # {}
  BY <1>2, <1>3
<1> QED
  BY <1>4 DEF S

LEMMA TextSavedAsMeant ==
    ASSUME NEW source, IsTextFile(source), NEW content \in Contents
    PROVE IsTextFile(EncodeUtf8(source, content))
          /\ TextAsMeant(source, content, EncodeUtf8(source, content))
<1> DEFINE old == source.chars
           crlf == [i \in DOMAIN content |-> IF content[i] = "\n" THEN "\r\n" ELSE content[i]]
           new == IF LineEndingOf(old) # "crlf" THEN content ELSE crlf
<1>1. /\ IsText(content) /\ \A i \in DOMAIN content : content[i] \notin {"\r", "\r\n"}
      /\ IsText(old) /\ source.bom \in BOOLEAN /\ source.format \in TextFormats
  BY OfficeConstants DEF IsTextFile, ToSet
<1>2. Len(content) \in Nat /\ DOMAIN content = 1 .. Len(content)
      /\ content = [i \in DOMAIN content |-> content[i]]
  BY <1>1, SequenceIs DEF IsText
<1>3. EncodeUtf8(source, content) = [format |-> source.format, bom |-> source.bom, chars |-> new]
  BY DEF EncodeUtf8
<1> HIDE DEF old
<1>4. InTextArea(new) = content
  <2>1. \A i \in DOMAIN content :
          (IF new[i] \in {"\r", "\r\n"} THEN "\n" ELSE new[i]) = content[i]
    BY <1>1
  <2>2. DOMAIN new = DOMAIN content
    OBVIOUS
  <2> HIDE DEF new
  <2> QED
    BY <1>2, <2>1, <2>2 DEF InTextArea
<1>5. IsText(new)
  <2>1. new = [i \in 1 .. Len(content) |-> new[i]]
    BY <1>2
  <2> HIDE DEF new
  <2> QED
    BY <1>2, <2>1, SequenceFrom DEF IsText
<1>6. ~Has(new, "\r") /\ (Has(new, "\r\n") => LineEndingOf(old) = "crlf")
      /\ (Has(new, "\n") => LineEndingOf(old) # "crlf")
  BY <1>1, <1>2, <1>5, HasIs
<1> HIDE DEF new
<1>7. LineEndingOf(old) \in {"lf", "crlf"} => LineEndingOf(new) \in {LineEndingOf(old), "none"}
  <2>1. LineEndingOf(new) \in {"crlf", "lf", "none"}
        /\ (LineEndingOf(new) = "crlf" => Has(new, "\r\n"))
        /\ (LineEndingOf(new) = "lf" => Has(new, "\n"))
    BY <1>6 DEF LineEndingOf
  <2> QED
    BY <1>6, <2>1
<1> QED
  BY <1>1, <1>3, <1>4, <1>5, <1>7 DEF IsTextFile, TextAsMeant, old

-----------------------------------------------------------------------------
(* Slides.                                                                 *)

\* On a plain slide the parser and the source map mean one element by an id.
LEMMA OneElementPerId ==
    ASSUME NEW slide, IsSlide(slide), PlainSlide(slide), NEW i \in DOMAIN slide
    PROVE /\ ElementId(slide, i) = slide[i].sourceId
          /\ MappedElement(slide, slide[i].sourceId) = {i}
          /\ ElementById(slide, slide[i].sourceId) = i
<1>1. \A j \in DOMAIN slide : ElementId(slide, j) = slide[j].sourceId
  BY DEF PlainSlide, ElementId
<1>2. slide[i].sourceId # 0
      /\ \A j \in DOMAIN slide : slide[j].sourceId = slide[i].sourceId => j = i
  BY DEF PlainSlide
<1>3. DOMAIN slide = 1 .. Len(slide) /\ Len(slide) \in Nat /\ i \in Nat
  BY SequenceIs DEF IsSlide
<1>4. MappedElement(slide, slide[i].sourceId) = {i}
  BY <1>2, <1>3 DEF MappedElement
<1>5. ElementById(slide, slide[i].sourceId) = i
  <2>1. {j \in DOMAIN slide : ElementId(slide, j) = slide[i].sourceId} = {i}
    BY <1>1, <1>2
  <2> QED
    BY <1>3, <2>1 DEF ElementById, Min
<1> QED
  BY <1>1, <1>4, <1>5

\* What the edits of a plain slide are: of elements that offer them.
SlideEditsFit(slide, edits) ==
    \A id \in DOMAIN edits : \E i \in DOMAIN slide :
      /\ id = slide[i].sourceId
      /\ edits[id].text \in {NoText, "new"} /\ edits[id].geometry \in {NoFrame, "moved"}
      /\ edits[id].text # NoText => OffersText(slide[i])
      /\ edits[id].geometry # NoFrame => OffersGeometry(slide[i])

LEMMA SlideEditsAre ==
    ASSUME NEW slide, IsSlide(slide), PlainSlide(slide), NEW edits \in SlideEdits(slide)
    PROVE SlideEditsFit(slide, edits)
<1> DEFINE ids == {ElementId(slide, i) : i \in DOMAIN slide}
           values == [id \in ids |-> ElementEdits(slide[ElementById(slide, id)])]
           offered == [id \in {i \in ids : values[i] # {}} |-> values[id]]
<1>1. edits \in EditsAt(offered)
  BY DEF SlideEdits
<1>2. DOMAIN edits \subseteq DOMAIN offered /\ \A id \in DOMAIN edits : edits[id] \in offered[id]
  <2> HIDE DEF offered
  <2>1. PICK chosen \in SUBSET DOMAIN offered : DOMAIN edits = chosen
    BY <1>1 DEF EditsAt, kSubset
  <2> QED
    BY <1>1, <2>1 DEF EditsAt
<1>3. ASSUME NEW id \in DOMAIN edits
      PROVE \E i \in DOMAIN slide : id = slide[i].sourceId /\ edits[id] \in ElementEdits(slide[i])
  <2>1. id \in ids /\ edits[id] \in values[id]
    BY <1>2, <1>3
  <2>2. PICK i \in DOMAIN slide : id = ElementId(slide, i)
    BY <2>1
  <2> QED
    BY <2>1, <2>2, OneElementPerId
<1> QED
  BY <1>3 DEF SlideEditsFit, ElementEdits

LEMMA SlideSavedAsMeant ==
    ASSUME NEW slide, IsSlide(slide), PlainSlide(slide), NEW edits,
           SlideEditsFit(slide, edits)
    PROVE /\ ~RefusesSlide(slide, edits)
          /\ IsSlide(PatchSlide(slide, edits))
          /\ SlideAsMeant(slide, edits, PatchSlide(slide, edits))
<1>1. ~RefusesSlide(slide, edits)
  <2> SUFFICES ASSUME NEW id \in DOMAIN edits
               PROVE /\ MappedElement(slide, id) # {}
                     /\ \A i \in MappedElement(slide, id) :
                          LET model == slide[ElementById(slide, id)]
                          IN /\ edits[id].text # NoText => OffersText(model) /\ slide[i].text # NoText
                             /\ edits[id].geometry # NoFrame =>
                                  OffersGeometry(model) /\ HasTransform(slide[i])
    BY DEF RefusesSlide
  <2>1. PICK i \in DOMAIN slide :
          /\ id = slide[i].sourceId
          /\ edits[id].text # NoText => OffersText(slide[i])
          /\ edits[id].geometry # NoFrame => OffersGeometry(slide[i])
    BY DEF SlideEditsFit
  <2>2. MappedElement(slide, id) = {i} /\ ElementById(slide, id) = i
    BY <2>1, OneElementPerId
  <2>3. OffersText(slide[i]) => slide[i].text # NoText
    BY DEF OffersText, ElementType
  <2>4. OffersGeometry(slide[i]) => HasTransform(slide[i])
    <3>1. /\ slide[i].kind = "graphicFrame" => slide[i].text = NoText
          /\ slide[i].xfrm # NoFrame
      BY DEF PlainSlide
    <3>2. OffersGeometry(slide[i]) => ElementType(slide[i]) \in {"text", "image", "shape"}
      BY DEF OffersGeometry
    <3>3. slide[i].kind = "graphicFrame" => ElementType(slide[i]) = "unsupported"
      BY <3>1 DEF ElementType
    <3> QED
      BY <3>1, <3>2, <3>3 DEF HasTransform
  <2> QED
    BY <2>1, <2>2, <2>3, <2>4
<1> DEFINE saved == PatchSlide(slide, edits)
           EditedAt(i) == [slide[i] EXCEPT
             !.text = IF edits[slide[i].sourceId].text = NoText THEN @ ELSE edits[slide[i].sourceId].text,
             !.xfrm = IF edits[slide[i].sourceId].geometry = NoFrame THEN @
                      ELSE edits[slide[i].sourceId].geometry]
<1>2. DOMAIN saved = DOMAIN slide
  BY DEF PatchSlide
<1>3. ASSUME NEW i \in DOMAIN slide
      PROVE saved[i] = IF slide[i].sourceId \in DOMAIN edits THEN EditedAt(i) ELSE slide[i]
  <2> DEFINE ids == {id \in DOMAIN edits : i \in MappedElement(slide, id)}
  <2>1. \A id \in DOMAIN edits : i \in MappedElement(slide, id) <=> id = slide[i].sourceId
    <3>1. \A id : i \in MappedElement(slide, id) => id = slide[i].sourceId
      BY DEF MappedElement
    <3> QED
      BY <3>1, OneElementPerId
  <2>2. CASE slide[i].sourceId \in DOMAIN edits
    <3>1. ids = {slide[i].sourceId}
      BY <2>1, <2>2
    <3> QED
      BY <2>2, <3>1 DEF PatchSlide
  <2>3. CASE slide[i].sourceId \notin DOMAIN edits
    <3>1. ids = {}
      BY <2>1, <2>3
    <3> QED
      BY <2>3, <3>1 DEF PatchSlide
  <2> QED
    BY <2>2, <2>3
<1>4. ASSUME NEW i \in DOMAIN slide, slide[i].sourceId \in DOMAIN edits
      PROVE LET patch == edits[slide[i].sourceId]
            IN /\ IsElement(EditedAt(i))
               /\ EditedAt(i).text = IF patch.text # NoText THEN patch.text ELSE slide[i].text
               /\ Geometry(EditedAt(i)) = IF patch.geometry # NoFrame THEN patch.geometry
                                          ELSE Geometry(slide[i])
  <2> DEFINE patch == edits[slide[i].sourceId]
  <2>1. patch.text \in {NoText, "new"} /\ patch.geometry \in {NoFrame, "moved"}
    BY <1>4 DEF SlideEditsFit
  <2>2. IsElement(slide[i])
    BY DEF IsSlide
  <2> DEFINE text == IF patch.text = NoText THEN slide[i].text ELSE patch.text
             xfrm == IF patch.geometry = NoFrame THEN slide[i].xfrm ELSE patch.geometry
  <2>3. EditedAt(i) = [slide[i] EXCEPT !.text = text, !.xfrm = xfrm]
    OBVIOUS
  <2> HIDE DEF text, xfrm, EditedAt
  <2>5. IsElement(EditedAt(i)) /\ EditedAt(i).text = text /\ EditedAt(i).xfrm = xfrm
        /\ EditedAt(i).inherited = slide[i].inherited
    BY <2>2, <2>3 DEF IsElement
  <2>6. Geometry(EditedAt(i)) = IF xfrm # NoFrame THEN xfrm ELSE slide[i].inherited
    BY <2>5 DEF Geometry
  <2> QED
    BY <2>1, <2>5, <2>6, OfficeConstants DEF text, xfrm, Geometry
<1>5. IsSlide(saved)
  <2> HIDE DEF EditedAt
  <2>1. \A i \in DOMAIN slide : IsElement(saved[i])
    BY <1>3, <1>4 DEF IsSlide
  <2>2. Len(slide) \in Nat /\ DOMAIN slide = 1 .. Len(slide)
    BY SequenceIs DEF IsSlide
  <2>3. saved = [i \in DOMAIN slide |-> saved[i]]
    BY DEF PatchSlide
  <2> HIDE DEF saved
  <2> QED
    BY <1>2, <2>1, <2>2, <2>3, SequenceFrom DEF IsSlide
<1>6. SlideAsMeant(slide, edits, saved)
  <2> SUFFICES ASSUME NEW i \in DOMAIN slide
               PROVE LET old == SlideModel(slide)[i]
                         new == SlideModel(saved)[i]
                         edited == old.id \in DOMAIN edits /\ i = ElementById(slide, old.id)
                     IN /\ new.text = IF edited /\ edits[old.id].text # NoText
                                      THEN edits[old.id].text ELSE old.text
                        /\ new.geometry = IF edited /\ edits[old.id].geometry # NoFrame
                                          THEN edits[old.id].geometry ELSE old.geometry
    BY DEF SlideAsMeant
  <2> HIDE DEF EditedAt, saved
  <2>1. /\ SlideModel(slide)[i].id = slide[i].sourceId
        /\ ElementById(slide, slide[i].sourceId) = i
        /\ SlideModel(slide)[i].text = slide[i].text
        /\ SlideModel(slide)[i].geometry = Geometry(slide[i])
    BY OneElementPerId DEF SlideModel
  <2>2. SlideModel(saved)[i].text = saved[i].text
        /\ SlideModel(saved)[i].geometry = Geometry(saved[i])
    BY <1>2 DEF SlideModel
  <2> QED
    BY <1>3, <1>4, <2>1, <2>2
<1> QED
  BY <1>1, <1>5, <1>6

-----------------------------------------------------------------------------
(* The saves.                                                              *)

LEMMA OfficeInitFits == OfficeInit => OfficeInv
<1> SUFFICES ASSUME NEW source \in OfficeFiles, office = Opened(source) PROVE OfficeInv
  BY DEF OfficeInit
<1> QED
  BY OfficeConstants DEF Opened, OfficeInv

LEMMA OfficeSaved ==
    ASSUME OfficeInv, NEW edits, NEW refuses, NEW patched, Saved(edits, refuses, patched)
    PROVE /\ office' = [format |-> office.format, before |-> office.content,
                        content |-> IF refuses THEN office.content ELSE patched,
                        edits |-> edits, refused |-> refuses,
                        left |-> office.left - Cardinality(DOMAIN edits)]
<1> DEFINE left == office.left - Cardinality(DOMAIN edits)
           content == IF refuses THEN office.content ELSE patched
<1>1. office' = [office EXCEPT !.before = office.content, !.edits = edits, !.refused = refuses,
                               !.content = content, !.left = left]
  BY DEF Saved
<1> HIDE DEF left, content
<1>2. office' = [format |-> office.format, before |-> office.content, content |-> content,
                 edits |-> edits, refused |-> refuses, left |-> left]
  BY <1>1 DEF OfficeInv
<1> QED
  BY <1>2 DEF left, content

LEMMA OfficeStepFits ==
    ASSUME PatchScope = "plain", OfficeInv, [OfficeNext]_officeVars PROVE OfficeInv'
<1>1. CASE UNCHANGED officeVars
  BY <1>1 DEF officeVars, OfficeInv, Malformed
<1>2. ASSUME NEW edits, NEW refuses, NEW patched, Saved(edits, refuses, patched),
             office.format \notin {"TEXT", "PRESENTATION"}
      PROVE OfficeInv'
  BY <1>2, OfficeSaved DEF OfficeInv
<1>3. CASE SaveSheet
  BY <1>2, <1>3 DEF SaveSheet
<1>4. CASE SaveCsv
  BY <1>2, <1>4 DEF SaveCsv
<1>5. CASE SaveDocument
  BY <1>2, <1>5 DEF SaveDocument
<1>6. CASE SaveSlide
  <2>1. /\ office.format = "PRESENTATION" /\ PlainSlide(office.content)
        /\ IsSlide(office.content)
    BY <1>6 DEF SaveSlide, OfficeInv
  <2>2. PICK edits \in SlideEdits(office.content) :
          Saved(edits, RefusesSlide(office.content, edits), PatchSlide(office.content, edits))
    BY <1>6 DEF SaveSlide
  <2>3. /\ ~RefusesSlide(office.content, edits)
        /\ IsSlide(PatchSlide(office.content, edits))
        /\ SlideAsMeant(office.content, edits, PatchSlide(office.content, edits))
    BY <2>1, SlideEditsAre, SlideSavedAsMeant
  <2> DEFINE refuses == RefusesSlide(office.content, edits)
             patched == PatchSlide(office.content, edits)
  <2> HIDE DEF refuses, patched
  <2>4. office' = [format |-> office.format, before |-> office.content,
                   content |-> IF refuses THEN office.content ELSE patched,
                   edits |-> edits, refused |-> refuses,
                   left |-> office.left - Cardinality(DOMAIN edits)]
    BY <2>2, OfficeSaved DEF refuses, patched
  <2>5. ~refuses /\ IsSlide(patched) /\ SlideAsMeant(office.content, edits, patched)
    BY <2>3 DEF refuses, patched
  <2>6. /\ office'.format = "PRESENTATION" /\ office'.format # "TEXT" /\ office'.before = office.content
        /\ office'.content = patched /\ office'.edits = edits /\ ~office'.refused
        /\ office' = [format |-> office'.format, before |-> office'.before,
                      content |-> office'.content, edits |-> office'.edits,
                      refused |-> office'.refused, left |-> office'.left]
    BY <2>1, <2>4, <2>5
  <2> QED
    BY <2>5, <2>6 DEF OfficeInv
<1>7. CASE SaveText
  <2>1. office.format = "TEXT" /\ IsTextFile(office.content)
    BY <1>7 DEF SaveText, OfficeInv
  <2>2. PICK content \in Contents :
          Saved([at \in {1} |-> content], RefusesText(office.content, content),
                EncodeUtf8(office.content, content))
    BY <1>7 DEF SaveText
  <2>3. IsTextFile(EncodeUtf8(office.content, content))
        /\ TextAsMeant(office.content, content, EncodeUtf8(office.content, content))
    BY <2>1, TextSavedAsMeant
  <2> DEFINE edits == [at \in {1} |-> content]
             refuses == RefusesText(office.content, content)
             patched == EncodeUtf8(office.content, content)
  <2>4. edits[1] = content /\ refuses \in BOOLEAN
        /\ (refuses <=> content \notin ValidTexts[office.content.format])
    BY DEF RefusesText
  <2> HIDE DEF edits, refuses, patched
  <2>5. office' = [format |-> office.format, before |-> office.content,
                   content |-> IF refuses THEN office.content ELSE patched,
                   edits |-> edits, refused |-> refuses,
                   left |-> office.left - Cardinality(DOMAIN edits)]
    BY <2>2, OfficeSaved DEF edits, refuses, patched
  <2>6. /\ office'.format = "TEXT" /\ office'.format # "PRESENTATION"
        /\ office'.before = office.content /\ office'.edits[1] = content
        /\ office'.refused = refuses
        /\ office'.content = IF refuses THEN office.content ELSE patched
        /\ office' = [format |-> office'.format, before |-> office'.before,
                      content |-> office'.content, edits |-> office'.edits,
                      refused |-> office'.refused, left |-> office'.left]
    BY <2>1, <2>4, <2>5
  <2>7. IsTextFile(patched) /\ TextAsMeant(office.content, content, patched)
    BY <2>3 DEF patched
  <2>8. Malformed' <=> refuses
    BY <2>4, <2>6 DEF Malformed
  <2> QED
    BY <2>1, <2>6, <2>7, <2>8 DEF OfficeInv
<1> QED
  BY <1>1, <1>3, <1>4, <1>5, <1>6, <1>7 DEF OfficeNext

\* A presentation or a text file that an editor has saved, read again, shows the
\* edits and everything else as it was, and no save was refused but that of a text
\* which its format does not allow, which left the file as it was: for every slide
\* and text, any number of elements, edits and saves.
THEOREM SlidesAndTextsReadAsMeant ==
    ASSUME PatchScope = "plain"
    PROVE OfficeSpec =>
            [](office.format \in {"PRESENTATION", "TEXT"} => SavedReadsAsMeant)
<1>1. OfficeInv => (office.format \in {"PRESENTATION", "TEXT"} => SavedReadsAsMeant)
  BY DEF OfficeInv, SavedReadsAsMeant, Malformed
<1>2. OfficeInv /\ [OfficeNext]_officeVars => OfficeInv'
  BY OfficeStepFits
<1> QED
  BY <1>1, <1>2, OfficeInitFits, PTL DEF OfficeSpec

-----------------------------------------------------------------------------
(* The workspace as a whole.                                               *)

LEMMA WorkspaceRefines ==
    WorkspaceSpec => /\ EditorSpec /\ OfficeSpec /\ TreeSpec /\ LocalSpec /\ BackfillSpec
                     /\ ReadSpec /\ QueueSpec
<1>1. WorkspaceInit => /\ EditorInit /\ OfficeInit /\ TreeInit /\ LocalInit /\ BackfillInit
                       /\ ReadInit /\ QueueInit
  BY RestingFile DEF WorkspaceInit, EditorAtRest, OfficeAtRest, OfficeInit, TreeAtRest, FilesAtRest,
                     BackfillAtRest, ReadingAtRest, QueueAtRest
<1>2. [WorkspaceNext]_workspaceVars
      => /\ [EditorNext]_editorVars /\ [OfficeNext]_officeVars /\ [TreeNext]_treeVars
         /\ [LocalNext]_localVars /\ [BackfillNext]_backfillVars
         /\ [ReadNext]_readVars /\ [QueueNext]_queueVars
  BY DEF WorkspaceNext, workspaceVars
<1>3. QED BY <1>1, <1>2, PTL DEF WorkspaceSpec, EditorSpec, OfficeSpec, TreeSpec, LocalSpec,
                                 BackfillSpec, ReadSpec, QueueSpec

\* Whichever part of the workspace moves, every tab, draft, node, file, upload, task
\* and request has its type, and every reference an object.
THEOREM WorkspaceTypesHold == WorkspaceSpec => []WorkspaceTypesOK
BY WorkspaceRefines, EditorTypesHold, TreeTypesHold, LocalTypesHold, BackfillTypesHold,
   ReadingTypesHold, QueueTypesHold, PTL DEF WorkspaceTypesOK

\* What the editors, the tree, the local files, the backfill, the readers' requests and
\* the upload queue promise by themselves holds of the workspace, and so does what is
\* proved of the saves.
THEOREM WorkspaceKeepsItsPromises ==
    WorkspaceSpec =>
      /\ NothingUnseenIsOverwritten
      /\ [](MergeLosesNothing /\ ShownIsInLiveTree /\ PagesAreComplete
             /\ BytesMatchRows /\ BackfillReachesAll /\ ReadsAreSound /\ QueueIsHonest)
      /\ PatchScope = "plain" =>
           [](office.format \in {"PRESENTATION", "TEXT"} => SavedReadsAsMeant)
<1>1. PatchScope = "plain" =>
        (OfficeSpec => [](office.format \in {"PRESENTATION", "TEXT"} => SavedReadsAsMeant))
  BY SlidesAndTextsReadAsMeant
<1> QED
  BY <1>1, WorkspaceRefines, UnseenIsKept, MergesAreSound, ShownIsLive, ListingIsComplete,
     BytesMatch, BackfillMissesNone, ReadersGetWhatIsTheirs, PanelIsHonest, PTL

=============================================================================
