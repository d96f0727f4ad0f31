----------------------------- MODULE OfficeSaves -----------------------------
(***************************************************************************)
(* Files of the five formats the editors save, each opened, edited where   *)
(* its editor offers an edit, and saved; the bytes of a save are those the *)
(* next one starts from.  The file engines parse the bytes, check the      *)
(* edits against them and patch them in one call, so a save is one step.   *)
(***************************************************************************)
EXTENDS SheetPatch, DocumentPatch, SlidePatch, TextPatch

CONSTANTS
  OfficeFiles,    \* the files that are opened: their format and content, and how many
                  \* cells, blocks or elements the saves edit
  CsvFields,      \* what is typed into a cell of a CSV file
  Contents,       \* what is typed into a text file
  PatchScope      \* "plain", or "all": every file and edit the editors offer

(* A text area ends its lines with "\n" alone; an edit is none of the       *)
(* values that stand for none; a text is characters, a slide elements.     *)
ASSUME OfficeConstants ==
  /\ \A content \in Contents : IsText(content) /\ ToSet(content) \cap {"\r", "\r\n"} = {}
  /\ ValidTexts \in [TextFormats -> SUBSET Contents]
  /\ NoText # "new" /\ NoFrame # "moved"
  /\ \A file \in OfficeFiles :
       /\ file.format = "TEXT" => IsTextFile(file.content)
       /\ file.format = "PRESENTATION" => IsSlide(file.content)

VARIABLE office
officeVars == <<office>>

Opened(file) ==
  [format |-> file.format, before |-> file.content, content |-> file.content,
   edits |-> <<>>, refused |-> FALSE, left |-> file.edits]
OfficeInit == office \in {Opened(file) : file \in OfficeFiles}

(* Edits of one to `left` of the places, each with a value of its own.     *)
EditsAt(values) ==
  {e \in UNION {[chosen -> UNION {values[p] : p \in chosen}] :
                  chosen \in UNION {kSubset(k, DOMAIN values) : k \in 1 .. office.left}} :
     \A p \in DOMAIN e : e[p] \in values[p]}

(* A refused save leaves the file; the count of edits is spent.            *)
Saved(edits, refuses, patched) ==
  office' = [office EXCEPT !.before = office.content, !.edits = edits, !.refused = refuses,
                           !.content = IF refuses THEN @ ELSE patched,
                           !.left = @ - Cardinality(DOMAIN edits)]

-----------------------------------------------------------------------------
(* Plain sheets and edits: no self-closed cell or row in an edited row, at *)
(* most one new cell in a row that is there, no absent cell in a merged    *)
(* range, sheet data with a closing tag.                                   *)
PlainSheetEdits(book, edits) ==
  LET places == DOMAIN edits
      new == {at \in places : at \notin DOMAIN Cells(book.xml) /\ RowBlock(book.xml, at[1]) # {}}
  IN /\ ~book.bare /\ places \cap Ghosts(book) = {}
     /\ \A i \in DOMAIN book.xml : book.xml[i].tag \in {"<c/", "<row/"} =>
          \A at \in places : at[1] # book.xml[i].at[1]
     /\ \A at, other \in new : at[1] = other[1] => at = other

SheetPlaces(book) ==
  {at \in (1 .. Dimensions(book, NoEdits)[1]) \X (1 .. Dimensions(book, NoEdits)[2]) :
     SheetOffers(book, at)}
SheetEdits(book) == EditsAt([at \in SheetPlaces(book) |-> {"new", NoBody}])
SaveSheet ==
  /\ office.format = "SPREADSHEET" /\ office.left > 0
  /\ \E edits \in SheetEdits(office.content) :
       /\ PatchScope = "all" \/ PlainSheetEdits(office.content, edits)
       /\ Saved(edits, RefusesSheet(office.content, edits), PatchSheet(office.content, edits))

(* Plain CSV edits: the text, the new fields and what comes out of them    *)
(* hold no delimiter but the file's own, and its rows are as the file ends. *)
PlainCsvEdits(text, edits) ==
  \A d \in ToSet(Candidates) \ {DetectDelimiter(text)} :
    ~Has(text, d) /\ \A at \in DOMAIN edits : ~Has(edits[at], d)

CsvPlaces(text) ==
  LET rows == ParseCsv(text).rows
  IN (1 .. Max({1, Len(rows)})) \X (1 .. Max({1} \cup {Len(rows[r]) : r \in DOMAIN rows}))
CsvEdits(text) == EditsAt([at \in CsvPlaces(text) |-> CsvFields])
SaveCsv ==
  /\ office.format = "CSV" /\ office.left > 0 /\ CsvOpens(office.content)
  /\ \E edits \in CsvEdits(office.content) :
       /\ PatchScope = "all" \/ PlainCsvEdits(office.content, edits)
       /\ Saved(edits, FALSE, PatchCsv(office.content, edits))

(* Plain edits of a document: of no self-closed paragraph, of no self-closed *)
(* properties, with styles the package has; and a paragraph that has its   *)
(* alignment from its style is given none of another alignment, unless an  *)
(* alignment is chosen, too.                                               *)
PlainPatch(inner, patch, styles) ==
  LET props == ParagraphProperties(inner)
      old == ParseParagraph(inner, styles)
  IN /\ Restyles(patch, old) => patch.style # "heading-1" \/ "heading-1" \in DOMAIN styles
     /\ Restyles(patch, old) \/ Realigns(patch, old) => \A k \in DOMAIN props : props[k].tag = "pPr"
     /\ Restyles(patch, old) /\ ~Realigns(patch, old) =>
          \/ \E k \in DOMAIN props : props[k].align # ""
          \/ Alignment("", StyleIdFor(patch.style, styles), styles) = old.align
PlainDocumentEdits(tags, styles, edits) ==
  \A s \in ToSet(VisitBlocks(tags)) : s.id \in DOMAIN edits =>
    tags[s.at].tag = "<p" /\ PlainPatch(Inner(tags, s.at), edits[s.id], styles)

(* The editor sends the style a block has unless another is chosen, which  *)
(* it cannot be for an item of a list.                                     *)
DocumentValues(model, id) ==
  LET shown == model[id].shown
      Typed(content, align, style) == [content |-> content, align |-> align, style |-> style]
  IN {Typed(c, shown.align, SemanticStyle(shown)) : c \in {<<"new">>, <<"a", "b">>, <<>>}}
       \cup {Typed(<<"new">>, a, s) : a \in {shown.align, "right"},
               s \in {SemanticStyle(shown)} \cup
                     IF shown.type = "list-item" THEN {} ELSE {"heading-1", "normal"}}
DocumentEdits(model) ==
  EditsAt([id \in {i \in DOMAIN model : model[i].editable} |-> DocumentValues(model, id)])
SaveDocument ==
  /\ office.format = "DOCUMENT" /\ office.left > 0
  /\ LET tags == office.content.tags
         styles == office.content.styles
     IN \E edits \in DocumentEdits(DocumentModel(tags, styles)) :
          /\ PatchScope = "all" \/ PlainDocumentEdits(tags, styles, edits)
          /\ Saved(edits, RefusesDocument(tags, styles, edits),
                   [office.content EXCEPT !.tags = PatchDocument(tags, styles, edits)])

(* Plain slides: every element has an id of its own and a place of its own, *)
(* and no table.                                                           *)
PlainSlide(slide) ==
  \A i \in DOMAIN slide :
    /\ slide[i].sourceId # 0 /\ \A j \in DOMAIN slide : slide[j].sourceId = slide[i].sourceId => j = i
    /\ slide[i].xfrm # NoFrame
    /\ slide[i].kind = "graphicFrame" => slide[i].text = NoText

ElementEdits(element) ==
  {e \in [text : {NoText, "new"}, geometry : {NoFrame, "moved"}] :
     /\ e.text # NoText => OffersText(element)
     /\ e.geometry # NoFrame => OffersGeometry(element)
     /\ e.text # NoText \/ e.geometry # NoFrame}
SlideEdits(slide) ==
  LET ids == {ElementId(slide, i) : i \in DOMAIN slide}
      values == [id \in ids |-> ElementEdits(slide[ElementById(slide, id)])]
  IN EditsAt([id \in {i \in ids : values[i] # {}} |-> values[id]])
SaveSlide ==
  /\ office.format = "PRESENTATION" /\ office.left > 0
  /\ PatchScope = "all" \/ PlainSlide(office.content)
  /\ \E edits \in SlideEdits(office.content) :
       Saved(edits, RefusesSlide(office.content, edits), PatchSlide(office.content, edits))

(* A text file is saved whole: one edit.                                   *)
SaveText ==
  /\ office.format = "TEXT" /\ office.left > 0
  /\ PatchScope = "all" \/ LineEndingOf(office.content.chars) # "mixed"
  /\ \E content \in Contents :
       Saved([at \in {1} |-> content], RefusesText(office.content, content),
             EncodeUtf8(office.content, content))

OfficeNext == SaveSheet \/ SaveCsv \/ SaveDocument \/ SaveSlide \/ SaveText
OfficeSpec == OfficeInit /\ [][OfficeNext]_officeVars

-----------------------------------------------------------------------------
Malformed == office.format = "TEXT" /\ office.edits[1] \notin ValidTexts[office.before.format]

(* A text that is no valid JSON or XML, in a file that must be, is refused *)
(* and leaves the file as it is.  Any other save the editor offers is not  *)
(* refused, and the file it leaves, read again, shows the edits and        *)
(* everything else as it was: no neighbour of an edited place is lost,     *)
(* moved or changed, and what stands for order, type, style and line       *)
(* endings in the file still does.  (validateBeforeSave, XlsxPatcher,      *)
(* DocxPatcher, PptxPatcher, serializeCsv, encodeUtf8)                     *)
SavedReadsAsMeant ==
  office.edits # <<>> =>
    /\ office.refused <=> Malformed
    /\ office.refused => office.content = office.before
    /\ ~office.refused =>
       CASE office.format = "SPREADSHEET" -> SheetAsMeant(office.before, office.edits, office.content)
         [] office.format = "CSV" -> CsvAsMeant(office.before, office.edits, office.content)
         [] office.format = "DOCUMENT" ->
              DocumentAsMeant(office.before.tags, office.before.styles, office.edits, office.content.tags)
         [] office.format = "PRESENTATION" -> SlideAsMeant(office.before, office.edits, office.content)
         [] office.format = "TEXT" -> TextAsMeant(office.before, office.edits[1], office.content)
=============================================================================
