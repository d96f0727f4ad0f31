---------------------------- MODULE DocumentPatch ----------------------------
(***************************************************************************)
(* Saving the edits of a DOCX document.  DocxParser numbers the paragraphs *)
(* it shows; the source map numbers the paragraphs it finds in the XML,    *)
(* with their positions, and says which may be edited; DocxPatcher puts    *)
(* the edited runs between the tags of the paragraph with the edited       *)
(* block's number.                                                         *)
(*                                                                         *)
(* A document is the sequence of its tags; "pPr", or "pPr/" if self-closed, *)
(* and "r" (a run) are one tag each, and "other" stands for content the    *)
(* editor cannot edit.  `styles` are the paragraph styles of the package:  *)
(* the alignment each of them gives, or what it is based on, "" if none.   *)
(***************************************************************************)
EXTENDS SpanEdits

DocTag(tag) == [tag |-> tag, text |-> "", style |-> "", align |-> "", listed |-> FALSE]
DocRun(text) == [DocTag("r") EXCEPT !.text = text]
Properties(style, align, listed) ==
  [DocTag("pPr") EXCEPT !.style = style, !.align = align, !.listed = listed]

-----------------------------------------------------------------------------
(* Both walks number paragraphs and tables of a parent together, rows and  *)
(* cells by themselves, and leave out what lies in a third table.          *)
ParserCounts == {"<p", "<p/", "<tbl"}
ParagraphCounts == {"<p", "<p/"}
SourceMapCounts == {"<p", "<p/", "<tbl"}

Frame(part) == [part |-> part, children |-> 0]
WalkTag(walk, tag, i, counts) ==
  LET top == Last(walk.open)
      number == top.children + (IF tag \in counts \cup {"<tr", "<tc"} THEN 1 ELSE 0)
      outer == Front(walk.open) \o <<[top EXCEPT !.children = number]>>
      Id(part) == [k \in 1 .. Len(walk.open) + 1 |-> IF k <= Len(walk.open) THEN walk.open[k].part ELSE part]
      tables == Cardinality({k \in DOMAIN walk.open : walk.open[k].part[1] = "t"})
  IN CASE tag \in {"<p", "<p/"} ->
            [open |-> outer,
             ids |-> IF tables > 2 THEN walk.ids ELSE Append(walk.ids, [id |-> Id(<<"p", number>>), at |-> i])]
       [] tag = "<tbl" -> [walk EXCEPT !.open = Append(outer, Frame(<<"t", number>>))]
       [] tag = "<tr" -> [walk EXCEPT !.open = Append(outer, Frame(<<"r", number>>))]
       [] tag = "<tc" -> [walk EXCEPT !.open = Append(outer, Frame(<<"c", number>>))]
       [] tag \in {"</tbl", "</tr", "</tc"} -> [walk EXCEPT !.open = Front(@)]
       [] OTHER -> walk

Numbered(doc, counts) ==
  FoldLeft(LAMBDA walk, i : WalkTag(walk, doc[i].tag, i, counts),
           [open |-> <<Frame(<<"b", 0>>)>>, ids |-> <<>>], [i \in DOMAIN doc |-> i]).ids
ParseBlocks(doc) == Numbered(doc, ParserCounts)
VisitBlocks(doc) == Numbered(doc, SourceMapCounts)

(* The tags between a paragraph's own; a self-closed one has none, and     *)
(* both its inner ends are the end of its tag.                             *)
CloseStart(doc, i) == IF doc[i].tag = "<p/" THEN i + 1 ELSE Min({j \in i .. Len(doc) : doc[j].tag = "</p"})
Inner(doc, i) == SubSeq(doc, i + 1, CloseStart(doc, i) - 1)
ParagraphProperties(inner) == SelectSeq(inner, LAMBDA t : t.tag \in {"pPr", "pPr/"})
Editable(inner) == \A k \in DOMAIN inner : inner[k].tag \in {"pPr", "pPr/", "r"}

Alignment(own, style, styles) ==
  CASE own # "" -> own
    [] own = "" /\ style \in DOMAIN styles /\ styles[style] # "" -> styles[style]
    [] OTHER -> "left"

ParseParagraph(inner, styles) ==
  LET props == IF ParagraphProperties(inner) = <<>> THEN Properties("", "", FALSE)
               ELSE ParagraphProperties(inner)[1]
      runs == SelectSeq(inner, LAMBDA t : t.tag = "r" /\ t.text # "")
  IN [type |-> IF props.listed THEN "list-item" ELSE IF props.style = "heading-1" THEN "heading" ELSE "paragraph",
      styleId |-> props.style, align |-> Alignment(props.align, props.style, styles),
      runs |-> [k \in DOMAIN runs |-> runs[k].text]]

(* What the editor is given: by number, each paragraph, and whether the    *)
(* source map has one of that number that may be edited.                   *)
DocumentModel(doc, styles) ==
  LET blocks == ParseBlocks(doc) sources == VisitBlocks(doc)
  IN [id \in {blocks[k].id : k \in DOMAIN blocks} |->
        LET block == CHOOSE b \in ToSet(blocks) : b.id = id
        IN [shown |-> ParseParagraph(Inner(doc, block.at), styles),
            editable |-> \E s \in ToSet(sources) : s.id = id /\ Editable(Inner(doc, s.at))]]

-----------------------------------------------------------------------------
(* An edit of a block: its runs, a style or "preserve", its alignment.     *)
SemanticStyle(block) ==
  CASE block.type = "heading" -> "heading-1"
    [] block.type = "paragraph" /\ block.styleId = "" -> "normal"
    [] OTHER -> "preserve"

Restyles(patch, block) == patch.style # "preserve" /\ patch.style # SemanticStyle(block)
Realigns(patch, block) == patch.align # block.align

StyleIdFor(style, styles) ==
  CASE style = "normal" -> IF "Normal" \in DOMAIN styles THEN "Normal" ELSE ""
    [] OTHER -> style

(* A new style alone writes no alignment; and what is new in self-closed   *)
(* properties comes after them, where the paragraph has no such content.   *)
PatchProperties(props, patch, block, styles) ==
  LET old == IF props = <<>> THEN Properties("", "", FALSE) ELSE props[1]
      new == [old EXCEPT !.style = IF Restyles(patch, block) THEN StyleIdFor(patch.style, styles) ELSE @,
                         !.align = IF Realigns(patch, block) THEN patch.align ELSE @]
  IN IF new = old THEN props
     ELSE IF old.tag = "pPr/" THEN <<old, DocTag("other")>> ELSE <<new>>

SerializeRuns(texts) ==
  LET kept == SelectSeq(texts, LAMBDA t : t # "") IN [k \in DOMAIN kept |-> DocRun(kept[k])]

(* edits: the patch of each edited block's number.                         *)
RefusesDocument(doc, styles, edits) ==
  LET model == DocumentModel(doc, styles)
  IN \E id \in DOMAIN edits :
       \/ id \notin DOMAIN model \/ ~model[id].editable
       \/ /\ edits[id].style = "heading-1" /\ "heading-1" \notin DOMAIN styles
          /\ Restyles(edits[id], model[id].shown)
       \/ model[id].shown.type = "list-item" /\ edits[id].style = "heading-1"

PatchDocument(doc, styles, edits) ==
  LET model == DocumentModel(doc, styles)
      blocks == SelectSeq(VisitBlocks(doc), LAMBDA s : s.id \in DOMAIN edits)
      One(s) == Replacement(s.at + 1, CloseStart(doc, s.at) - 1,
                  PatchProperties(ParagraphProperties(Inner(doc, s.at)), edits[s.id],
                                  model[s.id].shown, styles)
                    \o SerializeRuns(edits[s.id].content))
  IN ApplyReplacements(doc, [k \in DOMAIN blocks |-> One(blocks[k])])

(* Every block that was not edited is shown as before; an edited one shows *)
(* the runs, alignment and style of its edit and still belongs to its list. *)
DocumentAsMeant(doc, styles, edits, saved) ==
  LET before == DocumentModel(doc, styles) after == DocumentModel(saved, styles)
  IN /\ DOMAIN after = DOMAIN before
     /\ \A id \in DOMAIN before :
          IF id \notin DOMAIN edits THEN after[id] = before[id]
          ELSE LET old == before[id].shown new == after[id].shown patch == edits[id]
               IN /\ new.runs = SelectSeq(patch.content, LAMBDA t : t # "")
                  /\ new.align = patch.align
                  /\ old.type = "list-item" <=> new.type = "list-item"
                  /\ patch.style = "heading-1" => new.type = "heading"
                  /\ patch.style = "normal" => new.styleId \in {"", "Normal"}
                  /\ patch.style = "preserve" => new.styleId = old.styleId
=============================================================================
