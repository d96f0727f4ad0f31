------------------------------ MODULE SheetPatch ------------------------------
(***************************************************************************)
(* Saving the edits of an XLSX worksheet.  XlsxPatcher finds cells and     *)
(* rows in the worksheet's XML with patterns and replaces or inserts       *)
(* spans; XlsxParser reads the same XML as a document, before and after.   *)
(*                                                                         *)
(* A sheet's data is the sequence of its tags; an opening cell holds its   *)
(* body.  A cell's place is <<row, column>>, a row's <<row, 0>>.           *)
(***************************************************************************)
EXTENDS SpanEdits

CONSTANTS Formula, NoBody   \* the body of a formula cell, and no body

Tag(tag, at, style, body) == [tag |-> tag, at |-> at, style |-> style, body |-> body]
RowXml(row, cells) ==
  <<Tag("<row", <<row, 0>>, 0, NoBody)>> \o cells \o <<Tag("</row", <<row, 0>>, 0, NoBody)>>
NewCell(at, style, body) == <<Tag("<c", at, style, body), Tag("</c", at, 0, NoBody)>>

IsCell(token) == token.tag \in {"<c", "<c/"}
IsRow(token) == token.tag \in {"<row", "<row/"}
Closing(xml, tag, i) == {j \in i .. Len(xml) : xml[j].tag = tag}
Earlier(a, b) == a[1] < b[1] \/ (a[1] = b[1] /\ a[2] < b[2])

-----------------------------------------------------------------------------
(* The pattern of a cell tries the closing tag first: from a self-closed   *)
(* cell it runs to the next cell's, if there is one.  No span is {}.       *)
CellEnd(xml, i) == LET ends == Closing(xml, "</c", i) IN IF ends = {} THEN i ELSE Min(ends)
FindCell(xml, at) ==
  {[first |-> i, last |-> CellEnd(xml, i)] : i \in {j \in DOMAIN xml : IsCell(xml[j]) /\ xml[j].at = at}}

(* A row's pattern needs a closing tag, its own or a later row's.          *)
RowBlock(xml, row) ==
  {[first |-> i, last |-> Min(Closing(xml, "</row", i))] :
     i \in {j \in DOMAIN xml : IsRow(xml[j]) /\ xml[j].at[1] = row /\ Closing(xml, "</row", j) # {}}}

(* The cells the row's pattern meets: those no earlier match has swallowed. *)
MatchedCells(xml, row) ==
  LET block == SubSeq(xml, 1, row.last)
  IN {i \in row.first .. row.last :
        /\ IsCell(xml[i])
        /\ \A k \in row.first .. i - 1 : IsCell(xml[k]) => CellEnd(block, k) < i}

HasFormula(xml) == \E i \in DOMAIN xml : xml[i].body = Formula
Ghosts(book) ==
  {at \in UNION {(m.from[1] .. m.to[1]) \X (m.from[2] .. m.to[2]) : m \in book.merges} :
     \A m \in book.merges : at # m.from}

-----------------------------------------------------------------------------
(* edits: the new body of each edited place.  An existing cell keeps its   *)
(* attributes but the type.                                                *)
CellReplacement(xml, at, body) ==
  LET found == CHOOSE s \in FindCell(xml, at) : TRUE
  IN Replacement(found.first, found.last, NewCell(at, xml[found.first].style, body))

(* A new cell of an existing row goes before the first cell further right. *)
CellAddition(xml, at, body) ==
  LET row == CHOOSE s \in RowBlock(xml, at[1]) : TRUE
      further == {i \in MatchedCells(xml, row) : xml[i].at[2] > at[2]}
      place == IF further = {} THEN row.last ELSE Min(further)
  IN Replacement(place, place - 1, NewCell(at, 0, body))

(* New rows that go to the same offset are one insertion.                  *)
RowAdditions(xml, edits, places) ==
  LET offset(row) == Min({i \in DOMAIN xml : IsRow(xml[i]) /\ xml[i].at[1] > row} \cup {Len(xml) + 1})
      rows == {at[1] : at \in places}
      RowOf(row) ==
        RowXml(row, FlattenSeq([k \in 1 .. Cardinality({at \in places : at[1] = row}) |->
          LET at == SetToSortSeq({p \in places : p[1] = row}, Earlier)[k] IN NewCell(at, 0, edits[at])]))
      Group(o) == SetToSortSeq({r \in rows : offset(r) = o}, <)
  IN {Replacement(o, o - 1, FlattenSeq([k \in DOMAIN Group(o) |-> RowOf(Group(o)[k])])) :
        o \in {offset(r) : r \in rows}}

Dimensions(book, edits) ==
  LET rows == {1} \cup {book.xml[i].at[1] : i \in {j \in DOMAIN book.xml : IsRow(book.xml[j])}}
      cells == {book.xml[i].at[2] : i \in {j \in DOMAIN book.xml : IsCell(book.xml[j])}}
  IN <<Max(rows \cup {at[1] : at \in DOMAIN edits}), Max({1} \cup cells \cup {at[2] : at \in DOMAIN edits})>>

UpdateDimension(book, edits) ==
  LET needed == Dimensions(book, edits)
  IN IF book.dimension = <<0, 0>> THEN book.dimension
     ELSE <<Max({book.dimension[1], needed[1]}), Max({book.dimension[2], needed[2]})>>

(* What a save refuses, whole: a formula in a found span, a ghost of a     *)
(* merged range, a new row where the sheet's data has no closing tag.      *)
RefusesSheet(book, edits) ==
  \/ \E at \in DOMAIN edits : at \in Ghosts(book)
  \/ \E at \in DOMAIN edits : \E s \in FindCell(book.xml, at) :
       HasFormula(SubSeq(book.xml, s.first, s.last))
  \/ book.bare /\ \E at \in DOMAIN edits : FindCell(book.xml, at) \cup RowBlock(book.xml, at[1]) = {}

PatchSheet(book, edits) ==
  LET xml == book.xml
      found == {at \in DOMAIN edits : FindCell(xml, at) # {}}
      added == {at \in DOMAIN edits \ found : RowBlock(xml, at[1]) # {}}
      Each(places, Op(_, _, _)) ==
        LET order == SetToSortSeq(places, Earlier)
        IN [k \in DOMAIN order |-> Op(xml, order[k], edits[order[k]])]
      rows == SetToSeq(RowAdditions(xml, edits, DOMAIN edits \ (found \cup added)))
  IN [book EXCEPT !.xml = ApplyReplacements(xml, Each(found, CellReplacement)
                                                   \o Each(added, CellAddition) \o rows),
                  !.dimension = UpdateDimension(book, edits),
                  !.recalculate = @ \/ HasFormula(xml)]

-----------------------------------------------------------------------------
(* What XlsxParser shows.                                                  *)
Cells(xml) ==
  [at \in {xml[i].at : i \in {j \in DOMAIN xml : IsCell(xml[j])}} |->
     LET cell == CHOOSE t \in {xml[i] : i \in DOMAIN xml} : IsCell(t) /\ t.at = at
     IN [style |-> cell.style, body |-> cell.body]]

(* The editor's grid reaches to the last row and column there are; in it,  *)
(* what the server's model does not mark as read-only is offered, a cell   *)
(* that is absent too.                                                     *)
NoEdits == [at \in {} |-> NoBody]
SheetOffers(book, at) ==
  /\ at[1] <= Dimensions(book, NoEdits)[1] /\ at[2] <= Dimensions(book, NoEdits)[2]
  /\ at \in DOMAIN Cells(book.xml) => Cells(book.xml)[at].body # Formula /\ at \notin Ghosts(book)

(* Tags in pairs: a sheet the parser can read.                             *)
WellFormed(xml) ==
  \A i \in DOMAIN xml :
    /\ xml[i].tag = "<c" => i < Len(xml) /\ xml[i + 1].tag = "</c"
    /\ xml[i].tag = "</c" => i > 1 /\ xml[i - 1].tag = "<c"

(* Rows and cells in ascending order, every cell inside its row.           *)
InOrder(xml) ==
  /\ \A i, j \in DOMAIN xml : IsRow(xml[i]) /\ IsRow(xml[j]) /\ i < j => xml[i].at[1] < xml[j].at[1]
  /\ \A i, j \in DOMAIN xml : IsCell(xml[i]) /\ IsCell(xml[j]) /\ i < j => Earlier(xml[i].at, xml[j].at)
  /\ \A i \in DOMAIN xml : IsCell(xml[i]) =>
       LET row == Max({j \in 1 .. i - 1 : IsRow(xml[j]) \/ xml[j].tag = "</row"})
       IN xml[row].tag = "<row" /\ xml[row].at[1] = xml[i].at[1]

(* The edited cells hold the edits and their style, every other cell is as *)
(* it was, new cells stand in order, the dimension covers them and a       *)
(* workbook with formulas will be calculated when it is next opened.       *)
SheetAsMeant(book, edits, saved) ==
  LET before == Cells(book.xml)
      Meant(at) == IF at \in DOMAIN edits
                   THEN [style |-> IF at \in DOMAIN before THEN before[at].style ELSE 0, body |-> edits[at]]
                   ELSE before[at]
  IN /\ Cells(saved.xml) = [at \in DOMAIN before \cup DOMAIN edits |-> Meant(at)]
     /\ WellFormed(saved.xml) /\ InOrder(saved.xml)
     /\ saved.dimension # <<0, 0>> =>
          \A at \in DOMAIN Cells(saved.xml) : at[1] <= saved.dimension[1] /\ at[2] <= saved.dimension[2]
     /\ HasFormula(saved.xml) => saved.recalculate
=============================================================================
