---------------------------- MODULE OfficeSamples ----------------------------
(* The files the model checker opens.                                      *)
EXTENDS OfficeSaves

CONSTANT OfficeFormats   \* the formats opened
Office(format, contents, edits) ==
  {[format |-> format, content |-> c, edits |-> edits] : c \in contents}

(* Two rows of a grid of three by three, with cells of every kind.         *)
CellXml(at, kind) ==
  CASE kind = "absent" -> <<>>
    [] kind = "blank" -> <<Tag("<c/", at, 1, NoBody)>>
    [] kind = "value" -> NewCell(at, 1, "old")
    [] kind = "formula" -> NewCell(at, 2, Formula)
CellKinds == {"absent", "blank", "value", "formula"}
Row1(first, third) == RowXml(1, CellXml(<<1, 1>>, first) \o CellXml(<<1, 3>>, third))
Row3s == {<<>>, <<Tag("<row/", <<3, 0>>, 0, NoBody)>>} \cup {RowXml(3, CellXml(<<3, 2>>, k)) : k \in CellKinds}
Sheet(xml, merges, dimension) ==
  [xml |-> xml, merges |-> merges, dimension |-> dimension, recalculate |-> FALSE, bare |-> FALSE]
Sheets ==
  {Sheet(Row1(a, b) \o r, {}, <<1, 1>>) : a \in CellKinds, b \in CellKinds, r \in Row3s}
  \cup {Sheet(Row1("value", b) \o RowXml(3, CellXml(<<3, 2>>, "value")),
              {[from |-> <<1, 1>>, to |-> <<1, 3>>]}, <<0, 0>>) : b \in CellKinds}
  \cup {[Sheet(<<>>, {}, <<0, 0>>) EXCEPT !.bare = TRUE]}

MCCandidates == <<",", ";">>
(* CSV texts of up to four characters.                                     *)
Texts(chars, length) == UNION {[1 .. n -> chars] : n \in 0 .. length}
MCCsvFields == {<<>>, <<"z">>, <<",">>, <<"\"">>, <<"\n">>}
CsvTexts == Texts({"x", ",", ";", "\"", "\n", "\r"}, 3)
LongCsvTexts == {<<"x">> \o t : t \in [1 .. 3 -> {",", "\"", "\n", "\r"}]}

(* Documents of two or three blocks: paragraphs of every kind, tables in   *)
(* tables.                                                                 *)
Paragraph(children) == <<DocTag("<p")>> \o children \o <<DocTag("</p")>>
Table(children) ==
  <<DocTag("<tbl"), DocTag("<tr"), DocTag("<tc")>> \o children
     \o <<DocTag("</tc"), DocTag("</tr"), DocTag("</tbl")>>
Plain == Paragraph(<<DocRun("one"), DocRun("two")>>)
Blocks ==
  {Plain,
   Paragraph(<<Properties("heading-1", "center", FALSE), DocRun("one")>>),
   Paragraph(<<Properties("custom", "", TRUE), DocRun("one")>>),
   Paragraph(<<Properties("custom", "", FALSE), DocRun("one")>>),
   Paragraph(<<DocTag("pPr/"), DocRun("one")>>),
   Paragraph(<<DocRun("one"), DocTag("other")>>),
   <<DocTag("<p/")>>,
   Table(Plain), Table(Table(Plain) \o Plain), Table(Plain \o Table(Plain \o Table(Plain)))}
Documents(blocks, styles) == {[tags |-> b, styles |-> s] : b \in blocks, s \in styles}
PlainStyles == ("heading-1" :> "") @@ ("Normal" :> "") @@ ("custom" :> "")
CentredStyles == ("heading-1" :> "center") @@ ("Normal" :> "") @@ ("custom" :> "center")
FewStyles == {"heading-1" :> "", "Normal" :> "right", "custom" :> ""}

(* Slides of two elements, the second in a group or not.                   *)
Element(kind, id, group, xfrm, text) ==
  [kind |-> kind, sourceId |-> id, group |-> group, xfrm |-> xfrm, inherited |-> "layout",
   text |-> text, simple |-> TRUE]
Elements(id, group) ==
  {Element("sp", id, group, f, t) : f \in {NoFrame, "own"}, t \in {NoText, "old"}}
  \cup {[Element("sp", id, group, "own", "old") EXCEPT !.simple = FALSE],
        Element("pic", id, group, "own", NoText), Element("cxnSp", id, group, "own", NoText),
        Element("graphicFrame", id, group, "own", NoText), Element("graphicFrame", id, group, "own", "old")}
Slides ==
  {<<e, f>> : e \in Elements(7, 0), f \in Elements(0, 0) \cup Elements(7, 0) \cup Elements(8, 0)}
  \cup {<<Element("grpSp", 9, 0, "own", NoText), e, f>> : e \in Elements(7, 1), f \in Elements(8, 0)}

(* Text files of every format with every line ending, and what is typed:   *)
(* "x" is a digit in JSON and an element in XML.                           *)
TextFiles ==
  {[format |-> f, bom |-> b, chars |-> c] :
     f \in TextFormats, b \in BOOLEAN, c \in Texts({"x", "\n", "\r\n", "\r"}, 2)}
MCContents == Texts({"x", "\n"}, 2)
MCValidTexts ==
  [f \in TextFormats |->
     {c \in MCContents : /\ f = "json" => Has(c, "x")
                         /\ f = "xml" => Occurrences(c, "x") = 1}]

(* A row of a cell that has a style and no value, and a cell with one; and  *)
(* a text file, for the component at rest.                                 *)
BlankBeside == RowXml(1, CellXml(<<1, 1>>, "blank") \o CellXml(<<1, 2>>, "value"))
MCBlankCellFiles ==
  Office("SPREADSHEET", {Sheet(BlankBeside, {}, <<0, 0>>)}, 1) \cup Office("TEXT", TextFiles, 0)

MCOfficeFiles ==
  {f \in Office("SPREADSHEET", Sheets, 2) \cup Office("CSV", CsvTexts, 1)
           \cup Office("CSV", LongCsvTexts, 2)
           \cup Office("DOCUMENT", Documents({b \o c : b \in Blocks, c \in Blocks}
                                       \cup {Table(Plain) \o b \o Plain : b \in Blocks}, {PlainStyles}), 1)
           \cup Office("DOCUMENT", Documents(Blocks, {PlainStyles, CentredStyles} \cup FewStyles), 2)
           \cup Office("PRESENTATION", Slides, 2) \cup Office("TEXT", TextFiles, 2) :
     f.format \in OfficeFormats}
=============================================================================
