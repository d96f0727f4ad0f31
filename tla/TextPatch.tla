------------------------------ MODULE TextPatch ------------------------------
(***************************************************************************)
(* Saving the two formats that are plain text.  A CSV file is read with    *)
(* the delimiter and line ending found in it, its cells are edited, and    *)
(* the whole file is written again in that dialect; a text file is         *)
(* replaced by what stands in the editor, with the line ending and byte    *)
(* order mark of the file it replaces.  A text is a sequence of            *)
(* characters; "\r\n" of a text file is one of them.                       *)
(***************************************************************************)
EXTENDS Integers, Sequences, SequencesExt, FiniteSetsExt

CONSTANTS
  Candidates,   \* the delimiters looked for, in order of preference
  ValidTexts    \* what a text file of each format may be saved as

Occurrences(text, char) == Cardinality({i \in DOMAIN text : text[i] = char})
Has(text, char) == Occurrences(text, char) > 0
CharAt(text, i) == IF i \in DOMAIN text THEN text[i] ELSE ""

(* The most frequent candidate, quoted or not; the earlier one of equals.  *)
DetectDelimiter(text) ==
  CHOOSE d \in ToSet(Candidates) :
    \A e \in ToSet(Candidates) : \/ Occurrences(text, d) > Occurrences(text, e)
                                 \/ Occurrences(text, d) = Occurrences(text, e)
                                    /\ SelectInSeq(Candidates, LAMBDA c : c \in {d, e})
                                         = SelectInSeq(Candidates, LAMBDA c : c = d)

(* One character of a CSV text; `skip` drops the second half of a pair.    *)
ParseStart == [rows |-> <<>>, row |-> <<>>, field |-> <<>>, quoted |-> FALSE, skip |-> FALSE]
EndField(p) == [p EXCEPT !.row = Append(@, p.field), !.field = <<>>]
EndRow(p) == [EndField(p) EXCEPT !.rows = Append(@, Append(p.row, p.field)), !.row = <<>>]
ParseChar(p, char, next, delimiter) ==
  IF p.skip THEN [p EXCEPT !.skip = FALSE]
  ELSE IF p.quoted THEN
    IF char # "\"" THEN [p EXCEPT !.field = Append(@, char)]
    ELSE IF next = "\"" THEN [p EXCEPT !.field = Append(@, char), !.skip = TRUE]
    ELSE [p EXCEPT !.quoted = FALSE]
  ELSE IF char = "\"" /\ p.field = <<>> THEN [p EXCEPT !.quoted = TRUE]
  ELSE IF char = delimiter THEN EndField(p)
  ELSE IF char \in {"\n", "\r"} THEN [EndRow(p) EXCEPT !.skip = char = "\r" /\ next = "\n"]
  ELSE [p EXCEPT !.field = Append(@, char)]

ParseRows(text, delimiter) ==
  LET end == FoldLeft(LAMBDA p, i : ParseChar(p, text[i], CharAt(text, i + 1), delimiter),
                      ParseStart, [i \in DOMAIN text |-> i])
  IN IF end.field # <<>> \/ end.row # <<>> \/ (text # <<>> /\ Last(text) = delimiter)
     THEN [end EXCEPT !.rows = EndRow(end).rows] ELSE end

CsvLineEnding(text) ==
  IF \E i \in DOMAIN text : text[i] = "\r" /\ CharAt(text, i + 1) = "\n" THEN <<"\r", "\n">>
  ELSE IF Has(text, "\r") THEN <<"\r">> ELSE <<"\n">>

(* A CSV file that ends inside a quoted field cannot be opened.            *)
CsvOpens(text) == ~ParseRows(text, DetectDelimiter(text)).quoted
ParseCsv(text) ==
  LET delimiter == DetectDelimiter(text) ending == CsvLineEnding(text)
  IN [rows |-> ParseRows(text, delimiter).rows, delimiter |-> delimiter, ending |-> ending,
      trailing |-> IsSuffix(ending, text)]

CsvCells(csv) ==
  LET width == Max({0} \cup {Len(csv.rows[r]) : r \in DOMAIN csv.rows})
      full == {at \in (1 .. Len(csv.rows)) \X (1 .. width) :
                 at[2] \in DOMAIN csv.rows[at[1]] /\ csv.rows[at[1]][at[2]] # <<>>}
  IN [at \in full |-> csv.rows[at[1]][at[2]]]

-----------------------------------------------------------------------------
(* The rows with the edits, padded to reach every edited cell.             *)
EditRows(rows, edits) ==
  LET height == Max({Len(rows)} \cup {at[1] : at \in DOMAIN edits})
      Row(r) == IF r \in DOMAIN rows THEN rows[r] ELSE <<>>
      Width(r) == Max({Len(Row(r))} \cup {at[2] : at \in {e \in DOMAIN edits : e[1] = r}})
  IN [r \in 1 .. height |-> [c \in 1 .. Width(r) |->
        IF <<r, c>> \in DOMAIN edits THEN edits[<<r, c>>]
        ELSE IF c \in DOMAIN Row(r) THEN Row(r)[c] ELSE <<>>]]

NeedsQuotes(field, delimiter) == \E i \in DOMAIN field : field[i] \in {delimiter, "\"", "\r", "\n"}
Quoted(field, delimiter) ==
  IF ~NeedsQuotes(field, delimiter) THEN field
  ELSE <<"\"">> \o FlattenSeq([i \in DOMAIN field |->
                     IF field[i] = "\"" THEN <<"\"", "\"">> ELSE <<field[i]>>]) \o <<"\"">>

Joined(parts, separator) ==
  FlattenSeq([i \in DOMAIN parts |-> IF i = 1 THEN parts[i] ELSE separator \o parts[i]])

SerializeCsv(csv, edits) ==
  LET rows == EditRows(csv.rows, edits)
      Line(r) == Joined([c \in DOMAIN rows[r] |-> Quoted(rows[r][c], csv.delimiter)], <<csv.delimiter>>)
  IN Joined([r \in DOMAIN rows |-> Line(r)], csv.ending)
       \o (IF csv.trailing /\ rows # <<>> THEN csv.ending ELSE <<>>)

PatchCsv(text, edits) == SerializeCsv(ParseCsv(text), edits)

(* The re-read file shows the edits, every other cell as it was, and has   *)
(* the dialect it had, its line ending aside, as far as it needs one.      *)
CsvAsMeant(text, edits, saved) ==
  LET before == CsvCells(ParseCsv(text))
      kept == {at \in DOMAIN before : at \notin DOMAIN edits}
      filled == {at \in DOMAIN edits : edits[at] # <<>>}
  IN /\ CsvOpens(saved)
     /\ CsvCells(ParseCsv(saved)) =
          [at \in kept \cup filled |-> IF at \in filled THEN edits[at] ELSE before[at]]
     /\ ParseCsv(saved).delimiter = ParseCsv(text).delimiter
          \/ ~Has(saved, ParseCsv(text).delimiter)

-----------------------------------------------------------------------------
(* Text files: `chars` with or without a byte order mark.                  *)
TextFormats == {"text", "markdown", "json", "xml"}
IsText(chars) == chars \in Seq(ToSet(chars))
IsTextFile(file) == file.format \in TextFormats /\ file.bom \in BOOLEAN /\ IsText(file.chars)

(* JSON that does not parse and XML that is not well-formed are refused,   *)
(* and a text of any format that is too large.                             *)
RefusesText(file, content) == content \notin ValidTexts[file.format]

LineEndingOf(chars) ==
  CASE Has(chars, "\r\n") /\ ~Has(chars, "\n") /\ ~Has(chars, "\r") -> "crlf"
    [] Has(chars, "\n") /\ ~Has(chars, "\r\n") /\ ~Has(chars, "\r") -> "lf"
    [] ~Has(chars, "\n") /\ ~Has(chars, "\r\n") /\ ~Has(chars, "\r") -> "none"
    [] OTHER -> "mixed"

EncodeUtf8(source, content) ==
  [format |-> source.format, bom |-> source.bom,
   chars |-> IF LineEndingOf(source.chars) # "crlf" THEN content
             ELSE [i \in DOMAIN content |-> IF content[i] = "\n" THEN "\r\n" ELSE content[i]]]

(* What a text area holds of a text, and hands back.                       *)
InTextArea(chars) == [i \in DOMAIN chars |-> IF chars[i] \in {"\r", "\r\n"} THEN "\n" ELSE chars[i]]

(* The lines are those of the editor, and a file with one line ending and  *)
(* a mark has them still.                                                  *)
TextAsMeant(source, content, saved) ==
  /\ InTextArea(saved.chars) = content
  /\ saved.bom = source.bom
  /\ LineEndingOf(source.chars) \in {"lf", "crlf"} =>
       LineEndingOf(saved.chars) \in {LineEndingOf(source.chars), "none"}
=============================================================================
