-------------------------------- MODULE PeopleCsv --------------------------------
(***************************************************************************)
(* Reading and writing spreadsheets (people/csv.ts): the parser of an      *)
(* imported file, character by character as its loop goes, the writer, and *)
(* the numbers of the lines that messages about the file name.             *)
(*                                                                         *)
(* A character is the part it plays: "x" is any ordinary one, "=" one that *)
(* a spreadsheet takes for the beginning of a formula.  A text is either   *)
(* any at all (what somebody uploads) or what the writer makes of a table; *)
(* a mark of its byte order at the beginning is taken off either way.      *)
(***************************************************************************)
EXTENDS Naturals, Sequences, FiniteSets, SequencesExt

CONSTANTS
  Characters,  \* of uploaded texts
  MaxLength,   \* bound: length of an uploaded text
  Tables,      \* tables to write: sequences of rows, sequences of cells
  MaxImportRows,  \* MAX_IMPORT_ROWS
  None         \* no table: the text was uploaded

Quote == "quote"
Comma == ","
Cr    == "cr"
Lf    == "lf"
Bom   == "bom"
Alphabet == {"x", " ", "=", "'", Quote, Comma, Cr, Lf, Bom}

VARIABLES
  table,     \* the table the text was written from, or None
  text,      \* what is parsed: input
  i,         \* where the parser is
  inQuotes, field, row, rows,
  parsed     \* whether the loop has ended and the last row been taken

vars == <<table, text, i, inQuotes, field, row, rows, parsed>>

-----------------------------------------------------------------------------
(* Writing *)

Blanks == {" ", Cr}

\* Optional blanks, and then the beginning of a formula.
Dangerous(cell) ==
  \E k \in DOMAIN cell : cell[k] = "=" /\ \A j \in 1..(k - 1) : cell[j] \in Blanks

Neutralised(cell) == IF Dangerous(cell) THEN <<"'">> \o cell ELSE cell

\* parts.join(between)
Joined(parts, between) ==
  LET from[n \in 1..Len(parts) + 1] ==
        IF n > Len(parts) THEN <<>>
        ELSE IF n = Len(parts) THEN parts[n] ELSE parts[n] \o between \o from[n + 1]
  IN  from[1]

Doubled(cell) == Joined([k \in DOMAIN cell |-> IF cell[k] = Quote THEN <<Quote, Quote>> ELSE <<cell[k]>>], <<>>)

EscapeCsvCell(cell) ==
  LET raw == Neutralised(cell) IN
  IF ToSet(raw) \intersect {Quote, Comma, Cr, Lf} = {} THEN raw
  ELSE <<Quote>> \o Doubled(raw) \o <<Quote>>

ToCsv(t) ==
  Joined([r \in DOMAIN t |-> Joined([c \in DOMAIN t[r] |-> EscapeCsvCell(t[r][c])], <<Comma>>)],
         <<Cr, Lf>>)

-----------------------------------------------------------------------------
(* Parsing *)

WithoutMark(t) == IF t # <<>> /\ Head(t) = Bom THEN Tail(t) ELSE t

Init ==
  /\ \/ table = None /\ \E uploaded \in BoundedSeq(Characters, MaxLength) : text = WithoutMark(uploaded)
     \/ table \in Tables /\ text = WithoutMark(ToCsv(table))
  /\ i = 1 /\ inQuotes = FALSE
  /\ field = <<>> /\ row = <<>> /\ rows = <<>> /\ parsed = FALSE

At(k) == IF k \in DOMAIN text THEN text[k] ELSE None

Reads(character) == ~parsed /\ i <= Len(text) /\ text[i] \in character
Goes(n)  == i' = i + n /\ UNCHANGED <<table, text, parsed>>
Keeps(c) == field' = Append(field, c) /\ UNCHANGED <<row, rows>>

\* Mutant: a quote within quotes always closes them.
NeverDoubled == FALSE

DoubledHere == At(i + 1) = Quote

QuotedCharacter ==
  /\ inQuotes /\ Reads(Alphabet \ {Quote})
  /\ Keeps(text[i]) /\ Goes(1) /\ UNCHANGED inQuotes

EscapedQuote ==
  /\ inQuotes /\ Reads({Quote}) /\ DoubledHere
  /\ Keeps(Quote) /\ Goes(2) /\ UNCHANGED inQuotes

ClosingQuote ==
  /\ inQuotes /\ Reads({Quote}) /\ ~DoubledHere
  /\ inQuotes' = FALSE /\ Goes(1) /\ UNCHANGED <<field, row, rows>>

OpeningQuote ==
  /\ ~inQuotes /\ Reads({Quote})
  /\ inQuotes' = TRUE /\ Goes(1) /\ UNCHANGED <<field, row, rows>>

EndOfCell ==
  /\ ~inQuotes /\ Reads({Comma})
  /\ row' = Append(row, field) /\ field' = <<>>
  /\ Goes(1) /\ UNCHANGED <<inQuotes, rows>>

CarriageReturn ==
  /\ ~inQuotes /\ Reads({Cr})
  /\ Goes(1) /\ UNCHANGED <<inQuotes, field, row, rows>>

EndOfRow ==
  /\ ~inQuotes /\ Reads({Lf})
  /\ rows' = Append(rows, Append(row, field)) /\ row' = <<>> /\ field' = <<>>
  /\ Goes(1) /\ UNCHANGED inQuotes

Character ==
  /\ ~inQuotes /\ Reads(Alphabet \ {Quote, Comma, Cr, Lf})
  /\ Keeps(text[i]) /\ Goes(1) /\ UNCHANGED inQuotes

\* What trim takes away, a mark of the byte order too.
Trimmed == Blanks \union {Lf, Bom}

BlankCell(cell) == ToSet(cell) \subseteq Trimmed
IsBlankRow(r)   == \A cell \in ToSet(r) : BlankCell(cell)

\* Only blank rows at the end are dropped.
WithoutTrailingBlankRows(rs) ==
  SubSeq(rs, 1, Cardinality({k \in DOMAIN rs : \E j \in k..Len(rs) : ~IsBlankRow(rs[j])}))

EndOfText ==
  /\ ~parsed /\ i > Len(text) /\ parsed' = TRUE
  /\ rows' = WithoutTrailingBlankRows(
       IF field # <<>> \/ row # <<>> THEN Append(rows, Append(row, field)) ELSE rows)
  /\ field' = <<>> /\ row' = <<>>
  /\ UNCHANGED <<table, text, i, inQuotes>>

Next ==
  \/ QuotedCharacter \/ EscapedQuote \/ ClosingQuote
  \/ OpeningQuote \/ EndOfCell \/ CarriageReturn \/ EndOfRow \/ Character
  \/ EndOfText

Spec == Init /\ [][Next]_vars

\* The rows below the header that are not blank.
Shaped == {k \in DOMAIN rows : k > 1 /\ ~IsBlankRow(rows[k])}

\* shapeRows: what becomes of them, and the number each is called by; too many are refused.
ShapeRows ==
  IF Cardinality(Shaped) > MaxImportRows THEN {}
  ELSE {[lineNumber |-> k, cells |-> rows[k]] : k \in Shaped}

-----------------------------------------------------------------------------
(* The same, said of the whole text: a place is inside quotes when an odd number of quotes     *)
(* precedes it, a row ends at a line feed outside, a cell also at a comma outside.              *)

QuotesBefore(k) == Cardinality({j \in 1..k - 1 : text[j] = Quote})
Inside(k)       == QuotesBefore(k) % 2 = 1

Ends(separator, n) == {k \in 1..n - 1 : text[k] = separator /\ ~Inside(k)}

\* What counts as content: not a quote, unless it follows the one that closed; outside not a
\* carriage return or a separator.
IsContent(k) ==
  IF text[k] = Quote THEN ~Inside(k) /\ At(k - 1) = Quote
  ELSE Inside(k) \/ text[k] \notin {Comma, Cr, Lf}

\* The row, the cell and the place in it where the text has come to before n.
RowOf(n)       == Cardinality(Ends(Lf, n)) + 1
CellsOf(r, n)  == Cardinality({k \in Ends(Comma, n) : RowOf(k) = r}) + 1
CellOf(n)      == CellsOf(RowOf(n), n)
Of(r, c, n)    == {k \in 1..n - 1 : IsContent(k) /\ RowOf(k) = r /\ CellOf(k) = c}
PlaceOf(k)     == Cardinality(Of(RowOf(k), CellOf(k), k)) + 1

EndOf == Len(text) + 1

\* A character that says something.
Says(k) == IsContent(k) /\ text[k] \notin Trimmed

-----------------------------------------------------------------------------
(* Properties *)

\* Every variable stays in its type, and nothing is left over in the end.
TypeOK ==
  /\ table \in Tables \union {None} /\ text \in Seq(Alphabet)
  /\ i \in 1..Len(text) + 1 /\ inQuotes \in BOOLEAN /\ parsed \in BOOLEAN
  /\ field \in Seq(Alphabet) /\ row \in Seq(Seq(Alphabet)) /\ rows \in Seq(Seq(Seq(Alphabet)))
  /\ parsed => field = <<>> /\ row = <<>>

\* The loop, which knows one character and whether it is inside quotes, does to any text what
\* the rules say of the text as a whole: the rows have as many cells, the cells as many characters,
\* each content character is where it belongs, and all that is dropped is rows at the end that
\* say nothing.
ParsesByTheRules ==
  parsed =>
    /\ \A r \in DOMAIN rows :
         /\ r <= RowOf(EndOf) /\ Len(rows[r]) = CellsOf(r, EndOf)
         /\ \A c \in DOMAIN rows[r] : Len(rows[r][c]) = Cardinality(Of(r, c, EndOf))
    /\ \A k \in DOMAIN text : IsContent(k) =>
         IF RowOf(k) \in DOMAIN rows THEN rows[RowOf(k)][CellOf(k)][PlaceOf(k)] = text[k]
         ELSE ~Says(k)
    /\ rows # <<>> => ~IsBlankRow(rows[Len(rows)])

\* What the program writes it reads back: every cell of every row comes back as it was, apart
\* from the mark before a formula, and blank rows at the end.
WrittenIsReadBack ==
  parsed /\ table # None =>
    rows = WithoutTrailingBlankRows(
             [r \in DOMAIN table |-> [c \in DOMAIN table[r] |-> Neutralised(table[r][c])]])

\* The lines of the file that say something, below the first.
SayingLines == {RowOf(k) : k \in {j \in DOMAIN text : Says(j) /\ RowOf(j) > 1}}

\* A row is called by its number in the file, blank rows counted, and no row that says anything
\* is passed over, unless the file says more than may be imported and is refused.
NumberedAsInFile ==
  parsed =>
    /\ \/ ShapeRows = {} /\ Cardinality(SayingLines) > MaxImportRows
       \/ \A k \in DOMAIN text : Says(k) /\ RowOf(k) > 1 =>
            \E shaped \in ShapeRows : shaped.lineNumber = RowOf(k)
                                      /\ shaped.cells[CellOf(k)][PlaceOf(k)] = text[k]
    /\ \A shaped \in ShapeRows : \E k \in DOMAIN text : Says(k) /\ RowOf(k) = shaped.lineNumber

=============================================================================
