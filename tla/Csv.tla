--------------------------------- MODULE Csv ---------------------------------
(***************************************************************************)
(* The row reader of dse/clib/csv/csv.c.  A file is a sequence of lines, a *)
(* line a sequence of cells.  A cell is Empty, Bad (strtod does not take   *)
(* all of it) or a number, and names a column unless it is empty.          *)
(*                                                                         *)
(* The line buffer is measured in cells, the newline being one more: fgets *)
(* reads a line to its end if it has fewer than LineMax cells.  That holds *)
(* also of a last line without a newline, since feof is only set by a read *)
(* beyond the end.  Allocations and reads do not fail.                     *)
(***************************************************************************)
EXTENDS Integers, FiniteSets, Sequences, SequencesExt

CONSTANTS
  CsvFiles,   (* the files that may be opened; NoFile is one that is not   *)
  NoFile,     (* there                                                     *)
  Cells,      (* what a cell may be                                        *)
  Empty,      (* a cell of blanks                                          *)
  Bad,        (* a cell that is not a number                               *)
  LineMax     (* line_maxlen - 1, in cells                                 *)

ASSUME CsvFilesAssumption == CsvFiles \subseteq Seq(Seq(Cells))
ASSUME LineMaxAssumption == LineMax \in Nat \ {0}

VARIABLES
  isOpen,     (* csv->file and csv->line are there                         *)
  input,      (* what the file has left to read                            *)
  header,     (* csv->header                                               *)
  fields,     (* csv->fields, as csv_count and csv_field show them         *)
  file,       (* history: the file that is open                            *)
  answers     (* history: what csv_next has returned since, and its fields *)

csvVars == <<isOpen, input, header, fields, file, answers>>

(* fgets: what it puts into the buffer, and what it leaves in the file     *)
(* when _line_truncated.                                                   *)
Truncated(lines) == Len(Head(lines)) >= LineMax

(* _parse_header; strtok_r passes over empty names.                        *)
IsName(cell) == cell # Empty
NoNames == <<>>
ParseHeader(lines) ==
  IF lines = <<>> \/ Truncated(lines) THEN NoNames
  ELSE SelectSeq(Head(lines), IsName)

(* csv_open: a descriptor whose file or header cannot be read is closed.   *)
CsvOpen(f) ==
  LET names == IF f = NoFile THEN NoNames ELSE ParseHeader(f) IN
  /\ file' = IF names = NoNames THEN NoFile ELSE f
  /\ isOpen' = (names # NoNames)
  /\ header' = names
  /\ input' = IF names = NoNames THEN <<>> ELSE Tail(f)
  /\ fields' = <<>>
  /\ answers' = <<>>

CsvClose ==
  /\ isOpen
  /\ isOpen' = FALSE
  /\ input' = <<>> /\ header' = <<>> /\ fields' = <<>>
  /\ file' = NoFile /\ answers' = <<>>

(* What one call of csv_next reads: the lines up to and including the      *)
(* first that is not blank: nothing, or a single cell of blanks, trimmed   *)
(* once the line has been found to fit the buffer.                         *)
Blank(line) == Len(line) < LineMax /\ line \in {<<>>, <<Empty>>}
UpToRow(lines) ==
  LET rows == {i \in DOMAIN lines : ~Blank(lines[i])}
  IN IF rows = {} THEN lines ELSE SubSeq(lines, 1, Min(rows))
Unread(lines) == SubSeq(lines, Len(UpToRow(lines)) + 1, Len(lines))
AtEnd(lines) == \A i \in DOMAIN lines : Blank(lines[i])

Answers(rc, row) ==
  /\ fields' = row
  /\ answers' = Append(answers, [rc |-> rc, fields |-> row])

(* csv_next, on a line that does not fit the buffer: the rest of it is     *)
(* consumed.                                                               *)
NextTooLongKeepsRest ==
  LET line == Last(UpToRow(input)) IN
  /\ isOpen /\ ~AtEnd(input)
  /\ Truncated(<<line>>)
  /\ input' = <<SubSeq(line, LineMax + 1, Len(line))>> \o Unread(input)
  /\ Answers("EOVERFLOW", <<>>)
  /\ UNCHANGED <<isOpen, header, file>>
NextTooLong ==
  LET line == Last(UpToRow(input)) IN
  /\ isOpen /\ ~AtEnd(input)
  /\ Truncated(<<line>>)
  /\ input' = Unread(input)
  /\ Answers("EOVERFLOW", <<>>)
  /\ UNCHANGED <<isOpen, header, file>>

(* On a row: its cells are pushed one by one, up to one that is no number; *)
(* what was pushed is cleared again if the row does not fit the header.    *)
Pushed(row) ==
  LET bad == {i \in DOMAIN row : row[i] = Bad}
  IN IF bad = {} THEN row ELSE SubSeq(row, 1, Min(bad) - 1)
Parsed(row) ==
  IF Pushed(row) = row /\ Len(row) = Len(header)
  THEN [rc |-> "ok", fields |-> row] ELSE [rc |-> "EINVAL", fields |-> <<>>]
NextRow ==
  LET row == Last(UpToRow(input)) IN
  /\ isOpen /\ ~AtEnd(input)
  /\ ~Truncated(<<row>>)
  /\ input' = Unread(input)
  /\ Answers(Parsed(row).rc, Parsed(row).fields)
  /\ UNCHANGED <<isOpen, header, file>>

(* At the end of the file the fields stay.                                 *)
NextAtEnd ==
  /\ isOpen /\ AtEnd(input)
  /\ Len(answers) <= Len(file)
  /\ input' = <<>>
  /\ Answers("ENODATA", fields)
  /\ UNCHANGED <<isOpen, header, file>>

CsvInit ==
  /\ isOpen = FALSE
  /\ input = <<>> /\ header = <<>> /\ fields = <<>>
  /\ file = NoFile
  /\ answers = <<>>

CsvNext ==
  \/ ~isOpen /\ (CsvOpen(NoFile) \/ \E f \in CsvFiles : CsvOpen(f))
  \/ NextTooLong \/ NextRow \/ NextAtEnd
  \/ CsvClose

-----------------------------------------------------------------------------
(* Properties.                                                             *)

CsvTypeOK ==
  /\ isOpen \in BOOLEAN
  /\ file \in IF isOpen THEN CsvFiles ELSE {NoFile}
  /\ isOpen => header # <<>>
  /\ Len(fields) \in {0, Len(header)}
  /\ Bad \notin Range(fields)

(* The documented contract, csv.h: each call of csv_next parses exactly    *)
(* one row.  The n-th call answers the n-th row behind the header that is  *)
(* not blank, with all its fields, one for each name, or with an error and *)
(* none; no line of the file, however long or broken, is read as two rows, *)
(* skipped, or mixed with another.  Beyond the last row the calls say so   *)
(* and leave what the last of them had.                                    *)
Meant(row) ==
  CASE Len(row) >= LineMax -> [rc |-> "EOVERFLOW", fields |-> <<>>]
    [] Len(row) < LineMax /\ (Bad \in Range(row) \/ Len(row) # Len(header)) ->
         [rc |-> "EINVAL", fields |-> <<>>]
    [] OTHER -> [rc |-> "ok", fields |-> row]
RowPerCall ==
  /\ CsvTypeOK
  /\ isOpen =>
       LET lines == Tail(file)
           now == Len(answers)
           RowsUpTo(i) == Cardinality({j \in 1..i : ~Blank(lines[j])})
           all == RowsUpTo(Len(lines))
           last == IF now < all THEN now ELSE all
       IN /\ \A i \in DOMAIN lines :
               ~Blank(lines[i]) /\ RowsUpTo(i) <= now => answers[RowsUpTo(i)] = Meant(lines[i])
          /\ \A n \in all + 1..now : answers[n].rc = "ENODATA"
          /\ fields = IF last = 0 THEN <<>> ELSE answers[last].fields

=============================================================================
