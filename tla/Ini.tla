--------------------------------- MODULE Ini ---------------------------------
(***************************************************************************)
(* The key-value files of dse/clib/ini/ini.c, with the expansion of        *)
(* variables of dse/clib/util/strings.c.                                   *)
(*                                                                         *)
(* A text is a sequence of tokens: words, and the marks the code looks     *)
(* for.  A line in memory, "key=value", is a record of two texts; a line   *)
(* of a file is a text.  Files and allocations do not fail.                *)
(***************************************************************************)
EXTENDS Naturals, FiniteSets, Sequences, SequencesExt

CONSTANTS
  IniKeys,      (* the keys a caller names                                 *)
  Eq,           (* "="                                                     *)
  Hash,         (* "#" or ";"                                              *)
  Space,
  Dollar,       (* the "${" that opens a variable                          *)
  Default,      (* its ":-"                                                *)
  Brace,        (* its "}"                                                 *)
  IniValues,    (* values a caller sets, in pieces: see Text               *)
  IniFiles,     (* files that somebody else wrote                          *)
  Env,          (* the environment: name -> text                           *)
  ChunkMax,     (* LINE_MAX_SIZE - 1, in tokens                            *)
  ExpandMax     (* EXPAND_VAR_MAXLEN                                       *)

ASSUME ChunkAssumption == ChunkMax \in Nat \ {0} /\ ExpandMax \in Nat
ASSUME KeysAssumption == \A key \in IniKeys : Eq \notin Range(key)

VARIABLES
  iniLines,     (* ini->lines                                              *)
  disk,         (* the file                                                *)
  given         (* history: the pieces each key was last given             *)

iniVars == <<iniLines, disk, given>>

-----------------------------------------------------------------------------
(* dse_expand_vars.  Find: the place of a token in a text, or 0.           *)
Find(text, token) == SelectInSeq(text, LAMBDA t : t = token)
From(text, i) == SubSeq(text, i, Len(text))
Upto(text, i) == SubSeq(text, 1, i)

(* What strncat appends up to the size of the result.                      *)
Clipped(text) == Upto(text, Min({Len(text), ExpandMax}))

(* The value of what is between "${" and "}".                              *)
LookUp(inner) ==
  LET at == Find(inner, Default)
      name == IF at = 0 THEN inner ELSE Upto(inner, at - 1)
  IN CASE name \in DOMAIN Env -> Env[name]
       [] name \notin DOMAIN Env /\ at # 0 -> From(inner, at + 1)
       [] OTHER -> name

(* Without the closing brace the text before "${" is copied twice.         *)
ExpandVars(text) ==
  LET Expanded[rest \in Seq(Range(text))] ==
        LET open == Find(rest, Dollar)
            inside == From(rest, open + 1)
            close == Find(inside, Brace)
        IN CASE open = 0 -> rest
             [] open # 0 /\ close = 0 -> Upto(rest, open - 1) \o Upto(rest, open - 1)
             [] OTHER -> Upto(rest, open - 1) \o LookUp(Upto(inside, close - 1))
                           \o Expanded[From(inside, close + 1)]
  IN Clipped(Expanded[text])

-----------------------------------------------------------------------------
(* _ini_find_line: the line of a key, or 0.                                *)
FindLine(lines, key) == SelectInSeq(lines, LAMBDA line : line.key = key)

GetVal(lines, key) ==
  IF FindLine(lines, key) = 0 THEN <<>> ELSE lines[FindLine(lines, key)].val

(* ini_set_val: the line is replaced, or added at the end.                 *)
SetVal(lines, key, val, overwrite) ==
  LET at == FindLine(lines, key) IN
  CASE at = 0 -> Append(lines, [key |-> key, val |-> val])
    [] at # 0 /\ overwrite -> [lines EXCEPT ![at].val = val]
    [] OTHER -> lines

(* ini_delete_key                                                          *)
DeleteKey(lines, key) ==
  LET at == FindLine(lines, key)
  IN IF at = 0 THEN lines ELSE RemoveAt(lines, at)

(* _ini_trim                                                               *)
Trim(text) ==
  LET kept == {i \in DOMAIN text : text[i] # Space}
  IN IF kept = {} THEN <<>> ELSE SubSeq(text, Min(kept), Max(kept))

(* ini_open, one line: a value ends at a hash between spaces.              *)
IsComment(text, i) ==
  /\ text[i] = Hash
  /\ i > 1 /\ text[i - 1] = Space
  /\ i = Len(text) \/ text[i + 1] = Space
ValueAnyHash(text) ==
  LET marks == {i \in DOMAIN text : text[i] = Hash}
  IN Trim(IF marks = {} THEN text ELSE Upto(text, Min(marks) - 1))
Value(text) ==
  LET marks == {i \in DOMAIN text : IsComment(text, i)}
  IN Trim(IF marks = {} THEN text ELSE Upto(text, Min(marks) - 1))
KeyOf(text) ==
  LET at == Find(text, Eq)
      head == Trim(text)
  IN IF at = 0 \/ head[1] = Hash THEN <<>> ELSE Trim(Upto(text, at - 1))
ValueOf(text) == Value(From(text, Find(text, Eq) + 1))
Load(lines, text) ==
  IF KeyOf(text) = <<>> THEN lines
  ELSE SetVal(lines, KeyOf(text), ValueOf(text), TRUE)

(* ini_open: fgets cuts a line that is longer than its buffer, and every   *)
(* part is loaded as a line of its own.                                    *)
Chunks(text) ==
  LET n == (Len(text) + ChunkMax) \div ChunkMax
  IN [i \in 1..n |-> SubSeq(text, (i - 1) * ChunkMax + 1,
                            IF i = n THEN Len(text) ELSE i * ChunkMax)]
Reads(file) == FlattenSeq([i \in DOMAIN file |-> Chunks(file[i])])
Loaded(file) == FoldLeft(Load, <<>>, Reads(file))

(* ini_write                                                               *)
Written(lines) == [i \in DOMAIN lines |-> lines[i].key \o <<Eq>> \o lines[i].val]

-----------------------------------------------------------------------------
(* A value is made of pieces.  A piece renders as a text, and stands for   *)
(* another once it is expanded.                                            *)
Text(value) == FlattenSeq([i \in DOMAIN value |-> value[i].text])
Meaning(value) == FlattenSeq([i \in DOMAIN value |-> value[i].means])
Plain(text) == <<[text |-> text, means |-> text]>>
InPieces(text) ==
  IF \E value \in IniValues : Text(value) = text
  THEN CHOOSE value \in IniValues : Text(value) = text ELSE Plain(text)
Absent == {}

SetKey(key, value, overwrite) ==
  /\ iniLines' = SetVal(iniLines, key, Text(value), overwrite)
  /\ given' = IF overwrite \/ given[key] = Absent
              THEN [given EXCEPT ![key] = {value}] ELSE given
  /\ UNCHANGED disk

Delete(key) ==
  /\ iniLines' = DeleteKey(iniLines, key)
  /\ given' = [given EXCEPT ![key] = Absent]
  /\ UNCHANGED disk

(* ini_expand_vars                                                         *)
Expand ==
  /\ iniLines' = [i \in DOMAIN iniLines |-> [iniLines[i] EXCEPT !.val = ExpandVars(@)]]
  /\ given' = [key \in IniKeys |-> {Plain(Clipped(Meaning(value))) : value \in given[key]}]
  /\ UNCHANGED disk

Write ==
  /\ disk' = Written(iniLines)
  /\ UNCHANGED <<iniLines, given>>

(* ini_close, and ini_open of the file.                                    *)
Reopen ==
  /\ iniLines' = Loaded(disk)
  /\ given' = [key \in IniKeys |->
                 LET reads == Reads(disk)
                     of == {i \in DOMAIN reads : KeyOf(reads[i]) = key}
                 IN IF of = {} THEN Absent ELSE {InPieces(ValueOf(reads[Max(of)]))}]
  /\ UNCHANGED disk

IniInit ==
  /\ iniLines = <<>>
  /\ disk \in IniFiles
  /\ given = [key \in IniKeys |-> Absent]

IniNext ==
  \/ \E key \in IniKeys :
       \/ \E value \in IniValues, overwrite \in BOOLEAN : SetKey(key, value, overwrite)
       \/ Delete(key)
  \/ Expand \/ Write \/ Reopen

-----------------------------------------------------------------------------
(* Properties.                                                             *)

IniTypeOK ==
  /\ \A i \in DOMAIN iniLines : iniLines[i].key # <<>> /\ Eq \notin Range(iniLines[i].key)
  /\ \A key \in IniKeys : Cardinality(given[key]) <= 1

(* Writing and reading back changes nothing, whatever a value looks like,  *)
(* unless it was set or expanded to what no file can hold: outer spaces, a *)
(* comment, or a line longer than the buffer.                              *)
Holdable(line) ==
  /\ \A i \in DOMAIN line.val : ~IsComment(line.val, i)
  /\ Trim(line.val) = line.val
  /\ Len(line.key) + 1 + Len(line.val) <= ChunkMax
RereadsAsWritten ==
  (\A i \in DOMAIN iniLines : Holdable(iniLines[i])) =>
    Loaded(Written(iniLines)) = iniLines

(* An INI object is a map: whatever was loaded, set, kept, deleted and     *)
(* expanded, every key has one line at most and what it was last given,    *)
(* the last line of a file for a key counts, and expansion replaces each   *)
(* variable, closed by its brace, by what it stands for and nothing else.  *)
(* And it survives being written and opened again.                         *)
IniHolds ==
  /\ IniTypeOK
  /\ \A i, j \in DOMAIN iniLines : iniLines[i].key = iniLines[j].key => i = j
  /\ \A key \in IniKeys :
       IF FindLine(iniLines, key) = 0 THEN given[key] = Absent
       ELSE {GetVal(iniLines, key)} = {Text(value) : value \in given[key]}
  /\ RereadsAsWritten

=============================================================================
