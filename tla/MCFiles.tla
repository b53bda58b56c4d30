------------------------------- MODULE MCFiles -------------------------------
(***************************************************************************)
(* The components that read and write files, and the texts in them.  They  *)
(* do not interact, so a behaviour is one of a single part, chosen in the  *)
(* initial state, while the others wait in theirs.                         *)
(***************************************************************************)
EXTENDS Csv, Ini, Mdf, FileIndex, YamlValues, Ascii85, HeaderIndex

CONSTANTS a, b, x, y, V, U, foo, bar, l, p, q, A, B, f, g, h1, h2

VARIABLE part

(* Files of a header and up to two lines, and under a header of two names  *)
(* three: of one, two and three cells, without cells and of blanks, with   *)
(* empty and bad cells, of the length of the buffer and beyond.            *)
MCCells == {Empty, Bad, 1, 2}
MCHeaders == {<<1>>, <<1, 2>>, <<1, Empty, 2>>, <<>>, <<Empty, Empty>>, <<1, 1, 1, 1>>}
MCRows == {
  <<>>, <<Empty>>, <<1>>, <<2, 1>>, <<2, Empty>>, <<1, Bad>>, <<1, 1, 1, 1>>, <<1, 1, 1, 1, 2>>}
MCCsvFiles ==
  {<<>>} \cup {<<h>> \o rows : h \in MCHeaders, rows \in UNION {[1..i -> MCRows] : i \in 0..2}}
  \cup {<<<<1, 2>>>> \o rows : rows \in [1..3 -> MCRows]}

(* Values with variables that are set, unset and have a default, marks in  *)
(* every place, and a line of the length of the buffer.                    *)
MCIniKeys == {<<a>>, <<b>>}
MCEnv == [name \in {<<V>>} |-> <<x, Space, Hash>>]
Word(w) == [text |-> w, means |-> w]
Set == [text |-> <<Dollar, V, Brace>>, means |-> <<x, Space, Hash>>]
Defaulted == [text |-> <<Dollar, U, Default, y, Brace>>, means |-> <<y>>]
Unset == [text |-> <<Dollar, U, Brace>>, means |-> <<U>>]
MCValues == {
  <<>>, <<Word(<<x>>), Set>>, <<Defaulted, Word(<<Eq>>)>>,
  <<Word(<<Hash>>), Unset, Word(<<x>>)>>, <<Word(<<x, x, x>>), Word(<<b, Eq, y>>)>>}
MCIniFiles == {
  <<>>,
  <<<<Space, a, Eq, x>>, <<Hash, b, Eq>>, <<b, Eq, Space, Hash>>, <<a, Space, Eq, x, Hash>>,
    <<x, Space, Hash>>>>,
  <<<<a, Eq, x, x, x, x, x, x, b, Eq, y>>>>}

(* Up to three groups of up to two signals, with names that fill a word    *)
(* and that go beyond one.                                                 *)
MCNames == {7, 8}
MCSignals == {<<>>, <<1>>, <<8, 7>>}
MCGroups ==
  UNION {[1..i -> [name : MCNames, signal : MCSignals]] : i \in 0..3}

(* A file of three documents of two kinds beside one that repeats a name,  *)
(* and a file with a document of a foreign kind beside an empty one.       *)
Old(kind, name, labels) == [kind |-> kind, name |-> name, labels |-> labels, spec |-> "old"]
MCDisks == {
  p :> <<Old("Model", foo, {}), Old("Stack", foo, {l}), Old("Model", bar, {l})>>
    @@ q :> <<Old("Model", foo, {l})>>,
  p :> <<Old("Other", foo, {}), Old("Stack", bar, {l})>> @@ q :> <<>>}

(* Texts of every type, numbers at and beyond the ends of their types, and *)
(* texts that expand to others, once and twice.                            *)
MCTexts ==
  {"word", "yes", "1", "neg", "beyondInt", "beyondUint", "tooLow", "one", "two"}
MCNumber ==
  [t \in MCTexts |-> CASE t = "1" -> 1 [] t = "neg" -> -1 [] t = "beyondInt" -> 5
                       [] t = "beyondUint" -> 9 [] t = "tooLow" -> -7 [] OTHER -> NoValue]
MCTruth == [t \in MCTexts |-> IF t = "yes" THEN 1 ELSE NoValue]
MCDecimal == [t \in MCTexts |-> t \notin {"word", "yes"}]
MCExpands == [t \in MCTexts |-> CASE t = "one" -> "1" [] t = "two" -> "one" [] OTHER -> t]

(* Headers of up to two declarations, with structs inside structs to the   *)
(* second level, under every tag and name, beside one that is fixed.       *)
Field(n) == [name |-> n, tag |-> NoName, members |-> <<>>]
Inside(n, tag, members) == [name |-> n, tag |-> tag, members |-> members]
Decl(decl, tag, name, members) ==
  [decl |-> decl, tag |-> tag, name |-> name, members |-> members]
MCMembers == {
  <<>>, <<Field(f)>>, <<Field(f), Field(NoName)>>,
  <<Inside(g, NoName, <<Field(f), Inside(NoName, NoName, <<Field(g)>>)>>), Field(f)>>,
  <<Inside(f, B, <<Field(f)>>), Inside(NoName, NoName, <<Inside(g, A, <<Field(f)>>)>>)>>}
MCDecls ==
  {Decl("struct", A, NoName, members) : members \in MCMembers}
  \cup {Decl("typedef", tag, n, members) :
         tag \in {NoName, A}, n \in {A, B}, members \in MCMembers}
  \cup {Decl("alias", tag, A, <<>>) : tag \in {NoName, A, B}}
  \cup {Decl("function", NoName, f, <<>>)}
(* C has one struct of a tag and one type of a name.                       *)
IsC(decls) ==
  \A i, j \in DOMAIN decls : i # j =>
    LET d1 == decls[i]  d2 == decls[j] IN
    /\ ~(/\ d1.tag # NoName /\ d1.tag = d2.tag
         /\ d1.members # <<>> /\ d2.members # <<>>)
    /\ ~(d1.decl \in {"typedef", "alias"} /\ d2.decl \in {"typedef", "alias"}
         /\ d1.name = d2.name)
MCHeaderFiles ==
  LET fixed == <<Decl("function", NoName, g, <<>>), Decl("typedef", B, B, <<Field(g)>>)>>
      others == {h \in UNION {[1..n -> MCDecls] : n \in 0..2} : IsC(h)}
  IN {h1 :> h @@ h2 :> fixed : h \in others \cup {NoHeader}}

(* Up to two words and a part of a third, of the least and greatest bytes. *)
MCSources == UNION {[1..i -> {0, 1, 4}] : i \in 0..7} \cup UNION {[1..i -> {0, 4}] : i \in 8..10}

-----------------------------------------------------------------------------
Init ==
  /\ part \in {"csv", "ini", "mdf", "index", "values", "ascii", "header"}
  /\ CsvInit
  /\ IniInit /\ (part = "ini" \/ disk = <<>>)
  /\ MdfInit /\ (part = "mdf" \/ (list = <<>> /\ recordId = [name \in Names |-> 1]))
  /\ IndexInit /\ (part = "index" \/ disks[q] = <<>>)
  /\ ValuesInit /\ (part = "values" \/ text = "word")
  /\ AsciiInit /\ (part = "ascii" \/ source = <<>>)
  /\ HeaderInit /\ (part = "header" \/ (files[h1] = NoHeader /\ path = h2))

Next ==
  /\ UNCHANGED part
  /\ \/ part = "csv" /\ CsvNext
        /\ UNCHANGED <<iniVars, mdfVars, indexVars, valueVars, asciiVars, headerVars>>
     \/ part = "ini" /\ IniNext
        /\ UNCHANGED <<csvVars, mdfVars, indexVars, valueVars, asciiVars, headerVars>>
     \/ part = "mdf" /\ MdfNext
        /\ UNCHANGED <<csvVars, iniVars, indexVars, valueVars, asciiVars, headerVars>>
     \/ part = "index" /\ IndexNext
        /\ UNCHANGED <<csvVars, iniVars, mdfVars, valueVars, asciiVars, headerVars>>
     \/ part = "values" /\ ValuesNext
        /\ UNCHANGED <<csvVars, iniVars, mdfVars, indexVars, asciiVars, headerVars>>
     \/ part = "ascii" /\ AsciiNext
        /\ UNCHANGED <<csvVars, iniVars, mdfVars, indexVars, valueVars, headerVars>>
     \/ part = "header" /\ HeaderNext
        /\ UNCHANGED <<csvVars, iniVars, mdfVars, indexVars, valueVars, asciiVars>>

vars ==
  <<part, csvVars, iniVars, mdfVars, indexVars, valueVars, asciiVars, headerVars>>

Spec == Init /\ [][Next]_vars

=============================================================================
