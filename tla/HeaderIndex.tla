----------------------------- MODULE HeaderIndex -----------------------------
(***************************************************************************)
(* The index of a C header made by src/extra/go/ast: clang prints the      *)
(* syntax tree of the header, and three visits of its top level collect    *)
(* typedefs, structs and functions.                                        *)
(*                                                                         *)
(* clang is external: ClangAst says which of its nodes a declaration       *)
(* becomes, with the attributes that the visitors read.  Types are names.  *)
(***************************************************************************)
EXTENDS Naturals, FiniteSets, Sequences, SequencesExt

CONSTANTS
  HeaderPaths,
  Headers,     (* contents of the files: [HeaderPaths -> header or NoHeader] *)
  NoHeader,    (* the file is missing                                      *)
  NoName,      (* no tag, or no name                                       *)
  MaxParses    (* bound: parses into one index                             *)

(* A header is a sequence of declarations [decl, tag, name, members]: a    *)
(* "struct", a "typedef" of a struct with its members, an "alias" of one   *)
(* (or of another type, without a tag), or a "function".  A member is      *)
(* [name, tag, members]: a field, if it has no members, or else a struct   *)
(* that is declared inside.                                                *)
ASSUME HeadersAssumption ==
  \A files \in Headers : \A p \in HeaderPaths : files[p] # NoHeader =>
    \A d \in Range(files[p]) : d.decl \in {"struct", "typedef", "alias", "function"}

VARIABLES
  files,       (* the headers                                              *)
  path,        (* ast.Path                                                 *)
  command,     (* the path in ast.ClangCmd, or NoName while it is empty    *)
  root,        (* the nodes in ast.YamlRoot                                *)
  index,       (* the Index: [functions, typedefs, structs]                *)
  loaded,      (* history: the header that root is of, or NoName           *)
  parses       (* history: the headers that were parsed into the index     *)

headerVars == <<files, path, command, root, index, loaded, parses>>

-----------------------------------------------------------------------------
(* What clang prints.  A struct that is declared in another precedes the   *)
(* field that has it; a struct without members has no "inner".             *)
RECURSIVE ClangMembers(_)
ClangMembers(members) ==
  FlattenSeq([i \in DOMAIN members |->
    LET m == members[i]
        field == [kind |-> "FieldDecl", name |-> m.name]
    IN IF m.members = <<>> THEN <<field>>
       ELSE <<[kind |-> "RecordDecl", name |-> m.tag, inner |-> ClangMembers(m.members)], field>>])
ClangAst(header) ==
  FlattenSeq([i \in DOMAIN header |->
    LET d == header[i]
        record == [kind |-> "RecordDecl", id |-> i, name |-> d.tag,
                   inner |-> ClangMembers(d.members)]
        owned == IF d.decl = "typedef" /\ d.tag = NoName THEN {i} ELSE {}
        typedef == [kind |-> "TypedefDecl", name |-> d.name, owned |-> owned]
    IN CASE d.decl = "struct" -> <<record>>
         [] d.decl = "typedef" -> <<record, typedef>>
         [] d.decl = "alias" -> <<typedef>>
         [] d.decl = "function" -> <<[kind |-> "FunctionDecl", name |-> d.name]>>])

-----------------------------------------------------------------------------
(* The visitors.  Of a kind, in the order of the tree:                     *)
OfKind(kind) == SelectSeq(root, LAMBDA node : node.kind = kind)

(* TypedefDeclVisitor: the names, and the structs without a tag that they  *)
(* own.                                                                    *)
TypeList == {t.name : t \in Range(OfKind("TypedefDecl"))}
OwnedBy(id) == {t.name : t \in {t \in Range(OfKind("TypedefDecl")) : id \in t.owned}}

(* processTypedefFieldDecl and processStructFieldDecl, and on the structs  *)
(* inside, parseAnonymousStruct: a struct with a tag is passed over.       *)
RECURSIVE MembersOf(_)
MembersOf(inner) ==
  FlattenSeq([i \in DOMAIN inner |->
    LET node == inner[i] IN
    CASE node.kind = "FieldDecl" /\ node.name # NoName ->
           <<[name |-> node.name, members |-> <<>>]>>
      [] node.kind = "RecordDecl" /\ node.name = NoName ->
           <<[name |-> NoName, members |-> MembersOf(node.inner)]>>
      [] OTHER -> <<>>])

(* RecordDeclVisitor: under the name of a typedef, its own or that of the  *)
(* same name, or under the tag.                                            *)
Nothing == [functions |-> <<>>, typedefs |-> <<>>, structs |-> <<>>]
Added(map, name, members) ==
  IF members = <<>> THEN map
  ELSE [n \in DOMAIN map \cup {name} |->
          (IF n \in DOMAIN map THEN map[n] ELSE <<>>) \o (IF n = name THEN members ELSE <<>>)]
AddRecordByTag(idx, node) ==
  [idx EXCEPT !.structs = Added(@, node.name, MembersOf(node.inner))]
AddRecord(idx, node) ==
  LET members == MembersOf(node.inner)
      owners == IF node.name # NoName THEN TypeList \cap {node.name} ELSE OwnedBy(node.id)
  IN CASE owners # {} -> [idx EXCEPT !.typedefs = Added(@, CHOOSE n \in owners : TRUE, members)]
       [] owners = {} /\ node.name # NoName ->
            [idx EXCEPT !.structs = Added(@, node.name, members)]
       [] OTHER -> idx

-----------------------------------------------------------------------------
(* Load: without the file at the path it fails.  The command, once it is   *)
(* made, stays, even if clang then fails and prints nothing; where clang   *)
(* reports errors and prints a tree, Load goes on with the tree.           *)
MakeCommand ==
  /\ files[path] # NoHeader
  /\ command' = IF command = NoName THEN path ELSE command
  /\ UNCHANGED <<files, path, index, parses>>
LoadAst ==
  /\ MakeCommand
  /\ root' = ClangAst(files[command'])
  /\ loaded' = command'
LoadAstFails == MakeCommand /\ UNCHANGED <<root, loaded>>

(* Parse, into an index that has been used or a new one.  The functions    *)
(* are added to those that are there.                                      *)
ParseInto(idx, before) ==
  LET empty == [idx EXCEPT !.typedefs = <<>>, !.structs = <<>>]
      records == FoldLeft(AddRecord, empty, OfKind("RecordDecl"))
      functions == OfKind("FunctionDecl")
  IN /\ index' = [records EXCEPT !.functions =
                    @ \o [i \in DOMAIN functions |-> functions[i].name]]
     /\ parses' = Append(before, loaded)
     /\ UNCHANGED <<files, path, command, root, loaded>>
Parse == Len(parses) < MaxParses /\ ParseInto(index, parses)
ParseNew == ParseInto(Nothing, <<>>)

(* The caller names another file, for this Ast or for a new one.           *)
SetPath(p) == path' = p /\ UNCHANGED <<files, command, root, index, loaded, parses>>
NewAst(p) ==
  /\ path' = p /\ command' = NoName /\ root' = <<>> /\ loaded' = NoName
  /\ UNCHANGED <<files, index, parses>>

HeaderInit ==
  /\ files \in Headers
  /\ path \in HeaderPaths
  /\ command = NoName /\ root = <<>> /\ loaded = NoName
  /\ index = Nothing /\ parses = <<>>

HeaderNext ==
  \/ LoadAst \/ LoadAstFails \/ Parse \/ ParseNew
  \/ \E p \in HeaderPaths : SetPath(p) \/ NewAst(p)

-----------------------------------------------------------------------------
(* Properties.                                                             *)

(* What a declared struct lists: its fields, and in front of one whose     *)
(* struct is declared inside without a tag, that struct.                   *)
RECURSIVE Lists(_)
Lists(members) ==
  FlattenSeq([i \in DOMAIN members |->
    LET m == members[i] IN
    (IF m.members # <<>> /\ m.tag = NoName
     THEN <<[name |-> NoName, members |-> Lists(m.members)]>> ELSE <<>>)
    \o (IF m.name # NoName THEN <<[name |-> m.name, members |-> <<>>]>> ELSE <<>>)])

(* Tags and typedef names are two name spaces of C, and one in the index:  *)
(* a header in which a tag is also the name of a type that is not its own  *)
(* has them mixed up.                                                      *)
Structs(header) == {d \in Range(header) : d.decl \in {"struct", "typedef"} /\ d.members # <<>>}
TypeNames(header) == {d \in Range(header) : d.decl \in {"typedef", "alias"}}
Clashes(header) ==
  \E s \in Structs(header), t \in TypeNames(header) : s.tag = t.name /\ t.tag # s.tag
Typedefs(header) ==
  {d \in Structs(header) : d.tag = NoName \/ \E t \in TypeNames(header) : t.name = d.tag}
Functions(header) == SelectSeq(header, LAMBDA d : d.decl = "function")
FunctionNames(header) ==
  LET of == Functions(header) IN [i \in DOMAIN of |-> of[i].name]

(* The index has every struct of the header once, under the name by which  *)
(* C programs know it, with all its fields in their order and the structs  *)
(* without a tag that are inside them; structs with a tag inside others    *)
(* are missing.  The header is the one whose path was there when the Ast   *)
(* was first to be loaded, whatever its path is now; without a Load that   *)
(* had an answer from clang it is none.  The functions are those of all    *)
(* headers that were parsed into the index.                                *)
HeaderOf(p) == IF p = NoName THEN <<>> ELSE files[p]
IndexIsOfHeader ==
  parses # <<>> =>
    LET header == HeaderOf(Last(parses))
        typedefs == Typedefs(header)
        structs == Structs(header) \ typedefs
        nameOf(d) == IF d.tag = NoName THEN d.name ELSE d.tag
    IN /\ loaded \in {NoName, command}
       /\ index.functions =
            FlattenSeq([i \in DOMAIN parses |-> FunctionNames(HeaderOf(parses[i]))])
       /\ ~Clashes(header) =>
            /\ DOMAIN index.typedefs = {nameOf(d) : d \in typedefs}
            /\ DOMAIN index.structs = {d.tag : d \in structs}
            /\ \A d \in typedefs : index.typedefs[nameOf(d)] = Lists(d.members)
            /\ \A d \in structs : index.structs[d.tag] = Lists(d.members)

=============================================================================
