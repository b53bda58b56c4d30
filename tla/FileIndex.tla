------------------------------ MODULE FileIndex ------------------------------
(***************************************************************************)
(* The index of YAML files of src/extra/go/file: documents are read from   *)
(* files, found by kind and name or label, changed by the caller through   *)
(* what was found, and saved to the files they came from.  Documents of a  *)
(* kind the library does not know are passed over on reading.              *)
(*                                                                         *)
(* A save makes one step per document, each of which may fail.  A document *)
(* is a record [kind, name, labels, spec], and the index also keeps its    *)
(* file; files parse, and can be read.                                     *)
(***************************************************************************)
EXTENDS Naturals, FiniteSets, Sequences, SequencesExt

CONSTANTS
  Paths,      (* YAML files below the scanned directory                    *)
  Kinds,      (* what a document may say its kind is                       *)
  KnownKinds, (* the kinds that SetSpec and save know                      *)
  DocNames,
  Labels,     (* name and value pairs                                      *)
  Specs,
  Disks,      (* what the files may contain at first                       *)
  MaxAdds     (* bound: documents read                                     *)

Documents == [kind : Kinds, name : DocNames, labels : SUBSET Labels, spec : Specs]

(* A kind and a name are those of one document of a file.                  *)
Unique(docs) ==
  \A i, j \in DOMAIN docs :
    docs[i].kind = docs[j].kind /\ docs[i].name = docs[j].name => i = j

ASSUME PathsAssumption == IsFiniteSet(Paths) /\ KnownKinds \subseteq Kinds
ASSUME DisksAssumption ==
  \A d \in Disks : d \in [Paths -> Seq(Documents)] /\ \A p \in Paths : Unique(d[p])
ASSUME AddsAssumption == MaxAdds \in Nat

VARIABLES
  disks,      (* path -> documents                                         *)
  docMap,     (* DocMap: kind -> documents                                 *)
  fileMap,    (* FileMap: path -> places in DocMap; NotAdded if absent     *)
  saveList,   (* SaveList                                                  *)
  todo,       (* paths a Save still goes through, a sequence               *)
  doc,        (* the document of the first of them it writes next          *)
  wanted,     (* history: path -> documents as the caller sees them        *)
  again,      (* history: paths that were added more than once             *)
  saved       (* history: paths saved completely since they were changed   *)

indexVars == <<disks, docMap, fileMap, saveList, todo, doc, wanted, again, saved>>

NotAdded == <<[kind |-> "none", index |-> 0]>>

(* YamlKindHandler.Detect, by way of UnmarshalYAML and SetSpec.            *)
Detect(docs) ==
  LET kept[i \in 0..Len(docs)] ==
        IF i = 0 THEN <<>>
        ELSE IF docs[i].kind \in KnownKinds THEN Append(kept[i - 1], docs[i])
        ELSE kept[i - 1]
  IN kept[Len(docs)]

(* YamlFileIndex.Add, document by document; a file without documents is    *)
(* unsupported.                                                            *)
AddDocument(index, path, d) ==
  [docMap |-> [index.docMap EXCEPT ![d.kind] = Append(@, [file |-> path, doc |-> d])],
   places |-> Append(index.places,
                     [kind |-> d.kind, index |-> Len(index.docMap[d.kind]) + 1])]
AddTo(index, path) ==
  LET docs == Detect(disks[path])
      added[i \in 0..Len(docs)] ==
        IF i = 0 THEN [docMap |-> index.docMap, places |-> <<>>]
        ELSE AddDocument(added[i - 1], path, docs[i])
  IN IF docs = <<>> THEN index
     ELSE [docMap |-> added[Len(docs)].docMap,
           fileMap |-> [index.fileMap EXCEPT ![path] = added[Len(docs)].places]]
Index == [docMap |-> docMap, fileMap |-> fileMap]
Held == FoldFunction(LAMBDA docs, n : n + Len(docs), 0, docMap)
Read(paths, index) ==
  /\ docMap' = index.docMap /\ fileMap' = index.fileMap
  /\ wanted' = [p \in Paths |-> IF p \in paths THEN Detect(disks[p]) ELSE wanted[p]]
  /\ again' = again \cup {p \in paths : fileMap[p] # NotAdded}
  /\ saved' = saved \ paths
  /\ UNCHANGED <<disks, saveList, todo, doc>>

Idle == todo = <<>>

Add(path) ==
  /\ Idle /\ Held < MaxAdds
  /\ Read({path}, AddTo(Index, path))

(* Scan: every file of the directory, in the order of the walk.            *)
Walk == SetToSeq(Paths)
Scanned ==
  LET after[i \in 0..Len(Walk)] ==
        IF i = 0 THEN Index ELSE AddTo(after[i - 1], Walk[i])
  IN after[Len(Walk)]
Scan ==
  /\ Idle /\ Held < MaxAdds
  /\ Read(Paths, Scanned)

(* FindByName and FindByLabel: the first document of the kind that has the *)
(* name, or all of the labels; no labels match none.  0 is not found.      *)
FindByName(kind, name) == SelectInSeq(docMap[kind], LAMBDA d : d.doc.name = name)
FindByLabel(kind, labels) ==
  SelectInSeq(docMap[kind], LAMBDA d : labels # {} /\ labels \subseteq d.doc.labels)

(* The caller changes the spec of a document it has found: the copy it has *)
(* shares the spec with the index.                                         *)
Edit(kind, at, spec) ==
  LET path == docMap[kind][at].file
      name == docMap[kind][at].doc.name
  IN /\ Idle /\ at # 0
     /\ docMap' = [docMap EXCEPT ![kind][at].doc.spec = spec]
     /\ wanted' = [wanted EXCEPT ![path] = [i \in DOMAIN @ |->
          IF @[i].kind = kind /\ @[i].name = name THEN [@[i] EXCEPT !.spec = spec] ELSE @[i]]]
     /\ saved' = saved \ {path}
     /\ UNCHANGED <<disks, fileMap, saveList, todo, doc, again>>

(* Updated                                                                 *)
Updated(path) ==
  /\ Idle
  /\ fileMap[path] # NotAdded
  /\ saveList' = saveList \cup {path}
  /\ UNCHANGED <<disks, docMap, fileMap, todo, doc, wanted, again, saved>>

(* Save and SaveAll, in the order of a Go map, which is any.               *)
Save(paths) ==
  /\ Idle /\ paths # {}
  /\ todo' \in {o \in [1..Cardinality(paths) -> paths] : Range(o) = paths}
  /\ doc' = 1
  /\ UNCHANGED <<disks, docMap, fileMap, saveList, wanted, again, saved>>

(* save and writeYaml: the first document truncates the file, the others   *)
(* are appended.  An error ends the Save.                                  *)
Document(path, i) ==
  LET place == fileMap[path][i] IN docMap[place.kind][place.index].doc
DocumentWritten(path, before) ==
  LET last == doc = Len(fileMap[path]) IN
  /\ disks' = [disks EXCEPT ![path] = Append(before, Document(path, doc))]
  /\ doc' = IF last THEN 1 ELSE doc + 1
  /\ todo' = IF last THEN Tail(todo) ELSE todo
  /\ saved' = IF last THEN saved \cup {path} ELSE saved \ {path}
  /\ UNCHANGED <<docMap, fileMap, saveList, wanted, again>>
SaveDocumentAppends ==
  /\ ~Idle
  /\ DocumentWritten(Head(todo), disks[Head(todo)])
SaveDocument ==
  /\ ~Idle
  /\ DocumentWritten(Head(todo), IF doc = 1 THEN <<>> ELSE disks[Head(todo)])
SaveFails ==
  /\ ~Idle
  /\ \/ UNCHANGED disks
     \/ doc = 1 /\ disks' = [disks EXCEPT ![Head(todo)] = <<>>]
  /\ todo' = <<>>
  /\ doc' = 1
  /\ saved' = saved \ {Head(todo)}
  /\ UNCHANGED <<docMap, fileMap, saveList, wanted, again>>

IndexInit ==
  /\ disks \in Disks
  /\ docMap = [kind \in KnownKinds |-> <<>>]
  /\ fileMap = [p \in Paths |-> NotAdded]
  /\ saveList = {} /\ todo = <<>> /\ doc = 1
  /\ wanted = [p \in Paths |-> <<>>]
  /\ again = {} /\ saved = {}

IndexNext ==
  \/ \E path \in Paths : Add(path) \/ Updated(path)
  \/ Scan
  \/ \E kind \in KnownKinds, spec \in Specs :
       \/ \E name \in DocNames : Edit(kind, FindByName(kind, name), spec)
       \/ \E labels \in SUBSET Labels : Edit(kind, FindByLabel(kind, labels), spec)
  \/ Save(saveList)
  \/ Save({p \in Paths : fileMap[p] # NotAdded})
  \/ SaveDocument \/ SaveFails

-----------------------------------------------------------------------------
(* Properties.                                                             *)

IndexTypeOK ==
  /\ \A p \in Paths : fileMap[p] # NotAdded =>
       \A place \in Range(fileMap[p]) : place.index \in DOMAIN docMap[place.kind]
  /\ saveList \subseteq {p \in Paths : fileMap[p] # NotAdded}
  /\ Range(todo) \subseteq {p \in Paths : fileMap[p] # NotAdded}
  /\ Idle => doc = 1

(* What a save has written is what the caller has seen and changed: all    *)
(* documents of the file that were read, once each, in their order, with   *)
(* the latest specs, whatever else was added, changed or saved, and also   *)
(* when an earlier save broke off in the middle of the file.  The file is  *)
(* one that was added once: a second Add leaves the first documents in     *)
(* front, where they are found and changed, and saves the others.          *)
SavesWhatIsSeen ==
  /\ IndexTypeOK
  /\ \A p \in saved \ again : disks[p] = wanted[p]

=============================================================================
