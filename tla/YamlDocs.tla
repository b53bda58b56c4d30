------------------------------ MODULE YamlDocs ------------------------------
(***************************************************************************)
(* What loading YAML documents promises: the events of the parser, read    *)
(* with a stack of the values that are open, make the values of the        *)
(* documents.  A mapping's key that comes again takes the later value.     *)
(* Yaml.tla implements this module.                                        *)
(***************************************************************************)
EXTENDS Naturals, Sequences

CONSTANTS
  Strings,   (* scalars, and the keys of mappings                          *)
  None       (* no value, no key                                           *)

VARIABLES
  docs,      (* the values of the documents                                *)
  open       (* frames, the innermost last; <<>> between two documents     *)

vars == <<docs, open>>

Value(kind, of) == [kind |-> kind, of |-> of]
Frame(kind, of, key) == [kind |-> kind, of |-> of, key |-> key]
Top == open[Len(open)]
Below == SubSeq(open, 1, Len(open) - 1)

(* The frame takes a value next, and has taken it.                         *)
Takes(f) ==
  \/ f.kind = "doc" /\ f.of = None
  \/ f.kind = "map" /\ f.key # None
  \/ f.kind = "seq"
Taken(f, v) ==
  CASE f.kind = "doc" -> [f EXCEPT !.of = v]
    [] f.kind = "seq" -> [f EXCEPT !.of = Append(f.of, v)]
    [] OTHER -> [f EXCEPT !.key = None,
                          !.of = [k \in DOMAIN f.of \cup {f.key} |->
                                    IF k = f.key THEN v ELSE f.of[k]]]

Init == docs = <<>> /\ open = <<>>

Start ==
  /\ open = <<>>
  /\ open' = <<Frame("doc", None, None)>>
  /\ UNCHANGED docs

Key(s) ==
  /\ open # <<>> /\ Top.kind = "map" /\ Top.key = None
  /\ open' = Append(Below,
       Frame("map", [k \in DOMAIN Top.of \ {s} |-> Top.of[k]], s))
  /\ UNCHANGED docs

Scalar(s) ==
  /\ open # <<>> /\ Takes(Top)
  /\ open' = Append(Below, Taken(Top, Value("scalar", s)))
  /\ UNCHANGED docs

Nest(kind) ==
  /\ open # <<>> /\ Takes(Top)
  /\ open' = Append(open, Frame(kind, <<>>, None))
  /\ UNCHANGED docs

Close ==
  /\ Len(open) > 1 /\ Top.key = None
  /\ open' = Append(SubSeq(Below, 1, Len(Below) - 1),
                    Taken(open[Len(open) - 1], Value(Top.kind, Top.of)))
  /\ UNCHANGED docs

End ==
  /\ Len(open) = 1 /\ Top.of # None
  /\ docs' = Append(docs, Top.of)
  /\ open' = <<>>

(* The file has an error: the documents before it stay.                    *)
Lose == open' = <<>> /\ UNCHANGED docs

(* The caller keeps the first document, or none.                           *)
Keep(n) ==
  /\ open = <<>> /\ n <= Len(docs)
  /\ docs' = SubSeq(docs, 1, n)
  /\ UNCHANGED open

Next ==
  \/ Start
  \/ \E s \in Strings : Key(s) \/ Scalar(s)
  \/ \E kind \in {"map", "seq"} : Nest(kind)
  \/ Close
  \/ End
  \/ Lose
  \/ \E n \in {0, 1} : Keep(n)

Spec == Init /\ [][Next]_vars

=============================================================================
