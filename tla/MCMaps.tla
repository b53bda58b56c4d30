------------------------------- MODULE MCMaps -------------------------------
(***************************************************************************)
(* The hash map, and the loader of YAML documents, whose mappings are hash *)
(* maps.  In the model they do not interact, so a behaviour is one of a    *)
(* single part, chosen in the initial state, while the other waits in its. *)
(***************************************************************************)
EXTENDS MCHashMap, Yaml

VARIABLE part

MapsInit ==
  /\ part \in {"map", "yaml"}
  /\ Init /\ YamlInit
  /\ part # "map" => hash = [k \in Keys |-> 0]

MapsNext ==
  /\ UNCHANGED part
  /\ \/ part = "map" /\ Next /\ UNCHANGED yamlVars
     \/ part = "yaml" /\ YamlNext /\ UNCHANGED vars

MapsSpec == MapsInit /\ [][MapsNext]_<<part, vars, yamlVars>>

=============================================================================
