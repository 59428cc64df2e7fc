-------------------------------- MODULE Yaml --------------------------------
(***************************************************************************)
(* YAML as src/config uses it (yaml-cpp): nodes, and the texts they are    *)
(* loaded from and written as.  A text is the node YAML::Load makes of it, *)
(* or EmptyText; numbers stand for scalars that are ints, NotNumber for a  *)
(* plain word.                                                             *)
(***************************************************************************)
EXTENDS Naturals, Sequences

NotNumber == 0
Null == [kind |-> "null"]
Scalar(s) == [kind |-> "scalar", scalar |-> s]
Elements(s) == [kind |-> "sequence", elements |-> s]
Map(members) == [kind |-> "map", members |-> members]
Member(key, node) == [key |-> key, node |-> node]

EmptyText == [kind |-> "empty"]

\* YAML::Load(text), and ss << node: "~" for Null.
Load(text) == IF text = EmptyText THEN Null ELSE text
Emit(node) == node

=============================================================================
