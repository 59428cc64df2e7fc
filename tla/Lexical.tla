------------------------------ MODULE Lexical ------------------------------
(***************************************************************************)
(* The conversions of src/config/config.h between the text of a YAML node  *)
(* and the value of a configuration variable: Lexical_cast and its         *)
(* specialisations for containers, which may be nested.                    *)
(*                                                                         *)
(* A value is a number, a text (std::string), a sequence (vector, list), a *)
(* set (set, unordered_set) or a function (map, unordered_map).  A         *)
(* conversion yields Value(v) or Thrown.                                   *)
(***************************************************************************)
EXTENDS Yaml, FiniteSets
LOCAL INSTANCE SequencesExt

\* node.size(): a map counts its members.
Size(node) == CASE node.kind = "sequence" -> Len(node.elements)
                [] node.kind = "map" -> Len(node.members)
                [] OTHER -> 0

\* The text of node[i]: nothing when a map has no member of that key.
Element(node, i) == IF node.kind = "sequence" THEN Emit(node.elements[i]) ELSE EmptyText

IntType == [type |-> "int"]
StringType == [type |-> "string"]
Vector(T) == [type |-> "vector", of |-> T]
List(T) == [type |-> "list", of |-> T]
Set(T) == [type |-> "set", of |-> T]
UnorderedSet(T) == [type |-> "unordered_set", of |-> T]
MapOf(T) == [type |-> "map", of |-> T]
UnorderedMap(T) == [type |-> "unordered_map", of |-> T]

Thrown == [ok |-> FALSE]
Value(v) == [ok |-> TRUE, val |-> v]

RECURSIVE fromString(_, _), toString(_, _)

\* boost::lexical_cast<int>(text)
IntOf(text) ==
    IF text.kind = "scalar" /\ text.scalar # NotNumber THEN Value(text.scalar) ELSE Thrown

\* The loop over node[i] and push_back.
VectorOf(T, node) ==
    LET parts == [i \in 1..Size(node) |-> fromString(T, Element(node, i))] IN
    IF \A i \in 1..Size(node) : parts[i].ok
    THEN Value([i \in 1..Size(node) |-> parts[i].val]) ELSE Thrown
ListOf(T, node) == VectorOf(T, node)

\* The same loop with insert.
SetOf(T, node) ==
    LET v == VectorOf(T, node) IN IF v.ok THEN Value(ToSet(v.val)) ELSE Thrown
UnorderedSetOf(T, node) == SetOf(T, node)

\* The loop over the pairs of a node: the elements of a sequence have no
\* first, other nodes no pairs, and insert keeps the first value of a key.
MapPairs(T, node) ==
    LET pairs == IF node.kind = "map" THEN node.members ELSE <<>>
        vals == [i \in 1..Len(pairs) |-> fromString(T, Emit(pairs[i].node))]
        first(key) == CHOOSE i \in 1..Len(pairs) :
                         pairs[i].key = key /\ \A j \in 1..(i - 1) : pairs[j].key # key
    IN
    IF (node.kind = "sequence" /\ Size(node) > 0) \/ \E i \in 1..Len(pairs) : ~vals[i].ok
    THEN Thrown
    ELSE Value([key \in {pairs[i].key : i \in 1..Len(pairs)} |-> vals[first(key)].val])
UnorderedMapPairs(T, node) == MapPairs(T, node)

\* Lexical_cast<std::string, T>
fromString(T, text) ==
    CASE T.type = "int" -> IntOf(text)
      [] T.type = "string" -> Value(text)
      [] T.type = "vector" -> VectorOf(T.of, Load(text))
      [] T.type = "list" -> ListOf(T.of, Load(text))
      [] T.type = "set" -> SetOf(T.of, Load(text))
      [] T.type = "unordered_set" -> UnorderedSetOf(T.of, Load(text))
      [] T.type = "map" -> MapPairs(T.of, Load(text))
      [] T.type = "unordered_map" -> UnorderedMapPairs(T.of, Load(text))

\* node.push_back for every element; a node nothing was put in is empty text.
VectorText(T, v) ==
    IF v = <<>> THEN EmptyText
    ELSE Elements([i \in 1..Len(v) |-> Load(toString(T, v[i]))])
ListText(T, v) == VectorText(T, v)

\* In some order: reading it back forgets which.
SetText(T, v) == VectorText(T, SetToSeq(v))
UnorderedSetText(T, v) == SetText(T, v)

\* Mutant of MapText: the value is written as it is, not loaded.
MapTextUnloaded(T, v) ==
    LET keys == SetToSeq(DOMAIN v) IN
    IF keys = <<>> THEN EmptyText
    ELSE Map([i \in 1..Len(keys) |-> Member(keys[i], Scalar(NotNumber))])

\* node[i.first] = ...
MapText(T, v) ==
    LET keys == SetToSeq(DOMAIN v) IN
    IF keys = <<>> THEN EmptyText
    ELSE Map([i \in 1..Len(keys) |-> Member(keys[i], Load(toString(T, v[keys[i]])))])
UnorderedMapText(T, v) == MapText(T, v)

\* Lexical_cast<T, std::string>
toString(T, v) ==
    CASE T.type = "int" -> Scalar(v)
      [] T.type = "string" -> v
      [] T.type = "vector" -> VectorText(T.of, v)
      [] T.type = "list" -> ListText(T.of, v)
      [] T.type = "set" -> SetText(T.of, v)
      [] T.type = "unordered_set" -> UnorderedSetText(T.of, v)
      [] T.type = "map" -> MapText(T.of, v)
      [] T.type = "unordered_map" -> UnorderedMapText(T.of, v)

=============================================================================
