----------------------------- MODULE ConfigTree -----------------------------
(***************************************************************************)
(* What Config::LoadFromYaml does with a whole document: ListAllMember,    *)
(* which flattens the tree for the loop in ConfigRegistry, and the         *)
(* conversions of Lexical_cast for the types of the variables.             *)
(***************************************************************************)
EXTENDS ConfigRegistry, Lexical
LOCAL INSTANCE SequencesExt

\* The members ListAllMember walks: a node that is no map has none.
Members(node) == IF node.kind = "map" THEN node.members ELSE <<>>

\* Mutant of Join: the prefix is forgotten.
JoinKey(prefix, key) == key

\* prefix + "." + key, or the key alone.
Join(prefix, key) == prefix \o key

RECURSIVE ListAllMember(_, _)

\* The tree, flattened in document order.  A name that is not valid is left
\* out with everything below it.
ListAllMember(prefix, node) ==
    IF ~ValidName(prefix) THEN <<>>
    ELSE <<[name |-> prefix, node |-> node]>> \o
         FlattenSeq([k \in 1..Len(Members(node)) |->
             ListAllMember(Join(prefix, Members(node)[k].key), Members(node)[k].node)])

\* LoadFromYaml's list of nodes.
AllNodes(doc) == ListAllMember(<<>>, doc)

-----------------------------------------------------------------------------
\* The positions of the nodes of a document of two levels below the root.
Positions(doc) ==
    LET top == 1..Len(Members(doc)) IN
    {<<k>> : k \in top} \cup
    UNION {{<<k, j>> : j \in 1..Len(Members(Members(doc)[k].node))} : k \in top}

At(doc, p) ==
    LET m == Members(doc)[p[1]] IN
    IF Len(p) = 1 THEN [name |-> m.key, node |-> m.node]
    ELSE [name |-> m.key \o Members(m.node)[p[2]].key, node |-> Members(m.node)[p[2]].node]

Precedes(p, q) == p[1] < q[1] \/ (p[1] = q[1] /\ Len(p) <= Len(q) /\ p[Len(p)] <= q[Len(p)])

\* What the document says of the variable: the last node with its name that
\* has a value of its type.
Said(doc, name, type) ==
    {p \in Positions(doc) :
        At(doc, p).name = name /\ fromString(type, TextOf(At(doc, p).node)).ok}
Expected(doc, v, name) ==
    LET S == Said(doc, name, v.type) IN
    IF S = {} THEN v.val
    ELSE LET last == CHOOSE p \in S : \A q \in S : Precedes(q, p) IN
         fromString(v.type, TextOf(At(doc, last).node)).val

\* A load gives every variable that was registered before it the value the
\* document has for it at any depth, whatever else the document holds, with
\* a node of the wrong type or a key that is not valid losing only itself
\* and what is below it; and it leaves the other variables alone.
LoadApplies ==
    loader = "done" =>
        \A name \in DOMAIN before :
            m_datas[name] = [before[name] EXCEPT !.val = Expected(document, before[name], name)]

\* ConfigVar::toString
Dump(v) == toString(v.type, v.val)

\* An element of vector<string> that YAML has no text for.
HoldsEmptyText(v) ==
    v.type.type \in {"vector", "list"} /\ \E k \in DOMAIN v.val : v.val[k] = EmptyText

\* What toString gives for a variable, fromString takes: the variable gets
\* its own value from it (only an empty string in a vector comes back as
\* "~"), and what it gets is written the same way again.
DumpReloads ==
    \A name \in DOMAIN m_datas :
        LET v == m_datas[name]
            again == fromString(v.type, Dump(v))
        IN
        /\ again.ok
        /\ HoldsEmptyText(v) \/ again.val = v.val
        /\ toString(v.type, again.val) = Dump(v)

=============================================================================
