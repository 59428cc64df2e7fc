-------------------------- MODULE MCConfigRegistry --------------------------
(***************************************************************************)
(* ConfigRegistry for TLC: all documents of two levels over a few keys.    *)
(***************************************************************************)
EXTENDS ConfigTree, TLC

MCWords == {"a", "b", "A"}
MCLower == [w \in MCWords |-> IF w = "A" THEN "a" ELSE w]
MCValid == {"a", "b"}

\* The last of these is not valid.
MCNames == {<<"a">>, <<"a", "b">>, <<"A">>}

MCTypes == {IntType, Vector(StringType), UnorderedMap(Set(IntType))}
MCDefault == [T \in MCTypes |-> IF T = IntType THEN 9 ELSE <<>>]

Maps(keys, nodes) ==
    {Map(<<>>)}
    \cup {Map(<<Member(k, x)>>) : k \in keys, x \in nodes}
    \cup {Map(<<Member(k[1], x), Member(k[2], y)>>) :
             k \in {q \in keys \X keys : q[1] # q[2]}, x \in nodes, y \in nodes}

Numbers == Elements(<<Scalar(2), Scalar(1), Scalar(2)>>)

\* The key <<"a", "b">> is a.b, so that a document can say a variable twice.
MCDocuments ==
    {Null} \cup
    Maps({<<"a">>, <<"a", "b">>, <<"A">>},
         {Null, Scalar(NotNumber), Scalar(1), Numbers, Elements(<<Scalar(1), Null>>)}
         \cup Maps({<<"b">>, <<"A">>}, {Scalar(2), Numbers}))

Symmetry == Permutations(Threads)

=============================================================================
