---------------------------- MODULE MCLogSystem ----------------------------
(***************************************************************************)
(* LogSystem for TLC, with small documents.                                *)
(***************************************************************************)
EXTENDS LogSystem, TLC

CONSTANTS root, app

MCNames == {root, app}

Yaml(type, level, formatter) == [type |-> type, level |-> level, formatter |-> formatter]
Stdout == Yaml("stdout", NoLevel, "none")
File == Yaml("file", NoLevel, "bad")
Log(n, level, appenders) == [name |-> n, level |-> level, appenders |-> appenders]

\* No two documents give a logger the same level and other appenders; one
\* names a logger twice, three are malformed or hold malformed appenders.
PlainDocuments == {
    <<>>,
    <<Log(app, 1, <<File, Stdout>>)>>,
    <<Log(root, 2, <<Stdout>>), Log(app, 2, <<Yaml("file", 1, "short")>>)>>,
    <<Log(app, NoLevel, <<>>), Log(app, 2, <<Stdout>>)>>,
    <<Log(root, 1, <<Yaml("other", NoLevel, "none"), File, Yaml("missing", 2, "none")>>)>>,
    <<Log(app, NoLevel, <<Yaml("file", 2, "none")>>)>>,
    <<Log(NoName, 1, <<Stdout>>)>>}

\* A document that changes the appenders of a logger and nothing else.
ChangingDocuments ==
    {<<Log(app, 1, <<File, Stdout>>)>>, <<Log(app, 1, <<Yaml("file", NoLevel, "short")>>)>>,
     <<Log(root, 1, <<Stdout>>), Log(app, 2, <<Yaml("stdout", 1, "short")>>)>>}

ClientSymmetry == Permutations(Clients)

=============================================================================
