--------------------------- MODULE ConfigRegistry ---------------------------
(***************************************************************************)
(* The registry of configuration variables of src/config: class Config,    *)
(* with Lookup, LookupBase, Visit and LoadFromYaml.                        *)
(*                                                                         *)
(* A name such as "system.port" is a sequence of words, and so is a key of *)
(* a YAML map, which may hold dots too.                                    *)
(* ListAllMember and Lexical_cast, which are recursive, are parameters     *)
(* here (ConfigTree and Lexical define them).  setValue() is one step; its *)
(* locks and listeners are in ConfigVar.                                   *)
(***************************************************************************)
EXTENDS Yaml

CONSTANTS
    Words,          \* the words names are made of
    Lower,          \* Lower[w]: w in lower case
    Valid,          \* the words Lookup accepts: lower case, digits and _
    Documents,      \* YAML documents that are loaded
    Names,          \* names that Lookup is called with
    Types,          \* types that Lookup is called with
    Default,        \* Default[type]: the default value its callers give
    all_nodes(_),   \* what ListAllMember makes of a document: a sequence
    Lexical_cast(_, _), \* a type and a text: the value, or that it throws
    Threads,        \* threads that call Lookup and Visit
    MaxCalls,       \* bound: calls of Lookup and Visit by each thread
    MaxLoads        \* bound: calls of LoadFromYaml

ASSUME RegistryAssumption ==
    /\ Lower \in [Words -> Words]
    /\ Valid \subseteq Words
    /\ Names \subseteq Seq(Words)
    /\ DOMAIN Default = Types
    /\ \A doc \in Documents :
          LET nodes == all_nodes(doc) IN nodes \in Seq({nodes[k] : k \in 1..Len(nodes)})
    /\ MaxCalls \in Nat /\ MaxLoads \in Nat

VARIABLES
    m_datas,        \* the registered names, each with its variable
    writer,         \* the threads that hold GetMutex() for writing
    readers,        \* the threads that hold it for reading over several steps
    call,           \* where each thread is, and its arguments
    ret,            \* what its last Lookup returned
    calls,
    todo,           \* LoadFromYaml's all_nodes, from the current one on
    var,            \* its var: the name LookupBase has found, or <<>>
    loader,         \* "idle", "loading" or "done"
    document,       \* what was loaded last
    before,         \* m_datas when that load began
    loads

regVars == <<writer, readers, call, ret, calls>>
loadVars == <<todo, var, loader, document, before, loads>>
vars == <<m_datas, regVars, loadVars>>

ValidName(name) == \A k \in 1..Len(name) : name[k] \in Valid
LowerName(name) == [k \in 1..Len(name) |-> Lower[name[k]]]

\* Before the first call of a thread.
AnyType == CHOOSE type \in Types : TRUE

Init ==
    /\ m_datas = <<>>
    /\ writer = {} /\ readers = {}
    /\ call = [t \in Threads |-> [pc |-> "idle", name |-> <<>>, type |-> AnyType]]
    /\ ret = [t \in Threads |-> "none"]
    /\ calls = [t \in Threads |-> 0]
    /\ todo = <<>> /\ var = <<>> /\ loader = "idle"
    /\ document = Map(<<>>) /\ before = <<>> /\ loads = 0

-----------------------------------------------------------------------------
\* Mutant of WriteFree: Lookup takes the lock for reading.
WriteFreeShared == TRUE

WriteFree == writer = {} /\ readers = {}
ReadFree == writer = {}

\* dynamic_pointer_cast<ConfigVar<T>> of a registered variable.
Cast(name, type) == IF m_datas[name].type = type THEN "ptr" ELSE "null"

Called(t) == calls' = [calls EXCEPT ![t] = @ + 1]

\* Lookup(default, name) of a name that is registered, or not valid: the
\* write lock is taken and given back.
LookupKnown(t, name, type) ==
    /\ call[t].pc = "idle" /\ calls[t] < MaxCalls
    /\ WriteFree
    /\ name \in DOMAIN m_datas \/ ~ValidName(name)
    /\ call' = [call EXCEPT ![t] = [pc |-> "idle", name |-> name, type |-> type]]
    /\ ret' = [ret EXCEPT ![t] = IF name \in DOMAIN m_datas THEN Cast(name, type) ELSE "threw"]
    /\ Called(t)
    /\ UNCHANGED <<m_datas, writer, readers, loadVars>>

\* Lookup(default, name) of a new name: the lock is kept to insert it.
LookupNew(t, name, type) ==
    /\ call[t].pc = "idle" /\ calls[t] < MaxCalls
    /\ WriteFree
    /\ name \notin DOMAIN m_datas /\ ValidName(name)
    /\ writer' = writer \cup {t}
    /\ call' = [call EXCEPT ![t] = [pc |-> "insert", name |-> name, type |-> type]]
    /\ ret' = [ret EXCEPT ![t] = "none"]
    /\ Called(t)
    /\ UNCHANGED <<m_datas, readers, loadVars>>

\* insert() leaves a name that has got in meanwhile alone, and Lookup
\* returns nullptr for it.
LookupInsert(t) ==
    LET name == call[t].name
        new == name \notin DOMAIN m_datas
    IN
    /\ call[t].pc = "insert"
    /\ m_datas' = [k \in DOMAIN m_datas \cup {name} |->
                     IF k = name /\ new
                     THEN [type |-> call[t].type, val |-> Default[call[t].type]]
                     ELSE m_datas[k]]
    /\ ret' = [ret EXCEPT ![t] = IF new THEN "ptr" ELSE "null"]
    /\ writer' = writer \ {t}
    /\ call' = [call EXCEPT ![t].pc = "idle"]
    /\ UNCHANGED <<readers, calls, loadVars>>

\* Visit(cb): the callbacks run under the read lock.
VisitBegin(t) ==
    /\ call[t].pc = "idle" /\ calls[t] < MaxCalls
    /\ ReadFree
    /\ readers' = readers \cup {t}
    /\ call' = [call EXCEPT ![t].pc = "visit"]
    /\ Called(t)
    /\ UNCHANGED <<m_datas, writer, ret, loadVars>>

VisitEnd(t) ==
    /\ call[t].pc = "visit"
    /\ readers' = readers \ {t}
    /\ call' = [call EXCEPT ![t].pc = "idle"]
    /\ UNCHANGED <<m_datas, writer, ret, calls, loadVars>>

-----------------------------------------------------------------------------
\* LoadFromYaml(root): the tree is flattened.
LoadBegin ==
    /\ loader \in {"idle", "done"}
    /\ loads < MaxLoads
    /\ \E doc \in Documents : document' = doc /\ todo' = all_nodes(doc)
    /\ before' = m_datas
    /\ loader' = "loading"
    /\ loads' = loads + 1
    /\ UNCHANGED <<m_datas, regVars, var>>

\* LookupBase of the next name, under the read lock; a node without a
\* variable is passed over, the root among them.
LoadLookup ==
    /\ loader = "loading" /\ todo # <<>> /\ var = <<>>
    /\ ReadFree
    /\ LET name == LowerName(Head(todo).name) IN
       IF name # <<>> /\ name \in DOMAIN m_datas
       THEN var' = name /\ UNCHANGED todo
       ELSE todo' = Tail(todo) /\ UNCHANGED var
    /\ UNCHANGED <<m_datas, regVars, loader, document, before, loads>>

\* The text that is given to fromString: a scalar's own, or the node written
\* to a stream, which for a null node is "~".
TextOf(node) == IF node.kind = "scalar" THEN node ELSE Emit(node)

\* ConfigVar::fromString: a text that cannot be converted leaves the
\* variable alone.
Assign(v, text) ==
    LET res == Lexical_cast(v.type, text) IN
    IF res.ok THEN [v EXCEPT !.val = res.val] ELSE v

LoadSet ==
    /\ var # <<>>
    /\ m_datas' = [m_datas EXCEPT ![var] = Assign(@, TextOf(Head(todo).node))]
    /\ todo' = Tail(todo)
    /\ var' = <<>>
    /\ UNCHANGED <<regVars, loader, document, before, loads>>

\* Mutant of LoadEnd: the last node is not looked at.
LoadEndEarly ==
    /\ loader = "loading" /\ Len(todo) <= 1 /\ var = <<>>
    /\ loader' = "done"
    /\ UNCHANGED <<m_datas, regVars, todo, var, document, before, loads>>

LoadEnd ==
    /\ loader = "loading" /\ todo = <<>>
    /\ loader' = "done"
    /\ UNCHANGED <<m_datas, regVars, todo, var, document, before, loads>>

\* The program makes no more calls.
Done ==
    /\ loader # "loading" /\ loads = MaxLoads
    /\ \A t \in Threads : call[t].pc = "idle" /\ calls[t] = MaxCalls
    /\ UNCHANGED vars

Next ==
    \/ Done
    \/ LoadBegin \/ LoadLookup \/ LoadSet \/ LoadEnd
    \/ \E t \in Threads :
          \/ \E name \in Names, type \in Types : LookupKnown(t, name, type) \/ LookupNew(t, name, type)
          \/ LookupInsert(t) \/ VisitBegin(t) \/ VisitEnd(t)

Spec == Init /\ [][Next]_vars

-----------------------------------------------------------------------------
\* The k-th of the nodes has a value for a variable.
Gives(nodes, k, name, type) ==
    /\ name # <<>> /\ LowerName(nodes[k].name) = name
    /\ Lexical_cast(type, TextOf(nodes[k].node)).ok

\* v is what the first m nodes make of the variable old.
FollowsUpTo(nodes, m, name, old, v) ==
    LET giving == {k \in 1..m : Gives(nodes, k, name, old.type)} IN
    /\ v.type = old.type
    /\ giving = {} => v.val = old.val
    /\ \A k \in giving : (\A j \in giving : j <= k) =>
          v.val = Lexical_cast(old.type, TextOf(nodes[k].node)).val

\* After a load a variable that was registered before it has the value of
\* the last node of the list that has one for it, whatever is registered
\* while the load is under way, and whichever conversions fail.
LoadInOrder ==
    loader = "done" =>
        \A name \in DOMAIN before :
            LET nodes == all_nodes(document) IN
            FollowsUpTo(nodes, Len(nodes), name, before[name], m_datas[name])

\* Lookup returns nullptr only for a name that holds another type, however
\* many threads register it at once, and a pointer only for its own type.
LookupAgrees ==
    \A t \in Threads :
        /\ ret[t] = "null" => m_datas[call[t].name].type # call[t].type
        /\ ret[t] = "ptr" => m_datas[call[t].name].type = call[t].type

\* While Visit walks the map no variable is added, and a variable that has
\* been registered is never removed or given another type.
RegistryStable ==
    [][/\ readers # {} => DOMAIN m_datas' = DOMAIN m_datas
       /\ \A name \in DOMAIN m_datas :
            name \in DOMAIN m_datas' /\ m_datas'[name].type = m_datas[name].type]_vars

=============================================================================
