------------------------ MODULE ConfigRegistryProofs ------------------------
(***************************************************************************)
(* RegistryStable, LookupAgrees and LoadInOrder of ConfigRegistry, for any *)
(* threads, names, types and documents, and for any lists all_nodes makes  *)
(* and any conversions Lexical_cast does.                                  *)
(***************************************************************************)
EXTENDS ConfigRegistry, TLAPS, SequenceTheorems

\* m_datas is a map from names to variables.
DatasType ==
    /\ m_datas = [name \in DOMAIN m_datas |-> m_datas[name]]
    /\ \A name \in DOMAIN m_datas :
          m_datas[name] = [type |-> m_datas[name].type, val |-> m_datas[name].val]

ThreadTypes ==
    /\ call = [t \in Threads |-> [pc |-> call[t].pc, name |-> call[t].name, type |-> call[t].type]]
    /\ \A t \in Threads : call[t].pc \in {"idle", "insert", "visit"}
    /\ ret \in [Threads -> {"none", "ptr", "null", "threw"}]

\* A thread between the search and the insertion of Lookup is the only one
\* that has the lock; one in Visit shares it with its like.
MutexHeld ==
    /\ \A t \in Threads : call[t].pc = "insert" => writer = {t} /\ readers = {}
    /\ \A t \in readers : t \in Threads /\ call[t].pc = "visit"

\* So the name it searched for is still not there when it inserts it, and
\* what Lookup has returned stays true.
LookupsTrue ==
    \A t \in Threads :
        /\ call[t].pc = "insert" => ret[t] = "none" /\ call[t].name \notin DOMAIN m_datas
        /\ ret[t] \in {"ptr", "null"} =>
              /\ call[t].name \in DOMAIN m_datas
              /\ ret[t] = Cast(call[t].name, call[t].type)

\* LoadFromYaml sets only a variable that LookupBase has found.
VarFound == var # <<>> => var \in DOMAIN m_datas

RegInv == DatasType /\ ThreadTypes /\ MutexHeld /\ LookupsTrue /\ VarFound

\* What a step may do to the map.
DatasGrow ==
    \A name \in DOMAIN m_datas :
        name \in DOMAIN m_datas' /\ m_datas'[name].type = m_datas[name].type

\* Init gives an empty registry.
LEMMA RegInvInit == Init => RegInv
<1> SUFFICES ASSUME Init PROVE RegInv
    OBVIOUS
<1>1. m_datas = <<>> /\ DOMAIN m_datas = {}
      BY DEF Init
<1>2. DatasType
      BY <1>1 DEF DatasType
<1>3. QED  BY <1>1, <1>2 DEF Init, RegInv, ThreadTypes, MutexHeld, LookupsTrue, VarFound

\* A text that is assigned changes neither the type nor the shape.
LEMMA AssignKeeps ==
    ASSUME NEW v, NEW text, v = [type |-> v.type, val |-> v.val]
    PROVE  /\ Assign(v, text).type = v.type
           /\ Assign(v, text) = [type |-> Assign(v, text).type, val |-> Assign(v, text).val]
           /\ Assign(v, text).val = IF Lexical_cast(v.type, text).ok
                                    THEN Lexical_cast(v.type, text).val ELSE v.val
<1> DEFINE res == Lexical_cast(v.type, text)
<1>1. CASE res.ok
  <2>1. Assign(v, text) = [v EXCEPT !.val = res.val]
        BY <1>1 DEF Assign
  <2>2. [v EXCEPT !.val = res.val] = [type |-> v.type, val |-> res.val]
        OBVIOUS
  <2>3. QED  BY <1>1, <2>1, <2>2
<1>2. CASE ~res.ok
      BY <1>2 DEF Assign
<1>3. QED  BY <1>1, <1>2


\* What is true of the lookups stays true while no variable goes or changes
\* its type, of the threads that make no call.
LEMMA OtherLookups ==
    ASSUME RegInv, DatasGrow, NEW t \in Threads,
           call'[t] = call[t], ret'[t] = ret[t], ret[t] \in {"ptr", "null"}
    PROVE  call'[t].name \in DOMAIN m_datas' /\ ret'[t] = Cast(call[t].name, call[t].type)'
BY DEF RegInv, LookupsTrue, DatasGrow, Cast

\* A thread that goes on keeps its arguments.
LEMMA PcMoves ==
    ASSUME ThreadTypes, NEW t \in Threads, NEW c \in {"idle", "insert", "visit"},
           call' = [call EXCEPT ![t].pc = c], ret' \in [Threads -> {"none", "ptr", "null", "threw"}]
    PROVE  /\ ThreadTypes'
           /\ call'[t].pc = c
           /\ \A u \in Threads : u # t => call'[u].pc = call[u].pc
           /\ \A u \in Threads : call'[u].name = call[u].name /\ call'[u].type = call[u].type
<1> DEFINE moved == [pc |-> c, name |-> call[t].name, type |-> call[t].type]
<1>1. call[t] = [pc |-> call[t].pc, name |-> call[t].name, type |-> call[t].type]
      BY DEF ThreadTypes
<1>2. [call[t] EXCEPT !.pc = c] = moved
      BY <1>1
<1>3. call' = [call EXCEPT ![t] = moved]
      BY <1>2
<1>4. /\ moved.pc = c /\ moved.name = call[t].name /\ moved.type = call[t].type
      /\ moved = [pc |-> moved.pc, name |-> moved.name, type |-> moved.type]
      OBVIOUS
<1> HIDE DEF moved
<1>5. /\ DOMAIN call = Threads
      /\ \A u \in Threads : call[u] = [pc |-> call[u].pc, name |-> call[u].name, type |-> call[u].type]
      BY DEF ThreadTypes
<1>6. call'[t] = moved /\ \A u \in Threads : u # t => call'[u] = call[u]
      BY <1>3, <1>5
<1>7. /\ call' = [u \in Threads |-> call'[u]]
      /\ \A u \in Threads :
            call'[u] = [pc |-> call'[u].pc, name |-> call'[u].name, type |-> call'[u].type]
      BY <1>3, <1>4, <1>5, <1>6
<1>8. call' = [u \in Threads |->
                 [pc |-> call'[u].pc, name |-> call'[u].name, type |-> call'[u].type]]
      BY <1>7
<1>9. QED  BY <1>4, <1>6, <1>8 DEF ThreadTypes

\* The calls of the threads.
LEMMA RegInvThread ==
    ASSUME RegInv, NEW t \in Threads,
           \/ \E name \in Names, type \in Types : LookupKnown(t, name, type) \/ LookupNew(t, name, type)
           \/ LookupInsert(t) \/ VisitBegin(t) \/ VisitEnd(t)
    PROVE  RegInv' /\ DatasGrow /\ (readers # {} => DOMAIN m_datas' = DOMAIN m_datas)
<1> USE DEF RegInv, ThreadTypes, MutexHeld, LookupsTrue, VarFound, loadVars
<1>1. ASSUME NEW name \in Names, NEW type \in Types, LookupKnown(t, name, type)
      PROVE  RegInv' /\ DatasGrow /\ DOMAIN m_datas' = DOMAIN m_datas
  <2>1. /\ m_datas' = m_datas /\ UNCHANGED <<writer, readers, var>>
        /\ call' = [call EXCEPT ![t] = [pc |-> "idle", name |-> name, type |-> type]]
        /\ ret' = [ret EXCEPT ![t] = IF name \in DOMAIN m_datas THEN Cast(name, type) ELSE "threw"]
        /\ call[t].pc = "idle"
        BY <1>1 DEF LookupKnown
  <2>2. DatasGrow /\ DatasType'
        BY <2>1 DEF DatasGrow, DatasType
  <2>3. ThreadTypes'
        BY <2>1 DEF Cast
  <2>4. MutexHeld'
        BY <2>1
  <2>5. LookupsTrue'
    <3>1. ASSUME NEW u \in Threads, u # t
          PROVE  /\ call'[u].pc = "insert" => ret'[u] = "none" /\ call'[u].name \notin DOMAIN m_datas'
                 /\ ret'[u] \in {"ptr", "null"} =>
                      call'[u].name \in DOMAIN m_datas' /\ ret'[u] = Cast(call[u].name, call[u].type)'
      <4>1. call'[u] = call[u] /\ ret'[u] = ret[u]
            BY <2>1, <3>1
      <4>2. QED  BY <2>1, <2>2, <4>1, OtherLookups
    <3>2. /\ call'[t].pc = "idle" /\ call'[t].name = name /\ call'[t].type = type
          /\ ret'[t] = IF name \in DOMAIN m_datas THEN Cast(name, type) ELSE "threw"
          BY <2>1
    <3>3. Cast(call[t].name, call[t].type)' = Cast(name, type)
          BY <2>1, <3>2 DEF Cast
    <3>4. QED  BY <2>1, <3>1, <3>2, <3>3
  <2>6. QED  BY <2>1, <2>2, <2>3, <2>4, <2>5
<1>2. ASSUME NEW name \in Names, NEW type \in Types, LookupNew(t, name, type)
      PROVE  RegInv' /\ DatasGrow /\ DOMAIN m_datas' = DOMAIN m_datas
  <2>1. /\ m_datas' = m_datas /\ UNCHANGED <<readers, var>> /\ readers = {}
        /\ writer = {} /\ writer' = {t} /\ name \notin DOMAIN m_datas
        /\ call' = [call EXCEPT ![t] = [pc |-> "insert", name |-> name, type |-> type]]
        /\ ret' = [ret EXCEPT ![t] = "none"] /\ call[t].pc = "idle"
        BY <1>2 DEF LookupNew, WriteFree
  <2>2. DatasGrow /\ DatasType'
        BY <2>1 DEF DatasGrow, DatasType
  <2>3. ThreadTypes' /\ MutexHeld'
        BY <2>1
  <2>4. LookupsTrue'
    <3>1. ASSUME NEW u \in Threads, u # t
          PROVE  /\ call'[u].pc # "insert"
                 /\ ret'[u] \in {"ptr", "null"} =>
                      call'[u].name \in DOMAIN m_datas' /\ ret'[u] = Cast(call[u].name, call[u].type)'
      <4>1. call'[u] = call[u] /\ ret'[u] = ret[u]
            BY <2>1, <3>1
      <4>2. QED  BY <2>1, <2>2, <4>1, OtherLookups
    <3>2. call'[t].pc = "insert" /\ call'[t].name = name /\ ret'[t] = "none"
          BY <2>1
    <3>3. QED  BY <2>1, <3>1, <3>2
  <2>5. QED  BY <2>1, <2>2, <2>3, <2>4
<1>3. CASE LookupInsert(t)
  <2> DEFINE name == call[t].name
             new == [type |-> call[t].type, val |-> Default[call[t].type]]
  <2>1. /\ call[t].pc = "insert" /\ name \notin DOMAIN m_datas
        /\ writer = {t} /\ readers = {} /\ UNCHANGED <<readers, var>>
        BY <1>3 DEF LookupInsert
  <2>2. /\ m_datas' = [k \in DOMAIN m_datas \cup {name} |-> IF k = name THEN new ELSE m_datas[k]]
        /\ ret' = [ret EXCEPT ![t] = "ptr"]
        /\ writer' = {}
        /\ call' = [call EXCEPT ![t].pc = "idle"]
        BY <1>3, <2>1 DEF LookupInsert
  <2>3. /\ DOMAIN m_datas' = DOMAIN m_datas \cup {name}
        /\ m_datas'[name] = new
        /\ \A k \in DOMAIN m_datas : m_datas'[k] = m_datas[k]
        BY <2>1, <2>2
  <2>4. new.type = call[t].type /\ new = [type |-> new.type, val |-> new.val]
        OBVIOUS
  <2>5. DatasGrow
        BY <2>3 DEF DatasGrow
  <2> HIDE DEF new
  <2>6. DatasType'
        BY <2>2, <2>3, <2>4 DEF DatasType
  <2>7. ThreadTypes' /\ MutexHeld'
    <3>1. ret' \in [Threads -> {"none", "ptr", "null", "threw"}]
          BY <2>2
    <3>2. /\ ThreadTypes' /\ call'[t].pc = "idle"
          /\ \A u \in Threads : u # t => call'[u].pc = call[u].pc
          BY <2>2, <3>1, PcMoves
    <3>3. MutexHeld
          OBVIOUS
    <3> HIDE DEF RegInv, ThreadTypes, LookupsTrue
    <3>4. \A u \in Threads : call'[u].pc # "insert"
          BY <2>1, <3>2, <3>3
    <3>5. readers' = {}
          BY <2>1
    <3>6. QED  BY <3>2, <3>4, <3>5
  <2>8. LookupsTrue'
    <3>1. ASSUME NEW u \in Threads, u # t
          PROVE  /\ call'[u].pc # "insert"
                 /\ ret'[u] \in {"ptr", "null"} =>
                      call'[u].name \in DOMAIN m_datas' /\ ret'[u] = Cast(call[u].name, call[u].type)'
      <4>1. call'[u] = call[u] /\ ret'[u] = ret[u]
            BY <2>2, <3>1
      <4>2. call[u].pc # "insert"
            BY <2>1, <3>1
      <4>3. QED  BY <2>5, <4>1, <4>2, OtherLookups
    <3>2. call'[t].pc = "idle" /\ call'[t].name = name /\ call'[t].type = call[t].type /\ ret'[t] = "ptr"
          BY <2>2
    <3>3. Cast(call[t].name, call[t].type)' = "ptr"
          BY <2>3, <2>4, <3>2 DEF Cast
    <3>4. QED  BY <2>3, <3>1, <3>2, <3>3
  <2>9. VarFound'
        BY <2>1, <2>3
  <2>10. QED  BY <2>1, <2>5, <2>6, <2>7, <2>8, <2>9
<1>4. CASE VisitBegin(t) \/ VisitEnd(t)
  <2>1. /\ m_datas' = m_datas /\ UNCHANGED <<writer, ret, var>>
        /\ \/ /\ call[t].pc = "idle" /\ writer = {} /\ readers' = readers \cup {t}
              /\ call' = [call EXCEPT ![t].pc = "visit"]
           \/ /\ call[t].pc = "visit" /\ readers' = readers \ {t}
              /\ call' = [call EXCEPT ![t].pc = "idle"]
        BY <1>4 DEF VisitBegin, VisitEnd, ReadFree
  <2>2. DatasGrow /\ DatasType'
        BY <2>1 DEF DatasGrow, DatasType
  <2>3. ThreadTypes' /\ MutexHeld'
    <3>1. ret' \in [Threads -> {"none", "ptr", "null", "threw"}]
          BY <2>1
    <3>2. PICK c \in {"idle", "visit"} :
             /\ call' = [call EXCEPT ![t].pc = c]
             /\ c = "visit" => call[t].pc = "idle" /\ writer = {} /\ readers' = readers \cup {t}
             /\ c = "idle" => call[t].pc = "visit" /\ readers' = readers \ {t}
          BY <2>1
    <3>3. /\ ThreadTypes' /\ call'[t].pc = c
          /\ \A u \in Threads : u # t => call'[u].pc = call[u].pc
          BY <3>1, <3>2, PcMoves
    <3>4. MutexHeld
          OBVIOUS
    <3> HIDE DEF RegInv, ThreadTypes, LookupsTrue
    <3>5. ASSUME NEW u \in Threads, call'[u].pc = "insert" PROVE writer' = {u} /\ readers' = {}
      <4>1. call[u].pc = "insert" /\ u # t
            BY <3>2, <3>3, <3>5
      <4>2. writer = {u} /\ readers = {}
            BY <3>4, <4>1
      <4>3. c = "idle"
            BY <3>2, <4>2
      <4>4. QED  BY <2>1, <3>2, <4>2, <4>3
    <3>6. ASSUME NEW u \in readers' PROVE u \in Threads /\ call'[u].pc = "visit"
      <4>1. CASE c = "visit"
            BY <3>2, <3>3, <3>4, <3>6, <4>1
      <4>2. CASE c = "idle"
            BY <3>2, <3>3, <3>4, <3>6, <4>2
      <4>3. QED  BY <4>1, <4>2
    <3>7. QED  BY <3>3, <3>5, <3>6
  <2>4. \A u \in Threads : call'[u].name = call[u].name /\ call'[u].type = call[u].type
        BY <2>1
  <2>5. LookupsTrue'
        BY <2>1, <2>4 DEF Cast
  <2>6. QED  BY <2>1, <2>2, <2>3, <2>5
<1>5. QED  BY <1>1, <1>2, <1>3, <1>4

\* LoadFromYaml changes the value of one variable that is there.
LEMMA RegInvLoad ==
    ASSUME RegInv, LoadBegin \/ LoadLookup \/ LoadSet \/ LoadEnd
    PROVE  RegInv' /\ DatasGrow /\ DOMAIN m_datas' = DOMAIN m_datas
<1> USE DEF RegInv, regVars
<1>1. UNCHANGED <<writer, readers, call, ret>>
      BY DEF LoadBegin, LoadLookup, LoadSet, LoadEnd
<1>2. ThreadTypes' /\ MutexHeld'
      BY <1>1 DEF ThreadTypes, MutexHeld
<1>3. DatasType' /\ DatasGrow /\ DOMAIN m_datas' = DOMAIN m_datas /\ VarFound'
  <2>1. CASE LoadSet
    <3> DEFINE new == Assign(m_datas[var], TextOf(Head(todo).node))
    <3>1. var' = <<>> /\ var \in DOMAIN m_datas
          BY <2>1 DEF LoadSet, VarFound
    <3>2. m_datas' = [m_datas EXCEPT ![var] = new]
          BY <2>1 DEF LoadSet
    <3>3. m_datas[var] = [type |-> m_datas[var].type, val |-> m_datas[var].val]
          BY <3>1 DEF DatasType
    <3>4. new.type = m_datas[var].type /\ new = [type |-> new.type, val |-> new.val]
          BY <3>3, AssignKeeps
    <3> HIDE DEF new
    <3>5. /\ DOMAIN m_datas' = DOMAIN m_datas /\ m_datas'[var] = new
          /\ \A k \in DOMAIN m_datas : k # var => m_datas'[k] = m_datas[k]
          BY <3>1, <3>2 DEF DatasType
    <3>6. m_datas' = [name \in DOMAIN m_datas' |-> m_datas'[name]]
          BY <3>2
    <3>7. QED  BY <3>1, <3>4, <3>5, <3>6 DEF DatasType, DatasGrow, VarFound
  <2>2. CASE LoadBegin
        BY <2>2 DEF LoadBegin, DatasType, DatasGrow, VarFound
  <2>3. CASE LoadEnd
        BY <2>3 DEF LoadEnd, DatasType, DatasGrow, VarFound
  <2>4. CASE LoadLookup
    <3>1. m_datas' = m_datas
          BY <2>4 DEF LoadLookup
    <3>2. VarFound'
          BY <2>4, <3>1 DEF LoadLookup, VarFound
    <3>3. QED  BY <3>1, <3>2 DEF DatasType, DatasGrow
  <2>5. QED  BY <2>1, <2>2, <2>3, <2>4
<1>4. LookupsTrue'
  <2>1. ASSUME NEW t \in Threads
        PROVE  /\ call'[t].pc = "insert" => ret'[t] = "none" /\ call'[t].name \notin DOMAIN m_datas'
               /\ ret'[t] \in {"ptr", "null"} =>
                    call'[t].name \in DOMAIN m_datas' /\ ret'[t] = Cast(call[t].name, call[t].type)'
        BY <1>1, <1>3, OtherLookups DEF LookupsTrue
  <2>2. QED  BY <2>1 DEF LookupsTrue
<1>5. QED  BY <1>2, <1>3, <1>4

LEMMA RegInvNext ==
    ASSUME RegInv, [Next]_vars
    PROVE  RegInv' /\ DatasGrow /\ (readers # {} => DOMAIN m_datas' = DOMAIN m_datas)
<1>1. CASE Done \/ UNCHANGED vars
  <2>1. UNCHANGED <<m_datas, writer, readers, call, ret, var>>
        BY <1>1 DEF Done, vars, regVars, loadVars
  <2>2. QED  BY <2>1 DEF RegInv, DatasType, ThreadTypes, MutexHeld, LookupsTrue, VarFound,
                  DatasGrow, Cast
<1>2. QED  BY <1>1, RegInvThread, RegInvLoad DEF Next

\* While Visit walks the map no variable is added, since Lookup inserts
\* under the write lock; none is ever removed or given another type.
THEOREM RegistryGrows == Spec => RegistryStable
<1>1. RegInv /\ [Next]_vars => RegInv'
      BY RegInvNext
<1>2. RegInv /\ [Next]_vars =>
        [/\ readers # {} => DOMAIN m_datas' = DOMAIN m_datas
         /\ \A name \in DOMAIN m_datas :
              name \in DOMAIN m_datas' /\ m_datas'[name].type = m_datas[name].type]_vars
      BY RegInvNext DEF DatasGrow
<1>3. QED  BY RegInvInit, <1>1, <1>2, PTL DEF Spec, RegistryStable

\* However many threads look a name up at once, all get the same variable:
\* a null pointer means that the name has another type, which the search
\* and the insertion under one lock make sure of.
THEOREM LookupsAgree == Spec => []LookupAgrees
<1>1. RegInv => LookupAgrees
      BY DEF RegInv, LookupsTrue, LookupAgrees, Cast
<1>2. RegInv /\ [Next]_vars => RegInv'
      BY RegInvNext
<1>3. QED  BY RegInvInit, <1>1, <1>2, PTL DEF Spec


-----------------------------------------------------------------------------
(***************************************************************************)
(* The loop of LoadFromYaml: what the nodes it has passed say is done.     *)
(***************************************************************************)

\* One more node: one that gives the variable nothing, and one that does.
LEMMA PassedOver ==
    ASSUME NEW nodes, NEW m \in Nat, NEW name, NEW old, NEW v,
           FollowsUpTo(nodes, m, name, old, v), ~Gives(nodes, m + 1, name, old.type)
    PROVE  FollowsUpTo(nodes, m + 1, name, old, v)
<1>1. {k \in 1..(m + 1) : Gives(nodes, k, name, old.type)}
         = {k \in 1..m : Gives(nodes, k, name, old.type)}
      OBVIOUS
<1>2. QED  BY <1>1 DEF FollowsUpTo

LEMMA Given ==
    ASSUME NEW nodes, NEW m \in Nat, NEW name, NEW old, NEW v,
           v.type = old.type, Gives(nodes, m + 1, name, old.type),
           v.val = Lexical_cast(old.type, TextOf(nodes[m + 1].node)).val
    PROVE  FollowsUpTo(nodes, m + 1, name, old, v)
<1> DEFINE giving == {k \in 1..(m + 1) : Gives(nodes, k, name, old.type)}
<1>1. m + 1 \in giving
      OBVIOUS
<1>2. \A k \in giving : (\A j \in giving : j <= k) => k = m + 1
  <2>1. \A k \in giving : k \in 1..(m + 1)
        OBVIOUS
  <2> HIDE DEF giving
  <2>2. QED  BY <1>1, <2>1
<1>3. /\ giving # {}
      /\ \A k \in giving : (\A j \in giving : j <= k) =>
            v.val = Lexical_cast(old.type, TextOf(nodes[k].node)).val
      BY <1>1, <1>2
<1>4. QED  BY <1>3 DEF FollowsUpTo

\* The number of nodes the loop has passed.
Passed ==
    IF loader = "done" THEN Len(all_nodes(document))
                       ELSE Len(all_nodes(document)) - Len(todo)

\* todo is what is left of the list, and var the name of its first node.
ListLeft ==
    /\ loader \in {"idle", "loading", "done"}
    /\ loader # "idle" => document \in Documents
    /\ loader = "loading" =>
          /\ Len(todo) \in 0..Len(all_nodes(document))
          /\ todo = SubSeq(all_nodes(document), Passed + 1, Len(all_nodes(document)))
    /\ var # <<>> => loader = "loading" /\ todo # <<>> /\ var = LowerName(Head(todo).name)

Followed ==
    loader # "idle" =>
        \A name \in DOMAIN before :
            /\ name \in DOMAIN m_datas
            /\ FollowsUpTo(all_nodes(document), Passed, name, before[name], m_datas[name])

LoadInv == RegInv /\ ListLeft /\ Followed

LEMMA LoadInvInit == Init => LoadInv
  BY RegInvInit DEF Init, LoadInv, ListLeft, Followed

\* The first node that is left is the one after those that are passed.
LEMMA NextNode ==
    ASSUME ListLeft, loader = "loading", todo # <<>>
    PROVE  /\ Passed \in Nat /\ Len(todo) \in Nat
           /\ Head(todo) = all_nodes(document)[Passed + 1]
           /\ Len(Tail(todo)) = Len(todo) - 1
           /\ Len(Tail(todo)) \in 0..Len(all_nodes(document))
           /\ Tail(todo) = SubSeq(all_nodes(document), Passed + 2, Len(all_nodes(document)))
<1> DEFINE nodes == all_nodes(document)
           T == {nodes[k] : k \in 1..Len(nodes)}
<1>1. nodes \in Seq(T)
      BY RegistryAssumption DEF ListLeft
<1>2. Passed = Len(nodes) - Len(todo) /\ todo = SubSeq(nodes, Passed + 1, Len(nodes))
      BY DEF ListLeft, Passed
<1>3. Len(nodes) \in Nat /\ Len(todo) \in 0..Len(nodes)
      BY <1>1, LenProperties DEF ListLeft
<1> HIDE DEF T, nodes
<1>4. Passed \in 0..Len(nodes)
      BY <1>2, <1>3
<1>5. Passed + 1 <= Len(nodes)
  <2>1. CASE Passed + 1 > Len(nodes)
        BY <1>2, <1>3, <1>4, <2>1, SubSeqEmpty
  <2>2. QED  BY <1>3, <1>4, <2>1
<1>6. Passed + 1 \in 1..Len(nodes) /\ Len(nodes) \in (Passed + 1)..Len(nodes)
      BY <1>3, <1>4, <1>5
<1>7. /\ Head(todo) = nodes[Passed + 1]
      /\ Tail(todo) = SubSeq(nodes, (Passed + 1) + 1, Len(nodes))
      BY <1>1, <1>2, <1>6, HeadTailOfSubSeq
<1>8. todo \in Seq(T)
  <2>1. \A j \in (Passed + 1)..Len(nodes) : nodes[j] \in T
        BY <1>1, <1>4, ElementOfSeq
  <2>2. QED  BY <1>2, <1>3, <1>4, <2>1, SubSeqProperties
<1>9. Len(Tail(todo)) = Len(todo) - 1
      BY <1>8, HeadTailProperties
<1>10. Len(Tail(todo)) \in 0..Len(nodes) /\ (Passed + 1) + 1 = Passed + 2
      BY <1>2, <1>3, <1>4, <1>5, <1>9
<1>11. QED  BY <1>3, <1>4, <1>7, <1>9, <1>10 DEF nodes

\* Once the loop has passed the first node that is left, var is empty and
\* one more node is passed.
LEMMA PassOne ==
    ASSUME ListLeft, loader = "loading", todo # <<>>,
           todo' = Tail(todo), var' = <<>>, UNCHANGED <<loader, document, before>>,
           \A name \in DOMAIN before :
              /\ name \in DOMAIN m_datas'
              /\ FollowsUpTo(all_nodes(document), Passed + 1, name, before[name], m_datas'[name])
    PROVE  ListLeft' /\ Followed'
<1>1. /\ Passed \in Nat /\ Len(todo) \in Nat /\ Len(todo') = Len(todo) - 1
      /\ Len(todo') \in 0..Len(all_nodes(document))
      /\ todo' = SubSeq(all_nodes(document), Passed + 2, Len(all_nodes(document)))
      BY NextNode
<1>2. Passed' = Passed + 1 /\ Passed' + 1 = Passed + 2
  <2>1. Len(all_nodes(document)) \in Nat
        BY RegistryAssumption, LenProperties DEF ListLeft
  <2>2. QED  BY <1>1, <2>1 DEF Passed
<1>3. ListLeft'
      BY <1>1, <1>2 DEF ListLeft
<1>4. QED  BY <1>2, <1>3 DEF Followed

LEMMA LoadInvNext == LoadInv /\ [Next]_vars => LoadInv'
<1> SUFFICES ASSUME LoadInv, [Next]_vars PROVE ListLeft' /\ Followed'
    BY RegInvNext DEF LoadInv
<1> USE DEF LoadInv
<1>1. CASE LoadBegin
  <2>1. PICK doc \in Documents : document' = doc /\ todo' = all_nodes(doc)
        BY <1>1 DEF LoadBegin
  <2> DEFINE nodes == all_nodes(doc)
  <2>2. /\ nodes \in Seq({nodes[k] : k \in 1..Len(nodes)}) /\ Len(nodes) \in Nat
        /\ SubSeq(nodes, 1, Len(nodes)) = nodes
        BY RegistryAssumption, SubSeqFull, LenProperties
  <2>3. /\ loader \in {"idle", "done"} /\ loader' = "loading" /\ before' = m_datas
        /\ m_datas' = m_datas /\ var' = var
        BY <1>1 DEF LoadBegin
  <2>4. Passed' = 0
        BY <2>1, <2>2, <2>3 DEF Passed
  <2>5. ListLeft'
        BY <2>1, <2>2, <2>3, <2>4 DEF ListLeft
  <2>6. \A name \in DOMAIN m_datas : FollowsUpTo(nodes, 0, name, m_datas[name], m_datas[name])
        BY DEF FollowsUpTo
  <2>7. QED  BY <2>1, <2>3, <2>4, <2>5, <2>6 DEF Followed
<1>2. CASE LoadLookup
  <2>1. /\ loader = "loading" /\ todo # <<>> /\ var = <<>> /\ m_datas' = m_datas
        /\ UNCHANGED <<loader, document, before>>
        BY <1>2 DEF LoadLookup
  <2> DEFINE found == LowerName(Head(todo).name)
  <2>2. CASE found # <<>> /\ found \in DOMAIN m_datas
    <3>1. var' = found /\ todo' = todo
          BY <1>2, <2>2 DEF LoadLookup
    <3>2. Passed' = Passed
          BY <2>1, <3>1 DEF Passed
    <3>3. QED  BY <2>1, <2>2, <3>1, <3>2 DEF ListLeft, Followed
  <2>3. CASE ~(found # <<>> /\ found \in DOMAIN m_datas)
    <3>1. var' = <<>> /\ todo' = Tail(todo)
          BY <1>2, <2>1, <2>3 DEF LoadLookup
    <3>2. ASSUME NEW name \in DOMAIN before
          PROVE  /\ name \in DOMAIN m_datas
                 /\ FollowsUpTo(all_nodes(document), Passed + 1, name, before[name], m_datas[name])
      <4>1. /\ name \in DOMAIN m_datas /\ Passed \in Nat
            /\ FollowsUpTo(all_nodes(document), Passed, name, before[name], m_datas[name])
            BY <2>1, NextNode DEF Followed
      <4>2. LowerName(all_nodes(document)[Passed + 1].name) = found
            BY <2>1, NextNode
      <4>3. ~Gives(all_nodes(document), Passed + 1, name, before[name].type)
            BY <2>3, <4>1, <4>2 DEF Gives
      <4>4. QED  BY <4>1, <4>3, PassedOver
    <3>3. QED  BY <2>1, <3>1, <3>2, PassOne
  <2>4. QED  BY <2>2, <2>3
<1>3. CASE LoadSet
  <2>1. /\ loader = "loading" /\ todo # <<>> /\ var = LowerName(Head(todo).name) /\ var # <<>>
        /\ var \in DOMAIN m_datas
        BY <1>3 DEF LoadSet, ListLeft, RegInv, VarFound
  <2> DEFINE text == TextOf(Head(todo).node)
             new == Assign(m_datas[var], text)
  <2>2. /\ todo' = Tail(todo) /\ var' = <<>> /\ UNCHANGED <<loader, document, before>>
        /\ m_datas' = [m_datas EXCEPT ![var] = new]
        BY <1>3 DEF LoadSet
  <2>3. m_datas[var] = [type |-> m_datas[var].type, val |-> m_datas[var].val]
        BY <2>1 DEF RegInv, DatasType
  <2>4. /\ new.type = m_datas[var].type
        /\ new.val = IF Lexical_cast(m_datas[var].type, text).ok
                     THEN Lexical_cast(m_datas[var].type, text).val ELSE m_datas[var].val
        BY <2>3, AssignKeeps
  <2> HIDE DEF new
  <2>5. /\ DOMAIN m_datas' = DOMAIN m_datas /\ m_datas'[var] = new
        /\ \A k \in DOMAIN m_datas : k # var => m_datas'[k] = m_datas[k]
        BY <2>1, <2>2 DEF RegInv, DatasType
  <2>6. ASSUME NEW name \in DOMAIN before
        PROVE  /\ name \in DOMAIN m_datas'
               /\ FollowsUpTo(all_nodes(document), Passed + 1, name, before[name], m_datas'[name])
    <3>1. /\ name \in DOMAIN m_datas /\ Passed \in Nat
          /\ FollowsUpTo(all_nodes(document), Passed, name, before[name], m_datas[name])
          BY <2>1, NextNode DEF Followed
    <3>2. Head(todo) = all_nodes(document)[Passed + 1]
          BY <2>1, NextNode
    <3>3. m_datas[name].type = before[name].type
          BY <3>1 DEF FollowsUpTo
    <3>4. CASE name # var
      <4>1. ~Gives(all_nodes(document), Passed + 1, name, before[name].type)
            BY <2>1, <3>2, <3>4 DEF Gives
      <4>2. FollowsUpTo(all_nodes(document), Passed + 1, name, before[name], m_datas[name])
            BY <3>1, <4>1, PassedOver
      <4>3. QED  BY <2>5, <3>1, <3>4, <4>2
    <3>5. CASE name = var /\ Lexical_cast(m_datas[var].type, text).ok
      <4>1. Gives(all_nodes(document), Passed + 1, name, before[name].type)
            BY <2>1, <3>2, <3>3, <3>5 DEF Gives
      <4>2. new.type = before[name].type
            BY <2>4, <3>3, <3>5
      <4>3. new.val = Lexical_cast(before[name].type, TextOf(all_nodes(document)[Passed + 1].node)).val
            BY <2>4, <3>2, <3>3, <3>5
      <4>4. FollowsUpTo(all_nodes(document), Passed + 1, name, before[name], new)
            BY <3>1, <4>1, <4>2, <4>3, Given
      <4>5. QED  BY <2>5, <3>1, <3>5, <4>4
    <3>6. CASE name = var /\ ~Lexical_cast(m_datas[var].type, text).ok
      <4>1. ~Gives(all_nodes(document), Passed + 1, name, before[name].type)
            BY <3>2, <3>3, <3>6 DEF Gives
      <4>2. FollowsUpTo(all_nodes(document), Passed + 1, name, before[name], m_datas[name])
            BY <3>1, <4>1, PassedOver
      <4>3. new = m_datas[name]
            BY <3>6 DEF new, Assign
      <4>4. QED  BY <2>5, <3>1, <3>6, <4>2, <4>3
    <3>7. QED  BY <3>4, <3>5, <3>6
  <2>7. QED  BY <2>1, <2>2, <2>6, PassOne
<1>4. CASE LoadEnd
  <2>1. /\ loader = "loading" /\ todo = <<>> /\ var = <<>> /\ loader' = "done"
        /\ UNCHANGED <<m_datas, document, before, var>>
        BY <1>4 DEF LoadEnd, ListLeft
  <2>2. Passed' = Passed
    <3>1. Len(all_nodes(document)) \in Nat
          BY <2>1, RegistryAssumption, LenProperties DEF ListLeft
    <3>2. QED  BY <2>1, <3>1 DEF Passed
  <2>3. QED  BY <2>1, <2>2 DEF ListLeft, Followed
<1>5. ASSUME NEW t \in Threads,
             \/ \E name \in Names, type \in Types :
                   LookupKnown(t, name, type) \/ LookupNew(t, name, type)
             \/ LookupInsert(t) \/ VisitBegin(t) \/ VisitEnd(t)
      PROVE  ListLeft' /\ Followed'
  <2>1. UNCHANGED loadVars
        BY <1>5 DEF LookupKnown, LookupNew, LookupInsert, VisitBegin, VisitEnd
  <2>2. \A name \in DOMAIN m_datas : name \in DOMAIN m_datas' /\ m_datas'[name] = m_datas[name]
        BY <1>5 DEF LookupKnown, LookupNew, LookupInsert, VisitBegin, VisitEnd
  <2>3. Passed' = Passed
        BY <2>1 DEF loadVars, Passed
  <2>4. QED  BY <2>1, <2>2, <2>3 DEF loadVars, ListLeft, Followed
<1>6. CASE Done \/ UNCHANGED vars
  <2>1. UNCHANGED <<m_datas, loadVars>>
        BY <1>6 DEF Done, vars
  <2>2. Passed' = Passed
        BY <2>1 DEF loadVars, Passed
  <2>3. QED  BY <2>1, <2>2 DEF loadVars, ListLeft, Followed
<1>7. QED  BY <1>1, <1>2, <1>3, <1>4, <1>5, <1>6 DEF Next

\* After a load each variable that was registered before it has the value of
\* the last node of all_nodes that has one for it, or its old value if none
\* has: a conversion that throws, a name that is not registered, or a Lookup
\* in between changes nothing of the rest.
THEOREM LoadFollowsList == Spec => []LoadInOrder
<1>1. LoadInv => LoadInOrder
      BY DEF LoadInv, Followed, Passed, LoadInOrder
<1>2. QED  BY LoadInvInit, LoadInvNext, <1>1, PTL DEF Spec
=============================================================================
