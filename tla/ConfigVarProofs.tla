-------------------------- MODULE ConfigVarProofs --------------------------
(***************************************************************************)
(* TypeOK, NotifyStable, KeyFindsListener and ListenersAgree of ConfigVar, *)
(* for any number of variables, values, listeners, threads and calls.      *)
(*                                                                         *)
(* Everything rests on what the lock of a variable is held for: a thread   *)
(* that walks the listeners holds it shared, one inside addListener()      *)
(* holds it exclusively.  That is not enough for the two last properties.  *)
(* The lock does not protect s_func_id, and setValue() gives it up between *)
(* the notification and the store; each theorem names what it assumes of   *)
(* the threads instead.                                                    *)
(***************************************************************************)
EXTENDS ConfigVar, TLAPS

SetPCs == {"notify", "wrlock"}
AddPCs == {"inc", "insert", "return"}

SetCalls == [pc : SetPCs, var : Vars, val : Values, todo : SUBSET Keys, done : SUBSET Keys]
AddCalls == [pc : AddPCs, var : Vars, cb : Listeners, id : 0..MaxKey]

\* A key has been counted before it is used.
Counted ==
    \A t \in Threads : call[t].pc \in {"insert", "return"} =>
        call[t].id >= 1 /\ s_func_id >= 1

\* What a thread holds during its call, and who makes which calls.
Held ==
    \A t \in Threads :
        /\ call[t].pc \in SetPCs => t \in Setters
        /\ call[t].pc \in AddPCs => t \in Managers
        /\ call[t].pc = "notify" => t \in readers[call[t].var]
        /\ call[t].pc \in AddPCs => writer[call[t].var] = t

LockInv == TypeOK /\ Counted /\ Held

\* The place of a call tells what its record holds.
LEMMA CallShapes ==
    ASSUME TypeOK, NEW t \in Threads
    PROVE  /\ call[t] \in {Idle} \cup SetCalls \cup AddCalls
           /\ call[t].pc \in {"idle"} \cup SetPCs \cup AddPCs
           /\ call[t].pc \in SetPCs => call[t] \in SetCalls
           /\ call[t].pc \in AddPCs => call[t] \in AddCalls
           /\ call[t].pc = "idle" <=> call[t] = Idle
<1>1. call[t] \in {Idle} \cup SetCalls \cup AddCalls
      BY DEF TypeOK, Calls, SetCalls, AddCalls, SetPCs, AddPCs
<1>2. QED  BY <1>1 DEF Idle, SetCalls, AddCalls, SetPCs, AddPCs

LEMMA LockInvInit == Init => LockInv
  BY ConfigVarAssumption DEF Init, LockInv, TypeOK, Counted, Held, Calls, Idle, Untold,
     SetPCs, AddPCs

\* The steps of the two kinds of call, and those that are a whole call.
LEMMA LockInvSet ==
    ASSUME LockInv, NEW t \in Setters, BeginSet(t) \/ SetStep(t)
    PROVE  LockInv'
<1> t \in Threads
    BY DEF Threads
<1> USE ConfigVarAssumption DEF LockInv
<1>1. ASSUME NEW v \in Vars, NEW val \in Values, SetSame(t, v, val) PROVE LockInv'
      BY <1>1 DEF SetSame, Begin, TypeOK, Counted, Held
<1>2. ASSUME NEW v \in Vars, NEW val \in Values, SetDiffers(t, v, val) PROVE LockInv'
  <2> DEFINE r == [pc |-> "notify", var |-> v, val |-> val, todo |-> Registered(v), done |-> {}]
  <2>1. r \in Calls /\ r.pc = "notify" /\ r.var = v
        BY DEF Calls, Registered
  <2>2. call' = [call EXCEPT ![t] = r]
        BY <1>2 DEF SetDiffers
  <2> HIDE DEF r
  <2>3. TypeOK'
    <3>1. call' \in [Threads -> Calls]
          BY <2>1, <2>2 DEF TypeOK
    <3>2. calls' \in [Threads -> 0..MaxCalls]
          BY <1>2 DEF SetDiffers, Begin, TypeOK
    <3>3. /\ readers' \in [Vars -> SUBSET Threads] /\ writer' = writer
          /\ \A w \in Vars : writer[w] # NoThread => readers'[w] = {}
          BY <1>2 DEF SetDiffers, RdLock, TypeOK
    <3>4. QED  BY <1>2, <3>1, <3>2, <3>3 DEF SetDiffers, TypeOK
  <2>4. Counted'
        BY <1>2, <2>1, <2>2 DEF SetDiffers, TypeOK, Counted
  <2>5. Held'
        BY <1>2, <2>1, <2>2 DEF SetDiffers, RdLock, TypeOK, Held, SetPCs, AddPCs
  <2>6. QED  BY <2>3, <2>4, <2>5
<1>3. CASE Notify(t)
  <2>1. PICK k \in call[t].todo :
          /\ told' = [told EXCEPT ![m_cbs[call[t].var][k]] =
                        [old |-> m_val[call[t].var], new |-> call[t].val]]
          /\ call' = [call EXCEPT ![t].todo = @ \ {k}, ![t].done = @ \cup {k}]
        BY <1>3 DEF Notify
  <2>2. call[t] \in SetCalls /\ call[t].pc = "notify"
        BY <1>3, CallShapes DEF Notify, SetPCs
  <2> DEFINE r == [call[t] EXCEPT !.todo = @ \ {k}, !.done = @ \cup {k}]
  <2>3. r \in Calls /\ r.pc = "notify" /\ r.var = call[t].var
        BY <2>2 DEF SetCalls, Calls, SetPCs
  <2>4. call' = [call EXCEPT ![t] = r]
        BY <2>1, <2>2 DEF TypeOK, SetCalls
  <2> HIDE DEF r
  <2>5. told' \in [Listeners -> [old : Values, new : Values]]
        BY <2>1, <2>2 DEF TypeOK, SetCalls
  <2>6. QED  BY <1>3, <2>2, <2>3, <2>4, <2>5 DEF Notify, TypeOK, Counted, Held,
             SetPCs, AddPCs
<1>4. CASE NotifyThrows(t)
  <2>1. call[t] \in SetCalls /\ call[t].pc = "notify"
        BY <1>4, CallShapes DEF NotifyThrows, SetPCs
  <2>2. told' \in [Listeners -> [old : Values, new : Values]]
        BY <1>4 DEF NotifyThrows, TypeOK, Untold
  <2>3. Idle \in Calls /\ Idle.pc = "idle"
        BY DEF Idle, Calls
  <2>4. TypeOK'
        BY <1>4, <2>1, <2>2, <2>3 DEF NotifyThrows, Unlock, TypeOK, SetCalls
  <2>5. QED  BY <1>4, <2>1, <2>3, <2>4 DEF NotifyThrows, Unlock, TypeOK, Counted, Held,
             SetPCs, AddPCs
<1>5. CASE SetUnlock(t)
  <2>1. call[t] \in SetCalls /\ call[t].pc = "notify"
        BY <1>5, CallShapes DEF SetUnlock, SetPCs
  <2> DEFINE r == [call[t] EXCEPT !.pc = "wrlock"]
  <2>2. r \in Calls /\ r.pc = "wrlock"
        BY <2>1 DEF SetCalls, Calls
  <2>3. call' = [call EXCEPT ![t] = r]
        BY <1>5 DEF SetUnlock
  <2> HIDE DEF r
  <2>4. TypeOK'
        BY <1>5, <2>1, <2>2, <2>3 DEF SetUnlock, Unlock, TypeOK, SetCalls
  <2>5. QED  BY <1>5, <2>1, <2>2, <2>3, <2>4 DEF SetUnlock, Unlock, TypeOK, Counted, Held,
             SetPCs, AddPCs
<1>6. CASE SetStore(t)
  <2>1. call[t] \in SetCalls /\ call[t].pc = "wrlock"
        BY <1>6, CallShapes DEF SetStore, SetPCs
  <2>2. Idle \in Calls /\ Idle.pc = "idle"
        BY DEF Idle, Calls
  <2>3. QED  BY <1>6, <2>1, <2>2 DEF SetStore, TypeOK, Counted, Held, SetCalls,
             SetPCs, AddPCs
<1>7. QED  BY <1>1, <1>2, <1>3, <1>4, <1>5, <1>6 DEF BeginSet, SetStep

LEMMA LockInvManage ==
    ASSUME LockInv, NEW t \in Managers, BeginManage(t) \/ AddStep(t)
    PROVE  LockInv'
<1> t \in Threads
    BY DEF Threads
<1> USE ConfigVarAssumption DEF LockInv
<1>1. ASSUME NEW v \in Vars, NEW l \in Listeners, AddLock(t, v, l) PROVE LockInv'
  <2> DEFINE r == [pc |-> "inc", var |-> v, cb |-> l, id |-> s_func_id]
  <2>1. r \in Calls /\ r.pc = "inc" /\ r.var = v
        BY DEF Calls, TypeOK
  <2>2. call' = [call EXCEPT ![t] = r]
        BY <1>1 DEF AddLock
  <2> HIDE DEF r
  <2>3. TypeOK'
        BY <1>1, <2>1, <2>2 DEF AddLock, Begin, WrLock, TypeOK
  <2>4. Counted'
        BY <1>1, <2>1, <2>2 DEF AddLock, TypeOK, Counted
  <2>5. Held'
        BY <1>1, <2>1, <2>2 DEF AddLock, WrLock, TypeOK, Held, SetPCs, AddPCs
  <2>6. QED  BY <2>3, <2>4, <2>5
<1>2. CASE AddInc(t)
  <2>1. call[t] \in AddCalls /\ call[t].pc = "inc"
        BY <1>2, CallShapes DEF AddInc, AddPCs
  <2> DEFINE r == [call[t] EXCEPT !.pc = "insert", !.id = @ + 1]
  <2>2. /\ r \in [pc : {"insert"}, var : Vars, cb : Listeners, id : 0..MaxKey]
        /\ r.var = call[t].var /\ r.id = call[t].id + 1
    <3>1. call[t].id + 1 \in 0..MaxKey
          BY <1>2, <2>1 DEF AddInc, AddCalls
    <3>2. QED  BY <2>1, <3>1 DEF AddCalls
  <2>3. call' = [call EXCEPT ![t] = r]
        BY <1>2, <2>1 DEF AddInc, TypeOK, AddCalls
  <2> HIDE DEF r
  <2>6. r \in Calls /\ r.pc = "insert"
        BY <2>2 DEF Calls
  <2>4. s_func_id' \in 1..MaxKey
        BY <1>2, <2>1 DEF AddInc, AddCalls
  <2>7. QED  BY <1>2, <2>1, <2>2, <2>3, <2>4, <2>6 DEF AddInc, TypeOK, Counted, Held, AddCalls,
             SetPCs, AddPCs
<1>3. CASE AddInsert(t)
  <2>1. call[t] \in AddCalls /\ call[t].pc = "insert"
        BY <1>3, CallShapes DEF AddInsert, AddPCs
  <2> DEFINE r == [call[t] EXCEPT !.pc = "return"]
  <2>2. r \in Calls /\ r.pc = "return" /\ r.var = call[t].var /\ r.id = call[t].id
        BY <2>1 DEF AddCalls, Calls
  <2>3. call' = [call EXCEPT ![t] = r]
        BY <1>3 DEF AddInsert
  <2> HIDE DEF r
  <2>4. KeyRead(t) \subseteq Keys
        BY <2>1 DEF TypeOK, Counted, KeyRead, AddCalls, Keys
  <2>5. m_cbs' \in [Vars -> [Keys -> Listeners \cup {NoListener}]]
        BY <1>3, <2>1, <2>4 DEF AddInsert, TypeOK, AddCalls
  <2>6. told' \in [Listeners -> [old : Values, new : Values]]
        BY <1>3, <2>1 DEF AddInsert, TypeOK, Untold
  <2>7. TypeOK'
    <3>1. call' \in [Threads -> Calls]
          BY <2>2, <2>3 DEF TypeOK
    <3>2. QED  BY <1>3, <2>5, <2>6, <3>1 DEF AddInsert, TypeOK
  <2>8. Counted'
        BY <1>3, <2>1, <2>2, <2>3 DEF AddInsert, TypeOK, Counted
  <2>9. Held'
        BY <1>3, <2>1, <2>2, <2>3 DEF AddInsert, TypeOK, Held, SetPCs, AddPCs
  <2>10. QED  BY <2>7, <2>8, <2>9
<1>4. CASE AddReturn(t)
  <2>1. call[t] \in AddCalls /\ call[t].pc = "return"
        BY <1>4, CallShapes DEF AddReturn, AddPCs
  <2>2. Idle \in Calls /\ Idle.pc = "idle"
        BY DEF Idle, Calls
  <2>3. KeyRead(t) \subseteq Keys
        BY <2>1 DEF TypeOK, Counted, KeyRead, AddCalls, Keys
  <2>4. issued' \subseteq Vars \X Listeners \X Keys
        BY <1>4, <2>1, <2>3 DEF AddReturn, TypeOK, AddCalls
  <2>5. TypeOK'
        BY <1>4, <2>1, <2>2, <2>4 DEF AddReturn, Unlock, TypeOK, AddCalls
  <2>6. QED  BY <1>4, <2>1, <2>2, <2>5 DEF AddReturn, Unlock, TypeOK, Counted, Held,
             SetPCs, AddPCs
<1>5. ASSUME NEW v \in Vars, NEW k \in Keys, DelListener(t, v, k) PROVE LockInv'
  <2>1. TypeOK'
        BY <1>5 DEF DelListener, Begin, TypeOK
  <2>2. QED  BY <1>5, <2>1 DEF DelListener, Counted, Held
<1>6. ASSUME NEW v \in Vars, ClearListener(t, v) PROVE LockInv'
  <2>1. m_cbs' \in [Vars -> [Keys -> Listeners \cup {NoListener}]]
        BY <1>6 DEF ClearListener, TypeOK
  <2>2. calls' \in [Threads -> 0..MaxCalls]
        BY <1>6 DEF ClearListener, Begin, TypeOK
  <2>3. issued' \subseteq Vars \X Listeners \X Keys
        BY <1>6 DEF ClearListener, TypeOK
  <2>4. TypeOK'
        BY <1>6, <2>1, <2>2, <2>3 DEF ClearListener, TypeOK
  <2>5. QED  BY <1>6, <2>4 DEF ClearListener, Counted, Held
<1>7. QED  BY <1>1, <1>2, <1>3, <1>4, <1>5, <1>6 DEF BeginManage, AddStep

LEMMA LockInvNext == LockInv /\ [Next]_vars => LockInv'
<1> SUFFICES ASSUME LockInv, [Next]_vars PROVE LockInv'
    OBVIOUS
<1>1. CASE UNCHANGED vars
      BY <1>1 DEF vars, LockInv, TypeOK, Counted, Held
<1>2. QED  BY <1>1, LockInvSet, LockInvManage DEF Next, Quiet

\* What the lock is for: no step changes the listeners or the value of a
\* variable while some thread walks its listeners.
LEMMA WalkUndisturbed ==
    ASSUME LockInv, [Next]_vars, NEW t \in Setters, call[t].pc = "notify"
    PROVE  /\ m_cbs'[call[t].var] = m_cbs[call[t].var]
           /\ m_val'[call[t].var] = m_val[call[t].var]
<1> USE ConfigVarAssumption DEF LockInv
<1> DEFINE v == call[t].var
<1>1. t \in Threads /\ v \in Vars /\ t \in readers[v] /\ writer[v] = NoThread
      BY CallShapes DEF Threads, Held, TypeOK, SetCalls, SetPCs
<1> HIDE DEF v
<1>2. ASSUME NEW u \in Managers, NEW w \in Vars, NEW k \in Keys, DelListener(u, w, k)
      PROVE  m_cbs'[v] = m_cbs[v] /\ m_val'[v] = m_val[v]
      BY <1>1, <1>2 DEF DelListener, Exclusive, TypeOK
<1>3. ASSUME NEW u \in Managers, NEW w \in Vars, ClearListener(u, w)
      PROVE  m_cbs'[v] = m_cbs[v] /\ m_val'[v] = m_val[v]
      BY <1>1, <1>3 DEF ClearListener, Exclusive, TypeOK
<1>4. ASSUME NEW u \in Managers, AddInsert(u)
      PROVE  m_cbs'[v] = m_cbs[v] /\ m_val'[v] = m_val[v]
  <2>1. u \in Threads /\ writer[call[u].var] = u
        BY <1>4 DEF AddInsert, Held, Threads, AddPCs
  <2>2. call[u].var # v
        BY <1>1, <2>1
  <2>3. QED  BY <1>1, <1>4, <2>2 DEF AddInsert, TypeOK
<1>5. ASSUME NEW u \in Setters, SetStore(u)
      PROVE  m_cbs'[v] = m_cbs[v] /\ m_val'[v] = m_val[v]
      BY <1>1, <1>5 DEF SetStore, Exclusive, TypeOK
<1>6. ASSUME UNCHANGED <<m_val, m_cbs>>
      PROVE  m_cbs'[v] = m_cbs[v] /\ m_val'[v] = m_val[v]
      BY <1>6
<1>7. ASSUME NEW u \in Setters, BeginSet(u) \/ SetStep(u)
      PROVE  m_cbs'[v] = m_cbs[v] /\ m_val'[v] = m_val[v]
      BY <1>5, <1>6, <1>7 DEF BeginSet, SetStep, SetSame, SetDiffers, Notify, NotifyThrows,
         SetUnlock
<1>8. ASSUME NEW u \in Managers, BeginManage(u) \/ AddStep(u)
      PROVE  m_cbs'[v] = m_cbs[v] /\ m_val'[v] = m_val[v]
      BY <1>2, <1>3, <1>4, <1>6, <1>8 DEF BeginManage, AddStep, AddLock, AddInc, AddReturn
<1>9. QED  BY <1>6, <1>7, <1>8 DEF Next, Quiet, vars, v

\* The variables keep the shape of the members they stand for, and no lock
\* is ever held shared and exclusively at once.
THEOREM ConfigTypes == Spec => []TypeOK
<1>1. LockInv => TypeOK
      BY DEF LockInv
<1>2. QED  BY LockInvInit, LockInvNext, <1>1, PTL DEF Spec

\* While setValue() walks the listeners, neither the map it walks nor the
\* old value it passes them changes, whatever the other threads do.
THEOREM NotifyUndisturbed == Spec => NotifyStable
<1> DEFINE Stable == \A t \in Setters : call[t].pc = "notify" =>
                        /\ m_cbs'[call[t].var] = m_cbs[call[t].var]
                        /\ m_val'[call[t].var] = m_val[call[t].var]
<1>1. LockInv /\ [Next]_vars => Stable
      BY WalkUndisturbed
<1>2. LockInv /\ [Next]_vars => [Stable]_vars
      BY <1>1
<1>3. Spec => [][Stable]_vars
      BY LockInvInit, LockInvNext, <1>2, PTL DEF Spec
<1>4. QED  BY <1>3 DEF NotifyStable

-----------------------------------------------------------------------------
(***************************************************************************)
(* The keys of the listeners.  They are unique when no two threads count   *)
(* one at once: the type has one variable, whose lock then protects the    *)
(* counter too, or one thread adds listeners.                              *)
(***************************************************************************)
OneCounts ==
    \/ \A v, w \in Vars : v = w
    \/ \A s, u \in Managers : s = u

Adding(t) == call[t].pc \in AddPCs

\* No key in use is above the counter, and addListener() works on the last
\* one: free before the insertion, its listener's after it.
KeysCounted ==
    /\ \A v \in Vars : \A k \in Registered(v) : k <= s_func_id
    /\ \A i \in issued : i[3] <= s_func_id

AddsLast ==
    \A t \in Threads :
        /\ Adding(t) => call[t].id = s_func_id
        /\ call[t].pc = "insert" => m_cbs[call[t].var][call[t].id] = NoListener
        /\ call[t].pc = "return" => m_cbs[call[t].var][call[t].id] = call[t].cb

KeyInv == LockInv /\ KeysCounted /\ AddsLast /\ KeyFindsListener

LEMMA AddsAlone ==
    ASSUME OneCounts, LockInv, NEW t \in Threads, NEW u \in Threads, Adding(t), Adding(u)
    PROVE  t = u
<1>1. /\ t \in Managers /\ u \in Managers
      /\ writer[call[t].var] = t /\ writer[call[u].var] = u
      /\ call[t].var \in Vars /\ call[u].var \in Vars
      BY CallShapes DEF Adding, LockInv, Held, AddCalls
<1>2. QED  BY <1>1 DEF OneCounts

LEMMA KeyInvInit == Init => KeyInv
  BY LockInvInit, ConfigVarAssumption DEF Init, KeyInv, KeysCounted, AddsLast,
     KeyFindsListener, Registered, Adding, AddPCs, Idle

\* addListener() counts, inserts and returns one key.
LEMMA KeyInvAdd ==
    ASSUME OneCounts, KeyInv, NEW t \in Managers, AddStep(t), LockInv'
    PROVE  KeyInv'
<1> USE ConfigVarAssumption DEF KeyInv
<1> DEFINE v == call[t].var
           id == call[t].id
<1>1. /\ t \in Threads /\ Adding(t) /\ call[t] \in AddCalls
      /\ v \in Vars /\ id \in 0..MaxKey /\ id = s_func_id
      BY CallShapes DEF Threads, AddStep, AddInc, AddInsert, AddReturn, Adding, AddPCs,
         LockInv, AddsLast, AddCalls
<1>2. \A u \in Threads : Adding(u) => u = t
      BY <1>1, AddsAlone
<1>3. /\ m_cbs \in [Vars -> [Keys -> Listeners \cup {NoListener}]]
      /\ issued \subseteq Vars \X Listeners \X Keys
      /\ s_func_id \in 0..MaxKey
      /\ call \in [Threads -> Calls]
      BY DEF LockInv, TypeOK
<1>4. CASE AddInc(t)
  <2>1. /\ s_func_id' = id + 1 /\ id + 1 \in Keys
        /\ call'[t].pc = "insert" /\ call'[t].id = id + 1 /\ call'[t].var = v
        /\ \A u \in Threads \ {t} : call'[u] = call[u]
        /\ UNCHANGED <<m_cbs, issued>>
        BY <1>1, <1>3, <1>4 DEF AddInc, AddCalls, Keys
  <2>2. m_cbs[v][id + 1] = NoListener
        BY <1>1, <2>1 DEF KeysCounted, Registered
  <2>3. KeysCounted'
        BY <1>1, <1>3, <2>1 DEF KeysCounted, Registered, Keys
  <2>4. AddsLast'
        BY <1>2, <2>1, <2>2 DEF AddsLast, Adding, AddPCs
  <2>5. QED  BY <2>1, <2>3, <2>4 DEF KeyFindsListener
<1>5. CASE AddInsert(t)
  <2>1. /\ id \in Keys /\ m_cbs[v][id] = NoListener /\ KeyRead(t) = {id}
        BY <1>1, <1>5 DEF AddInsert, LockInv, Counted, AddsLast, KeyRead, Keys
  <2>2. /\ m_cbs' = [m_cbs EXCEPT ![v][id] = call[t].cb]
        /\ call'[t].pc = "return" /\ call'[t].id = id /\ call'[t].var = v
        /\ call'[t].cb = call[t].cb
        /\ \A u \in Threads \ {t} : call'[u] = call[u]
        /\ UNCHANGED <<issued, s_func_id>>
        BY <1>1, <1>3, <1>5, <2>1 DEF AddInsert, AddCalls
  <2>3. KeysCounted'
        BY <1>1, <1>3, <2>1, <2>2 DEF KeysCounted, Registered, Keys
  <2>4. AddsLast'
        BY <1>1, <1>2, <1>3, <2>1, <2>2 DEF AddsLast, Adding, AddPCs
  <2>5. ASSUME NEW i \in issued PROVE m_cbs'[i[1]][i[3]] = i[2]
    <3>1. m_cbs[i[1]][i[3]] = i[2] /\ i[1] \in Vars /\ i[2] \in Listeners /\ i[3] \in Keys
          BY <1>3 DEF KeyFindsListener
    <3>2. i[1] # v \/ i[3] # id
          BY <2>1, <3>1
    <3>3. QED  BY <1>1, <1>3, <2>1, <2>2, <3>1, <3>2
  <2>6. QED  BY <2>2, <2>3, <2>4, <2>5 DEF KeyFindsListener
<1>6. CASE AddReturn(t)
  <2>1. m_cbs[v][id] = call[t].cb /\ KeyRead(t) = {id}
        BY <1>1, <1>6 DEF AddReturn, AddsLast, KeyRead
  <2>2. /\ issued' = issued \cup {<<v, call[t].cb, id>>}
        /\ call'[t] = Idle
        /\ \A u \in Threads \ {t} : call'[u] = call[u]
        /\ UNCHANGED <<m_cbs, s_func_id>>
        BY <1>1, <1>3, <1>6, <2>1 DEF AddReturn
  <2>3. KeysCounted'
        BY <1>1, <1>3, <2>2 DEF KeysCounted, Registered
  <2>4. AddsLast'
        BY <1>2, <2>2 DEF AddsLast, Adding, AddPCs, Idle
  <2>5. QED  BY <2>1, <2>2, <2>3, <2>4 DEF KeyFindsListener
<1>7. QED  BY <1>4, <1>5, <1>6 DEF AddStep

\* setValue() begins or ends no addListener().
LEMMA SetAddsNothing ==
    ASSUME TypeOK, NEW t \in Setters, BeginSet(t) \/ SetStep(t)
    PROVE  ~Adding(t)' /\ \A u \in Threads \ {t} : call'[u] = call[u]
<1>1. call \in [Threads -> Calls] /\ t \in Threads
      BY DEF TypeOK, Threads
<1>2. ASSUME NEW r, call' = [call EXCEPT ![t] = r], r.pc \notin AddPCs
      PROVE  ~Adding(t)' /\ \A u \in Threads \ {t} : call'[u] = call[u]
      BY <1>1, <1>2 DEF Adding
<1>3. CASE \E v \in Vars, val \in Values : SetSame(t, v, val) \/ SetDiffers(t, v, val)
      BY <1>1, <1>2, <1>3 DEF SetSame, SetDiffers, Begin, Idle, Adding, AddPCs
<1>4. CASE Notify(t) \/ SetUnlock(t)
  <2>1. call[t] \in SetCalls
        BY <1>1, <1>4, CallShapes DEF Notify, SetUnlock, SetPCs
  <2>2. CASE Notify(t)
    <3>1. PICK k \in call[t].todo :
            call' = [call EXCEPT ![t].todo = @ \ {k}, ![t].done = @ \cup {k}]
          BY <2>2 DEF Notify
    <3> DEFINE r == [call[t] EXCEPT !.todo = @ \ {k}, !.done = @ \cup {k}]
    <3>2. call' = [call EXCEPT ![t] = r]
          BY <1>1, <2>1, <3>1 DEF SetCalls
    <3>3. r.pc \notin AddPCs
          BY <2>1 DEF SetCalls, SetPCs, AddPCs
    <3> HIDE DEF r
    <3>4. QED  BY <1>2, <3>2, <3>3
  <2>3. CASE SetUnlock(t)
        BY <1>1, <2>1, <2>3 DEF SetUnlock, SetCalls, Adding, AddPCs
  <2>4. QED  BY <1>4, <2>2, <2>3
<1>5. CASE NotifyThrows(t) \/ SetStore(t)
      BY <1>1, <1>2, <1>5 DEF NotifyThrows, SetStore, Idle, AddPCs
<1>6. QED  BY <1>2, <1>3, <1>4, <1>5 DEF BeginSet, SetStep

\* The other calls count no key; a key is deleted under the lock.
LEMMA KeyInvOther ==
    ASSUME OneCounts, KeyInv, LockInv',
           \/ \E t \in Setters : BeginSet(t) \/ SetStep(t)
           \/ \E t \in Managers : BeginManage(t)
    PROVE  KeyInv'
<1> USE ConfigVarAssumption DEF KeyInv
<1>1. /\ m_cbs \in [Vars -> [Keys -> Listeners \cup {NoListener}]]
      /\ issued \subseteq Vars \X Listeners \X Keys
      /\ s_func_id \in 0..MaxKey
      /\ call \in [Threads -> Calls]
      BY DEF LockInv, TypeOK
<1>2. ASSUME NEW t \in Setters, BeginSet(t) \/ SetStep(t) PROVE KeyInv'
  <2>1. UNCHANGED <<m_cbs, s_func_id, issued>> /\ t \in Threads
        BY <1>2 DEF BeginSet, SetStep, SetSame, SetDiffers, Notify, NotifyThrows, SetUnlock,
           SetStore, Threads
  <2>2. ~Adding(t)' /\ \A u \in Threads \ {t} : call'[u] = call[u]
        BY <1>2, SetAddsNothing DEF LockInv
  <2>3. KeysCounted'
        BY <2>1 DEF KeysCounted, Registered
  <2>4. AddsLast'
        BY <2>1, <2>2 DEF AddsLast, Adding, AddPCs
  <2>5. QED  BY <2>1, <2>3, <2>4 DEF KeyFindsListener
<1>3. ASSUME NEW t \in Managers, NEW v \in Vars, NEW l \in Listeners, AddLock(t, v, l)
      PROVE  KeyInv'
  <2>1. /\ t \in Threads /\ UNCHANGED <<m_cbs, s_func_id, issued>>
        /\ call'[t].pc = "inc" /\ call'[t].id = s_func_id
        /\ \A u \in Threads \ {t} : call'[u] = call[u]
        BY <1>1, <1>3 DEF AddLock, Threads
  <2>2. KeysCounted'
        BY <2>1 DEF KeysCounted, Registered
  <2>3. AddsLast'
        BY <2>1 DEF AddsLast, Adding, AddPCs
  <2>4. QED  BY <2>1, <2>2, <2>3 DEF KeyFindsListener
<1>4. ASSUME NEW t \in Managers, NEW v \in Vars,
             ClearListener(t, v) \/ \E k \in Keys : DelListener(t, v, k)
      PROVE  KeyInv'
  <2>1. /\ t \in Threads /\ UNCHANGED <<s_func_id, call>> /\ Exclusive(v)
        /\ issued' \subseteq issued
        BY <1>4 DEF ClearListener, DelListener, Threads
  <2>2. /\ m_cbs' \in [Vars -> [Keys -> Listeners \cup {NoListener}]]
        /\ \A w \in Vars \ {v} : m_cbs'[w] = m_cbs[w]
        /\ \A k \in Keys : m_cbs'[v][k] # NoListener => m_cbs'[v][k] = m_cbs[v][k]
        BY <1>1, <1>4 DEF ClearListener, DelListener
  <2>3. ASSUME NEW i \in issued' PROVE m_cbs'[i[1]][i[3]] = i[2]
    <3>1. /\ m_cbs[i[1]][i[3]] = i[2] /\ i[1] \in Vars /\ i[3] \in Keys
          BY <1>1, <2>1 DEF KeyFindsListener
    <3>2. CASE ClearListener(t, v)
          BY <1>1, <3>1, <3>2 DEF ClearListener
    <3>3. ASSUME NEW k \in Keys, DelListener(t, v, k) PROVE m_cbs'[i[1]][i[3]] = i[2]
          BY <1>1, <3>1, <3>3 DEF DelListener
    <3>4. QED  BY <1>4, <3>2, <3>3
  <2>4. KeysCounted'
        BY <1>1, <2>1, <2>2 DEF KeysCounted, Registered
  <2>5. ASSUME NEW u \in Threads, Adding(u)
        PROVE  call[u].var \in Vars /\ call[u].var # v
        BY <2>1, <2>5, CallShapes DEF LockInv, Held, Adding, AddCalls, Exclusive, Threads
  <2>6. AddsLast'
        BY <2>1, <2>2, <2>5 DEF AddsLast, Adding, AddPCs
  <2>7. QED  BY <2>3, <2>4, <2>6 DEF KeyFindsListener
<1>5. QED  BY <1>2, <1>3, <1>4 DEF BeginManage

LEMMA KeyInvNext == OneCounts /\ KeyInv /\ [Next]_vars => KeyInv'
<1> SUFFICES ASSUME OneCounts, KeyInv, [Next]_vars PROVE KeyInv'
    OBVIOUS
<1>1. LockInv'
      BY LockInvNext DEF KeyInv
<1>2. CASE UNCHANGED vars
      BY <1>1, <1>2 DEF vars, KeyInv, KeysCounted, AddsLast, KeyFindsListener, Registered,
         Adding
<1>3. QED  BY <1>1, <1>2, KeyInvAdd, KeyInvOther DEF Next, Quiet

\* The key addListener() returned finds that listener until the key is
\* deleted, as long as no two threads count a key at once: the counter that
\* every variable of the type shares is unprotected.
THEOREM KeysFindListeners == ASSUME OneCounts PROVE Spec => []KeyFindsListener
<1>1. KeyInv /\ [Next]_vars => KeyInv'
      BY KeyInvNext
<1>2. KeyInv => KeyFindsListener
      BY DEF KeyInv
<1>3. QED  BY KeyInvInit, <1>1, <1>2, PTL DEF Spec

-----------------------------------------------------------------------------
(***************************************************************************)
(* What the listeners know.  One thread sets the variables: the changes    *)
(* reach the listeners in the order in which they are stored.              *)
(***************************************************************************)
OneSetter == \A s, u \in Setters : s = u

\* A listener has one place: a key of a variable, or a call that adds it.
OnePlace ==
    /\ \A v, w \in Vars : \A k \in Registered(v), j \in Keys :
          m_cbs[v][k] = m_cbs[w][j] => v = w /\ k = j
    /\ \A t \in Threads : call[t].pc \in {"inc", "insert"} =>
          \A v \in Vars, k \in Keys : m_cbs[v][k] # call[t].cb
    /\ \A t, u \in Threads : Adding(t) /\ Adding(u) /\ t # u => call[t].cb # call[u].cb

During(t, v) == call[t].pc \in SetPCs /\ call[t].var = v

Knows(l, val) == told[l] # Untold => told[l].new = val

\* Between two calls of setValue() a listener knows the value; in one, the
\* new value once it was told, and the old one before.
Told ==
    \A v \in Vars : \A k \in Registered(v) :
        /\ (\A t \in Setters : ~During(t, v)) => Knows(m_cbs[v][k], m_val[v])
        /\ \A t \in Setters : During(t, v) =>
              /\ k \notin call[t].todo => Knows(m_cbs[v][k], call[t].val)
              /\ k \in call[t].todo => Knows(m_cbs[v][k], m_val[v])
              /\ k \in call[t].todo \cup call[t].done \/ call[t].pc = "wrlock"

\* The lock is not given back before every listener was told.
AllTold == \A t \in Threads : call[t].pc = "wrlock" => call[t].todo = {}

ToldInv == LockInv /\ OnePlace /\ Told /\ AllTold

LEMMA ToldInvInit == Init => ToldInv
  BY LockInvInit, ConfigVarAssumption DEF Init, ToldInv, OnePlace, Told, AllTold, Registered,
     Adding, During, SetPCs, AddPCs, Idle

\* addListener() gives a new listener one place; nothing else moves one.
LEMMA OnePlaceNext ==
    ASSUME LockInv, OnePlace, Next, LockInv'
    PROVE  OnePlace'
<1> USE ConfigVarAssumption
<1>1. /\ m_cbs \in [Vars -> [Keys -> Listeners \cup {NoListener}]]
      /\ call \in [Threads -> Calls] /\ call' \in [Threads -> Calls]
      BY DEF LockInv, TypeOK
<1>2. ASSUME NEW t \in Threads, \A u \in Threads \ {t} : call'[u] = call[u], ~Adding(t)',
             \A v \in Vars, k \in Keys : m_cbs'[v][k] \in {m_cbs[v][k], NoListener}
      PROVE  OnePlace'
      BY <1>1, <1>2, CallShapes DEF OnePlace, Registered, Adding, AddPCs, LockInv, AddCalls
<1>3. ASSUME NEW t \in Setters, BeginSet(t) \/ SetStep(t) PROVE OnePlace'
  <2>1. t \in Threads /\ m_cbs' = m_cbs
        BY <1>3 DEF BeginSet, SetStep, SetSame, SetDiffers, Notify, NotifyThrows, SetUnlock,
           SetStore, Threads
  <2>2. ~Adding(t)' /\ \A u \in Threads \ {t} : call'[u] = call[u]
        BY <1>3, SetAddsNothing DEF LockInv
  <2>3. QED  BY <1>2, <2>1, <2>2
<1>4. ASSUME NEW t \in Managers, NEW v \in Vars, NEW l \in Listeners, AddLock(t, v, l)
      PROVE  OnePlace'
  <2>1. /\ t \in Threads /\ m_cbs' = m_cbs /\ Fresh(l)
        /\ call'[t].pc = "inc" /\ call'[t].cb = l
        /\ \A u \in Threads \ {t} : call'[u] = call[u]
        BY <1>1, <1>4 DEF AddLock, Threads
  <2>2. QED  BY <2>1 DEF OnePlace, Fresh, Registered, Adding, AddPCs
<1>5. ASSUME NEW t \in Managers, AddInc(t) PROVE OnePlace'
  <2>1. t \in Threads /\ call[t] \in AddCalls /\ Adding(t) /\ call[t].pc = "inc"
        BY <1>5, CallShapes DEF AddInc, AddPCs, LockInv, Threads, Adding
  <2>2. /\ m_cbs' = m_cbs /\ call'[t].cb = call[t].cb /\ call'[t].pc = "insert"
        /\ \A u \in Threads \ {t} : call'[u] = call[u]
        BY <1>1, <1>5, <2>1 DEF AddInc, AddCalls
  <2>3. QED  BY <2>1, <2>2 DEF OnePlace, Registered, Adding, AddPCs
<1>6. ASSUME NEW t \in Managers, AddInsert(t) PROVE OnePlace'
  <2> DEFINE v == call[t].var
             l == call[t].cb
  <2>1. /\ t \in Threads /\ call[t] \in AddCalls /\ Adding(t) /\ call[t].pc = "insert"
        /\ v \in Vars /\ l \in Listeners /\ KeyRead(t) \subseteq Keys
        BY <1>6, CallShapes DEF AddInsert, AddPCs, LockInv, Threads, Adding, AddCalls,
           KeyRead, Counted, TypeOK, Keys
  <2>2. /\ call'[t].cb = l /\ call'[t].pc = "return"
        /\ \A u \in Threads \ {t} : call'[u] = call[u]
        BY <1>1, <1>6, <2>1 DEF AddInsert, AddCalls
  <2>3. PICK k \in Keys : m_cbs' \in {m_cbs, [m_cbs EXCEPT ![v][k] = l]}
        BY <1>6, <2>1 DEF AddInsert
  <2>4. \A w \in Vars, j \in Keys :
           m_cbs'[w][j] = m_cbs[w][j] \/ (w = v /\ j = k /\ m_cbs'[w][j] = l)
        BY <1>1, <2>1, <2>3
  <2>5. /\ \A w \in Vars, j \in Keys : m_cbs[w][j] # l
        /\ \A u \in Threads \ {t} : Adding(u) => call[u].cb # l
        BY <2>1 DEF OnePlace
  <2> HIDE DEF v, l
  <2>6. \A w, x \in Vars : \A i \in Registered(w)', j \in Keys :
           m_cbs'[w][i] = m_cbs'[x][j] => w = x /\ i = j
        BY <2>4, <2>5 DEF OnePlace, Registered
  <2>7. \A u \in Threads : call'[u].pc \in {"inc", "insert"} =>
           \A w \in Vars, j \in Keys : m_cbs'[w][j] # call'[u].cb
        BY <2>2, <2>4, <2>5 DEF OnePlace, Adding, AddPCs
  <2>8. \A u, x \in Threads : Adding(u)' /\ Adding(x)' /\ u # x => call'[u].cb # call'[x].cb
        BY <2>1, <2>2, <2>5 DEF OnePlace, Adding, l
  <2>9. QED  BY <2>6, <2>7, <2>8 DEF OnePlace
<1>7. ASSUME NEW t \in Managers, AddReturn(t) PROVE OnePlace'
  <2>1. /\ t \in Threads /\ m_cbs' = m_cbs /\ call'[t] = Idle
        /\ \A u \in Threads \ {t} : call'[u] = call[u]
        BY <1>1, <1>7 DEF AddReturn, Threads
  <2>2. QED  BY <1>2, <2>1 DEF Adding, AddPCs, Idle
<1>8. ASSUME NEW t \in Managers, NEW v \in Vars,
             ClearListener(t, v) \/ \E k \in Keys : DelListener(t, v, k)
      PROVE  OnePlace'
  <2>1. t \in Threads /\ call' = call /\ ~Adding(t)
        BY <1>8 DEF ClearListener, DelListener, Begin, Threads, Adding, AddPCs, Idle
  <2>2. \A w \in Vars, j \in Keys : m_cbs'[w][j] \in {m_cbs[w][j], NoListener}
        BY <1>1, <1>8 DEF ClearListener, DelListener
  <2>3. QED  BY <1>2, <2>1, <2>2 DEF Adding
<1>9. CASE Quiet
      BY <1>9 DEF Quiet, vars, OnePlace, Registered, Adding
<1>10. QED  BY <1>3, <1>4, <1>5, <1>6, <1>7, <1>8, <1>9 DEF Next, BeginManage, AddStep

\* Calls other than setValue() keep what the listeners know: a listener they
\* leave registered is told nothing, and a new one is Untold.
LEMMA ToldManage ==
    ASSUME ToldInv, NEW u \in Managers, BeginManage(u) \/ AddStep(u)
    PROVE  Told' /\ AllTold'
<1> USE ConfigVarAssumption
<1>1. /\ m_cbs \in [Vars -> [Keys -> Listeners \cup {NoListener}]]
      /\ call \in [Threads -> Calls]
      /\ told \in [Listeners -> [old : Values, new : Values]]
      /\ u \in Threads
      BY DEF ToldInv, LockInv, TypeOK, Threads
<1>2. /\ \A t \in Threads \ {u} : call'[t] = call[t]
      /\ call[u].pc \notin SetPCs /\ call'[u].pc \notin SetPCs
      /\ m_val' = m_val
  <2>1. ASSUME NEW v \in Vars, NEW l \in Listeners, AddLock(u, v, l)
        PROVE  call[u].pc \notin SetPCs /\ call'[u].pc \notin SetPCs
        BY <1>1, <2>1 DEF AddLock, Begin, Idle, SetPCs
  <2>2. ASSUME NEW v \in Vars,
               ClearListener(u, v) \/ \E k \in Keys : DelListener(u, v, k)
        PROVE  call[u].pc \notin SetPCs /\ call' = call
        BY <2>2 DEF ClearListener, DelListener, Begin, Idle, SetPCs
  <2>3. CASE AddInc(u)
    <3>1. call[u] \in AddCalls
          BY <1>1, <2>3, CallShapes DEF AddInc, AddPCs, ToldInv, LockInv
    <3>2. QED  BY <1>1, <2>3, <3>1 DEF AddInc, AddCalls, SetPCs
  <2>4. CASE AddInsert(u) \/ AddReturn(u)
    <3>1. call[u] \in AddCalls
          BY <1>1, <2>4, CallShapes DEF AddInsert, AddReturn, AddPCs, ToldInv, LockInv
    <3>2. QED  BY <1>1, <2>4, <3>1 DEF AddInsert, AddReturn, AddCalls, SetPCs, Idle
  <2>5. QED
    <3>1. \A v \in Vars, l \in Listeners : AddLock(u, v, l) =>
             m_val' = m_val /\ \A t \in Threads \ {u} : call'[t] = call[t]
          BY <1>1 DEF AddLock
    <3>2. AddStep(u) => m_val' = m_val /\ \A t \in Threads \ {u} : call'[t] = call[t]
          BY <1>1 DEF AddStep, AddInc, AddInsert, AddReturn
    <3>3. QED  BY <1>1, <2>1, <2>2, <2>3, <2>4, <3>1, <3>2 DEF BeginManage, AddStep, ClearListener, DelListener
<1>3. ASSUME NEW v \in Vars, NEW k \in Registered(v)'
      PROVE  \/ told'[m_cbs'[v][k]] = Untold
             \/ /\ k \in Registered(v) /\ m_cbs'[v][k] = m_cbs[v][k]
                /\ told'[m_cbs'[v][k]] = told[m_cbs[v][k]]
  <2>1. k \in Keys /\ m_cbs'[v][k] # NoListener
        BY <1>3 DEF Registered
  <2>2. CASE UNCHANGED <<m_cbs, told>>
        BY <2>1, <2>2 DEF Registered
  <2>3. ASSUME NEW w \in Vars,
               ClearListener(u, w) \/ \E j \in Keys : DelListener(u, w, j)
        PROVE  told' = told /\ m_cbs'[v][k] = m_cbs[v][k]
        BY <1>1, <2>1, <2>3 DEF ClearListener, DelListener
  <2>4. CASE AddInsert(u)
    <3>1. /\ call[u].var \in Vars /\ call[u].cb \in Listeners /\ KeyRead(u) \subseteq Keys
          BY <1>1, <2>4, CallShapes DEF AddInsert, AddPCs, ToldInv, LockInv, AddCalls,
             KeyRead, Counted, TypeOK, Keys
    <3>2. m_cbs'[v][k] = m_cbs[v][k] \/ m_cbs'[v][k] = call[u].cb
          BY <1>1, <2>1, <2>4, <3>1 DEF AddInsert
    <3>3. told' = [told EXCEPT ![call[u].cb] = Untold]
          BY <2>4 DEF AddInsert
    <3>4. m_cbs'[v][k] = call[u].cb => told'[m_cbs'[v][k]] = Untold
          BY <1>1, <3>1, <3>3
    <3>5. m_cbs'[v][k] # call[u].cb => told'[m_cbs'[v][k]] = told[m_cbs'[v][k]]
          BY <1>1, <2>1, <3>1, <3>2, <3>3
    <3>6. QED  BY <2>1, <3>2, <3>4, <3>5 DEF Registered
  <2>5. QED  BY <2>1, <2>2, <2>3, <2>4 DEF BeginManage, AddStep, AddLock, AddInc, AddReturn,
             Registered
<1>4. ASSUME NEW v \in Vars, NEW k \in Registered(v)', NEW t \in Setters, During(t, v)
      PROVE  k \in call[t].todo \cup call[t].done \/ call[t].pc = "wrlock"
  <2>1. CASE call[t].pc = "notify"
    <3>1. [Next]_vars
          BY DEF Next
    <3>2. m_cbs'[v] = m_cbs[v]
          BY <1>4, <2>1, <3>1, WalkUndisturbed DEF ToldInv, During
    <3>3. k \in Registered(v)
          BY <3>2 DEF Registered
    <3>4. QED  BY <1>4, <3>3 DEF ToldInv, Told
  <2>2. QED  BY <1>4, <2>1 DEF During, SetPCs
<1>5. \A v \in Vars, t \in Setters : During(t, v)' <=> During(t, v)
      BY <1>2 DEF During, Threads
<1>6. \A v \in Vars, t \in Setters : During(t, v) => call'[t] = call[t]
      BY <1>2 DEF During, Threads
<1>7. Told'
      BY <1>2, <1>3, <1>4, <1>5, <1>6 DEF ToldInv, Told, Knows
<1>8. AllTold'
      BY <1>2 DEF ToldInv, AllTold, SetPCs
<1>9. QED  BY <1>7, <1>8

\* The one thread that sets the variables, step by step.
LEMMA ToldSet ==
    ASSUME OneSetter, ToldInv, NEW t \in Setters, BeginSet(t) \/ SetStep(t)
    PROVE  Told' /\ AllTold'
<1> USE ConfigVarAssumption DEF ToldInv
<1>1. /\ m_cbs \in [Vars -> [Keys -> Listeners \cup {NoListener}]]
      /\ m_val \in [Vars -> Values]
      /\ call \in [Threads -> Calls]
      /\ told \in [Listeners -> [old : Values, new : Values]]
      /\ t \in Threads /\ \A u \in Setters : u = t
      BY DEF LockInv, TypeOK, Threads, OneSetter
<1>2. m_cbs' = m_cbs /\ \A v \in Vars : Registered(v)' = Registered(v)
      BY DEF BeginSet, SetStep, SetSame, SetDiffers, Notify, NotifyThrows, SetUnlock,
         SetStore, Registered
<1>3. \A v \in Vars : \A k \in Registered(v) : k \in Keys /\ m_cbs[v][k] \in Listeners
      BY <1>1 DEF Registered
<1>4. \A u \in Threads \ {t} : call[u].pc \notin SetPCs /\ call'[u] = call[u]
  <2>1. \A u \in Threads \ {t} : call[u].pc \notin SetPCs
        BY <1>1 DEF LockInv, Held
  <2>2. QED  BY <2>1, SetAddsNothing DEF LockInv
<1>5. ASSUME NEW v \in Vars, NEW val \in Values, SetSame(t, v, val) PROVE Told' /\ AllTold'
      BY <1>5 DEF SetSame, Told, AllTold, Registered, During, Knows
<1>6. ASSUME NEW v \in Vars, NEW val \in Values, SetDiffers(t, v, val)
      PROVE  Told' /\ AllTold'
  <2>1. /\ call[t] = Idle /\ UNCHANGED <<m_val, told>>
        /\ call'[t].pc = "notify" /\ call'[t].var = v
        /\ call'[t].todo = Registered(v)
        BY <1>1, <1>6 DEF SetDiffers, Begin
  <2>2. \A w \in Vars : ~During(t, w)
        BY <2>1 DEF During, Idle, SetPCs
  <2>3. \A w \in Vars : \A k \in Registered(w) : Knows(m_cbs[w][k], m_val[w])
        BY <1>1, <2>2 DEF Told
  <2>4. Told'
        BY <1>1, <1>2, <2>1, <2>3 DEF Told, During, Knows
  <2>5. AllTold'
        BY <1>4, <2>1 DEF AllTold, SetPCs
  <2>6. QED  BY <2>4, <2>5
<1>7. ASSUME call[t].pc = "notify"
      PROVE  /\ call[t] \in SetCalls /\ call[t].var \in Vars
             /\ \A w \in Vars : During(t, w) <=> w = call[t].var
             /\ \A k \in Registered(call[t].var) :
                   /\ k \notin call[t].todo => Knows(m_cbs[call[t].var][k], call[t].val)
                   /\ k \in call[t].todo => Knows(m_cbs[call[t].var][k], m_val[call[t].var])
                   /\ k \in call[t].todo \cup call[t].done
             /\ \A w \in Vars \ {call[t].var} : \A k \in Registered(w) :
                   Knows(m_cbs[w][k], m_val[w])
  <2>1. call[t] \in SetCalls /\ call[t].var \in Vars
        BY <1>1, <1>7, CallShapes DEF LockInv, SetPCs, SetCalls
  <2>2. \A w \in Vars : During(t, w) <=> w = call[t].var
        BY <1>7 DEF During, SetPCs
  <2>3. QED  BY <1>1, <1>7, <2>1, <2>2 DEF Told
<1>8. CASE Notify(t)
  <2> DEFINE v == call[t].var
  <2>1. call[t].pc = "notify"
        BY <1>8 DEF Notify
  <2>2. PICK k \in call[t].todo :
          /\ told' = [told EXCEPT ![m_cbs[v][k]] = [old |-> m_val[v], new |-> call[t].val]]
          /\ call' = [call EXCEPT ![t].todo = @ \ {k}, ![t].done = @ \cup {k}]
        BY <1>8 DEF Notify
  <2>3. /\ call'[t].pc = "notify" /\ call'[t].var = v /\ call'[t].val = call[t].val
        /\ call'[t].todo = call[t].todo \ {k} /\ call'[t].done = call[t].done \cup {k}
        /\ m_val' = m_val /\ k \in Keys
        BY <1>1, <1>7, <1>8, <2>1, <2>2 DEF Notify, SetCalls
  <2>4. ASSUME NEW w \in Vars, NEW j \in Registered(w), w # v \/ j # k
        PROVE  told'[m_cbs[w][j]] = told[m_cbs[w][j]]
    <3>1. m_cbs[w][j] # m_cbs[v][k]
          BY <1>7, <2>1, <2>3, <2>4 DEF OnePlace
    <3>2. QED  BY <1>1, <1>3, <2>2, <3>1
  <2>5. k \in Registered(v) => told'[m_cbs[v][k]].new = call[t].val
        BY <1>1, <1>3, <1>7, <2>1, <2>2
  <2>6. /\ \A w \in Vars \ {v} : \A j \in Registered(w) : Knows(m_cbs[w][j], m_val[w])'
        BY <1>2, <1>7, <2>1, <2>3, <2>4 DEF Knows
  <2>7. \A j \in Registered(v) :
           /\ j \notin call'[t].todo => Knows(m_cbs[v][j], call[t].val)'
           /\ j \in call'[t].todo => Knows(m_cbs[v][j], m_val[v])'
           /\ j \in call'[t].todo \cup call'[t].done
        BY <1>2, <1>7, <2>1, <2>3, <2>4, <2>5 DEF Knows
  <2>8. Told'
        BY <1>1, <1>2, <1>7, <2>1, <2>3, <2>6, <2>7 DEF Told, During, Knows, SetPCs
  <2>9. AllTold'
        BY <1>4, <2>3 DEF AllTold, SetPCs
  <2>10. QED  BY <2>8, <2>9
<1>9. CASE NotifyThrows(t)
  <2> DEFINE v == call[t].var
  <2>1. call[t].pc = "notify" /\ call'[t] = Idle /\ m_val' = m_val
        BY <1>1, <1>9 DEF NotifyThrows
  <2>2. told' = [l \in Listeners |->
                   IF \E k \in call[t].done : m_cbs[v][k] = l THEN Untold ELSE told[l]]
        BY <1>9 DEF NotifyThrows
  <2>3. \A w \in Vars : \A k \in Registered(w) : Knows(m_cbs[w][k], m_val[w])'
        BY <1>2, <1>3, <1>7, <2>1, <2>2 DEF Knows
  <2>4. \A w \in Vars : ~During(t, w)'
        BY <2>1 DEF During, Idle, SetPCs
  <2>5. Told'
        BY <1>1, <1>2, <2>3, <2>4 DEF Told, During, Knows
  <2>6. AllTold'
        BY <1>4, <2>1 DEF AllTold, SetPCs, Idle
  <2>7. QED  BY <2>5, <2>6
<1>10. CASE SetUnlock(t)
  <2> DEFINE v == call[t].var
  <2>1. /\ call[t].pc = "notify" /\ call[t].todo = {}
        /\ UNCHANGED <<m_val, told>>
        BY <1>10 DEF SetUnlock
  <2>2. /\ call'[t].pc = "wrlock" /\ call'[t].var = v /\ call'[t].val = call[t].val
        /\ call'[t].todo = {}
        BY <1>1, <1>7, <1>10, <2>1 DEF SetUnlock, SetCalls
  <2>3. Told'
        BY <1>1, <1>2, <1>7, <2>1, <2>2 DEF Told, During, Knows, SetPCs
  <2>4. AllTold'
        BY <1>4, <2>2 DEF AllTold, SetPCs
  <2>5. QED  BY <2>3, <2>4
<1>11. CASE SetStore(t)
  <2> DEFINE v == call[t].var
  <2>1. /\ call[t].pc = "wrlock" /\ call'[t] = Idle /\ told' = told
        /\ m_val' = [m_val EXCEPT ![v] = call[t].val]
        BY <1>1, <1>11 DEF SetStore
  <2>2. v \in Vars /\ call[t].todo = {} /\ \A w \in Vars : During(t, w) <=> w = v
        BY <1>1, <2>1, CallShapes DEF LockInv, SetPCs, SetCalls, AllTold, During
  <2>3. \A w \in Vars : \A k \in Registered(w) : Knows(m_cbs[w][k], m_val[w])'
        BY <1>1, <1>2, <2>1, <2>2 DEF Told, Knows
  <2>4. \A w \in Vars : ~During(t, w)'
        BY <2>1 DEF During, Idle, SetPCs
  <2>5. Told'
        BY <1>1, <1>2, <2>3, <2>4 DEF Told, During, Knows
  <2>6. AllTold'
        BY <1>4, <2>1 DEF AllTold, SetPCs, Idle
  <2>7. QED  BY <2>5, <2>6
<1>12. QED  BY <1>5, <1>6, <1>8, <1>9, <1>10, <1>11 DEF BeginSet, SetStep

LEMMA ToldInvNext == OneSetter /\ ToldInv /\ [Next]_vars => ToldInv'
<1> SUFFICES ASSUME OneSetter, ToldInv, [Next]_vars PROVE ToldInv'
    OBVIOUS
<1>1. LockInv'
      BY LockInvNext DEF ToldInv
<1>2. CASE UNCHANGED vars
      BY <1>1, <1>2 DEF vars, ToldInv, OnePlace, Told, AllTold, Registered, Adding, During,
         Knows
<1>3. CASE Next
  <2>1. OnePlace'
        BY <1>1, <1>3, OnePlaceNext DEF ToldInv
  <2>2. QED  BY <1>1, <1>2, <1>3, <2>1, ToldManage, ToldSet DEF Next, Quiet, ToldInv
<1>4. QED  BY <1>2, <1>3

\* When one thread sets the variables, whatever the others do with the
\* listeners and however listeners break changes off, the value a listener
\* was told last is the value the variable has once setValue() is done.
THEOREM ListenersUpToDate == ASSUME OneSetter PROVE Spec => []ListenersAgree
<1>1. ToldInv /\ [Next]_vars => ToldInv'
      BY ToldInvNext
<1>2. ToldInv => ListenersAgree
  <2> SUFFICES ASSUME ToldInv, NEW v \in Vars, Settled(v), NEW k \in Registered(v)
               PROVE  Knows(m_cbs[v][k], m_val[v])
      BY DEF ListenersAgree, Knows
  <2>1. \A t \in Setters : ~During(t, v)
        BY DEF Settled, During, Idle, SetPCs
  <2>2. QED  BY <2>1 DEF ToldInv, Told
<1>3. QED  BY ToldInvInit, <1>1, <1>2, PTL DEF Spec
=============================================================================
