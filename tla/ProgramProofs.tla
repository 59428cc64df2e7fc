--------------------------- MODULE ProgramProofs ---------------------------
(***************************************************************************)
(* What is proved about the locks and the thread objects of a program:     *)
(*                                                                         *)
(*   - the scope guards implement Exclusion, for any threads, locks and    *)
(*     calls, because the word of a lock agrees with the guards that say   *)
(*     they hold it;                                                       *)
(*   - calls that by themselves keep the order of the locks, undo their    *)
(*     guards and end, do so together in any number of threads, which      *)
(*     never all wait for each other;                                      *)
(*   - the public calls of this library are such calls;                    *)
(*   - a thread object outlives its use and its handle is reaped once.     *)
(***************************************************************************)
EXTENDS Program, LockedCalls, FiniteSetTheorems, SequenceTheorems, WellFoundedInduction, TLAPS

LockTypeOK ==
    /\ held \in [LockNames -> BOOLEAN]
    /\ readers \in [LockNames -> Nat]
    /\ guards \in [Threads -> Seq(Guard)]

\* Every hold of l in read mode, by any thread.
Reads(l) == {h \in Threads \X Nat : h[2] \in Holds(h[1], l, "read")}

\* The word of l counts the guards that hold it.
WordAgrees(l) ==
    /\ IsFiniteSet(Reads(l))
    /\ readers[l] = Cardinality(Reads(l))
    /\ held[l] <=> \E t \in Threads : Holds(t, l, "write") # {}
    /\ held[l] => readers[l] = 0

OneWriter(l) ==
    \A t, u \in Threads : \A i \in Holds(t, l, "write"), j \in Holds(u, l, "write") :
        t = u /\ i = j

LockInv == LockTypeOK /\ \A l \in LockNames : WordAgrees(l) /\ OneWriter(l)

\* What a step does to the guards: thread t takes l with its n-th guard, or
\* its n-th guard gives l up.
Takes(t, l, mode, n) ==
    /\ n \in Nat
    /\ n \notin Holds(t, l, mode)
    /\ CanTake(l, mode)
    /\ Take(l, mode)
    /\ \A u \in Threads, k \in LockNames, q \in Modes :
        Holds(u, k, q)' = IF u = t /\ k = l /\ q = mode
                          THEN Holds(u, k, q) \cup {n} ELSE Holds(u, k, q)

GivesUp(t, l, mode, n) ==
    /\ n \in Holds(t, l, mode)
    /\ Release(l)
    /\ \A u \in Threads, k \in LockNames, q \in Modes :
        Holds(u, k, q)' = IF u = t /\ k = l /\ q = mode
                          THEN Holds(u, k, q) \ {n} ELSE Holds(u, k, q)

HoldsSame ==
    /\ UNCHANGED <<held, readers>>
    /\ \A u \in Threads, k \in LockNames, q \in Modes : Holds(u, k, q)' = Holds(u, k, q)

LockChange ==
    \/ \E t \in Threads, l \in LockNames, mode \in Modes, n \in Nat :
        Takes(t, l, mode, n) \/ GivesUp(t, l, mode, n)
    \/ HoldsSame

LEMMA HoldsFinite ==
    ASSUME LockTypeOK, NEW t \in Threads, NEW l, NEW mode
    PROVE  IsFiniteSet(Holds(t, l, mode)) /\ Holds(t, l, mode) \subseteq Nat
<1>1. Len(guards[t]) \in Nat
  BY DEF LockTypeOK
<1>2. IsFiniteSet(1..Len(guards[t]))
  BY <1>1, FS_Interval
<1>3. Holds(t, l, mode) \subseteq 1..Len(guards[t])
  BY DEF Holds
<1> QED
  BY <1>1, <1>2, <1>3, FS_Subset

\* The guard constructor adds one hold, on top of the stack.
LEMMA ConstructTakes ==
    ASSUME LockTypeOK, NEW t \in Threads, Construct(t)
    PROVE  LockTypeOK' /\ LockChange
<1>1. PICK l \in LockNames, mode \in Modes :
        /\ CanTake(l, mode)
        /\ Take(l, mode)
        /\ guards' = [guards EXCEPT ![t] = Append(@, LockedGuard(l, mode))]
  BY DEF Construct
<1> DEFINE n == Len(guards[t]) + 1
<1>2. /\ guards[t] \in Seq(Guard)
      /\ Len(guards[t]) \in Nat
      /\ LockedGuard(l, mode) \in Guard
  <2>1. guards[t] \in Seq(Guard)
    BY DEF LockTypeOK
  <2>2. Len(guards[t]) \in Nat
    BY <2>1, LenProperties
  <2>3. LockedGuard(l, mode) \in Guard
    BY DEF Guard, LockedGuard
  <2> QED
    BY <2>1, <2>2, <2>3
<1>3. /\ guards'[t] = Append(guards[t], LockedGuard(l, mode))
      /\ \A u \in Threads : u # t => guards'[u] = guards[u]
  BY <1>1 DEF LockTypeOK
<1>4. /\ Len(guards'[t]) = n
      /\ guards'[t][n] = LockedGuard(l, mode)
      /\ \A i \in 1..Len(guards[t]) : guards'[t][i] = guards[t][i]
  BY <1>2, <1>3, AppendProperties
<1>5. LockTypeOK'
  <2>1. Append(guards[t], LockedGuard(l, mode)) \in Seq(Guard)
    BY <1>2, AppendProperties
  <2>2. guards' \in [Threads -> Seq(Guard)]
    BY <1>1, <2>1 DEF LockTypeOK
  <2>3. held' \in [LockNames -> BOOLEAN] /\ readers' \in [LockNames -> Nat]
    <3>1. CASE mode = "write"
      BY <1>1, <3>1 DEF LockTypeOK, Take
    <3>2. CASE mode # "write"
      BY <1>1, <3>2 DEF LockTypeOK, Take
    <3> QED
      BY <3>1, <3>2
  <2> QED
    BY <2>2, <2>3 DEF LockTypeOK
<1>6. \A u \in Threads, k \in LockNames, q \in Modes :
        Holds(u, k, q)' = IF u = t /\ k = l /\ q = mode
                          THEN Holds(u, k, q) \cup {n} ELSE Holds(u, k, q)
  <2> TAKE u \in Threads, k \in LockNames, q \in Modes
  <2>1. CASE u # t
    BY <2>1, <1>3 DEF Holds
  <2>2. CASE u = t
    <3>1. LockedGuard(l, mode) = LockedGuard(k, q) <=> k = l /\ q = mode
      BY DEF LockedGuard
    <3>2. 1..n = 1..Len(guards[t]) \cup {n}
      BY <1>2
    <3> QED
      BY <2>2, <3>1, <3>2, <1>4 DEF Holds
  <2> QED
    BY <2>1, <2>2
<1>7. n \in Nat /\ n \notin Holds(t, l, mode)
  BY <1>2 DEF Holds
<1> QED
  BY <1>1, <1>5, <1>6, <1>7 DEF LockChange, Takes

\* A word that is given up was held: by the guard on top.
LEMMA ReleaseTyped ==
    ASSUME LockTypeOK, NEW t \in Threads, NEW l \in LockNames, NEW mode \in Modes,
           NEW n \in Holds(t, l, mode), WordAgrees(l), Release(l)
    PROVE  /\ held' \in [LockNames -> BOOLEAN]
           /\ readers' \in [LockNames -> Nat]
<1>1. CASE held[l]
  BY <1>1 DEF LockTypeOK, Release
<1>2. CASE ~held[l]
  <2>1. mode = "read"
    BY <1>2 DEF WordAgrees, Modes
  <2>2. <<t, n>> \in Reads(l)
    BY <2>1, HoldsFinite DEF Reads
  <2>3. readers[l] # 0 /\ readers[l] \in Nat
    BY <2>2, FS_EmptySet DEF WordAgrees, LockTypeOK
  <2> QED
    BY <1>2, <2>3 DEF LockTypeOK, Release
<1> QED
  BY <1>1, <1>2

\* unlock() by hand ends the hold of the guard on top.
LEMMA UnlockGivesUp ==
    ASSUME LockInv, NEW t \in Threads, GuardUnlock(t)
    PROVE  LockTypeOK' /\ LockChange
<1> DEFINE n == Len(guards[t])
           g == guards[t][n]
           unlocked == [g EXCEPT !.m_locked = FALSE]
<1>1. guards[t] \in Seq(Guard) /\ guards[t] # <<>>
  BY DEF LockInv, LockTypeOK, GuardUnlock
<1>2. n \in Nat /\ n \in 1..n
  BY <1>1, LenProperties, EmptySeq
<1>3. g \in Guard /\ g.m_locked
  <2>1. g \in Guard
    BY <1>1, <1>2, ElementOfSeq
  <2> QED
    BY <2>1 DEF GuardUnlock, Top
<1>4. /\ g.lock \in LockNames
      /\ g.mode \in Modes
      /\ g = LockedGuard(g.lock, g.mode)
      /\ unlocked \in Guard
      /\ unlocked.m_locked = FALSE
  BY <1>3 DEF Guard, LockedGuard
<1> DEFINE l == g.lock
           mode == g.mode
<1>5. guards' = [guards EXCEPT ![t] = [guards[t] EXCEPT ![n] = unlocked]]
  <2>1. TopUnlocked(guards[t]) = [guards[t] EXCEPT ![n] = unlocked]
    BY DEF TopUnlocked
  <2> QED
    BY <2>1 DEF GuardUnlock
<1>6. Release(l)
  BY DEF GuardUnlock, Top
<1> HIDE DEF unlocked
<1>7. /\ guards'[t] = [guards[t] EXCEPT ![n] = unlocked]
      /\ \A u \in Threads : u # t => guards'[u] = guards[u]
  BY <1>5 DEF LockInv, LockTypeOK
<1>8. /\ guards'[t] \in Seq(Guard)
      /\ Len(guards'[t]) = n
      /\ guards'[t][n] = unlocked
      /\ \A i \in 1..n : i # n => guards'[t][i] = guards[t][i]
  BY <1>1, <1>2, <1>4, <1>7, ExceptSeq
<1>9. \A u \in Threads, k \in LockNames, q \in Modes :
        Holds(u, k, q)' = IF u = t /\ k = l /\ q = mode
                          THEN Holds(u, k, q) \ {n} ELSE Holds(u, k, q)
  <2> TAKE u \in Threads, k \in LockNames, q \in Modes
  <2>1. CASE u # t
    BY <2>1, <1>7 DEF Holds
  <2>2. CASE u = t
    <3>1. unlocked # LockedGuard(k, q)
      BY <1>4 DEF LockedGuard
    <3>2. g = LockedGuard(k, q) <=> k = l /\ q = mode
      <4>1. LockedGuard(k, q).lock = k /\ LockedGuard(k, q).mode = q
        BY DEF LockedGuard
      <4> HIDE DEF g
      <4> QED
        BY <1>4, <4>1
    <3> HIDE DEF g
    <3> QED
      BY <2>2, <3>1, <3>2, <1>2, <1>8 DEF Holds, g
  <2> QED
    BY <2>1, <2>2
<1>10. n \in Holds(t, l, mode)
  BY <1>2, <1>4 DEF Holds
<1>11. LockTypeOK'
  <2>1. guards' \in [Threads -> Seq(Guard)]
    BY <1>5, <1>7, <1>8 DEF LockInv, LockTypeOK
  <2>2. held' \in [LockNames -> BOOLEAN] /\ readers' \in [LockNames -> Nat]
    BY <1>4, <1>6, <1>10, ReleaseTyped DEF LockInv
  <2> QED
    BY <2>1, <2>2 DEF LockTypeOK
<1> QED
  BY <1>2, <1>4, <1>6, <1>9, <1>10, <1>11 DEF LockChange, GivesUp

\* The destructor of the guard on top ends its hold, if it has one.
LEMMA DestructGivesUp ==
    ASSUME LockInv, NEW t \in Threads, Destruct(t)
    PROVE  LockTypeOK' /\ LockChange
<1> DEFINE n == Len(guards[t])
           g == guards[t][n]
<1>1. guards[t] \in Seq(Guard) /\ guards[t] # <<>>
  BY DEF LockInv, LockTypeOK, Destruct
<1>2. n \in Nat /\ n \in 1..n /\ n - 1 \in Nat
  BY <1>1, LenProperties, EmptySeq
<1>3. g \in Guard
  BY <1>1, <1>2, ElementOfSeq
<1>4. /\ g.lock \in LockNames
      /\ g.mode \in Modes
      /\ g.m_locked => g = LockedGuard(g.lock, g.mode)
  BY <1>3 DEF Guard, LockedGuard
<1> DEFINE l == g.lock
           mode == g.mode
<1>5. /\ guards'[t] = SubSeq(guards[t], 1, n - 1)
      /\ guards' = [guards EXCEPT ![t] = guards'[t]]
      /\ \A u \in Threads : u # t => guards'[u] = guards[u]
  BY DEF Destruct, Pop, LockInv, LockTypeOK
<1>6. /\ guards'[t] \in Seq(Guard)
      /\ Len(guards'[t]) = n - 1
      /\ \A i \in 1..(n - 1) : guards'[t][i] = guards[t][i]
  BY <1>1, <1>2, <1>5, SubSeqProperties
<1>7. guards' \in [Threads -> Seq(Guard)]
  BY <1>5, <1>6 DEF LockInv, LockTypeOK
<1>8. \A u \in Threads, k \in LockNames, q \in Modes :
        Holds(u, k, q)' = IF u = t THEN Holds(u, k, q) \ {n} ELSE Holds(u, k, q)
  <2> TAKE u \in Threads, k \in LockNames, q \in Modes
  <2>1. CASE u # t
    BY <2>1, <1>5 DEF Holds
  <2>2. CASE u = t
    <3>1. 1..(n - 1) = (1..n) \ {n}
      BY <1>2
    <3> QED
      BY <2>2, <3>1, <1>6 DEF Holds
  <2> QED
    BY <2>1, <2>2
<1>9. \A k \in LockNames, q \in Modes :
        n \in Holds(t, k, q) => g.m_locked /\ k = l /\ q = mode
  BY DEF Holds, LockedGuard
<1>10. CASE g.m_locked
  <2>1. Release(l)
    BY <1>10 DEF Destruct, Top
  <2>2. n \in Holds(t, l, mode)
    BY <1>2, <1>4, <1>10 DEF Holds
  <2>3. held' \in [LockNames -> BOOLEAN] /\ readers' \in [LockNames -> Nat]
    BY <1>4, <2>1, <2>2, ReleaseTyped DEF LockInv
  <2>4. \A u \in Threads, k \in LockNames, q \in Modes :
          Holds(u, k, q)' = IF u = t /\ k = l /\ q = mode
                            THEN Holds(u, k, q) \ {n} ELSE Holds(u, k, q)
    <3> HIDE DEF n, g, l, mode
    <3> TAKE u \in Threads, k \in LockNames, q \in Modes
    <3>1. CASE u = t /\ k = l /\ q = mode
      BY <3>1, <1>8
    <3>2. CASE u = t /\ ~(k = l /\ q = mode)
      <4>1. n \notin Holds(u, k, q)
        BY <3>2, <1>9
      <4> QED
        BY <3>2, <4>1, <1>8
    <3>3. CASE u # t
      BY <3>3, <1>8
    <3> QED
      BY <3>1, <3>2, <3>3
  <2>5. GivesUp(t, l, mode, n)
    BY <2>1, <2>2, <2>4 DEF GivesUp
  <2> QED
    BY <1>2, <1>4, <1>7, <2>3, <2>5 DEF LockTypeOK, LockChange
<1>11. CASE ~g.m_locked
  <2>1. UNCHANGED <<held, readers>>
    BY <1>11 DEF Destruct, Top
  <2>2. \A u \in Threads, k \in LockNames, q \in Modes :
          Holds(u, k, q)' = Holds(u, k, q)
    <3> HIDE DEF n, g, l, mode
    <3> TAKE u \in Threads, k \in LockNames, q \in Modes
    <3>1. u = t => n \notin Holds(u, k, q)
      BY <1>9, <1>11
    <3> QED
      BY <3>1, <1>8
  <2>3. HoldsSame
    BY <2>1, <2>2 DEF HoldsSame
  <2> QED
    BY <1>7, <2>1, <2>3 DEF LockChange, LockTypeOK, LockInv
<1> QED
  BY <1>10, <1>11

\* Every step of the program changes the locks in one of these ways.
LEMMA EveryStep ==
    ASSUME LockInv, [Next]_vars
    PROVE  LockTypeOK' /\ LockChange
<1>1. CASE UNCHANGED lockVars
  <2>1. HoldsSame
    BY <1>1 DEF HoldsSame, Holds, lockVars
  <2> QED
    BY <1>1, <2>1 DEF LockInv, LockTypeOK, LockChange, lockVars
<1>2. ASSUME NEW t \in Threads, Step(t)
      PROVE  LockTypeOK' /\ LockChange
  <2>1. CASE Construct(t)
    BY <2>1, ConstructTakes DEF LockInv
  <2>2. CASE GuardUnlock(t)
    BY <2>2, UnlockGivesUp
  <2>3. CASE Destruct(t)
    BY <2>3, DestructGivesUp
  <2>4. CASE Choose(t) \/ EnterTry(t) \/ LeaveTry(t) \/ Raise(t)
    BY <1>1, <2>4 DEF Choose, EnterTry, LeaveTry, Raise
  <2> QED
    BY <1>2, <2>1, <2>2, <2>3, <2>4 DEF Step
<1>3. CASE OwnerNext
  BY <1>1, <1>3 DEF OwnerNext, OwnerCreate, OwnerCreateFails, OwnerJoin, OwnerDestroy
<1>4. CASE Move(Owner)
  BY <1>2, <1>4, ProgramAssumption DEF Move
<1>5. ASSUME NEW w \in Workers, WorkerNext(w)
      PROVE  LockTypeOK' /\ LockChange
  <2>1. CASE Run(w) \/ Call(w) \/ Return(w)
    BY <1>1, <2>1 DEF Run, Call, Begin, Return
  <2>2. CASE Move(w)
    BY <1>2, <2>2, ProgramAssumption DEF Move
  <2> QED
    BY <1>5, <2>1, <2>2 DEF WorkerNext
<1>6. CASE UNCHANGED vars
  BY <1>1, <1>6 DEF vars
<1> QED
  BY <1>3, <1>4, <1>5, <1>6 DEF Next

LEMMA LockInvInit == Init => LockInv
<1> SUFFICES ASSUME Init PROVE LockInv
  OBVIOUS
<1>1. LockTypeOK
  BY EmptySeq DEF Init, LockInit, LockTypeOK
<1>2. \A t \in Threads, l \in LockNames, mode \in Modes : Holds(t, l, mode) = {}
  BY EmptySeq DEF Init, LockInit, Holds
<1>3. \A l \in LockNames : Reads(l) = {}
  BY <1>2 DEF Reads, Modes
<1>4. \A l \in LockNames : WordAgrees(l) /\ OneWriter(l)
  BY <1>2, <1>3, FS_EmptySet DEF Modes, WordAgrees, OneWriter, Init, LockInit
<1> QED
  BY <1>1, <1>4 DEF LockInv

\* Taking a lock makes its word count one holder more.
LEMMA TakesKeeps ==
    ASSUME LockInv, LockTypeOK',
           NEW t \in Threads, NEW l \in LockNames, NEW mode \in Modes, NEW n \in Nat,
           Takes(t, l, mode, n)
    PROVE  LockInv'
<1> SUFFICES ASSUME NEW k \in LockNames
             PROVE  WordAgrees(k)' /\ OneWriter(k)'
  BY DEF LockInv
<1>1. WordAgrees(k) /\ OneWriter(k)
  BY DEF LockInv
<1>2. "read" \in Modes /\ "write" \in Modes /\ mode \in {"read", "write"}
  BY DEF Modes
<1>3. CASE k # l
  <2>1. \A u \in Threads, q \in Modes : Holds(u, k, q)' = Holds(u, k, q)
    BY <1>3 DEF Takes
  <2>2. Reads(k)' = Reads(k)
    BY <1>2, <2>1 DEF Reads
  <2>3. held'[k] = held[k] /\ readers'[k] = readers[k]
    BY <1>3 DEF Takes, Take, LockInv, LockTypeOK
  <2> QED
    BY <1>1, <1>2, <2>1, <2>2, <2>3 DEF WordAgrees, OneWriter
<1>4. CASE k = l /\ mode = "read"
  <2>1. /\ ~held[l]
        /\ held' = held
        /\ readers'[l] = readers[l] + 1
        /\ readers[l] \in Nat
    BY <1>4 DEF Takes, CanTake, Take, LockInv, LockTypeOK
  <2>2. \A u \in Threads : Holds(u, l, "write")' = Holds(u, l, "write")
    BY <1>2, <1>4 DEF Takes
  <2>3. /\ Reads(l)' = Reads(l) \cup {<<t, n>>}
        /\ <<t, n>> \notin Reads(l)
    BY <1>2, <1>4 DEF Reads, Takes
  <2>4. /\ IsFiniteSet(Reads(l)')
        /\ Cardinality(Reads(l)') = Cardinality(Reads(l)) + 1
    <3>1. IsFiniteSet(Reads(l))
      BY <1>1, <1>4 DEF WordAgrees
    <3> QED
      BY <2>3, <3>1, FS_AddElement
  <2> QED
    BY <1>1, <1>4, <2>1, <2>2, <2>4 DEF WordAgrees, OneWriter
<1>5. CASE k = l /\ mode = "write"
  <2>1. /\ ~held[l]
        /\ held'[l]
        /\ readers' = readers
        /\ readers[l] = 0
    BY <1>5 DEF Takes, CanTake, Take, LockInv, LockTypeOK
  <2>2. \A u \in Threads : Holds(u, l, "write") = {}
    BY <1>1, <1>5, <2>1 DEF WordAgrees
  <2>3. /\ Holds(t, l, "write")' = {n}
        /\ \A u \in Threads : u # t => Holds(u, l, "write")' = {}
    BY <1>2, <1>5, <2>2 DEF Takes
  <2>4. Reads(l)' = Reads(l)
    BY <1>2, <1>5 DEF Reads, Takes
  <2> QED
    BY <1>1, <1>5, <2>1, <2>3, <2>4 DEF WordAgrees, OneWriter
<1> QED
  BY <1>2, <1>3, <1>4, <1>5

\* A word says which kind of holder it has.
LEMMA HeldKind ==
    ASSUME LockInv, NEW t \in Threads, NEW l \in LockNames, NEW mode \in Modes,
           NEW n \in Holds(t, l, mode)
    PROVE  /\ mode = "write" => held[l]
           /\ mode = "read" => ~held[l] /\ readers[l] \in Nat \ {0} /\ <<t, n>> \in Reads(l)
<1>1. WordAgrees(l) /\ LockTypeOK
  BY DEF LockInv
<1>2. CASE mode = "write"
  BY <1>1, <1>2 DEF WordAgrees
<1>3. CASE mode = "read"
  <2>1. <<t, n>> \in Reads(l)
    BY <1>1, <1>3, HoldsFinite DEF Reads
  <2>2. readers[l] # 0
    BY <1>1, <2>1, FS_EmptySet DEF WordAgrees
  <2> QED
    BY <1>1, <1>3, <2>1, <2>2 DEF WordAgrees, LockTypeOK
<1> QED
  BY <1>2, <1>3 DEF Modes

\* Giving a lock up makes its word count one holder less.
LEMMA GivesUpKeeps ==
    ASSUME LockInv, LockTypeOK',
           NEW t \in Threads, NEW l \in LockNames, NEW mode \in Modes, NEW n \in Nat,
           GivesUp(t, l, mode, n)
    PROVE  LockInv'
<1> SUFFICES ASSUME NEW k \in LockNames
             PROVE  WordAgrees(k)' /\ OneWriter(k)'
  BY DEF LockInv
<1>1. WordAgrees(k) /\ OneWriter(k)
  BY DEF LockInv
<1>2. "read" \in Modes /\ "write" \in Modes /\ mode \in {"read", "write"}
  BY DEF Modes
<1>3. CASE k # l
  <2>1. \A u \in Threads, q \in Modes : Holds(u, k, q)' = Holds(u, k, q)
    BY <1>3 DEF GivesUp
  <2>2. Reads(k)' = Reads(k)
    BY <1>2, <2>1 DEF Reads
  <2>3. held'[k] = held[k] /\ readers'[k] = readers[k]
    BY <1>3 DEF GivesUp, Release, LockInv, LockTypeOK
  <2> QED
    BY <1>1, <1>2, <2>1, <2>2, <2>3 DEF WordAgrees, OneWriter
<1>4. CASE k = l /\ mode = "read"
  <2>1. ~held[l] /\ readers[l] \in Nat \ {0} /\ <<t, n>> \in Reads(l)
    BY <1>4, HeldKind DEF GivesUp
  <2>2. held' = held /\ readers'[l] = readers[l] - 1
    BY <1>4, <2>1 DEF GivesUp, Release, LockInv, LockTypeOK
  <2>3. \A u \in Threads : Holds(u, l, "write")' = Holds(u, l, "write")
    BY <1>2, <1>4 DEF GivesUp
  <2>4. Reads(l)' = Reads(l) \ {<<t, n>>}
    BY <1>2, <1>4 DEF Reads, GivesUp
  <2>5. /\ IsFiniteSet(Reads(l)')
        /\ Cardinality(Reads(l)') = Cardinality(Reads(l)) - 1
    <3>1. IsFiniteSet(Reads(l))
      BY <1>1, <1>4 DEF WordAgrees
    <3> QED
      BY <2>1, <2>4, <3>1, FS_RemoveElement
  <2> QED
    BY <1>1, <1>4, <2>1, <2>2, <2>3, <2>5 DEF WordAgrees, OneWriter
<1>5. CASE k = l /\ mode = "write"
  <2>1. held[l]
    BY <1>5, HeldKind DEF GivesUp
  <2>2. ~held'[l] /\ readers' = readers
    BY <1>5, <2>1 DEF GivesUp, Release, LockInv, LockTypeOK
  <2>3. \A u \in Threads : Holds(u, l, "write")' = {}
    <3>1. \A u \in Threads : \A i \in Holds(u, l, "write") : u = t /\ i = n
      BY <1>1, <1>5 DEF GivesUp, OneWriter
    <3>2. \A u \in Threads : Holds(u, l, "write")' =
            IF u = t THEN Holds(u, l, "write") \ {n} ELSE Holds(u, l, "write")
      BY <1>2, <1>5 DEF GivesUp
    <3> QED
      BY <3>1, <3>2
  <2>4. Reads(l)' = Reads(l)
    BY <1>2, <1>5 DEF Reads, GivesUp
  <2> QED
    BY <1>1, <1>5, <2>1, <2>2, <2>3, <2>4 DEF WordAgrees, OneWriter
<1> QED
  BY <1>2, <1>3, <1>4, <1>5

LEMMA LockInvNext == LockInv /\ [Next]_vars => LockInv'
<1> SUFFICES ASSUME LockInv, [Next]_vars PROVE LockInv'
  OBVIOUS
<1>1. LockTypeOK' /\ LockChange
  BY EveryStep
<1>2. ASSUME NEW t \in Threads, NEW l \in LockNames, NEW mode \in Modes, NEW n \in Nat,
             Takes(t, l, mode, n) \/ GivesUp(t, l, mode, n)
      PROVE  LockInv'
  BY <1>1, <1>2, TakesKeeps, GivesUpKeeps
<1>3. CASE HoldsSame
  <2>1. \A u \in Threads, k \in LockNames, q \in Modes : Holds(u, k, q)' = Holds(u, k, q)
    BY <1>3 DEF HoldsSame
  <2>2. \A k \in LockNames : Reads(k)' = Reads(k)
    BY <2>1 DEF Reads, Modes
  <2>3. ASSUME NEW k \in LockNames
        PROVE  WordAgrees(k)' /\ OneWriter(k)'
    <3>1. WordAgrees(k) /\ OneWriter(k)
      BY DEF LockInv
    <3>2. \A u \in Threads : Holds(u, k, "write")' = Holds(u, k, "write")
      BY <2>1 DEF Modes
    <3>3. held' = held /\ readers' = readers
      BY <1>3 DEF HoldsSame
    <3> QED
      BY <2>2, <3>1, <3>2, <3>3 DEF WordAgrees, OneWriter
  <2> QED
    BY <1>1, <2>3 DEF LockInv
<1> QED
  BY <1>1, <1>2, <1>3 DEF LockChange

\* The word of every lock agrees with the guards, and at most one guard of
\* one thread holds it exclusively.
THEOREM WordsAgree == Spec => []LockInv
<1>1. Init => LockInv
  BY LockInvInit
<1>2. LockInv /\ [Next]_vars => LockInv'
  BY LockInvNext
<1> QED
  BY <1>1, <1>2, PTL DEF Spec

-----------------------------------------------------------------------------
\* The refinement.

\* Taking a lock is an acquisition in Exclusion.
LEMMA TakesImplements ==
    ASSUME LockInv, LockTypeOK',
           NEW t \in Threads, NEW l \in LockNames, NEW mode \in Modes, NEW n \in Nat,
           Takes(t, l, mode, n)
    PROVE  Exclusive(l)!Next
<1>1. WordAgrees(l) /\ LockTypeOK
  BY DEF LockInv
<1>2. "read" \in Modes /\ "write" \in Modes /\ mode \in {"read", "write"}
  BY DEF Modes
<1>3. ~held[l]
  BY DEF Takes, CanTake
<1>4. \A u \in Threads : Holds(u, l, "write") = {}
  BY <1>1, <1>3 DEF WordAgrees
<1>5. Writing(l) = {}
  BY <1>4 DEF Writing
<1>6. CASE mode = "read"
  <2>1. \A u \in Threads : Holds(u, l, "write")' = {}
    BY <1>2, <1>4, <1>6 DEF Takes
  <2>2. UNCHANGED Writing(l)
    BY <1>5, <2>1 DEF Writing
  <2>3. /\ Holds(t, l, "read")' = Holds(t, l, "read") \cup {n}
        /\ n \notin Holds(t, l, "read")
        /\ \A u \in Threads : u # t => Holds(u, l, "read")' = Holds(u, l, "read")
    BY <1>2, <1>6 DEF Takes
  <2>4. Cardinality(Holds(t, l, "read")') = Cardinality(Holds(t, l, "read")) + 1
    BY <1>1, <2>3, HoldsFinite, FS_AddElement
  <2>5. Reading(l)' = [Reading(l) EXCEPT ![t] = @ + 1]
    BY <2>3, <2>4 DEF Reading
  <2> QED
    BY <1>5, <2>2, <2>5 DEF Exclusive!Next, Exclusive!AcquireRead
<1>7. CASE mode = "write"
  <2>1. readers[l] = 0
    BY <1>7 DEF Takes, CanTake
  <2>2. Reads(l) = {}
    BY <1>1, <2>1, FS_EmptySet DEF WordAgrees
  <2>3. \A u \in Threads : Holds(u, l, "read") = {}
    <3> TAKE u \in Threads
    <3>1. Holds(u, l, "read") \subseteq Nat
      BY <1>1, HoldsFinite
    <3>2. \A i \in Holds(u, l, "read") : <<u, i>> \in Reads(l)
      BY <3>1 DEF Reads
    <3> QED
      BY <2>2, <3>2
  <2>4. Exclusive(l)!Unread
    BY <2>3, FS_EmptySet DEF Exclusive!Unread, Reading
  <2>5. \A u \in Threads : Holds(u, l, "read")' = Holds(u, l, "read")
    BY <1>2, <1>7 DEF Takes
  <2>6. UNCHANGED Reading(l)
    BY <2>5 DEF Reading
  <2>7. \A u \in Threads : Holds(u, l, "write")' # {} <=> u = t
    BY <1>2, <1>4, <1>7 DEF Takes
  <2>8. Writing(l)' = {t}
    BY <2>7 DEF Writing
  <2> QED
    BY <1>5, <2>4, <2>6, <2>8 DEF Exclusive!Next, Exclusive!AcquireWrite
<1> QED
  BY <1>2, <1>6, <1>7

\* Giving a lock up is a release in Exclusion, by the thread that had it.
LEMMA GivesUpImplements ==
    ASSUME LockInv, LockTypeOK',
           NEW t \in Threads, NEW l \in LockNames, NEW mode \in Modes, NEW n \in Nat,
           GivesUp(t, l, mode, n)
    PROVE  Exclusive(l)!Next
<1>1. LockTypeOK /\ OneWriter(l)
  BY DEF LockInv
<1>2. "read" \in Modes /\ "write" \in Modes /\ mode \in {"read", "write"}
  BY DEF Modes
<1>3. n \in Holds(t, l, mode)
  BY DEF GivesUp
<1>4. CASE mode = "read"
  <2>1. \A u \in Threads : Holds(u, l, "write")' = Holds(u, l, "write")
    BY <1>2, <1>4 DEF GivesUp
  <2>2. UNCHANGED Writing(l)
    BY <2>1 DEF Writing
  <2>3. /\ Holds(t, l, "read")' = Holds(t, l, "read") \ {n}
        /\ n \in Holds(t, l, "read")
        /\ \A u \in Threads : u # t => Holds(u, l, "read")' = Holds(u, l, "read")
    BY <1>2, <1>3, <1>4 DEF GivesUp
  <2>4. IsFiniteSet(Holds(t, l, "read"))
    BY <1>1, HoldsFinite
  <2>5. Cardinality(Holds(t, l, "read")') = Cardinality(Holds(t, l, "read")) - 1
    BY <2>3, <2>4, FS_RemoveElement
  <2>6. Cardinality(Holds(t, l, "read")) \in Nat \ {0}
    BY <2>3, <2>4, FS_EmptySet, FS_CardinalityType
  <2>7. Reading(l)' = [Reading(l) EXCEPT ![t] = @ - 1]
    BY <2>3, <2>5 DEF Reading
  <2>8. Reading(l)[t] > 0
    <3>1. Reading(l)[t] = Cardinality(Holds(t, l, "read"))
      BY DEF Reading
    <3> QED
      BY <2>6, <3>1
  <2> QED
    BY <2>2, <2>7, <2>8 DEF Exclusive!Next, Exclusive!ReleaseRead
<1>5. CASE mode = "write"
  <2>1. \A u \in Threads : \A i \in Holds(u, l, "write") : u = t /\ i = n
    BY <1>1, <1>3, <1>5 DEF OneWriter
  <2>2. Writing(l) = {t}
    BY <1>3, <1>5, <2>1 DEF Writing
  <2>3. \A u \in Threads : Holds(u, l, "write")' =
          IF u = t THEN Holds(u, l, "write") \ {n} ELSE Holds(u, l, "write")
    BY <1>2, <1>5 DEF GivesUp
  <2>4. Writing(l)' = {}
    BY <2>1, <2>3 DEF Writing
  <2>5. \A u \in Threads : Holds(u, l, "read")' = Holds(u, l, "read")
    BY <1>2, <1>5 DEF GivesUp
  <2>6. UNCHANGED Reading(l)
    BY <2>5 DEF Reading
  <2> QED
    BY <2>2, <2>4, <2>6 DEF Exclusive!Next, Exclusive!ReleaseWrite
<1> QED
  BY <1>2, <1>4, <1>5

\* A lock no step touches stays as it is in Exclusion.
LEMMA OthersSame ==
    ASSUME NEW l \in LockNames,
           \A u \in Threads, q \in Modes : Holds(u, l, q)' = Holds(u, l, q)
    PROVE  Same(l)
<1>1. \A u \in Threads : /\ Holds(u, l, "read")' = Holds(u, l, "read")
                         /\ Holds(u, l, "write")' = Holds(u, l, "write")
  BY DEF Modes
<1> QED
  BY <1>1 DEF Same, Writing, Reading

LEMMA StepImplements ==
    ASSUME LockInv, [Next]_vars, NEW k \in LockNames
    PROVE  Same(k) \/ Exclusive(k)!Next
<1>1. LockTypeOK' /\ LockChange
  BY EveryStep
<1>2. ASSUME NEW t \in Threads, NEW l \in LockNames, NEW mode \in Modes, NEW n \in Nat,
             Takes(t, l, mode, n) \/ GivesUp(t, l, mode, n)
      PROVE  Same(k) \/ Exclusive(k)!Next
  <2>1. CASE k = l
    BY <1>1, <1>2, <2>1, TakesImplements, GivesUpImplements
  <2>2. CASE k # l
    <3>1. \A u \in Threads, q \in Modes : Holds(u, k, q)' = Holds(u, k, q)
      BY <1>2, <2>2 DEF Takes, GivesUp
    <3> QED
      BY <3>1, OthersSame
  <2> QED
    BY <2>1, <2>2
<1>3. CASE HoldsSame
  BY <1>3, OthersSame DEF HoldsSame
<1> QED
  BY <1>1, <1>2, <1>3 DEF LockChange

LEMMA InitImplements ==
    ASSUME Init, NEW l \in LockNames
    PROVE  Exclusive(l)!Init
<1>1. \A t \in Threads, mode \in Modes : Holds(t, l, mode) = {}
  BY EmptySeq DEF Init, LockInit, Holds
<1> QED
  BY <1>1, FS_EmptySet DEF Modes, Exclusive!Init, Writing, Reading

\* Whatever the threads call, the guards give every lock the exclusion that
\* its word alone does not: a step takes a lock only for a thread that may
\* have it and gives it up only for a thread that has it (mutex.h:18-112).
THEOREM GuardsExclude == Spec => ImplementsExclusion
<1>1. Init => EachInit
  BY InitImplements DEF EachInit
<1>2. LockInv /\ [Next]_vars => [EachStep]_lockVars
  BY StepImplements DEF EachStep
<1> QED
  BY <1>1, <1>2, WordsAgree, PTL DEF Spec, ImplementsExclusion

\* Each lock by itself behaves as Exclusion does.
THEOREM EachLockExcludes ==
    ASSUME NEW CONSTANT l \in LockNames
    PROVE  Spec => Exclusive(l)!Spec
<1>1. Init => Exclusive(l)!Init
  BY InitImplements
<1>2. LockInv /\ [Next]_vars => [Exclusive(l)!Next]_<<Writing(l), Reading(l)>>
  BY StepImplements DEF Same
<1> QED
  BY <1>1, <1>2, WordsAgree, PTL DEF Spec, Exclusive!Spec

-----------------------------------------------------------------------------
\* The thread objects.

ThreadTypeOK ==
    /\ object \in [Workers -> {"none", "alive", "freed"}]
    /\ m_thread \in [Workers -> BOOLEAN]
    /\ m_cb \in [Workers -> BOOLEAN]
    /\ kernel \in [Workers -> {"none", "created", "entered", "calling", "exited"}]
    /\ reaped \in [Workers -> Nat]

\* Where the kernel thread of w can be, by what its owner has done: joined
\* means over, dropped by an owner that waits means that the callback has
\* begun, and a callback that runs is no longer the object's.
Stage(w) ==
    /\ object[w] = "none" => kernel[w] = "none"
    /\ object[w] = "alive" /\ ~m_thread[w] => kernel[w] = "exited"
    /\ OwnerWaits /\ object[w] = "freed" => kernel[w] \in {"calling", "exited"}
    /\ kernel[w] = "calling" => ~m_cb[w]

ReapedBy(w) ==
    reaped[w] = IF object[w] = "freed" \/ (object[w] = "alive" /\ ~m_thread[w]) THEN 1 ELSE 0

ThreadInv == ThreadTypeOK /\ \A w \in Workers : Stage(w) /\ ReapedBy(w)

LEMMA ThreadInvInit == Init => ThreadInv
  BY DEF Init, ThreadInit, ThreadInv, ThreadTypeOK, Stage, ReapedBy

LEMMA ThreadInvNext == ThreadInv /\ [Next]_vars => ThreadInv'
<1> SUFFICES ASSUME ThreadInv, [Next]_vars PROVE ThreadInv'
  OBVIOUS
<1> USE DEF ThreadInv, ThreadTypeOK, Stage, ReapedBy
<1>1. CASE UNCHANGED threadVars
  BY <1>1 DEF threadVars
<1>2. ASSUME NEW w \in Workers, Create(w) PROVE ThreadInv'
  BY <1>2 DEF Create
<1>3. ASSUME NEW w \in Workers, CreateFails(w) PROVE ThreadInv'
  BY <1>3 DEF CreateFails
<1>4. ASSUME NEW w \in Workers, Join(w) PROVE ThreadInv'
  BY <1>4 DEF Join
<1>5. ASSUME NEW w \in Workers, OwnerDestroy(w) PROVE ThreadInv'
  BY <1>5 DEF OwnerDestroy, Destroy
<1>6. ASSUME NEW w \in Workers, RunEnter(w) PROVE ThreadInv'
  BY <1>6 DEF RunEnter
<1>7. ASSUME NEW w \in Workers, RunSwap(w) PROVE ThreadInv'
  BY <1>7 DEF RunSwap
<1>8. ASSUME NEW w \in Workers, RunReturn(w) PROVE ThreadInv'
  BY <1>8 DEF RunReturn
<1>9. CASE OwnerNext
  BY <1>2, <1>3, <1>4, <1>5, <1>9
     DEF OwnerNext, OwnerCreate, OwnerCreateFails, OwnerJoin
<1>10. CASE Move(Owner) \/ UNCHANGED vars
  BY <1>1, <1>10 DEF Move, vars
<1>11. ASSUME NEW w \in Workers, WorkerNext(w) PROVE ThreadInv'
  BY <1>1, <1>6, <1>7, <1>8, <1>11 DEF WorkerNext, Run, Call, Return, Move
<1> QED
  BY <1>9, <1>10, <1>11 DEF Next

\* run() never touches an object that is gone, if the owner drops an object
\* only after join() or once its callback has begun: the class itself does not
\* see to that (thread.cpp:53-129).
THEOREM ObjectOutlivesUse ==
    ASSUME OwnerWaits
    PROVE  Spec => []RunUsesObject
<1>1. ThreadInv => RunUsesObject
  BY DEF ThreadInv, ThreadTypeOK, Stage, RunUsesObject, Needed
<1> QED
  BY <1>1, ThreadInvInit, ThreadInvNext, PTL DEF Spec

\* Every kernel thread is joined or detached once at most, and once by the
\* time its object is gone, whenever the owner drops it (thread.cpp:53-91).
THEOREM HandleReapedOnce == Spec => []ReapedOnce
<1>1. ThreadInv => ReapedOnce
  BY DEF ThreadInv, ReapedBy, ReapedOnce
<1> QED
  BY <1>1, ThreadInvInit, ThreadInvNext, PTL DEF Spec

-----------------------------------------------------------------------------
(***************************************************************************)
(* The order of the locks.  What a thread does to its own code, guards and *)
(* try blocks depends on no other thread: the others only decide when a    *)
(* guard is constructed.  So the order can be shown for one thread at a    *)
(* time, from a set T of configurations <<code, guards, catches>> that no  *)
(* step of a thread leaves, and in which every step keeps the discipline.  *)
(***************************************************************************)

\* The guards of g hold only locks that come before r.
Below(g, r) == \A i \in DOMAIN g : g[i].m_locked => Rank[g[i].lock] < r

\* A thread with code c, guards g and try blocks k keeps the discipline, and
\* is in T after its next step.
StepFits(c, g, k, T) ==
    IF c = <<>>
    THEN g = <<>> /\ k = <<>>
    ELSE LET s == Head(c)
             rest == Tail(c) IN
      /\ s.op \in {"lock", "unlock", "leave", "branch", "try", "endtry", "throw"}
      /\ s.op = "lock" =>
            /\ s.lock \in LockNames /\ s.mode \in Modes
            /\ Below(g, Rank[s.lock])
            /\ <<rest, Append(g, LockedGuard(s.lock, s.mode)), k>> \in T
      /\ s.op = "unlock" =>
            g # <<>> /\ Top(g).m_locked /\ <<rest, TopUnlocked(g), k>> \in T
      /\ s.op = "leave" => g # <<>> /\ <<rest, Pop(g), k>> \in T
      /\ s.op = "branch" =>
            s.of # {} /\ \A a \in s.of : <<a \o rest, g, k>> \in T
      /\ s.op = "try" =>
            <<s.body \o <<EndTry>> \o rest, g,
              Append(k, [depth |-> Len(g), code |-> s.handler \o rest])>> \in T
      /\ s.op = "endtry" => <<rest, g, Pop(k)>> \in T
      /\ s.op = "throw" =>
            IF k = <<>>
            THEN <<Leaves(Len(g)), g, k>> \in T
            ELSE <<Leaves(Len(g) - Top(k).depth) \o Top(k).code, g, Pop(k)>> \in T

Closed(T) == \A c, g, k : <<c, g, k>> \in T => StepFits(c, g, k, T)

\* Every thread is in T.
Within(T) ==
    /\ LockInv
    /\ code = [t \in Threads |-> code[t]]
    /\ catches = [t \in Threads |-> catches[t]]
    /\ \A t \in Threads : <<code[t], guards[t], catches[t]>> \in T

\* T has the calls of the program from their beginning.
Begins(T) ==
    /\ Closed(T)
    /\ <<<<>>, <<>>, <<>>>> \in T
    /\ \A c \in Calls \cup {ErrorLog} : <<c, <<>>, <<>>>> \in T

LEMMA WithinInit ==
    ASSUME NEW T, Begins(T), Init
    PROVE  Within(T)
<1>1. LockInv
  BY LockInvInit
<1> QED
  BY <1>1 DEF Init, LockInit, Within, Begins

\* The steps have their kind in op.
LEMMA Kinds ==
    /\ \A l, mode : /\ Lock(l, mode).op = "lock"
                    /\ Lock(l, mode).lock = l
                    /\ Lock(l, mode).mode = mode
    /\ Unlock.op = "unlock" /\ Leave.op = "leave"
    /\ EndTry.op = "endtry" /\ Throw.op = "throw"
    /\ \A of : Branch(of).op = "branch" /\ Branch(of).of = of
    /\ \A body, handler : /\ Try(body, handler).op = "try"
                          /\ Try(body, handler).body = body
                          /\ Try(body, handler).handler = handler
  BY DEF Lock, Unlock, Leave, Branch, Try, EndTry, Throw

\* The step of a thread leads from its place in T to another.
LEMMA StepWithin ==
    ASSUME NEW T, Begins(T), Within(T), LockInv', NEW t \in Threads, Step(t)
    PROVE  Within(T)'
<1> DEFINE c == code[t]
           g == guards[t]
           k == catches[t]
<1>1. <<c, g, k>> \in T
  BY DEF Within
<1>2. StepFits(c, g, k, T)
  BY <1>1 DEF Begins, Closed
<1>3. /\ guards = [u \in Threads |-> guards[u]]
      /\ code = [u \in Threads |-> code[u]]
      /\ catches = [u \in Threads |-> catches[u]]
  BY DEF Within, LockInv, LockTypeOK
<1> DEFINE Goes(x, y, z) == /\ <<x, y, z>> \in T
                            /\ code' = [code EXCEPT ![t] = x]
                            /\ guards' = [guards EXCEPT ![t] = y]
                            /\ catches' = [catches EXCEPT ![t] = z]
<1>4. ASSUME NEW x, NEW y, NEW z, Goes(x, y, z)
      PROVE  Within(T)'
  <2>1. /\ code' = [u \in Threads |-> code'[u]]
        /\ catches' = [u \in Threads |-> catches'[u]]
    BY <1>3, <1>4
  <2>2. ASSUME NEW u \in Threads PROVE <<code'[u], guards'[u], catches'[u]>> \in T
    <3>1. <<code[u], guards[u], catches[u]>> \in T
      BY DEF Within
    <3>2. /\ code'[u] = IF u = t THEN x ELSE code[u]
          /\ guards'[u] = IF u = t THEN y ELSE guards[u]
          /\ catches'[u] = IF u = t THEN z ELSE catches[u]
      BY <1>3, <1>4
    <3> QED
      BY <1>4, <3>1, <3>2
  <2> QED
    BY <2>1, <2>2 DEF Within
<1>a. /\ UNCHANGED guards => guards' = [guards EXCEPT ![t] = g]
      /\ UNCHANGED catches => catches' = [catches EXCEPT ![t] = k]
  BY <1>3
<1> HIDE DEF c, g, k
<1> USE DEF At
<1>5. CASE Construct(t)
  <2>1. PICK l \in LockNames, mode \in Modes :
          /\ Head(c) = Lock(l, mode)
          /\ guards' = [guards EXCEPT ![t] = Append(@, LockedGuard(l, mode))]
    BY <1>5 DEF Construct, c
  <2>2. c # <<>> /\ Head(c).op = "lock" /\ Head(c).lock = l /\ Head(c).mode = mode
    BY <1>5, <2>1, Kinds DEF Construct, c
  <2>3. Goes(Tail(c), Append(g, LockedGuard(l, mode)), k)
    BY <1>2, <1>a, <1>5, <2>1, <2>2 DEF StepFits, Construct, c, g
  <2> QED
    BY <1>4, <2>3
<1>6. CASE GuardUnlock(t)
  <2>1. Goes(Tail(c), TopUnlocked(g), k)
    BY <1>2, <1>a, <1>6 DEF StepFits, GuardUnlock, c, g
  <2> QED
    BY <1>4, <2>1
<1>7. CASE Destruct(t)
  <2>1. Goes(Tail(c), Pop(g), k)
    BY <1>2, <1>a, <1>7 DEF StepFits, Destruct, c, g
  <2> QED
    BY <1>4, <2>1
<1>8. CASE Choose(t)
  <2>1. PICK a \in Head(c).of : code' = [code EXCEPT ![t] = a \o Tail(c)]
    BY <1>8 DEF Choose, c
  <2>2. Goes(a \o Tail(c), g, k)
    BY <1>2, <1>a, <1>8, <2>1 DEF StepFits, Choose, c, lockVars
  <2> QED
    BY <1>4, <2>2
<1>9. CASE EnterTry(t)
  <2>1. Goes(Head(c).body \o <<EndTry>> \o Tail(c), g,
             Append(k, [depth |-> Len(g), code |-> Head(c).handler \o Tail(c)]))
    BY <1>2, <1>a, <1>9 DEF StepFits, EnterTry, c, g, k, lockVars
  <2> QED
    BY <1>4, <2>1
<1>10. CASE LeaveTry(t)
  <2>1. Goes(Tail(c), g, Pop(k))
    BY <1>2, <1>a, <1>10 DEF StepFits, LeaveTry, c, k, lockVars
  <2> QED
    BY <1>4, <2>1
<1>11. CASE Raise(t)
  <2>1. Goes(Unwound(t), g, IF k = <<>> THEN k ELSE Pop(k))
    BY <1>2, <1>a, <1>11 DEF StepFits, Unwound, Raise, c, g, k, lockVars
  <2> QED
    BY <1>4, <2>1
<1> QED
  BY <1>5, <1>6, <1>7, <1>8, <1>9, <1>10, <1>11 DEF Step

LEMMA WithinNext ==
    ASSUME NEW T, Begins(T), Within(T), [Next]_vars
    PROVE  Within(T)'
<1>1. LockInv'
  BY LockInvNext DEF Within
<1>2. CASE UNCHANGED <<guards, code, catches>>
  BY <1>1, <1>2 DEF Within
<1>3. ASSUME NEW t \in Threads, NEW c \in Calls \cup {ErrorLog},
             code[t] = <<>>, code' = [code EXCEPT ![t] = c],
             UNCHANGED <<guards, catches>>
      PROVE  Within(T)'
  <2>1. /\ code = [u \in Threads |-> code[u]]
        /\ catches = [u \in Threads |-> catches[u]]
        /\ \A u \in Threads : <<code[u], guards[u], catches[u]>> \in T
    BY DEF Within
  <2>2. guards[t] = <<>> /\ catches[t] = <<>>
    <3>1. StepFits(code[t], guards[t], catches[t], T)
      BY <2>1 DEF Begins, Closed
    <3> QED
      BY <1>3, <3>1 DEF StepFits
  <2>3. <<c, <<>>, <<>>>> \in T
    BY <1>3 DEF Begins
  <2>4. code' = [u \in Threads |-> code'[u]]
    BY <1>3, <2>1
  <2>5. ASSUME NEW u \in Threads PROVE <<code'[u], guards'[u], catches'[u]>> \in T
    <3>1. code'[u] = IF u = t THEN c ELSE code[u]
      BY <1>3, <2>1
    <3> QED
      BY <1>3, <2>1, <2>2, <2>3, <3>1
  <2> QED
    BY <1>1, <1>3, <2>1, <2>4, <2>5 DEF Within
<1>4. ASSUME NEW t \in Threads, Step(t) PROVE Within(T)'
  BY <1>1, <1>4, StepWithin
<1>5. CASE OwnerNext
  <2>1. PICK w \in Workers : \/ OwnerCreate(w) \/ OwnerCreateFails(w)
                             \/ OwnerJoin(w) \/ OwnerDestroy(w)
    BY <1>5 DEF OwnerNext
  <2>2. CASE OwnerCreateFails(w)
    BY <1>3, <2>2, ProgramAssumption DEF OwnerCreateFails, OwnerIdle, lockVars
  <2>3. CASE OwnerCreate(w) \/ OwnerJoin(w) \/ OwnerDestroy(w)
    BY <1>2, <2>3 DEF OwnerCreate, OwnerJoin, OwnerDestroy, lockVars, codeVars
  <2> QED
    BY <2>1, <2>2, <2>3
<1>6. CASE Move(Owner)
  BY <1>4, <1>6, ProgramAssumption DEF Move
<1>7. ASSUME NEW w \in Workers, WorkerNext(w) PROVE Within(T)'
  <2>1. CASE Run(w) \/ Return(w)
    BY <1>2, <2>1 DEF Run, Return, lockVars, codeVars
  <2>2. CASE Call(w)
    BY <1>3, <2>2, ProgramAssumption DEF Call, Begin, lockVars
  <2>3. CASE Move(w)
    BY <1>4, <2>3, ProgramAssumption DEF Move
  <2> QED
    BY <1>7, <2>1, <2>2, <2>3 DEF WorkerNext
<1>8. CASE UNCHANGED vars
  BY <1>2, <1>8 DEF vars, lockVars, codeVars
<1> QED
  BY <1>5, <1>6, <1>7, <1>8 DEF Next

\* In T a lock that is waited for comes after those that are held.
LEMMA WithinOrders ==
    ASSUME NEW T, Begins(T), Within(T)
    PROVE  LockOrder /\ NothingHeld
<1>1. ASSUME NEW t \in Threads
      PROVE  StepFits(code[t], guards[t], catches[t], T)
  BY DEF Within, Begins, Closed
<1> QED
  BY <1>1 DEF StepFits, Below, LockOrder, NothingHeld, At

\* Some element of a set of locks comes last.
LEMMA LastLock ==
    ASSUME NEW W \in SUBSET LockNames, W # {}
    PROVE  \E l \in W : \A m \in W : Rank[m] <= Rank[l]
<1> DEFINE After(l) == {m \in W : Rank[m] >= Rank[l]}
           sizes == {Cardinality(After(l)) : l \in W}
<1>1. \A l \in W : IsFiniteSet(After(l)) /\ Cardinality(After(l)) \in Nat
  <2> TAKE l \in W
  <2>1. After(l) \subseteq LockNames
    OBVIOUS
  <2> QED
    BY <2>1, LocksAssumption, FS_Subset, FS_CardinalityType
<1>2. PICK x \in sizes : \A y \in sizes : ~(<<y, x>> \in OpToRel(<, Nat))
  <2>1. sizes \in SUBSET Nat /\ sizes # {}
    BY <1>1
  <2> HIDE DEF sizes
  <2> QED
    BY <2>1, NatLessThanWellFounded, WFMin, Zenon
<1>3. PICK l \in W : x = Cardinality(After(l))
  BY <1>2
<1>4. ASSUME NEW m \in W, Rank[m] > Rank[l] PROVE FALSE
  <2>1. After(m) \subseteq After(l)
    BY <1>4, LocksAssumption
  <2>2. l \in After(l) /\ l \notin After(m)
    BY <1>4, LocksAssumption
  <2>3. Cardinality(After(m)) < Cardinality(After(l))
    <3> HIDE DEF After
    <3>1. After(m) # After(l)
      BY <2>2
    <3>2. Cardinality(After(m)) <= Cardinality(After(l))
          /\ (Cardinality(After(m)) = Cardinality(After(l)) => After(m) = After(l))
      BY <1>1, <2>1, FS_Subset
    <3> QED
      BY <1>1, <3>1, <3>2
  <2>4. Cardinality(After(m)) \in sizes
    OBVIOUS
  <2>5. <<Cardinality(After(m)), x>> \in OpToRel(<, Nat)
    <3> HIDE DEF After
    <3> QED
      BY <1>1, <1>3, <2>3 DEF OpToRel
  <2> HIDE DEF sizes
  <2> QED
    BY <1>2, <2>4, <2>5
<1>5. \A m \in W : Rank[m] <= Rank[l]
  BY <1>4, LocksAssumption
<1> QED
  BY <1>5

\* A lock that cannot be taken is held by a thread that has something to do.
LEMMA HolderRuns ==
    ASSUME LockInv, NothingHeld, NEW l \in LockNames, NEW mode \in Modes, ~CanTake(l, mode)
    PROVE  \E u \in Threads :
              /\ code[u] # <<>>
              /\ \E i \in DOMAIN guards[u] : guards[u][i].m_locked /\ guards[u][i].lock = l
<1>1. ASSUME NEW u \in Threads, NEW q \in Modes, NEW i \in Holds(u, l, q)
      PROVE  /\ code[u] # <<>>
             /\ i \in DOMAIN guards[u]
             /\ guards[u][i].m_locked /\ guards[u][i].lock = l
  <2>1. guards[u] \in Seq(Guard)
    BY DEF LockInv, LockTypeOK
  <2>2. i \in 1..Len(guards[u]) /\ guards[u][i] = LockedGuard(l, q)
    BY DEF Holds
  <2>3. DOMAIN guards[u] = 1..Len(guards[u])
    BY <2>1, LenProperties
  <2>4. guards[u] # <<>>
    BY <2>1, <2>2, EmptySeq
  <2> QED
    BY <2>2, <2>3, <2>4 DEF NothingHeld, LockedGuard
<1>2. CASE held[l]
  <2>1. PICK u \in Threads : Holds(u, l, "write") # {}
    BY <1>2 DEF LockInv, WordAgrees
  <2> QED
    BY <1>1, <2>1 DEF Modes
<1>3. CASE ~held[l]
  <2>1. readers[l] # 0
    BY <1>3 DEF CanTake
  <2>2. Reads(l) # {}
    BY <2>1, FS_EmptySet DEF LockInv, WordAgrees
  <2>3. PICK h \in Threads \X Nat : h[2] \in Holds(h[1], l, "read")
    BY <2>2 DEF Reads
  <2> QED
    BY <1>1, <2>3 DEF Modes
<1> QED
  BY <1>2, <1>3

\* Of the threads that wait, one waits for the lock that comes last; who
\* holds it waits for nothing.
LEMMA WithinRuns ==
    ASSUME NEW T, Begins(T), Within(T)
    PROVE  NoDeadlock
<1>1. LockOrder /\ NothingHeld /\ LockInv
  BY WithinOrders DEF Within
<1>2. ASSUME NEW t \in Threads
      PROVE  StepFits(code[t], guards[t], catches[t], T)
  BY DEF Within, Begins, Closed
<1> SUFFICES ASSUME NEW t0 \in Threads, code[t0] # <<>>,
                    \A t \in Threads : ~CanStep(t)
             PROVE  FALSE
  BY DEF NoDeadlock
<1>3. ASSUME NEW t \in Threads, code[t] # <<>>
      PROVE  /\ At(t, "lock")
             /\ Head(code[t]).lock \in LockNames /\ Head(code[t]).mode \in Modes
             /\ ~CanTake(Head(code[t]).lock, Head(code[t]).mode)
  <2>1. At(t, "lock") => Head(code[t]).lock \in LockNames /\ Head(code[t]).mode \in Modes
    BY <1>2, <1>3 DEF StepFits, At
  <2>2. /\ At(t, "unlock") => guards[t] # <<>> /\ Top(guards[t]).m_locked
        /\ At(t, "leave") => guards[t] # <<>>
        /\ At(t, "branch") => Head(code[t]).of # {}
    BY <1>2, <1>3 DEF StepFits, At
  <2> QED
    BY <1>3, <2>1, <2>2 DEF CanStep
<1> DEFINE W == {Head(code[t]).lock : t \in {u \in Threads : code[u] # <<>>}}
<1>4. W \in SUBSET LockNames /\ W # {}
  BY <1>3
<1>5. PICK l \in W : \A m \in W : Rank[m] <= Rank[l]
  <2> HIDE DEF W
  <2> QED
    BY <1>4, LastLock
<1>6. PICK t \in Threads : code[t] # <<>> /\ Head(code[t]).lock = l
  OBVIOUS
<1>7. PICK u \in Threads :
        /\ code[u] # <<>>
        /\ \E i \in DOMAIN guards[u] : guards[u][i].m_locked /\ guards[u][i].lock = l
  BY <1>1, <1>3, <1>6, HolderRuns
<1>8. Rank[l] < Rank[Head(code[u]).lock]
  BY <1>1, <1>3, <1>7 DEF LockOrder
<1>9. Head(code[u]).lock \in W
  BY <1>7
<1>10. Rank[Head(code[u]).lock] <= Rank[l]
  BY <1>5, <1>9
<1>11. Rank[Head(code[u]).lock] \in Nat /\ Rank[l] \in Nat
  BY <1>4, <1>9, LocksAssumption
<1> QED
  BY <1>8, <1>10, <1>11

\* The three properties, from a set T.
LEMMA OrderedWithin ==
    ASSUME NEW CONSTANT T, Begins(T)
    PROVE  Spec => [](LockOrder /\ NothingHeld /\ NoDeadlock)
<1>1. Init => Within(T)
  BY WithinInit
<1>2. Within(T) /\ [Next]_vars => Within(T)'
  BY WithinNext
<1>3. Within(T) => LockOrder /\ NothingHeld /\ NoDeadlock
  BY WithinOrders, WithinRuns
<1> QED
  BY <1>1, <1>2, <1>3, PTL DEF Spec

-----------------------------------------------------------------------------
\* Sequences of any elements: code has steps of many shapes.

IsSeq(s) == \E S : s \in Seq(S)

LEMMA ConcatIsSeq ==
    ASSUME NEW a, NEW b, IsSeq(a), IsSeq(b)
    PROVE  \E S : a \in Seq(S) /\ b \in Seq(S) /\ a \o b \in Seq(S)
<1>1. PICK A : a \in Seq(A)
  BY DEF IsSeq
<1>2. PICK B : b \in Seq(B)
  BY DEF IsSeq
<1> DEFINE S == A \cup B
<1>3. a \in Seq(S) /\ b \in Seq(S)
  BY <1>1, <1>2, SeqMonotonic
<1>4. a \o b \in Seq(S)
  BY <1>3, ConcatProperties
<1> HIDE DEF S
<1> QED
  BY <1>3, <1>4

LEMMA Glue ==
    ASSUME NEW a, NEW b, NEW c, IsSeq(a), IsSeq(b), IsSeq(c)
    PROVE  /\ IsSeq(a \o b)
           /\ (a \o b) \o c = a \o (b \o c)
           /\ a \o <<>> = a
           /\ <<>> \o a = a
<1>1. PICK S : a \in Seq(S) /\ b \in Seq(S) /\ a \o b \in Seq(S)
  BY ConcatIsSeq
<1>2. IsSeq(a \o b)
  BY <1>1 DEF IsSeq
<1>3. PICK R : a \o b \in Seq(R) /\ c \in Seq(R)
  BY <1>2, ConcatIsSeq
<1> DEFINE Q == S \cup R
<1>4. a \in Seq(Q) /\ b \in Seq(Q) /\ c \in Seq(Q)
  BY <1>1, <1>3, SeqMonotonic
<1> HIDE DEF Q
<1> QED
  BY <1>2, <1>4, ConcatAssociative, ConcatEmptySeq

LEMMA OneStep ==
    ASSUME NEW s, NEW rest, IsSeq(rest)
    PROVE  /\ IsSeq(<<s>>)
           /\ <<s>> \o rest # <<>>
           /\ Head(<<s>> \o rest) = s
           /\ Tail(<<s>> \o rest) = rest
           /\ IsSeq(<<s>> \o rest)
<1>1. <<s>> \in Seq({s})
  OBVIOUS
<1>2. IsSeq(<<s>>)
  BY <1>1 DEF IsSeq
<1>3. PICK S : <<s>> \in Seq(S) /\ rest \in Seq(S) /\ <<s>> \o rest \in Seq(S)
  BY <1>2, ConcatIsSeq
<1> DEFINE c == <<s>> \o rest
<1>4. /\ Len(rest) \in Nat
      /\ Len(c) = 1 + Len(rest)
      /\ \A i \in 1..Len(c) : c[i] = IF i <= 1 THEN s ELSE rest[i - 1]
  BY <1>3, ConcatProperties, LenProperties
<1>5. c \in Seq(S) /\ c # <<>>
  BY <1>3, <1>4, EmptySeq
<1>6. Head(c) = s
  <2>1. Head(c) = c[1]
    BY <1>5
  <2> QED
    BY <1>4, <2>1
<1>7. Tail(c) = rest
  <2>1. /\ Tail(c) \in Seq(S)
        /\ Len(Tail(c)) = Len(rest)
        /\ \A i \in 1..Len(Tail(c)) : Tail(c)[i] = c[i + 1]
    BY <1>4, <1>5, HeadTailProperties
  <2>2. \A i \in 1..Len(rest) : Tail(c)[i] = rest[i]
    <3> HIDE DEF c
    <3> QED
      BY <1>4, <2>1
  <2> HIDE DEF c
  <2> QED
    BY <1>3, <2>1, <2>2, SeqEqual
<1> QED
  BY <1>2, <1>3, <1>5, <1>6, <1>7 DEF IsSeq

LEMMA TwoSteps ==
    ASSUME NEW s, NEW t
    PROVE  <<s, t>> = <<s>> \o <<t>>
<1> DEFINE S == {s, t}
           a == <<s>>
           b == <<t>>
           c == <<s, t>>
<1>1. /\ a \in Seq(S) /\ Len(a) = 1 /\ a[1] = s
      /\ b \in Seq(S) /\ Len(b) = 1 /\ b[1] = t
      /\ c \in Seq(S) /\ Len(c) = 2 /\ c[1] = s /\ c[2] = t
  OBVIOUS
<1> HIDE DEF S, a, b, c
<1>2. /\ a \o b \in Seq(S)
      /\ Len(a \o b) = Len(a) + Len(b)
      /\ \A i \in 1..(Len(a) + Len(b)) :
           (a \o b)[i] = IF i <= Len(a) THEN a[i] ELSE b[i - Len(a)]
  BY <1>1, ConcatProperties
<1>3. Len(a \o b) = 2 /\ \A i \in 1..2 : (a \o b)[i] = IF i <= 1 THEN a[i] ELSE b[i - 1]
  BY <1>1, <1>2
<1>4. (a \o b)[1] = c[1] /\ (a \o b)[2] = c[2]
  <2>1. 1 \in 1..2 /\ 2 \in 1..2 /\ 1 <= 1 /\ ~(2 <= 1) /\ 2 - 1 = 1
    OBVIOUS
  <2> QED
    BY <1>1, <1>3, <2>1
<1>5. \A i \in 1..Len(c) : c[i] = (a \o b)[i]
  <2>1. \A i \in 1..Len(c) : i = 1 \/ i = 2
    BY <1>1
  <2> QED
    BY <1>4, <2>1
<1>6. c = a \o b
  BY <1>1, <1>2, <1>3, <1>5, SeqEqual
<1> QED
  BY <1>6 DEF a, b, c

LEMMA PushPop ==
    ASSUME NEW s, NEW x, IsSeq(s)
    PROVE  /\ Append(s, x) # <<>>
           /\ Top(Append(s, x)) = x
           /\ Pop(Append(s, x)) = s
           /\ IsSeq(Append(s, x))
           /\ Len(s) \in Nat
           /\ Len(Append(s, x)) = Len(s) + 1
<1>1. PICK R : s \in Seq(R)
  BY DEF IsSeq
<1> DEFINE S == R \cup {x}
           a == Append(s, x)
<1>2. s \in Seq(S) /\ x \in S
  BY <1>1, SeqMonotonic
<1> HIDE DEF S
<1>3. /\ a \in Seq(S)
      /\ Len(s) \in Nat
      /\ Len(a) = Len(s) + 1
      /\ a[Len(s) + 1] = x
      /\ \A i \in 1..Len(s) : a[i] = s[i]
  BY <1>2, AppendProperties, LenProperties
<1>4. a # <<>>
  BY <1>3, EmptySeq
<1>5. Pop(a) = s
  <2>1. Pop(a) = SubSeq(a, 1, Len(s))
    BY <1>3 DEF Pop
  <2>2. \A i \in 1..Len(s) : a[i] \in S
    BY <1>2, <1>3, ElementOfSeq
  <2> HIDE DEF a
  <2>3. /\ Pop(a) \in Seq(S)
        /\ Len(Pop(a)) = Len(s)
        /\ \A i \in 1..Len(s) : Pop(a)[i] = a[i]
    BY <1>3, <2>1, <2>2, SubSeqProperties
  <2> QED
    BY <1>2, <1>3, <2>3, SeqEqual
<1> QED
  BY <1>3, <1>4, <1>5 DEF Top, IsSeq

\* One guard more to destroy is one Leave more.
LEMMA LeavesGrow ==
    ASSUME NEW n \in Nat
    PROVE  /\ Leaves(0) = <<>>
           /\ IsSeq(Leaves(n))
           /\ Leaves(n + 1) = <<Leave>> \o Leaves(n)
<1>1. \A m \in Nat : /\ Leaves(m) \in Seq({Leave})
                     /\ Len(Leaves(m)) = m
                     /\ \A i \in 1..m : Leaves(m)[i] = Leave
  BY DEF Leaves
<1>2. Leaves(0) = <<>>
  BY <1>1, EmptySeq
<1>3. <<Leave>> \in Seq({Leave}) /\ Len(<<Leave>>) = 1 /\ <<Leave>>[1] = Leave
  OBVIOUS
<1>4. /\ <<Leave>> \o Leaves(n) \in Seq({Leave})
      /\ Len(<<Leave>> \o Leaves(n)) = n + 1
  BY <1>1, <1>3, ConcatProperties
<1>5. \A i \in 1..(n + 1) : (<<Leave>> \o Leaves(n))[i] = Leave
  BY <1>4, ElementOfSeq
<1>6. Leaves(n + 1) = <<Leave>> \o Leaves(n)
  <2>1. n + 1 \in Nat
    OBVIOUS
  <2> QED
    BY <1>1, <1>4, <1>5, <2>1, SeqEqual
<1> QED
  BY <1>1, <1>2, <1>6 DEF IsSeq

-----------------------------------------------------------------------------
\* A configuration from which every run of a thread keeps the discipline.

Safe(x) == \E T : Closed(T) /\ x \in T

LEMMA FitsMore ==
    ASSUME NEW c, NEW g, NEW k, NEW T, NEW U, T \subseteq U, StepFits(c, g, k, T)
    PROVE  StepFits(c, g, k, U)
<1>1. CASE c = <<>>
  BY <1>1 DEF StepFits
<1>2. CASE c # <<>>
  BY <1>2 DEF StepFits
<1> QED
  BY <1>1, <1>2

\* Safe configurations lie in one closed set.
LEMMA SafeTogether ==
    ASSUME NEW D, \A d \in D : Safe(d)
    PROVE  \E T : Closed(T) /\ D \subseteq T
<1> DEFINE TOf(d) == CHOOSE T : Closed(T) /\ d \in T
           T == UNION {TOf(d) : d \in D}
<1>1. ASSUME NEW d \in D PROVE Closed(TOf(d)) /\ d \in TOf(d)
  BY DEF Safe
<1> HIDE DEF TOf
<1>2. D \subseteq T
  BY <1>1
<1>3. ASSUME NEW c, NEW g, NEW k, <<c, g, k>> \in T PROVE StepFits(c, g, k, T)
  <2>1. PICK d \in D : <<c, g, k>> \in TOf(d)
    BY <1>3
  <2>2. StepFits(c, g, k, TOf(d))
    BY <1>1, <2>1 DEF Closed
  <2>3. TOf(d) \subseteq T
    OBVIOUS
  <2> HIDE DEF T
  <2> QED
    BY <2>2, <2>3, FitsMore
<1> HIDE DEF T
<1>4. Closed(T)
  BY <1>3 DEF Closed
<1> QED
  BY <1>2, <1>4

\* A configuration is safe when all that can follow it is.
LEMMA SafeBefore ==
    ASSUME NEW c, NEW g, NEW k, NEW D, \A d \in D : Safe(d), StepFits(c, g, k, D)
    PROVE  Safe(<<c, g, k>>)
<1>1. PICK T : Closed(T) /\ D \subseteq T
  BY SafeTogether
<1> DEFINE U == T \cup {<<c, g, k>>}
<1>2. ASSUME NEW e, NEW h, NEW j, <<e, h, j>> \in U PROVE StepFits(e, h, j, U)
  <2>1. CASE <<e, h, j>> \in T
    <3>1. StepFits(e, h, j, T)
      BY <1>1, <2>1 DEF Closed
    <3>2. T \subseteq U
      OBVIOUS
    <3> HIDE DEF U
    <3> QED
      BY <3>1, <3>2, FitsMore
  <2>2. CASE <<e, h, j>> = <<c, g, k>>
    <3>1. e = c /\ h = g /\ j = k
      BY <2>2
    <3>2. D \subseteq U
      BY <1>1
    <3> HIDE DEF U
    <3> QED
      BY <3>1, <3>2, FitsMore
  <2> QED
    BY <1>2, <2>1, <2>2
<1>3. <<c, g, k>> \in U
  OBVIOUS
<1> HIDE DEF U
<1>4. Closed(U)
  BY <1>2 DEF Closed
<1> QED
  BY <1>3, <1>4 DEF Safe

LEMMA SafeEnd == Safe(<<<<>>, <<>>, <<>>>>)
<1>1. StepFits(<<>>, <<>>, <<>>, {})
  BY DEF StepFits
<1> QED
  BY <1>1, SafeBefore

\* One step of each kind before a rest that is safe after it.
LEMMA SafeLock ==
    ASSUME NEW rest, NEW g, NEW k, NEW l \in LockNames, NEW mode \in Modes, IsSeq(rest),
           Below(g, Rank[l]), Safe(<<rest, Append(g, LockedGuard(l, mode)), k>>)
    PROVE  Safe(<<<<Lock(l, mode)>> \o rest, g, k>>)
<1> DEFINE c == <<Lock(l, mode)>> \o rest
           D == {<<rest, Append(g, LockedGuard(l, mode)), k>>}
<1>1. c # <<>> /\ Head(c) = Lock(l, mode) /\ Tail(c) = rest
  BY OneStep
<1>2. Head(c).op = "lock" /\ Head(c).lock = l /\ Head(c).mode = mode
  BY <1>1, Kinds
<1>3. <<rest, Append(g, LockedGuard(l, mode)), k>> \in D
  OBVIOUS
<1>4. \A d \in D : Safe(d)
  OBVIOUS
<1> HIDE DEF c, D
<1>5. StepFits(c, g, k, D)
  BY <1>1, <1>2, <1>3 DEF StepFits
<1> QED
  BY <1>4, <1>5, SafeBefore DEF c

LEMMA SafeUnlock ==
    ASSUME NEW rest, NEW g, NEW k, IsSeq(rest), g # <<>>, Top(g).m_locked,
           Safe(<<rest, TopUnlocked(g), k>>)
    PROVE  Safe(<<<<Unlock>> \o rest, g, k>>)
<1> DEFINE c == <<Unlock>> \o rest
           D == {<<rest, TopUnlocked(g), k>>}
<1>1. c # <<>> /\ Head(c) = Unlock /\ Tail(c) = rest
  BY OneStep
<1>2. Head(c).op = "unlock"
  BY <1>1, Kinds
<1>3. <<rest, TopUnlocked(g), k>> \in D
  OBVIOUS
<1>4. \A d \in D : Safe(d)
  OBVIOUS
<1> HIDE DEF c, D
<1>5. StepFits(c, g, k, D)
  BY <1>1, <1>2, <1>3 DEF StepFits
<1> QED
  BY <1>4, <1>5, SafeBefore DEF c

LEMMA SafeLeave ==
    ASSUME NEW rest, NEW g, NEW k, IsSeq(rest), g # <<>>, Safe(<<rest, Pop(g), k>>)
    PROVE  Safe(<<<<Leave>> \o rest, g, k>>)
<1> DEFINE c == <<Leave>> \o rest
           D == {<<rest, Pop(g), k>>}
<1>1. c # <<>> /\ Head(c) = Leave /\ Tail(c) = rest
  BY OneStep
<1>2. Head(c).op = "leave"
  BY <1>1, Kinds
<1>3. <<rest, Pop(g), k>> \in D
  OBVIOUS
<1>4. \A d \in D : Safe(d)
  OBVIOUS
<1> HIDE DEF c, D
<1>5. StepFits(c, g, k, D)
  BY <1>1, <1>2, <1>3 DEF StepFits
<1> QED
  BY <1>4, <1>5, SafeBefore DEF c

LEMMA SafeBranch ==
    ASSUME NEW rest, NEW g, NEW k, NEW of, IsSeq(rest), of # {},
           \A a \in of : Safe(<<a \o rest, g, k>>)
    PROVE  Safe(<<<<Branch(of)>> \o rest, g, k>>)
<1> DEFINE c == <<Branch(of)>> \o rest
           D == {<<a \o rest, g, k>> : a \in of}
<1>1. c # <<>> /\ Head(c) = Branch(of) /\ Tail(c) = rest
  BY OneStep
<1>2. Head(c).op = "branch" /\ Head(c).of = of
  BY <1>1, Kinds
<1>3. \A a \in of : <<a \o rest, g, k>> \in D
  OBVIOUS
<1>4. \A d \in D : Safe(d)
  OBVIOUS
<1> HIDE DEF c, D
<1>5. StepFits(c, g, k, D)
  BY <1>1, <1>2, <1>3 DEF StepFits
<1> QED
  BY <1>4, <1>5, SafeBefore DEF c

LEMMA SafeTry ==
    ASSUME NEW rest, NEW g, NEW k, NEW body, NEW handler, IsSeq(rest),
           Safe(<<body \o <<EndTry>> \o rest, g,
                  Append(k, [depth |-> Len(g), code |-> handler \o rest])>>)
    PROVE  Safe(<<<<Try(body, handler)>> \o rest, g, k>>)
<1> DEFINE c == <<Try(body, handler)>> \o rest
           D == {<<body \o <<EndTry>> \o rest, g,
                   Append(k, [depth |-> Len(g), code |-> handler \o rest])>>}
<1>1. c # <<>> /\ Head(c) = Try(body, handler) /\ Tail(c) = rest
  BY OneStep
<1>2. Head(c).op = "try" /\ Head(c).body = body /\ Head(c).handler = handler
  BY <1>1, Kinds
<1>3. <<body \o <<EndTry>> \o rest, g,
                   Append(k, [depth |-> Len(g), code |-> handler \o rest])>> \in D
  OBVIOUS
<1>4. \A d \in D : Safe(d)
  OBVIOUS
<1> HIDE DEF c, D
<1>5. StepFits(c, g, k, D)
  BY <1>1, <1>2, <1>3 DEF StepFits
<1> QED
  BY <1>4, <1>5, SafeBefore DEF c

LEMMA SafeEndTry ==
    ASSUME NEW rest, NEW g, NEW k, IsSeq(rest), Safe(<<rest, g, Pop(k)>>)
    PROVE  Safe(<<<<EndTry>> \o rest, g, k>>)
<1> DEFINE c == <<EndTry>> \o rest
           D == {<<rest, g, Pop(k)>>}
<1>1. c # <<>> /\ Head(c) = EndTry /\ Tail(c) = rest
  BY OneStep
<1>2. Head(c).op = "endtry"
  BY <1>1, Kinds
<1>3. <<rest, g, Pop(k)>> \in D
  OBVIOUS
<1>4. \A d \in D : Safe(d)
  OBVIOUS
<1> HIDE DEF c, D
<1>5. StepFits(c, g, k, D)
  BY <1>1, <1>2, <1>3 DEF StepFits
<1> QED
  BY <1>4, <1>5, SafeBefore DEF c

\* An exception can leave these guards and try blocks.
CanThrow(g, k) ==
    IF k = <<>>
    THEN Safe(<<Leaves(Len(g)), g, k>>)
    ELSE /\ Top(k).depth \in 0..Len(g)
         /\ IsSeq(Top(k).code)
         /\ Safe(<<Leaves(Len(g) - Top(k).depth) \o Top(k).code, g, Pop(k)>>)

LEMMA SafeThrow ==
    ASSUME NEW rest, NEW g, NEW k, IsSeq(rest), CanThrow(g, k)
    PROVE  Safe(<<<<Throw>> \o rest, g, k>>)
<1> DEFINE c == <<Throw>> \o rest
           x == IF k = <<>>
                THEN <<Leaves(Len(g)), g, k>>
                ELSE <<Leaves(Len(g) - Top(k).depth) \o Top(k).code, g, Pop(k)>>
           D == {x}
<1>1. c # <<>> /\ Head(c) = Throw /\ Tail(c) = rest
  BY OneStep
<1>2. Head(c).op = "throw"
  BY <1>1, Kinds
<1> HIDE DEF c
<1>3. StepFits(c, g, k, D)
  BY <1>1, <1>2 DEF StepFits
<1>4. \A d \in D : Safe(d)
  BY DEF CanThrow
<1> HIDE DEF D
<1> QED
  BY <1>3, <1>4, SafeBefore DEF c

-----------------------------------------------------------------------------
\* What holds of code wherever it is put: under any guards that come before
\* r, and before any rest, that are safe without it.

Ready(g, k, rest, r) ==
    /\ g \in Seq(Guard) /\ Below(g, r)
    /\ IsSeq(k) /\ CanThrow(g, k)
    /\ IsSeq(rest) /\ Safe(<<rest, g, k>>)

Does(c, r) ==
    /\ IsSeq(c)
    /\ \A g, k, rest : Ready(g, k, rest, r) => Safe(<<c \o rest, g, k>>)

\* A thread that calls c comes to no harm.
LEMMA DoesCall ==
    ASSUME NEW c, NEW r, Does(c, r)
    PROVE  Safe(<<c, <<>>, <<>>>>)
<1>1. <<>> \in Seq(Guard) /\ Len(<<>>) = 0 /\ IsSeq(<<>>)
  BY EmptySeq DEF IsSeq
<1>2. Below(<<>>, r)
  BY EmptySeq DEF Below
<1>3. CanThrow(<<>>, <<>>)
  BY <1>1, SafeEnd, LeavesGrow DEF CanThrow
<1>4. Ready(<<>>, <<>>, <<>>, r)
  BY <1>1, <1>2, <1>3, SafeEnd DEF Ready
<1>5. Safe(<<c \o <<>>, <<>>, <<>>>>)
  BY <1>4 DEF Does
<1>6. c \o <<>> = c
  BY <1>1, Glue DEF Does
<1> QED
  BY <1>5, <1>6

LEMMA DoesNothing ==
    ASSUME NEW r
    PROVE  Does(<<>>, r)
<1>1. IsSeq(<<>>)
  BY EmptySeq DEF IsSeq
<1>2. \A rest : IsSeq(rest) => <<>> \o rest = rest
  BY <1>1, Glue
<1> QED
  BY <1>1, <1>2 DEF Does, Ready

LEMMA DoesBoth ==
    ASSUME NEW a, NEW b, NEW r, Does(a, r), Does(b, r)
    PROVE  Does(a \o b, r)
<1>1. IsSeq(a) /\ IsSeq(b) /\ IsSeq(a \o b)
  BY Glue DEF Does
<1>2. ASSUME NEW g, NEW k, NEW rest, Ready(g, k, rest, r)
      PROVE  Safe(<<(a \o b) \o rest, g, k>>)
  <2>1. Safe(<<b \o rest, g, k>>)
    BY <1>2 DEF Does
  <2>2. IsSeq(b \o rest) /\ (a \o b) \o rest = a \o (b \o rest)
    BY <1>1, <1>2, Glue DEF Ready
  <2>3. Ready(g, k, b \o rest, r)
    BY <1>2, <2>1, <2>2 DEF Ready
  <2> QED
    BY <2>2, <2>3 DEF Does
<1> QED
  BY <1>1, <1>2 DEF Does

LEMMA BelowMore ==
    ASSUME NEW g \in Seq(Guard), NEW r \in Nat, NEW s \in Nat, r <= s, Below(g, r)
    PROVE  Below(g, s)
<1>1. \A i \in DOMAIN g : g[i] \in Guard
  BY LenProperties, ElementOfSeq
<1>2. \A i \in DOMAIN g : Rank[g[i].lock] \in Nat
  BY <1>1, LocksAssumption DEF Guard
<1> QED
  BY <1>2 DEF Below

\* Code that may run under later locks may run under earlier ones.
LEMMA DoesEarlier ==
    ASSUME NEW c, NEW r \in Nat, NEW s \in Nat, r <= s, Does(c, s)
    PROVE  Does(c, r)
<1>1. ASSUME NEW g, NEW k, NEW rest, Ready(g, k, rest, r)
      PROVE  Ready(g, k, rest, s)
  BY <1>1, BelowMore DEF Ready
<1> QED
  BY <1>1 DEF Does

LEMMA DoesThrow ==
    ASSUME NEW r
    PROVE  Does(<<Throw>>, r)
<1>1. IsSeq(<<Throw>>)
  BY DoesNothing, OneStep DEF Does
<1> QED
  BY <1>1, SafeThrow DEF Does, Ready

LEMMA DoesEither ==
    ASSUME NEW of, NEW r, of # {}, \A a \in of : Does(a, r)
    PROVE  Does(Either(of), r)
<1>1. IsSeq(<<Branch(of)>>)
  BY DoesNothing, OneStep DEF Does
<1>2. ASSUME NEW g, NEW k, NEW rest, Ready(g, k, rest, r)
      PROVE  Safe(<<<<Branch(of)>> \o rest, g, k>>)
  <2>1. IsSeq(rest)
    BY <1>2 DEF Ready
  <2>2. \A a \in of : Safe(<<a \o rest, g, k>>)
    BY <1>2 DEF Does
  <2> QED
    BY <2>1, <2>2, SafeBranch
<1> QED
  BY <1>1, <1>2 DEF Does, Either

LEMMA DoesMaybe ==
    ASSUME NEW c, NEW r, Does(c, r)
    PROVE  Does(Maybe(c), r)
  BY DoesNothing, DoesEither DEF Maybe

\* An exception destroys one guard more.
LEMMA ThrowUnder ==
    ASSUME NEW g, NEW k, NEW x, IsSeq(g), CanThrow(g, k)
    PROVE  CanThrow(Append(g, x), k)
<1> DEFINE h == Append(g, x)
           n == Len(g)
<1>1. h # <<>> /\ Pop(h) = g /\ n \in Nat /\ Len(h) = n + 1
  BY PushPop
<1> HIDE DEF h, n
<1>2. CASE k = <<>>
  <2>1. Leaves(n + 1) = <<Leave>> \o Leaves(n) /\ IsSeq(Leaves(n))
    BY <1>1, LeavesGrow
  <2>2. Safe(<<Leaves(n), g, k>>)
    BY <1>2 DEF CanThrow, n
  <2>3. Safe(<<<<Leave>> \o Leaves(n), h, k>>)
    BY <1>1, <2>1, <2>2, SafeLeave
  <2> QED
    BY <1>1, <1>2, <2>1, <2>3 DEF CanThrow, h
<1>3. CASE k # <<>>
  <2> DEFINE d == Top(k).depth
             e == Top(k).code
  <2>1. d \in 0..n /\ IsSeq(e) /\ Safe(<<Leaves(n - d) \o e, g, Pop(k)>>)
    BY <1>3 DEF CanThrow, n
  <2> HIDE DEF d, e
  <2>2. n - d \in Nat /\ (n + 1) - d = (n - d) + 1 /\ d \in 0..(n + 1)
    BY <1>1, <2>1
  <2>3. Leaves((n + 1) - d) = <<Leave>> \o Leaves(n - d) /\ IsSeq(Leaves(n - d))
    BY <2>2, LeavesGrow
  <2>4. /\ IsSeq(Leaves(n - d) \o e)
        /\ Leaves((n + 1) - d) \o e = <<Leave>> \o (Leaves(n - d) \o e)
    <3>1. IsSeq(<<Leave>>)
      BY <2>1, OneStep
    <3>2. IsSeq(e) /\ IsSeq(Leaves(n - d))
      BY <2>1, <2>3
    <3>3. /\ IsSeq(Leaves(n - d) \o e)
          /\ (<<Leave>> \o Leaves(n - d)) \o e = <<Leave>> \o (Leaves(n - d) \o e)
      BY <3>1, <3>2, Glue
    <3> QED
      BY <2>3, <3>3
  <2>5. Safe(<<<<Leave>> \o (Leaves(n - d) \o e), h, Pop(k)>>)
    BY <1>1, <2>1, <2>4, SafeLeave
  <2> QED
    BY <1>1, <1>3, <2>1, <2>2, <2>4, <2>5 DEF CanThrow, d, e, h
<1> QED
  BY <1>2, <1>3

\* Inside the block of a guard, with its destructor still to come.
LEMMA ReadyInside ==
    ASSUME NEW g, NEW k, NEW rest, NEW l \in LockNames, NEW mode \in Modes,
           Ready(g, k, rest, Rank[l]), NEW r \in Nat, Rank[l] < r
    PROVE  Ready(Append(g, LockedGuard(l, mode)), k, <<Leave>> \o rest, r)
<1> DEFINE x == LockedGuard(l, mode)
           h == Append(g, x)
<1>1. IsSeq(g) /\ g \in Seq(Guard) /\ IsSeq(rest) /\ Rank[l] \in Nat
  BY LocksAssumption DEF Ready, IsSeq
<1>2. x \in Guard /\ x.lock = l
  BY DEF Guard, LockedGuard
<1>3. h # <<>> /\ Pop(h) = g
  BY <1>1, PushPop
<1>4. h \in Seq(Guard)
  BY <1>1, <1>2, AppendProperties
<1>5. Below(h, r)
  <2>1. Below(g, r)
    BY <1>1, BelowMore DEF Ready
  <2>2. /\ DOMAIN h = 1..(Len(g) + 1) /\ DOMAIN g = 1..Len(g) /\ Len(g) \in Nat
        /\ h[Len(g) + 1] = x
        /\ \A i \in 1..Len(g) : h[i] = g[i]
    BY <1>1, <1>2, <1>4, AppendProperties, LenProperties
  <2> HIDE DEF h, x
  <2>3. ASSUME NEW i \in DOMAIN h, h[i].m_locked PROVE Rank[h[i].lock] < r
    <3>1. CASE i = Len(g) + 1
      <4>1. h[i] = x
        BY <2>2, <3>1
      <4> QED
        BY <1>2, <4>1
    <3>2. CASE i # Len(g) + 1
      <4>1. i \in DOMAIN g /\ h[i] = g[i]
        BY <2>2, <3>2
      <4> QED
        BY <2>1, <2>3, <4>1 DEF Below
    <3> QED
      BY <3>1, <3>2
  <2> QED
    BY <2>3 DEF Below
<1>6. CanThrow(h, k)
  BY <1>1, ThrowUnder DEF Ready
<1>7. Safe(<<rest, g, k>>) /\ IsSeq(k)
  BY DEF Ready
<1> HIDE DEF h
<1>8. IsSeq(<<Leave>> \o rest) /\ Safe(<<<<Leave>> \o rest, h, k>>)
  BY <1>1, <1>3, <1>7, SafeLeave, OneStep
<1>9. Ready(h, k, <<Leave>> \o rest, r)
  BY <1>4, <1>5, <1>6, <1>7, <1>8 DEF Ready
<1> QED
  BY <1>9 DEF h

\* A block with its guard.
LEMMA DoesInGuard ==
    ASSUME NEW c, NEW l \in LockNames, NEW mode \in Modes, NEW r \in Nat,
           Rank[l] < r, Does(c, r)
    PROVE  Does(<<Lock(l, mode)>> \o c \o <<Leave>>, Rank[l])
<1>1. IsSeq(c) /\ IsSeq(<<Lock(l, mode)>>) /\ IsSeq(<<Leave>>)
  BY OneStep DEF Does
<1>2. IsSeq(<<Lock(l, mode)>> \o c) /\ IsSeq(<<Lock(l, mode)>> \o c \o <<Leave>>)
  BY <1>1, Glue
<1>3. ASSUME NEW g, NEW k, NEW rest, Ready(g, k, rest, Rank[l])
      PROVE  Safe(<<<<Lock(l, mode)>> \o c \o <<Leave>> \o rest, g, k>>)
  <2> DEFINE h == Append(g, LockedGuard(l, mode))
  <2>1. Ready(h, k, <<Leave>> \o rest, r)
    BY <1>3, ReadyInside
  <2>2. Safe(<<c \o (<<Leave>> \o rest), h, k>>)
    BY <2>1 DEF Does
  <2>3. IsSeq(rest) /\ Below(g, Rank[l])
    BY <1>3 DEF Ready
  <2>4. IsSeq(<<Leave>> \o rest) /\ IsSeq(c \o (<<Leave>> \o rest))
    BY <1>1, <2>3, Glue
  <2>5. Safe(<<<<Lock(l, mode)>> \o (c \o (<<Leave>> \o rest)), g, k>>)
    BY <2>2, <2>3, <2>4, SafeLock
  <2>6. <<Lock(l, mode)>> \o c \o <<Leave>> \o rest =
          <<Lock(l, mode)>> \o (c \o (<<Leave>> \o rest))
    <3>1. <<Lock(l, mode)>> \o c \o <<Leave>> \o rest =
            (<<Lock(l, mode)>> \o c) \o (<<Leave>> \o rest)
      BY <1>1, <1>2, <2>3, Glue
    <3> QED
      BY <1>1, <2>4, <3>1, Glue
  <2> QED
    BY <2>5, <2>6
<1> QED
  BY <1>2, <1>3 DEF Does

\* A try block: what the body or the handler throws is no harm to either.
LEMMA DoesTry ==
    ASSUME NEW body, NEW handler, NEW r, Does(body, r), Does(handler, r)
    PROVE  Does(<<Try(body, handler)>>, r)
<1>1. /\ IsSeq(body) /\ IsSeq(handler)
      /\ IsSeq(<<Try(body, handler)>>) /\ IsSeq(<<EndTry>>)
  BY OneStep DEF Does
<1>2. ASSUME NEW g, NEW k, NEW rest, Ready(g, k, rest, r)
      PROVE  Safe(<<<<Try(body, handler)>> \o rest, g, k>>)
  <2> DEFINE x == [depth |-> Len(g), code |-> handler \o rest]
             j == Append(k, x)
  <2>1. IsSeq(rest) /\ IsSeq(k) /\ IsSeq(g) /\ Safe(<<rest, g, k>>)
    BY <1>2 DEF Ready, IsSeq
  <2>2. j # <<>> /\ Top(j) = x /\ Pop(j) = k /\ IsSeq(j) /\ Len(g) \in Nat
    BY <2>1, PushPop
  <2>3. x.depth = Len(g) /\ x.code = handler \o rest
    OBVIOUS
  <2>4. IsSeq(handler \o rest) /\ Safe(<<handler \o rest, g, k>>)
    BY <1>1, <1>2, <2>1, Glue DEF Does
  <2> HIDE DEF x, j
  <2>5. CanThrow(g, j)
    <3>1. Len(g) - Len(g) = 0 /\ Len(g) \in 0..Len(g)
      BY <2>2
    <3>2. Leaves(0) \o (handler \o rest) = handler \o rest
      BY <2>4, LeavesGrow, Glue
    <3> QED
      BY <2>2, <2>3, <2>4, <3>1, <3>2 DEF CanThrow
  <2>6. IsSeq(<<EndTry>> \o rest) /\ Safe(<<<<EndTry>> \o rest, g, j>>)
    BY <2>1, <2>2, SafeEndTry, OneStep
  <2>7. Ready(g, j, <<EndTry>> \o rest, r)
    BY <1>2, <2>2, <2>5, <2>6 DEF Ready
  <2>8. Safe(<<body \o (<<EndTry>> \o rest), g, j>>)
    BY <2>7 DEF Does
  <2>9. body \o <<EndTry>> \o rest = body \o (<<EndTry>> \o rest)
    BY <1>1, <2>1, Glue
  <2> QED
    BY <2>1, <2>8, <2>9, SafeTry DEF j, x
<1> QED
  BY <1>1, <1>2 DEF Does

\* Whatever the calls of a program are: if each by itself keeps the order,
\* undoes its guards and returns or throws, then any number of threads that
\* make them keep it together and never all wait for each other
\* (the scope guards of mutex.h:18-112).
THEOREM CallsCompose ==
    ASSUME \A c \in Calls \cup {ErrorLog} : Safe(<<c, <<>>, <<>>>>)
    PROVE  Spec => [](LockOrder /\ NothingHeld /\ NoDeadlock)
<1> DEFINE D == {<<c, <<>>, <<>>>> : c \in Calls \cup {ErrorLog}} \cup {<<<<>>, <<>>, <<>>>>}
<1>1. \A d \in D : Safe(d)
  BY SafeEnd
<1>2. /\ <<<<>>, <<>>, <<>>>> \in D
      /\ \A c \in Calls \cup {ErrorLog} : <<c, <<>>, <<>>>> \in D
  OBVIOUS
<1> HIDE DEF D
<1>3. PICK T : Closed(T) /\ D \subseteq T
  BY <1>1, SafeTogether
<1>4. Begins(T)
  BY <1>2, <1>3 DEF Begins
<1> QED
  BY <1>4, OrderedWithin

-----------------------------------------------------------------------------
\* The calls of this program, in the order LockRank.

TheseLocks == LockNames = AllLocks /\ Rank = LockRank

Loggers == {"root", "app"}

LEMMA Ranks ==
    ASSUME TheseLocks
    PROVE  /\ \A l \in {"scheduler", "registry"} : l \in LockNames /\ Rank[l] = 0
           /\ \A l \in Variables : l \in LockNames /\ Rank[l] = 1
           /\ "manager" \in LockNames /\ Rank["manager"] = 2
           /\ \A l \in Loggers : l \in LockNames /\ Rank[l] = 3
           /\ \A l \in {"console", "file"} : l \in LockNames /\ Rank[l] = 4
  BY DEF TheseLocks, AllLocks, LockRank, Variables, Loggers

LEMMA DoesLocked ==
    ASSUME NEW c, NEW l \in LockNames, NEW s \in Nat, NEW r \in Nat,
           s <= Rank[l], Rank[l] < r, Does(c, r)
    PROVE  Does(Locked(l, c), s) /\ Does(ReadLocked(l, c), s)
<1>1. Rank[l] \in Nat /\ "read" \in Modes /\ "write" \in Modes
  BY LocksAssumption DEF Modes
<1>2. Does(Locked(l, c), Rank[l]) /\ Does(ReadLocked(l, c), Rank[l])
  BY <1>1, DoesInGuard DEF Locked, ReadLocked
<1> QED
  BY <1>1, <1>2, DoesEarlier

\* The appenders.
LEMMA DoesAppenders ==
    ASSUME TheseLocks, NEW logger
    PROVE  Does(ConsoleLog(logger), 4) /\ Does(FileLog(logger), 4)
<1>1. Does(GetName(logger), 5) /\ Does(<<>>, 5)
  BY DoesNothing DEF GetName
<1>2. Does(Locked("console", GetName(logger)), 4)
  BY <1>1, Ranks, DoesLocked
<1>3. Does(Locked("file", GetName(logger)), 4) /\ Does(Reopen, 4)
  BY <1>1, Ranks, DoesLocked DEF Reopen
<1>4. Does(Maybe(Reopen) \o Locked("file", GetName(logger)), 4)
  BY <1>3, DoesMaybe, DoesBoth
<1> QED
  BY <1>2, <1>4, DoesMaybe DEF ConsoleLog, FileLog

\* The loggers.
LEMMA DoesLoggers ==
    ASSUME TheseLocks, NEW logger \in Loggers
    PROVE  /\ Does(LoggerLog(logger), 3)
           /\ Does(GetLevel(logger), 3)
           /\ Does(SetLevel(logger), 3)
           /\ Does(ClearAppenders(logger), 3)
           /\ Does(AddAppender(logger), 3)
<1>1. /\ logger \in LockNames /\ Rank[logger] = 3
      /\ "root" \in LockNames /\ Rank["root"] = 3
  BY Ranks DEF Loggers
<1>2. Does(<<>>, 4)
  BY DoesNothing
<1>3. Does(Locked(logger, <<>>), 3)
  BY <1>1, <1>2, DoesLocked
<1>4. Does(RootLoggerLog, 3)
  BY <1>1, DoesAppenders, DoesLocked DEF RootLoggerLog
<1>5. Does(Locked(logger, FileLog(logger)), 3)
  BY <1>1, DoesAppenders, DoesLocked
<1>6. Does(LoggerLog(logger), 3)
  <2>1. Does(Either({Locked(logger, FileLog(logger)), RootLoggerLog}), 3)
    BY <1>4, <1>5, DoesEither
  <2> QED
    BY <1>4, <2>1 DEF LoggerLog
<1> QED
  BY <1>3, <1>6 DEF GetLevel, SetLevel, ClearAppenders, AddAppender

\* The logging macro.
LEMMA DoesLogTo ==
    ASSUME TheseLocks, NEW logger \in Loggers, NEW find, NEW shown, NEW r \in 0..3,
           Does(find, r), Does(shown, r)
    PROVE  Does(LogTo(find, logger, shown), r)
<1>1. Does(GetLevel(logger), r) /\ Does(LoggerLog(logger), r)
  BY DoesLoggers, DoesEarlier
<1>2. Does(find \o shown \o LoggerLog(logger), r)
  BY <1>1, DoesBoth
<1>3. Does(find \o GetLevel(logger), r) /\ Does(Maybe(find \o shown \o LoggerLog(logger)), r)
  BY <1>1, <1>2, DoesBoth, DoesMaybe
<1> QED
  BY <1>3, DoesBoth DEF LogTo

LEMMA DoesLogCalls ==
    ASSUME TheseLocks
    PROVE  /\ Does(GetRoot, 2) /\ Does(GetLogger, 2)
           /\ Does(LogRoot, 2) /\ Does(LogSystem, 3)
           /\ Does(ManagerYaml, 2)
           /\ Does(OnLogConfig, 2)
<1> USE DEF Loggers
<1>1. \A r : Does(<<>>, r)
  BY DoesNothing
<1>2. Does(GetRoot, 2) /\ Does(GetLogger, 2)
  BY <1>1, Ranks, DoesLocked DEF GetRoot, GetLogger
<1>3. Does(LogRoot, 2)
  BY <1>1, <1>2, DoesLogTo DEF LogRoot
<1>4. Does(LogSystem, 3)
  BY <1>1, DoesLogTo DEF LogSystem
<1>5. Does(ManagerYaml, 2)
  <2>1. Does(AppenderYaml("file"), 4) /\ Does(AppenderYaml("console"), 4)
    <3>1. Does(<<>>, 5)
      BY <1>1
    <3> QED
      BY <3>1, Ranks, DoesLocked DEF AppenderYaml
  <2>2. Does(LoggerYaml("app", "file"), 3) /\ Does(LoggerYaml("root", "console"), 3)
    BY <2>1, Ranks, DoesMaybe, DoesLocked DEF LoggerYaml
  <2>3. Does(LoggerYaml("app", "file") \o LoggerYaml("root", "console"), 3)
    BY <2>2, DoesBoth
  <2> QED
    BY <2>3, Ranks, DoesLocked DEF ManagerYaml
<1>6. Does(OnLogConfig, 2)
  <2> DEFINE SetUp(g) == GetLogger \o SetLevel(g) \o ClearAppenders(g) \o Maybe(AddAppender(g))
             of == {<<>>} \cup {SetUp(g) : g \in {"root", "app"}}
  <2>1. ASSUME NEW g \in {"root", "app"} PROVE Does(SetUp(g), 2)
    <3>1. Does(SetLevel(g), 2) /\ Does(ClearAppenders(g), 2) /\ Does(AddAppender(g), 2)
      BY DoesLoggers, DoesEarlier
    <3>2. Does(GetLogger \o SetLevel(g), 2)
      BY <1>2, <3>1, DoesBoth
    <3>3. Does(GetLogger \o SetLevel(g) \o ClearAppenders(g), 2)
      BY <3>1, <3>2, DoesBoth
    <3> QED
      BY <3>1, <3>3, DoesMaybe, DoesBoth
  <2> HIDE DEF SetUp
  <2>2. of # {} /\ \A a \in of : Does(a, 2)
    BY <1>1, <2>1
  <2> HIDE DEF of
  <2>3. Does(Either(of), 2)
    BY <2>2, DoesEither
  <2> QED
    BY <1>3, <2>3, DoesBoth DEF OnLogConfig, of, SetUp
<1> QED
  BY <1>2, <1>3, <1>4, <1>5, <1>6

\* A guard unlocked by hand is still the one that is destroyed next.
LEMMA PopUnlocked ==
    ASSUME NEW g \in Seq(Guard), NEW l \in LockNames, NEW mode \in Modes
    PROVE  LET h == TopUnlocked(Append(g, LockedGuard(l, mode)))
           IN  h # <<>> /\ Pop(h) = g
<1> DEFINE x == LockedGuard(l, mode)
           y == [x EXCEPT !.m_locked = FALSE]
           a == Append(g, x)
           n == Len(g) + 1
           h == [a EXCEPT ![n] = y]
<1>1. x \in Guard /\ y \in Guard
  BY DEF Guard, LockedGuard
<1>2. /\ a \in Seq(Guard) /\ Len(g) \in Nat /\ Len(a) = n
      /\ a[n] = x
      /\ \A i \in 1..Len(g) : a[i] = g[i]
  BY <1>1, AppendProperties, LenProperties
<1>3. TopUnlocked(a) = h
  BY <1>2 DEF TopUnlocked
<1> HIDE DEF a, x, y
<1>4. /\ h \in Seq(Guard) /\ Len(h) = n
      /\ \A i \in 1..n : h[i] = IF i = n THEN y ELSE a[i]
  BY <1>1, <1>2, ExceptSeq
<1> HIDE DEF h
<1>5. h # <<>>
  BY <1>2, <1>4, EmptySeq
<1>6. Pop(h) = SubSeq(h, 1, Len(g))
  BY <1>2, <1>4 DEF Pop
<1>7. \A i \in 1..Len(g) : h[i] \in Guard /\ h[i] = g[i]
  BY <1>2, <1>4, ElementOfSeq
<1>8. /\ Pop(h) \in Seq(Guard)
      /\ Len(Pop(h)) = Len(g)
      /\ \A i \in 1..Len(g) : Pop(h)[i] = g[i]
  BY <1>2, <1>6, <1>7, SubSeqProperties
<1>9. Pop(h) = g
  BY <1>8, SeqEqual
<1> QED
  BY <1>3, <1>5, <1>9 DEF a, x

\* setValue() leaves its read block before it takes the lock to store: the
\* read block has two ends.
LEMMA DoesSetValue ==
    ASSUME TheseLocks, NEW v \in Variables
    PROVE  Does(Notify(v), 2) /\ Does(SetValue(v), 1)
<1>1. v \in LockNames /\ Rank[v] = 1 /\ "read" \in Modes
  BY Ranks DEF Modes
<1>2. Does(<<>>, 2) /\ Does(<<Throw>>, 2) /\ Does(LogRoot, 2) /\ Does(OnLogConfig, 2)
  BY DoesNothing, DoesThrow, DoesLogCalls
<1>3. Does(Notify(v), 2)
  <2>1. Does(Either({<<>>, LogRoot, <<Throw>>}), 2)
    BY <1>2, DoesEither
  <2> QED
    BY <1>2, <2>1 DEF Notify
<1>4. Does(WriteLocked(v, <<>>), 1)
  BY <1>1, <1>2, DoesLocked DEF WriteLocked
<1> DEFINE inside == Notify(v) \o <<Leave>> \o WriteLocked(v, <<>>)
           of == {<<Leave>>, inside}
<1>5. /\ IsSeq(Notify(v)) /\ IsSeq(<<Leave>>) /\ IsSeq(WriteLocked(v, <<>>))
      /\ IsSeq(<<Lock(v, "read")>>) /\ IsSeq(<<Branch(of)>>)
  BY <1>3, <1>4, OneStep DEF Does
<1>6. SetValue(v) = <<Lock(v, "read")>> \o <<Branch(of)>>
  BY DEF SetValue
<1> HIDE DEF of
<1>7. ASSUME NEW g, NEW k, NEW rest, Ready(g, k, rest, 1)
      PROVE  Safe(<<SetValue(v) \o rest, g, k>>)
  <2> DEFINE h == Append(g, LockedGuard(v, "read"))
             store == WriteLocked(v, <<>>) \o rest
  <2>1. Ready(h, k, <<Leave>> \o rest, 2) /\ IsSeq(rest)
    <3>1. Ready(h, k, <<Leave>> \o rest, 2)
      BY <1>1, <1>7, ReadyInside
    <3> QED
      BY <1>7, <3>1 DEF Ready
  <2>2. Safe(<<<<Leave>> \o rest, h, k>>)
    BY <2>1 DEF Ready
  <2>3. Safe(<<store, g, k>>) /\ IsSeq(store)
    BY <1>4, <1>5, <1>7, <2>1, Glue DEF Does
  <2>4. Ready(g, k, store, 1)
    BY <1>7, <2>3 DEF Ready
  <2> HIDE DEF store, h
  <2>5. Ready(h, k, <<Leave>> \o store, 2)
    BY <1>1, <2>4, ReadyInside DEF h
  <2>6. Safe(<<Notify(v) \o (<<Leave>> \o store), h, k>>)
    BY <1>3, <2>5 DEF Does
  <2>7. inside \o rest = Notify(v) \o (<<Leave>> \o store)
    <3>1. IsSeq(Notify(v) \o <<Leave>>)
      BY <1>5, Glue
    <3>2. inside \o rest = (Notify(v) \o <<Leave>>) \o store
      BY <1>5, <2>1, <3>1, Glue DEF store
    <3> QED
      BY <1>5, <2>3, <3>2, Glue
  <2> HIDE DEF inside
  <2>8. of # {} /\ \A a \in of : Safe(<<a \o rest, h, k>>)
    BY <2>2, <2>6, <2>7 DEF of
  <2>9. Safe(<<<<Branch(of)>> \o rest, h, k>>) /\ IsSeq(<<Branch(of)>> \o rest)
    BY <1>5, <2>1, <2>8, SafeBranch, Glue
  <2>10. Safe(<<<<Lock(v, "read")>> \o (<<Branch(of)>> \o rest), g, k>>)
    BY <1>1, <1>7, <2>9, SafeLock DEF h, Ready
  <2>11. SetValue(v) \o rest = <<Lock(v, "read")>> \o (<<Branch(of)>> \o rest)
    BY <1>5, <1>6, <2>1, Glue
  <2> QED
    BY <2>10, <2>11
<1>8. IsSeq(SetValue(v))
  BY <1>5, <1>6, Glue
<1> QED
  BY <1>3, <1>7, <1>8 DEF Does

LEMMA DoesVariableCalls ==
    ASSUME TheseLocks, NEW v \in Variables
    PROVE  /\ Does(FromString(v), 1) /\ Does(VarToString(v), 1)
           /\ Does(ChangeListeners(v), 1) /\ Does(GetListener(v), 1)
<1>1. v \in LockNames /\ Rank[v] = 1
  BY Ranks
<1>2. \A r : Does(<<>>, r) /\ Does(<<Throw>>, r)
  BY DoesNothing, DoesThrow
<1>3. Does(LogRoot, 2)
  BY DoesLogCalls
<1>4. Does(LogRoot, 1)
  BY <1>3, DoesEarlier
<1>5. Does(FromString(v), 1)
  <2>1. Does(Either({<<Throw>>, SetValue(v)}), 1)
    BY <1>2, DoesSetValue, DoesEither
  <2> QED
    BY <1>4, <2>1, DoesTry DEF FromString
<1>6. Does(VarToString(v), 1)
  <2>1. Does(Either({<<>>, <<Throw>>}), 2)
    BY <1>2, DoesEither
  <2>2. Does(ReadLocked(v, Either({<<>>, <<Throw>>})), 1)
    BY <1>1, <2>1, DoesLocked
  <2> QED
    BY <1>4, <2>2, DoesTry DEF VarToString
<1>7. Does(ChangeListeners(v), 1) /\ Does(GetListener(v), 1)
  <2>1. Does(<<>>, 2)
    BY <1>2
  <2> QED
    BY <1>1, <2>1, DoesLocked DEF ChangeListeners, GetListener, WriteLocked
<1> QED
  BY <1>5, <1>6, <1>7

LEMMA DoesRegistryCalls ==
    ASSUME TheseLocks, NEW c \in RegistryCalls
    PROVE  Does(c, 0)
<1>1. "registry" \in LockNames /\ Rank["registry"] = 0
  BY Ranks
<1>2. \A r : Does(<<>>, r) /\ Does(<<Throw>>, r)
  BY DoesNothing, DoesThrow
<1>3. Does(LogRoot, 2) /\ Does(GetRoot, 2)
  BY DoesLogCalls
<1>4. Does(LogRoot, 1) /\ Does(GetRoot, 1) /\ Does(LogRoot, 0)
  BY <1>3, DoesEarlier
<1>5. Does(LogVariable, 1)
  <2>1. ASSUME NEW v \in Variables
        PROVE  Does(LogTo(GetRoot, "root", VarToString(v)), 1)
    BY <1>4, DoesVariableCalls, DoesLogTo DEF Loggers
  <2> DEFINE of == {LogTo(GetRoot, "root", VarToString(v)) : v \in Variables}
  <2>2. of # {} /\ \A a \in of : Does(a, 1)
    BY <2>1 DEF Variables
  <2> HIDE DEF of
  <2>3. Does(Either(of), 1)
    BY <2>2, DoesEither
  <2> QED
    BY <2>3 DEF LogVariable, of
<1>6. Does(LookupOrCreate, 0)
  <2>1. Does(LogRoot \o <<Throw>>, 1)
    BY <1>2, <1>4, DoesBoth
  <2>2. Does(Either({LogRoot, LogVariable, LogRoot \o <<Throw>>, <<>>}), 1)
    BY <1>2, <1>4, <1>5, <2>1, DoesEither
  <2> QED
    BY <1>1, <2>2, DoesLocked DEF LookupOrCreate, WriteLocked
<1>7. Does(LookupBase, 0)
  <2>1. Does(<<>>, 1)
    BY <1>2
  <2> QED
    BY <1>1, <2>1, DoesLocked DEF LookupBase
<1>8. Does(Visit, 0)
  BY <1>1, <1>5, DoesMaybe, DoesLocked DEF Visit
<1>9. Does(LoadFromYaml, 0)
  <2> DEFINE Load(v) == LookupBase \o Maybe(FromString(v))
             of == {LogRoot} \cup {Load(v) : v \in Variables}
  <2>1. ASSUME NEW v \in Variables PROVE Does(Load(v), 0)
    <3>1. Does(FromString(v), 0)
      BY DoesVariableCalls, DoesEarlier
    <3> QED
      BY <1>7, <3>1, DoesMaybe, DoesBoth
  <2> HIDE DEF Load
  <2>2. of # {} /\ \A a \in of : Does(a, 0)
    BY <1>4, <2>1
  <2> HIDE DEF of
  <2>3. Does(Either(of), 0)
    BY <2>2, DoesEither
  <2> QED
    BY <2>3 DEF LoadFromYaml, of, Load
<1> QED
  BY <1>6, <1>7, <1>8, <1>9 DEF RegistryCalls

\* start() returns out of its block, gives its lock up by hand, or throws
\* under it.
LEMMA DoesSchedulerCalls ==
    ASSUME TheseLocks
    PROVE  Does(StartScheduler, 0) /\ Does(Schedule, 0)
<1>1. "scheduler" \in LockNames /\ Rank["scheduler"] = 0 /\ "write" \in Modes
  BY Ranks DEF Modes
<1>2. Does(<<>>, 1) /\ Does(LogSystem, 3)
  BY DoesNothing, DoesLogCalls
<1>3. Does(LogSystem, 0) /\ Does(LogSystem, 1)
  BY <1>2, DoesEarlier
<1>4. Does(Schedule, 0)
  <2>1. Does(Locked("scheduler", <<>>), 0)
    BY <1>1, <1>2, DoesLocked
  <2> QED
    BY <1>3, <2>1, DoesMaybe, DoesBoth DEF Schedule
<1> DEFINE fails == LogSystem \o <<Throw>>
           of == {<<Leave>>, <<Unlock, Leave>>, fails}
           enter == <<Lock("scheduler", "write")>>
<1>5. /\ IsSeq(LogSystem) /\ IsSeq(<<Leave>>) /\ IsSeq(<<Unlock>>) /\ IsSeq(<<Throw>>)
      /\ IsSeq(enter) /\ IsSeq(<<Branch(of)>>)
  BY <1>2, OneStep DEF Does
<1>6. StartScheduler = enter \o <<Branch(of)>>
  <2>1. StartScheduler = <<Lock("scheduler", "write"), Branch(of)>>
    BY DEF StartScheduler
  <2> HIDE DEF of
  <2> QED
    BY <2>1
<1>b. <<Unlock, Leave>> = <<Unlock>> \o <<Leave>>
  BY TwoSteps
<1> HIDE DEF of, enter
<1>7. ASSUME NEW g, NEW k, NEW rest, Ready(g, k, rest, 0)
      PROVE  Safe(<<StartScheduler \o rest, g, k>>)
  <2> DEFINE x == LockedGuard("scheduler", "write")
             h == Append(g, x)
  <2>1. Ready(h, k, <<Leave>> \o rest, 1)
    BY <1>1, <1>7, ReadyInside
  <2>2. /\ IsSeq(rest) /\ IsSeq(<<Leave>> \o rest) /\ IsSeq(<<Throw>> \o rest)
        /\ IsSeq(g) /\ g \in Seq(Guard) /\ Safe(<<rest, g, k>>)
    BY <1>5, <1>7, Glue DEF Ready, IsSeq
  <2>3. Safe(<<<<Leave>> \o rest, h, k>>)
    BY <2>1 DEF Ready
  <2>4. Safe(<<<<Unlock, Leave>> \o rest, h, k>>)
    <3>1. h # <<>> /\ Top(h) = x /\ x.m_locked
      BY <2>2, PushPop DEF LockedGuard
    <3>2. TopUnlocked(h) # <<>> /\ Pop(TopUnlocked(h)) = g
      BY <1>1, <2>2, PopUnlocked
    <3>3. Safe(<<<<Leave>> \o rest, TopUnlocked(h), k>>)
      BY <2>2, <3>2, SafeLeave
    <3> HIDE DEF h
    <3>4. Safe(<<<<Unlock>> \o (<<Leave>> \o rest), h, k>>)
      BY <2>2, <3>1, <3>3, SafeUnlock
    <3>5. <<Unlock, Leave>> \o rest = <<Unlock>> \o (<<Leave>> \o rest)
      BY <1>5, <1>b, <2>2, Glue
    <3> QED
      BY <3>4, <3>5
  <2>5. Safe(<<fails \o rest, h, k>>)
    <3>1. Safe(<<<<Throw>> \o rest, h, k>>)
      BY <2>1, <2>2, SafeThrow DEF Ready
    <3>2. Ready(h, k, <<Throw>> \o rest, 1)
      BY <2>1, <2>2, <3>1 DEF Ready
    <3>3. Safe(<<LogSystem \o (<<Throw>> \o rest), h, k>>)
      BY <1>3, <3>2 DEF Does
    <3>4. fails \o rest = LogSystem \o (<<Throw>> \o rest)
      BY <1>5, <2>2, Glue
    <3> HIDE DEF h, fails
    <3> QED
      BY <3>3, <3>4
  <2> HIDE DEF h, fails
  <2>6. of # {} /\ \A a \in of : Safe(<<a \o rest, h, k>>)
    BY <2>3, <2>4, <2>5 DEF of
  <2>7. Safe(<<<<Branch(of)>> \o rest, h, k>>) /\ IsSeq(<<Branch(of)>> \o rest)
    BY <1>5, <2>2, <2>6, SafeBranch, Glue
  <2>8. Safe(<<enter \o (<<Branch(of)>> \o rest), g, k>>)
    BY <1>1, <1>7, <2>7, SafeLock DEF h, Ready, enter
  <2>9. StartScheduler \o rest = enter \o (<<Branch(of)>> \o rest)
    BY <1>5, <1>6, <2>2, Glue
  <2> QED
    BY <2>8, <2>9
<1>8. IsSeq(StartScheduler)
  BY <1>5, <1>6, Glue
<1> QED
  BY <1>4, <1>7, <1>8 DEF Does

LEMMA DoesPublicCalls ==
    ASSUME TheseLocks, NEW c \in PublicCalls \cup {LogSystem}
    PROVE  Does(c, 0)
<1>1. ASSUME NEW v \in Variables
      PROVE  /\ Does(SetValue(v), 0) /\ Does(FromString(v), 0) /\ Does(VarToString(v), 0)
             /\ Does(ChangeListeners(v), 0) /\ Does(GetListener(v), 0)
  BY DoesSetValue, DoesVariableCalls, DoesEarlier
<1>2. CASE c \in VariableCalls
  BY <1>1, <1>2 DEF VariableCalls
<1>3. CASE c \in LogCalls \cup {LogSystem}
  BY <1>3, DoesLogCalls, DoesEarlier DEF LogCalls
<1>4. CASE c \in RegistryCalls
  BY <1>4, DoesRegistryCalls
<1>5. CASE c \in SchedulerCalls
  BY <1>5, DoesSchedulerCalls DEF SchedulerCalls
<1> QED
  BY <1>2, <1>3, <1>4, <1>5 DEF PublicCalls

\* A program whose threads make the calls of this library, in any number.
LibraryProgram ==
    TheseLocks /\ Calls \subseteq PublicCalls /\ ErrorLog = LogSystem

LEMMA LibraryCompose ==
    ASSUME LibraryProgram
    PROVE  Spec => [](LockOrder /\ NothingHeld /\ NoDeadlock)
<1>1. ASSUME NEW c \in Calls \cup {ErrorLog} PROVE Safe(<<c, <<>>, <<>>>>)
  <2>1. Does(c, 0)
    BY DoesPublicCalls DEF LibraryProgram
  <2> QED
    BY <2>1, DoesCall
<1> QED
  BY <1>1, CallsCompose

\* The locks of the library are taken in one order by every public call, the
\* logging and the listeners under them included, in any number of threads
\* (config.h:309-345, log.cpp:41-57 and 525-533, scheduler.cpp:51-65).
THEOREM LibraryKeepsOrder ==
    ASSUME LibraryProgram
    PROVE  Spec => []LockOrder
<1>1. Spec => [](LockOrder /\ NothingHeld /\ NoDeadlock)
  BY LibraryCompose
<1>2. LockOrder /\ NothingHeld /\ NoDeadlock => LockOrder
  OBVIOUS
<1> QED
  BY <1>1, <1>2, PTL

\* No public call leaves a lock held or a try block open, whether it returns
\* or throws, out of a listener or a conversion too (mutex.h:18-112).
THEOREM LibraryReleases ==
    ASSUME LibraryProgram
    PROVE  Spec => []NothingHeld
<1>1. Spec => [](LockOrder /\ NothingHeld /\ NoDeadlock)
  BY LibraryCompose
<1>2. LockOrder /\ NothingHeld /\ NoDeadlock => NothingHeld
  OBVIOUS
<1> QED
  BY <1>1, <1>2, PTL

\* However many threads call the library, they never all wait for each
\* other's locks (mutex.h:113-229).
THEOREM LibraryNeverStuck ==
    ASSUME LibraryProgram
    PROVE  Spec => []NoDeadlock
<1>1. Spec => [](LockOrder /\ NothingHeld /\ NoDeadlock)
  BY LibraryCompose
<1>2. LockOrder /\ NothingHeld /\ NoDeadlock => NoDeadlock
  OBVIOUS
<1> QED
  BY <1>1, <1>2, PTL
=============================================================================
