-------------------------- MODULE LogSystemProofs --------------------------
(***************************************************************************)
(* TypeOK, WrittenAsDesigned, LoggersMatchConfig and DumpReloads of        *)
(* LogSystem, for any number of loggers, clients, events and documents.    *)
(*                                                                         *)
(* The first part is about Kept, the loops that pass over some elements:   *)
(* its values are computed from left to right, so what is true of the      *)
(* empty prefix and carried over by one element is true of the sequence.   *)
(***************************************************************************)
EXTENDS LogSystem, SequenceTheorems, WellFoundedInduction, TLAPS

LEMMA Least ==
    ASSUME NEW S \in SUBSET Nat, S # {}
    PROVE  \E x \in S : \A y \in S : x <= y
<1>1. PICK x \in S : \A y \in S : ~(<<y, x>> \in OpToRel(<,Nat))
      BY NatLessThanWellFounded, WFMin, Zenon
<1>2. \A y \in S : ~(y < x)
      BY <1>1 DEF OpToRel
<1>3. \A y \in S : x <= y
      BY <1>2
<1>4. QED  BY <1>3

\* What holds of 0 and is carried from each number to the next, up to n.
LEMMA CountUp ==
    ASSUME NEW n \in Nat, NEW S, 0 \in S, \A i \in 0..(n - 1) : i \in S => i + 1 \in S
    PROVE  \A i \in 0..n : i \in S
<1> DEFINE bad == {i \in 0..n : i \notin S}
<1> SUFFICES ASSUME bad # {} PROVE FALSE
    OBVIOUS
<1>1. bad \in SUBSET Nat
      OBVIOUS
<1>2. PICK x \in bad : \A y \in bad : x <= y
  <2> HIDE DEF bad
  <2>1. QED  BY <1>1, Least
<1>3. x - 1 \in 0..(n - 1) /\ x - 1 \notin bad
      BY <1>2
<1>4. QED  BY <1>3

-----------------------------------------------------------------------------
\* f[i] is what is kept of the first i elements of s.
IsKept(f, s, S, n) ==
    f = [i \in 0..n |->
           IF i = 0 THEN <<>>
           ELSE IF s[i] \in S THEN Append(f[i - 1], s[i]) ELSE f[i - 1]]

LEMMA KeptSteps ==
    ASSUME NEW f, NEW s, NEW S, NEW n \in Nat, IsKept(f, s, S, n)
    PROVE  /\ f[0] = <<>>
           /\ \A i \in 1..n :
                 f[i] = IF s[i] \in S THEN Append(f[i - 1], s[i]) ELSE f[i - 1]
<1> DEFINE F(i) == IF i = 0 THEN <<>>
                   ELSE IF s[i] \in S THEN Append(f[i - 1], s[i]) ELSE f[i - 1]
<1>1. f = [i \in 0..n |-> F(i)]
      BY DEF IsKept
<1> HIDE DEF F
<1>2. \A i \in 0..n : f[i] = F(i)
      BY <1>1
<1>3. QED  BY <1>2 DEF F

LEMMA KeptBy ==
    ASSUME NEW T, NEW s \in Seq(T), NEW S
    PROVE  \E f : /\ IsKept(f, s, S, Len(s))
                  /\ Kept(s, S) = f[Len(s)]
<1> DEFINE has == {n \in 0..Len(s) : \E f : IsKept(f, s, S, n)}
<1>1. 0 \in has
  <2> DEFINE g == [i \in 0..0 |-> <<>>]
             h == [i \in 0..0 |->
                     IF i = 0 THEN <<>>
                     ELSE IF s[i] \in S THEN Append(g[i - 1], s[i]) ELSE g[i - 1]]
  <2>1. g = h
    <3>1. \A i \in 0..0 : h[i] = <<>>
          OBVIOUS
    <3>2. h = [i \in 0..0 |-> h[i]]
          OBVIOUS
    <3> HIDE DEF h
    <3>3. QED  BY <3>1, <3>2
  <2> HIDE DEF g
  <2>2. IsKept(g, s, S, 0)
        BY <2>1 DEF IsKept
  <2>3. QED  BY <2>2
<1>2. ASSUME NEW n \in 0..(Len(s) - 1), n \in has PROVE n + 1 \in has
  <2>1. PICK f : IsKept(f, s, S, n)
        BY <1>2
  <2> DEFINE next == IF s[n + 1] \in S THEN Append(f[n], s[n + 1]) ELSE f[n]
             g == [i \in 0..(n + 1) |-> IF i = n + 1 THEN next ELSE f[i]]
  <2>2. /\ f[0] = <<>>
        /\ \A i \in 1..n : f[i] = IF s[i] \in S THEN Append(f[i - 1], s[i]) ELSE f[i - 1]
        BY <2>1, KeptSteps
  <2> DEFINE h == [i \in 0..(n + 1) |->
                     IF i = 0 THEN <<>>
                     ELSE IF s[i] \in S THEN Append(g[i - 1], s[i]) ELSE g[i - 1]]
  <2>3. ASSUME NEW i \in 0..(n + 1) PROVE g[i] = h[i]
    <3>1. CASE i = 0
          BY <3>1, <2>2
    <3>2. CASE i \in 1..n
      <4>1. g[i] = f[i] /\ g[i - 1] = f[i - 1]
            BY <3>2
      <4>2. h[i] = IF s[i] \in S THEN Append(g[i - 1], s[i]) ELSE g[i - 1]
            BY <3>2
      <4> HIDE DEF g, h
      <4>3. QED  BY <3>2, <4>1, <4>2, <2>2
    <3>3. CASE i = n + 1
      <4>1. g[i] = next /\ g[i - 1] = f[n]
            BY <3>3
      <4> HIDE DEF g
      <4>2. QED  BY <3>3, <4>1
    <3>4. QED  BY <3>1, <3>2, <3>3
  <2>4. g = h
    <3>1. g = [i \in 0..(n + 1) |-> g[i]] /\ h = [i \in 0..(n + 1) |-> h[i]]
          OBVIOUS
    <3> HIDE DEF g, h
    <3>2. QED  BY <2>3, <3>1
  <2>5. IsKept(g, s, S, n + 1)
        BY <2>4 DEF IsKept
  <2> HIDE DEF g
  <2>6. QED  BY <2>5
<1>3. Len(s) \in has
  <2>1. Len(s) \in Nat
        OBVIOUS
  <2> HIDE DEF has
  <2>2. \A i \in 0..Len(s) : i \in has
        BY <1>1, <1>2, <2>1, CountUp
  <2>3. QED  BY <2>1, <2>2
<1>4. PICK f : f = CHOOSE g : IsKept(g, s, S, Len(s))
      OBVIOUS
<1>5. IsKept(f, s, S, Len(s))
      BY <1>3, <1>4
<1>6. Kept(s, S) = f[Len(s)]
      BY <1>4 DEF Kept, IsKept
<1>7. QED  BY <1>5, <1>6

LEMMA KeptEmpty == ASSUME NEW S PROVE Kept(<<>>, S) = <<>>
<1>1. <<>> \in Seq({}) /\ Len(<<>>) = 0
      OBVIOUS
<1>2. PICK f : IsKept(f, <<>>, S, 0) /\ Kept(<<>>, S) = f[0]
  <2>1. \E f : IsKept(f, <<>>, S, Len(<<>>)) /\ Kept(<<>>, S) = f[Len(<<>>)]
        BY <1>1, KeptBy
  <2>2. QED  BY <1>1, <2>1
<1>3. QED  BY <1>2, KeptSteps

\* Only elements of s that are in S are kept.
LEMMA KeptSeq ==
    ASSUME NEW T, NEW s \in Seq(T), NEW S
    PROVE  Kept(s, S) \in Seq(T \cap S)
<1>1. PICK f : IsKept(f, s, S, Len(s)) /\ Kept(s, S) = f[Len(s)]
      BY KeptBy
<1>2. Len(s) \in Nat
      OBVIOUS
<1>3. /\ f[0] = <<>>
      /\ \A i \in 1..Len(s) : f[i] = IF s[i] \in S THEN Append(f[i - 1], s[i]) ELSE f[i - 1]
      BY <1>1, <1>2, KeptSteps
<1> DEFINE good == {i \in 0..Len(s) : f[i] \in Seq(T \cap S)}
<1>4. 0 \in good
  <2>1. 0 \in 0..Len(s) /\ <<>> \in Seq(T \cap S)
        BY <1>2
  <2>2. QED  BY <1>3, <2>1
<1>5. ASSUME NEW i \in 0..(Len(s) - 1), i \in good PROVE i + 1 \in good
  <2>1. i + 1 \in 1..Len(s) /\ s[i + 1] \in T /\ f[i] \in Seq(T \cap S)
        BY <1>5
  <2>2. f[i + 1] = IF s[i + 1] \in S THEN Append(f[i], s[i + 1]) ELSE f[i]
        BY <1>3, <2>1
  <2>3. s[i + 1] \in S => Append(f[i], s[i + 1]) \in Seq(T \cap S)
        BY <2>1, AppendProperties
  <2>4. f[i + 1] \in Seq(T \cap S)
        BY <2>1, <2>2, <2>3
  <2>5. QED  BY <2>1, <2>4
<1>6. \A i \in 0..Len(s) : i \in good
  <2> HIDE DEF good
  <2>1. QED  BY <1>2, <1>4, <1>5, CountUp
<1>7. QED  BY <1>1, <1>2, <1>6

\* What is kept of a sequence and one more element.
LEMMA KeptAppend ==
    ASSUME NEW T, NEW s \in Seq(T), NEW e \in T, NEW S
    PROVE  Kept(Append(s, e), S) = IF e \in S THEN Append(Kept(s, S), e) ELSE Kept(s, S)
<1> DEFINE t == Append(s, e)
<1>1. t \in Seq(T) /\ Len(s) \in Nat /\ Len(t) = Len(s) + 1 /\ t[Len(s) + 1] = e
      OBVIOUS
<1>2. \A i \in 1..Len(s) : t[i] = s[i]
      OBVIOUS
<1> HIDE DEF t
<1>3. PICK f : IsKept(f, s, S, Len(s)) /\ Kept(s, S) = f[Len(s)]
      BY KeptBy
<1>4. PICK g : IsKept(g, t, S, Len(t)) /\ Kept(t, S) = g[Len(t)]
      BY <1>1, KeptBy
<1>5. /\ f[0] = <<>>
      /\ \A i \in 1..Len(s) : f[i] = IF s[i] \in S THEN Append(f[i - 1], s[i]) ELSE f[i - 1]
      BY <1>1, <1>3, KeptSteps
<1>6. /\ g[0] = <<>>
      /\ \A i \in 1..Len(t) : g[i] = IF t[i] \in S THEN Append(g[i - 1], t[i]) ELSE g[i - 1]
  <2>1. Len(t) \in Nat
        BY <1>1
  <2>2. QED  BY <1>4, <2>1, KeptSteps
<1> DEFINE good == {i \in 0..Len(s) : f[i] = g[i]}
<1>7. 0 \in good
      BY <1>1, <1>5, <1>6
<1>8. ASSUME NEW i \in 0..(Len(s) - 1), i \in good PROVE i + 1 \in good
  <2>1. i + 1 \in 1..Len(s) /\ i + 1 \in 1..Len(t) /\ f[i] = g[i] /\ t[i + 1] = s[i + 1]
        BY <1>1, <1>2, <1>8
  <2>2. /\ f[i + 1] = IF s[i + 1] \in S THEN Append(f[i], s[i + 1]) ELSE f[i]
        /\ g[i + 1] = IF t[i + 1] \in S THEN Append(g[i], t[i + 1]) ELSE g[i]
    <3>1. (i + 1) - 1 = i
          OBVIOUS
    <3>2. QED  BY <1>5, <1>6, <2>1, <3>1
  <2>3. QED  BY <2>1, <2>2
<1>9. \A i \in 0..Len(s) : i \in good
  <2> HIDE DEF good
  <2>1. QED  BY <1>1, <1>7, <1>8, CountUp
<1>10. f[Len(s)] = g[Len(s)]
      BY <1>1, <1>9
<1>11. g[Len(t)] = IF e \in S THEN Append(g[Len(s)], e) ELSE g[Len(s)]
  <2>1. Len(t) \in 1..Len(t) /\ Len(t) - 1 = Len(s) /\ t[Len(t)] = e
        BY <1>1
  <2>2. QED  BY <1>6, <2>1
<1>12. QED  BY <1>3, <1>4, <1>10, <1>11 DEF t

\* Nothing is lost of a sequence whose elements are all in S.
LEMMA KeptAll ==
    ASSUME NEW S, NEW s \in Seq(S)
    PROVE  Kept(s, S) = s
<1>1. PICK f : IsKept(f, s, S, Len(s)) /\ Kept(s, S) = f[Len(s)]
      BY KeptBy
<1>2. Len(s) \in Nat
      OBVIOUS
<1>3. /\ f[0] = <<>>
      /\ \A i \in 1..Len(s) : f[i] = IF s[i] \in S THEN Append(f[i - 1], s[i]) ELSE f[i - 1]
      BY <1>1, <1>2, KeptSteps
<1> DEFINE good == {i \in 0..Len(s) : f[i] = SubSeq(s, 1, i)}
<1>4. 0 \in good
  <2>1. 0 \in 0..Len(s) /\ SubSeq(s, 1, 0) = <<>>
        BY <1>2, SubSeqEmpty
  <2>2. QED  BY <1>3, <2>1
<1>5. ASSUME NEW i \in 0..(Len(s) - 1), i \in good PROVE i + 1 \in good
  <2>1. i + 1 \in 1..Len(s) /\ s[i + 1] \in S /\ f[i] = SubSeq(s, 1, i)
    <3>1. i + 1 \in 1..Len(s)
          BY <1>2, <1>5
    <3>2. s[i + 1] \in S
          BY <3>1, ElementOfSeq
    <3>3. QED  BY <1>5, <3>1, <3>2
  <2>2. f[i + 1] = Append(SubSeq(s, 1, i), s[i + 1])
    <3>1. f[i + 1] = Append(f[(i + 1) - 1], s[i + 1])
          BY <1>3, <2>1
    <3>2. (i + 1) - 1 = i
          OBVIOUS
    <3>3. QED  BY <2>1, <3>1, <3>2
  <2>3. SubSeq(s, 1, i + 1) = Append(SubSeq(s, 1, i), s[i + 1])
    <3>1. SubSeq(s, 1, i) \in Seq(S)
      <4>1. \A j \in 1..i : s[j] \in S
            BY <2>1
      <4>2. QED  BY <2>1, <4>1, SubSeqProperties
    <3>2. SubSeq(s, 1, i + 1) = SubSeq(s, 1, (i + 1) - 1) \o <<s[i + 1]>>
      <4>1. 1 \in 1..Len(s) /\ i + 1 \in 1..Len(s)
            BY <2>1
      <4>2. QED  BY <4>1, SubSeqRecursiveSecond
    <3>3. (i + 1) - 1 = i
          OBVIOUS
    <3>4. QED  BY <2>1, <3>1, <3>2, <3>3, AppendIsConcat
  <2>4. QED  BY <2>1, <2>2, <2>3
<1>6. \A i \in 0..Len(s) : i \in good
  <2> HIDE DEF good
  <2>1. QED  BY <1>2, <1>4, <1>5, CountUp
<1>7. f[Len(s)] = SubSeq(s, 1, Len(s))
      BY <1>2, <1>6
<1>8. SubSeq(s, 1, Len(s)) = s
      OBVIOUS
<1>9. QED  BY <1>1, <1>7, <1>8

LEMMA SeqOf ==
    ASSUME NEW S, NEW n \in Nat, NEW f \in [1..n -> S]
    PROVE  f \in Seq(S) /\ Len(f) = n
<1>1. f \in Seq(S)
      BY SeqDef
<1>2. DOMAIN f = 1..n /\ DOMAIN f = 1..Len(f) /\ Len(f) \in Nat
      BY <1>1, LenProperties
<1>3. QED  BY <1>1, <1>2

-----------------------------------------------------------------------------
(***************************************************************************)
(* The types of the variables and of what the conversions make.            *)
(***************************************************************************)
LogDefine == [level : Levels, appenders : Seq(AppenderDefine)]
LogDefines == UNION {[S -> LogDefine] : S \in SUBSET Names}

AtGate == [pc : {"gate"}, name : Names]
AtLogger == [pc : {"level", "empty", "lock"}, at : Names, level : Levels]
Loading == [pc : {"next", "clear", "add"}, new : LogDefines,
            todo : SUBSET Names, gone : SUBSET Names,
            name : Names \cup {NoName}, rest : Seq(AppenderDefine)]

LogTypes ==
    /\ m_loggers \subseteq Names
    /\ m_level \in [Names -> Levels]
    /\ m_appenders \in [Names -> Seq(Appender)]
    /\ m_val \in LogDefines
    /\ client \in [Clients -> {Away} \cup AtGate \cup AtLogger]
    /\ load \in {Away} \cup Loading
    /\ loads \in 0..MaxLoads
    /\ events \in [Clients -> 0..MaxEvents]
    /\ written \in [Clients -> Seq(Appender)]
    /\ expected \in [Clients -> Seq(Appender)]
    /\ quiet \in [Clients -> BOOLEAN]
    /\ configured \subseteq Names
    /\ asked \in LogDefines

\* A logger is made before it is given anything.
Registered ==
    /\ \A n \in Names \ m_loggers : m_level[n] = DEBUG /\ m_appenders[n] = <<>>
    /\ load.pc \in {"clear", "add"} => load.name \in m_loggers

\* A client has an event left to write when it has its logger.
EventLeft == \A t \in Clients : client[t].pc = "gate" => events[t] < MaxEvents

\* Of a document the listener has names to set up, which the document has,
\* and names that are gone.
Pending ==
    load.pc \in {"next", "clear", "add"} =>
        /\ load.todo \subseteq DOMAIN load.new
        /\ load.gone \cap DOMAIN load.new = {}
        /\ load.name \notin load.todo \cup load.gone

TypeInv == LogTypes /\ Registered /\ EventLeft /\ Pending

Accepted(d) == \A i \in 1..Len(d) : ~Throws(d[i])

LEMMA PassingType ==
    ASSUME NEW s \in Seq(Appender), NEW level
    PROVE  Passing(s, level) \in Seq(Appender)
<1> DEFINE S == {a \in Appender : level >= a.level}
<1>1. Kept(s, S) \in Seq(Appender \cap S)
      BY KeptSeq
<1>2. Kept(s, S) \in Seq(Appender)
  <2>1. Appender \cap S \subseteq Appender
        OBVIOUS
  <2> HIDE DEF S
  <2>2. QED  BY <1>1, <2>1, SeqMonotonic
<1>3. QED  BY <1>2 DEF Passing

LEMMA PassingNone == ASSUME NEW level PROVE Passing(<<>>, level) = <<>>
  BY KeptEmpty DEF Passing

LEMMA WritersType ==
    ASSUME LogTypes, NEW n \in Names, NEW level
    PROVE  Writers(n, level) \in Seq(Appender)
<1>1. Sink(n) \in Names
      BY LogAssumption DEF Sink
<1>2. Passing(m_appenders[Sink(n)], level) \in Seq(Appender)
      BY <1>1, PassingType DEF LogTypes
<1>3. QED  BY <1>2 DEF Writers

LEMMA BuiltType ==
    ASSUME NEW a \in AppenderDefine, a.type # "other"
    PROVE  Built(a) \in Appender
  BY DEF AppenderDefine, Appender, Built, Patterns

LEMMA ToDefineType ==
    ASSUME NEW y \in YamlLogger
    PROVE  ToDefine(y) \in LogDefine
<1> DEFINE S == {a \in YamlAppender : a.type # "missing"}
           kept == Kept(y.appenders, S)
           f == [j \in 1..Len(kept) |-> [kept[j] EXCEPT !.level = FromString(y.level)]]
<1>1. y.appenders \in Seq(YamlAppender) /\ FromString(y.level) \in Levels
      BY LogAssumption DEF YamlLogger, FromString, Levels, UNKNOW
<1>2. kept \in Seq(YamlAppender \cap S)
      BY <1>1, KeptSeq
<1>3. Len(kept) \in Nat /\ \A j \in 1..Len(kept) : kept[j] \in S
  <2> HIDE DEF kept, S
  <2>1. QED  BY <1>2, LenProperties, ElementOfSeq
<1>4. \A j \in 1..Len(kept) : [kept[j] EXCEPT !.level = FromString(y.level)] \in AppenderDefine
  <2> HIDE DEF kept
  <2>1. QED  BY <1>1, <1>3 DEF YamlAppender, AppenderDefine
<1>5. f \in Seq(AppenderDefine)
  <2>1. f \in [1..Len(kept) -> AppenderDefine]
    <3> HIDE DEF kept
    <3>1. QED  BY <1>4
  <2> HIDE DEF kept, f
  <2>2. QED  BY <1>3, <2>1, SeqOf
<1>6. ToDefine(y) = [level |-> FromString(y.level), appenders |-> f]
      BY DEF ToDefine
<1> HIDE DEF f
<1>7. QED  BY <1>1, <1>5, <1>6 DEF LogDefine

\* The first of the entries with a name.
LEMMA FirstIs ==
    ASSUME NEW d \in Seq(YamlLogger), NEW i \in 1..Len(d)
    PROVE  /\ First(d, d[i].name) \in 1..Len(d)
           /\ d[First(d, d[i].name)].name = d[i].name
<1> DEFINE same == {k \in 1..Len(d) : d[k].name = d[i].name}
<1>1. same \in SUBSET Nat /\ i \in same
      OBVIOUS
<1>2. PICK k \in same : \A j \in same : k <= j
  <2> HIDE DEF same
  <2>1. QED  BY <1>1, Least
<1>3. \A j \in 1..(k - 1) : d[j].name # d[i].name
      BY <1>2
<1>4. QED  BY <1>2, <1>3 DEF First

\* The value of an accepted document: a definition for each name it has.
LEMMA ToDefinesType ==
    ASSUME NEW d \in Documents, Accepted(d)
    PROVE  /\ ToDefines(d) \in LogDefines
           /\ DOMAIN ToDefines(d) = {d[i].name : i \in 1..Len(d)}
           /\ \A n \in DOMAIN ToDefines(d) : ToDefines(d)[n] \in LogDefine
<1> DEFINE S == {d[i].name : i \in 1..Len(d)}
<1>1. d \in Seq(YamlLogger)
      BY LogAssumption
<1>2. \A i \in 1..Len(d) : d[i] \in YamlLogger /\ d[i].name \in Names
  <2>1. \A i \in 1..Len(d) : d[i] \in YamlLogger
        BY <1>1, ElementOfSeq
  <2>2. \A i \in 1..Len(d) : d[i].name # NoName
        BY DEF Accepted, Throws
  <2>3. QED  BY <2>1, <2>2 DEF YamlLogger
<1>3. S \in SUBSET Names
      BY <1>2
<1>4. ASSUME NEW n \in S PROVE ToDefine(d[First(d, n)]) \in LogDefine
  <2>1. PICK i \in 1..Len(d) : n = d[i].name
        OBVIOUS
  <2>2. d[First(d, n)] \in YamlLogger
        BY <1>1, <1>2, <2>1, FirstIs
  <2>3. QED  BY <2>2, ToDefineType
<1>5. ToDefines(d) = [n \in S |-> ToDefine(d[First(d, n)])]
      BY DEF ToDefines
<1> HIDE DEF S
<1>6. ToDefines(d) \in [S -> LogDefine]
      BY <1>4, <1>5
<1>7. ToDefines(d) \in LogDefines
      BY <1>3, <1>6 DEF LogDefines
<1>8. QED  BY <1>6, <1>7 DEF S

LEMMA DefinesShape ==
    ASSUME NEW v \in LogDefines
    PROVE  DOMAIN v \subseteq Names /\ \A n \in DOMAIN v : v[n] \in LogDefine
  BY DEF LogDefines

LEMMA TypeInvInit == Init => TypeInv
<1> SUFFICES ASSUME Init PROVE TypeInv
    OBVIOUS
<1>1. <<>> \in LogDefines
      BY DEF LogDefines
<1>2. DEBUG \in Levels
      BY LogAssumption DEF DEBUG, Levels, UNKNOW
<1>3. m_appenders \in [Names -> Seq(Appender)]
  <2> DEFINE console == [type |-> "stdout", level |-> DEBUG, formatter |-> "default"]
  <2>1. console \in Appender
        BY <1>2 DEF Appender, Patterns
  <2>2. m_appenders = [n \in Names |-> IF n = Root THEN <<console>> ELSE <<>>]
        BY DEF Init
  <2> HIDE DEF console
  <2>3. <<console>> \in Seq(Appender) /\ <<>> \in Seq(Appender)
        BY <2>1
  <2>4. QED  BY <2>2, <2>3
<1>4. LogTypes
      BY <1>1, <1>2, <1>3, LogAssumption DEF Init, LogTypes
<1>5. Registered /\ EventLeft /\ Pending
      BY DEF Init, Registered, EventLeft, Pending, Away
<1>6. QED  BY <1>4, <1>5 DEF TypeInv

\* A step of a client.
LEMMA TypeInvClient ==
    ASSUME TypeInv, NEW t \in Clients, ClientStep(t)
    PROVE  TypeInv'
<1> USE DEF TypeInv
<1> DEFINE C == client[t]
<1>0. /\ \A n \in Names : m_appenders[n] \in Seq(Appender)
      /\ C \in {Away} \cup AtGate \cup AtLogger
      BY DEF LogTypes
<1>1. ASSUME NEW n \in Names, GetLogger(t, n) PROVE TypeInv'
  <2>1. [pc |-> "gate", name |-> n] \in AtGate
        BY DEF AtGate
  <2>2. LogTypes'
        BY <1>1, <2>1 DEF GetLogger, LogTypes
  <2>3. Registered'
        BY <1>1 DEF GetLogger, Registered
  <2>4. EventLeft'
        BY <1>1 DEF GetLogger, EventLeft, LogTypes
  <2>5. Pending'
        BY <1>1 DEF GetLogger, Pending
  <2>6. QED  BY <2>2, <2>3, <2>4, <2>5
<1>2. ASSUME NEW level \in Levels \ {UNKNOW}, Gate(t, level) PROVE TypeInv'
  <2>1. C \in AtGate
        BY <1>0, <1>2 DEF Gate, Away, AtLogger
  <2>2. C.name \in Names
        BY <2>1 DEF AtGate
  <2>3. [pc |-> "level", at |-> C.name, level |-> level] \in AtLogger
        BY <2>2 DEF AtLogger
  <2>4. Writers(C.name, level) \in Seq(Appender) /\ <<>> \in Seq(Appender)
        BY <2>2, WritersType
  <2>5. events' \in [Clients -> 0..MaxEvents]
        BY <1>2, LogAssumption DEF Gate, LogTypes, EventLeft
  <2>6. LogTypes'
        BY <1>2, <2>3, <2>4, <2>5 DEF Gate, LogTypes, loggerVars
  <2>7. Registered'
        BY <1>2 DEF Gate, Registered, loggerVars
  <2>8. EventLeft'
        BY <1>2, <2>3 DEF Gate, EventLeft, LogTypes, Away, AtLogger
  <2>9. Pending'
        BY <1>2 DEF Gate, Pending
  <2>10. QED  BY <2>6, <2>7, <2>8, <2>9
<1>3. ASSUME LogStep(t) PROVE TypeInv'
  <2>1. C \in AtLogger /\ C.at \in Names
        BY <1>0, <1>3 DEF LogStep, LogLevel, LogEmpty, LogWrite, Away, AtGate, AtLogger
  <2>2. /\ Away \in {Away} \cup AtGate \cup AtLogger
        /\ [C EXCEPT !.pc = "empty"] \in AtLogger
        /\ [C EXCEPT !.pc = "lock"] \in AtLogger
        /\ [C EXCEPT !.pc = "level", !.at = Root] \in AtLogger
        BY <2>1, LogAssumption DEF AtLogger
  <2>3. client' \in [Clients -> {Away} \cup AtGate \cup AtLogger]
    <3>1. CASE LogLevel(t)
          BY <2>2, <3>1 DEF LogLevel, LogTypes
    <3>2. CASE LogEmpty(t)
          BY <2>2, <3>2 DEF LogEmpty, LogTypes
    <3>3. CASE LogWrite(t)
          BY <2>2, <3>3 DEF LogWrite, LogTypes
    <3>4. QED  BY <1>3, <3>1, <3>2, <3>3 DEF LogStep
  <2>4. written' \in [Clients -> Seq(Appender)]
    <3>1. Passing(m_appenders[C.at], C.level) \in Seq(Appender)
          BY <1>0, <2>1, PassingType
    <3>2. QED  BY <1>3, <3>1 DEF LogStep, LogLevel, LogEmpty, LogWrite, LogTypes
  <2>5. UNCHANGED <<m_loggers, m_level, m_appenders, m_val, load, loads, events, expected,
                    quiet, configured, asked>>
        BY <1>3 DEF LogStep, LogLevel, LogEmpty, LogWrite, loggerVars
  <2>6. client'[t].pc # "gate" /\ \A u \in Clients \ {t} : client'[u] = client[u]
    <3>1. ASSUME NEW r, client' = [client EXCEPT ![t] = r], r.pc # "gate"
          PROVE  client'[t].pc # "gate" /\ \A u \in Clients \ {t} : client'[u] = client[u]
          BY <3>1 DEF LogTypes
    <3>2. /\ [C EXCEPT !.pc = "empty"].pc # "gate" /\ [C EXCEPT !.pc = "lock"].pc # "gate"
          /\ [C EXCEPT !.pc = "level", !.at = Root].pc # "gate" /\ Away.pc # "gate"
          BY <2>1 DEF AtLogger, Away
    <3>3. CASE LogLevel(t)
          BY <3>1, <3>2, <3>3 DEF LogLevel
    <3>4. CASE LogEmpty(t)
          BY <3>1, <3>2, <3>4 DEF LogEmpty
    <3>5. CASE LogWrite(t)
          BY <3>1, <3>2, <3>5 DEF LogWrite
    <3>6. QED  BY <1>3, <3>3, <3>4, <3>5 DEF LogStep
  <2>7. QED  BY <2>3, <2>4, <2>5, <2>6 DEF LogTypes, Registered, EventLeft, Pending
<1>4. QED
  <2>1. ClientStep(t)
        OBVIOUS
  <2>2. QED  BY <1>1, <1>2, <1>3, <2>1, Zenon DEF ClientStep

\* A step of the loading thread.
LEMMA TypeInvLoad ==
    ASSUME TypeInv, LoadStep
    PROVE  TypeInv'
<1> USE DEF TypeInv
<1>0. /\ load \in {Away} \cup Loading
      /\ load.pc \in {"next", "clear", "add"} => load \in Loading
      BY DEF LogTypes, Away
<1>1. ASSUME NEW d \in Documents, LoadRejected(d) PROVE TypeInv'
  <2>1. loads' \in 0..MaxLoads
        BY <1>1, LogAssumption DEF LoadRejected, BeginLoad, LogTypes
  <2>2. UNCHANGED <<loggerVars, clientVars, quiet, m_val, load, configured, asked>>
        BY <1>1 DEF LoadRejected, LoadOnly
  <2>3. QED  BY <2>1, <2>2 DEF LogTypes, Registered, EventLeft, Pending, loggerVars,
             clientVars
<1>2. ASSUME NEW d \in Documents, LoadAccepted(d) PROVE TypeInv'
  <2> DEFINE new == ToDefines(d)
             begun == [pc |-> "next", new |-> new,
                       todo |-> {n \in DOMAIN new :
                                   n \in DOMAIN m_val => ~SameDefine(new[n], m_val[n])},
                       gone |-> DOMAIN m_val \ DOMAIN new, name |-> NoName, rest |-> <<>>]
  <2>1. loads' \in 0..MaxLoads
        BY <1>2, LogAssumption DEF LoadAccepted, BeginLoad, LogTypes
  <2>2. new \in LogDefines /\ DOMAIN new = {d[i].name : i \in 1..Len(d)}
        BY <1>2, ToDefinesType DEF LoadAccepted, Accepted
  <2>3. DOMAIN new \subseteq Names /\ DOMAIN m_val \subseteq Names
        BY <2>2, DefinesShape DEF LogTypes
  <2>4. begun \in Loading
    <3> HIDE DEF new
    <3>1. QED  BY <2>2, <2>3 DEF Loading
  <2>5. load' \in {Away, begun} /\ load'.pc \in {"idle", "next"}
        BY <1>2 DEF LoadAccepted, Away
  <2>6. configured' \subseteq Names /\ asked' \in LogDefines
        BY <1>2, <2>2, <2>3 DEF LoadAccepted, LogTypes
  <2>7. UNCHANGED <<loggerVars, clientVars, quiet, m_val>>
        BY <1>2 DEF LoadAccepted, LoadOnly
  <2>8. Pending'
    <3>1. CASE load' = begun
      <4>1. NoName \notin DOMAIN m_val /\ NoName \notin DOMAIN new
            BY <2>3, LogAssumption
      <4> HIDE DEF new
      <4>2. QED  BY <3>1, <4>1 DEF Pending
    <3>2. CASE load' = Away
          BY <3>2 DEF Pending, Away
    <3>3. QED  BY <2>5, <3>1, <3>2
  <2>9. LogTypes'
    <3> HIDE DEF begun
    <3>1. QED  BY <2>1, <2>4, <2>5, <2>6, <2>7 DEF LogTypes, loggerVars, clientVars
  <2>10. Registered' /\ EventLeft'
    <3> HIDE DEF begun
    <3>1. QED  BY <2>5, <2>7 DEF Registered, EventLeft, loggerVars, clientVars
  <2>11. QED  BY <2>8, <2>9, <2>10
<1>3. ASSUME NEW n \in Names, ApplyLevel(n) PROVE TypeInv'
  <2> DEFINE r == [load EXCEPT !.pc = "clear", !.name = n, !.todo = @ \ {n}, !.gone = @ \ {n}]
  <2>1. load \in Loading /\ load.new \in LogDefines
        BY <1>0, <1>3 DEF ApplyLevel, Loading
  <2>2. r \in Loading /\ r.name = n /\ load' = r
        BY <1>3, <2>1 DEF ApplyLevel, Loading
  <2>3. m_level' \in [Names -> Levels]
    <3>1. UNKNOW \in Levels
          BY LogAssumption DEF Levels, UNKNOW
    <3>2. n \in load.todo => load.new[n].level \in Levels
          BY <1>3, <2>1, DefinesShape DEF ApplyLevel, Pending, LogDefine
    <3>3. QED  BY <1>3, <3>1, <3>2 DEF ApplyLevel, LogTypes
  <2>4. /\ m_loggers' = m_loggers \cup {n}
        /\ quiet' = [t \in Clients |-> FALSE]
        /\ \A w \in Names \ {n} : m_level'[w] = m_level[w]
        /\ UNCHANGED <<m_appenders, m_val, clientVars, loads, configured, asked>>
        BY <1>3 DEF ApplyLevel, Touch, LogTypes
  <2>5. Pending'
        BY <1>3, <2>1, <2>2 DEF ApplyLevel, Pending, Loading
  <2> HIDE DEF r
  <2>6. QED  BY <2>2, <2>3, <2>4, <2>5 DEF LogTypes, Registered, EventLeft, clientVars
<1>4. CASE ApplyClear
  <2> DEFINE r == [load EXCEPT !.pc = "add", !.rest = ToAdd]
  <2>1. load \in Loading /\ load.name \in m_loggers /\ load.name \in Names
        BY <1>0, <1>4 DEF ApplyClear, Registered, LogTypes
  <2>2. ToAdd \in Seq(AppenderDefine)
    <3>1. load.new \in LogDefines
          BY <2>1 DEF Loading
    <3>2. load.name \in DOMAIN load.new => load.new[load.name].appenders \in Seq(AppenderDefine)
          BY <3>1, DefinesShape DEF LogDefine
    <3>3. QED  BY <3>2 DEF ToAdd
  <2>3. r \in Loading /\ r.pc = "add" /\ r.name = load.name /\ load' = r
        BY <1>4, <2>1, <2>2 DEF ApplyClear, Loading
  <2>4. m_appenders' \in [Names -> Seq(Appender)]
    <3>1. <<>> \in Seq(Appender)
          OBVIOUS
    <3>2. QED  BY <1>4, <3>1 DEF ApplyClear, LogTypes
  <2>5. /\ quiet' = [t \in Clients |-> FALSE]
        /\ \A w \in Names \ {load.name} : m_appenders'[w] = m_appenders[w]
        /\ UNCHANGED <<m_loggers, m_level, m_val, clientVars, loads, configured, asked>>
        BY <1>4 DEF ApplyClear, Touch, LogTypes
  <2>6. Pending'
        BY <1>4, <2>1, <2>3 DEF ApplyClear, Pending, Loading
  <2> HIDE DEF r
  <2>7. QED  BY <2>1, <2>3, <2>4, <2>5, <2>6 DEF LogTypes, Registered, EventLeft, clientVars
<1>5. CASE ApplyAdd
  <2>1. load \in Loading /\ load.name \in m_loggers /\ load.name \in Names
        BY <1>0, <1>5 DEF ApplyAdd, Registered, LogTypes
  <2>2. load.rest \in Seq(AppenderDefine)
        BY <2>1 DEF Loading
  <2>3. /\ load' \in Loading /\ load'.pc \in {"next", "add"}
        /\ load'.pc = "add" => load'.name = load.name
        /\ load'.todo = load.todo /\ load'.gone = load.gone /\ load'.new = load.new
        /\ load'.name \in {load.name, NoName}
    <3>1. CASE load.rest = <<>>
          BY <1>5, <2>1, <3>1 DEF ApplyAdd, Loading
    <3>2. CASE load.rest # <<>>
      <4>1. Tail(load.rest) \in Seq(AppenderDefine)
            BY <2>2, <3>2, HeadTailProperties
      <4>2. QED  BY <1>5, <2>1, <3>2, <4>1 DEF ApplyAdd, Loading
    <3>3. QED  BY <3>1, <3>2
  <2>4. /\ m_appenders' \in [Names -> Seq(Appender)]
        /\ \A w \in Names \ {load.name} : m_appenders'[w] = m_appenders[w]
    <3>1. CASE m_appenders' = m_appenders
          BY <3>1 DEF LogTypes
    <3>2. CASE m_appenders' # m_appenders
      <4> DEFINE a == Head(load.rest)
      <4>1. /\ load.rest # <<>> /\ a.type # "other"
            /\ m_appenders' = [m_appenders EXCEPT ![load.name] = Append(@, Built(a))]
            BY <1>5, <3>2 DEF ApplyAdd
      <4>2. a \in AppenderDefine
            BY <2>2, <4>1, HeadTailProperties
      <4>3. Built(a) \in Appender
            BY <4>1, <4>2, BuiltType
      <4>4. Append(m_appenders[load.name], Built(a)) \in Seq(Appender)
            BY <2>1, <4>3, AppendProperties DEF LogTypes
      <4> HIDE DEF a
      <4>5. QED  BY <4>1, <4>4 DEF LogTypes
    <3>3. QED  BY <3>1, <3>2
  <2>5. /\ quiet' = [t \in Clients |-> FALSE]
        /\ UNCHANGED <<m_loggers, m_level, m_val, clientVars, loads, configured, asked>>
        BY <1>5 DEF ApplyAdd, Touch
  <2>6. Pending'
        BY <1>5, <2>1, <2>3, LogAssumption DEF ApplyAdd, Pending, Loading
  <2>7. QED  BY <2>1, <2>3, <2>4, <2>5, <2>6 DEF LogTypes, Registered, EventLeft, clientVars
<1>6. CASE LoadStore
  <2>1. load.new \in LogDefines
        BY <1>0, <1>6 DEF LoadStore, Loading
  <2>2. /\ m_val' = load.new /\ load' = Away
        /\ UNCHANGED <<loggerVars, clientVars, quiet, loads, configured, asked>>
        BY <1>6 DEF LoadStore, LoadOnly
  <2>3. QED  BY <2>1, <2>2 DEF LogTypes, Registered, EventLeft, Pending, loggerVars,
             clientVars, Away
<1>7. QED  BY <1>1, <1>2, <1>3, <1>4, <1>5, <1>6 DEF LoadStep

LEMMA TypeInvNext == TypeInv /\ [Next]_vars => TypeInv'
<1> SUFFICES ASSUME TypeInv, [Next]_vars PROVE TypeInv'
    OBVIOUS
<1>1. CASE UNCHANGED vars
      BY <1>1 DEF vars, loggerVars, clientVars, TypeInv, LogTypes, Registered, EventLeft,
         Pending
<1>2. QED  BY <1>1, TypeInvClient, TypeInvLoad DEF Next, Quiescent

\* The loggers, the value and the history keep their shape, and only loggers
\* that exist have been given a level or appenders.
THEOREM LogTypesHold == Spec => []TypeOK
<1>1. TypeInv => TypeOK
  <2> SUFFICES ASSUME TypeInv PROVE TypeOK
      OBVIOUS
  <2>1. DOMAIN m_val \subseteq Names
        BY DefinesShape DEF TypeInv, LogTypes
  <2>2. QED  BY <2>1 DEF TypeOK, TypeInv, LogTypes, Registered
<1>2. QED  BY TypeInvInit, TypeInvNext, <1>1, PTL DEF Spec

-----------------------------------------------------------------------------
(***************************************************************************)
(* An event on its way.  As long as no logger changes, the logger it has   *)
(* reached has to write what its own logger had to when it was begun.      *)
(***************************************************************************)
\* For a client that is at c, has written w and was to write x.
OnWay(c, w, x) ==
    /\ c = Away => w = x
    /\ c.pc \in {"level", "empty", "lock"} => w = <<>> /\ x = Writers(c.at, c.level)
    /\ c.pc \in {"empty", "lock"} => c.level >= m_level[c.at]
    /\ c.pc = "lock" => m_appenders[c.at] # <<>>

OnItsWay == \A t \in Clients : quiet[t] => OnWay(client[t], written[t], expected[t])

WayInv == TypeInv /\ OnItsWay

LEMMA WayInvInit == Init => WayInv
<1> SUFFICES ASSUME Init PROVE WayInv
    OBVIOUS
<1>1. \A t \in Clients : client[t] = Away /\ written[t] = <<>> /\ expected[t] = <<>>
      BY DEF Init
<1>2. OnItsWay
      BY <1>1 DEF OnItsWay, OnWay, Away
<1>3. QED  BY <1>2, TypeInvInit DEF WayInv

\* While the loggers stay as they are, so do the appenders that have to write.
LEMMA OnWaySame ==
    ASSUME UNCHANGED <<m_level, m_appenders>>, NEW c, NEW w, NEW x, OnWay(c, w, x)
    PROVE  OnWay(c, w, x)'
  BY DEF OnWay, Writers, Sink

\* The other clients are where they were.
LEMMA OthersOnTheirWay ==
    ASSUME OnItsWay, UNCHANGED <<m_level, m_appenders>>, NEW t \in Clients,
           \A u \in Clients \ {t} :
              /\ client'[u] = client[u] /\ written'[u] = written[u]
              /\ expected'[u] = expected[u] /\ quiet'[u] = quiet[u],
           quiet'[t] => OnWay(client[t], written[t], expected[t])'
    PROVE  OnItsWay'
<1>1. ASSUME NEW u \in Clients \ {t}, quiet'[u]
      PROVE  OnWay(client[u], written[u], expected[u])'
  <2>1. OnWay(client[u], written[u], expected[u])
        BY <1>1 DEF OnItsWay
  <2>2. PICK c, w, x : c = client[u] /\ w = written[u] /\ x = expected[u]
        OBVIOUS
  <2>3. OnWay(c, w, x)'
        BY <2>1, <2>2, OnWaySame
  <2>4. QED  BY <1>1, <2>2, <2>3 DEF OnWay
<1>2. QED  BY <1>1 DEF OnItsWay


\* An appender's own level has to let an event pass; no appenders, no writers.
LEMMA WritersAt ==
    ASSUME LogTypes, NEW n \in Names, NEW level \in Levels
    PROVE  /\ level < m_level[n] => Writers(n, level) = <<>>
           /\ level >= m_level[n] /\ m_appenders[n] # <<>> =>
                 Writers(n, level) = Passing(m_appenders[n], level)
           /\ level >= m_level[n] /\ m_appenders[n] = <<>> =>
                 Writers(n, level) = Writers(Root, level)
           /\ m_appenders[Root] = <<>> => Writers(Root, level) = <<>>
<1>1. m_level[n] \in Nat /\ m_level[Root] \in Nat /\ level \in Nat
      BY LogAssumption DEF LogTypes, Levels, UNKNOW
<1>2. ~(level < m_level[n] /\ level >= m_level[n])
      BY <1>1
<1>3. Passing(<<>>, level) = <<>>
      BY PassingNone
<1>4. Sink(Root) = Root
      BY DEF Sink
<1>5. m_appenders[n] # <<>> => Sink(n) = n
      BY DEF Sink
<1>6. m_appenders[n] = <<>> => Sink(n) = Root
      BY DEF Sink
<1>7. QED  BY <1>2, <1>3, <1>4, <1>5, <1>6 DEF Writers

LEMMA WayInvClient ==
    ASSUME WayInv, NEW t \in Clients, ClientStep(t)
    PROVE  WayInv'
<1> DEFINE C == client[t]
<1> SUFFICES OnItsWay'
    BY TypeInvClient DEF WayInv
<1>a. LogTypes /\ OnItsWay
    BY DEF WayInv, TypeInv
<1>0. /\ C \in {Away} \cup AtGate \cup AtLogger
      /\ written \in [Clients -> Seq(Appender)]
      /\ client \in [Clients -> {Away} \cup AtGate \cup AtLogger]
      /\ expected \in [Clients -> Seq(Appender)] /\ quiet \in [Clients -> BOOLEAN]
      BY <1>a DEF LogTypes
<1>1. ASSUME NEW n \in Names, GetLogger(t, n) PROVE OnItsWay'
  <2>1. client' = [client EXCEPT ![t] = [pc |-> "gate", name |-> n]]
        BY <1>1 DEF GetLogger
  <2>2. UNCHANGED <<m_level, m_appenders, written, expected, quiet>>
        BY <1>1 DEF GetLogger
  <2>3. client'[t] = [pc |-> "gate", name |-> n]
        BY <1>0, <2>1
  <2>4. OnWay(client[t], written[t], expected[t])'
    <3>1. client'[t].pc = "gate" /\ client'[t] # Away
          BY <2>3 DEF Away
    <3>2. QED  BY <3>1 DEF OnWay
  <2>5. QED  BY <1>a, <1>0, <2>1, <2>2, <2>4, OthersOnTheirWay
<1>2. ASSUME NEW level \in Levels \ {UNKNOW}, Gate(t, level) PROVE OnItsWay'
  <2>1. C \in AtGate
        BY <1>0, <1>2 DEF Gate, Away, AtLogger
  <2>2. PICK n \in Names : n = C.name
        BY <2>1 DEF AtGate
  <2>3. /\ client' = [client EXCEPT ![t] =
               IF m_level[n] <= level THEN [pc |-> "level", at |-> n, level |-> level]
                                      ELSE Away]
        /\ expected' = [expected EXCEPT ![t] = Writers(n, level)]
        /\ written' = [written EXCEPT ![t] = <<>>]
        /\ quiet' = [quiet EXCEPT ![t] = TRUE]
        /\ UNCHANGED <<m_level, m_appenders>>
        BY <1>2, <2>2 DEF Gate, loggerVars
  <2>4. written'[t] = <<>> /\ expected'[t] = Writers(n, level)
        BY <1>0, <2>3
  <2>5. Writers(n, level)' = Writers(n, level)
        BY <2>3 DEF Writers, Sink
  <2>6. OnWay(client[t], written[t], expected[t])'
    <3>1. CASE m_level[n] <= level
      <4>1. client'[t] = [pc |-> "level", at |-> n, level |-> level]
            BY <1>0, <2>3, <3>1
      <4>2. client'[t] # Away /\ client'[t].pc = "level" /\ client'[t].at = n
            /\ client'[t].level = level
            BY <4>1 DEF Away
      <4>3. QED  BY <2>4, <2>5, <4>2 DEF OnWay
    <3>2. CASE ~(m_level[n] <= level)
      <4>1. client'[t] = Away
            BY <1>0, <2>3, <3>2
      <4>2. level < m_level[n]
            BY <1>a, <3>2, LogAssumption DEF LogTypes, Levels, UNKNOW
      <4>3. written'[t] = expected'[t]
            BY <1>a, <2>4, <4>2, WritersAt
      <4>4. QED  BY <4>1, <4>3 DEF OnWay, Away
    <3>3. QED  BY <3>1, <3>2
  <2>7. QED  BY <1>a, <1>0, <2>3, <2>6, OthersOnTheirWay
<1>3. ASSUME LogStep(t) PROVE OnItsWay'
  <2>1. C \in AtLogger
        BY <1>0, <1>3 DEF LogStep, LogLevel, LogEmpty, LogWrite, Away, AtGate
  <2>2. PICK n \in Names, level \in Levels : n = C.at /\ level = C.level
        BY <2>1 DEF AtLogger
  <2>3. UNCHANGED <<m_level, m_appenders, expected, quiet>>
        BY <1>3 DEF LogStep, LogLevel, LogEmpty, LogWrite, loggerVars
  <2>4. /\ level < m_level[n] \/ level >= m_level[n]
        /\ Root \in Names
        BY <1>a, LogAssumption DEF LogTypes, Levels, UNKNOW
  <2>5. Writers(n, level)' = Writers(n, level) /\ Writers(Root, level)' = Writers(Root, level)
        BY <2>3 DEF Writers, Sink
  <2>6. /\ [C EXCEPT !.pc = "empty"] = [pc |-> "empty", at |-> n, level |-> level]
        /\ [C EXCEPT !.pc = "lock"] = [pc |-> "lock", at |-> n, level |-> level]
        /\ [C EXCEPT !.pc = "level", !.at = Root] = [pc |-> "level", at |-> Root, level |-> level]
    <3>1. C = [pc |-> C.pc, at |-> n, level |-> level]
          BY <2>1, <2>2 DEF AtLogger
    <3>2. PICK p : C = [pc |-> p, at |-> n, level |-> level]
          BY <3>1, Zenon
    <3> HIDE DEF C
    <3> DEFINE q == [pc |-> p, at |-> n, level |-> level]
    <3>3. [q EXCEPT !.pc = "empty"] = [pc |-> "empty", at |-> n, level |-> level]
          OBVIOUS
    <3>4. [q EXCEPT !.pc = "lock"] = [pc |-> "lock", at |-> n, level |-> level]
          OBVIOUS
    <3>5. [q EXCEPT !.pc = "level", !.at = Root] = [pc |-> "level", at |-> Root, level |-> level]
      <4>1. [q EXCEPT !.pc = "level"] = [pc |-> "level", at |-> n, level |-> level]
            OBVIOUS
      <4>2. [[pc |-> "level", at |-> n, level |-> level] EXCEPT !.at = Root]
               = [pc |-> "level", at |-> Root, level |-> level]
            OBVIOUS
      <4>3. [q EXCEPT !.pc = "level", !.at = Root] = [[q EXCEPT !.pc = "level"] EXCEPT !.at = Root]
            OBVIOUS
      <4>4. QED  BY <4>1, <4>2, <4>3
    <3> HIDE DEF q
    <3>6. C = q
          BY <3>2 DEF q
    <3>7. QED  BY <3>3, <3>4, <3>5, <3>6
  <2>7. quiet[t] =>
              /\ written[t] = <<>> /\ expected[t] = Writers(n, level)
              /\ C.pc \in {"empty", "lock"} => level >= m_level[n]
              /\ C.pc = "lock" => m_appenders[n] # <<>>
    <3> SUFFICES ASSUME quiet[t]
        PROVE  /\ written[t] = <<>> /\ expected[t] = Writers(n, level)
               /\ C.pc \in {"empty", "lock"} => level >= m_level[n]
               /\ C.pc = "lock" => m_appenders[n] # <<>>
        OBVIOUS
    <3>1. OnWay(C, written[t], expected[t])
          BY <1>a DEF OnItsWay
    <3>2. C.pc \in {"level", "empty", "lock"}
          BY <2>1 DEF AtLogger
    <3> HIDE DEF C
    <3>3. QED  BY <2>2, <3>1, <3>2 DEF OnWay
  <2>8. quiet[t] => OnWay(client[t], written[t], expected[t])'
    <3> SUFFICES ASSUME quiet[t] PROVE OnWay(client[t], written[t], expected[t])'
        OBVIOUS
    <3>1. CASE LogLevel(t)
      <4>1. CASE level < m_level[n]
        <5>1. client'[t] = Away /\ written'[t] = <<>>
              BY <1>a, <1>0, <2>2, <2>7, <3>1, <4>1, LogAssumption
              DEF LogLevel, LogTypes, Levels, UNKNOW
        <5>2. expected'[t] = <<>>
              BY <1>a, <2>3, <2>7, <4>1, WritersAt
        <5>3. QED  BY <5>1, <5>2 DEF OnWay, Away
      <4>2. CASE level >= m_level[n]
        <5>1. client'[t] = [pc |-> "empty", at |-> n, level |-> level]
              BY <1>0, <2>2, <2>6, <3>1, <4>2 DEF LogLevel
        <5>2. written'[t] = <<>> /\ expected'[t] = Writers(n, level)'
              BY <2>3, <2>5, <2>7, <3>1 DEF LogLevel
        <5>3. /\ client'[t].pc = "empty" /\ client'[t].at = n /\ client'[t].level = level
              /\ client'[t] # Away
              BY <5>1 DEF Away
        <5>4. QED  BY <2>3, <4>2, <5>2, <5>3 DEF OnWay
      <4>3. QED  BY <2>4, <4>1, <4>2
    <3>2. CASE LogEmpty(t)
      <4>1. written'[t] = <<>> /\ expected'[t] = Writers(n, level) /\ level >= m_level[n]
            BY <2>3, <2>7, <3>2 DEF LogEmpty
      <4>2. CASE m_appenders[n] # <<>>
        <5>1. client'[t] = [pc |-> "lock", at |-> n, level |-> level]
              BY <1>0, <2>2, <2>6, <3>2, <4>2 DEF LogEmpty
        <5>2. /\ client'[t].pc = "lock" /\ client'[t].at = n /\ client'[t].level = level
              /\ client'[t] # Away
              BY <5>1 DEF Away
        <5>3. QED  BY <2>3, <2>5, <4>1, <4>2, <5>2 DEF OnWay
      <4>3. CASE m_appenders[n] = <<>> /\ n # Root
        <5>1. client'[t] = [pc |-> "level", at |-> Root, level |-> level]
              BY <1>0, <2>2, <2>6, <3>2, <4>3 DEF LogEmpty
        <5>2. /\ client'[t].pc = "level" /\ client'[t].at = Root /\ client'[t].level = level
              /\ client'[t] # Away
              BY <5>1 DEF Away
        <5>3. Writers(n, level) = Writers(Root, level)
              BY <1>a, <4>1, <4>3, WritersAt
        <5>4. QED  BY <2>5, <4>1, <5>2, <5>3 DEF OnWay
      <4>4. CASE m_appenders[n] = <<>> /\ n = Root
        <5>1. client'[t] = Away
              BY <1>0, <2>2, <3>2, <4>4 DEF LogEmpty
        <5>2. expected'[t] = <<>>
              BY <1>a, <4>1, <4>4, WritersAt
        <5>3. QED  BY <4>1, <5>1, <5>2 DEF OnWay, Away
      <4>5. QED  BY <4>2, <4>3, <4>4
    <3>3. CASE LogWrite(t)
      <4>1. C.pc = "lock" /\ written'[t] = Passing(m_appenders[n], level)
            BY <1>0, <2>2, <3>3 DEF LogWrite
      <4>2. client'[t] = Away
            BY <1>0, <3>3 DEF LogWrite
      <4>3. expected'[t] = Passing(m_appenders[n], level)
            BY <1>a, <2>3, <2>7, <4>1, WritersAt
      <4>4. QED  BY <4>1, <4>2, <4>3 DEF OnWay, Away
    <3>4. QED  BY <1>3, <3>1, <3>2, <3>3 DEF LogStep
  <2>9. \A u \in Clients \ {t} :
           /\ client'[u] = client[u] /\ written'[u] = written[u]
           /\ expected'[u] = expected[u] /\ quiet'[u] = quiet[u]
    <3>1. CASE LogLevel(t)
          BY <1>0, <3>1 DEF LogLevel
    <3>2. CASE LogEmpty(t)
          BY <1>0, <3>2 DEF LogEmpty
    <3>3. CASE LogWrite(t)
          BY <1>0, <3>3 DEF LogWrite
    <3>4. QED  BY <1>3, <3>1, <3>2, <3>3 DEF LogStep
  <2>10. UNCHANGED quiet /\ UNCHANGED <<m_level, m_appenders>>
        BY <2>3
  <2>11. QED  BY <1>a, <2>8, <2>9, <2>10, OthersOnTheirWay
<1>4. QED
  <2>1. ClientStep(t)
        OBVIOUS
  <2>2. QED  BY <1>1, <1>2, <1>3, <2>1, Zenon DEF ClientStep

\* The listener changes loggers, and then no event counts as undisturbed; the
\* other steps of a load leave loggers and clients alone.
LEMMA WayInvLoad ==
    ASSUME WayInv, LoadStep
    PROVE  WayInv'
<1> SUFFICES OnItsWay'
    BY TypeInvLoad DEF WayInv
<1>1. CASE UNCHANGED <<loggerVars, clientVars, quiet>>
  <2>1. UNCHANGED <<m_level, m_appenders, client, written, expected, quiet>>
        BY <1>1 DEF loggerVars, clientVars
  <2>2. ASSUME NEW u \in Clients, quiet'[u]
        PROVE  OnWay(client[u], written[u], expected[u])'
    <3>1. OnWay(client[u], written[u], expected[u])
          BY <2>1, <2>2 DEF WayInv, OnItsWay
    <3>2. PICK c, w, x : c = client[u] /\ w = written[u] /\ x = expected[u]
          OBVIOUS
    <3>3. OnWay(c, w, x)'
          BY <2>1, <3>1, <3>2, OnWaySame
    <3>4. QED  BY <2>1, <3>2, <3>3 DEF OnWay
  <2>3. QED  BY <2>2 DEF OnItsWay
<1>2. CASE Touch
      BY <1>2 DEF Touch, OnItsWay
<1>3. QED  BY <1>1, <1>2 DEF LoadStep, LoadRejected, LoadAccepted, LoadOnly, ApplyLevel,
           ApplyClear, ApplyAdd, LoadStore

LEMMA WayInvNext == WayInv /\ [Next]_vars => WayInv'
<1> SUFFICES ASSUME WayInv, [Next]_vars PROVE WayInv'
    OBVIOUS
<1>1. CASE UNCHANGED vars
  <2>1. UNCHANGED <<m_level, m_appenders, client, written, expected, quiet>>
        BY <1>1 DEF vars, loggerVars, clientVars
  <2>2. TypeInv'
        BY <1>1, TypeInvNext DEF WayInv
  <2>3. OnItsWay'
        BY <2>1 DEF WayInv, OnItsWay, OnWay, Writers, Sink
  <2>4. QED  BY <2>2, <2>3 DEF WayInv
<1>2. QED  BY <1>1, WayInvClient, WayInvLoad DEF Next, Quiescent

\* An event during which no logger changes is written by the appenders its
\* logger, or the root, has for it, whatever other threads log meanwhile.
THEOREM DesignFollowed == Spec => []WrittenAsDesigned
<1>1. WayInv => WrittenAsDesigned
      BY DEF WayInv, OnItsWay, OnWay, WrittenAsDesigned
<1>2. QED  BY WayInvInit, WayInvNext, <1>1, PTL DEF Spec


-----------------------------------------------------------------------------
(***************************************************************************)
(* The loggers and the value of "logs".  LogDefine's operator== compares   *)
(* only the levels: of a definition that changes otherwise setValue() and  *)
(* the listener see nothing.  The theorem is about documents whose changes *)
(* show in the level.                                                      *)
(***************************************************************************)
Values == {<<>>} \cup {ToDefines(d) : d \in {e \in Documents : Accepted(e)}}

PlainChanges ==
    \A v, w \in Values : \A n \in DOMAIN v \cap DOMAIN w :
        SameDefine(v[n], w[n]) => v[n] = w[n]

LEMMA BuiltAllEmpty == BuiltAll(<<>>) = <<>>
<1>1. KnownTypes(<<>>) = <<>> /\ Len(<<>>) = 0
      BY KeptEmpty DEF KnownTypes
<1> DEFINE f == [j \in 1..Len(KnownTypes(<<>>)) |-> Built(KnownTypes(<<>>)[j])]
<1>2. f \in [1..0 -> {}]
      BY <1>1
<1> HIDE DEF f
<1>3. f \in Seq({}) /\ Len(f) = 0
      BY <1>2, SeqOf
<1>4. f = <<>>
      BY <1>3, EmptySeq
<1>5. QED  BY <1>4 DEF BuiltAll, f

LEMMA KnownType ==
    ASSUME NEW s \in Seq(AppenderDefine)
    PROVE  KnownTypes(s) \in Seq({a \in AppenderDefine : a.type # "other"})
<1> DEFINE S == {a \in AppenderDefine : a.type # "other"}
<1>1. Kept(s, S) \in Seq(AppenderDefine \cap S)
      BY KeptSeq
<1>2. AppenderDefine \cap S \subseteq S
      OBVIOUS
<1> HIDE DEF S
<1>3. Kept(s, S) \in Seq(S)
      BY <1>1, <1>2, SeqMonotonic
<1>4. QED  BY <1>3 DEF KnownTypes, S

LEMMA BuiltAllType ==
    ASSUME NEW s \in Seq(AppenderDefine)
    PROVE  /\ BuiltAll(s) \in Seq(Appender)
           /\ Len(BuiltAll(s)) = Len(KnownTypes(s)) /\ Len(KnownTypes(s)) \in Nat
<1> DEFINE S == {a \in AppenderDefine : a.type # "other"}
           k == KnownTypes(s)
           f == [j \in 1..Len(k) |-> Built(k[j])]
<1>1. k \in Seq(S) /\ Len(k) \in Nat
      BY KnownType
<1>2. \A j \in 1..Len(k) : k[j] \in S
  <2> HIDE DEF k, S
  <2>1. QED  BY <1>1, ElementOfSeq
<1>3. \A j \in 1..Len(k) : Built(k[j]) \in Appender
  <2> HIDE DEF k
  <2>1. QED  BY <1>2, BuiltType
<1>4. f \in [1..Len(k) -> Appender]
  <2> HIDE DEF k
  <2>1. QED  BY <1>3
<1> HIDE DEF f
<1>5. f \in Seq(Appender) /\ Len(f) = Len(k)
  <2> HIDE DEF k
  <2>1. QED  BY <1>1, <1>4, SeqOf
<1>6. BuiltAll(s) = f
      BY DEF BuiltAll, f
<1>7. QED  BY <1>1, <1>5, <1>6

\* One more definition makes one more appender, if its type is known.
LEMMA BuiltAllAppend ==
    ASSUME NEW s \in Seq(AppenderDefine), NEW a \in AppenderDefine
    PROVE  BuiltAll(Append(s, a)) = IF a.type = "other" THEN BuiltAll(s)
                                    ELSE Append(BuiltAll(s), Built(a))
<1> DEFINE S == {b \in AppenderDefine : b.type # "other"}
           k == KnownTypes(s)
           m == KnownTypes(Append(s, a))
<1>1. m = IF a \in S THEN Append(k, a) ELSE k
      BY KeptAppend DEF KnownTypes
<1>2. a \in S <=> a.type # "other"
      OBVIOUS
<1>3. CASE a.type = "other"
  <2>1. m = k
        BY <1>1, <1>2, <1>3
  <2>2. QED  BY <1>3, <2>1 DEF BuiltAll
<1>4. CASE a.type # "other"
  <2>1. m = Append(k, a)
        BY <1>1, <1>2, <1>4
  <2>2. k \in Seq(S) /\ a \in S
        BY <1>2, <1>4, KnownType
  <2> DEFINE b == BuiltAll(s)
             c == BuiltAll(Append(s, a))
             e == Append(b, Built(a))
  <2>3. Append(s, a) \in Seq(AppenderDefine)
        BY AppendProperties
  <2>4. /\ b \in Seq(Appender) /\ c \in Seq(Appender) /\ Built(a) \in Appender
        /\ Len(b) = Len(k) /\ Len(c) = Len(m) /\ Len(k) \in Nat
        BY <1>4, <2>3, BuiltAllType, BuiltType
  <2>5. /\ Len(m) = Len(k) + 1 /\ m[Len(k) + 1] = a
        /\ \A j \in 1..Len(k) : m[j] = k[j]
    <3> HIDE DEF k, m, S
    <3>1. QED  BY <2>1, <2>2, AppendProperties
  <2>6. /\ \A j \in 1..Len(k) : b[j] = Built(k[j])
        /\ \A j \in 1..Len(m) : c[j] = Built(m[j])
        BY DEF BuiltAll
  <2> HIDE DEF k, m, b, c, S
  <2>7. /\ e \in Seq(Appender) /\ Len(e) = Len(b) + 1 /\ e[Len(b) + 1] = Built(a)
        /\ \A j \in 1..Len(b) : e[j] = b[j]
        BY <2>4, AppendProperties
  <2> HIDE DEF e
  <2>8. Len(c) = Len(e) /\ \A j \in 1..Len(c) : c[j] = e[j]
    <3>1. Len(c) = Len(k) + 1 /\ Len(e) = Len(k) + 1
          BY <2>4, <2>5, <2>7
    <3>2. ASSUME NEW j \in 1..Len(c) PROVE c[j] = e[j]
      <4>1. CASE j \in 1..Len(k)
            BY <2>4, <2>5, <2>6, <2>7, <3>1, <4>1
      <4>2. CASE j = Len(k) + 1
            BY <2>4, <2>5, <2>6, <2>7, <3>1, <4>2
      <4>3. QED  BY <2>4, <3>1, <4>1, <4>2
    <3>3. QED  BY <3>1, <3>2
  <2>9. c = e
        BY <2>4, <2>7, <2>8, SeqEqual
  <2>10. QED  BY <1>4, <2>9 DEF b, c, e
<1>5. QED  BY <1>3, <1>4


\* Logger n is as definition d says; it is as the listener leaves one that
\* is gone.
Applied(n, d) == m_level[n] = d.level /\ m_appenders[n] = BuiltAll(d.appenders)
Emptied(n) == m_level[n] = UNKNOW /\ m_appenders[n] = <<>>

\* The loggers the listener has done with, and those it has nothing to do to.
Finished ==
    load.pc \in {"next", "clear", "add"} =>
        /\ load.new \in Values
        /\ \A n \in DOMAIN load.new \ load.todo : n # load.name => Applied(n, load.new[n])
        /\ \A n \in configured \ (DOMAIN load.new \cup load.gone) : n # load.name => Emptied(n)

\* The logger the listener is at.
AtWork ==
    /\ load.pc = "next" => load.name = NoName
    /\ load.pc \in {"clear", "add"} =>
          m_level[load.name] = IF load.name \in DOMAIN load.new
                               THEN load.new[load.name].level ELSE UNKNOW
    /\ load.pc = "add" =>
          \E done \in Seq(AppenderDefine) :
              /\ ToAdd = done \o load.rest
              /\ m_appenders[load.name] = BuiltAll(done)

Matched ==
    load = Away =>
        /\ \A n \in DOMAIN m_val : Applied(n, m_val[n])
        /\ \A n \in configured \ DOMAIN m_val : Emptied(n)

ApplyInv == m_val \in Values /\ Finished /\ AtWork /\ Matched

MatchInv == TypeInv /\ ApplyInv

LEMMA MatchInvInit == Init => MatchInv
<1> SUFFICES ASSUME Init PROVE ApplyInv
    BY TypeInvInit DEF MatchInv
<1>1. m_val \in Values /\ DOMAIN m_val = {}
      BY DEF Init, Values
<1>2. QED  BY <1>1 DEF Init, ApplyInv, Finished, AtWork, Matched, Away

LEMMA AppliedSame ==
    ASSUME UNCHANGED <<m_level, m_appenders>>, NEW n, NEW d
    PROVE  Applied(n, d)' = Applied(n, d) /\ Emptied(n)' = Emptied(n)
  BY DEF Applied, Emptied

\* Steps that leave the load and the loggers alone.
LEMMA ApplyInvSame ==
    ASSUME ApplyInv,
           UNCHANGED <<m_level, m_appenders, m_val, load, configured>>
    PROVE  ApplyInv'
<1>1. Finished' = Finished
      BY DEF Finished, Applied, Emptied
<1>2. AtWork' = AtWork
      BY DEF AtWork, ToAdd
<1>3. Matched' = Matched
      BY DEF Matched, Applied, Emptied
<1>4. QED  BY <1>1, <1>2, <1>3 DEF ApplyInv

\* An accepted document: what its definitions leave as it is has been applied.
LEMMA MatchAccepted ==
    ASSUME PlainChanges, MatchInv, NEW d \in Documents, LoadAccepted(d)
    PROVE  ApplyInv'
<1> DEFINE new == ToDefines(d)
           begun == [pc |-> "next", new |-> new,
                     todo |-> {n \in DOMAIN new :
                                 n \in DOMAIN m_val => ~SameDefine(new[n], m_val[n])},
                     gone |-> DOMAIN m_val \ DOMAIN new, name |-> NoName, rest |-> <<>>]
<1>1. /\ load = Away
      /\ load' = IF SameDefines(m_val, new) THEN Away ELSE begun
      /\ Accepted(d)
      /\ configured' = configured \cup {d[i].name : i \in 1..Len(d)}
      /\ UNCHANGED <<m_level, m_appenders, m_val>>
      BY DEF LoadAccepted, BeginLoad, LoadOnly, loggerVars, Accepted
<1>2. new \in Values
      BY <1>1 DEF Values
<1>3. DOMAIN new = {d[i].name : i \in 1..Len(d)}
      BY <1>1, ToDefinesType
<1>4. /\ \A n \in DOMAIN m_val : Applied(n, m_val[n])
      /\ \A n \in configured \ DOMAIN m_val : Emptied(n)
      /\ m_val \in Values
      BY <1>1 DEF MatchInv, ApplyInv, Matched
<1>5. /\ \A n \in DOMAIN m_val : Applied(n, m_val[n])'
      /\ \A n \in configured \ DOMAIN m_val : Emptied(n)'
      BY <1>1, <1>4 DEF Applied, Emptied
<1>6. configured' = configured \cup DOMAIN new
      BY <1>1, <1>3
<1>7. CASE SameDefines(m_val, new)
  <2>1. DOMAIN m_val = DOMAIN new /\ load' = Away
        BY <1>1, <1>7 DEF SameDefines
  <2>2. Matched'
        BY <1>1, <1>5, <1>6, <2>1 DEF Matched, Applied, Emptied
  <2>3. QED  BY <1>1, <1>4, <2>1, <2>2 DEF ApplyInv, Finished, AtWork, Away
<1>8. CASE ~SameDefines(m_val, new)
  <2>1. load' = begun
        BY <1>1, <1>8
  <2>2. /\ load'.pc = "next" /\ load'.new = new /\ load'.name = NoName /\ load' # Away
        /\ load'.gone = DOMAIN m_val \ DOMAIN new
        /\ \A n \in DOMAIN new \ load'.todo :
              n \in DOMAIN m_val /\ SameDefine(new[n], m_val[n])
        BY <2>1 DEF Away
  <2> HIDE DEF begun, new
  <2>3. ASSUME NEW n \in DOMAIN new \ load'.todo PROVE Applied(n, new[n])'
    <3>1. n \in DOMAIN m_val /\ SameDefine(new[n], m_val[n])
          BY <2>2
    <3>2. new[n] = m_val[n]
          BY <1>2, <1>4, <3>1 DEF PlainChanges
    <3>3. Applied(n, m_val[n])'
          BY <1>5, <3>1
    <3>4. m_val[n]' = new[n]
          BY <1>1, <3>2
    <3>5. QED  BY <3>3, <3>4 DEF Applied
  <2>4. ASSUME NEW n \in configured' \ (DOMAIN new \cup load'.gone) PROVE Emptied(n)'
        BY <1>5, <1>6, <2>2
  <2>5. Finished'
        BY <1>2, <2>2, <2>3, <2>4 DEF Finished, Applied, Emptied
  <2>6. QED  BY <1>1, <1>4, <2>2, <2>5 DEF ApplyInv, AtWork, Matched
<1>9. QED  BY <1>7, <1>8


\* One more logger has its level.
LEMMA MatchLevel ==
    ASSUME MatchInv, NEW n \in Names, ApplyLevel(n)
    PROVE  ApplyInv'
<1> DEFINE r == [load EXCEPT !.pc = "clear", !.name = n, !.todo = @ \ {n}, !.gone = @ \ {n}]
<1>1. load \in Loading /\ load.pc = "next"
      BY DEF ApplyLevel, MatchInv, TypeInv, LogTypes, Away
<1>2. /\ load' = r /\ r.pc = "clear" /\ r.name = n /\ r.new = load.new
      /\ r.todo = load.todo \ {n} /\ r.gone = load.gone \ {n}
      /\ UNCHANGED <<m_appenders, m_val, configured>>
      BY <1>1 DEF ApplyLevel, Loading
<1>3. /\ m_level' = [m_level EXCEPT ![n] = IF n \in load.todo THEN load.new[n].level ELSE UNKNOW]
      /\ m_level \in [Names -> Levels]
      /\ n \in load.todo \/ (load.todo = {} /\ n \in load.gone)
      BY DEF ApplyLevel, MatchInv, TypeInv, LogTypes
<1>4. /\ load.todo \subseteq DOMAIN load.new /\ load.gone \cap DOMAIN load.new = {}
      /\ load.name = NoName
      /\ load.new \in LogDefines /\ DOMAIN load.new \subseteq Names /\ configured \subseteq Names
  <2>1. load.new \in LogDefines
        BY <1>1 DEF Loading
  <2>2. QED  BY <1>1, <2>1, DefinesShape
             DEF MatchInv, TypeInv, LogTypes, Pending, ApplyInv, AtWork
<1>5. /\ load.new \in Values
      /\ \A w \in DOMAIN load.new \ load.todo : Applied(w, load.new[w])
      /\ \A w \in configured \ (DOMAIN load.new \cup load.gone) : Emptied(w)
      BY <1>1, <1>4, LogAssumption DEF MatchInv, ApplyInv, Finished
<1>6. m_level'[n] = IF n \in DOMAIN load.new THEN load.new[n].level ELSE UNKNOW
      BY <1>3, <1>4
<1>7. \A w \in Names \ {n} : m_level'[w] = m_level[w]
      BY <1>3
<1> HIDE DEF r
<1>8. Finished'
  <2>1. ASSUME NEW w \in DOMAIN load.new \ load'.todo, w # n PROVE Applied(w, load.new[w])'
    <3>1. w \in DOMAIN load.new \ load.todo /\ w \in Names
          BY <1>2, <1>4, <2>1
    <3>2. load'.new = load.new
          BY <1>2
    <3>3. QED  BY <1>2, <1>5, <1>7, <2>1, <3>1, <3>2 DEF Applied
  <2>2. ASSUME NEW w \in configured \ (DOMAIN load.new \cup load'.gone), w # n
        PROVE  Emptied(w)'
    <3>1. w \in configured \ (DOMAIN load.new \cup load.gone) /\ w \in Names
          BY <1>2, <1>4, <2>2
    <3>2. QED  BY <1>2, <1>5, <1>7, <2>2, <3>1 DEF Emptied
  <2>3. QED  BY <1>2, <1>5, <2>1, <2>2 DEF Finished, Applied, Emptied
<1>9. AtWork'
      BY <1>2, <1>6 DEF AtWork
<1>10. Matched'
      BY <1>2 DEF Matched, Away
<1>11. m_val' \in Values
      BY <1>2 DEF MatchInv, ApplyInv
<1>12. QED  BY <1>8, <1>9, <1>10, <1>11 DEF ApplyInv

\* It is emptied, and nothing has been added yet.
LEMMA MatchClear ==
    ASSUME MatchInv, ApplyClear
    PROVE  ApplyInv'
<1> DEFINE r == [load EXCEPT !.pc = "add", !.rest = ToAdd]
           n == load.name
<1>1. load \in Loading /\ load.pc = "clear"
      BY DEF ApplyClear, MatchInv, TypeInv, LogTypes, Away
<1>2. /\ load' = r /\ r.pc = "add" /\ r.name = n /\ r.new = load.new
      /\ r.todo = load.todo /\ r.gone = load.gone /\ r.rest = ToAdd
      /\ UNCHANGED <<m_level, m_val, configured>>
      BY <1>1 DEF ApplyClear, Loading
<1>3. /\ m_appenders' = [m_appenders EXCEPT ![n] = <<>>]
      /\ m_appenders \in [Names -> Seq(Appender)]
      /\ n \in Names
      BY <1>1 DEF ApplyClear, MatchInv, TypeInv, LogTypes, Registered
<1>4. m_appenders'[n] = <<>> /\ \A w \in Names \ {n} : m_appenders'[w] = m_appenders[w]
      BY <1>3
<1>5. ToAdd \in Seq(AppenderDefine)
  <2>1. load.new \in LogDefines
        BY <1>1 DEF Loading
  <2>2. n \in DOMAIN load.new => load.new[n].appenders \in Seq(AppenderDefine)
        BY <2>1, DefinesShape DEF LogDefine
  <2>3. QED  BY <2>2 DEF ToAdd
<1>6. DOMAIN load.new \subseteq Names /\ configured \subseteq Names
      BY <1>1, DefinesShape DEF Loading, MatchInv, TypeInv, LogTypes
<1> HIDE DEF r
<1>7. Finished'
  <2>1. ASSUME NEW w \in DOMAIN load.new \ load.todo, w # n PROVE Applied(w, load.new[w])'
    <3>1. Applied(w, load.new[w]) /\ w \in Names
          BY <1>1, <1>6, <2>1 DEF MatchInv, ApplyInv, Finished
    <3>2. load'.new = load.new
          BY <1>2
    <3>3. QED  BY <1>2, <1>4, <2>1, <3>1, <3>2 DEF Applied
  <2>2. ASSUME NEW w \in configured \ (DOMAIN load.new \cup load.gone), w # n
        PROVE  Emptied(w)'
    <3>1. Emptied(w) /\ w \in Names
          BY <1>1, <1>6, <2>2 DEF MatchInv, ApplyInv, Finished
    <3>2. QED  BY <1>2, <1>4, <2>2, <3>1 DEF Emptied
  <2>3. load.new \in Values
        BY <1>1 DEF MatchInv, ApplyInv, Finished
  <2>4. QED  BY <1>2, <2>1, <2>2, <2>3 DEF Finished, Applied, Emptied
<1>8. AtWork'
  <2>1. m_level[n] = IF n \in DOMAIN load.new THEN load.new[n].level ELSE UNKNOW
        BY <1>1 DEF MatchInv, ApplyInv, AtWork
  <2>2. ToAdd' = ToAdd
        BY <1>2 DEF ToAdd
  <2>3. <<>> \in Seq(AppenderDefine) /\ ToAdd = <<>> \o ToAdd
        BY <1>5, ConcatEmptySeq
  <2>4. m_appenders'[n] = BuiltAll(<<>>)
        BY <1>4, BuiltAllEmpty
  <2>5. \E done \in Seq(AppenderDefine) :
            ToAdd' = done \o load'.rest /\ m_appenders'[n] = BuiltAll(done)
    <3>1. load'.rest = ToAdd
          BY <1>2
    <3>2. ToAdd' = <<>> \o load'.rest
          BY <2>2, <2>3, <3>1
    <3>3. QED  BY <2>3, <2>4, <3>2
  <2>6. load'.pc = "add" /\ load'.name = n /\ load'.new = load.new /\ m_level' = m_level
        BY <1>2
  <2>7. (\E done \in Seq(AppenderDefine) :
            ToAdd = done \o load.rest /\ m_appenders[load.name] = BuiltAll(done))'
        BY <2>5, <2>6 DEF BuiltAll, KnownTypes, Built
  <2>8. QED  BY <2>1, <2>6, <2>7 DEF AtWork
<1>9. Matched'
      BY <1>2 DEF Matched, Away
<1>10. m_val' \in Values
      BY <1>2 DEF MatchInv, ApplyInv
<1>11. QED  BY <1>7, <1>8, <1>9, <1>10 DEF ApplyInv


\* Moving the head of the second sequence to the end of the first.
LEMMA HeadOver ==
    ASSUME NEW S, NEW s \in Seq(S), NEW u \in Seq(S), u # <<>>
    PROVE  Append(s, Head(u)) \in Seq(S) /\ s \o u = Append(s, Head(u)) \o Tail(u)
<1>1. Head(u) \in S /\ Tail(u) \in Seq(S) /\ <<Head(u)>> \in Seq(S)
      BY HeadTailProperties
<1>2. u = <<Head(u)>> \o Tail(u)
  <2> DEFINE v == <<Head(u)>> \o Tail(u)
  <2>1. v \in Seq(S) /\ Len(v) = 1 + Len(Tail(u))
        BY <1>1, ConcatProperties
  <2>2. Len(u) = Len(v) /\ \A i \in 1..Len(u) : u[i] = v[i]
        BY <1>1, HeadTailProperties, ConcatProperties
  <2> HIDE DEF v
  <2>3. u = v
        BY <2>1, <2>2, SeqEqual
  <2>4. QED  BY <2>3 DEF v
<1>3. Append(s, Head(u)) = s \o <<Head(u)>>
      BY <1>1, AppendIsConcat
<1>4. (s \o <<Head(u)>>) \o Tail(u) = s \o (<<Head(u)>> \o Tail(u))
      BY <1>1, ConcatAssociative
<1>5. QED  BY <1>1, <1>2, <1>3, <1>4, AppendProperties

\* One more appender, or the logger is finished.
LEMMA MatchAdd ==
    ASSUME MatchInv, ApplyAdd
    PROVE  ApplyInv'
<1> DEFINE n == load.name
<1>1. /\ load \in Loading /\ load.pc = "add" /\ load.rest \in Seq(AppenderDefine)
      /\ n \in Names
      BY DEF ApplyAdd, MatchInv, TypeInv, LogTypes, Away, Loading, Registered
<1>2. PICK done \in Seq(AppenderDefine) :
          ToAdd = done \o load.rest /\ m_appenders[n] = BuiltAll(done)
      BY <1>1 DEF MatchInv, ApplyInv, AtWork
<1>3. /\ m_level[n] = IF n \in DOMAIN load.new THEN load.new[n].level ELSE UNKNOW
      /\ load.new \in Values
      /\ \A w \in DOMAIN load.new \ load.todo : w # n => Applied(w, load.new[w])
      /\ \A w \in configured \ (DOMAIN load.new \cup load.gone) : w # n => Emptied(w)
      /\ m_val \in Values
      BY <1>1 DEF MatchInv, ApplyInv, AtWork, Finished
<1>4. DOMAIN load.new \subseteq Names /\ configured \subseteq Names
      BY <1>1, DefinesShape DEF Loading, MatchInv, TypeInv, LogTypes
<1>5. UNCHANGED <<m_level, m_val, configured>>
      BY DEF ApplyAdd
<1>6. CASE load.rest = <<>>
  <2>1. /\ load'.pc = "next" /\ load'.name = NoName /\ load'.new = load.new
        /\ load'.todo = load.todo /\ load'.gone = load.gone /\ load' # Away
        /\ UNCHANGED m_appenders
        BY <1>1, <1>6 DEF ApplyAdd, Loading, Away
  <2>2. ToAdd = done
    <3>1. ToAdd = done \o <<>>
          BY <1>2, <1>6
    <3>2. done \o <<>> = done
          BY ConcatEmptySeq
    <3>3. QED  BY <3>1, <3>2
  <2>3. n \in DOMAIN load.new => Applied(n, load.new[n])
        BY <1>2, <1>3, <2>2 DEF ToAdd, Applied
  <2>4. n \notin DOMAIN load.new => Emptied(n)
    <3> SUFFICES ASSUME n \notin DOMAIN load.new PROVE Emptied(n)
        OBVIOUS
    <3>1. done = <<>>
          BY <2>2 DEF ToAdd
    <3>2. m_appenders[n] = BuiltAll(<<>>)
          BY <1>2, <3>1
    <3>3. QED  BY <1>3, <3>2, BuiltAllEmpty DEF Emptied
  <2>5. Finished'
    <3>1. \A w \in DOMAIN load.new \ load.todo : Applied(w, load.new[w])'
          BY <1>3, <1>5, <2>1, <2>3 DEF Applied
    <3>2. \A w \in configured \ (DOMAIN load.new \cup load.gone) : Emptied(w)'
          BY <1>3, <1>5, <2>1, <2>4 DEF Emptied
    <3>3. QED  BY <1>3, <1>5, <2>1, <3>1, <3>2 DEF Finished, Applied, Emptied
  <2>6. QED  BY <1>3, <1>5, <2>1, <2>5 DEF ApplyInv, AtWork, Matched
<1>7. CASE load.rest # <<>>
  <2> DEFINE a == Head(load.rest)
  <2>1. a \in AppenderDefine /\ Tail(load.rest) \in Seq(AppenderDefine)
        BY <1>1, <1>7, HeadTailProperties
  <2>2. /\ Append(done, a) \in Seq(AppenderDefine)
        /\ ToAdd = Append(done, a) \o Tail(load.rest)
        BY <1>1, <1>2, <1>7, HeadOver
  <2>3. /\ load'.pc = "add" /\ load'.name = n /\ load'.new = load.new /\ load' # Away
        /\ load'.todo = load.todo /\ load'.gone = load.gone
        /\ load'.rest = Tail(load.rest)
        BY <1>1, <1>7 DEF ApplyAdd, Loading, Away
  <2>4. /\ m_appenders' = IF a.type = "other" THEN m_appenders
                          ELSE [m_appenders EXCEPT ![n] = Append(@, Built(a))]
        /\ m_appenders \in [Names -> Seq(Appender)]
        BY <1>7 DEF ApplyAdd, MatchInv, TypeInv, LogTypes
  <2> HIDE DEF a
  <2>5. /\ m_appenders'[n] = BuiltAll(Append(done, a))
        /\ \A w \in Names \ {n} : m_appenders'[w] = m_appenders[w]
        BY <1>1, <1>2, <2>1, <2>4, BuiltAllAppend
  <2>6. Finished'
    <3>1. ASSUME NEW w \in DOMAIN load.new \ load.todo, w # n PROVE Applied(w, load.new[w])'
      <4>1. Applied(w, load.new[w]) /\ w \in Names
            BY <1>3, <1>4, <3>1
      <4>2. QED  BY <1>5, <2>3, <2>5, <3>1, <4>1 DEF Applied
    <3>2. ASSUME NEW w \in configured \ (DOMAIN load.new \cup load.gone), w # n
          PROVE  Emptied(w)'
      <4>1. Emptied(w) /\ w \in Names
            BY <1>3, <1>4, <3>2
      <4>2. QED  BY <1>5, <2>5, <3>2, <4>1 DEF Emptied
    <3>3. QED  BY <1>3, <1>5, <2>3, <3>1, <3>2 DEF Finished, Applied, Emptied
  <2>7. ToAdd' = ToAdd
        BY <2>3 DEF ToAdd
  <2>8. (\E all \in Seq(AppenderDefine) :
            ToAdd = all \o load.rest /\ m_appenders[load.name] = BuiltAll(all))'
    <3>1. ToAdd' = Append(done, a) \o load'.rest
          BY <2>2, <2>3, <2>7
    <3>2. m_appenders'[load'.name] = BuiltAll(Append(done, a))
          BY <2>3, <2>5
    <3>3. \E all \in Seq(AppenderDefine) :
             ToAdd' = all \o load'.rest /\ m_appenders'[load'.name] = BuiltAll(all)
          BY <2>2, <3>1, <3>2
    <3>4. QED  BY <3>3 DEF BuiltAll, KnownTypes, Built
  <2>9. AtWork'
        BY <1>3, <1>5, <2>3, <2>8 DEF AtWork
  <2>10. QED  BY <1>3, <1>5, <2>3, <2>6, <2>9 DEF ApplyInv, Matched
<1>8. QED  BY <1>6, <1>7

\* The listener has done with every logger when the value is stored.
LEMMA MatchStore ==
    ASSUME MatchInv, LoadStore
    PROVE  ApplyInv'
<1>1. /\ load.pc = "next" /\ load.todo = {} /\ load.gone = {}
      /\ m_val' = load.new /\ load' = Away
      /\ UNCHANGED <<m_level, m_appenders, configured>>
      BY DEF LoadStore, LoadOnly, loggerVars
<1>2. load \in Loading /\ load.name = NoName
      BY <1>1 DEF MatchInv, TypeInv, LogTypes, Away, ApplyInv, AtWork
<1>3. DOMAIN load.new \subseteq Names /\ configured \subseteq Names
      BY <1>2, DefinesShape DEF Loading, MatchInv, TypeInv, LogTypes
<1>4. /\ load.new \in Values
      /\ \A n \in DOMAIN load.new : Applied(n, load.new[n])
      /\ \A n \in configured \ DOMAIN load.new : Emptied(n)
      BY <1>1, <1>2, <1>3, LogAssumption DEF MatchInv, ApplyInv, Finished
<1>5. Matched'
      BY <1>1, <1>4 DEF Matched, Applied, Emptied
<1>6. QED  BY <1>1, <1>4, <1>5 DEF ApplyInv, Finished, AtWork, Away

LEMMA MatchInvNext == PlainChanges /\ MatchInv /\ [Next]_vars => MatchInv'
<1> SUFFICES ASSUME PlainChanges, MatchInv, [Next]_vars PROVE MatchInv'
    OBVIOUS
<1> SUFFICES ApplyInv'
    BY TypeInvNext DEF MatchInv
<1>1. CASE UNCHANGED <<m_level, m_appenders, m_val, load, configured>>
      BY <1>1, ApplyInvSame DEF MatchInv
<1>2. ASSUME NEW t \in Clients, ClientStep(t)
      PROVE  UNCHANGED <<m_level, m_appenders, m_val, load, configured>>
      BY <1>2 DEF ClientStep, GetLogger, Gate, LogStep, LogLevel, LogEmpty, LogWrite, loggerVars
<1>3. ASSUME NEW d \in Documents, LoadRejected(d)
      PROVE  UNCHANGED <<m_level, m_appenders, m_val, load, configured>>
      BY <1>3 DEF LoadRejected, LoadOnly, loggerVars
<1>4. CASE LoadStep
      BY <1>1, <1>3, <1>4, MatchAccepted, MatchLevel, MatchClear, MatchAdd, MatchStore
      DEF LoadStep
<1>5. UNCHANGED vars => UNCHANGED <<m_level, m_appenders, m_val, load, configured>>
      BY DEF vars, loggerVars
<1>6. QED  BY <1>1, <1>2, <1>4, <1>5 DEF Next, Quiescent

\* Between two loads each logger the value of "logs" names has the level and
\* the appenders it says, and the others that were configured are empty.
THEOREM ValueApplied ==
    ASSUME PlainChanges
    PROVE  Spec => []LoggersMatchConfig
<1>1. MatchInv => LoggersMatchConfig
      BY DEF MatchInv, ApplyInv, Matched, Applied, Emptied, LoggersMatchConfig
<1>2. MatchInv /\ [Next]_vars => MatchInv'
      BY MatchInvNext
<1>3. QED  BY MatchInvInit, <1>1, <1>2, PTL DEF Spec


-----------------------------------------------------------------------------
(***************************************************************************)
(* What is written as YAML and read back.  The conversion gives every      *)
(* appender the level of its logger, so only what already is so comes back *)
(* unchanged: the loggers' appenders have to keep up with their levels.    *)
(***************************************************************************)
\* u is s with each element changed by G, and R holds what G makes of S.
Paired(s, S, u, R, G) ==
    /\ Len(s) = Len(u)
    /\ \A i \in 1..Len(s) : s[i] \in S <=> u[i] \in R
    /\ \A i \in 1..Len(s) : s[i] \in S => u[i] = G[s[i]]

\* What is kept is paired too.
LEMMA KeptPairs ==
    ASSUME NEW T, NEW s \in Seq(T), NEW S, NEW U, NEW u \in Seq(U), NEW R, NEW G,
           Paired(s, S, u, R, G)
    PROVE  /\ Len(Kept(u, R)) = Len(Kept(s, S))
           /\ \A j \in 1..Len(Kept(s, S)) : Kept(u, R)[j] = G[Kept(s, S)[j]]
<1> USE DEF Paired
<1>1. PICK f : IsKept(f, s, S, Len(s)) /\ Kept(s, S) = f[Len(s)]
      BY KeptBy
<1>2. PICK g : IsKept(g, u, R, Len(u)) /\ Kept(u, R) = g[Len(u)]
      BY KeptBy
<1>3. Len(s) \in Nat /\ Len(u) \in Nat
      OBVIOUS
<1>4. /\ f[0] = <<>>
      /\ \A i \in 1..Len(s) : f[i] = IF s[i] \in S THEN Append(f[i - 1], s[i]) ELSE f[i - 1]
      BY <1>1, <1>3, KeptSteps
<1>5. /\ g[0] = <<>>
      /\ \A i \in 1..Len(s) : g[i] = IF u[i] \in R THEN Append(g[i - 1], u[i]) ELSE g[i - 1]
      BY <1>2, <1>3, KeptSteps
<1> DEFINE good == {i \in 0..Len(s) :
                      /\ f[i] \in Seq(T) /\ g[i] \in Seq(U) /\ Len(g[i]) = Len(f[i])
                      /\ \A j \in 1..Len(f[i]) : g[i][j] = G[f[i][j]]}
<1>6. 0 \in good
  <2>1. <<>> \in Seq(T) /\ <<>> \in Seq(U) /\ Len(<<>>) = 0
        OBVIOUS
  <2>2. f[0] \in Seq(T) /\ g[0] \in Seq(U) /\ Len(f[0]) = 0 /\ Len(g[0]) = 0
        BY <1>4, <1>5, <2>1
  <2>3. 0 \in 0..Len(s) /\ 1..0 = {}
        BY <1>3
  <2>4. QED  BY <2>2, <2>3
<1>7. ASSUME NEW i \in 0..(Len(s) - 1), i \in good PROVE i + 1 \in good
  <2> DEFINE k == i + 1
  <2>1. k \in 1..Len(s) /\ k - 1 = i /\ s[k] \in T /\ u[k] \in U
        BY <1>3, <1>7, ElementOfSeq
  <2>2. /\ f[i] \in Seq(T) /\ g[i] \in Seq(U) /\ Len(g[i]) = Len(f[i])
        /\ \A j \in 1..Len(f[i]) : g[i][j] = G[f[i][j]]
        BY <1>7
  <2>3. /\ f[k] = IF s[k] \in S THEN Append(f[i], s[k]) ELSE f[i]
        /\ g[k] = IF s[k] \in S THEN Append(g[i], u[k]) ELSE g[i]
        BY <1>4, <1>5, <2>1
  <2>4. s[k] \in S => u[k] = G[s[k]]
        BY <2>1
  <2> HIDE DEF k, good
  <2>5. CASE s[k] \notin S
    <3>1. f[k] = f[i] /\ g[k] = g[i] /\ k \in 0..Len(s)
          BY <2>1, <2>3, <2>5
    <3>2. QED  BY <2>2, <3>1 DEF good, k
  <2>6. CASE s[k] \in S
    <3>1. f[k] = Append(f[i], s[k]) /\ g[k] = Append(g[i], u[k]) /\ k \in 0..Len(s)
          BY <2>1, <2>3, <2>6
    <3>2. /\ f[k] \in Seq(T) /\ Len(f[k]) = Len(f[i]) + 1 /\ f[k][Len(f[i]) + 1] = s[k]
          /\ \A j \in 1..Len(f[i]) : f[k][j] = f[i][j]
          BY <2>1, <2>2, <3>1, AppendProperties
    <3>3. /\ g[k] \in Seq(U) /\ Len(g[k]) = Len(g[i]) + 1 /\ g[k][Len(g[i]) + 1] = u[k]
          /\ \A j \in 1..Len(g[i]) : g[k][j] = g[i][j]
          BY <2>1, <2>2, <3>1, AppendProperties
    <3>4. ASSUME NEW j \in 1..Len(f[k]) PROVE g[k][j] = G[f[k][j]]
      <4>1. CASE j = Len(f[i]) + 1
            BY <2>2, <2>4, <2>6, <3>2, <3>3, <4>1
      <4>2. CASE j \in 1..Len(f[i])
            BY <2>2, <3>2, <3>3, <4>2
      <4>3. Len(f[i]) \in Nat
            BY <2>2
      <4>4. QED  BY <3>2, <4>1, <4>2, <4>3
    <3>5. QED  BY <2>2, <3>1, <3>2, <3>3, <3>4 DEF good, k
  <2>7. QED  BY <2>5, <2>6 DEF k
<1>8. \A i \in 0..Len(s) : i \in good
  <2> HIDE DEF good
  <2>1. QED  BY <1>3, <1>6, <1>7, CountUp
<1>9. Len(s) \in good
      BY <1>3, <1>8
<1>10. QED  BY <1>1, <1>2, <1>9

LEMMA LevelReadBack ==
    ASSUME NEW level \in Levels
    PROVE  FromString(YamlLevel(level)) = level
  BY LogAssumption DEF FromString, YamlLevel

\* A definition whose appenders have its level.
Uniform(d) == \A j \in 1..Len(d.appenders) : d.appenders[j].level = d.level

\* A definition without the appenders of no known type.
Known(d) == [d EXCEPT !.appenders = KnownTypes(@)]

\* A definition that is written and read back: the appenders of no known type
\* are lost.
LEMMA DefineReadBack ==
    ASSUME NEW n \in Names, NEW d \in LogDefine, Uniform(d)
    PROVE  ~Throws(DefineYaml(n, d)) /\ ToDefine(DefineYaml(n, d)) = Known(d)
<1> DEFINE s == d.appenders
           AsYaml(a) == [type |-> IF a.type = "other" THEN "missing" ELSE a.type,
                         level |-> YamlLevel(a.level), formatter |-> a.formatter]
           u == [j \in 1..Len(s) |-> AsYaml(s[j])]
           y == DefineYaml(n, d)
           S == {a \in AppenderDefine : a.type # "other"}
           R == {a \in YamlAppender : a.type # "missing"}
           G == [a \in AppenderDefine |-> AsYaml(a)]
           T == {a \in AppenderDefine : a.level = d.level}
           known == Kept(s, S)
           kept == Kept(u, R)
           f == [j \in 1..Len(kept) |-> [kept[j] EXCEPT !.level = FromString(y.level)]]
<1>1. /\ s \in Seq(AppenderDefine) /\ d.level \in Levels /\ Len(s) \in Nat
      /\ d = [level |-> d.level, appenders |-> s]
      BY DEF LogDefine
<1>2. y.name = n /\ y.level = YamlLevel(d.level) /\ y.appenders = u
      BY DEF DefineYaml
<1>3. \A j \in 1..Len(s) : s[j] \in AppenderDefine /\ s[j].level = d.level
  <2> HIDE DEF s
  <2>1. \A j \in 1..Len(s) : s[j] \in AppenderDefine
        BY <1>1, ElementOfSeq
  <2>2. QED  BY <2>1 DEF Uniform, s
<1>4. \A a \in AppenderDefine : AsYaml(a) \in YamlAppender
      BY LogAssumption DEF AppenderDefine, YamlAppender, YamlLevel
<1>5. \A a \in AppenderDefine : a \in S <=> AsYaml(a) \in R
  <2>1. \A a \in AppenderDefine : a.type # "other" <=> AsYaml(a).type # "missing"
        BY DEF AppenderDefine
  <2> HIDE DEF AsYaml
  <2>2. QED  BY <1>4, <2>1
<1>6. u \in Seq(YamlAppender) /\ Len(u) = Len(s) /\ \A j \in 1..Len(s) : u[j] = AsYaml(s[j])
  <2>1. \A j \in 1..Len(s) : AsYaml(s[j]) \in YamlAppender
        BY <1>3, <1>4
  <2> HIDE DEF s, AsYaml
  <2>2. u \in [1..Len(s) -> YamlAppender] /\ \A j \in 1..Len(s) : u[j] = AsYaml(s[j])
        BY <2>1
  <2> HIDE DEF u
  <2>3. QED  BY <1>1, <2>2, SeqOf
<1>7. ~Throws(y)
  <2>1. n # NoName
        BY LogAssumption
  <2>2. ASSUME YamlLevel(d.level) = NoLevel, NEW j \in 1..Len(u) PROVE u[j].level = NoLevel
    <3>1. j \in 1..Len(s) /\ u[j] = AsYaml(s[j]) /\ s[j].level = d.level
      <4> HIDE DEF s, u, AsYaml
      <4>1. QED  BY <1>3, <1>6, <2>2
    <3> HIDE DEF s, u
    <3>2. QED  BY <2>2, <3>1
  <2> HIDE DEF u, s, y
  <2>3. QED  BY <1>2, <2>1, <2>2 DEF Throws
<1>8. /\ Len(kept) = Len(known) /\ Len(known) \in Nat
      /\ \A j \in 1..Len(known) : kept[j] = AsYaml(known[j]) /\ known[j] \in T
  <2>1. \A j \in 1..Len(s) : s[j] \in S <=> u[j] \in R
    <3> HIDE DEF s, u, S, R, AsYaml
    <3>1. QED  BY <1>3, <1>5, <1>6
  <2>2. \A j \in 1..Len(s) : s[j] \in S => u[j] = G[s[j]]
    <3> HIDE DEF s, u, S, R, AsYaml
    <3>1. QED  BY <1>3, <1>6
  <2>3. /\ Len(kept) = Len(known)
        /\ \A j \in 1..Len(known) : kept[j] = G[known[j]]
    <3> HIDE DEF s, u, S, R, G
    <3>1. s \in Seq(AppenderDefine) /\ u \in Seq(YamlAppender)
          BY <1>1, <1>6
    <3>2. Paired(s, S, u, R, G)
          BY <1>6, <2>1, <2>2 DEF Paired
    <3>3. QED  BY <3>1, <3>2, KeptPairs
  <2>4. s \in Seq(T)
    <3>1. \A j \in 1..Len(s) : s[j] \in T
      <4> HIDE DEF s
      <4>1. QED  BY <1>3
    <3>2. s = [j \in 1..Len(s) |-> s[j]]
      <4> HIDE DEF s
      <4>1. QED  BY <1>1
    <3> HIDE DEF s, T
    <3>3. s \in [1..Len(s) -> T]
          BY <3>1, <3>2
    <3>4. QED  BY <1>1, <3>3, SeqOf
  <2>5. known \in Seq(T \cap S)
    <3> HIDE DEF s, S, T
    <3>1. QED  BY <2>4, KeptSeq
  <2>6. Len(known) \in Nat /\ \A j \in 1..Len(known) : known[j] \in T \cap S
    <3> HIDE DEF known, T, S
    <3>1. QED  BY <2>5, ElementOfSeq
  <2>7. \A j \in 1..Len(known) : known[j] \in AppenderDefine
    <3> HIDE DEF known
    <3>1. QED  BY <2>6
  <2> HIDE DEF known, kept, T, S, AsYaml
  <2>8. QED  BY <2>3, <2>6, <2>7
<1>9. FromString(y.level) = d.level
      BY <1>1, <1>2, LevelReadBack
<1>10. \A j \in 1..Len(known) : [kept[j] EXCEPT !.level = d.level] = known[j]
  <2> SUFFICES ASSUME NEW j \in 1..Len(known)
               PROVE  [kept[j] EXCEPT !.level = d.level] = known[j]
      OBVIOUS
  <2>1. PICK a : a = known[j]
        OBVIOUS
  <2>2. kept[j] = AsYaml(a) /\ a \in T /\ a.type # "other"
    <3>1. known \in Seq(AppenderDefine \cap S)
      <4> HIDE DEF s, S
      <4>1. QED  BY <1>1, KeptSeq
    <3>2. known[j] \in AppenderDefine \cap S
      <4> HIDE DEF known, S
      <4>1. QED  BY <3>1, ElementOfSeq
    <3> HIDE DEF known, kept, T, AsYaml
    <3>3. QED  BY <1>8, <2>1, <3>2
  <2>3. [AsYaml(a) EXCEPT !.level = d.level]
           = [type |-> a.type, level |-> d.level, formatter |-> a.formatter]
        BY <2>2
  <2>4. a = [type |-> a.type, level |-> d.level, formatter |-> a.formatter]
        BY <2>2 DEF AppenderDefine
  <2> HIDE DEF known, kept, AsYaml
  <2>5. QED  BY <2>1, <2>2, <2>3, <2>4
<1>11. f = known
  <2>1. known \in Seq(AppenderDefine \cap S)
    <3> HIDE DEF s, S
    <3>1. QED  BY <1>1, KeptSeq
  <2>2. \A j \in 1..Len(kept) : f[j] = known[j]
    <3> HIDE DEF known, kept, y
    <3>1. QED  BY <1>8, <1>9, <1>10
  <2>3. \A j \in 1..Len(known) : known[j] \in AppenderDefine \cap S
    <3> HIDE DEF known, S
    <3>1. QED  BY <2>1, ElementOfSeq
  <2>4. f \in [1..Len(kept) -> AppenderDefine \cap S]
    <3> HIDE DEF known, kept, y, S
    <3>1. QED  BY <1>8, <2>2, <2>3
  <2> HIDE DEF f, known, kept, S
  <2>5. f \in Seq(AppenderDefine \cap S) /\ Len(f) = Len(known)
        BY <1>8, <2>4, SeqOf
  <2>6. QED  BY <1>8, <2>1, <2>2, <2>5, SeqEqual
<1>12. ToDefine(y) = [level |-> FromString(y.level), appenders |-> f]
      BY <1>2 DEF ToDefine
<1>13. Known(d) = [level |-> d.level, appenders |-> known]
  <2>1. KnownTypes(s) = known
        BY DEF KnownTypes
  <2>2. Known(d) = [d EXCEPT !.appenders = KnownTypes(s)]
        BY DEF Known
  <2> HIDE DEF known, s
  <2>3. QED  BY <1>1, <2>1, <2>2
<1> HIDE DEF f, known
<1>14. QED  BY <1>7, <1>9, <1>11, <1>12, <1>13


\* A logger whose appenders have its level.
LevelWith(n) == \A j \in 1..Len(m_appenders[n]) : m_appenders[n][j].level = m_level[n]

\* A logger that is written and read back.
LEMMA LoggerReadBack ==
    ASSUME LogTypes, NEW n \in Names, LevelWith(n)
    PROVE  LET y == LoggerYaml(n) IN
           /\ ~Throws(y)
           /\ ToDefine(y).level = m_level[n]
           /\ BuiltAll(ToDefine(y).appenders) = m_appenders[n]
<1> DEFINE s == m_appenders[n]
           l == m_level[n]
           u == [j \in 1..Len(s) |-> AppenderYaml(s[j])]
           y == LoggerYaml(n)
           R == {a \in YamlAppender : a.type # "missing"}
           S == {a \in AppenderDefine : a.type # "other"}
           kept == Kept(y.appenders, R)
           f == [j \in 1..Len(kept) |-> [kept[j] EXCEPT !.level = FromString(y.level)]]
           b == [j \in 1..Len(s) |-> Built(s[j])]
<1>1. s \in Seq(Appender) /\ Len(s) \in Nat /\ l \in Levels
      BY DEF LogTypes
<1>2. y.name = n /\ y.level = YamlLevel(l) /\ y.appenders = u
      BY DEF LoggerYaml
<1>3. \A j \in 1..Len(s) : s[j] \in Appender /\ s[j].level = l
  <2>1. \A j \in 1..Len(s) : s[j] \in Appender
    <3> HIDE DEF s
    <3>1. QED  BY <1>1, ElementOfSeq
  <2>2. QED  BY <2>1 DEF LevelWith
<1> HIDE DEF s, l, y
<1>4. \A j \in 1..Len(s) : AppenderYaml(s[j]) \in R
      BY <1>3, LogAssumption DEF Appender, YamlAppender, AppenderYaml, YamlLevel
<1>5. u \in Seq(R) /\ Len(u) = Len(s)
  <2>1. u \in [1..Len(s) -> R]
    <3> HIDE DEF R
    <3>1. QED  BY <1>4
  <2> HIDE DEF u, R
  <2>2. QED  BY <1>1, <2>1, SeqOf
<1>6. kept = u
  <2> HIDE DEF u, R
  <2>1. QED  BY <1>2, <1>5, KeptAll
<1>7. ~Throws(y)
  <2>1. n # NoName
        BY LogAssumption
  <2>2. ASSUME YamlLevel(l) = NoLevel, NEW j \in 1..Len(u) PROVE u[j].level = NoLevel
    <3>1. j \in 1..Len(s)
          BY <1>5, <2>2
    <3>2. PICK a : a = s[j] /\ a \in Appender /\ a.level = l
          BY <1>3, <3>1
    <3>3. u[j] = AppenderYaml(a)
          BY <3>1, <3>2
    <3>4. AppenderYaml(a).level = YamlLevel(a.level)
          BY <3>2 DEF AppenderYaml, Appender
    <3> HIDE DEF u
    <3>5. QED  BY <2>2, <3>2, <3>3, <3>4
  <2> HIDE DEF u
  <2>3. QED  BY <1>2, <2>1, <2>2 DEF Throws
<1>8. FromString(y.level) = l
      BY <1>1, <1>2, LevelReadBack
<1>9. \A j \in 1..Len(s) :
         /\ [AppenderYaml(s[j]) EXCEPT !.level = l] = s[j]
         /\ s[j] \in S /\ Built(s[j]) = s[j]
  <2> SUFFICES ASSUME NEW a \in Appender, a.level = l
               PROVE  /\ [AppenderYaml(a) EXCEPT !.level = l] = a
                      /\ a \in S /\ Built(a) = a
      BY <1>3
  <2>1. a = [type |-> a.type, level |-> l, formatter |-> a.formatter]
        BY DEF Appender
  <2>2. AppenderYaml(a) = [type |-> a.type, level |-> YamlLevel(l), formatter |-> a.formatter]
        BY <2>1 DEF AppenderYaml, Appender
  <2>3. [AppenderYaml(a) EXCEPT !.level = l] = a
        BY <2>1, <2>2
  <2>4. a \in S
        BY DEF Appender, AppenderDefine, Patterns
  <2>5. Built(a) = a
    <3>1. a.formatter \notin {"none", "bad"}
          BY DEF Appender, Patterns
    <3>2. Built(a) = [a EXCEPT !.formatter = a.formatter]
          BY <3>1 DEF Built
    <3>3. QED  BY <2>1, <3>2
  <2>6. QED  BY <2>3, <2>4, <2>5
<1>10. s \in Seq(S)
  <2>1. s = [j \in 1..Len(s) |-> s[j]]
        BY <1>1
  <2>2. s \in [1..Len(s) -> S]
    <3> HIDE DEF S
    <3>1. QED  BY <1>9, <2>1
  <2> HIDE DEF S
  <2>3. QED  BY <1>1, <2>2, SeqOf
<1>11. f = s
  <2>1. f = [j \in 1..Len(s) |-> [u[j] EXCEPT !.level = l]]
    <3> HIDE DEF u
    <3>1. Len(kept) = Len(s) /\ kept = u
          BY <1>5, <1>6
    <3> HIDE DEF kept
    <3>2. QED  BY <1>8, <3>1
  <2>2. \A j \in 1..Len(s) : [u[j] EXCEPT !.level = l] = s[j]
    <3>1. \A j \in 1..Len(s) : u[j] = AppenderYaml(s[j])
          OBVIOUS
    <3> HIDE DEF u
    <3>2. QED  BY <1>9, <3>1
  <2>3. s = [j \in 1..Len(s) |-> s[j]]
        BY <1>1
  <2> HIDE DEF f, u
  <2>4. f = [j \in 1..Len(s) |-> s[j]]
        BY <2>1, <2>2
  <2>5. QED  BY <2>3, <2>4
<1>12. ToDefine(y) = [level |-> l, appenders |-> f]
      BY <1>8 DEF ToDefine
<1>13. BuiltAll(s) = s
  <2>1. KnownTypes(s) = s
        BY <1>10, KeptAll DEF KnownTypes
  <2>2. b = s
    <3>1. s = [j \in 1..Len(s) |-> s[j]]
          BY <1>1
    <3>2. b = [j \in 1..Len(s) |-> s[j]]
          BY <1>9
    <3>3. QED  BY <3>1, <3>2
  <2>3. BuiltAll(s) = b
        BY <2>1 DEF BuiltAll
  <2>4. QED  BY <2>2, <2>3
<1> HIDE DEF f
<1>14. ToDefine(y).level = l /\ ToDefine(y).appenders = s
      BY <1>11, <1>12
<1>15. QED  BY <1>7, <1>13, <1>14 DEF s, l, y


LEMMA ToDefineUniform ==
    ASSUME NEW y \in YamlLogger
    PROVE  Uniform(ToDefine(y))
<1> DEFINE S == {a \in YamlAppender : a.type # "missing"}
           kept == Kept(y.appenders, S)
           l == FromString(y.level)
           f == [j \in 1..Len(kept) |-> [kept[j] EXCEPT !.level = l]]
<1>1. y.appenders \in Seq(YamlAppender)
      BY DEF YamlLogger
<1>2. kept \in Seq(YamlAppender \cap S)
      BY <1>1, KeptSeq
<1>3. Len(kept) \in Nat /\ \A j \in 1..Len(kept) : kept[j] \in YamlAppender
  <2>1. Len(kept) \in Nat /\ \A j \in 1..Len(kept) : kept[j] \in YamlAppender \cap S
    <3> HIDE DEF kept, S
    <3>1. QED  BY <1>2, ElementOfSeq
  <2> HIDE DEF kept
  <2>2. QED  BY <2>1
<1>4. \A j \in 1..Len(kept) : [kept[j] EXCEPT !.level = l].level = l
  <2> HIDE DEF kept, l
  <2>1. QED  BY <1>3 DEF YamlAppender
<1>5. ToDefine(y) = [level |-> l, appenders |-> f]
      BY DEF ToDefine
<1>6. Len(f) = Len(kept) /\ \A j \in 1..Len(f) : f[j].level = l
  <2> DEFINE T == {[kept[j] EXCEPT !.level = l] : j \in 1..Len(kept)}
  <2>1. f \in [1..Len(kept) -> T] /\ \A j \in 1..Len(kept) : f[j].level = l
    <3> HIDE DEF kept, l
    <3>1. QED  BY <1>4
  <2> HIDE DEF f, kept, l, T
  <2>2. Len(f) = Len(kept)
        BY <1>3, <2>1, SeqOf
  <2>3. QED  BY <2>1, <2>2
<1> HIDE DEF f
<1>7. QED  BY <1>5, <1>6 DEF Uniform

UniformValue(v) == \A n \in DOMAIN v : Uniform(v[n])

\* Loggers, values and what is still to be added are uniform; the logger
\* that has a new level is about to be emptied.
Levelled ==
    /\ UniformValue(m_val)
    /\ load.pc \in {"next", "clear", "add"} => UniformValue(load.new)
    /\ load.pc \in {"clear", "add"} =>
          m_level[load.name] = IF load.name \in DOMAIN load.new
                               THEN load.new[load.name].level ELSE UNKNOW
    /\ load.pc = "add" =>
          \A j \in 1..Len(load.rest) : load.rest[j].level = m_level[load.name]
    /\ \A n \in Names : ~(load.pc = "clear" /\ n = load.name) => LevelWith(n)

LevelInv == TypeInv /\ Levelled

LEMMA LevelInvInit == Init => LevelInv
<1> SUFFICES ASSUME Init PROVE Levelled
    BY TypeInvInit DEF LevelInv
<1> DEFINE console == [type |-> "stdout", level |-> DEBUG, formatter |-> "default"]
<1>1. /\ \A n \in Names : m_appenders[n] = IF n = Root THEN <<console>> ELSE <<>>
      /\ \A n \in Names : m_level[n] = DEBUG
      BY DEF Init
<1>2. console.level = DEBUG
      OBVIOUS
<1> HIDE DEF console
<1>3. \A n \in Names : LevelWith(n)
      BY <1>1, <1>2 DEF LevelWith
<1>4. UniformValue(m_val)
  <2>1. m_val = <<>> /\ DOMAIN m_val = {}
        BY DEF Init
  <2>2. QED  BY <2>1 DEF UniformValue
<1>5. QED  BY <1>3, <1>4 DEF Init, Levelled, Away

LEMMA LevelledSame ==
    ASSUME Levelled, UNCHANGED <<m_level, m_appenders, m_val, load>>
    PROVE  Levelled'
  BY DEF Levelled, UniformValue, Uniform, LevelWith

LEMMA LevelledLoad ==
    ASSUME LevelInv, LoadStep
    PROVE  Levelled'
<1>a. /\ LogTypes /\ Levelled /\ Registered /\ Pending
      /\ load \in {Away} \cup Loading
      /\ m_appenders \in [Names -> Seq(Appender)] /\ m_level \in [Names -> Levels]
      BY DEF LevelInv, TypeInv, LogTypes
<1>1. ASSUME NEW d \in Documents, LoadRejected(d) PROVE Levelled'
      BY <1>a, <1>1, LevelledSame DEF LoadRejected, LoadOnly, loggerVars
<1>2. ASSUME NEW d \in Documents, LoadAccepted(d) PROVE Levelled'
  <2> DEFINE new == ToDefines(d)
  <2>1. UniformValue(new)
    <3>1. Accepted(d) /\ d \in Seq(YamlLogger)
          BY <1>2, LogAssumption DEF LoadAccepted, Accepted
    <3>2. ASSUME NEW i \in 1..Len(d) PROVE Uniform(ToDefine(d[First(d, d[i].name)]))
      <4>1. First(d, d[i].name) \in 1..Len(d)
            BY <3>1, FirstIs
      <4>2. d[First(d, d[i].name)] \in YamlLogger
            BY <3>1, <4>1, ElementOfSeq
      <4>3. QED  BY <4>2, ToDefineUniform
    <3>3. /\ DOMAIN new = {d[i].name : i \in 1..Len(d)}
          /\ \A n \in DOMAIN new : new[n] = ToDefine(d[First(d, n)])
          BY DEF ToDefines
    <3> HIDE DEF new
    <3>4. QED  BY <3>2, <3>3 DEF UniformValue
  <2>2. /\ load = Away /\ UNCHANGED <<m_level, m_appenders, m_val>>
        /\ load' = Away \/ (load'.pc = "next" /\ load'.new = new)
        BY <1>2 DEF LoadAccepted, BeginLoad, LoadOnly, loggerVars
  <2>3. \A n \in Names : LevelWith(n)'
        BY <1>a, <2>2 DEF Levelled, LevelWith, Away
  <2>4. UniformValue(m_val)'
        BY <1>a, <2>2 DEF Levelled, UniformValue
  <2> HIDE DEF new
  <2>5. load'.pc \in {"next", "clear", "add"} => UniformValue(load.new)'
        BY <2>1, <2>2 DEF UniformValue, Away
  <2>6. load'.pc \in {"idle", "next"}
        BY <2>2 DEF Away
  <2>7. QED  BY <2>3, <2>4, <2>5, <2>6 DEF Levelled
<1>3. ASSUME NEW n \in Names, ApplyLevel(n) PROVE Levelled'
  <2> DEFINE r == [load EXCEPT !.pc = "clear", !.name = n, !.todo = @ \ {n}, !.gone = @ \ {n}]
  <2>1. load \in Loading /\ load.pc = "next"
        BY <1>a, <1>3 DEF ApplyLevel, Away
  <2>2. /\ load' = r /\ r.pc = "clear" /\ r.name = n /\ r.new = load.new
        /\ UNCHANGED <<m_appenders, m_val>>
        BY <1>3, <2>1 DEF ApplyLevel, Loading
  <2>3. /\ m_level' = [m_level EXCEPT ![n] = IF n \in load.todo THEN load.new[n].level ELSE UNKNOW]
        /\ n \in load.todo \/ (load.todo = {} /\ n \in load.gone)
        /\ load.todo \subseteq DOMAIN load.new /\ load.gone \cap DOMAIN load.new = {}
        BY <1>a, <1>3, <2>1 DEF ApplyLevel, Pending
  <2>4. /\ m_level'[n] = IF n \in DOMAIN load.new THEN load.new[n].level ELSE UNKNOW
        /\ \A w \in Names \ {n} : m_level'[w] = m_level[w]
        BY <1>a, <2>3
  <2> HIDE DEF r
  <2>5. \A w \in Names \ {n} : LevelWith(w)'
    <3>1. \A w \in Names : LevelWith(w)
          BY <1>a, <2>1 DEF Levelled
    <3>2. QED  BY <2>2, <2>4, <3>1 DEF LevelWith
  <2>6. UniformValue(m_val)' /\ UniformValue(load.new)'
        BY <1>a, <2>1, <2>2 DEF Levelled, UniformValue
  <2>7. QED  BY <2>2, <2>4, <2>5, <2>6 DEF Levelled
<1>4. CASE ApplyClear
  <2> DEFINE r == [load EXCEPT !.pc = "add", !.rest = ToAdd]
             n == load.name
  <2>1. load \in Loading /\ load.pc = "clear"
        BY <1>a, <1>4 DEF ApplyClear, Away
  <2>2. /\ load' = r /\ r.pc = "add" /\ r.name = n /\ r.new = load.new /\ r.rest = ToAdd
        /\ m_appenders' = [m_appenders EXCEPT ![n] = <<>>]
        /\ UNCHANGED <<m_level, m_val>>
        BY <1>4, <2>1 DEF ApplyClear, Loading
  <2>3. /\ m_level[n] = IF n \in DOMAIN load.new THEN load.new[n].level ELSE UNKNOW
        /\ UniformValue(load.new) /\ UniformValue(m_val)
        /\ \A w \in Names : w # n => LevelWith(w)
        BY <1>a, <2>1 DEF Levelled
  <2>4. \A j \in 1..Len(ToAdd) : ToAdd[j].level = m_level[n]
    <3>1. CASE n \in DOMAIN load.new
      <4>1. Uniform(load.new[n]) /\ ToAdd = load.new[n].appenders
            BY <2>3, <3>1 DEF UniformValue, ToAdd
      <4>2. QED  BY <2>3, <3>1, <4>1 DEF Uniform
    <3>2. CASE n \notin DOMAIN load.new
          BY <3>2 DEF ToAdd
    <3>3. QED  BY <3>1, <3>2
  <2> HIDE DEF r
  <2>5. \A w \in Names : LevelWith(w)'
    <3>1. \A w \in Names \ {n} : m_appenders'[w] = m_appenders[w]
          BY <1>a, <2>2
    <3>2. n \in Names => m_appenders'[n] = <<>>
          BY <1>a, <2>2
    <3>3. QED  BY <2>2, <2>3, <3>1, <3>2 DEF LevelWith
  <2>6. UniformValue(m_val)' /\ UniformValue(load.new)'
        BY <2>2, <2>3 DEF UniformValue
  <2>7. /\ load'.pc = "add" /\ load'.name = n /\ load'.new = load.new /\ load'.rest = ToAdd
        /\ m_level' = m_level
        BY <2>2
  <2> HIDE DEF n
  <2>8. QED  BY <2>3, <2>4, <2>5, <2>6, <2>7 DEF Levelled, n
<1>5. CASE ApplyAdd
  <2>0. PICK n : n = load.name
        OBVIOUS
  <2>1. load \in Loading /\ load.pc = "add" /\ load.rest \in Seq(AppenderDefine)
        BY <1>a, <1>5 DEF ApplyAdd, Away, Loading
  <2>2. n \in Names /\ UNCHANGED <<m_level, m_val>>
        BY <1>a, <1>5, <2>0, <2>1 DEF Registered, LogTypes, ApplyAdd
  <2>3. /\ m_level[n] = IF n \in DOMAIN load.new THEN load.new[n].level ELSE UNKNOW
        /\ UniformValue(load.new) /\ UniformValue(m_val)
        /\ \A w \in Names : LevelWith(w)
        /\ \A j \in 1..Len(load.rest) : load.rest[j].level = m_level[n]
        BY <1>a, <2>0, <2>1 DEF Levelled
  <2>4. CASE load.rest = <<>>
    <3>1. load'.pc = "next" /\ load'.new = load.new /\ UNCHANGED m_appenders
          BY <1>5, <2>1, <2>4 DEF ApplyAdd, Loading
    <3>2. QED  BY <2>2, <2>3, <3>1 DEF Levelled, UniformValue, LevelWith
  <2>5. CASE load.rest # <<>>
    <3> DEFINE a == Head(load.rest)
               s == m_appenders[n]
    <3>1. /\ load'.pc = "add" /\ load'.name = n /\ load'.new = load.new
          /\ load'.rest = Tail(load.rest)
          /\ m_appenders' = IF a.type = "other" THEN m_appenders
                            ELSE [m_appenders EXCEPT ![n] = Append(s, Built(a))]
          BY <1>5, <2>0, <2>1, <2>5 DEF ApplyAdd, Loading
    <3>2. a \in AppenderDefine /\ a.level = m_level[n]
      <4>1. a = load.rest[1] /\ 1 \in 1..Len(load.rest)
            BY <2>1, <2>5
      <4>2. QED  BY <2>1, <2>3, <4>1, ElementOfSeq
    <3>3. \A j \in 1..Len(Tail(load.rest)) : Tail(load.rest)[j].level = m_level[n]
      <4>1. ASSUME NEW j \in 1..Len(Tail(load.rest))
            PROVE  Tail(load.rest)[j] = load.rest[j + 1] /\ j + 1 \in 1..Len(load.rest)
            BY <2>1, <2>5, HeadTailProperties
      <4>2. QED  BY <2>3, <4>1
    <3>4. LevelWith(n)'
      <4>1. CASE a.type = "other"
            BY <2>2, <2>3, <3>1, <4>1 DEF LevelWith
      <4>2. CASE a.type # "other"
        <5>1. Built(a) \in Appender /\ Built(a).level = m_level[n]
              BY <3>2, <4>2, BuiltType DEF Built, AppenderDefine
        <5>2. s \in Seq(Appender) /\ m_appenders'[n] = Append(s, Built(a))
              BY <1>a, <2>2, <3>1, <4>2
        <5>3. \A j \in 1..Len(s) : s[j].level = m_level[n]
              BY <2>2, <2>3 DEF LevelWith
        <5> HIDE DEF s, a
        <5>4. /\ Len(Append(s, Built(a))) = Len(s) + 1 /\ Len(s) \in Nat
              /\ Append(s, Built(a))[Len(s) + 1] = Built(a)
              /\ \A j \in 1..Len(s) : Append(s, Built(a))[j] = s[j]
              BY <5>1, <5>2, AppendProperties
        <5>5. \A j \in 1..(Len(s) + 1) : Append(s, Built(a))[j].level = m_level[n]
              BY <5>1, <5>3, <5>4
        <5>6. m_level'[n] = m_level[n]
              BY <2>2
        <5> DEFINE v == Append(s, Built(a))
        <5>7. m_appenders'[n] = v /\ Len(v) = Len(s) + 1
              BY <5>2, <5>4
        <5>8. \A j \in 1..Len(v) : v[j].level = m_level[n]
              BY <5>5, <5>7
        <5> HIDE DEF v
        <5>9. QED  BY <5>6, <5>7, <5>8 DEF LevelWith
      <4>3. QED  BY <4>1, <4>2
    <3>5. ASSUME NEW w \in Names, w # n PROVE LevelWith(w)'
      <4>1. m_appenders'[w] = m_appenders[w]
            BY <1>a, <3>1, <3>5
      <4>2. QED  BY <2>2, <2>3, <4>1 DEF LevelWith
    <3>6. UniformValue(m_val)' /\ UniformValue(load.new)'
          BY <2>2, <2>3, <3>1 DEF UniformValue
    <3>7. m_level' = m_level
          BY <2>2
    <3> HIDE DEF a, s
    <3>8. QED  BY <2>3, <3>1, <3>3, <3>4, <3>5, <3>6, <3>7 DEF Levelled
  <2>6. QED  BY <2>4, <2>5
<1>6. CASE LoadStore
  <2>1. /\ load.pc = "next" /\ m_val' = load.new /\ load' = Away
        /\ UNCHANGED <<m_level, m_appenders>>
        BY <1>6 DEF LoadStore, LoadOnly, loggerVars
  <2>2. QED  BY <1>a, <2>1 DEF Levelled, UniformValue, LevelWith, Away
<1>7. QED
  <2>1. LoadStep
        OBVIOUS
  <2>2. QED  BY <1>1, <1>2, <1>3, <1>4, <1>5, <1>6, <2>1, Zenon DEF LoadStep

LEMMA LevelInvNext == LevelInv /\ [Next]_vars => LevelInv'
<1> SUFFICES ASSUME LevelInv, [Next]_vars PROVE Levelled'
    BY TypeInvNext DEF LevelInv
<1>1. CASE UNCHANGED <<m_level, m_appenders, m_val, load>>
      BY <1>1, LevelledSame DEF LevelInv
<1>2. ASSUME NEW t \in Clients, ClientStep(t)
      PROVE  UNCHANGED <<m_level, m_appenders, m_val, load>>
      BY <1>2 DEF ClientStep, GetLogger, Gate, LogStep, LogLevel, LogEmpty, LogWrite, loggerVars
<1>3. UNCHANGED vars => UNCHANGED <<m_level, m_appenders, m_val, load>>
      BY DEF vars, loggerVars
<1>4. QED  BY <1>1, <1>2, <1>3, LevelledLoad DEF Next, Quiescent

\* Between two loads what the stored value and the LoggerManager are written
\* as is read back as what they are.
THEOREM DumpReadsBack == Spec => []DumpReloads
<1>1. LevelInv => DumpReloads
  <2> SUFFICES ASSUME LevelInv, load = Away PROVE DumpReloads
      BY DEF DumpReloads
  <2>1. \A n \in Names : LevelWith(n)
        BY DEF LevelInv, Levelled, Away
  <2>2. LogTypes /\ m_loggers \subseteq Names
        BY DEF LevelInv, TypeInv, LogTypes
  <2>3. ASSUME NEW n \in m_loggers
        PROVE  LET y == LoggerYaml(n) IN
               /\ ~Throws(y)
               /\ ToDefine(y).level = m_level[n]
               /\ BuiltAll(ToDefine(y).appenders) = m_appenders[n]
        BY <2>1, <2>2, LoggerReadBack
  <2>4. ASSUME NEW n \in DOMAIN m_val
        PROVE  LET y == DefineYaml(n, m_val[n]) IN
               ~Throws(y) /\ ToDefine(y) = [m_val[n] EXCEPT !.appenders = KnownTypes(@)]
    <3>1. n \in Names /\ m_val[n] \in LogDefine
          BY <2>2, DefinesShape DEF LogTypes
    <3>2. Uniform(m_val[n])
          BY DEF LevelInv, Levelled, UniformValue
    <3>3. QED  BY <3>1, <3>2, DefineReadBack DEF Known
  <2>5. QED  BY <2>3, <2>4 DEF DumpReloads
<1>2. QED  BY LevelInvInit, LevelInvNext, <1>1, PTL DEF Spec
=============================================================================
