------------------------- MODULE LogFormatterProofs -------------------------
(***************************************************************************)
(* PositionsValid, ErrorExact and RoundTrip of LogFormatter, for patterns  *)
(* of any length over any alphabet.                                        *)
(***************************************************************************)
EXTENDS LogFormatter, TLAPS, SequenceTheorems, WellFoundedInduction

\* The parts of the state the argument is about: outside "scan" and "emit"
\* nothing need be known of the inner loop.
ParserTypes ==
    /\ m_pattern \in Seq(Chars)
    /\ pc \in {"outer", "scan", "emit", "done"}
    /\ fmt_status \in {0, 1}
    /\ n \in Nat
    /\ fmt_begin \in Nat

ParserInv == ParserTypes /\ PositionsValid

\* The parser starts at the first character.
LEMMA ParserInvInit == Init => ParserInv
<1> SUFFICES ASSUME Init PROVE ParserInv
    OBVIOUS
<1>1. PICK k \in 0..MaxLen : m_pattern \in [1..k -> Chars]
      BY DEF Init
<1>2. k \in Nat
      BY FormatterAssumption
<1>3. Seq(Chars) = UNION {[1..j -> Chars] : j \in Nat}
      BY SeqDef
<1>4. m_pattern \in Seq(Chars)
      BY <1>1, <1>2, <1>3
<1>5. Len(m_pattern) \in Nat
      BY <1>4, LenProperties
<1>6. QED  BY <1>4, <1>5 DEF Init, ParserInv, ParserTypes, PositionsValid, Size

\* Every turn of the two loops keeps the positions valid.
LEMMA ParserInvNext == ParserInv /\ [Next]_vars => ParserInv'
<1> SUFFICES ASSUME ParserInv, [Next]_vars PROVE ParserInv'
    OBVIOUS
<1> USE DEF ParserInv, ParserTypes, PositionsValid, Size, scanVars, Scanning
<1>0. Len(m_pattern) \in Nat
      BY LenProperties
<1>1. CASE Ordinary   BY <1>1 DEF Ordinary
<1>2. CASE Percent    BY <1>2 DEF Percent
<1>3. CASE BeginItem  BY <1>3 DEF BeginItem
<1>4. CASE ScanStop   BY <1>0, <1>4 DEF ScanStop
<1>5. CASE ScanOpen   BY <1>0, <1>5 DEF ScanOpen
<1>6. CASE ScanClose  BY <1>0, <1>6 DEF ScanClose
<1>7. CASE ScanOn     BY <1>0, <1>7 DEF ScanOn
<1>8. CASE ScanEnd    BY <1>0, <1>8 DEF ScanEnd
<1>9. CASE EmitItem   BY <1>0, <1>9 DEF EmitItem
<1>10. CASE EmitError BY <1>0, <1>10 DEF EmitError
<1>11. CASE Finish    BY <1>11 DEF Finish
<1>12. CASE Done \/ UNCHANGED vars
       BY <1>12 DEF Done, vars
<1>13. QED
       BY <1>1, <1>2, <1>3, <1>4, <1>5, <1>6, <1>7, <1>8, <1>9, <1>10, <1>11, <1>12
       DEF Next, Parse

\* init() calls substr() and operator[] with positions of the pattern only,
\* whatever the pattern: no std::out_of_range, no read past the end.
THEOREM PositionsAlwaysValid == Spec => []PositionsValid
<1>1. ParserInv => PositionsValid
      BY DEF ParserInv
<1>2. QED  BY ParserInvInit, ParserInvNext, <1>1, PTL DEF Spec

-----------------------------------------------------------------------------
Part == [kind : {"text", "item", "error"}, str : Seq(Chars), fmt : Seq(Chars)]

ErrorTypes ==
    /\ vec \in Seq(Part)
    /\ nstr \in Seq(Chars) /\ str \in Seq(Chars) /\ fmt \in Seq(Chars)
    /\ m_error \in BOOLEAN

\* Until the end m_error tells whether vec holds a part that was not closed.
ErrorMarked == \E k \in 1..Len(vec) : vec[k].kind = "error"

ErrorInv ==
    /\ ParserInv
    /\ ErrorTypes
    /\ pc # "done" => (m_error <=> ErrorMarked)
    /\ ErrorExact

\* The parts that are written as an error mark.
Bad(part) == part.kind = "error" \/ (part.kind = "item" /\ ~IsKnown(part.str))

LEMMA FormatItemMark ==
    ASSUME NEW part \in Part
    PROVE  FormatItem(part).mark <=> Bad(part)
BY DEF Part, Bad, FormatItem, Literal, PatternErrorMark, ErrorFormatMark

\* Ordinary characters that are stored change nothing in the marks.
LEMMA FlushedParts ==
    ASSUME vec \in Seq(Part), nstr \in Seq(Chars)
    PROVE  /\ Flushed \in Seq(Part)
           /\ (\E k \in 1..Len(Flushed) : Flushed[k].kind = "error") <=> ErrorMarked
           /\ (\E k \in 1..Len(Flushed) : Bad(Flushed[k]))
                  <=> (\E k \in 1..Len(vec) : Bad(vec[k]))
<1>1. CASE nstr = <<>>
      BY <1>1 DEF Flushed, ErrorMarked
<1>2. CASE nstr # <<>>
  <2>1. Text(nstr) \in Part /\ Text(nstr).kind = "text"
        BY DEF Text, Part
  <2>2. Flushed = Append(vec, Text(nstr))
        BY <1>2 DEF Flushed
  <2>3. /\ Flushed \in Seq(Part)
        /\ Len(Flushed) = Len(vec) + 1
        /\ \A k \in 1..Len(vec) : Flushed[k] = vec[k]
        /\ Flushed[Len(vec) + 1] = Text(nstr)
        BY <2>1, <2>2, AppendProperties
  <2>4. Len(vec) \in Nat
        BY LenProperties
  <2>5. QED  BY <2>1, <2>3, <2>4 DEF ErrorMarked, Bad
<1>3. QED  BY <1>1, <1>2

\* What a part that is added means for the marks.
LEMMA AppendedPart ==
    ASSUME NEW s \in Seq(Part), NEW part \in Part
    PROVE  /\ Append(s, part) \in Seq(Part)
           /\ (\E k \in 1..Len(Append(s, part)) : Append(s, part)[k].kind = "error")
                  <=> (\E k \in 1..Len(s) : s[k].kind = "error") \/ part.kind = "error"
<1>1. /\ Append(s, part) \in Seq(Part)
      /\ Len(Append(s, part)) = Len(s) + 1
      /\ \A k \in 1..Len(s) : Append(s, part)[k] = s[k]
      /\ Append(s, part)[Len(s) + 1] = part
      BY AppendProperties
<1>2. Len(s) \in Nat
      BY LenProperties
<1>3. QED  BY <1>1, <1>2

\* A name or a format is a piece of the pattern.
LEMMA SubstrType ==
    ASSUME ParserInv, NEW a \in 1..(Size + 1), NEW b \in (a - 1)..Size
    PROVE  Substr(a, b) \in Seq(Chars)
<1>1. m_pattern \in Seq(Chars)
      BY DEF ParserInv, ParserTypes
<1>2. QED  BY <1>1, SubSeqProperties DEF Substr, Size

LEMMA ErrorInvInit == Init => ErrorInv
<1> SUFFICES ASSUME Init PROVE ErrorInv
    OBVIOUS
<1>1. vec = <<>> /\ pc = "outer" /\ m_error = FALSE
      BY DEF Init
<1>2. ErrorTypes
      BY <1>1, EmptySeq DEF Init, ErrorTypes
<1>3. ~ErrorMarked
      BY <1>1 DEF ErrorMarked
<1>4. ErrorExact
      BY <1>1 DEF ErrorExact
<1>5. QED  BY <1>1, <1>2, <1>3, <1>4, ParserInvInit DEF ErrorInv

LEMMA ErrorInvNext == ErrorInv /\ [Next]_vars => ErrorInv'
<1> SUFFICES ASSUME ErrorInv, [Next]_vars PROVE ErrorInv'
    OBVIOUS
<1>a. ParserInv /\ ParserInv'
      BY ParserInvNext DEF ErrorInv
<1>b. Len(m_pattern) \in Nat
      BY <1>a, LenProperties DEF ParserInv, ParserTypes
<1> USE <1>a DEF ErrorInv, ErrorTypes, scanVars
<1>1. CASE Ordinary
  <2>1. nstr' \in Seq(Chars)
        BY <1>1, <1>b DEF Ordinary, ParserInv, ParserTypes, PositionsValid, Size
  <2>2. QED  BY <2>1, <1>1 DEF Ordinary, ErrorMarked, ErrorExact
<1>2. CASE Percent
  <2>1. nstr' \in Seq(Chars)
        BY <1>2 DEF Percent, Chars
  <2>2. QED  BY <2>1, <1>2 DEF Percent, ErrorMarked, ErrorExact
<1>3. CASE BeginItem
      BY <1>3 DEF BeginItem, ErrorMarked, ErrorExact
<1>4. CASE ScanStop
  <2>0. i + 1 \in 1..(Size + 1) /\ n - 1 \in ((i + 1) - 1)..Size
        BY <1>4, <1>b DEF ScanStop, Scanning, ParserInv, ParserTypes, PositionsValid, Size
  <2>1. Substr(i + 1, n - 1) \in Seq(Chars)
        BY <2>0, SubstrType
  <2>2. QED  BY <2>1, <1>4 DEF ScanStop, Scanning, ErrorMarked, ErrorExact
<1>5. CASE ScanOpen
  <2>0. i + 1 \in 1..(Size + 1) /\ n - 1 \in ((i + 1) - 1)..Size
        BY <1>5, <1>b DEF ScanOpen, Scanning, ParserInv, ParserTypes, PositionsValid, Size
  <2>1. Substr(i + 1, n - 1) \in Seq(Chars)
        BY <2>0, SubstrType
  <2>2. QED  BY <2>1, <1>5 DEF ScanOpen, Scanning, ErrorMarked, ErrorExact
<1>6. CASE ScanClose
  <2>0. fmt_begin + 1 \in 1..(Size + 1) /\ n - 1 \in ((fmt_begin + 1) - 1)..Size
        BY <1>6, <1>b DEF ScanClose, Scanning, ParserInv, ParserTypes, PositionsValid, Size
  <2>1. Substr(fmt_begin + 1, n - 1) \in Seq(Chars)
        BY <2>0, SubstrType
  <2>2. QED  BY <2>1, <1>6 DEF ScanClose, Scanning, ErrorMarked, ErrorExact
<1>7. CASE ScanOn
  <2>0. i + 1 \in 1..(Size + 1) /\ Size \in ((i + 1) - 1)..Size
        BY <1>7, <1>b DEF ScanOn, Scanning, ParserInv, ParserTypes, PositionsValid, Size
  <2>1. Substr(i + 1, Size) \in Seq(Chars)
        BY <2>0, SubstrType
  <2>2. QED  BY <2>1, <1>7 DEF ScanOn, Scanning, ErrorMarked, ErrorExact
<1>8. CASE ScanEnd
      BY <1>8 DEF ScanEnd, ErrorMarked, ErrorExact
<1>9. CASE EmitItem
  <2>1. Item(str, fmt) \in Part /\ Item(str, fmt).kind # "error"
        BY DEF Item, Part
  <2>2. vec' \in Seq(Part) /\ (ErrorMarked' <=> ErrorMarked)
        BY <1>9, <2>1, FlushedParts, AppendedPart DEF EmitItem, ErrorMarked
  <2>3. QED  BY <2>2, <1>9 DEF EmitItem, ErrorExact
<1>10. CASE EmitError
  <2>1. PatternError(fmt) \in Part /\ PatternError(fmt).kind = "error"
        BY DEF PatternError, Part
  <2>2. vec' \in Seq(Part) /\ ErrorMarked'
        BY <1>10, <2>1, AppendedPart DEF EmitError, ErrorMarked
  <2>3. QED  BY <2>2, <1>10 DEF EmitError, ErrorExact
<1>11. CASE Finish
  <2>1. vec' = Flushed /\ pc' = "done"
        BY <1>11 DEF Finish
  <2>2. vec' \in Seq(Part) /\ Len(vec') \in Nat /\ m_error' \in BOOLEAN
        BY <2>1, <1>11, FlushedParts, LenProperties DEF Finish
  <2>3. m_error' <=> \E k \in 1..Len(vec) : Bad(vec[k])
        BY <1>11 DEF Finish, ErrorMarked, Bad, IsKnown
  <2>4. m_error' <=> \E k \in 1..Len(vec') : Bad(vec'[k])
        BY <2>1, <2>3, FlushedParts
  <2>5. \A k \in 1..Len(vec') : vec'[k] \in Part
        BY <2>2, ElementOfSeq
  <2>6. \A k \in 1..Len(vec') : m_items'[k].mark <=> Bad(vec'[k])
        BY <2>5, FormatItemMark DEF m_items
  <2>7. Len(m_items') = Len(vec')
        BY <2>2 DEF m_items
  <2>8. ErrorExact'
        BY <2>4, <2>6, <2>7 DEF ErrorExact
  <2>9. QED  BY <2>1, <2>2, <2>8, <1>11 DEF Finish
<1>12. CASE Done \/ UNCHANGED vars
  <2>1. UNCHANGED vars
        BY <1>12 DEF Done
  <2>2. (m_items = m_items') /\ (ErrorMarked <=> ErrorMarked')
        BY <2>1 DEF vars, m_items, ErrorMarked
  <2>3. QED  BY <2>1, <2>2 DEF vars, ErrorExact
<1>13. QED
       BY <1>1, <1>2, <1>3, <1>4, <1>5, <1>6, <1>7, <1>8, <1>9, <1>10, <1>11, <1>12
       DEF Next, Parse

\* isError() is right about every pattern over every alphabet and table of
\* items: the listener of "logs" never takes a formatter that would write an
\* error mark into the log, and never rejects one that would not.
THEOREM IsErrorExact == Spec => []ErrorExact
<1>1. ErrorInv => ErrorExact
      BY DEF ErrorInv
<1>2. QED  BY ErrorInvInit, ErrorInvNext, <1>1, PTL DEF Spec


-----------------------------------------------------------------------------
(***************************************************************************)
(* Nothing of a pattern is lost.  Unparsed is a recursive function of the  *)
(* parts: what is true of no parts and carried over by one more part is    *)
(* true of all.                                                            *)
(***************************************************************************)
LEMMA LeastNumber ==
    ASSUME NEW S \in SUBSET Nat, S # {}
    PROVE  \E x \in S : \A y \in S : x <= y
<1>1. PICK x \in S : \A y \in S : ~(<<y, x>> \in OpToRel(<,Nat))
      BY NatLessThanWellFounded, WFMin, Zenon
<1>2. \A y \in S : ~(y < x)
      BY <1>1 DEF OpToRel
<1>3. \A y \in S : x <= y
      BY <1>2
<1>4. QED  BY <1>3

\* What holds of 0 and is carried from each number to the next, up to m.
LEMMA CountUpTo ==
    ASSUME NEW m \in Nat, NEW S, 0 \in S, \A k \in 0..(m - 1) : k \in S => k + 1 \in S
    PROVE  \A k \in 0..m : k \in S
<1> DEFINE bad == {k \in 0..m : k \notin S}
<1> SUFFICES ASSUME bad # {} PROVE FALSE
    OBVIOUS
<1>1. bad \in SUBSET Nat
      OBVIOUS
<1>2. PICK x \in bad : \A y \in bad : x <= y
  <2> HIDE DEF bad
  <2>1. QED  BY <1>1, LeastNumber
<1>3. x - 1 \in 0..(m - 1) /\ x - 1 \notin bad
      BY <1>2
<1>4. QED  BY <1>3

\* The parts written so far, and one more.
With(chars, part) == chars \o Source(part)

\* f[k] is the first k parts, written out.
IsUpTo(f, s, m) ==
    f = [k \in 0..m |-> IF k = 0 THEN <<>> ELSE With(f[k - 1], s[k])]

LEMMA UpToSteps ==
    ASSUME NEW f, NEW s, NEW m \in Nat, IsUpTo(f, s, m)
    PROVE  f[0] = <<>> /\ \A k \in 1..m : f[k] = With(f[k - 1], s[k])
<1> DEFINE F(k) == IF k = 0 THEN <<>> ELSE With(f[k - 1], s[k])
<1>1. f = [k \in 0..m |-> F(k)]
      BY DEF IsUpTo
<1> HIDE DEF F
<1>2. \A k \in 0..m : f[k] = F(k)
      BY <1>1
<1>3. QED  BY <1>2 DEF F

LEMMA UnparsedBy ==
    ASSUME NEW T, NEW s \in Seq(T)
    PROVE  \E f : IsUpTo(f, s, Len(s)) /\ Unparsed(s) = f[Len(s)]
<1> DEFINE has == {m \in 0..Len(s) : \E f : IsUpTo(f, s, m)}
<1>1. 0 \in has
  <2> DEFINE g == [k \in 0..0 |-> <<>>]
             h == [k \in 0..0 |-> IF k = 0 THEN <<>> ELSE With(g[k - 1], s[k])]
  <2>1. g = h
    <3>1. \A k \in 0..0 : h[k] = <<>>
          OBVIOUS
    <3>2. h = [k \in 0..0 |-> h[k]]
          OBVIOUS
    <3> HIDE DEF h
    <3>3. QED  BY <3>1, <3>2
  <2> HIDE DEF g
  <2>2. IsUpTo(g, s, 0)
        BY <2>1 DEF IsUpTo
  <2>3. QED  BY <2>2
<1>2. ASSUME NEW m \in 0..(Len(s) - 1), m \in has PROVE m + 1 \in has
  <2>1. PICK f : IsUpTo(f, s, m)
        BY <1>2
  <2> DEFINE next == With(f[m], s[m + 1])
             g == [k \in 0..(m + 1) |-> IF k = m + 1 THEN next ELSE f[k]]
             h == [k \in 0..(m + 1) |-> IF k = 0 THEN <<>> ELSE With(g[k - 1], s[k])]
  <2>2. f[0] = <<>> /\ \A k \in 1..m : f[k] = With(f[k - 1], s[k])
        BY <2>1, UpToSteps
  <2>3. ASSUME NEW k \in 0..(m + 1) PROVE g[k] = h[k]
    <3>1. CASE k = 0
          BY <3>1, <2>2
    <3>2. CASE k \in 1..m
      <4>1. g[k] = f[k] /\ g[k - 1] = f[k - 1]
            BY <3>2
      <4>2. h[k] = With(g[k - 1], s[k])
            BY <3>2
      <4> HIDE DEF g, h
      <4>3. QED  BY <3>2, <4>1, <4>2, <2>2
    <3>3. CASE k = m + 1
      <4>1. g[k] = next /\ g[k - 1] = f[m]
            BY <3>3
      <4> HIDE DEF g
      <4>2. QED  BY <3>3, <4>1
    <3>4. QED  BY <3>1, <3>2, <3>3
  <2>4. g = h
    <3>1. g = [k \in 0..(m + 1) |-> g[k]] /\ h = [k \in 0..(m + 1) |-> h[k]]
          OBVIOUS
    <3> HIDE DEF g, h
    <3>2. QED  BY <2>3, <3>1
  <2>5. IsUpTo(g, s, m + 1)
        BY <2>4 DEF IsUpTo
  <2> HIDE DEF g
  <2>6. QED  BY <2>5
<1>3. Len(s) \in has
  <2>1. Len(s) \in Nat
        OBVIOUS
  <2> HIDE DEF has
  <2>2. \A k \in 0..Len(s) : k \in has
        BY <1>1, <1>2, <2>1, CountUpTo
  <2>3. QED  BY <2>1, <2>2
<1>4. PICK f : f = CHOOSE g : IsUpTo(g, s, Len(s))
      OBVIOUS
<1>5. IsUpTo(f, s, Len(s))
      BY <1>3, <1>4
<1>6. Unparsed(s) = f[Len(s)]
      BY <1>4 DEF Unparsed, IsUpTo, With
<1>7. QED  BY <1>5, <1>6

LEMMA UnparsedNone == Unparsed(<<>>) = <<>>
<1>1. <<>> \in Seq({}) /\ Len(<<>>) = 0
      OBVIOUS
<1>2. \E f : IsUpTo(f, <<>>, Len(<<>>)) /\ Unparsed(<<>>) = f[Len(<<>>)]
      BY <1>1, UnparsedBy
<1>3. PICK f : IsUpTo(f, <<>>, 0) /\ Unparsed(<<>>) = f[0]
      BY <1>1, <1>2
<1>4. QED  BY <1>3, UpToSteps

\* One more part is written after the others.
LEMMA UnparsedAppend ==
    ASSUME NEW T, NEW s \in Seq(T), NEW part \in T
    PROVE  Unparsed(Append(s, part)) = Unparsed(s) \o Source(part)
<1> DEFINE t == Append(s, part)
<1>1. t \in Seq(T) /\ Len(s) \in Nat /\ Len(t) = Len(s) + 1 /\ t[Len(s) + 1] = part
      OBVIOUS
<1>2. \A k \in 1..Len(s) : t[k] = s[k]
      OBVIOUS
<1> HIDE DEF t
<1>3. PICK f : IsUpTo(f, s, Len(s)) /\ Unparsed(s) = f[Len(s)]
      BY UnparsedBy
<1>4. PICK g : IsUpTo(g, t, Len(t)) /\ Unparsed(t) = g[Len(t)]
      BY <1>1, UnparsedBy
<1>5. f[0] = <<>> /\ \A k \in 1..Len(s) : f[k] = With(f[k - 1], s[k])
      BY <1>1, <1>3, UpToSteps
<1>6. g[0] = <<>> /\ \A k \in 1..Len(t) : g[k] = With(g[k - 1], t[k])
  <2>1. Len(t) \in Nat
        BY <1>1
  <2>2. QED  BY <1>4, <2>1, UpToSteps
<1> DEFINE good == {k \in 0..Len(s) : f[k] = g[k]}
<1>7. 0 \in good
      BY <1>1, <1>5, <1>6
<1>8. ASSUME NEW k \in 0..(Len(s) - 1), k \in good PROVE k + 1 \in good
  <2>1. k + 1 \in 1..Len(s) /\ k + 1 \in 1..Len(t) /\ f[k] = g[k] /\ t[k + 1] = s[k + 1]
        BY <1>1, <1>2, <1>8
  <2>2. f[k + 1] = With(f[k], s[k + 1]) /\ g[k + 1] = With(g[k], t[k + 1])
    <3>1. (k + 1) - 1 = k
          OBVIOUS
    <3>2. QED  BY <1>5, <1>6, <2>1, <3>1
  <2>3. QED  BY <2>1, <2>2
<1>9. \A k \in 0..Len(s) : k \in good
  <2> HIDE DEF good
  <2>1. QED  BY <1>1, <1>7, <1>8, CountUpTo
<1>10. f[Len(s)] = g[Len(s)]
      BY <1>1, <1>9
<1>11. g[Len(t)] = With(g[Len(s)], part)
  <2>1. Len(t) \in 1..Len(t) /\ Len(t) - 1 = Len(s) /\ t[Len(t)] = part
        BY <1>1
  <2>2. QED  BY <1>6, <2>1
<1>12. QED  BY <1>3, <1>4, <1>10, <1>11 DEF t, With


\* The patterns RoundTrip is about, as long as no brace was left open.
Plain == ~Has("%", "%") /\ ~Has("open", "close") /\ ~ErrorMarked

\* What the inner loop has of its item: nothing before the name has ended,
\* the name before the format has.
ScanOut ==
    /\ fmt = <<>>
    /\ fmt_status = 0 => str = IF n <= Size THEN <<>> ELSE Substr(i + 1, Size)
    /\ fmt_status = 1 /\ n <= Size => str = Substr(i + 1, fmt_begin - 1)

\* The parts and nstr are what lies before i, the item what lies from i to n.
RoundInv ==
    /\ Unparsed(vec) \in Seq(Chars)
    /\ Plain /\ pc # "done" => Unparsed(vec) \o nstr = Substr(1, i - 1)
    /\ Plain /\ pc = "scan" => ScanOut
    /\ Plain /\ pc = "emit" /\ fmt_status = 0 => Source(Item(str, fmt)) = Substr(i, n - 1)
    /\ Plain /\ pc = "done" => Unparsed(vec) = m_pattern

LEMMA CharsHold == "%" \in Chars /\ "open" \in Chars /\ "close" \in Chars
  BY DEF Chars

LEMMA SourceType ==
    ASSUME NEW part \in Part
    PROVE  Source(part) \in Seq(Chars)
<1> DEFINE s == part.str
           f == part.fmt
           braces == IF f = <<>> THEN <<>> ELSE <<"open">> \o f \o <<"close">>
<1>1. s \in Seq(Chars) /\ f \in Seq(Chars)
      BY DEF Part
<1>2. <<"%">> \in Seq(Chars) /\ <<"open">> \in Seq(Chars) /\ <<"close">> \in Seq(Chars)
      BY CharsHold
<1>3. <<"open">> \o f \o <<"close">> \in Seq(Chars)
  <2> HIDE DEF f
  <2>1. <<"open">> \o f \in Seq(Chars)
        BY <1>1, <1>2, ConcatProperties
  <2>2. QED  BY <1>2, <2>1, ConcatProperties
<1>4. braces \in Seq(Chars)
  <2>1. <<>> \in Seq(Chars)
        OBVIOUS
  <2> HIDE DEF f
  <2>2. QED  BY <1>3, <2>1
<1>5. <<"%">> \o s \in Seq(Chars)
  <2> HIDE DEF s
  <2>1. QED  BY <1>1, <1>2, ConcatProperties
<1>6. <<"%">> \o s \o braces \in Seq(Chars)
  <2> HIDE DEF s, braces
  <2>1. QED  BY <1>4, <1>5, ConcatProperties
<1>7. Source(part) = IF part.kind = "text" THEN s ELSE <<"%">> \o s \o braces
      BY DEF Source
<1> HIDE DEF s, braces
<1>8. QED  BY <1>1, <1>6, <1>7

\* The parts with the ordinary characters that were waiting.
LEMMA UnparsedFlushed ==
    ASSUME vec \in Seq(Part), nstr \in Seq(Chars), Unparsed(vec) \in Seq(Chars)
    PROVE  Unparsed(Flushed) = Unparsed(vec) \o nstr
<1>1. CASE nstr = <<>>
  <2>1. Flushed = vec
        BY <1>1 DEF Flushed
  <2> DEFINE u == Unparsed(vec)
  <2> HIDE DEF u
  <2>2. u \in Seq(Chars)
        BY DEF u
  <2>3. u \o nstr = u
        BY <1>1, <2>2, ConcatEmptySeq
  <2>4. QED  BY <2>1, <2>3 DEF u
<1>2. CASE nstr # <<>>
  <2>1. Text(nstr) \in Part
        BY DEF Text, Part
  <2>2. Source(Text(nstr)) = nstr
        BY DEF Source, Text
  <2>3. Flushed = Append(vec, Text(nstr))
        BY <1>2 DEF Flushed
  <2>4. Unparsed(Append(vec, Text(nstr))) = Unparsed(vec) \o Source(Text(nstr))
        BY <2>1, UnparsedAppend
  <2>5. QED  BY <2>2, <2>3, <2>4
<1>3. QED  BY <1>1, <1>2

\* A slice with the character after it.
LEMMA SliceOn ==
    ASSUME NEW s \in Seq(Chars), NEW k \in 1..Len(s)
    PROVE  Append(SubSeq(s, 1, k - 1), s[k]) = SubSeq(s, 1, k)
<1>1. /\ 1 \in 1..Len(s) /\ s[k] \in Chars /\ Len(s) \in Nat
      /\ k - 1 \in 0..Len(s) /\ \A j \in 1..(k - 1) : s[j] \in Chars
      BY ElementOfSeq
<1>2. SubSeq(s, 1, k - 1) \in Seq(Chars)
      BY <1>1, SubSeqProperties
<1>3. SubSeq(s, 1, k) = SubSeq(s, 1, k - 1) \o <<s[k]>>
      BY <1>1, SubSeqRecursiveSecond
<1>4. QED  BY <1>1, <1>2, <1>3, AppendIsConcat

\* One more ordinary character.
LEMMA AppendAfter ==
    ASSUME NEW u \in Seq(Chars), NEW w \in Seq(Chars), NEW c \in Chars
    PROVE  u \o Append(w, c) = Append(u \o w, c)
<1>1. Append(w, c) = w \o <<c>> /\ <<c>> \in Seq(Chars)
      BY AppendIsConcat
<1>2. (u \o w) \o <<c>> = u \o (w \o <<c>>)
      BY <1>1, ConcatAssociative
<1>3. u \o w \in Seq(Chars)
      BY ConcatProperties
<1>4. Append(u \o w, c) = (u \o w) \o <<c>>
      BY <1>3, AppendIsConcat
<1>5. QED  BY <1>1, <1>2, <1>4


\* An item without a format is the % and the name.
LEMMA ItemSlice ==
    ASSUME NEW s \in Seq(Chars), NEW a \in 1..Len(s), NEW b \in (a + 1)..(Len(s) + 1),
           s[a] = "%"
    PROVE  Source(Item(SubSeq(s, a + 1, b - 1), <<>>)) = SubSeq(s, a, b - 1)
<1> DEFINE name == SubSeq(s, a + 1, b - 1)
<1>1. Len(s) \in Nat /\ \A j \in 1..Len(s) : s[j] \in Chars
      BY ElementOfSeq
<1>2. /\ a + 1 \in Int /\ b - 1 \in Int /\ b - 1 \in a..Len(s)
      /\ \A j \in (a + 1)..(b - 1) : j \in 1..Len(s)
      BY <1>1
<1>3. name \in Seq(Chars)
      BY <1>1, <1>2, SubSeqProperties
<1>4. SubSeq(s, a, b - 1) = <<"%">> \o name
      BY <1>1, <1>2, SubSeqRecursiveFirst
<1> HIDE DEF name
<1>5. Source(Item(name, <<>>)) = <<"%">> \o name \o <<>>
      BY DEF Source, Item
<1>6. <<"%">> \o name \in Seq(Chars)
  <2>1. <<"%">> \in Seq(Chars)
        BY CharsHold
  <2>2. QED  BY <1>3, <2>1, ConcatProperties
<1>7. (<<"%">> \o name) \o <<>> = <<"%">> \o name
      BY <1>6, ConcatEmptySeq
<1>8. QED  BY <1>4, <1>5, <1>7 DEF name

\* An item with a format is the %, the name, and the format in its braces.
LEMMA FormatSlice ==
    ASSUME NEW s \in Seq(Chars), NEW a \in 1..Len(s), NEW b \in (a + 1)..Len(s),
           NEW c \in (b + 1)..Len(s), c # b + 1,
           s[a] = "%", s[b] = "open", s[c] = "close"
    PROVE  Source(Item(SubSeq(s, a + 1, b - 1), SubSeq(s, b + 1, c - 1))) = SubSeq(s, a, c)
<1> DEFINE name == SubSeq(s, a + 1, b - 1)
           form == SubSeq(s, b + 1, c - 1)
<1>1. Len(s) \in Nat /\ \A j \in 1..Len(s) : s[j] \in Chars
      BY ElementOfSeq
<1>2. /\ \A j \in (a + 1)..(b - 1) : j \in 1..Len(s)
      /\ \A j \in (b + 1)..(c - 1) : j \in 1..Len(s)
      /\ b - 1 \in a..Len(s) /\ c \in b..Len(s) /\ c \in (b + 1)..Len(s)
      /\ b \in 1..Len(s) /\ b + 1 \in 1..Len(s) /\ b \in (a - 1)..Len(s)
      BY <1>1
<1>3. name \in Seq(Chars) /\ form \in Seq(Chars)
      BY <1>1, <1>2, SubSeqProperties
<1>4. form # <<>>
  <2>1. Len(form) = c - 1 - (b + 1) + 1
        BY <1>1, <1>2, SubSeqProperties
  <2> HIDE DEF form
  <2>2. QED  BY <2>1
<1>5. SubSeq(s, a, b - 1) = <<"%">> \o name
      BY <1>1, <1>2, SubSeqRecursiveFirst
<1>6. SubSeq(s, b, c) = <<"open">> \o SubSeq(s, b + 1, c)
      BY <1>1, <1>2, SubSeqRecursiveFirst
<1>7. SubSeq(s, b + 1, c) = form \o <<"close">>
      BY <1>1, <1>2, SubSeqRecursiveSecond
<1>8. SubSeq(s, a, b - 1) \o SubSeq(s, b, c) = SubSeq(s, a, c)
  <2>1. a \in 1..(Len(s) + 1) /\ b - 1 \in (a - 1)..Len(s) /\ c \in (b - 1)..Len(s)
        BY <1>1
  <2>2. (b - 1) + 1 = b
        OBVIOUS
  <2>3. SubSeq(s, a, b - 1) \o SubSeq(s, (b - 1) + 1, c) = SubSeq(s, a, c)
        BY <2>1, ConcatAdjacentSubSeq
  <2>4. QED  BY <2>2, <2>3
<1> HIDE DEF name, form
<1>9. Source(Item(name, form)) = <<"%">> \o name \o (<<"open">> \o form \o <<"close">>)
      BY <1>4 DEF Source, Item
<1>10. <<"open">> \o form \o <<"close">> = <<"open">> \o (form \o <<"close">>)
  <2>1. <<"open">> \in Seq(Chars) /\ <<"close">> \in Seq(Chars)
        BY CharsHold
  <2>2. QED  BY <1>3, <2>1, ConcatAssociative
<1>11. QED  BY <1>5, <1>6, <1>7, <1>8, <1>9, <1>10 DEF name, form


LEMMA RoundInvInit == Init => RoundInv
<1> SUFFICES ASSUME Init PROVE RoundInv
    OBVIOUS
<1>1. vec = <<>> /\ nstr = <<>> /\ pc = "outer" /\ i = 1
      BY DEF Init
<1>2. Unparsed(vec) = <<>>
      BY <1>1, UnparsedNone
<1>3. Substr(1, i - 1) = <<>>
      BY <1>1, SubSeqEmpty DEF Substr
<1>4. <<>> \o <<>> = <<>> /\ <<>> \in Seq(Chars)
      BY ConcatEmptySeq
<1>5. QED  BY <1>1, <1>2, <1>3, <1>4 DEF RoundInv

\* Nothing but what the inner loop has of its item changes.
LEMMA SameParts ==
    ASSUME UNCHANGED <<m_pattern, vec>>
    PROVE  Plain' = Plain /\ Unparsed(vec)' = Unparsed(vec) /\ Size' = Size
BY DEF Plain, Has, Size, ErrorMarked

\* Each turn of the loops moves what it has read to where it belongs.
LEMMA RoundInvNext == ErrorInv /\ RoundInv /\ [Next]_vars => RoundInv'
<1> SUFFICES ASSUME ErrorInv, RoundInv, [Next]_vars PROVE RoundInv'
    OBVIOUS
<1>a. ErrorInv'
      BY ErrorInvNext
<1>b. /\ m_pattern \in Seq(Chars) /\ Size = Len(m_pattern) /\ Size \in Nat
      /\ i \in 1..(Size + 1) /\ n \in Nat /\ fmt_begin \in Nat /\ fmt_status \in {0, 1}
      /\ \A k \in 1..Size : m_pattern[k] \in Chars
      /\ vec \in Seq(Part) /\ nstr \in Seq(Chars) /\ str \in Seq(Chars) /\ fmt \in Seq(Chars)
      BY ElementOfSeq DEF ErrorInv, ErrorTypes, ParserInv, ParserTypes, PositionsValid, Size
<1>c. pc \in {"scan", "emit"} =>
          /\ i <= Size /\ m_pattern[i] = "%"
          /\ n \in (i + 1)..(Size + 1)
          /\ fmt_status = 1 => fmt_begin \in (i + 1)..(n - 1) /\ m_pattern[fmt_begin] = "open"
      BY DEF ErrorInv, ParserInv, PositionsValid
<1>d. /\ Unparsed(vec) \in Seq(Chars)
      /\ Plain /\ pc # "done" => Unparsed(vec) \o nstr = Substr(1, i - 1)
      /\ Plain /\ pc = "scan" => ScanOut
      /\ Plain /\ pc = "emit" /\ fmt_status = 0 => Source(Item(str, fmt)) = Substr(i, n - 1)
      /\ Plain /\ pc = "done" => Unparsed(vec) = m_pattern
      BY DEF RoundInv
<1>1. CASE Ordinary
  <2>1. /\ pc = "outer" /\ pc' = pc /\ i \in 1..Size /\ i' = i + 1
        /\ nstr' = Append(nstr, m_pattern[i]) /\ m_pattern' = m_pattern /\ vec' = vec
        BY <1>1, <1>b DEF Ordinary
  <2>2. Plain' = Plain /\ Unparsed(vec)' = Unparsed(vec)
        BY <2>1, SameParts
  <2>3. ASSUME Plain PROVE Unparsed(vec) \o nstr' = SubSeq(m_pattern, 1, i)
    <3>1. Unparsed(vec) \o nstr = SubSeq(m_pattern, 1, i - 1)
          BY <2>1, <2>3, <1>d DEF Substr
    <3>2. Unparsed(vec) \o nstr' = Append(Unparsed(vec) \o nstr, m_pattern[i])
          BY <2>1, <1>b, <1>d, AppendAfter
    <3>3. Append(SubSeq(m_pattern, 1, i - 1), m_pattern[i]) = SubSeq(m_pattern, 1, i)
          BY <2>1, <1>b, SliceOn
    <3>4. QED  BY <3>1, <3>2, <3>3
  <2>4. i' - 1 = i
        BY <2>1, <1>b
  <2>5. QED  BY <2>1, <2>2, <2>3, <2>4, <1>d DEF RoundInv, Substr
<1>2. CASE Percent
  <2>1. /\ pc = "outer" /\ pc' = pc /\ i \in 1..(Size - 1)
        /\ m_pattern[i] = "%" /\ m_pattern[i + 1] = "%"
        /\ m_pattern' = m_pattern /\ vec' = vec
        BY <1>2, <1>b DEF Percent, Escape
  <2>2. Plain' = Plain /\ Unparsed(vec)' = Unparsed(vec)
        BY <2>1, SameParts
  <2>3. ~Plain
        BY <2>1 DEF Plain, Has
  <2>4. QED  BY <2>1, <2>2, <2>3, <1>d DEF RoundInv
<1>3. CASE BeginItem
  <2>1. /\ pc = "outer" /\ pc' = "scan" /\ i' = i /\ i <= Size /\ n' = i + 1
        /\ fmt_status' = 0 /\ str' = <<>> /\ fmt' = <<>>
        /\ nstr' = nstr /\ m_pattern' = m_pattern /\ vec' = vec
        BY <1>3 DEF BeginItem
  <2>2. Plain' = Plain /\ Unparsed(vec)' = Unparsed(vec) /\ Size' = Size
        BY <2>1, SameParts
  <2>3. ~(n' <= Size) => Substr(i + 1, Size) = <<>>
        BY <2>1, <1>b, SubSeqEmpty DEF Substr
  <2>4. ScanOut'
    <3>1. n' <= Size' <=> n' <= Size
          BY <2>2
    <3>2. Substr(i + 1, Size)' = Substr(i + 1, Size)
          BY <2>1, <2>2 DEF Substr
    <3>3. QED  BY <2>1, <2>3, <3>1, <3>2 DEF ScanOut
  <2>5. QED  BY <2>1, <2>2, <2>4, <1>d DEF RoundInv, Substr
<1>4. CASE ScanStop
  <2>1. /\ pc = "scan" /\ pc' = "emit" /\ i' = i /\ n' = n /\ n <= Size
        /\ fmt_status = 0 /\ fmt_status' = 0
        /\ str' = SubSeq(m_pattern, i + 1, n - 1) /\ fmt' = fmt
        /\ nstr' = nstr /\ m_pattern' = m_pattern /\ vec' = vec
        BY <1>4 DEF ScanStop, Scanning, Substr
  <2>2. Plain' = Plain /\ Unparsed(vec)' = Unparsed(vec)
        BY <2>1, SameParts
  <2>3. ASSUME Plain PROVE Source(Item(str', fmt')) = SubSeq(m_pattern, i, n - 1)
    <3>1. fmt' = <<>>
          BY <2>1, <2>3, <1>d DEF ScanOut
    <3>2. i \in 1..Len(m_pattern) /\ n \in (i + 1)..(Len(m_pattern) + 1) /\ m_pattern[i] = "%"
          BY <2>1, <1>b, <1>c
    <3>3. QED  BY <2>1, <3>1, <3>2, <1>b, ItemSlice
  <2>4. QED  BY <2>1, <2>2, <2>3, <1>d DEF RoundInv, Substr
<1>5. CASE ScanOpen
  <2>1. /\ pc = "scan" /\ pc' = "scan" /\ i' = i /\ fmt_status' = 1
        /\ fmt_status = 0 /\ fmt_begin' = n
        /\ str' = Substr(i + 1, n - 1) /\ fmt' = fmt
        /\ nstr' = nstr /\ m_pattern' = m_pattern /\ vec' = vec
        BY <1>5 DEF ScanOpen, Scanning
  <2>2. Plain' = Plain /\ Unparsed(vec)' = Unparsed(vec) /\ Size' = Size
        BY <2>1, SameParts
  <2>3. Plain => ScanOut'
        BY <2>1, <1>d DEF ScanOut, Substr
  <2>4. QED  BY <2>1, <2>2, <2>3, <1>d DEF RoundInv, Substr
<1>6. CASE ScanClose
  <2>1. /\ pc = "scan" /\ pc' = "emit" /\ i' = i /\ n' = n + 1 /\ n <= Size
        /\ fmt_status = 1 /\ m_pattern[n] = "close" /\ str' = str
        /\ fmt' = SubSeq(m_pattern, fmt_begin + 1, n - 1)
        /\ nstr' = nstr /\ m_pattern' = m_pattern /\ vec' = vec
        BY <1>6 DEF ScanClose, Scanning, Substr
  <2>2. Plain' = Plain /\ Unparsed(vec)' = Unparsed(vec)
        BY <2>1, SameParts
  <2>3. ASSUME Plain PROVE Source(Item(str', fmt')) = SubSeq(m_pattern, i, n)
    <3>1. str' = SubSeq(m_pattern, i + 1, fmt_begin - 1)
          BY <2>1, <2>3, <1>d DEF ScanOut, Substr
    <3>2. /\ i \in 1..Len(m_pattern) /\ m_pattern[i] = "%"
          /\ fmt_begin \in (i + 1)..Len(m_pattern) /\ m_pattern[fmt_begin] = "open"
          /\ n \in (fmt_begin + 1)..Len(m_pattern)
          BY <2>1, <1>b, <1>c
    <3>3. n # fmt_begin + 1
      <4>1. fmt_begin \in 1..(Size - 1)
            BY <3>2, <1>b
      <4>2. ~Has("open", "close")
            BY <2>3 DEF Plain
      <4>3. QED  BY <2>1, <3>2, <4>1, <4>2 DEF Has
    <3>4. QED  BY <2>1, <3>1, <3>2, <3>3, <1>b, FormatSlice
  <2>4. n' - 1 = n
        BY <2>1, <1>b
  <2>5. QED  BY <2>1, <2>2, <2>3, <2>4, <1>d DEF RoundInv, Substr
<1>7. CASE ScanOn
  <2>1. /\ pc = "scan" /\ pc' = "scan" /\ i' = i /\ n' = n + 1 /\ n <= Size
        /\ fmt_status' = fmt_status /\ fmt_begin' = fmt_begin
        /\ str' = (IF n = Size /\ str = <<>> THEN Substr(i + 1, Size) ELSE str)
        /\ fmt' = fmt /\ nstr' = nstr /\ m_pattern' = m_pattern /\ vec' = vec
        BY <1>7 DEF ScanOn, Scanning
  <2>2. Plain' = Plain /\ Unparsed(vec)' = Unparsed(vec) /\ Size' = Size
        BY <2>1, SameParts
  <2>3. ASSUME Plain PROVE ScanOut'
    <3>1. ScanOut
          BY <2>1, <2>3, <1>d
    <3>2. CASE n = Size
          BY <2>1, <2>2, <3>1, <3>2, <1>b DEF ScanOut, Substr
    <3>3. CASE n < Size
          BY <2>1, <2>2, <3>1, <3>3, <1>b DEF ScanOut, Substr
    <3>4. QED  BY <2>1, <3>2, <3>3, <1>b
  <2>4. QED  BY <2>1, <2>2, <2>3, <1>d DEF RoundInv, Substr
<1>8. CASE ScanEnd
  <2>1. /\ pc = "scan" /\ pc' = "emit" /\ i' = i /\ n' = n /\ n > Size
        /\ fmt_status' = fmt_status /\ str' = str /\ fmt' = fmt
        /\ nstr' = nstr /\ m_pattern' = m_pattern /\ vec' = vec
        BY <1>8 DEF ScanEnd, scanVars
  <2>2. Plain' = Plain /\ Unparsed(vec)' = Unparsed(vec)
        BY <2>1, SameParts
  <2>3. ASSUME Plain, fmt_status = 0 PROVE Source(Item(str, fmt)) = SubSeq(m_pattern, i, n - 1)
    <3>1. i \in 1..Len(m_pattern) /\ n \in (i + 1)..(Len(m_pattern) + 1) /\ m_pattern[i] = "%"
          BY <2>1, <1>b, <1>c
    <3>2. n - 1 = Size
      <4>1. n \in Int /\ Size \in Int /\ n <= Size + 1 /\ n > Size
            BY <2>1, <3>1, <1>b
      <4>2. QED  BY <4>1
    <3>3. fmt = <<>> /\ str = SubSeq(m_pattern, i + 1, n - 1)
      <4>1. ScanOut /\ ~(n <= Size)
            BY <2>1, <2>3, <1>b, <1>d
      <4>2. QED  BY <2>3, <3>2, <4>1 DEF ScanOut, Substr
    <3>4. QED  BY <3>1, <3>3, <1>b, ItemSlice
  <2>4. QED  BY <2>1, <2>2, <2>3, <1>d DEF RoundInv, Substr
<1>9. CASE EmitItem
  <2>1. /\ pc = "emit" /\ pc' = "outer" /\ fmt_status = 0 /\ i' = n
        /\ vec' = Append(Flushed, Item(str, fmt)) /\ nstr' = <<>> /\ m_pattern' = m_pattern
        BY <1>9 DEF EmitItem
  <2>2. Item(str, fmt) \in Part /\ Item(str, fmt).kind # "error"
        BY <1>b DEF Item, Part
  <2>3. Flushed \in Seq(Part) /\ (ErrorMarked' <=> ErrorMarked)
        BY <2>1, <2>2, <1>b, FlushedParts, AppendedPart DEF ErrorMarked
  <2>4. Plain' <=> Plain
        BY <2>1, <2>3 DEF Plain, Has, Size
  <2> DEFINE u == Unparsed(vec) \o nstr
             w == Source(Item(str, fmt))
  <2>5. Unparsed(vec') = u \o w
    <3>1. Unparsed(Append(Flushed, Item(str, fmt))) = Unparsed(Flushed) \o w
          BY <2>2, <2>3, UnparsedAppend
    <3>2. Unparsed(Flushed) = u
          BY <1>b, <1>d, UnparsedFlushed
    <3> HIDE DEF u, w
    <3>3. QED  BY <2>1, <3>1, <3>2
  <2>6. u \in Seq(Chars) /\ w \in Seq(Chars)
        BY <2>2, <1>b, <1>d, SourceType, ConcatProperties
  <2>7. u \o w \in Seq(Chars) /\ (u \o w) \o <<>> = u \o w
    <3> HIDE DEF u, w
    <3>1. u \o w \in Seq(Chars)
          BY <2>6, ConcatProperties
    <3>2. QED  BY <3>1, ConcatEmptySeq
  <2>8. ASSUME Plain PROVE u \o w = SubSeq(m_pattern, 1, n - 1)
    <3>1. u = SubSeq(m_pattern, 1, i - 1) /\ w = SubSeq(m_pattern, i, n - 1)
          BY <2>1, <2>8, <1>d DEF Substr
    <3>2. /\ 1 \in 1..(Len(m_pattern) + 1) /\ i - 1 \in (1 - 1)..Len(m_pattern)
          /\ n - 1 \in (i - 1)..Len(m_pattern) /\ (i - 1) + 1 = i
          BY <2>1, <1>b, <1>c
    <3>3. SubSeq(m_pattern, 1, i - 1) \o SubSeq(m_pattern, (i - 1) + 1, n - 1)
              = SubSeq(m_pattern, 1, n - 1)
          BY <3>2, <1>b, ConcatAdjacentSubSeq
    <3> HIDE DEF u, w
    <3>4. QED  BY <3>1, <3>2, <3>3
  <2> HIDE DEF u, w
  <2>9. QED  BY <2>1, <2>4, <2>5, <2>7, <2>8 DEF RoundInv, Substr
<1>10. CASE EmitError
  <2>1. vec' = Append(vec, PatternError(fmt))
        BY <1>10 DEF EmitError
  <2>2. PatternError(fmt) \in Part /\ PatternError(fmt).kind = "error"
        BY <1>b DEF PatternError, Part
  <2>3. ~Plain'
        BY <2>1, <2>2, <1>b, AppendedPart DEF Plain, ErrorMarked
  <2> DEFINE u == Unparsed(vec)
             w == Source(PatternError(fmt))
  <2>4. Unparsed(vec') = u \o w
        BY <2>1, <2>2, <1>b, UnparsedAppend
  <2>5. u \in Seq(Chars) /\ w \in Seq(Chars)
        BY <2>2, <1>d, SourceType
  <2>6. u \o w \in Seq(Chars)
    <3> HIDE DEF u, w
    <3>1. QED  BY <2>5, ConcatProperties
  <2> HIDE DEF u, w
  <2>7. QED  BY <2>3, <2>4, <2>6 DEF RoundInv
<1>11. CASE Finish
  <2>1. /\ pc = "outer" /\ pc' = "done" /\ i > Size /\ vec' = Flushed
        /\ m_pattern' = m_pattern
        BY <1>11 DEF Finish
  <2>2. ErrorMarked' <=> ErrorMarked
        BY <2>1, <1>b, FlushedParts DEF ErrorMarked
  <2>3. Plain' <=> Plain
        BY <2>1, <2>2 DEF Plain, Has, Size
  <2> DEFINE u == Unparsed(vec) \o nstr
  <2>4. Unparsed(vec') = u
        BY <2>1, <1>b, <1>d, UnparsedFlushed
  <2>5. u \in Seq(Chars)
        BY <1>b, <1>d, ConcatProperties
  <2>6. Plain => u = m_pattern
    <3>1. i - 1 = Len(m_pattern)
          BY <2>1, <1>b
    <3>2. SubSeq(m_pattern, 1, Len(m_pattern)) = m_pattern
          BY <1>b, SubSeqFull
    <3>3. QED  BY <2>1, <3>1, <3>2, <1>d DEF Substr
  <2> HIDE DEF u
  <2>7. QED  BY <2>1, <2>3, <2>4, <2>5, <2>6 DEF RoundInv
<1>12. CASE Done \/ UNCHANGED vars
  <2>1. UNCHANGED vars
        BY <1>12 DEF Done
  <2>2. UNCHANGED <<m_pattern, pc, i, n, fmt_status, fmt_begin, str, fmt, nstr, vec>>
        BY <2>1 DEF vars
  <2>3. Plain' = Plain /\ Unparsed(vec)' = Unparsed(vec) /\ Size' = Size
        BY <2>2, SameParts
  <2>4. ScanOut' = ScanOut
        BY <2>2, <2>3 DEF ScanOut, Substr
  <2>5. QED  BY <2>2, <2>3, <2>4, <1>d DEF RoundInv, Substr
<1>13. QED
       BY <1>1, <1>2, <1>3, <1>4, <1>5, <1>6, <1>7, <1>8, <1>9, <1>10, <1>11, <1>12
       DEF Next, Parse

\* init() loses, doubles and moves nothing of a pattern: whatever its length
\* and the alphabet, the texts and items that the two loops store, written
\* out in their order, are the pattern (but for escapes, empty braces and
\* unclosed ones, which leave no trace).
THEOREM PatternKept == Spec => []RoundTrip
<1>1. ErrorInv /\ RoundInv => RoundTrip
  <2> SUFFICES ASSUME RoundInv, pc = "done", ~Has("%", "%"), ~Has("open", "close"),
                      \A k \in 1..Len(vec) : vec[k].kind # "error"
               PROVE  Unparsed(vec) = m_pattern
      BY DEF RoundTrip
  <2>1. Plain
        BY DEF Plain, ErrorMarked
  <2>2. QED  BY <2>1 DEF RoundInv
<1>2. Init => ErrorInv /\ RoundInv
      BY ErrorInvInit, RoundInvInit
<1>3. ErrorInv /\ RoundInv /\ [Next]_vars => (ErrorInv /\ RoundInv)'
      BY ErrorInvNext, RoundInvNext
<1>4. QED  BY <1>1, <1>2, <1>3, PTL DEF Spec
=============================================================================
