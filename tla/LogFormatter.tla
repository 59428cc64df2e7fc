---------------------------- MODULE LogFormatter ----------------------------
(***************************************************************************)
(* LogFormatter of src/_log/log.cpp: init(), the parser of log patterns    *)
(* such as "%d{%Y}%T[%p]%m%n", as the two loops of the code, and the items *)
(* it makes of a pattern, with which format() writes an event.             *)
(* Indexes start at 1, so a position past the end is Len(m_pattern) + 1.   *)
(* The characters { and } are written "open" and "close", and what an item *)
(* writes of an event is named by the event's field.                       *)
(***************************************************************************)
EXTENDS Naturals, Sequences

CONSTANTS
    Known,          \* letters that s_format_items has an item for
    Letters,        \* letters (isalpha); Known is among them
    Others,         \* other characters, besides %, { and }
    MaxLen          \* bound: the length of a pattern

\* What the items of s_format_items write.
s_format_items ==
    [m |-> "content", p |-> "level", r |-> "elapse", c |-> "logger name",
     t |-> "thread id", n |-> "newline", d |-> "time", f |-> "file",
     l |-> "line", T |-> "tab", F |-> "fiber id", N |-> "thread name"]

Chars == Letters \cup Others \cup {"%", "open", "close"}

ASSUME FormatterAssumption ==
    /\ Known \subseteq Letters \cap DOMAIN s_format_items
    /\ Letters \cap (Others \cup {"%", "open", "close"}) = {}
    /\ Others \cap {"%", "open", "close"} = {}
    /\ MaxLen \in Nat

VARIABLES
    m_pattern, m_error,
    pc,             \* "outer" loop, inner "scan", "emit" its result, "done"
    i, n,           \* positions of the outer and the inner loop
    fmt_status, fmt_begin, str, fmt,
    nstr,           \* ordinary characters not yet stored
    vec             \* what was parsed: text, items, and error marks

vars == <<m_pattern, m_error, pc, i, n, fmt_status, fmt_begin, str, fmt, nstr, vec>>
scanVars == <<n, fmt_status, fmt_begin, str, fmt>>

Text(s) == [kind |-> "text", str |-> s, fmt |-> <<>>]
Item(s, f) == [kind |-> "item", str |-> s, fmt |-> f]
PatternError(f) == [kind |-> "error", str |-> <<>>, fmt |-> f]

Init ==
    /\ m_pattern \in UNION {[1..k -> Chars] : k \in 0..MaxLen}
    /\ m_error = FALSE
    /\ pc = "outer"
    /\ i = 1
    /\ n = 0 /\ fmt_status = 0 /\ fmt_begin = 0 /\ str = <<>> /\ fmt = <<>>
    /\ nstr = <<>>
    /\ vec = <<>>

Size == Len(m_pattern)
Substr(a, b) == SubSeq(m_pattern, a, b)

\* vec with the ordinary characters before what comes next.
Flushed == IF nstr = <<>> THEN vec ELSE Append(vec, Text(nstr))

-----------------------------------------------------------------------------
\* An ordinary character.
Ordinary ==
    /\ pc = "outer" /\ i <= Size
    /\ m_pattern[i] # "%"
    /\ nstr' = Append(nstr, m_pattern[i])
    /\ i' = i + 1
    /\ UNCHANGED <<m_pattern, m_error, pc, scanVars, vec>>

Escape == i + 1 <= Size /\ m_pattern[i + 1] = "%"

\* "%%": one % is stored; the loop goes on at the second one.
Percent ==
    /\ pc = "outer" /\ i <= Size
    /\ m_pattern[i] = "%" /\ Escape
    /\ nstr' = Append(nstr, "%")
    /\ i' = i + 1
    /\ UNCHANGED <<m_pattern, m_error, pc, scanVars, vec>>

BeginItem ==
    /\ pc = "outer" /\ i <= Size
    /\ m_pattern[i] = "%" /\ ~Escape
    /\ pc' = "scan"
    /\ n' = i + 1
    /\ fmt_status' = 0 /\ fmt_begin' = 0 /\ str' = <<>> /\ fmt' = <<>>
    /\ UNCHANGED <<m_pattern, m_error, i, nstr, vec>>

Scanning == pc = "scan" /\ n <= Size

StopsName(c) == c \notin Letters /\ c \notin {"open", "close"}

\* A character that ends the name of the item.
ScanStop ==
    /\ Scanning
    /\ fmt_status = 0 /\ StopsName(m_pattern[n])
    /\ str' = Substr(i + 1, n - 1)
    /\ pc' = "emit"
    /\ UNCHANGED <<m_pattern, m_error, i, n, fmt_status, fmt_begin, fmt, nstr, vec>>

ScanOpen ==
    /\ Scanning
    /\ fmt_status = 0 /\ m_pattern[n] = "open"
    /\ str' = Substr(i + 1, n - 1)
    /\ fmt_status' = 1
    /\ fmt_begin' = n
    /\ n' = n + 1
    /\ UNCHANGED <<m_pattern, m_error, pc, i, fmt, nstr, vec>>

ScanClose ==
    /\ Scanning
    /\ fmt_status = 1 /\ m_pattern[n] = "close"
    /\ fmt' = Substr(fmt_begin + 1, n - 1)
    /\ fmt_status' = 0
    /\ n' = n + 1
    /\ pc' = "emit"
    /\ UNCHANGED <<m_pattern, m_error, i, fmt_begin, str, nstr, vec>>

\* Any other character; a name that reaches the end of the pattern is whole.
ScanOn ==
    /\ Scanning
    /\ IF fmt_status = 0 THEN ~StopsName(m_pattern[n]) /\ m_pattern[n] # "open"
                         ELSE m_pattern[n] # "close"
    /\ n' = n + 1
    /\ str' = IF n = Size /\ str = <<>> THEN Substr(i + 1, Size) ELSE str
    /\ UNCHANGED <<m_pattern, m_error, pc, i, fmt_status, fmt_begin, fmt, nstr, vec>>

ScanEnd ==
    /\ pc = "scan" /\ n > Size
    /\ pc' = "emit"
    /\ UNCHANGED <<m_pattern, m_error, i, scanVars, nstr, vec>>

\* Mutant of EmitItem: i is not stepped back before the loop's ++i.
EmitItemAhead ==
    /\ pc = "emit" /\ fmt_status = 0
    /\ vec' = Append(Flushed, Item(str, fmt))
    /\ nstr' = <<>>
    /\ i' = n + 1
    /\ pc' = "outer"
    /\ UNCHANGED <<m_pattern, m_error, scanVars>>

\* Mutant of EmitItem: nstr is not cleared.
EmitItemUncleared ==
    /\ pc = "emit" /\ fmt_status = 0
    /\ vec' = Append(Flushed, Item(str, fmt))
    /\ i' = n
    /\ pc' = "outer"
    /\ UNCHANGED <<m_pattern, m_error, scanVars, nstr>>

\* The item is stored, after the ordinary characters before it.
EmitItem ==
    /\ pc = "emit" /\ fmt_status = 0
    /\ vec' = Append(Flushed, Item(str, fmt))
    /\ nstr' = <<>>
    /\ i' = n
    /\ pc' = "outer"
    /\ UNCHANGED <<m_pattern, m_error, scanVars>>

\* Mutant of EmitError: m_error is not set.
EmitErrorQuiet ==
    /\ pc = "emit" /\ fmt_status = 1
    /\ vec' = Append(vec, PatternError(fmt))
    /\ i' = i + 1
    /\ pc' = "outer"
    /\ UNCHANGED <<m_pattern, m_error, scanVars, nstr>>

\* A brace that is not closed: an error mark, and on after the %.
EmitError ==
    /\ pc = "emit" /\ fmt_status = 1
    /\ vec' = Append(vec, PatternError(fmt))
    /\ m_error' = TRUE
    /\ i' = i + 1
    /\ pc' = "outer"
    /\ UNCHANGED <<m_pattern, scanVars, nstr>>

\* The end: what is left in nstr, and an item for each part of vec.
Finish ==
    /\ pc = "outer" /\ i > Size
    /\ vec' = Flushed
    /\ m_error' = (m_error \/ \E k \in 1..Len(vec) :
                      vec[k].kind = "item" /\ vec[k].str \notin {<<c>> : c \in Known})
    /\ pc' = "done"
    /\ UNCHANGED <<m_pattern, i, scanVars, nstr>>

Parse == \/ Ordinary \/ Percent \/ BeginItem
         \/ ScanStop \/ ScanOpen \/ ScanClose \/ ScanOn \/ ScanEnd
         \/ EmitItem \/ EmitError \/ Finish

Done == pc = "done" /\ UNCHANGED vars

Next == Parse \/ Done

Spec == Init /\ [][Next]_vars

-----------------------------------------------------------------------------
IsKnown(name) == name \in {<<c>> : c \in Known}

\* StringFormatItem, for the text of the pattern and for the two marks.
Literal(chars) == [mark |-> FALSE, shows |-> "text", arg |-> chars]
PatternErrorMark == [mark |-> TRUE, shows |-> "text", arg |-> <<"<<pattern_error>>">>]
ErrorFormatMark(name) ==
    [mark |-> TRUE, shows |-> "text", arg |-> <<"<<error_format %">> \o name \o <<">>">>]

\* DateTimeFormatItem's constructor: no format is the default format.
TimeFormat(format) == IF format = <<>> THEN <<"%Y-%m-%d %H:%M:%S">> ELSE format

\* m_items, which init()'s last loop makes of vec: an item of a known name,
\* or what is to be written as it is.
FormatItem(part) ==
    CASE part.kind = "text" -> Literal(part.str)
      [] part.kind = "error" -> PatternErrorMark
      [] part.kind = "item" /\ ~IsKnown(part.str) -> ErrorFormatMark(part.str)
      [] part.kind = "item" /\ IsKnown(part.str) ->
            LET shows == s_format_items[part.str[1]] IN
            [mark |-> FALSE, shows |-> shows,
             arg |-> IF shows = "time" THEN TimeFormat(part.fmt) ELSE <<>>]
m_items == [k \in 1..Len(vec) |-> FormatItem(vec[k])]

-----------------------------------------------------------------------------
\* The positions that substr() and operator[] are called with lie in the
\* pattern: the name and the braces are behind the position scanned, which
\* never leaves the pattern by more than one.
PositionsValid ==
    /\ i \in 1..(Size + 1)
    /\ pc \in {"scan", "emit"} =>
          /\ i <= Size /\ m_pattern[i] = "%"
          /\ n \in (i + 1)..(Size + 1)
          /\ fmt_status = 1 => fmt_begin \in (i + 1)..(n - 1) /\ m_pattern[fmt_begin] = "open"

\* How a part of vec is written in a pattern.
Source(part) ==
    IF part.kind = "text" THEN part.str
    ELSE <<"%">> \o part.str \o
         (IF part.fmt = <<>> THEN <<>> ELSE <<"open">> \o part.fmt \o <<"close">>)

\* The parts, written out again.
Unparsed(parts) ==
    LET upTo[k \in 0..Len(parts)] ==
            IF k = 0 THEN <<>> ELSE upTo[k - 1] \o Source(parts[k])
    IN  upTo[Len(parts)]

Has(a, b) == \E k \in 1..(Size - 1) : m_pattern[k] = a /\ m_pattern[k + 1] = b

\* Nothing of a pattern is lost, doubled or moved: written out again, the
\* parts give the pattern.  (Patterns with an escape, empty braces, which
\* leave no trace, or an unclosed brace are left out.)
RoundTrip ==
    pc = "done" /\ ~Has("%", "%") /\ ~Has("open", "close")
       /\ (\A k \in 1..Len(vec) : vec[k].kind # "error")
    => Unparsed(vec) = m_pattern

\* isError(), by which the listener of "logs" rejects a formatter, tells
\* exactly whether an event would be written with an error mark in it.
ErrorExact ==
    pc = "done" => (m_error <=> \E k \in 1..Len(m_items) : m_items[k].mark)

=============================================================================
