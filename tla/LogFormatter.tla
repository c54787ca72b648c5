---------------------------- MODULE LogFormatter ----------------------------
(***************************************************************************)
(* LogFormatter::init() (log.cpp:288-450): the loop that cuts a pattern    *)
(* into literal text and conversions, one pass of the loop an action, and  *)
(* the second loop that makes the items.  A pattern is a sequence of       *)
(* one-character strings.                                                  *)
(*                                                                         *)
(* Two things a reader of the pattern would not expect: all %d share one   *)
(* format, the concatenation of what all their braces hold; and a %d that  *)
(* ends the pattern falls through the test of the bracket (log.cpp:353).   *)
(***************************************************************************)
EXTENDS Integers, Sequences, SequencesExt

CONSTANTS
    Patterns,   \* the patterns to try
    Known       \* the conversions of s_format_items, "%" among them

VARIABLES
    m_pattern,      \* the pattern
    i,              \* the next character, counted from 1
    tmp,            \* literal text not pushed yet
    patterns,       \* what has been found: [type, value]
    dateformat,     \* what the braces held
    parsing_string, \* between conversions
    m_items,        \* the items made
    m_error,
    done

vars == <<m_pattern, i, tmp, patterns, dateformat, parsing_string, m_items,
          m_error, done>>

Text(s) == [type |-> 0, value |-> s]
Conversion(c) == [type |-> 1, value |-> <<c>>]
Dated(s) == [type |-> 2, value |-> s]

TypeOK ==
    /\ m_pattern \in Patterns
    /\ i \in 1..(Len(m_pattern) + 3)
    /\ \A p \in ToSet(patterns) \cup ToSet(m_items) : p.type \in 0..2
    /\ parsing_string \in BOOLEAN /\ m_error \in BOOLEAN /\ done \in BOOLEAN

Init ==
    /\ m_pattern \in Patterns
    /\ i = 1
    /\ tmp = <<>> /\ patterns = <<>> /\ dateformat = <<>> /\ m_items = <<>>
    /\ parsing_string = TRUE /\ m_error = FALSE /\ done = FALSE

At(n) == IF n <= Len(m_pattern) THEN m_pattern[n] ELSE "end"

Scanning == ~done /\ i <= Len(m_pattern)

(* Text is collected until a % ends it.                                    *)
Literal ==
    /\ Scanning /\ parsing_string /\ At(i) # "%"
    /\ tmp' = Append(tmp, At(i))
    /\ i' = i + 1
    /\ UNCHANGED <<m_pattern, patterns, dateformat, parsing_string, m_items,
                   m_error, done>>

Percent ==
    /\ Scanning /\ parsing_string /\ At(i) = "%"
    /\ patterns' = IF tmp = <<>> THEN patterns ELSE Append(patterns, Text(tmp))
    /\ tmp' = <<>>
    /\ parsing_string' = FALSE
    /\ i' = i + 1
    /\ UNCHANGED <<m_pattern, dateformat, m_items, m_error, done>>

(* The character after the %; d is the one that may have braces.           *)
Convert ==
    /\ Scanning /\ ~parsing_string /\ At(i) # "d"
    /\ patterns' = Append(patterns, Conversion(At(i)))
    /\ parsing_string' = TRUE
    /\ i' = i + 1
    /\ UNCHANGED <<m_pattern, tmp, dateformat, m_items, m_error, done>>

PlainDate ==
    /\ Scanning /\ ~parsing_string /\ At(i) = "d"
    /\ At(i + 1) \notin {"{", "end"}
    /\ patterns' = Append(patterns, Conversion("d"))
    /\ parsing_string' = TRUE
    /\ i' = i + 1
    /\ UNCHANGED <<m_pattern, tmp, dateformat, m_items, m_error, done>>

(* The first c at or after position n, or just past the end.               *)
Upto(c, n) ==
    IF \E k \in n..Len(m_pattern) : m_pattern[k] = c
    THEN CHOOSE k \in n..Len(m_pattern) :
            m_pattern[k] = c /\ \A j \in n..(k - 1) : m_pattern[j] # c
    ELSE Len(m_pattern) + 1

Closing(n) == Upto("}", n)

DateKeepsBrace ==
    /\ Scanning /\ ~parsing_string /\ At(i) = "d" /\ At(i + 1) = "{"
    /\ patterns' = Append(patterns, Conversion("d"))
    /\ parsing_string' = TRUE
    /\ IF At(Closing(i + 2)) = "end"
       THEN /\ m_error' = TRUE /\ done' = TRUE
            /\ UNCHANGED <<i, dateformat>>
       ELSE /\ dateformat' = dateformat \o SubSeq(m_pattern, i + 2, Closing(i + 2) - 1)
            /\ i' = Closing(i + 2)
            /\ UNCHANGED <<m_error, done>>
    /\ UNCHANGED <<m_pattern, tmp, m_items>>

(* A format in braces; without the closing one an error.                   *)
Date ==
    /\ Scanning /\ ~parsing_string /\ At(i) = "d" /\ At(i + 1) = "{"
    /\ patterns' = Append(patterns, Conversion("d"))
    /\ parsing_string' = TRUE
    /\ IF At(Closing(i + 2)) = "end"
       THEN /\ m_error' = TRUE /\ done' = TRUE
            /\ UNCHANGED <<i, dateformat>>
       ELSE /\ dateformat' = dateformat \o SubSeq(m_pattern, i + 2, Closing(i + 2) - 1)
            /\ i' = Closing(i + 2) + 1
            /\ UNCHANGED <<m_error, done>>
    /\ UNCHANGED <<m_pattern, tmp, m_items>>

(* A date at the end: the bracket is skipped as if it were there and the   *)
(* character after the terminator read, which may be anything.             *)
DateAtEnd ==
    /\ Scanning /\ ~parsing_string /\ At(i) = "d" /\ At(i + 1) = "end"
    /\ patterns' = Append(patterns, Conversion("d"))
    /\ parsing_string' = TRUE
    /\ \/ /\ m_error' = TRUE /\ done' = TRUE
          /\ UNCHANGED i
       \/ /\ i' = i + 3
          /\ UNCHANGED <<m_error, done>>
    /\ UNCHANGED <<m_pattern, tmp, dateformat, m_items>>

(* A date takes the format that all of them share.                         *)
Item(p) == IF p = Conversion("d") THEN Dated(dateformat) ELSE p

Unknown(p) == p.type = 1 /\ p.value # <<"d">> /\ p.value[1] \notin Known

(* The items, up to the first conversion nobody knows.                     *)
Make ==
    /\ ~done /\ i > Len(m_pattern)
    /\ LET all == IF tmp = <<>> THEN patterns ELSE Append(patterns, Text(tmp))
           known == CHOOSE n \in 0..Len(all) :
                       /\ \A k \in 1..n : ~Unknown(all[k])
                       /\ n < Len(all) => Unknown(all[n + 1])
       IN /\ m_items' = [k \in 1..known |-> Item(all[k])]
          /\ m_error' = (known < Len(all))
    /\ done' = TRUE
    /\ UNCHANGED <<m_pattern, i, tmp, patterns, dateformat, parsing_string>>

Next == Literal \/ Percent \/ Convert \/ PlainDate \/ Date \/ DateAtEnd \/ Make

-----------------------------------------------------------------------------
(* What the pattern means from position n on (log.h:248-270): text up to a *)
(* %, then one conversion, a date with the format in its own braces.       *)
Meaning[n \in Nat \ {0}] ==
    IF n > Len(m_pattern) THEN <<>>
    ELSE IF At(n) # "%"
    THEN <<Text(SubSeq(m_pattern, n, Upto("%", n) - 1))>> \o Meaning[Upto("%", n)]
    ELSE IF n = Len(m_pattern) THEN <<>>
    ELSE IF At(n + 1) # "d"
    THEN <<Conversion(At(n + 1))>> \o Meaning[n + 2]
    ELSE IF At(n + 2) = "{"
    THEN <<Dated(SubSeq(m_pattern, n + 3, Upto("}", n + 3) - 1))>>
            \o Meaning[Upto("}", n + 3) + 1]
    ELSE <<Dated(<<>>)>> \o Meaning[n + 2]

OneDate ==
    \A j, k \in DOMAIN patterns :
        patterns[j] = Conversion("d") /\ patterns[k] = Conversion("d") => j = k

(* A formatter without an error prints what its pattern means, and what it *)
(* makes of a pattern with an error is the beginning of that; with several *)
(* dates the formats are mixed up (log.cpp:301, 422).                      *)
ItemsMatchPattern ==
    done /\ OneDate => IF m_error THEN IsPrefix(m_items, Meaning[1])
                                  ELSE m_items = Meaning[1]
=============================================================================
