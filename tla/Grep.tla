-------------------------------- MODULE Grep --------------------------------
(* The program grep, user/grep.c: its matcher as operators on sequences of *)
(* characters, and its reading loop, whose buffer holds a line that is not *)
(* complete until more of the input arrives.                               *)
EXTENDS Integers, Sequences, FiniteSets

CONSTANTS BUF,                \* sizeof(buf), 1024 in the code
          Patterns, Inputs

VARIABLES pattern, text,  \* the arguments: the pattern, what the file holds
          taken,          \* how much of the file read() has returned
          buf,            \* the m characters kept in buf
          out             \* the lines written
gvars == <<pattern, text, taken, buf, out>>

Rest(s) == IF s = <<>> THEN <<>> ELSE Tail(s)
Is(s, i, c) == i <= Len(s) /\ s[i] = c
From(s, i) == SubSeq(s, i, Len(s))

RECURSIVE matchhere(_, _)
RECURSIVE matchstar(_, _, _)
matchstar(c, re, t) == matchhere(re, t) \/ (t # <<>> /\ (c = "." \/ t[1] = c) /\ matchstar(c, re, Tail(t)))

matchhere(re, t) ==
  IF re = <<>> THEN TRUE
  ELSE IF Is(re, 2, "*") THEN matchstar(re[1], From(re, 3), t)
  ELSE IF re = <<"$">> THEN t = <<>>
  ELSE t # <<>> /\ re[1] \in {".", t[1]} /\ matchhere(Tail(re), Tail(t))

match(re, t) ==
  IF Is(re, 1, "^") THEN matchhere(Tail(re), t) ELSE \E i \in 1 .. Len(t) + 1 : matchhere(re, From(t, i))

\* The lines of s that a newline ends, and what follows the last newline.
RECURSIVE LinesOf(_)
LinesOf(s) ==
  LET q == {i \in DOMAIN s : s[i] = "NL"}
      e == CHOOSE i \in q : \A j \in q : i <= j IN
  IF q = {} THEN <<>> ELSE <<SubSeq(s, 1, e - 1)>> \o LinesOf(From(s, e + 1))
Remainder(s) == LET q == {i \in DOMAIN s : s[i] = "NL"} IN IF q = {} THEN s ELSE From(s, 1 + CHOOSE i \in q : \A j \in q : j <= i)

GrepInit ==
  /\ pattern \in Patterns /\ text \in Inputs
  /\ taken = 0 /\ buf = <<>> /\ out = <<>>

\* Mutant: the incomplete line is dropped.
KeepNothing(s) == <<>>
Keep(s) == Remainder(s)

\* One turn of the loop of grep(): read() of up to sizeof(buf) - m - 1 characters, of which a pipe may return fewer.
GrepRead ==
  \E n \in 1 .. BUF - Len(buf) - 1 :
    /\ taken + n <= Len(text)
    /\ LET s == buf \o SubSeq(text, taken + 1, taken + n) IN
       /\ out' = out \o SelectSeq(LinesOf(s), LAMBDA l : match(pattern, l))
       /\ buf' = Keep(s)
    /\ taken' = taken + n
    /\ UNCHANGED <<pattern, text>>

-----------------------------------------------------------------------------
\* The pattern as items, a character with whether it is starred, and whether it
\* is anchored: "*" stars what precedes it, "^" and "$" anchor at the ends.
RECURSIVE Items(_)
Items(re) ==
  IF re = <<>> THEN <<>>
  ELSE IF Is(re, 2, "*") THEN <<<<re[1], TRUE>>>> \o Items(From(re, 3))
  ELSE <<<<re[1], FALSE>>>> \o Items(Tail(re))
\* Where a match of items that starts at i can end, as the automaton's reachable positions.
RECURSIVE EndsOf(_, _, _)
EndsOf(items, t, S) ==
  IF items = <<>> THEN S
  ELSE LET Fits(i) == i <= Len(t) /\ items[1][1] \in {".", t[i]} IN
       EndsOf(Tail(items), t, IF items[1][2] THEN {j \in 1 .. Len(t) + 1 : \E i \in S : i <= j /\ \A k \in i .. j - 1 : Fits(k)}
                                            ELSE {i + 1 : i \in {k \in S : Fits(k)}})
Matches(re, t) ==
  LET body == IF Is(re, 1, "^") THEN Tail(re) ELSE re
      items == Items(body)
      dollar == items # <<>> /\ items[Len(items)] = <<"$", FALSE>>
      ends == EndsOf(IF dollar THEN SubSeq(items, 1, Len(items) - 1) ELSE items, t, IF body # re THEN {1} ELSE 1 .. Len(t) + 1) IN
  IF dollar THEN Len(t) + 1 \in ends ELSE ends # {}

\* grep has written exactly the lines read so far that match, in order and once
\* each, whatever pieces read() returned, as long as every line with its newline
\* fits the buffer; the matcher is compared with an automaton for the pattern.
GrepExact ==
  (\A i \in DOMAIN LinesOf(text) : Len(LinesOf(text)[i]) + 1 < BUF) =>
    out = SelectSeq(LinesOf(SubSeq(text, 1, taken)), LAMBDA l : Matches(pattern, l))
=============================================================================
