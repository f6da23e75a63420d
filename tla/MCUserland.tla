----------------------------- MODULE MCUserland -----------------------------
(* The user programs, each followed by itself: part says which one.  The   *)
(* others stay as they start.                                              *)
EXTENDS Shell, ShGrammar, Malloc, Find, Pingpong, Grep

CONSTANT MaxLen   \* bound: the characters of a line that is only parsed

VARIABLES part, line

MCPrograms == {<<"c">>}
MCLines == {<<"c", "|", "c", "|", "c">>, <<"c", "&">>, <<"(", "c", ";", "c", ")", "|", "c">>,
            <<"c", ">", "f", "<", "g", "<", "h">>, <<"c", " ", "f">>, <<"x", "|", "c">>, <<"c", "d", " ", "f">>, <<>>,
            <<"|", ";">>, <<"(", "c">>, <<"c", "&", ";", "c">>}
Typed == ({"c", " "} \cup Symbols) \ {"<"}

MCTree == [d1 |-> <<Entry(".", "d1"), Entry("..", "d1"), Entry("t", "d4"), Entry("d", "d2"), Entry("", "none"), Entry("long", "d5")>>,
           d2 |-> <<Entry(".", "d2"), Entry("..", "d1"), Entry("t", "d3"), Entry("u", "file")>>,
           d3 |-> <<Entry(".", "d3"), Entry("..", "d2"), Entry("t", "file")>>,
           d4 |-> <<Entry(".", "d4"), Entry("..", "d1")>>,
           d5 |-> <<Entry(".", "d5"), Entry("..", "d1"), Entry("t", "device")>>]
MCNameLen == [t |-> 1, d |-> 1, u |-> 1, long |-> 4]
MCPatterns == UNION {[1 .. n -> {"a", "*", "^", "$", "."}] : n \in 0 .. 3}
MCInputs == UNION {[1 .. n -> {"a", "b", "NL"}] : n \in 0 .. 4}

fixed == <<part, line>>
all == <<fixed, vars, mvars, fvars, pvars, gvars>>

MCInit ==
  /\ part \in {"parse", "shell", "heap", "find", "pingpong", "grep"}
  /\ line = <<>>
  /\ Init /\ MallocInit /\ FindInit /\ PingInit
  /\ IF part = "grep" THEN GrepInit ELSE pattern = <<>> /\ text = <<>> /\ taken = 0 /\ buf = <<>> /\ out = <<>>

InShell == part = "shell" /\ UNCHANGED <<fixed, mvars, fvars, pvars, gvars>>
InPingpong == part = "pingpong" /\ UNCHANGED <<fixed, vars, mvars, fvars, gvars>>

\* One more character is typed.
InParser ==
  /\ part = "parse" /\ Len(line) < MaxLen
  /\ \E c \in Typed : line' = Append(line, c)
  /\ UNCHANGED <<part, vars, mvars, fvars, pvars, gvars>>

MCNext ==
  \/ InParser
  \/ InShell /\ Next
  \/ InPingpong /\ PingNext
  \/ part = "heap" /\ MallocNext /\ UNCHANGED <<fixed, vars, fvars, pvars, gvars>>
  \/ part = "find" /\ FindNext /\ UNCHANGED <<fixed, vars, mvars, pvars, gvars>>
  \/ part = "grep" /\ GrepRead /\ UNCHANGED <<fixed, vars, mvars, fvars, pvars>>

\* While a process can go on by itself, some process does: no fairness between processes is needed.
MCSpec == MCInit /\ [][MCNext]_all /\ WF_all((InShell /\ Progress) \/ (InPingpong /\ PingProgress))

\* parsecmd() of sh.c gives every line of up to MaxLen characters the meaning
\* that cutting it at its outermost operators gives it, and panics on the others.
ParsesRight == part = "parse" => parsecmd(line) = Meaning(line)

\* After nulterminate() every word of the command reads as it was typed: the
\* NULs, put where other tokens may stand, end each word and cut none short.
WordsIntact ==
  part = "parse" =>
    \A cmd \in parsecmd(line) : \A w \in Words(cmd) :
      Min({k \in w[1] .. Len(line) + 1 : k \in nulterminate(cmd) \/ Char(line, k) = NUL}) = w[2]

\* parsecmd() as a whole: the right command, made of the right words.
ParserInv == ParsesRight /\ WordsIntact
=============================================================================
