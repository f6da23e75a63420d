----------------------------- MODULE LineInput ------------------------------
(* What the console promises about input: characters are collected in a    *)
(* line that can still be edited, and read() gets finished lines, in order *)
(* and each character once.                                                *)
EXTENDS Integers, Sequences

CONSTANTS Procs, Typed, INPUT_BUF

VARIABLES line,      \* the line being typed
          lines,     \* finished input that was not read yet
          got        \* process -> what its read has so far

vars == <<line, lines, got>>

Full(c) == Len(lines) + Len(line) >= INPUT_BUF
Ends(c) == c \in {"nl", "eof"} \/ Len(lines) + Len(line) + 1 = INPUT_BUF

Init == line = <<>> /\ lines = <<>> /\ got = [p \in Procs |-> <<>>]

Type(c) == /\ ~Full(c)
           /\ \/ Ends(c) /\ lines' = lines \o Append(line, c) /\ line' = <<>>
              \/ ~Ends(c) /\ line' = Append(line, c) /\ UNCHANGED lines
           /\ UNCHANGED got

Erase == line # <<>> /\ line' = SubSeq(line, 1, Len(line) - 1) /\ UNCHANGED <<lines, got>>
EraseLine == line' = <<>> /\ UNCHANGED <<lines, got>>

\* A process takes a character; returns to its caller; or takes an end of file, which
\* is left for the next read() if this one has got something.
Return(p) == got' = [got EXCEPT ![p] = <<>>] /\ UNCHANGED <<line, lines>>
Take(p) == /\ lines # <<>> /\ Head(lines) # "eof"
           /\ lines' = Tail(lines)
           /\ got' = [got EXCEPT ![p] = Append(@, Head(lines))]
           /\ UNCHANGED line
TakeEof(p) == /\ lines # <<>> /\ Head(lines) = "eof" /\ got[p] = <<>>
              /\ lines' = Tail(lines)
              /\ UNCHANGED <<line, got>>

\* The destination of read() cannot be written: the character is lost.
Drop(p) == /\ lines # <<>> /\ Head(lines) # "eof"
           /\ lines' = Tail(lines)
           /\ got' = [got EXCEPT ![p] = <<>>]
           /\ UNCHANGED line

Next == \/ \E c \in Typed : Type(c)
        \/ Erase \/ EraseLine
        \/ \E p \in Procs : Return(p) \/ Take(p) \/ TakeEof(p) \/ Drop(p)

Spec == Init /\ [][Next]_vars
=============================================================================
