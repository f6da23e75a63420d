------------------------------ MODULE ByteFile ------------------------------
(* What read(), write() and open(O_TRUNC) promise about files: a file is a *)
(* sequence of bytes, an open file has an offset, and each piece of a      *)
(* write, each read and each truncation happens at once.                   *)
(*                                                                         *)
(* A write that cannot read its source may leave bytes behind that are     *)
(* lost later, so that a position of a file has a set of bytes, of which a *)
(* reader finds one.  It is a singleton unless a write has failed there.   *)
EXTENDS Integers, Sequences, FiniteSetsExt

CONSTANTS Files, FileOf,  \* open files, and the inode of each
          Pieces,         \* what one piece of a write can consist of
          MaxPiece        \* its greatest length

VARIABLES content,        \* inode -> its bytes
          off,            \* open file -> its offset
          got             \* process -> what its last read returned

vars == <<content, off, got>>
Ip(f) == content[FileOf[f]]

Init == /\ content = [i \in DOMAIN content |-> <<>>]
        /\ off = [f \in Files |-> 0]
        /\ \A p \in DOMAIN got : got[p] = <<>>

\* Inode i becomes c, where bytes that were left behind may be lost by now.
Becomes(i, c) ==
  /\ \A j \in DOMAIN content \ {i} : content'[j] = content[j]
  /\ Len(content'[i]) = Len(c)
  /\ \A k \in 1 .. Len(c) : content'[i][k] # {} /\ content'[i][k] \subseteq c[k]

\* c with the bytes of s at offset o, and with those that follow them, up to the
\* end of c, each maybe replaced by one of rest.
Written(c, o, s, rest) ==
  [k \in 1 .. Max({Len(c), o + Len(s)}) |->
     CASE k \in o + 1 .. o + Len(s) -> {s[k - o]}
       [] k \in o + Len(s) + 1 .. o + Len(s) + Len(rest) -> c[k] \cup {rest[k - o - Len(s)]}
       [] OTHER -> c[k]]

Write(f, s) ==
  /\ off' = [off EXCEPT ![f] = @ + Len(s)]
  /\ UNCHANGED got
  /\ off[f] <= Len(Ip(f))
  /\ Becomes(FileOf[f], Written(Ip(f), off[f], s, <<>>))

\* The source of a piece s cannot be read beyond its first a bytes: they are
\* written, up to b more may be seen for a while, and the offset moves by all of s.
WriteUnreadable(f, s, a, b) ==
  /\ off' = [off EXCEPT ![f] = @ + Len(s)]
  /\ UNCHANGED got
  /\ off[f] <= Len(Ip(f)) /\ a + b < Len(s)
  /\ Becomes(FileOf[f], Written(Ip(f), off[f], SubSeq(s, 1, a), SubSeq(s, a + 1, a + b)))

Read(f, p) ==
  LET s == got'[p] IN
  /\ off' = [off EXCEPT ![f] = @ + Len(s)]
  /\ got' = [got EXCEPT ![p] = s]
  /\ s # <<>> => off[f] + Len(s) <= Len(Ip(f))
  /\ \A k \in 1 .. Len(s) : s[k] \in Ip(f)[off[f] + k]
  /\ Becomes(FileOf[f], Ip(f))

Truncate(i) == Becomes(i, <<>>) /\ UNCHANGED <<off, got>>

\* A byte that a failed write left behind is lost.
Lose(i) == Becomes(i, content[i]) /\ UNCHANGED <<off, got>>

Next ==
  \/ \E f \in Files, s \in Pieces :
       \/ Write(f, s)
       \/ \E a, b \in 0 .. MaxPiece : WriteUnreadable(f, s, a, b)
  \/ \E f \in Files, p \in DOMAIN got : Read(f, p)
  \/ \E i \in DOMAIN content : Truncate(i) \/ Lose(i)

Spec == Init /\ [][Next]_vars
=============================================================================
