----------------------------- MODULE ByteStream -----------------------------
(***************************************************************************)
(* What a pipe promises to its two ends: a bounded queue of bytes.  Bytes  *)
(* come out in the order in which they went in, each at most once, none    *)
(* go in after the write end is closed.                                    *)
(***************************************************************************)
EXTENDS Naturals, Sequences

CONSTANTS Bytes, Capacity

VARIABLES queue,   \* the bytes written and not yet read
          wopen,   \* 1 while the write end is open
          ropen    \* 1 while the read end is open

streamVars == <<queue, wopen, ropen>>

Init == queue = <<>> /\ wopen = 1 /\ ropen = 1

\* Some bytes go in, as far as there is room.
Put ==
  /\ wopen = 1
  /\ \E k \in 1 .. Capacity - Len(queue) :
       /\ Len(queue') = Len(queue) + k
       /\ SubSeq(queue', 1, Len(queue)) = queue
  /\ queue' \in Seq(Bytes)
  /\ UNCHANGED <<wopen, ropen>>

\* Some bytes come out.
Take ==
  /\ ropen = 1
  /\ \E k \in 1 .. Len(queue) : queue' = SubSeq(queue, k + 1, Len(queue))
  /\ UNCHANGED <<wopen, ropen>>

CloseWrite == wopen = 1 /\ wopen' = 0 /\ UNCHANGED <<queue, ropen>>

CloseRead == ropen = 1 /\ ropen' = 0 /\ UNCHANGED <<queue, wopen>>

Next == Put \/ Take \/ CloseWrite \/ CloseRead

Spec == Init /\ [][Next]_streamVars
=============================================================================
