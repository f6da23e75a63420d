----------------------------- MODULE MCBlockIO ------------------------------
(* Block input and output: the buffer cache and the disk driver below it.  *)
(* Both together are beyond TLC with enough processes to fill the          *)
(* driver's ring, so one of them, watched, is followed in detail while the *)
(* other stays as it starts; each stands for the other in its own module.  *)
EXTENDS VirtioDisk, Buffers, TLC

CONSTANTS Indirect, Bitmap   \* blocks; the first is held while the second is looked at

MCNested == {<<Indirect, Bitmap>>}

VARIABLE watched

MCInit == Init /\ CacheInit /\ watched \in {"driver", "cache"}
MCNext ==
  \/ watched = "driver" /\ Next /\ UNCHANGED <<watched, cacheVars>>
  \/ watched = "cache" /\ CacheNext /\ UNCHANGED <<watched, vars>>
MCSpec == MCInit /\ [][MCNext]_<<watched, vars, cacheVars>>

Interchangeable == Permutations(Deep) \cup Permutations(CacheProcs \ Deep) \cup Permutations(Blocks \ {Indirect, Bitmap})

\* Buffers have no identity but their place in the list, contents none but their
\* distance from the last ones written; what is not valid is read before use.
Place(b) == IF b = 0 THEN 0 ELSE CHOOSE i \in Bufs : lru[i] = b
Behind(v, k) == (last[k] - v) % Values
CacheState ==
  <<[i \in Bufs |-> LET r == buf[lru[i]] IN
                    [r EXCEPT !.data = IF r.valid = 1 THEN Behind(@, r.blockno) ELSE 0]],
    [k \in Blocks |-> Behind(home[k], k)], pinned,
    [p \in CacheProcs |-> <<t[p].pc, Place(t[p].b), Place(outer[p])>>]>>

\* What is left in ring slots and free descriptors is written before it is read
\* again (the guards of DevTake and IntrLoop, and Alloc), so states that differ
\* only there behave alike.
LiveState ==
  <<free, [i \in Descs \ free |-> next[i]], info, availIdx, usedId, used_idx, devIdx, devBusy, isr,
    [k \in 0 .. NPending - 1 |-> avail[(devIdx + k) % NUM]],
    IF lock \in Procs THEN avail[availIdx % NUM] ELSE 0,
    [k \in 0 .. NUnseen - 1 |-> used[(used_idx + k) % NUM]],
    lock, intr, pc, idx, disk, watched, CacheState>>
=============================================================================
