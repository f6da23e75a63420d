------------------------------ MODULE MCFsTree ------------------------------
(* Instances of module FsTree for TLC.                                     *)
EXTENDS FsTree, TLC

\* Disks at boot: a fresh one, and one on which an earlier session left "/a/a".
Nested ==
  [dinode |-> [Fresh.dinode EXCEPT ![1].nlink = 2, ![3] = [type |-> "dir", nlink |-> 2], ![4] = [type |-> "dir", nlink |-> 1]],
   ents   |-> [Fresh.ents EXCEPT ![1]["a"] = 3, ![3] = [NoEntries EXCEPT !["."] = 3, ![".."] = 1, !["a"] = 4],
                                 ![4] = [NoEntries EXCEPT !["."] = 4, ![".."] = 3]]]
MCImages == {Fresh, Nested}

Call(c, path) == <<c, path, <<>> >>

\* Bounds: two levels of directories, whose names are made, entered, left and
\* removed, with links beside and below, and paths that lead up again.  One
\* process mostly makes and enters names, the other mostly removes them.
Maker ==
  {Call(c, <<"/", "a">>) : c \in {"mkdir", "chdir", "open"}}
  \cup {Call("create", <<"a">>), Call("mknod", <<"/", "a", "b">>), Call("chdir", <<"/", "a", "a">>), Call("open", <<"..">>),
        Call("unlink", <<"/", "a", "..">>)}
  \cup {<<"link", <<"b">>, <<"/", "a", "b">> >>}
Remover ==
  {Call(c, <<"/", "a">>) : c \in {"mkdir", "chdir", "unlink"}}
  \cup {Call("unlink", <<"b">>), Call("unlink", <<"/", "a", "a">>), Call("chdir", <<"/">>)}
  \cup {<<"link", <<"a">>, <<"b">> >>}
SmallCalls == [p \in Procs |-> IF p = "maker" THEN Maker ELSE Remover]

\* One process that removes the directory it is in, and its parent.
ParentCalls ==
  [p \in Procs |->
     {Call("mkdir", <<"/", "a">>), Call("mkdir", <<"b">>), Call("chdir", <<"a">>), Call("chdir", <<"b">>), Call("chdir", <<"..">>),
      Call("unlink", <<"..", "b">>), Call("unlink", <<"/", "a">>)}]
=============================================================================
