----------------------------- MODULE MCFileData -----------------------------
EXTENDS FileData

\* Two open files of one inode and one of another.
ThreeFiles == <<1, 1, 2>>

\* Writes at all alignments, reads through the other open file; -1 is UINT - 1
\* for readi().
SmallCalls == {<<"write", 1, 1>>, <<"write", 1, 5>>, <<"write", 2, -1>>, <<"write", 2, 3>>, <<"write", 3, 3>>,
               <<"read", 2, 3>>, <<"read", 2, -1>>, <<"trunc", 1, 0>>}
=============================================================================
