------------------------------- MODULE ShParse ------------------------------
(* The parser of the shell, user/sh.c.  A line is a sequence of characters *)
(* without the final NUL, a pointer into it is a position, a word is the   *)
(* pair of pointers q and eq.  A parser takes a position and gives the set *)
(* of its results, a command and the position after it: one, or none when  *)
(* it panics.                                                              *)
EXTENDS Integers, Sequences, FiniteSets, FiniteSetsExt

CONSTANT MAXARGS

Symbols == {"<", "|", ">", "&", ";", "(", ")"}
NUL == "NUL"

Char(line, s) == IF s <= Len(line) THEN line[s] ELSE NUL
Skip(line, s) == Min({k \in s .. Len(line) + 1 : Char(line, k) # " "})
WordEnd(line, s) == Min({k \in s .. Len(line) + 1 : Char(line, k) \in {" ", NUL} \cup Symbols})

gettoken(line, s) ==
  LET q == Skip(line, s)
      c == Char(line, q)
      append == c = ">" /\ Char(line, q + 1) = ">"
      eq == CASE c = NUL -> q
              [] c \in Symbols -> IF append THEN q + 2 ELSE q + 1
              [] OTHER -> WordEnd(line, q) IN
  [tok |-> IF append THEN ">>" ELSE IF c \in Symbols \cup {NUL} THEN c ELSE "word",
   word |-> <<q, eq>>, s |-> Skip(line, eq)]

peek(line, s, toks) == Char(line, Skip(line, s)) \in toks

execcmd == [type |-> "exec", argv |-> <<>>]
redircmd(cmd, file, tok) == [type |-> "redir", cmd |-> cmd, file |-> file, mode |-> tok, fd |-> IF tok = "<" THEN 0 ELSE 1]
pipecmd(left, right) == [type |-> "pipe", left |-> left, right |-> right]
listcmd(left, right) == [type |-> "list", left |-> left, right |-> right]
backcmd(cmd) == [type |-> "back", cmd |-> cmd]

RECURSIVE parseredirs(_, _, _)
parseredirs(line, cmd, s) ==
  IF ~peek(line, s, {"<", ">"}) THEN {[cmd |-> cmd, s |-> s]}
  ELSE UNION {UNION {parseredirs(line, redircmd(cmd, f.word, t.tok), f.s) : f \in {g \in {gettoken(line, t.s)} : g.tok = "word"}}
              : t \in {gettoken(line, s)}}

\* The execcmd that parseexec() adds arguments to is below the redirections.
RECURSIVE AddArg(_, _)
AddArg(cmd, word) == IF cmd.type = "redir" THEN [cmd EXCEPT !.cmd = AddArg(@, word)] ELSE [cmd EXCEPT !.argv = Append(@, word)]

\* The loop of parseexec() with argc = n: ends at "|", ")", "&", ";" or NUL.
RECURSIVE ParseArgs(_, _, _)
ParseArgs(line, r, n) ==
  IF peek(line, r.s, {"|", ")", "&", ";", NUL}) THEN {r}
  ELSE UNION {UNION {ParseArgs(line, q, n + 1) : q \in parseredirs(line, AddArg(r.cmd, t.word), t.s)}
              : t \in {g \in {gettoken(line, r.s)} : g.tok = "word" /\ n + 1 < MAXARGS}}

RECURSIVE parseline(_, _)
parseblock(line, s) ==
  UNION {parseredirs(line, r.cmd, gettoken(line, r.s).s) : r \in {q \in parseline(line, gettoken(line, s).s) : peek(line, q.s, {")"})}}

parseexec(line, s) ==
  IF peek(line, s, {"("}) THEN parseblock(line, s) ELSE UNION {ParseArgs(line, r, 0) : r \in parseredirs(line, execcmd, s)}

\* A parser's result r alone, or joined by Join to what Parse finds after the token tok.
Joined(line, r, tok, Parse(_, _), Join(_, _)) ==
  IF peek(line, r.s, {tok}) THEN {[cmd |-> Join(r.cmd, q.cmd), s |-> q.s] : q \in Parse(line, gettoken(line, r.s).s)} ELSE {r}

\* Mutant: what follows "|" is a whole line.
parsepipeToEnd(line, s) == UNION {Joined(line, r, "|", parseline, pipecmd) : r \in parseexec(line, s)}
RECURSIVE parsepipe(_, _)
parsepipe(line, s) == UNION {Joined(line, r, "|", parsepipe, pipecmd) : r \in parseexec(line, s)}

RECURSIVE ParseBacks(_, _)
ParseBacks(line, r) ==
  IF peek(line, r.s, {"&"}) THEN UNION {ParseBacks(line, [cmd |-> backcmd(r.cmd), s |-> t.s]) : t \in {gettoken(line, r.s)}} ELSE {r}

parseline(line, s) == UNION {UNION {Joined(line, q, ";", parseline, listcmd) : q \in ParseBacks(line, r)} : r \in parsepipe(line, s)}

parsecmd(line) == {r.cmd : r \in {q \in parseline(line, 1) : peek(line, q.s, {NUL})}}

\* The commands right below cmd, and all of them.
Below(cmd) == CASE cmd.type \in {"pipe", "list"} -> {cmd.left, cmd.right} [] cmd.type \in {"redir", "back"} -> {cmd.cmd} [] OTHER -> {}
RECURSIVE Within(_)
Within(cmd) == {cmd} \cup UNION {Within(c) : c \in Below(cmd)}

\* nulterminate(): where it puts a NUL.
Words(cmd) == UNION {CASE c.type = "exec" -> {c.argv[i] : i \in DOMAIN c.argv}
                       [] c.type = "redir" -> {c.file}
                       [] OTHER -> {} : c \in Within(cmd)}
nulterminate(cmd) == {w[2] : w \in Words(cmd)}
=============================================================================
