------------------------------ MODULE ShGrammar -----------------------------
(* What a shell line means, said without a parser: the line is cut at its  *)
(* outermost ";", then "&", then "|"; what is left is a block or a command *)
(* with its redirections.  The reference for parsecmd() of user/sh.c.      *)
EXTENDS ShParse, SequencesExt

Redirections == {"<", ">", ">>"}

\* A token begins at a symbol, or at a word's first character; of a run of ">" every other one begins a token.
Begins(line, i) ==
  LET c == line[i]
      run == i - 1 - Max({k \in 0 .. i - 1 : k = 0 \/ Char(line, k) # ">"}) IN
  CASE c = " " -> FALSE
    [] c = ">" -> run % 2 = 0
    [] c \in Symbols -> TRUE
    [] OTHER -> i = 1 \/ line[i - 1] \in Symbols \cup {" "}

Tokens(line) ==
  LET starts == SetToSortSeq({i \in DOMAIN line : Begins(line, i)}, <)
      Tok(i) == IF line[i] \notin Symbols THEN "word" ELSE IF line[i] = ">" /\ Char(line, i + 1) = ">" THEN ">>" ELSE line[i] IN
  [n \in DOMAIN starts |-> [tok |-> Tok(starts[n]), word |-> <<starts[n], IF Tok(starts[n]) = "word" THEN WordEnd(line, starts[n]) ELSE 0>>]]

\* The tokens i .. j of ts, below; each definition gives the set of meanings, one or none.
Count(ts, i, j, tok) == Cardinality({k \in i .. j : ts[k].tok = tok})
Depth(ts, i, j) == Count(ts, i, j, "(") - Count(ts, i, j, ")")
Balanced(ts) == (\A i \in DOMAIN ts : Depth(ts, 1, i) >= 0) /\ Depth(ts, 1, Len(ts)) = 0
Outermost(ts, i, j, tok) == {k \in i .. j : ts[k].tok = tok /\ Depth(ts, i, k) = 0}
First(S) == {k \in S : \A l \in S : k <= l}

Files(ts, i, j) == {k \in i + 1 .. j : ts[k - 1].tok \in Redirections}
Arguments(ts, i, j) == SetToSortSeq({k \in i .. j : ts[k].tok = "word"} \ Files(ts, i, j), <)
\* The redirections of i .. j around cmd, the first one innermost.
Redirected(cmd, ts, i, j) ==
  FoldLeft(LAMBDA c, k : IF ts[k].tok \in Redirections THEN redircmd(c, ts[k + 1].word, ts[k].tok) ELSE c, cmd, SetToSortSeq(i .. j, <))
WellFormed(ts, i, j) ==
  \A k \in i .. j : ts[k].tok = "word" \/ (ts[k].tok \in Redirections /\ k < j /\ ts[k + 1].tok = "word")

RECURSIVE Line(_, _, _)
Simple(ts, i, j) ==
  IF i <= j /\ ts[i].tok = "("
    THEN UNION {{Redirected(c, ts, k + 1, j) : c \in Line(ts, i + 1, k - 1)} :
                  k \in {l \in First(Outermost(ts, i, j, ")")) : WellFormed(ts, l + 1, j) /\ Arguments(ts, l + 1, j) = <<>>}}
    ELSE {Redirected([execcmd EXCEPT !.argv = [n \in DOMAIN args |-> ts[args[n]].word]], ts, i, j) :
            args \in {a \in {Arguments(ts, i, j)} : WellFormed(ts, i, j) /\ Len(a) < MAXARGS}}

RECURSIVE Pipeline(_, _, _)
Pipeline(ts, i, j) ==
  IF Outermost(ts, i, j, "|") = {} THEN Simple(ts, i, j)
  ELSE UNION {{pipecmd(c, d) : c \in Simple(ts, i, k - 1), d \in Pipeline(ts, k + 1, j)} : k \in First(Outermost(ts, i, j, "|"))}

RECURSIVE Background(_, _, _)
Background(ts, i, j) == IF i <= j /\ ts[j].tok = "&" THEN {backcmd(c) : c \in Background(ts, i, j - 1)} ELSE Pipeline(ts, i, j)

Line(ts, i, j) ==
  IF Outermost(ts, i, j, ";") = {} THEN Background(ts, i, j)
  ELSE UNION {{listcmd(c, d) : c \in Background(ts, i, k - 1), d \in Line(ts, k + 1, j)} : k \in First(Outermost(ts, i, j, ";"))}

Meaning(line) == UNION {Line(ts, 1, Len(ts)) : ts \in {t \in {Tokens(line)} : Balanced(t)}}
=============================================================================
