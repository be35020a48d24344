------------------------------ MODULE ShellCmd ------------------------------
(***************************************************************************)
(* The shell's commands (sh.c): the parser, from a line of tokens to a     *)
(* tree, and the system calls runcmd makes for each kind of tree.          *)
(*                                                                         *)
(* gettoken's scanning of characters is left out: a token is a symbol or a *)
(* word.  A parser returns the tree, the tokens left, and whether it is ok *)
(* (panic otherwise).                                                      *)
(***************************************************************************)
EXTENDS Integers, Lists

CONSTANTS
  MAXARGS,
  Words          \* the words a line may hold

Symbols == {"<", "|", ">", ">>", "&", ";", "(", ")"}

ASSUME ShellAssumption == MAXARGS \in Nat \ {0} /\ Words \cap Symbols = {}

peek(ts, toks) == ts # <<>> /\ Head(ts) \in toks

Ok(cmd, ts) == [cmd |-> cmd, rest |-> ts, ok |-> TRUE]

Syntax == [cmd |-> <<>>, rest |-> <<>>, ok |-> FALSE]

execcmd(argv) == [type |-> "EXEC", argv |-> argv]

redircmd(cmd, tok, file) ==
  [type |-> "REDIR", cmd |-> cmd, file |-> file, fd |-> IF tok = "<" THEN 0 ELSE 1]

pipecmd(left, right) == [type |-> "PIPE", left |-> left, right |-> right]

listcmd(left, right) == [type |-> "LIST", left |-> left, right |-> right]

backcmd(cmd) == [type |-> "BACK", cmd |-> cmd]

\* F(x), with x evaluated once.
With(x, F(_)) == CHOOSE y \in {F(v) : v \in {x}} : TRUE

\* A while loop: body as often as it may be needed for the tokens left.
Loop(body(_), r) ==
  With(r, LAMBDA v : FoldLeft(LAMBDA q, j : With(q, body), v, [j \in 1 .. Len(v.rest) + 1 |-> j]))

\* Redirections are wrapped around a command, one after the other.
redir(r) ==
  IF ~r.ok \/ ~peek(r.rest, {"<", ">", ">>"}) THEN r
  ELSE LET ts == Tail(r.rest) IN
       IF peek(ts, Words) THEN Ok(redircmd(r.cmd, Head(r.rest), Head(ts)), Tail(ts)) ELSE Syntax

parseredirs(r) == Loop(redir, r)

\* One turn of parseexec's loop: a word, with the redirections after it.  The
\* words are kept apart from the command that the redirections wrap.
word(w) ==
  IF ~w.ok \/ w.rest = <<>> \/ peek(w.rest, {"|", ")", "&", ";"}) THEN w
  ELSE LET r == parseredirs(Ok(w.cmd, Tail(w.rest))) IN
       IF ~peek(w.rest, Words) \/ Len(w.argv) + 1 >= MAXARGS \/ ~r.ok THEN [w EXCEPT !.ok = FALSE]
       ELSE [cmd |-> r.cmd, rest |-> r.rest, ok |-> TRUE, argv |-> Append(w.argv, Head(w.rest))]

\* cmd, redirections around an EXEC, with the words in the EXEC.
Innermost(cmd, argv) ==
  LET down(p) == IF p.cmd.type = "EXEC" THEN p
                 ELSE [p EXCEPT !.cmd = @.cmd, !.around = <<p.cmd>> \o @]
      all == FoldLeft(LAMBDA p, j : down(p), [cmd |-> cmd, around |-> <<>>],
                      [j \in 1 .. 2 * MAXARGS |-> j])
  IN  FoldLeft(LAMBDA c, o : [o EXCEPT !.cmd = c], execcmd(argv), all.around)

\* The parsers take the recursive function parse for the calls that go round.
parseblock(parse, ts) ==
  With(parse[<<"line", Tail(ts)>>], LAMBDA r :
    IF r.ok /\ peek(r.rest, {")"}) THEN parseredirs(Ok(r.cmd, Tail(r.rest))) ELSE Syntax)

parseexec(parse, ts) ==
  IF peek(ts, {"("}) THEN parseblock(parse, ts)
  ELSE With(parseredirs(Ok(execcmd(<<>>), ts)), LAMBDA r :
         With(Loop(word, [cmd |-> r.cmd, rest |-> r.rest, ok |-> r.ok, argv |-> <<>>]), LAMBDA w :
           IF w.ok THEN Ok(Innermost(w.cmd, w.argv), w.rest) ELSE Syntax))

\* Variant: what stands before the bar is forgotten.
parsepipeLast(parse, ts) ==
  With(parseexec(parse, ts), LAMBDA r :
    IF ~r.ok \/ ~peek(r.rest, {"|"}) THEN r ELSE parse[<<"pipe", Tail(r.rest)>>])

parsepipe(parse, ts) ==
  With(parseexec(parse, ts), LAMBDA r :
    IF ~r.ok \/ ~peek(r.rest, {"|"}) THEN r
    ELSE With(parse[<<"pipe", Tail(r.rest)>>], LAMBDA q :
           IF q.ok THEN Ok(pipecmd(r.cmd, q.cmd), q.rest) ELSE Syntax))

back(r) == IF r.ok /\ peek(r.rest, {"&"}) THEN Ok(backcmd(r.cmd), Tail(r.rest)) ELSE r

parseline(parse, ts) ==
  With(Loop(back, parse[<<"pipe", ts>>]), LAMBDA r :
    IF ~r.ok \/ ~peek(r.rest, {";"}) THEN r
    ELSE With(parse[<<"line", Tail(r.rest)>>], LAMBDA q :
           IF q.ok THEN Ok(listcmd(r.cmd, q.cmd), q.rest) ELSE Syntax))

Parse[q \in {"line", "pipe"} \X Seq(Words \cup Symbols)] ==
  IF q[1] = "line" THEN parseline(Parse, q[2]) ELSE parsepipe(Parse, q[2])

\* The tree of a line, or panic("syntax").
parsecmd(ts) == With(Parse[<<"line", ts>>], LAMBDA r : IF r.rest = <<>> THEN r ELSE Syntax)

----------------------------------------------------------------------------
\* The tokens of a tree in order, but for parentheses, by taking the nodes of
\* the tree apart n times.  A redirection's tokens follow its command's.
Tok(t) == <<"token", t>>

Node(cmd) == <<"node", cmd>>

Apart(item) ==
  IF item[1] = "token" THEN <<item>>
  ELSE LET cmd == item[2] IN
       CASE cmd.type = "EXEC" -> [j \in DOMAIN cmd.argv |-> Tok(cmd.argv[j])]
         [] cmd.type = "REDIR" ->
              <<Node(cmd.cmd), <<"redir", IF cmd.fd = 0 THEN "<" ELSE ">", cmd.file>>>>
         [] cmd.type = "PIPE" -> <<Node(cmd.left), Tok("|"), Node(cmd.right)>>
         [] cmd.type = "LIST" -> <<Node(cmd.left), Tok(";"), Node(cmd.right)>>
         [] cmd.type = "BACK" -> <<Node(cmd.cmd), Tok("&")>>

Flat(cmd, n) ==
  FoldLeft(LAMBDA items, j : FlattenSeq([k \in DOMAIN items |->
                               IF items[k][1] = "redir" THEN <<items[k]>> ELSE Apart(items[k])]),
           <<Node(cmd)>>, [j \in 1 .. n |-> j])

\* The parts of a line that are redirections, and the tokens that are not.
Redirects(line, j) == line[j] \in {"<", ">"}

Target(line, j) == j > 1 /\ \E k \in {j - 1} \cap DOMAIN line : Redirects(line, k)

Positions(line, Keep(_)) == SelectSeq([j \in 1 .. Len(line) |-> j], Keep)

\* The parser keeps a line that it accepts: words and symbols in their order, and
\* redirections in theirs.
Kept(line) ==
  LET r == parsecmd(line)
      flat == Flat(r.cmd, Len(line) + 1)
      words == Positions(line, LAMBDA j : /\ ~Redirects(line, j) /\ ~Target(line, j)
                                          /\ line[j] \notin {"(", ")"})
      redirs == Positions(line, LAMBDA j : Redirects(line, j))
  IN  r.ok =>
        /\ SelectSeq(flat, LAMBDA t : t[1] = "token") = [k \in DOMAIN words |-> Tok(line[words[k]])]
        /\ SelectSeq(flat, LAMBDA t : t[1] = "redir")
             = [k \in DOMAIN redirs |-> <<"redir", line[redirs[k]], line[redirs[k] + 1]>>]

----------------------------------------------------------------------------
\* Variant: the parent of a pipeline keeps the ends of the pipe open.
runcmdKeeps(cmd) ==
  CASE cmd.type = "EXEC" ->
         IF cmd.argv = <<>> THEN <<<<"exit">>>> ELSE <<<<"exec", Head(cmd.argv)>>, <<"exit">>>>
    [] cmd.type = "REDIR" -> <<<<"close", cmd.fd>>, <<"open", cmd.file>>, <<"run", cmd.cmd>>>>
    [] cmd.type = "LIST" ->
         <<<<"fork", <<<<"run", cmd.left>>>>>>, <<"wait">>, <<"run", cmd.right>>>>
    [] cmd.type = "PIPE" ->
         <<<<"pipe">>,
           <<"fork", <<<<"close", 1>>, <<"dupp", 1>>, <<"closep", 0>>, <<"closep", 1>>,
                       <<"run", cmd.left>>>>>>,
           <<"fork", <<<<"close", 0>>, <<"dupp", 0>>, <<"closep", 0>>, <<"closep", 1>>,
                       <<"run", cmd.right>>>>>>,
           <<"wait">>, <<"wait">>, <<"exit">>>>
    [] cmd.type = "BACK" -> <<<<"fork", <<<<"run", cmd.cmd>>>>>>, <<"exit">>>>
    [] OTHER -> <<<<"exit">>>>

\* The calls of runcmd(cmd), in order.  close, dup of an end of the pipe (dupp)
\* and close of an end (closep) name descriptors; fork carries what the child
\* does; run is runcmd of a subtree and does not come back.
runcmd(cmd) ==
  CASE cmd.type = "EXEC" ->
         IF cmd.argv = <<>> THEN <<<<"exit">>>> ELSE <<<<"exec", Head(cmd.argv)>>, <<"exit">>>>
    [] cmd.type = "REDIR" -> <<<<"close", cmd.fd>>, <<"open", cmd.file>>, <<"run", cmd.cmd>>>>
    [] cmd.type = "LIST" ->
         <<<<"fork", <<<<"run", cmd.left>>>>>>, <<"wait">>, <<"run", cmd.right>>>>
    [] cmd.type = "PIPE" ->
         <<<<"pipe">>,
           <<"fork", <<<<"close", 1>>, <<"dupp", 1>>, <<"closep", 0>>, <<"closep", 1>>,
                       <<"run", cmd.left>>>>>>,
           <<"fork", <<<<"close", 0>>, <<"dupp", 0>>, <<"closep", 0>>, <<"closep", 1>>,
                       <<"run", cmd.right>>>>>>,
           <<"closep", 0>>, <<"closep", 1>>, <<"wait">>, <<"wait">>, <<"exit">>>>
    [] cmd.type = "BACK" -> <<<<"fork", <<<<"run", cmd.cmd>>>>>>, <<"exit">>>>
    [] OTHER -> <<<<"exit">>>>
============================================================================
