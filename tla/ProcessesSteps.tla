-------------------------- MODULE ProcessesSteps ---------------------------
(***************************************************************************)
(* An inductive invariant of the processes, for any number of slots, files,*)
(* pipes and descriptors, any size of a pipe and any programs, and that it *)
(* is kept by the scheduler, the programs and the calls that make, end and *)
(* wait for processes.                                                     *)
(*                                                                         *)
(* The parts of the invariant are predicates on a process table t, the     *)
(* processes v, a file table fs and pipes ps, so that what one step makes  *)
(* of each is a lemma without variables.                                   *)
(***************************************************************************)
EXTENDS Processes, WellFoundedInduction, TLAPS

Live == {"RUNNABLE", "RUNNING", "SLEEPING"}

Chans == {"none", "proc", "nread", "nwrite", "console"} \X Nat

Entries == [state : States, pid : Nat, parent : 0 .. NPROC, chan : Chans, killed : BOOLEAN]

TableOK(t) == t \in [Slots -> Entries]

\* Code that forks no process and writes nothing.
IsList(c) == \E S : c \in Seq(S)

Plain(c) == IsList(c) /\ \A i \in 1 .. Len(c) : c[i][1] \notin {"write", "fork", "forked"}

\* A call writes no more than a pipe takes, and what a child is forked with is
\* plain.
CallOK(x) ==
  /\ x[1] = "write" => IsList(x[2]) /\ Len(x[2]) <= PIPESIZE
  /\ x[1] \in {"fork", "forked"} => Plain(x[2])

Forks(c) == c # <<>> /\ c[1][1] = "forked"

\* Only the call a process is in may be half of a fork.
CodeOK(c) ==
  /\ IsList(c)
  /\ \A i \in 1 .. Len(c) : CallOK(c[i]) /\ (i > 1 => c[i][1] # "forked")

UsersWith(C) == [prog : Programs \cup {"", "init"}, code : C, fd : [Fds -> 0 .. NFILE],
                 p : Fds \X Fds, pid : Nat, in : BOOLEAN]

UsersOK(v) == (\E C : v \in [Slots -> UsersWith(C)]) /\ \A s \in Slots : CodeOK(v[s].code)

PipesWith(D) == [data : D, nread : 0 .. WRAP - 1, nwrite : 0 .. WRAP - 1,
                 readopen : BOOLEAN, writeopen : BOOLEAN]

PipesOK(ps) ==
  (\E D : ps \in [1 .. NPIPE -> PipesWith(D)]) /\ \A i \in 1 .. NPIPE : Held(ps[i]) <= PIPESIZE

----------------------------------------------------------------------------
\* A non-empty set of naturals has a least element.
LEMMA MinOfNats ==
  ASSUME NEW S \in SUBSET Nat, S # {}
  PROVE  Min(S) \in S /\ \A y \in S : Min(S) <= y
<1> DEFINE R == {ss \in Nat \X Nat : ss[1] < ss[2]}
<1>1. IsWellFoundedOn(R, Nat)
  BY NatLessThanWellFounded DEF OpToRel
<1>2. PICK x \in S : \A y \in S : ~(<<y, x>> \in R)
  BY <1>1, WFMin, Zenon
<1>3. ASSUME NEW y \in S PROVE x <= y
  <2>1. ~(<<y, x>> \in R) /\ x \in Nat /\ y \in Nat
    BY <1>2
  <2>2. QED
    BY <2>1
<1>4. QED
  BY <1>3, Zenon DEF Min

\* A tuple is a list.
LEMMA Tuples ==
  ASSUME NEW a, NEW b, NEW c
  PROVE  IsList(<<a>>) /\ IsList(<<a, b>>) /\ IsList(<<a, b, c>>)
<1>1. <<a>> \in Seq({a})
  OBVIOUS
<1>2. <<a, b>> \in Seq({a, b})
  OBVIOUS
<1>3. <<a, b, c>> \in Seq({a, b, c})
  OBVIOUS
<1>4. QED
  BY <1>1, <1>2, <1>3, Zenon DEF IsList

\* What is left of a program after a call is a program, not halfway in a fork.
LEMMA CodeTail ==
  ASSUME NEW c, CodeOK(c), c # <<>>
  PROVE  CodeOK(Tail(c)) /\ ~Forks(Tail(c))
<1>1. PICK S : c \in Seq(S)
  BY DEF CodeOK, IsList
<1>2. /\ Tail(c) \in Seq(S) /\ Len(Tail(c)) = Len(c) - 1
      /\ \A i \in 1 .. Len(Tail(c)) : Tail(c)[i] = c[i + 1] /\ i + 1 \in 1 .. Len(c)
  BY <1>1
<1>3. ASSUME NEW i \in 1 .. Len(Tail(c)) PROVE CallOK(Tail(c)[i]) /\ Tail(c)[i][1] # "forked"
  <2>1. i + 1 \in 1 .. Len(c) /\ i + 1 > 1 /\ Tail(c)[i] = c[i + 1]
    BY <1>1, <1>2
  <2>2. QED
    BY <2>1 DEF CodeOK
<1>4. Tail(c) # <<>> => 1 \in 1 .. Len(Tail(c))
  BY <1>2
<1>5. QED
  BY <1>2, <1>3, <1>4, Zenon DEF CodeOK, IsList, Forks

\* A program whose first call is replaced is one.
LEMMA CodeCons ==
  ASSUME NEW c, CodeOK(c), c # <<>>, NEW x, CallOK(x)
  PROVE  /\ CodeOK(<<x>> \o Tail(c))
         /\ <<x>> \o Tail(c) # <<>> /\ (<<x>> \o Tail(c))[1] = x
<1> DEFINE y == <<x>> \o Tail(c)
<1>1. PICK S : c \in Seq(S)
  BY DEF CodeOK, IsList
<1>2. Tail(c) \in Seq(S \cup {x}) /\ <<x>> \in Seq(S \cup {x})
  BY <1>1
<1>3. /\ y \in Seq(S \cup {x}) /\ Len(y) = Len(Tail(c)) + 1 /\ y[1] = x
      /\ \A i \in 1 .. Len(y) : i > 1 => i - 1 \in 1 .. Len(Tail(c)) /\ y[i] = Tail(c)[i - 1]
  BY <1>2
<1>4. ASSUME NEW i \in 1 .. Len(y) PROVE CallOK(y[i]) /\ (i > 1 => y[i][1] # "forked")
  <2>1. CASE i = 1
    BY <1>3, <2>1
  <2>2. CASE i > 1
    <3>1. PICK j \in 1 .. Len(Tail(c)) : y[i] = Tail(c)[j]
      BY <1>3, <2>2, Zenon
    <3>2. /\ Len(Tail(c)) = Len(c) - 1 /\ Tail(c)[j] = c[j + 1]
          /\ j + 1 \in 1 .. Len(c) /\ j + 1 > 1
      BY <1>1, <3>1
    <3>3. QED
      BY <3>1, <3>2 DEF CodeOK
  <2>3. QED
    BY <1>2, <1>3, <2>1, <2>2
<1>5. y # <<>>
  BY <1>2, <1>3
<1>6. QED
  BY <1>3, <1>4, <1>5, Zenon DEF CodeOK, IsList

\* The first call of a program.
LEMMA CodeHead ==
  ASSUME NEW c, CodeOK(c), c # <<>>
  PROVE  Head(c) = c[1] /\ CallOK(Head(c))
<1>1. PICK S : c \in Seq(S)
  BY DEF CodeOK, IsList
<1>2. Head(c) = c[1] /\ 1 \in 1 .. Len(c)
  BY <1>1
<1>3. QED
  BY <1>2 DEF CodeOK

\* Plain code is a program, and so is none.
LEMMA PlainCode ==
  ASSUME NEW c, Plain(c)
  PROVE  CodeOK(c) /\ ~Forks(c)
<1>1. PICK S : c \in Seq(S)
  BY DEF Plain, IsList
<1>2. ASSUME NEW i \in 1 .. Len(c) PROVE CallOK(c[i]) /\ c[i][1] # "forked"
  BY DEF Plain, CallOK
<1>3. c # <<>> => 1 \in 1 .. Len(c)
  BY <1>1
<1>4. QED
  BY <1>2, <1>3, Zenon DEF Plain, CodeOK, Forks

\* The programs that are written out: one, two, three calls.
LEMMA ShortCode ==
  ASSUME NEW a, NEW b, NEW c, CallOK(a), CallOK(b), CallOK(c),
         a[1] # "forked", b[1] # "forked", c[1] # "forked"
  PROVE  /\ CodeOK(<<>>) /\ ~Forks(<<>>)
         /\ CodeOK(<<a>>) /\ ~Forks(<<a>>)
         /\ CodeOK(<<a, b>>) /\ ~Forks(<<a, b>>)
         /\ CodeOK(<<a, b, c>>) /\ ~Forks(<<a, b, c>>)
<1>1. IsList(<<>>)
  BY DEF IsList
<1>2. Len(<<>>) = 0 /\ Len(<<a>>) = 1 /\ Len(<<a, b>>) = 2 /\ Len(<<a, b, c>>) = 3
  OBVIOUS
<1>3. \A i \in 1 .. 1 : <<a>>[i] \in {a}
  OBVIOUS
<1>4. \A i \in 1 .. 2 : <<a, b>>[i] \in {a, b}
  OBVIOUS
<1>5. \A i \in 1 .. 3 : <<a, b, c>>[i] \in {a, b, c}
  OBVIOUS
<1>6. <<a>>[1] = a /\ <<a, b>>[1] = a /\ <<a, b, c>>[1] = a
  OBVIOUS
<1>7. \A i \in 1 .. 0 : FALSE
  OBVIOUS
<1>8. CodeOK(<<>>) /\ ~Forks(<<>>)
  BY <1>1, <1>2, <1>7 DEF CodeOK, Forks
<1>9. CodeOK(<<a>>) /\ ~Forks(<<a>>)
  BY <1>2, <1>3, <1>6, Tuples, Zenon DEF CodeOK, Forks
<1>10. CodeOK(<<a, b>>) /\ ~Forks(<<a, b>>)
  BY <1>2, <1>4, <1>6, Tuples, Zenon DEF CodeOK, Forks
<1>11. CodeOK(<<a, b, c>>) /\ ~Forks(<<a, b, c>>)
  BY <1>2, <1>5, <1>6, Tuples, Zenon DEF CodeOK, Forks
<1>12. QED
  BY <1>8, <1>9, <1>10, <1>11

\* A call that neither writes nor forks is one a program may make.
LEMMA OtherCalls ==
  ASSUME NEW x, x[1] \notin {"write", "fork", "forked"}
  PROVE  CallOK(x) /\ x[1] # "forked"
BY DEF CallOK

\* What a program that exits, and init and the desktop, do is a program.
LEMMA FixedCode ==
  /\ CodeOK(<<<<"exit">>>>) /\ ~Forks(<<<<"exit">>>>)
  /\ CodeOK(initLoop) /\ ~Forks(initLoop)
  /\ LET start == <<<<"fork", <<<<"exec", "sh">>, <<"exit">>>>>>>> IN CodeOK(start) /\ ~Forks(start)
<1> DEFINE start(prog) == <<<<"exec", prog>>, <<"exit">>>>
<1>1. ASSUME NEW prog PROVE Plain(start(prog))
  <2>1. IsList(start(prog)) /\ Len(start(prog)) = 2
    BY Tuples, Zenon
  <2>2. \A i \in 1 .. 2 : start(prog)[i] \in {<<"exec", prog>>, <<"exit">>}
    OBVIOUS
  <2>3. QED
    BY <2>1, <2>2 DEF Plain
<1>2. ASSUME NEW prog PROVE CallOK(<<"fork", start(prog)>>) /\ <<"fork", start(prog)>>[1] # "forked"
  <2> HIDE DEF start
  <2>1. <<"fork", start(prog)>>[1] = "fork" /\ <<"fork", start(prog)>>[2] = start(prog)
    OBVIOUS
  <2>2. QED
    BY <1>1, <2>1 DEF CallOK
<1>3. CallOK(<<"exit">>) /\ <<"exit">>[1] # "forked" /\ CallOK(<<"waitfor">>) /\ <<"waitfor">>[1] # "forked"
  BY OtherCalls
<1> HIDE DEF start
<1>4. CodeOK(<<<<"exit">>>>) /\ ~Forks(<<<<"exit">>>>)
  BY <1>3, ShortCode, Zenon
<1>5. /\ CodeOK(<<<<"fork", start("desktop")>>, <<"waitfor">>>>)
      /\ ~Forks(<<<<"fork", start("desktop")>>, <<"waitfor">>>>)
  BY <1>2, <1>3, ShortCode, Zenon
<1>6. CodeOK(<<<<"fork", start("sh")>>>>) /\ ~Forks(<<<<"fork", start("sh")>>>>)
  BY <1>2, <1>3, ShortCode, Zenon
<1>7. QED
  BY <1>4, <1>5, <1>6, Zenon DEF start, initLoop

\* What the shell does with a line that was typed is a program.
LEMMA LineCode ==
  ASSUME NEW line
  PROVE  LET c == <<<<"fork", <<<<"parse", line>>>>>>, <<"wait">>>> IN CodeOK(c) /\ ~Forks(c)
<1> DEFINE x == <<<<"parse", line>>>>
<1>1. Plain(x)
  <2>1. IsList(x) /\ Len(x) = 1
    BY Tuples, Zenon
  <2>2. \A i \in 1 .. 1 : x[i] = <<"parse", line>>
    OBVIOUS
  <2>3. QED
    BY <2>1, <2>2 DEF Plain
<1> HIDE DEF x
<1>2. <<"fork", x>>[1] = "fork" /\ <<"fork", x>>[2] = x
  OBVIOUS
<1>3. CallOK(<<"fork", x>>) /\ <<"fork", x>>[1] # "forked"
  BY <1>1, <1>2 DEF CallOK
<1>4. CallOK(<<"wait">>) /\ <<"wait">>[1] # "forked"
  BY OtherCalls
<1>5. CodeOK(<<<<"fork", x>>, <<"wait">>>>) /\ ~Forks(<<<<"fork", x>>, <<"wait">>>>)
  BY <1>3, <1>4, ShortCode, Zenon
<1>6. QED
  BY <1>5, Zenon DEF x

\* A child of the shell that runs a part of a line, whatever it does with its
\* descriptors first, has plain code.
LEMMA ChildCode ==
  ASSUME NEW cmd, NEW n
  PROVE  /\ CallOK(<<"fork", <<<<"run", cmd>>>>>>)
         /\ CallOK(<<"fork", <<<<"close", n>>, <<"dupp", n>>, <<"closep", 0>>, <<"closep", 1>>,
                               <<"run", cmd>>>>>>)
<1> DEFINE x == <<<<"run", cmd>>>>
           y == <<<<"close", n>>, <<"dupp", n>>, <<"closep", 0>>, <<"closep", 1>>, <<"run", cmd>>>>
<1>1. Plain(x)
  <2>1. IsList(x) /\ Len(x) = 1
    BY Tuples, Zenon
  <2>2. \A i \in 1 .. 1 : x[i] = <<"run", cmd>>
    OBVIOUS
  <2>3. QED
    BY <2>1, <2>2 DEF Plain
<1>2. Plain(y)
  <2> DEFINE S == {<<"close", n>>, <<"dupp", n>>, <<"closep", 0>>, <<"closep", 1>>, <<"run", cmd>>}
  <2>1. y \in Seq(S)
    OBVIOUS
  <2>2. \A i \in 1 .. Len(y) : y[i] \in S
    BY <2>1
  <2>3. \A z \in S : z[1] \notin {"write", "fork", "forked"}
    OBVIOUS
  <2> HIDE DEF y, S
  <2>4. QED
    BY <2>1, <2>2, <2>3, Zenon DEF Plain, IsList
<1> HIDE DEF x, y
<1>3. <<"fork", x>>[1] = "fork" /\ <<"fork", x>>[2] = x /\ <<"fork", y>>[1] = "fork" /\ <<"fork", y>>[2] = y
  OBVIOUS
<1>4. CallOK(<<"fork", x>>) /\ CallOK(<<"fork", y>>)
  BY <1>1, <1>2, <1>3 DEF CallOK
<1>5. QED
  BY <1>4, Zenon DEF x, y

\* runcmd's calls are a program for every tree.
LEMMA RuncmdCode ==
  ASSUME NEW cmd
  PROVE  CodeOK(runcmd(cmd)) /\ ~Forks(runcmd(cmd))
<1> DEFINE e == <<"exit">>
           w == <<"wait">>
<1>1. CallOK(e) /\ e[1] # "forked" /\ CallOK(w) /\ w[1] # "forked"
  BY OtherCalls
<1>2. ASSUME NEW op \in {"exec", "close", "open", "run", "closep"}, NEW a
      PROVE  CallOK(<<op, a>>) /\ <<op, a>>[1] # "forked"
  BY OtherCalls
<1>3. ASSUME NEW a PROVE <<"fork", a>>[1] # "forked"
  OBVIOUS
<1>4. CASE cmd.type = "EXEC"
  <2>1. runcmd(cmd) = IF cmd.argv = <<>> THEN <<e>> ELSE <<<<"exec", Head(cmd.argv)>>, e>>
    BY <1>4 DEF runcmd
  <2> HIDE DEF e
  <2>2. CodeOK(<<e>>) /\ ~Forks(<<e>>)
    BY <1>1, ShortCode, Zenon
  <2>3. /\ CodeOK(<<<<"exec", Head(cmd.argv)>>, e>>)
        /\ ~Forks(<<<<"exec", Head(cmd.argv)>>, e>>)
    BY <1>1, <1>2, ShortCode, Zenon
  <2>4. QED
    BY <2>1, <2>2, <2>3, Zenon
<1>5. CASE cmd.type = "REDIR"
  <2>1. runcmd(cmd) = <<<<"close", cmd.fd>>, <<"open", cmd.file>>, <<"run", cmd.cmd>>>>
    BY <1>5 DEF runcmd
  <2>2. QED
    BY <1>2, <2>1, ShortCode, Zenon
<1>6. CASE cmd.type = "LIST"
  <2>1. runcmd(cmd) = <<<<"fork", <<<<"run", cmd.left>>>>>>, w, <<"run", cmd.right>>>>
    BY <1>6 DEF runcmd
  <2> HIDE DEF w
  <2>2. QED
    BY <1>1, <1>2, <1>3, <2>1, ChildCode, ShortCode, Zenon
<1>7. CASE cmd.type = "BACK"
  <2>1. runcmd(cmd) = <<<<"fork", <<<<"run", cmd.cmd>>>>>>, e>>
    BY <1>7 DEF runcmd
  <2> HIDE DEF e
  <2>2. QED
    BY <1>1, <1>3, <2>1, ChildCode, ShortCode, Zenon
<1>8. CASE cmd.type = "PIPE"
  <2> DEFINE f(n, c) == <<"fork", <<<<"close", n>>, <<"dupp", n>>, <<"closep", 0>>, <<"closep", 1>>,
                                    <<"run", c>>>>>>
             l == f(1, cmd.left)
             r == f(0, cmd.right)
             S == {<<"pipe">>, l, r, <<"closep", 0>>, <<"closep", 1>>, w, e}
             code == <<<<"pipe">>, l, r, <<"closep", 0>>, <<"closep", 1>>, w, w, e>>
  <2>1. runcmd(cmd) = code
    BY <1>8 DEF runcmd
  <2>2. CallOK(l) /\ l[1] # "forked" /\ CallOK(r) /\ r[1] # "forked"
    BY <1>3, ChildCode, Zenon
  <2>3. CallOK(<<"pipe">>) /\ <<"pipe">>[1] # "forked"
    BY OtherCalls
  <2> HIDE DEF l, r, w, e, f
  <2>4. \A x \in S : CallOK(x) /\ x[1] # "forked"
    BY <1>1, <1>2, <2>2, <2>3
  <2>5. code \in Seq(S) /\ code # <<>> /\ code[1] \in S
    OBVIOUS
  <2>6. \A i \in 1 .. Len(code) : code[i] \in S
    BY <2>5
  <2> HIDE DEF code, S
  <2>7. QED
    BY <2>1, <2>4, <2>5, <2>6, Zenon DEF CodeOK, IsList, Forks
<1>9. CASE cmd.type \notin {"EXEC", "REDIR", "LIST", "BACK", "PIPE"}
  <2>1. runcmd(cmd) = <<e>>
    BY <1>9 DEF runcmd
  <2> HIDE DEF e
  <2>2. QED
    BY <1>1, <2>1, ShortCode, Zenon
<1>10. QED
  BY <1>4, <1>5, <1>6, <1>7, <1>8, <1>9, Zenon

\* What a program does when it is started is a program.
LEMMA MainCode ==
  ASSUME NEW prog \in Programs
  PROVE  CodeOK(Main(prog)) /\ ~Forks(Main(prog))
<1>1. CASE prog = "echo"
  <2> DEFINE writes == [k \in 1 .. BYTES |-> <<"write", <<k>>>>]
             code == writes \o <<<<"exit">>>>
             S == {<<"write", <<k>>>> : k \in 1 .. BYTES} \cup {<<"exit">>}
  <2>1. Main(prog) = code
    BY <1>1, Zenon DEF Main
  <2>2. BYTES \in Nat
    BY FilesAssumption, Zenon
  <2>3. writes \in Seq(S) /\ <<<<"exit">>>> \in Seq(S)
    BY <2>2
  <2>4. ASSUME NEW k \in 1 .. BYTES PROVE CallOK(<<"write", <<k>>>>) /\ <<"write", <<k>>>>[1] # "forked"
    <3>1. IsList(<<k>>) /\ Len(<<k>>) = 1
      BY Tuples, Zenon
    <3>2. <<"write", <<k>>>>[1] = "write" /\ <<"write", <<k>>>>[2] = <<k>>
      OBVIOUS
    <3>3. QED
      BY <3>1, <3>2, PipeAssumption DEF CallOK
  <2>5. \A x \in S : CallOK(x) /\ x[1] # "forked"
    BY <2>4, OtherCalls
  <2> HIDE DEF S, writes
  <2>6. code \in Seq(S)
    BY <2>3
  <2>7. \A i \in 1 .. Len(code) : code[i] \in S
    BY <2>6
  <2>8. code # <<>> => 1 \in 1 .. Len(code)
    BY <2>6
  <2> HIDE DEF code
  <2>9. QED
    BY <2>1, <2>5, <2>6, <2>7, <2>8, Zenon DEF CodeOK, IsList, Forks
<1>2. CASE prog = "cat"
  <2>1. Main(prog) = <<<<"read">>>>
    BY <1>2 DEF Main
  <2>2. CallOK(<<"read">>) /\ <<"read">>[1] # "forked"
    BY OtherCalls
  <2>3. QED
    BY <2>1, <2>2, ShortCode, Zenon
<1>3. CASE prog \in {"sh", "desktop"}
  <2>1. Main(prog) = <<>>
    BY <1>3 DEF Main
  <2>2. CallOK(<<"read">>) /\ <<"read">>[1] # "forked"
    BY OtherCalls
  <2>3. QED
    BY <2>1, <2>2, ShortCode, Zenon
<1>4. QED
  BY <1>1, <1>2, <1>3 DEF Programs

----------------------------------------------------------------------------
\* Remainders, as the counters of a pipe use them.
LEMMA Mod ==
  ASSUME NEW b \in Nat \ {0}
  PROVE  /\ \A a \in Int : a % b \in 0 .. b - 1
         /\ \A a \in 0 .. b - 1 : a % b = a /\ (a + b) % b = a
OBVIOUS

\* A pipe holds the bytes between its two counters, none if they are equal.
LEMMA HeldIs ==
  ASSUME NEW D, NEW p \in PipesWith(D)
  PROVE  /\ Held(p) = IF p.nwrite >= p.nread THEN p.nwrite - p.nread ELSE p.nwrite + WRAP - p.nread
         /\ Held(p) \in 0 .. WRAP - 1
         /\ Held(p) = 0 <=> Empty(p)
<1>1. p.nread \in 0 .. WRAP - 1 /\ p.nwrite \in 0 .. WRAP - 1 /\ WRAP \in Nat \ {0}
  BY PipeAssumption DEF PipesWith
<1>2. CASE p.nwrite >= p.nread
  <2>1. p.nwrite - p.nread \in 0 .. WRAP - 1 /\ p.nwrite + WRAP - p.nread = (p.nwrite - p.nread) + WRAP
    BY <1>1, <1>2
  <2>2. Held(p) = p.nwrite - p.nread
    BY <1>1, <2>1, Mod DEF Held
  <2>3. QED
    BY <1>1, <1>2, <2>1, <2>2 DEF Empty
<1>3. CASE p.nwrite < p.nread
  <2>1. p.nwrite + WRAP - p.nread \in 1 .. WRAP - 1
    BY <1>1, <1>3
  <2>2. Held(p) = p.nwrite + WRAP - p.nread
    BY <1>1, <2>1, Mod DEF Held
  <2>3. QED
    BY <1>1, <1>3, <2>1, <2>2 DEF Empty
<1>4. QED
  BY <1>1, <1>2, <1>3

\* A counter that goes on by less than WRAP.
LEMMA CounterOn ==
  ASSUME NEW a \in 0 .. WRAP - 1, NEW n \in 0 .. WRAP - 1
  PROVE  (a + n) % WRAP = IF a + n < WRAP THEN a + n ELSE a + n - WRAP
<1>1. WRAP \in Nat \ {0}
  BY PipeAssumption
<1>2. CASE a + n < WRAP
  <2>1. a + n \in 0 .. WRAP - 1
    BY <1>1, <1>2
  <2>2. QED
    BY <1>1, <1>2, <2>1, Mod, Zenon
<1>3. CASE ~(a + n < WRAP)
  <2>1. a + n - WRAP \in 0 .. WRAP - 1 /\ a + n = (a + n - WRAP) + WRAP
    BY <1>1, <1>3
  <2>2. QED
    BY <1>1, <1>3, <2>1, Mod, Zenon
<1>4. QED
  BY <1>2, <1>3

\* What a pipe holds when its write counter has gone on.
LEMMA Advanced ==
  ASSUME NEW a \in 0 .. WRAP - 1, NEW r \in 0 .. WRAP - 1, NEW n \in 0 .. WRAP - 1,
         NEW h, h = IF a >= r THEN a - r ELSE a + WRAP - r, h + n < WRAP,
         NEW b, b = IF a + n < WRAP THEN a + n ELSE a + n - WRAP
  PROVE  (IF b >= r THEN b - r ELSE b + WRAP - r) = h + n
BY PipeAssumption

\* The lesser of two numbers.
LEMMA MinOfTwo ==
  ASSUME NEW m \in Nat, NEW n \in Nat
  PROVE  Min({m, n}) = IF m <= n THEN m ELSE n
<1>1. {m, n} \in SUBSET Nat /\ {m, n} # {}
  OBVIOUS
<1>2. Min({m, n}) \in {m, n} /\ \A y \in {m, n} : Min({m, n}) <= y
  BY <1>1, MinOfNats
<1>3. QED
  BY <1>2

\* pipewrite's loop: the bytes that do not fit are left, and then the pipe is
\* full; the ends stay as they are.
LEMMA FillFacts ==
  ASSUME NEW D, NEW p \in PipesWith(D), Held(p) <= PIPESIZE, NEW bytes, IsList(bytes),
         Len(bytes) <= PIPESIZE
  PROVE  LET r == fill(p, bytes) IN
         /\ r.pipe \in PipesWith({r.pipe.data})
         /\ r.pipe.readopen = p.readopen /\ r.pipe.writeopen = p.writeopen
         /\ Held(r.pipe) <= PIPESIZE
         /\ Held(p) = PIPESIZE => Held(r.pipe) = PIPESIZE
         /\ r.left # <<>> => Held(r.pipe) = PIPESIZE /\ Held(p) # 0
         /\ IsList(r.left) /\ Len(r.left) <= PIPESIZE
<1> DEFINE h == Held(p)
           n == Min({Len(bytes), PIPESIZE - h})
           q == put(p, bytes, n)
           left == SubSeq(bytes, n + 1, Len(bytes))
<1>1. PICK S : bytes \in Seq(S)
  BY DEF IsList
<1>2. h \in 0 .. PIPESIZE /\ Len(bytes) \in Nat /\ WRAP \in Nat /\ PIPESIZE \in Nat \ {0} /\ PIPESIZE < WRAP
  BY <1>1, HeldIs, PipeAssumption
<1>3. n = IF Len(bytes) <= PIPESIZE - h THEN Len(bytes) ELSE PIPESIZE - h
  <2> HIDE DEF h
  <2>1. PIPESIZE - h \in Nat
    BY <1>2
  <2>2. QED
    BY <1>2, <2>1, MinOfTwo
<1>4. n \in 0 .. WRAP - 1 /\ h + n <= PIPESIZE /\ n <= Len(bytes)
  <2> HIDE DEF n, h
  <2>1. QED
    BY <1>2, <1>3
<1>5. /\ p.nread \in 0 .. WRAP - 1 /\ p.nwrite \in 0 .. WRAP - 1
      /\ p.readopen \in BOOLEAN /\ p.writeopen \in BOOLEAN
  BY DEF PipesWith
<1>6. /\ q.nwrite = (p.nwrite + n) % WRAP /\ q.nread = p.nread
      /\ q.readopen = p.readopen /\ q.writeopen = p.writeopen
  <2> HIDE DEF n
  <2>1. PICK e : q = [p EXCEPT !.data = e, !.nwrite = (@ + n) % WRAP]
    BY Zenon DEF put
  <2> HIDE DEF q
  <2>2. QED
    BY <2>1 DEF PipesWith
<1>7. q \in PipesWith({q.data})
  <2> HIDE DEF n, q
  <2>1. q.nwrite \in 0 .. WRAP - 1
    <3>1. q.nwrite = IF p.nwrite + n < WRAP THEN p.nwrite + n ELSE p.nwrite + n - WRAP
      BY <1>4, <1>5, <1>6, CounterOn
    <3>2. QED
      BY <1>2, <1>4, <1>5, <3>1
  <2>2. q = [data |-> q.data, nread |-> q.nread, nwrite |-> q.nwrite, readopen |-> q.readopen,
             writeopen |-> q.writeopen]
    <3>1. PICK e : q = [p EXCEPT !.data = e, !.nwrite = (@ + n) % WRAP]
      BY Zenon DEF put, q
    <3> HIDE DEF q
    <3>2. QED
      BY <3>1, Zenon DEF PipesWith
  <2> HIDE DEF q
  <2>3. QED
    BY <1>5, <1>6, <2>1, <2>2 DEF PipesWith
<1>8. Held(q) = h + n
  <2> HIDE DEF n, q
  <2>1. q.nwrite = IF p.nwrite + n < WRAP THEN p.nwrite + n ELSE p.nwrite + n - WRAP
    BY <1>4, <1>5, <1>6, CounterOn
  <2>2. Held(q) = IF q.nwrite >= p.nread THEN q.nwrite - p.nread ELSE q.nwrite + WRAP - p.nread
    BY <1>6, <1>7, HeldIs
  <2>3. h = IF p.nwrite >= p.nread THEN p.nwrite - p.nread ELSE p.nwrite + WRAP - p.nread
    BY HeldIs
  <2> HIDE DEF h
  <2>4. h + n < WRAP
    BY <1>2, <1>4
  <2>5. PICK a \in 0 .. WRAP - 1, r \in 0 .. WRAP - 1 : a = p.nwrite /\ r = p.nread
    BY <1>5, Zenon
  <2>6. PICK b : b = q.nwrite
    BY Zenon
  <2>7. /\ h = IF a >= r THEN a - r ELSE a + WRAP - r
        /\ b = IF a + n < WRAP THEN a + n ELSE a + n - WRAP
    BY <2>1, <2>3, <2>5, <2>6, Zenon
  <2>8. (IF b >= r THEN b - r ELSE b + WRAP - r) = h + n
    BY <1>4, <2>4, <2>7, Advanced
  <2>9. Held(q) = IF b >= r THEN b - r ELSE b + WRAP - r
    BY <2>2, <2>5, <2>6, Zenon
  <2>10. QED
    BY <2>8, <2>9
<1>9. left \in Seq(S) /\ Len(left) = Len(bytes) - n /\ (n = Len(bytes) => left = <<>>)
  <2> HIDE DEF n
  <2>1. left \in Seq(S)
    BY <1>1, <1>4
  <2>2. Len(left) = Len(bytes) - n
    BY <1>1, <1>4
  <2> HIDE DEF left
  <2>3. QED
    BY <1>2, <2>1, <2>2
<1>10. fill(p, bytes).pipe = q /\ fill(p, bytes).left = left
  BY Zenon DEF fill
<1> HIDE DEF h, n, q, left
<1>11. left # <<>> => h + n = PIPESIZE /\ h # 0
  BY <1>2, <1>3, <1>9
<1>12. Len(left) <= PIPESIZE
  BY <1>2, <1>4, <1>9
<1>13. h = PIPESIZE => h + n = PIPESIZE
  BY <1>2, <1>4
<1>14. IsList(left)
  BY <1>9, Zenon DEF IsList
<1>15. QED
  BY <1>4, <1>6, <1>7, <1>8, <1>10, <1>11, <1>12, <1>13, <1>14 DEF h

\* piperead's loop: what is taken out is no more than a pipe holds, and the
\* ends stay as they are.
LEMMA TakeFacts ==
  ASSUME NEW D, NEW p \in PipesWith(D), Held(p) <= PIPESIZE, NEW m \in Nat
  PROVE  LET r == take(p, m) IN
         /\ r.pipe \in PipesWith({r.pipe.data})
         /\ r.pipe.readopen = p.readopen /\ r.pipe.writeopen = p.writeopen
         /\ Held(r.pipe) <= PIPESIZE
         /\ IsList(r.bytes) /\ Len(r.bytes) <= PIPESIZE
<1> DEFINE h == Held(p)
           k == Min({m, h})
           q == [p EXCEPT !.nread = (@ + k) % WRAP]
           F(j) == p.data[((p.nread + j - 1) % WRAP) % PIPESIZE]
           bytes == [j \in 1 .. k |-> F(j)]
<1>1. h \in 0 .. PIPESIZE /\ WRAP \in Nat /\ PIPESIZE \in Nat \ {0} /\ PIPESIZE < WRAP
  BY HeldIs, PipeAssumption
<1>2. k \in 0 .. WRAP - 1 /\ k <= h
  <2> HIDE DEF h
  <2>1. k = IF m <= h THEN m ELSE h
    BY <1>1, MinOfTwo
  <2>2. QED
    BY <1>1, <2>1
<1>3. /\ p.nread \in 0 .. WRAP - 1 /\ p.nwrite \in 0 .. WRAP - 1
      /\ p.readopen \in BOOLEAN /\ p.writeopen \in BOOLEAN
  BY DEF PipesWith
<1> HIDE DEF k
<1>4. /\ q.nread = (p.nread + k) % WRAP /\ q.nwrite = p.nwrite /\ q.data = p.data
      /\ q.readopen = p.readopen /\ q.writeopen = p.writeopen
  BY DEF PipesWith
<1>5. q.nread = IF p.nread + k < WRAP THEN p.nread + k ELSE p.nread + k - WRAP
  BY <1>2, <1>3, <1>4, CounterOn
<1>6. q \in PipesWith({q.data})
  <2>1. q.nread \in 0 .. WRAP - 1
    BY <1>1, <1>2, <1>3, <1>5
  <2>2. q = [data |-> q.data, nread |-> q.nread, nwrite |-> q.nwrite, readopen |-> q.readopen,
             writeopen |-> q.writeopen]
    BY DEF PipesWith
  <2> HIDE DEF q
  <2>3. QED
    BY <1>3, <1>4, <2>1, <2>2 DEF PipesWith
<1> HIDE DEF q
<1>7. Held(q) = h - k
  <2>2. Held(q) = IF p.nwrite >= q.nread THEN p.nwrite - q.nread ELSE p.nwrite + WRAP - q.nread
    BY <1>4, <1>6, HeldIs
  <2>3. h = IF p.nwrite >= p.nread THEN p.nwrite - p.nread ELSE p.nwrite + WRAP - p.nread
    BY HeldIs
  <2> HIDE DEF h
  <2>4. QED
    BY <1>1, <1>2, <1>3, <1>5, <2>2, <2>3
<1>8. IsList(bytes) /\ Len(bytes) = k
  <2> DEFINE S == {F(j) : j \in 1 .. k}
  <2> HIDE DEF F
  <2>1. bytes \in Seq(S) /\ Len(bytes) = k
    BY <1>2
  <2> HIDE DEF S, bytes
  <2>2. QED
    BY <2>1, Zenon DEF IsList
<1>9. take(p, m).pipe = q /\ take(p, m).bytes = bytes
  BY DEF take, q, k
<1> HIDE DEF bytes, h
<1>10. h - k <= PIPESIZE /\ k <= PIPESIZE
  BY <1>1, <1>2
<1>11. QED
  BY <1>4, <1>6, <1>7, <1>8, <1>9, <1>10, Zenon

\* A new pipe, and a slot for one, are empty.
LEMMA EmptyPipes ==
  /\ pipealloc \in PipesWith({pipealloc.data}) /\ Held(pipealloc) = 0
  /\ pipealloc.readopen /\ pipealloc.writeopen
  /\ NoPipe \in PipesWith({NoPipe.data}) /\ Held(NoPipe) = 0
  /\ ~NoPipe.readopen /\ ~NoPipe.writeopen
<1> DEFINE d == [k \in 0 .. PIPESIZE - 1 |-> 0]
<1>1. 0 \in 0 .. WRAP - 1 /\ WRAP \in Nat \ {0}
  BY PipeAssumption
<1>2. pipealloc = [data |-> d, nread |-> 0, nwrite |-> 0, readopen |-> TRUE, writeopen |-> TRUE]
  BY DEF pipealloc
<1> HIDE DEF d
<1>3. NoPipe = [data |-> d, nread |-> 0, nwrite |-> 0, readopen |-> FALSE, writeopen |-> FALSE]
  <2>1. NoPipe = [pipealloc EXCEPT !.readopen = FALSE, !.writeopen = FALSE]
    BY DEF NoPipe
  <2>2. QED
    BY <1>2, <2>1, Zenon
<1>4. pipealloc \in PipesWith({pipealloc.data}) /\ pipealloc.readopen /\ pipealloc.writeopen
  BY <1>1, <1>2 DEF PipesWith
<1>5. NoPipe \in PipesWith({NoPipe.data}) /\ ~NoPipe.readopen /\ ~NoPipe.writeopen
  BY <1>1, <1>3 DEF PipesWith
<1>6. Empty(pipealloc) /\ Empty(NoPipe)
  BY <1>2, <1>3 DEF Empty
<1>7. QED
  BY <1>4, <1>5, <1>6, HeldIs

\* pipeclose closes one end and leaves the other, and with that open what the
\* pipe holds.
LEMMA PipecloseFacts ==
  ASSUME NEW D, NEW p \in PipesWith(D), Held(p) <= PIPESIZE, NEW writable \in BOOLEAN
  PROVE  LET q == pipeclose(p, writable) IN
         /\ q \in PipesWith({q.data})
         /\ Held(q) <= PIPESIZE
         /\ q.writeopen <=> p.writeopen /\ ~writable
         /\ q.readopen <=> p.readopen /\ writable
         /\ (IF writable THEN p.readopen ELSE p.writeopen) => Held(q) = Held(p)
<1> DEFINE r == IF writable THEN [p EXCEPT !.writeopen = FALSE] ELSE [p EXCEPT !.readopen = FALSE]
<1>1. /\ r \in PipesWith({r.data}) /\ r.nread = p.nread /\ r.nwrite = p.nwrite
      /\ r.writeopen <=> p.writeopen /\ ~writable
      /\ r.readopen <=> p.readopen /\ writable
  BY Zenon DEF PipesWith
<1>2. Held(r) = Held(p)
  BY <1>1 DEF Held
<1>3. pipeclose(p, writable) = IF r.readopen \/ r.writeopen THEN r ELSE NoPipe
  BY DEF pipeclose
<1> HIDE DEF r
<1>4. CASE r.readopen \/ r.writeopen
  <2>1. pipeclose(p, writable) = r
    BY <1>3, <1>4
  <2>2. QED
    BY <1>1, <1>2, <2>1
<1>5. CASE ~(r.readopen \/ r.writeopen)
  <2>1. pipeclose(p, writable) = NoPipe
    BY <1>3, <1>5
  <2>2. Held(NoPipe) <= PIPESIZE
    BY EmptyPipes, PipeAssumption
  <2>3. NoPipe \in PipesWith({NoPipe.data}) /\ ~NoPipe.readopen /\ ~NoPipe.writeopen
    BY EmptyPipes
  <2>4. ~(IF writable THEN p.readopen ELSE p.writeopen)
    BY <1>1, <1>5
  <2>5. (p.writeopen /\ ~writable <=> FALSE) /\ (p.readopen /\ writable <=> FALSE)
    BY <1>1, <1>5
  <2>6. QED
    BY <2>1, <2>2, <2>3, <2>4, <2>5
<1>6. QED
  BY <1>4, <1>5

\* A function with one value replaced.
Put(t, s, e) == [t EXCEPT ![s] = e]

\* One of the pipes changes.
LEMMA PipesSet ==
  ASSUME NEW ps, PipesOK(ps), NEW i \in 1 .. NPIPE, NEW q, q \in PipesWith({q.data}),
         Held(q) <= PIPESIZE
  PROVE  /\ PipesOK(Put(ps, i, q)) /\ Put(ps, i, q)[i] = q
         /\ \A j \in 1 .. NPIPE : j # i => Put(ps, i, q)[j] = ps[j]
<1> DEFINE ps2 == Put(ps, i, q)
<1>1. PICK D : ps \in [1 .. NPIPE -> PipesWith(D)]
  BY DEF PipesOK
<1>2. PipesWith(D) \subseteq PipesWith(D \cup {q.data}) /\ q \in PipesWith(D \cup {q.data})
  BY DEF PipesWith
<1>3. ps2 \in [1 .. NPIPE -> PipesWith(D \cup {q.data})]
  BY <1>1, <1>2, Zenon DEF Put
<1>4. ps2[i] = q /\ \A j \in 1 .. NPIPE : j # i => ps2[j] = ps[j]
  BY <1>1 DEF Put
<1>5. \A j \in 1 .. NPIPE : Held(ps2[j]) <= PIPESIZE
  BY <1>4 DEF PipesOK
<1>6. QED
  BY <1>3, <1>4, <1>5, Zenon DEF PipesOK

----------------------------------------------------------------------------
\* What keeps process q asleep in table t with pipes ps: children none of which
\* is a zombie, an empty pipe with a writer, a full one with a reader.
Reason(t, ps, q) ==
  LET c == t[q].chan IN
  /\ ~t[q].killed
  /\ c[1] = "proc" => c[2] = q /\ Children(t, q) # {} /\ Zombies(t, q) = {}
  /\ c[1] = "nread" => c[2] \in 1 .. NPIPE /\ Held(ps[c[2]]) = 0 /\ ps[c[2]].writeopen
  /\ c[1] = "nwrite" => c[2] \in 1 .. NPIPE /\ Held(ps[c[2]]) = PIPESIZE /\ ps[c[2]].readopen

Asleep(t, ps) == \A q \in Slots : t[q].state = "SLEEPING" => Reason(t, ps, q)

\* A free slot and one being forked have no parent.
NoParent(t) == \A q \in Slots : t[q].state \in {"UNUSED", "EMBRYO"} => t[q].parent = 0

\* The child of a half fork.
ChildOf(v, s) == v[s].code[1][3]

\* A half fork has a child of its own.
Forking(t, v) ==
  \A s \in Slots : Forks(v[s].code) =>
    /\ ChildOf(v, s) \in Slots /\ t[ChildOf(v, s)].state = "EMBRYO"
    /\ \A r \in Slots : Forks(v[r].code) /\ ChildOf(v, r) = ChildOf(v, s) => r = s

\* From t to t2 processes only go to sleep, wake up, are switched to or from.
Moves(t, t2) ==
  \A q \in Slots : /\ t2[q].parent = t[q].parent
                   /\ t2[q].state = t[q].state \/ (t[q].state \in Live /\ t2[q].state \in Live)

\* Moves change nobody's children.
LEMMA FamilySame ==
  ASSUME NEW t, NEW t2, Moves(t, t2), NEW q
  PROVE  Children(t2, q) = Children(t, q) /\ Zombies(t2, q) = Zombies(t, q)
<1>1. Children(t2, q) = Children(t, q)
  BY DEF Moves, Children
<1>2. ASSUME NEW c \in Children(t, q) PROVE t2[c].state = "ZOMBIE" <=> t[c].state = "ZOMBIE"
  BY DEF Moves, Live, Children
<1>3. QED
  BY <1>1, <1>2 DEF Zombies

\* Through moves a free slot has no parent and a half fork has its child, if no
\* process gets into another half fork.
LEMMA MovesKeep ==
  ASSUME NEW t, NEW t2, NEW v, NEW v2, Moves(t, t2), NoParent(t), Forking(t, v),
         \A q \in Slots : v2[q].code = v[q].code \/ ~Forks(v2[q].code)
  PROVE  NoParent(t2) /\ Forking(t2, v2)
<1>1. NoParent(t2)
  BY DEF Moves, Live, NoParent
<1>2. Forking(t2, v2)
  <2>1. SUFFICES ASSUME NEW s \in Slots, Forks(v2[s].code)
                 PROVE  /\ ChildOf(v2, s) \in Slots /\ t2[ChildOf(v2, s)].state = "EMBRYO"
                        /\ \A r \in Slots : Forks(v2[r].code) /\ ChildOf(v2, r) = ChildOf(v2, s) => r = s
    BY DEF Forking
  <2>2. \A r \in Slots : Forks(v2[r].code) => Forks(v[r].code) /\ ChildOf(v2, r) = ChildOf(v, r)
    BY Zenon DEF ChildOf
  <2>3. ChildOf(v, s) \in Slots /\ t[ChildOf(v, s)].state = "EMBRYO"
    BY <2>1, <2>2 DEF Forking
  <2>4. t2[ChildOf(v, s)].state = "EMBRYO"
    BY <2>3 DEF Moves, Live
  <2>5. QED
    BY <2>1, <2>2, <2>3, <2>4 DEF Forking
<1>3. QED
  BY <1>1, <1>2

\* wakeup1 leaves none asleep on its channel, and no one else is touched.
LEMMA WakeupFacts ==
  ASSUME NEW t, TableOK(t), NEW c
  PROVE  /\ TableOK(wakeup1(t, c)) /\ Moves(t, wakeup1(t, c))
         /\ \A q \in Slots :
              /\ wakeup1(t, c)[q].state = "SLEEPING" => wakeup1(t, c)[q] = t[q] /\ t[q].chan # c
              /\ t[q].state # "SLEEPING" => wakeup1(t, c)[q] = t[q]
              /\ wakeup1(t, c)[q].killed = t[q].killed
<1> DEFINE t2 == wakeup1(t, c)
<1>1. ASSUME NEW q \in Slots
      PROVE  /\ t2[q] \in Entries
             /\ t2[q].parent = t[q].parent
             /\ t2[q].state = t[q].state \/ (t[q].state \in Live /\ t2[q].state \in Live)
             /\ t2[q].state = "SLEEPING" => t2[q] = t[q] /\ t[q].chan # c
             /\ t[q].state # "SLEEPING" => t2[q] = t[q]
             /\ t2[q].killed = t[q].killed
  <2>1. t[q] \in Entries
    BY DEF TableOK
  <2>2. t2[q] = IF t[q].state = "SLEEPING" /\ t[q].chan = c
                THEN [t[q] EXCEPT !.state = "RUNNABLE", !.chan = NoChan] ELSE t[q]
    BY DEF wakeup1
  <2> HIDE DEF t2
  <2>3. CASE t[q].state = "SLEEPING" /\ t[q].chan = c
    <3>1. NoChan \in Chans
      BY DEF NoChan, Chans
    <3>2. t2[q] = [t[q] EXCEPT !.state = "RUNNABLE", !.chan = NoChan]
      BY <2>2, <2>3
    <3>3. QED
      BY <2>1, <2>3, <3>1, <3>2, Zenon DEF Entries, States, Live
  <2>4. CASE ~(t[q].state = "SLEEPING" /\ t[q].chan = c)
    BY <2>1, <2>2, <2>4
  <2>5. QED
    BY <2>3, <2>4
<1>2. t2 = [q \in Slots |-> t2[q]]
  BY DEF wakeup1
<1> HIDE DEF t2
<1>3. TableOK(t2)
  BY <1>1, <1>2 DEF TableOK
<1>4. Moves(t, t2)
  BY <1>1 DEF Moves
<1>5. QED
  BY <1>1, <1>3, <1>4 DEF t2

\* One entry of the table changes.
LEMMA EntrySet ==
  ASSUME NEW t, TableOK(t), NEW s \in Slots, NEW e \in Entries
  PROVE  /\ TableOK(Put(t, s, e)) /\ Put(t, s, e)[s] = e
         /\ \A q \in Slots : q # s => Put(t, s, e)[q] = t[q]
BY DEF TableOK, Put

\* sleep: the process is asleep on its channel.
LEMMA SleepFacts ==
  ASSUME NEW t, TableOK(t), NEW s \in Slots, t[s].state = "RUNNING", NEW c \in Chans
  PROVE  LET t2 == sleep(t, s, c) IN
         /\ TableOK(t2) /\ Moves(t, t2)
         /\ t2[s].chan = c /\ t2[s].killed = t[s].killed
         /\ \A q \in Slots : q # s => t2[q] = t[q]
<1> DEFINE e == [t[s] EXCEPT !.state = "SLEEPING", !.chan = c]
<1>1. t[s] \in Entries
  BY DEF TableOK
<1>2. /\ e \in Entries /\ e.chan = c /\ e.killed = t[s].killed /\ e.parent = t[s].parent
      /\ e.state \in Live
  BY <1>1, Zenon DEF Entries, States, Live
<1>3. sleep(t, s, c) = Put(t, s, e)
  BY DEF sleep, Put
<1>4. t[s].state \in Live
  BY DEF Live
<1> HIDE DEF e
<1>5. /\ TableOK(sleep(t, s, c)) /\ sleep(t, s, c)[s] = e
      /\ \A q \in Slots : q # s => sleep(t, s, c)[q] = t[q]
  BY <1>2, <1>3, EntrySet
<1>6. Moves(t, sleep(t, s, c))
  BY <1>2, <1>4, <1>5 DEF Moves
<1>7. QED
  BY <1>2, <1>5, <1>6, Zenon

\* The pipe a process sleeps on is as it waits for it to change.
PipeHolds(ps, c) ==
  /\ c[1] = "nread" => Held(ps[c[2]]) = 0 /\ ps[c[2]].writeopen
  /\ c[1] = "nwrite" => Held(ps[c[2]]) = PIPESIZE /\ ps[c[2]].readopen

\* Through moves those asleep have their reasons, if the pipes still hold them
\* and those that go to sleep have theirs.
LEMMA AsleepMoves ==
  ASSUME NEW t, NEW t2, NEW ps, NEW ps2, Moves(t, t2), Asleep(t, ps),
         \A q \in Slots : t2[q].state = "SLEEPING" =>
            \/ /\ t[q].state = "SLEEPING" /\ t2[q].chan = t[q].chan /\ t2[q].killed = t[q].killed
               /\ PipeHolds(ps2, t[q].chan)
            \/ Reason(t2, ps2, q)
  PROVE  Asleep(t2, ps2)
<1>1. SUFFICES ASSUME NEW q \in Slots, t2[q].state = "SLEEPING",
                      t[q].state = "SLEEPING", t2[q].chan = t[q].chan, t2[q].killed = t[q].killed,
                      PipeHolds(ps2, t[q].chan)
               PROVE  Reason(t2, ps2, q)
  BY DEF Asleep
<1>2. Children(t2, q) = Children(t, q) /\ Zombies(t2, q) = Zombies(t, q)
  BY FamilySame
<1>3. Reason(t, ps, q)
  BY <1>1 DEF Asleep
<1>4. QED
  BY <1>1, <1>2, <1>3, Zenon DEF Reason, PipeHolds

\* As long as a process has its reason, the pipe it sleeps on holds it.
LEMMA AsleepHolds ==
  ASSUME NEW t, NEW ps, Asleep(t, ps), NEW q \in Slots, t[q].state = "SLEEPING"
  PROVE  PipeHolds(ps, t[q].chan)
BY Zenon DEF Asleep, Reason, PipeHolds

----------------------------------------------------------------------------
\* What is known of a process.
LEMMA UserFacts ==
  ASSUME NEW v, UsersOK(v), NEW s \in Slots
  PROVE  v[s] \in UsersWith({v[s].code}) /\ CodeOK(v[s].code)
<1>1. PICK C : v \in [Slots -> UsersWith(C)]
  BY DEF UsersOK
<1>2. v[s] \in UsersWith(C)
  BY <1>1
<1>3. v[s] \in UsersWith({v[s].code})
  BY <1>2, Zenon DEF UsersWith
<1>4. QED
  BY <1>3 DEF UsersOK

\* One process changes.
LEMMA UserSet ==
  ASSUME NEW v, UsersOK(v), NEW s \in Slots, NEW r, r \in UsersWith({r.code}), CodeOK(r.code)
  PROVE  /\ UsersOK(Put(v, s, r)) /\ Put(v, s, r)[s] = r
         /\ \A q \in Slots : q # s => Put(v, s, r)[q] = v[q]
<1> DEFINE w == Put(v, s, r)
<1>1. PICK C : v \in [Slots -> UsersWith(C)]
  BY DEF UsersOK
<1>2. UsersWith(C) \subseteq UsersWith(C \cup {r.code}) /\ r \in UsersWith(C \cup {r.code})
  BY Zenon DEF UsersWith
<1>3. w \in [Slots -> UsersWith(C \cup {r.code})]
  BY <1>1, <1>2 DEF Put
<1>4. w[s] = r /\ \A q \in Slots : q # s => w[q] = v[q]
  BY <1>1 DEF Put
<1>5. \A q \in Slots : CodeOK(w[q].code)
  BY <1>4, Zenon DEF UsersOK
<1>6. QED
  BY <1>3, <1>4, <1>5, Zenon DEF UsersOK

\* Process s goes on with code c.
Own(v, s, c, b) == [v EXCEPT ![s] = [@ EXCEPT !.code = c, !.in = b]]

\* Nothing else of it changes.
LEMMA OwnFacts ==
  ASSUME NEW v, UsersOK(v), NEW s \in Slots, NEW c, CodeOK(c), NEW b \in BOOLEAN
  PROVE  LET w == Own(v, s, c, b) IN
         /\ UsersOK(w) /\ \A q \in Slots : q # s => w[q] = v[q]
         /\ w[s].code = c /\ w[s].fd = v[s].fd /\ w[s].p = v[s].p
<1> DEFINE r == [v[s] EXCEPT !.code = c, !.in = b]
<1>1. v[s] \in UsersWith({v[s].code})
  BY UserFacts
<1>2. r \in UsersWith({c}) /\ r.code = c /\ r.fd = v[s].fd /\ r.p = v[s].p
  BY <1>1, Zenon DEF UsersWith
<1>3. Own(v, s, c, b) = Put(v, s, r)
  BY DEF Own, Put
<1> HIDE DEF r
<1>4. r \in UsersWith({r.code}) /\ CodeOK(r.code)
  BY <1>2
<1> DEFINE w == Own(v, s, c, b)
<1>5. w = Put(v, s, r)
  BY <1>3
<1> HIDE DEF w
<1>6. UsersOK(w) /\ w[s] = r /\ \A q \in Slots : q # s => w[q] = v[q]
  BY <1>4, <1>5, UserSet
<1>7. QED
  BY <1>2, <1>6, Zenon DEF w

\* Descriptor d of process s is set.
SetFd(v, s, d, f) == [v EXCEPT ![s].fd[d] = f]

\* Nothing else changes.
LEMMA FdSet ==
  ASSUME NEW v, UsersOK(v), NEW s \in Slots, NEW d \in Fds, NEW f \in 0 .. NFILE
  PROVE  LET w == SetFd(v, s, d, f) IN
         /\ UsersOK(w) /\ \A q \in Slots : q # s => w[q] = v[q]
         /\ w[s].code = v[s].code /\ w[s].fd[d] = f
         /\ \A e \in Fds : e # d => w[s].fd[e] = v[s].fd[e]
<1> DEFINE r == [v[s] EXCEPT !.fd[d] = f]
<1>1. v[s] \in UsersWith({v[s].code}) /\ CodeOK(v[s].code)
  BY UserFacts
<1>2. /\ r \in UsersWith({r.code}) /\ r.code = v[s].code /\ r.fd[d] = f
      /\ \A e \in Fds : e # d => r.fd[e] = v[s].fd[e]
  BY <1>1, Zenon DEF UsersWith
<1>3. SetFd(v, s, d, f) = Put(v, s, r)
  BY DEF Put, SetFd
<1> HIDE DEF r
<1>4. r \in UsersWith({r.code}) /\ CodeOK(r.code)
  BY <1>1, <1>2
<1> DEFINE w == SetFd(v, s, d, f)
<1>5. w = Put(v, s, r)
  BY <1>3
<1> HIDE DEF w
<1>6. UsersOK(w) /\ w[s] = r /\ \A q \in Slots : q # s => w[q] = v[q]
  BY <1>4, <1>5, UserSet
<1>7. QED
  BY <1>2, <1>6, Zenon DEF w

----------------------------------------------------------------------------
FileTypes == {"none", "console", "file", "pipe"}

FilesWith(R) == [ref : R, type : FileTypes, pipe : 0 .. NPIPE, writable : BOOLEAN]

\* A file of type pipe stands for an end of one.
FilesOK(fs) ==
  /\ \E R : fs \in [1 .. NFILE -> FilesWith(R)]
  /\ \A f \in 1 .. NFILE : fs[f].type = "pipe" => fs[f].pipe # 0

\* What is known of a file.
LEMMA FileFacts ==
  ASSUME NEW fs, FilesOK(fs), NEW f \in 1 .. NFILE
  PROVE  fs[f] \in FilesWith({fs[f].ref}) /\ (fs[f].type = "pipe" => fs[f].pipe # 0)
<1>1. PICK R : fs \in [1 .. NFILE -> FilesWith(R)]
  BY DEF FilesOK
<1>2. fs[f] \in FilesWith(R)
  BY <1>1
<1>3. fs[f] \in FilesWith({fs[f].ref})
  BY <1>2, Zenon DEF FilesWith
<1>4. QED
  BY <1>3 DEF FilesOK

\* One file changes.
LEMMA FileSet ==
  ASSUME NEW fs, FilesOK(fs), NEW f \in 1 .. NFILE, NEW e, e \in FilesWith({e.ref}),
         e.type = "pipe" => e.pipe # 0
  PROVE  /\ FilesOK(Put(fs, f, e)) /\ Put(fs, f, e)[f] = e
         /\ \A g \in 1 .. NFILE : g # f => Put(fs, f, e)[g] = fs[g]
<1> DEFINE fs2 == Put(fs, f, e)
<1>1. PICK R : fs \in [1 .. NFILE -> FilesWith(R)]
  BY DEF FilesOK
<1>2. FilesWith(R) \subseteq FilesWith(R \cup {e.ref}) /\ e \in FilesWith(R \cup {e.ref})
  BY Zenon DEF FilesWith
<1>3. fs2 \in [1 .. NFILE -> FilesWith(R \cup {e.ref})]
  BY <1>1, <1>2, Zenon DEF Put
<1>4. fs2[f] = e /\ \A g \in 1 .. NFILE : g # f => fs2[g] = fs[g]
  BY <1>1 DEF Put
<1>5. \A g \in 1 .. NFILE : fs2[g].type = "pipe" => fs2[g].pipe # 0
  BY <1>4, Zenon DEF FilesOK
<1>6. QED
  BY <1>3, <1>4, <1>5, Zenon DEF FilesOK

\* A free file.
LEMMA NoFileFacts ==
  /\ NoFile \in FilesWith({NoFile.ref})
  /\ NoFile.pipe = 0 /\ NoFile.type = "none" /\ NoFile.ref = 0 /\ NoFile.writable = FALSE
<1>1. 0 \in 0 .. NPIPE
  BY FilesAssumption
<1>2. QED
  BY <1>1 DEF FilesWith, NoFile, FileTypes

\* An end of a pipe is closed, and those who sleep on the other one are woken:
\* whoever still sleeps has a reason.
LEMMA AsleepClosed ==
  ASSUME NEW t, TableOK(t), NEW ps, PipesOK(ps), Asleep(t, ps), NEW i \in 1 .. NPIPE,
         NEW w \in BOOLEAN
  PROVE  LET t2 == wakeup1(t, <<IF w THEN "nread" ELSE "nwrite", i>>)
             ps2 == Put(ps, i, pipeclose(ps[i], w))
         IN  PipesOK(ps2) /\ Asleep(t2, ps2)
<1> DEFINE chan == <<IF w THEN "nread" ELSE "nwrite", i>>
           t2 == wakeup1(t, chan)
           q == pipeclose(ps[i], w)
           ps2 == Put(ps, i, q)
<1>1. PICK D : ps \in [1 .. NPIPE -> PipesWith(D)]
  BY DEF PipesOK
<1>2. ps[i] \in PipesWith(D) /\ Held(ps[i]) <= PIPESIZE
  BY <1>1 DEF PipesOK
<1>3. /\ q \in PipesWith({q.data}) /\ Held(q) <= PIPESIZE
      /\ q.writeopen <=> ps[i].writeopen /\ ~w
      /\ q.readopen <=> ps[i].readopen /\ w
      /\ (IF w THEN ps[i].readopen ELSE ps[i].writeopen) => Held(q) = Held(ps[i])
  BY <1>2, PipecloseFacts
<1> HIDE DEF q
<1>4. PipesOK(ps2) /\ ps2[i] = q /\ \A j \in 1 .. NPIPE : j # i => ps2[j] = ps[j]
  BY <1>3, PipesSet
<1> HIDE DEF ps2
<1>5. /\ Moves(t, t2)
      /\ \A r \in Slots : t2[r].state = "SLEEPING" => t2[r] = t[r] /\ t[r].chan # chan
  <2> HIDE DEF chan
  <2>1. QED
    BY WakeupFacts
<1> HIDE DEF t2
<1>6. ASSUME NEW r \in Slots, t2[r].state = "SLEEPING"
      PROVE  /\ t[r].state = "SLEEPING" /\ t2[r].chan = t[r].chan /\ t2[r].killed = t[r].killed
             /\ PipeHolds(ps2, t[r].chan)
  <2> DEFINE c == t[r].chan
  <2>1. t2[r] = t[r] /\ c # chan /\ t[r].state = "SLEEPING"
    BY <1>5, <1>6
  <2>2. Reason(t, ps, r)
    BY <2>1 DEF Asleep
  <2>3. c = <<c[1], c[2]>>
    BY DEF TableOK, Entries, Chans
  <2>4. c[1] = "nread" => ~(w /\ c[2] = i)
    BY <2>1, <2>3
  <2>5. c[1] = "nwrite" => ~(~w /\ c[2] = i)
    BY <2>1, <2>3
  <2>6. c[1] = "nread" => Held(ps2[c[2]]) = 0 /\ ps2[c[2]].writeopen
    <3>1. SUFFICES ASSUME c[1] = "nread" PROVE Held(ps2[c[2]]) = 0 /\ ps2[c[2]].writeopen
      OBVIOUS
    <3>2. c[2] \in 1 .. NPIPE /\ Held(ps[c[2]]) = 0 /\ ps[c[2]].writeopen
      BY <2>2, <3>1, Zenon DEF Reason
    <3>3. QED
      BY <1>3, <1>4, <2>4, <3>1, <3>2, Zenon
  <2>7. c[1] = "nwrite" => Held(ps2[c[2]]) = PIPESIZE /\ ps2[c[2]].readopen
    <3>1. SUFFICES ASSUME c[1] = "nwrite" PROVE Held(ps2[c[2]]) = PIPESIZE /\ ps2[c[2]].readopen
      OBVIOUS
    <3>2. c[2] \in 1 .. NPIPE /\ Held(ps[c[2]]) = PIPESIZE /\ ps[c[2]].readopen
      BY <2>2, <3>1, Zenon DEF Reason
    <3>3. QED
      BY <1>3, <1>4, <2>5, <3>1, <3>2, Zenon
  <2>8. QED
    BY <2>1, <2>6, <2>7, Zenon DEF PipeHolds
<1>7. Asleep(t2, ps2)
  BY <1>5, <1>6, AsleepMoves, Zenon
<1>8. QED
  BY <1>4, <1>7, Zenon DEF t2, ps2, q

\* fileclose: one reference less, and with the last one the file is free and its
\* end of a pipe closed.
LEMMA CloseFacts ==
  ASSUME TableOK(pt), PipesOK(pipes), FilesOK(ftable), Asleep(pt, pipes),
         NEW f \in 1 .. NFILE, close(f)
  PROVE  /\ TableOK(pt') /\ Moves(pt, pt')
         /\ PipesOK(pipes') /\ FilesOK(ftable') /\ Asleep(pt', pipes')
<1> DEFINE last == ftable[f].ref = 1
           e == IF last THEN NoFile ELSE [ftable[f] EXCEPT !.ref = @ - 1]
<1>1. ftable[f] \in FilesWith({ftable[f].ref}) /\ (ftable[f].type = "pipe" => ftable[f].pipe # 0)
  BY FileFacts
<1>2. ftable' = Put(ftable, f, e)
  BY DEF close, Put
<1>3. FilesOK(ftable')
  <2>1. e \in FilesWith({e.ref}) /\ (e.type = "pipe" => e.pipe # 0)
    <3>1. CASE last
      <4>1. e = NoFile
        BY <3>1
      <4> HIDE DEF e
      <4>2. QED
        BY <4>1, NoFileFacts
    <3>2. CASE ~last
      <4>1. PICK n : n = ftable[f].ref - 1
        BY Zenon
      <4>2. e = [ftable[f] EXCEPT !.ref = n]
        BY <3>2, <4>1
      <4> HIDE DEF e
      <4>3. e \in FilesWith({e.ref}) /\ e.type = ftable[f].type /\ e.pipe = ftable[f].pipe
        BY <1>1, <4>2, Zenon DEF FilesWith
      <4>4. QED
        BY <1>1, <4>3
    <3>3. QED
      BY <3>1, <3>2
  <2> HIDE DEF e
  <2>2. QED
    BY <1>2, <2>1, FileSet, Zenon
<1>4. CASE last /\ ftable[f].type = "pipe"
  <2> DEFINE i == ftable[f].pipe
             w == ftable[f].writable
             chan == <<IF w THEN "nread" ELSE "nwrite", i>>
  <2>1. pipes' = Put(pipes, i, pipeclose(pipes[i], w)) /\ pt' = wakeup1(pt, chan)
    BY <1>4 DEF close, Put
  <2>2. i \in 1 .. NPIPE /\ w \in BOOLEAN
    BY <1>1, <1>4 DEF FilesWith
  <2>3. TableOK(pt') /\ Moves(pt, pt')
    <3> HIDE DEF chan
    <3>1. QED
      BY <2>1, WakeupFacts
  <2>4. PipesOK(pipes') /\ Asleep(pt', pipes')
    BY <2>1, <2>2, AsleepClosed, Zenon
  <2>5. QED
    BY <1>3, <2>3, <2>4
<1>5. CASE ~(last /\ ftable[f].type = "pipe")
  <2>1. pipes' = pipes /\ pt' = pt
    BY <1>5 DEF close
  <2>2. QED
    BY <1>3, <2>1 DEF Moves
<1>6. QED
  BY <1>4, <1>5

----------------------------------------------------------------------------
\* The inductive invariant.
IInv ==
  /\ TableOK(pt) /\ cpu \in Slots /\ nextpid \in Nat
  /\ UsersOK(u) /\ PipesOK(pipes) /\ FilesOK(ftable)
  /\ Asleep(pt, pipes) /\ NoParent(pt) /\ Forking(pt, u)

\* A slot without a process.
LEMMA NoUserFacts ==
  /\ NoUser \in UsersWith({NoUser.code}) /\ NoUser.code = <<>> /\ CodeOK(NoUser.code)
  /\ NoUser.fd = [d \in Fds |-> 0]
<1>1. 0 \in Fds /\ 0 \in 0 .. NFILE
  BY FilesAssumption DEF Fds
<1>2. <<0, 0>> \in Fds \X Fds
  BY <1>1, Zenon
<1>3. NoUser.code = <<>> /\ NoUser.fd = [d \in Fds |-> 0]
  BY DEF NoUser
<1>4. CodeOK(<<>>)
  <2>1. CallOK(<<"exit">>) /\ <<"exit">>[1] # "forked"
    BY OtherCalls
  <2>2. QED
    BY <2>1, ShortCode, Zenon
<1>5. NoUser \in UsersWith({<<>>})
  <2> DEFINE none == <<0, 0>>
             code0 == <<>>
  <2>1. none \in Fds \X Fds
    BY <1>2
  <2>2. NoUser = [prog |-> "", code |-> code0, fd |-> [d \in Fds |-> 0], p |-> none, pid |-> 0,
                  in |-> FALSE]
    BY DEF NoUser
  <2> HIDE DEF none, code0
  <2>3. NoUser \in UsersWith({code0})
    BY <1>1, <2>1, <2>2, Zenon DEF UsersWith
  <2>4. QED
    BY <2>3 DEF code0
<1>6. QED
  BY <1>3, <1>4, <1>5

\* init with the console opened twice and nobody else.
LEMMA InitHolds ==
  Init => IInv
<1> SUFFICES ASSUME Init PROVE IInv
  OBVIOUS
<1> DEFINE e == [Unused EXCEPT !.state = "RUNNING", !.pid = 1]
           r == [NoUser EXCEPT !.prog = "init", !.code = initLoop, !.fd[0] = 1, !.fd[1] = 1]
           console == [NoFile EXCEPT !.ref = 2, !.type = "console"]
<1>1. /\ pt = [s \in Slots |-> IF s = initproc THEN e ELSE Unused] /\ nextpid = 2 /\ cpu = initproc
      /\ u = [s \in Slots |-> IF s = initproc THEN r ELSE NoUser]
      /\ ftable = [f \in 1 .. NFILE |-> IF f = 1 THEN console ELSE NoFile]
      /\ pipes = [i \in 1 .. NPIPE |-> NoPipe]
  BY Zenon DEF Init
<1>2. initproc \in Slots
  BY ProcAssumption DEF initproc, Slots
<1>3. /\ Unused \in Entries /\ Unused.state = "UNUSED" /\ Unused.parent = 0
      /\ e \in Entries /\ e.state = "RUNNING" /\ e.parent = 0
  <2>1. NoChan \in Chans
    BY DEF NoChan, Chans
  <2>2. 0 \in 0 .. NPROC
    BY ProcAssumption
  <2>3. Unused \in Entries /\ Unused.state = "UNUSED" /\ Unused.parent = 0
    BY <2>1, <2>2 DEF Unused, Entries, States
  <2>4. QED
    BY <2>3, Zenon DEF Entries, States
<1> HIDE DEF e
<1>4. TableOK(pt)
  BY <1>1, <1>3 DEF TableOK
<1>5. /\ NoUser \in UsersWith({NoUser.code}) /\ NoUser.code = <<>> /\ CodeOK(NoUser.code)
      /\ NoUser.fd = [d \in Fds |-> 0]
  BY NoUserFacts
<1>6. 0 \in Fds /\ 1 \in Fds /\ 0 \in 0 .. NFILE /\ 1 \in 0 .. NFILE
  BY FilesAssumption DEF Fds
<1>7. r \in UsersWith({r.code}) /\ r.code = initLoop
  <2> DEFINE g == [d \in Fds |-> IF d \in {0, 1} THEN 1 ELSE 0]
  <2>1. g \in [Fds -> 0 .. NFILE]
    BY <1>6
  <2>2. NoUser.fd \in [Fds -> 0 .. NFILE]
    BY <1>5, Zenon DEF UsersWith
  <2>3. [NoUser.fd EXCEPT ![0] = 1, ![1] = 1] = g
    BY <1>5
  <2>4. PICK h : h = [NoUser.fd EXCEPT ![0] = 1, ![1] = 1]
    BY Zenon
  <2>5. r = [NoUser EXCEPT !.prog = "init", !.code = initLoop, !.fd = h]
    BY <1>5, <2>4, Zenon DEF UsersWith
  <2> HIDE DEF r
  <2>6. QED
    BY <1>5, <2>1, <2>3, <2>4, <2>5, Zenon DEF UsersWith
<1> HIDE DEF r
<1>8. CodeOK(r.code) /\ ~Forks(r.code) /\ ~Forks(NoUser.code)
  BY <1>5, <1>7, FixedCode DEF Forks
<1>9. UsersOK(u)
  <2> DEFINE C == {r.code, NoUser.code}
  <2>1. r \in UsersWith(C) /\ NoUser \in UsersWith(C)
    BY <1>5, <1>7, Zenon DEF UsersWith
  <2> HIDE DEF C
  <2>2. u \in [Slots -> UsersWith(C)]
    BY <1>1, <2>1
  <2>3. \A s \in Slots : CodeOK(u[s].code)
    BY <1>1, <1>5, <1>8
  <2>4. QED
    BY <2>2, <2>3, Zenon DEF UsersOK
<1>10. PipesOK(pipes)
  <2>1. PICK q : q = NoPipe
    BY Zenon
  <2>2. q \in PipesWith({q.data}) /\ Held(q) <= PIPESIZE
    BY <2>1, EmptyPipes, PipeAssumption
  <2>3. pipes = [i \in 1 .. NPIPE |-> q]
    BY <1>1, <2>1
  <2>4. pipes \in [1 .. NPIPE -> PipesWith({q.data})] /\ \A i \in 1 .. NPIPE : pipes[i] = q
    BY <2>2, <2>3
  <2>5. QED
    BY <2>2, <2>4, Zenon DEF PipesOK
<1>11. FilesOK(ftable)
  <2> DEFINE R == {NoFile.ref, 2}
  <2>1. NoFile \in FilesWith({NoFile.ref}) /\ NoFile.pipe = 0 /\ NoFile.type = "none"
    BY NoFileFacts
  <2>2. /\ NoFile \in FilesWith(R) /\ console \in FilesWith(R)
        /\ console.type = "console"
    BY <2>1, Zenon DEF FilesWith, FileTypes
  <2> HIDE DEF console, R
  <2>3. ftable \in [1 .. NFILE -> FilesWith(R)]
    BY <1>1, <2>2
  <2>4. \A f \in 1 .. NFILE : ftable[f].type # "pipe"
    BY <1>1, <2>1, <2>2
  <2>5. QED
    BY <2>3, <2>4 DEF FilesOK
<1>12. \A s \in Slots : pt[s].state # "SLEEPING" /\ pt[s].parent = 0
  BY <1>1, <1>3
<1>13. Asleep(pt, pipes) /\ NoParent(pt)
  BY <1>12 DEF Asleep, NoParent
<1>14. Forking(pt, u)
  <2>1. \A s \in Slots : ~Forks(u[s].code)
    BY <1>1, <1>8
  <2>2. QED
    BY <2>1, Zenon DEF Forking
<1>15. cpu \in Slots /\ nextpid \in Nat
  BY <1>1, <1>2
<1>16. QED
  BY <1>4, <1>9, <1>10, <1>11, <1>13, <1>14, <1>15 DEF IInv

\* Processes sleep and wake for reasons, and one process goes on, not with half a
\* fork: the invariant holds on.
LEMMA UserStep ==
  ASSUME IInv, NEW s \in Slots, UsersOK(u'), \A q \in Slots : q # s => u'[q] = u[q],
         u'[s].code = u[s].code \/ ~Forks(u'[s].code),
         TableOK(pt'), Moves(pt, pt'), PipesOK(pipes'), FilesOK(ftable'), Asleep(pt', pipes'),
         cpu' \in Slots, nextpid' = nextpid
  PROVE  IInv'
<1>1. \A q \in Slots : u'[q].code = u[q].code \/ ~Forks(u'[q].code)
  BY Zenon
<1>2. NoParent(pt') /\ Forking(pt', u')
  BY <1>1, MovesKeep DEF IInv
<1>3. QED
  BY <1>2 DEF IInv

\* The same, with only the code given.
LEMMA MoveStep ==
  ASSUME IInv, NEW s \in Slots, NEW c, CodeOK(c), c = u[s].code \/ ~Forks(c), NEW b \in BOOLEAN,
         u' = Own(u, s, c, b), TableOK(pt'), Moves(pt, pt'), PipesOK(pipes'), Asleep(pt', pipes'),
         ftable' = ftable, cpu' \in Slots, nextpid' = nextpid
  PROVE  IInv'
<1>1. UsersOK(u') /\ (\A q \in Slots : q # s => u'[q] = u[q]) /\ u'[s].code = c
  BY OwnFacts DEF IInv
<1>2. FilesOK(ftable')
  BY DEF IInv
<1>3. QED
  BY <1>1, <1>2, UserStep

\* Nothing but the code of a process changes.
LEMMA CodeStep ==
  ASSUME IInv, NEW s \in Slots, NEW c, CodeOK(c), ~Forks(c), NEW b \in BOOLEAN,
         u' = Own(u, s, c, b), UNCHANGED <<pt, nextpid, cpu, ftable, pipes>>
  PROVE  IInv'
<1>1. TableOK(pt') /\ PipesOK(pipes') /\ Asleep(pt', pipes') /\ cpu' \in Slots
  BY DEF IInv
<1>2. Moves(pt, pt')
  BY DEF Moves
<1>3. QED
  BY <1>1, <1>2, MoveStep

\* The ways a process goes on in the model.
LEMMA GoesOn ==
  ASSUME UsersOK(u), NEW s \in Slots
  PROVE  /\ Returns(s) = Own(u, s, Tail(u[s].code), FALSE)
         /\ \A c : Continues(s, c) = Own(u, s, c, FALSE)
         /\ Sleeps(s) = Own(u, s, u[s].code, TRUE)
<1>1. PICK C : u \in [Slots -> UsersWith(C)]
  BY DEF UsersOK
<1>2. u[s] \in UsersWith(C)
  BY <1>1
<1>3. Returns(s) = Own(u, s, Tail(u[s].code), FALSE)
  BY <1>1, <1>2, Zenon DEF Returns, Own, UsersWith
<1>4. ASSUME NEW c PROVE Continues(s, c) = Own(u, s, c, FALSE)
  BY DEF Continues, Own
<1>5. Sleeps(s) = Own(u, s, u[s].code, TRUE)
  <2>1. [u[s] EXCEPT !.in = TRUE] = [u[s] EXCEPT !.code = u[s].code, !.in = TRUE]
    BY <1>2, Zenon DEF UsersWith
  <2>2. QED
    BY <2>1, Zenon DEF Sleeps, Own
<1>6. QED
  BY <1>3, <1>4, <1>5, Zenon

\* A process that makes a call has code, and the call is one it may make.
LEMMA Calls ==
  ASSUME IInv, NEW s \in Slots, NEW op, Does(s, op)
  PROVE  /\ pt[s].state = "RUNNING" /\ u[s].code # <<>> /\ CodeOK(u[s].code)
         /\ Head(u[s].code) = u[s].code[1] /\ CallOK(Head(u[s].code)) /\ Head(u[s].code)[1] = op
         /\ CodeOK(Tail(u[s].code)) /\ ~Forks(Tail(u[s].code))
<1>1. pt[s].state = "RUNNING" /\ u[s].code # <<>> /\ Head(u[s].code)[1] = op
  BY Zenon DEF Does, Runs
<1>2. CodeOK(u[s].code)
  BY UserFacts, Zenon DEF IInv
<1>3. QED
  BY <1>1, <1>2, CodeHead, CodeTail, Zenon

\* The call of a process is over, and nothing else happens.
LEMMA ReturnStep ==
  ASSUME IInv, NEW s \in Slots, NEW op, Does(s, op), u' = Returns(s),
         UNCHANGED <<pt, nextpid, cpu, ftable, pipes>>
  PROVE  IInv'
<1>1. u' = Own(u, s, Tail(u[s].code), FALSE)
  BY GoesOn, Zenon DEF IInv
<1>2. CodeOK(Tail(u[s].code)) /\ ~Forks(Tail(u[s].code))
  BY Calls
<1>3. QED
  BY <1>1, <1>2, CodeStep, Zenon

\* A process goes on with other code, and nothing else happens.
LEMMA ContinueStep ==
  ASSUME IInv, NEW s \in Slots, NEW c, CodeOK(c), ~Forks(c), u' = Continues(s, c),
         UNCHANGED <<pt, nextpid, cpu, ftable, pipes>>
  PROVE  IInv'
<1>1. u' = Own(u, s, c, FALSE)
  BY GoesOn, Zenon DEF IInv
<1>2. QED
  BY <1>1, CodeStep, Zenon

----------------------------------------------------------------------------
\* Steps that change only the code of a process: to exit when it is killed, by
\* exec, by running a line, by a write to the console, at the end of a file, by
\* a double click.
LEMMA CodeSteps ==
  ASSUME IInv, NEW s \in Slots
  PROVE  /\ trapKilled(s) => IInv'
         /\ sys_exec(s) => IInv'
         /\ run(s) => IInv'
         /\ parse(s) => IInv'
         /\ write(s) => IInv'
         /\ readEnd(s) => IInv'
         /\ iconOnLeftDoubleClick(s) => IInv'
<1>1. ASSUME trapKilled(s) PROVE IInv'
  BY <1>1, ContinueStep, FixedCode DEF trapKilled
<1>2. ASSUME sys_exec(s) PROVE IInv'
  <2>1. Does(s, "exec") /\ UNCHANGED <<pt, nextpid, cpu, ftable, pipes>>
    BY <1>2 DEF sys_exec
  <2>2. CASE Arg(s) \notin Programs
    <3>1. u' = Returns(s)
      BY <1>2, <2>2 DEF sys_exec
    <3>2. QED
      BY <2>1, <3>1, ReturnStep
  <2>3. CASE Arg(s) \in Programs
    <3> DEFINE prog == Arg(s)
               none == <<0, 0>>
               r == [u[s] EXCEPT !.prog = prog, !.code = Main(prog), !.p = none]
    <3>1. u' = Put(u, s, r)
      BY <1>2, <2>3 DEF sys_exec, Put
    <3>2. u[s] \in UsersWith({u[s].code})
      BY UserFacts DEF IInv
    <3>3. CodeOK(Main(prog)) /\ ~Forks(Main(prog))
      BY <2>3, MainCode
    <3>4. prog \in Programs \cup {"", "init"} /\ none \in Fds \X Fds
      <4>1. 0 \in Fds
        BY FilesAssumption DEF Fds
      <4>2. QED
        BY <2>3, <4>1, Zenon
    <3> HIDE DEF prog, none
    <3>5. r \in UsersWith({r.code}) /\ r.code = Main(prog)
      BY <3>2, <3>4, Zenon DEF UsersWith
    <3> HIDE DEF r
    <3>6. CodeOK(r.code) /\ ~Forks(r.code)
      BY <3>3, <3>5
    <3>7. UsersOK(u') /\ u'[s] = r /\ \A q \in Slots : q # s => u'[q] = u[q]
      BY <3>1, <3>5, <3>6, UserSet DEF IInv
    <3>8. /\ TableOK(pt') /\ PipesOK(pipes') /\ FilesOK(ftable') /\ Asleep(pt', pipes')
          /\ cpu' \in Slots /\ Moves(pt, pt')
      BY <2>1 DEF IInv, Moves
    <3>9. QED
      BY <2>1, <3>5, <3>6, <3>7, <3>8, UserStep
  <2>4. QED
    BY <2>2, <2>3
<1>3. ASSUME run(s) PROVE IInv'
  <2>1. CodeOK(runcmd(Arg(s))) /\ ~Forks(runcmd(Arg(s)))
    BY RuncmdCode
  <2>2. QED
    BY <1>3, <2>1, ContinueStep DEF run
<1>4. ASSUME parse(s) PROVE IInv'
  <2> DEFINE r == Parsed[Arg(s)]
             c == IF r.ok THEN runcmd(r.cmd) ELSE <<<<"exit">>>>
  <2>1. CodeOK(c) /\ ~Forks(c)
    BY RuncmdCode, FixedCode
  <2>2. u' = Continues(s, c) /\ UNCHANGED <<pt, nextpid, cpu, ftable, pipes>>
    BY <1>4 DEF parse
  <2> HIDE DEF c
  <2>3. QED
    BY <2>1, <2>2, ContinueStep
<1>5. ASSUME write(s) PROVE IInv'
  BY <1>5, ReturnStep, Zenon DEF write
<1>6. ASSUME readEnd(s) PROVE IInv'
  BY <1>6, ContinueStep, FixedCode DEF readEnd, CatNext
<1>7. ASSUME iconOnLeftDoubleClick(s) PROVE IInv'
  BY <1>7, ContinueStep, FixedCode DEF iconOnLeftDoubleClick
<1>8. QED
  BY <1>1, <1>2, <1>3, <1>4, <1>5, <1>6, <1>7

\* The scheduler switches to a process that can run, one slot of the table.
LEMMA NextRunnableFacts ==
  ASSUME IInv, NextRunnable(pt, cpu) # 0
  PROVE  NextRunnable(pt, cpu) \in Slots /\ pt[NextRunnable(pt, cpu)].state = "RUNNABLE"
<1> DEFINE F == Following(cpu)
           ks == {k \in 1 .. NPROC : pt[F[k]].state = "RUNNABLE"}
<1>1. ks # {} /\ NextRunnable(pt, cpu) = F[Min(ks)]
  BY DEF NextRunnable
<1>2. ks \in SUBSET Nat
  OBVIOUS
<1>3. Min(ks) \in ks
  <2> HIDE DEF ks
  <2>1. QED
    BY <1>1, <1>2, MinOfNats
<1>4. Min(ks) \in 1 .. NPROC /\ pt[F[Min(ks)]].state = "RUNNABLE"
  BY <1>3
<1>5. ASSUME NEW k \in 1 .. NPROC PROVE F[k] \in Slots
  <2>1. NPROC \in Nat \ {0} /\ cpu + k - 1 \in Int
    BY ProcAssumption DEF IInv, Slots
  <2>2. (cpu + k - 1) % NPROC \in 0 .. NPROC - 1
    BY <2>1, Mod
  <2>3. F[k] = ((cpu + k - 1) % NPROC) + 1
    BY DEF Following
  <2>4. PICK m : m = (cpu + k - 1) % NPROC
    BY Zenon
  <2>5. QED
    BY <2>1, <2>2, <2>3, <2>4 DEF Slots
<1> HIDE DEF F, ks
<1>6. QED
  BY <1>1, <1>4, <1>5

\* Nothing but the table and the CPU changes, and nobody goes to sleep.
LEMMA TableStep ==
  ASSUME IInv, TableOK(pt'), Moves(pt, pt'), cpu' \in Slots,
         \A q \in Slots : pt'[q].state = "SLEEPING" => pt'[q] = pt[q],
         UNCHANGED <<nextpid, u, ftable, pipes>>
  PROVE  IInv'
<1>1. Asleep(pt', pipes)
  <2>1. ASSUME NEW q \in Slots, pt'[q].state = "SLEEPING"
        PROVE  /\ pt[q].state = "SLEEPING" /\ pt'[q].chan = pt[q].chan /\ pt'[q].killed = pt[q].killed
               /\ PipeHolds(pipes, pt[q].chan)
    BY <2>1, AsleepHolds, Zenon DEF IInv
  <2>2. QED
    BY <2>1, AsleepMoves, Zenon DEF IInv
<1>2. NoParent(pt') /\ Forking(pt', u)
  BY MovesKeep, Zenon DEF IInv
<1>3. QED
  BY <1>1, <1>2, Zenon DEF IInv

\* The scheduler, the clock and kill.
LEMMA TableSteps ==
  ASSUME IInv
  PROVE  /\ schedule => IInv'
         /\ tick => IInv'
         /\ \A s \in Slots : sys_kill(s) => IInv'
<1> DEFINE T(n, e) == Put(pt, n, e)
<1>1. ASSUME NEW n \in Slots, NEW e \in Entries, e.parent = pt[n].parent, e.state # "SLEEPING",
             e.state = pt[n].state \/ (pt[n].state \in Live /\ e.state \in Live)
      PROVE  /\ TableOK(T(n, e)) /\ Moves(pt, T(n, e))
             /\ \A q \in Slots : T(n, e)[q].state = "SLEEPING" => T(n, e)[q] = pt[q]
  <2>1. TableOK(T(n, e)) /\ T(n, e)[n] = e /\ \A q \in Slots : q # n => T(n, e)[q] = pt[q]
    BY EntrySet DEF IInv
  <2> HIDE DEF T
  <2>2. QED
    BY <1>1, <2>1 DEF Moves
<1>2. ASSUME NEW n \in Slots PROVE pt[n] \in Entries
  BY DEF IInv, TableOK
<1> HIDE DEF T
<1>3. ASSUME schedule PROVE IInv'
  <2> DEFINE n == NextRunnable(pt, cpu)
             e == [pt[n] EXCEPT !.state = "RUNNING"]
  <2>1. n \in Slots /\ pt[n].state = "RUNNABLE"
    BY <1>3, NextRunnableFacts, Zenon DEF schedule
  <2>2. pt' = T(n, e) /\ cpu' = n /\ UNCHANGED <<nextpid, u, ftable, pipes>>
    BY <1>3, Zenon DEF schedule, scheduler, T, Put
  <2> HIDE DEF n
  <2>3. pt[n] \in Entries
    BY <1>2, <2>1
  <2>4. e \in Entries /\ e.parent = pt[n].parent /\ e.state = "RUNNING"
    BY <2>3 DEF Entries, States
  <2> HIDE DEF e
  <2>5. e.state # "SLEEPING" /\ pt[n].state \in Live /\ e.state \in Live
    BY <2>1, <2>4 DEF Live
  <2>6. QED
    BY <1>1, <2>1, <2>2, <2>4, <2>5, TableStep
<1>4. ASSUME tick PROVE IInv'
  <2> DEFINE n == cpu
             e == [pt[n] EXCEPT !.state = "RUNNABLE"]
  <2>1. n \in Slots /\ pt[n].state = "RUNNING"
    BY <1>4, Zenon DEF tick, IInv
  <2>2. pt' = T(n, e) /\ cpu' = cpu /\ UNCHANGED <<nextpid, u, ftable, pipes>>
    BY <1>4, Zenon DEF tick, yield, T, Put
  <2>3. pt[n] \in Entries
    BY <1>2, <2>1
  <2>4. e \in Entries /\ e.parent = pt[n].parent /\ e.state = "RUNNABLE"
    BY <2>3 DEF Entries, States
  <2> HIDE DEF e
  <2>5. e.state # "SLEEPING" /\ pt[n].state \in Live /\ e.state \in Live
    BY <2>1, <2>4 DEF Live
  <2>6. QED
    BY <1>1, <2>1, <2>2, <2>4, <2>5, TableStep
<1>5. ASSUME NEW s \in Slots, sys_kill(s) PROVE IInv'
  <2> DEFINE S == {r \in Slots : pt[r].pid = pt[s].pid}
             n == Min(S)
             e == [pt[n] EXCEPT !.killed = TRUE, !.state = IF @ = "SLEEPING" THEN "RUNNABLE" ELSE @,
                                !.chan = NoChan]
  <2>1. pt' = T(n, e) /\ UNCHANGED <<nextpid, u, ftable, pipes, cpu>>
    BY <1>5, Zenon DEF sys_kill, kill, T, Put
  <2>2. n \in Slots
    <3>1. S \in SUBSET Nat /\ S \subseteq Slots
      BY DEF Slots
    <3>2. s \in S
      OBVIOUS
    <3> HIDE DEF S
    <3>3. QED
      BY <3>1, <3>2, MinOfNats, Zenon
  <2> HIDE DEF n
  <2>3. pt[n] \in Entries
    BY <1>2, <2>2
  <2>4. NoChan \in Chans
    BY DEF NoChan, Chans
  <2>5. /\ e \in Entries /\ e.parent = pt[n].parent
        /\ e.state = IF pt[n].state = "SLEEPING" THEN "RUNNABLE" ELSE pt[n].state
    BY <2>3, <2>4, Zenon DEF Entries, States
  <2> HIDE DEF e
  <2>6. /\ e.state # "SLEEPING"
        /\ e.state = pt[n].state \/ (pt[n].state \in Live /\ e.state \in Live)
    BY <2>5 DEF Live
  <2>7. cpu' \in Slots
    BY <2>1 DEF IInv
  <2>8. QED
    BY <1>1, <2>1, <2>2, <2>5, <2>6, <2>7, TableStep, Zenon
<1>6. QED
  BY <1>3, <1>4, <1>5

\* The shell at its prompt goes to sleep, and a line wakes it.
LEMMA PromptSteps ==
  ASSUME IInv, NEW s \in Slots
  PROVE  /\ getcmd(s) => IInv'
         /\ \A line \in Lines : typed(s, line) => IInv'
<1>1. ASSUME getcmd(s) PROVE IInv'
  <2> DEFINE c == <<"console", 0>>
  <2>1. /\ pt[s].state = "RUNNING" /\ ~pt[s].killed /\ pt' = sleep(pt, s, c)
        /\ UNCHANGED <<nextpid, cpu, u, ftable, pipes>>
    BY <1>1, Zenon DEF getcmd, Runs
  <2>2. c \in Chans /\ c[1] = "console"
    BY DEF Chans
  <2> HIDE DEF c
  <2>3. /\ TableOK(pt') /\ Moves(pt, pt') /\ pt'[s].chan = c /\ pt'[s].killed = pt[s].killed
        /\ \A q \in Slots : q # s => pt'[q] = pt[q]
    BY <2>1, <2>2, SleepFacts DEF IInv
  <2>4. Reason(pt', pipes, s)
    <3>1. pt'[s].chan[1] = "console" /\ ~pt'[s].killed
      BY <2>1, <2>2, <2>3
    <3>2. QED
      BY <3>1 DEF Reason
  <2>5. ASSUME NEW q \in Slots, pt'[q].state = "SLEEPING"
        PROVE  \/ /\ pt[q].state = "SLEEPING" /\ pt'[q].chan = pt[q].chan
                  /\ pt'[q].killed = pt[q].killed /\ PipeHolds(pipes, pt[q].chan)
               \/ Reason(pt', pipes, q)
    <3>1. CASE q = s
      BY <2>4, <3>1
    <3>2. CASE q # s
      BY <2>3, <2>5, <3>2, AsleepHolds, Zenon DEF IInv
    <3>3. QED
      BY <3>1, <3>2
  <2>6. Asleep(pt', pipes)
    BY <2>3, <2>5, AsleepMoves, Zenon DEF IInv
  <2>7. NoParent(pt') /\ Forking(pt', u)
    BY <2>3, MovesKeep, Zenon DEF IInv
  <2>8. QED
    BY <2>1, <2>3, <2>6, <2>7, Zenon DEF IInv
<1>2. ASSUME NEW line \in Lines, typed(s, line) PROVE IInv'
  <2> DEFINE chan == <<"console", 0>>
             c == IF line = <<>> THEN <<<<"exit">>>> ELSE <<<<"fork", <<<<"parse", line>>>>>>, <<"wait">>>>
  <2>1. CodeOK(c) /\ ~Forks(c)
    BY FixedCode, LineCode
  <2>2. pt' = wakeup1(pt, chan) /\ u' = Continues(s, c) /\ UNCHANGED <<nextpid, cpu, ftable, pipes>>
    BY <1>2, Zenon DEF typed
  <2> HIDE DEF c, chan
  <2>3. /\ TableOK(pt') /\ Moves(pt, pt')
        /\ \A q \in Slots : pt'[q].state = "SLEEPING" => pt'[q] = pt[q]
    <3>1. TableOK(pt)
      BY Zenon DEF IInv
    <3>2. LET t2 == wakeup1(pt, chan) IN
          /\ TableOK(t2) /\ Moves(pt, t2)
          /\ \A q \in Slots : /\ t2[q].state = "SLEEPING" => t2[q] = pt[q] /\ pt[q].chan # chan
                              /\ pt[q].state # "SLEEPING" => t2[q] = pt[q]
                              /\ t2[q].killed = pt[q].killed
      BY <3>1, WakeupFacts
    <3>3. QED
      BY <2>2, <3>2, Zenon
  <2>4. ASSUME NEW q \in Slots, pt'[q].state = "SLEEPING"
        PROVE  /\ pt[q].state = "SLEEPING" /\ pt'[q].chan = pt[q].chan /\ pt'[q].killed = pt[q].killed
               /\ PipeHolds(pipes', pt[q].chan)
    BY <2>2, <2>3, <2>4, AsleepHolds, Zenon DEF IInv
  <2>5. Asleep(pt', pipes')
    BY <2>3, <2>4, AsleepMoves, Zenon DEF IInv
  <2>6. u' = Own(u, s, c, FALSE)
    BY <2>2, GoesOn, Zenon DEF IInv
  <2>7. PipesOK(pipes') /\ cpu' \in Slots
    BY <2>2 DEF IInv
  <2>8. QED
    BY <2>1, <2>2, <2>3, <2>5, <2>6, <2>7, MoveStep, Zenon
<1>3. QED
  BY <1>1, <1>2

\* Those asleep have their reasons if only entries of others change, and not
\* their children.
LEMMA AsleepFamilies ==
  ASSUME NEW t, NEW t2, NEW ps, Asleep(t, ps),
         \A q \in Slots : t2[q].state = "SLEEPING" =>
            t2[q] = t[q] /\ (t[q].chan[1] = "proc" => Children(t2, q) # {} /\ Zombies(t2, q) = {})
  PROVE  Asleep(t2, ps)
<1>1. SUFFICES ASSUME NEW q \in Slots, t2[q].state = "SLEEPING" PROVE Reason(t2, ps, q)
  BY DEF Asleep
<1>2. t2[q] = t[q] /\ (t[q].chan[1] = "proc" => Children(t2, q) # {} /\ Zombies(t2, q) = {})
  BY <1>1
<1>3. Reason(t, ps, q)
  BY <1>1, <1>2 DEF Asleep
<1>4. QED
  BY <1>2, <1>3, Zenon DEF Reason

\* An entry changes of a child of a process that does not sleep, or of a slot
\* without a parent that gets none that sleeps.
LEMMA AsleepEntry ==
  ASSUME NEW t, TableOK(t), NEW ps, Asleep(t, ps), NEW c \in Slots, NEW e \in Entries,
         e.state # "SLEEPING",
         \A q \in Slots : q = t[c].parent \/ q = e.parent => t[q].state # "SLEEPING"
  PROVE  Asleep(Put(t, c, e), ps)
<1> DEFINE t2 == Put(t, c, e)
<1>1. t2[c] = e /\ \A q \in Slots : q # c => t2[q] = t[q]
  BY EntrySet
<1> HIDE DEF t2
<1>2. ASSUME NEW q \in Slots, t2[q].state = "SLEEPING"
      PROVE  t2[q] = t[q] /\ (t[q].chan[1] = "proc" => Children(t2, q) # {} /\ Zombies(t2, q) = {})
  <2>1. q # c /\ t2[q] = t[q] /\ t[c].parent # q /\ e.parent # q
    BY <1>1, <1>2
  <2>2. Children(t2, q) = Children(t, q) /\ c \notin Children(t, q)
    BY <1>1, <2>1 DEF Children
  <2>3. Zombies(t2, q) = Zombies(t, q)
    BY <1>1, <2>2 DEF Zombies, Children
  <2>4. Reason(t, ps, q)
    BY <1>2, <2>1 DEF Asleep
  <2>5. QED
    BY <2>1, <2>2, <2>3, <2>4, Zenon DEF Reason
<1>3. Asleep(t2, ps)
  BY <1>2, AsleepFamilies
<1>4. QED
  BY <1>3 DEF t2

\* wait: a zombie child is reaped, or the process goes on, or it sleeps.
LEMMA WaitStep ==
  ASSUME IInv, NEW s \in Slots, sys_wait(s)
  PROVE  IInv'
<1> DEFINE zombies == Zombies(pt, s)
           c == Min(zombies)
           again == Head(u[s].code)[1] = "waitfor"
           gone == IF zombies = {} THEN TRUE ELSE pt[c].pid = u[s].pid
           code == IF ~again THEN Tail(u[s].code) ELSE IF gone THEN initLoop ELSE u[s].code
           next == IF ~again THEN Returns(s)
                   ELSE IF gone THEN Continues(s, initLoop) ELSE Continues(s, u[s].code)
<1>1. PICK op \in {"wait", "waitfor"} : Does(s, op)
  BY Zenon DEF sys_wait
<1>2. /\ pt[s].state = "RUNNING" /\ u[s].code # <<>> /\ CodeOK(u[s].code)
      /\ u[s].code[1][1] = op /\ CodeOK(Tail(u[s].code)) /\ ~Forks(Tail(u[s].code))
  BY <1>1, Calls, Zenon
<1>3. CodeOK(code) /\ ~Forks(code)
  <2>1. ~Forks(u[s].code)
    BY <1>1, <1>2 DEF Forks
  <2> HIDE DEF again, gone
  <2>2. QED
    BY <1>2, <2>1, FixedCode
<1>4. next = Own(u, s, code, FALSE)
  <2>1. /\ Returns(s) = Own(u, s, Tail(u[s].code), FALSE)
        /\ \A x : Continues(s, x) = Own(u, s, x, FALSE)
    BY GoesOn, Zenon DEF IInv
  <2> HIDE DEF again, gone
  <2>2. QED
    BY <2>1, Zenon
<1>5. UNCHANGED <<nextpid, cpu, ftable, pipes>>
  BY Zenon DEF sys_wait
<1>6. zombies # {} => pt' = reap(pt, c) /\ u' = [next EXCEPT ![c] = NoUser]
  BY Zenon DEF sys_wait
<1>7. zombies = {} /\ (Children(pt, s) = {} \/ pt[s].killed) => pt' = pt /\ u' = next
  BY Zenon DEF sys_wait
<1>8. zombies = {} /\ ~(Children(pt, s) = {} \/ pt[s].killed) =>
        pt' = sleep(pt, s, <<"proc", s>>) /\ u' = Sleeps(s)
  BY Zenon DEF sys_wait
<1> HIDE DEF code, next
<1>9. CASE zombies # {}
  <2>1. c \in Slots /\ pt[c].state = "ZOMBIE" /\ pt[c].parent = s
    <3>1. zombies \in SUBSET Nat
      BY DEF Zombies, Children, Slots
    <3>2. c \in zombies
      <4> HIDE DEF zombies
      <4>1. QED
        BY <1>9, <3>1, MinOfNats
    <3>3. QED
      BY <3>2, Zenon DEF Zombies, Children
  <2> HIDE DEF c
  <2>2. c # s
    BY <1>2, <2>1
  <2>3. Unused \in Entries /\ Unused.state = "UNUSED" /\ Unused.parent = 0
    <3>1. NoChan \in Chans
      BY DEF NoChan, Chans
    <3>2. 0 \in 0 .. NPROC
      BY ProcAssumption
    <3>3. QED
      BY <3>1, <3>2 DEF Unused, Entries, States
  <2>4. pt' = Put(pt, c, Unused) /\ u' = Put(next, c, NoUser)
    BY <1>6, <1>9 DEF reap, Put
  <2>5. TableOK(pt') /\ pt'[c] = Unused /\ \A q \in Slots : q # c => pt'[q] = pt[q]
    BY <2>1, <2>3, <2>4, EntrySet DEF IInv
  <2>6. Asleep(pt', pipes)
    <3>1. \A q \in Slots : q = pt[c].parent \/ q = Unused.parent => pt[q].state # "SLEEPING"
      <4>1. \A q \in Slots : q # 0
        BY DEF Slots
      <4>2. QED
        BY <1>2, <2>1, <2>3, <4>1
    <3>2. Unused.state # "SLEEPING"
      BY <2>3
    <3>3. QED
      BY <2>1, <2>3, <2>4, <3>1, <3>2, AsleepEntry, Zenon DEF IInv
  <2>7. UsersOK(next) /\ (\A q \in Slots : q # s => next[q] = u[q]) /\ next[s].code = code
    <3>1. PICK b \in BOOLEAN : next = Own(u, s, code, b)
      BY <1>4, Zenon
    <3>2. UsersOK(u) /\ CodeOK(code)
      BY <1>3 DEF IInv
    <3>3. QED
      BY <3>1, <3>2, OwnFacts
  <2>8. NoUser \in UsersWith({NoUser.code}) /\ NoUser.code = <<>> /\ CodeOK(NoUser.code)
    BY NoUserFacts
  <2>9. UsersOK(u') /\ u'[c] = NoUser /\ \A q \in Slots : q # c => u'[q] = next[q]
    BY <2>1, <2>4, <2>7, <2>8, UserSet
  <2>10. \A q \in Slots : Forks(u'[q].code) => q # s /\ q # c /\ u'[q] = u[q]
    <3>1. ~Forks(NoUser.code)
      BY <2>8, Zenon DEF Forks
    <3>2. QED
      BY <1>3, <2>7, <2>9, <3>1, Zenon
  <2>11. NoParent(pt')
    BY <2>3, <2>5, Zenon DEF IInv, NoParent
  <2>12. Forking(pt', u')
    <3>1. ASSUME NEW q \in Slots, Forks(u'[q].code)
          PROVE  /\ ChildOf(u', q) = ChildOf(u, q) /\ Forks(u[q].code)
                 /\ ChildOf(u, q) \in Slots /\ pt'[ChildOf(u, q)].state = "EMBRYO"
      <4>1. u'[q] = u[q]
        BY <2>10, <3>1
      <4>2. ChildOf(u', q) = ChildOf(u, q) /\ Forks(u[q].code)
        BY <3>1, <4>1 DEF ChildOf
      <4>3. ChildOf(u, q) \in Slots /\ pt[ChildOf(u, q)].state = "EMBRYO"
        BY <4>2, Zenon DEF IInv, Forking
      <4>4. QED
        BY <2>1, <2>5, <4>2, <4>3
    <3>2. QED
      BY <3>1, Zenon DEF IInv, Forking
  <2>13. QED
    BY <1>5, <2>5, <2>6, <2>9, <2>11, <2>12, Zenon DEF IInv
<1>10. CASE zombies = {} /\ (Children(pt, s) = {} \/ pt[s].killed)
  BY <1>3, <1>4, <1>5, <1>7, <1>10, CodeStep, Zenon
<1>11. CASE zombies = {} /\ ~(Children(pt, s) = {} \/ pt[s].killed)
  <2> DEFINE chan == <<"proc", s>>
  <2>1. pt' = sleep(pt, s, chan) /\ u' = Own(u, s, u[s].code, TRUE)
    BY <1>8, <1>11, GoesOn, Zenon DEF IInv
  <2>2. chan \in Chans /\ chan[1] = "proc" /\ chan[2] = s
    BY DEF Chans, Slots
  <2> HIDE DEF chan
  <2>3. /\ TableOK(pt') /\ Moves(pt, pt') /\ pt'[s].chan = chan /\ pt'[s].killed = pt[s].killed
        /\ \A q \in Slots : q # s => pt'[q] = pt[q]
    <3>1. TableOK(pt) /\ pt[s].state = "RUNNING"
      BY <1>2, Zenon DEF IInv
    <3>2. LET t2 == sleep(pt, s, chan) IN
          /\ TableOK(t2) /\ Moves(pt, t2)
          /\ t2[s].chan = chan /\ t2[s].killed = pt[s].killed
          /\ \A q \in Slots : q # s => t2[q] = pt[q]
      BY <2>2, <3>1, SleepFacts
    <3>3. QED
      BY <2>1, <3>2, Zenon
  <2>4. Reason(pt', pipes, s)
    <3>1. Children(pt', s) = Children(pt, s) /\ Zombies(pt', s) = Zombies(pt, s)
      BY <2>3, FamilySame
    <3>2. pt'[s].chan[1] = "proc" /\ pt'[s].chan[2] = s /\ ~pt'[s].killed
      BY <1>11, <2>2, <2>3
    <3>3. "proc" # "nread" /\ "proc" # "nwrite"
      OBVIOUS
    <3>4. QED
      BY <1>11, <3>1, <3>2, <3>3, Zenon DEF Reason
  <2>5. ASSUME NEW q \in Slots, pt'[q].state = "SLEEPING"
        PROVE  \/ /\ pt[q].state = "SLEEPING" /\ pt'[q].chan = pt[q].chan
                  /\ pt'[q].killed = pt[q].killed /\ PipeHolds(pipes, pt[q].chan)
               \/ Reason(pt', pipes, q)
    <3>1. CASE q = s
      BY <2>4, <3>1
    <3>2. CASE q # s
      BY <2>3, <2>5, <3>2, AsleepHolds, Zenon DEF IInv
    <3>3. QED
      BY <3>1, <3>2
  <2>6. Asleep(pt', pipes)
    BY <2>3, <2>5, AsleepMoves, Zenon DEF IInv
  <2>7. Asleep(pt', pipes') /\ PipesOK(pipes') /\ cpu' \in Slots
    BY <1>5, <2>6 DEF IInv
  <2>8. QED
    BY <1>2, <1>5, <2>1, <2>3, <2>7, MoveStep, Zenon
<1>12. QED
  BY <1>9, <1>10, <1>11

\* The first half of fork: a free slot becomes the child's.
LEMMA ForkStep ==
  ASSUME IInv, NEW s \in Slots, sys_fork(s)
  PROVE  IInv'
<1> DEFINE n == FreeSlot(pt)
<1>1. Does(s, "fork") /\ UNCHANGED <<cpu, ftable, pipes>>
  BY DEF sys_fork
<1>2. /\ pt[s].state = "RUNNING" /\ u[s].code # <<>> /\ CodeOK(u[s].code)
      /\ CallOK(Head(u[s].code)) /\ Head(u[s].code)[1] = "fork"
  BY <1>1, Calls
<1>3. CASE n = 0
  <2>1. UNCHANGED <<pt, nextpid>> /\ (u' = Returns(s) \/ u' = Continues(s, <<<<"exit">>>>))
    BY <1>3 DEF sys_fork
  <2>2. CASE u' = Returns(s)
    BY <1>1, <2>1, <2>2, ReturnStep
  <2>3. CASE u' = Continues(s, <<<<"exit">>>>)
    BY <1>1, <2>1, <2>3, ContinueStep, FixedCode
  <2>4. QED
    BY <2>1, <2>2, <2>3
<1>4. CASE n # 0
  <2> DEFINE x == <<"forked", Arg(s), n>>
             code == <<x>> \o Tail(u[s].code)
             e == [pt[n] EXCEPT !.state = "EMBRYO", !.pid = nextpid]
  <2>1. /\ pt' = Put(pt, n, e) /\ nextpid' = nextpid + 1
        /\ u' = [u EXCEPT ![s].code = code, ![s].in = TRUE]
    BY <1>4, Zenon DEF sys_fork, allocproc, Put
  <2>2. n \in Slots /\ pt[n].state = "UNUSED"
    <3> DEFINE free == {q \in Slots : pt[q].state = "UNUSED"}
    <3>1. free # {} /\ n = Min(free)
      BY <1>4 DEF FreeSlot
    <3>2. free \in SUBSET Nat
      BY DEF Slots
    <3>3. n \in free
      <4> HIDE DEF free, n
      <4>1. QED
        BY <3>1, <3>2, MinOfNats
    <3>4. QED
      BY <3>3
  <2> HIDE DEF n
  <2>3. pt[n] \in Entries /\ nextpid \in Nat /\ pt[n].parent = 0
    BY <2>2 DEF IInv, TableOK, NoParent
  <2>4. e \in Entries /\ e.state = "EMBRYO" /\ e.parent = 0
    BY <2>3, Zenon DEF Entries, States
  <2> HIDE DEF e
  <2>5. TableOK(pt') /\ pt'[n] = e /\ \A q \in Slots : q # n => pt'[q] = pt[q]
    BY <2>1, <2>2, <2>4, EntrySet DEF IInv
  <2>6. Asleep(pt', pipes')
    <3>1. \A q \in Slots : q # 0
      BY DEF Slots
    <3>2. \A q \in Slots : q = pt[n].parent \/ q = e.parent => pt[q].state # "SLEEPING"
      BY <2>3, <2>4, <3>1, Zenon
    <3>3. e.state # "SLEEPING"
      BY <2>4
    <3>4. Asleep(Put(pt, n, e), pipes)
      BY <2>2, <2>4, <3>2, <3>3, AsleepEntry, Zenon DEF IInv
    <3>5. QED
      BY <1>1, <2>1, <3>4, Zenon
  <2>7. CallOK(x) /\ x[1] = "forked" /\ x[3] = n
    <3>1. Plain(Arg(s))
      BY <1>2 DEF CallOK, Arg
    <3>2. x[1] = "forked" /\ x[2] = Arg(s) /\ x[3] = n
      OBVIOUS
    <3> HIDE DEF x
    <3>3. QED
      BY <3>1, <3>2 DEF CallOK
  <2> HIDE DEF x
  <2>8. CodeOK(code) /\ code # <<>> /\ code[1] = x
    BY <1>2, <2>7, CodeCons
  <2> HIDE DEF code
  <2>9. u' = Own(u, s, code, TRUE)
    <3>1. PICK C : u \in [Slots -> UsersWith(C)]
      BY DEF IInv, UsersOK
    <3>2. QED
      BY <2>1, <3>1, Zenon DEF Own, UsersWith
  <2>10. UsersOK(u') /\ (\A q \in Slots : q # s => u'[q] = u[q]) /\ u'[s].code = code
    <3>1. UsersOK(u) /\ CodeOK(code)
      BY <2>8 DEF IInv
    <3>2. PICK b \in BOOLEAN : u' = Own(u, s, code, b)
      BY <2>9, Zenon
    <3>3. QED
      BY <3>1, <3>2, OwnFacts
  <2>11. NoParent(pt')
    BY <2>4, <2>5, Zenon DEF IInv, NoParent
  <2>12. Forking(pt', u')
    <3>1. ChildOf(u', s) = n
      BY <2>7, <2>8, <2>10 DEF ChildOf
    <3>2. ASSUME NEW q \in Slots, q # s, Forks(u'[q].code)
          PROVE  /\ ChildOf(u', q) = ChildOf(u, q) /\ Forks(u[q].code) /\ ChildOf(u, q) # n
                 /\ ChildOf(u, q) \in Slots /\ pt'[ChildOf(u, q)].state = "EMBRYO"
      <4>1. ChildOf(u', q) = ChildOf(u, q) /\ Forks(u[q].code)
        BY <2>10, <3>2 DEF ChildOf
      <4>2. ChildOf(u, q) \in Slots /\ pt[ChildOf(u, q)].state = "EMBRYO"
        BY <4>1, Zenon DEF IInv, Forking
      <4>3. QED
        BY <2>2, <2>5, <4>1, <4>2
    <3>3. SUFFICES ASSUME NEW r \in Slots, Forks(u'[r].code)
                   PROVE  /\ ChildOf(u', r) \in Slots /\ pt'[ChildOf(u', r)].state = "EMBRYO"
                          /\ \A q \in Slots : Forks(u'[q].code) /\ ChildOf(u', q) = ChildOf(u', r) => q = r
      BY DEF Forking
    <3>4. CASE r = s
      BY <2>2, <2>4, <2>5, <3>1, <3>2, <3>4, Zenon
    <3>5. CASE r # s
      <4>1. ASSUME NEW q \in Slots, Forks(u'[q].code), ChildOf(u', q) = ChildOf(u', r) PROVE q = r
        <5>1. q # s
          BY <3>1, <3>2, <3>3, <3>5, <4>1
        <5>2. Forks(u[q].code) /\ Forks(u[r].code) /\ ChildOf(u, q) = ChildOf(u, r)
          BY <3>2, <3>3, <3>5, <4>1, <5>1
        <5>3. QED
          BY <5>2, Zenon DEF IInv, Forking
      <4>2. QED
        BY <3>2, <3>3, <3>5, <4>1
    <3>6. QED
      BY <3>4, <3>5
  <2>13. nextpid' \in Nat
    BY <2>1, <2>3
  <2>14. QED
    BY <1>1, <2>5, <2>6, <2>10, <2>11, <2>12, <2>13, Zenon DEF IInv
<1>5. QED
  BY <1>3, <1>4

\* The second half of fork: the child has the parent's files and may run.
LEMMA ForkedStep ==
  ASSUME IInv, NEW s \in Slots, forked(s)
  PROVE  IInv'
<1> DEFINE c == Head(u[s].code)[3]
           e == [pt[c] EXCEPT !.parent = s, !.state = "RUNNABLE"]
           v1 == Returns(s)
           r1 == [u[s] EXCEPT !.code = Arg(s), !.in = FALSE, !.pid = 0]
           v2 == Put(v1, c, r1)
           pid == IF s = initproc THEN pt[c].pid ELSE 0
           r2 == [v2[s] EXCEPT !.pid = pid]
<1>1. Does(s, "forked") /\ UNCHANGED <<nextpid, cpu, pipes>>
  BY DEF forked
<1>2. /\ pt[s].state = "RUNNING" /\ u[s].code # <<>> /\ CodeOK(u[s].code)
      /\ Head(u[s].code) = u[s].code[1]
      /\ CallOK(Head(u[s].code)) /\ Head(u[s].code)[1] = "forked"
      /\ CodeOK(Tail(u[s].code)) /\ ~Forks(Tail(u[s].code))
  BY <1>1, Calls, Zenon
<1>3. Forks(u[s].code) /\ c = ChildOf(u, s)
  BY <1>2 DEF Forks, ChildOf
<1>4. /\ pt' = Put(pt, c, e)
      /\ u' = Put(v2, s, r2)
      /\ ftable' = [f \in DOMAIN ftable |-> [ftable[f] EXCEPT !.ref = @ + Refs(u[s].fd, f)]]
  BY DEF forked, forkEnd, Put
<1> HIDE DEF c
<1>5. c \in Slots /\ pt[c].state = "EMBRYO" /\ c # s
  <2>1. c \in Slots /\ pt[c].state = "EMBRYO"
    BY <1>3, Zenon DEF IInv, Forking
  <2>2. QED
    BY <1>2, <2>1
<1>6. pt[c] \in Entries /\ pt[c].parent = 0
  BY <1>5 DEF IInv, TableOK, NoParent
<1>7. e \in Entries /\ e.state = "RUNNABLE" /\ e.parent = s
  <2>1. s \in 0 .. NPROC
    BY DEF Slots
  <2>2. QED
    BY <1>6, <2>1, Zenon DEF Entries, States
<1> HIDE DEF e
<1>8. TableOK(pt') /\ pt'[c] = e /\ \A q \in Slots : q # c => pt'[q] = pt[q]
  BY <1>4, <1>5, <1>7, EntrySet DEF IInv
<1>9. Asleep(pt', pipes')
  <2>1. \A q \in Slots : q # 0
    BY DEF Slots
  <2>2. "RUNNING" # "SLEEPING" /\ e.state # "SLEEPING"
    BY <1>7
  <2>3. \A q \in Slots : q = pt[c].parent \/ q = e.parent => pt[q].state # "SLEEPING"
    BY <1>2, <1>6, <1>7, <2>1, <2>2, Zenon
  <2>4. Asleep(Put(pt, c, e), pipes)
    BY <1>5, <1>7, <2>2, <2>3, AsleepEntry, Zenon DEF IInv
  <2>5. QED
    BY <1>1, <1>4, <2>4, Zenon
<1>10. /\ UsersOK(v1) /\ \A q \in Slots : q # s => v1[q] = u[q]
       /\ v1[s].code = Tail(u[s].code)
  <2>1. v1 = Own(u, s, Tail(u[s].code), FALSE) /\ UsersOK(u)
    BY GoesOn, Zenon DEF IInv
  <2> HIDE DEF v1
  <2>2. PICK b \in BOOLEAN : v1 = Own(u, s, Tail(u[s].code), b)
    BY <2>1, Zenon
  <2>3. PICK x : x = Tail(u[s].code)
    BY Zenon
  <2>4. CodeOK(x) /\ v1 = Own(u, s, x, b)
    BY <1>2, <2>2, <2>3, Zenon
  <2>5. v1[s].code = x /\ UsersOK(v1) /\ \A q \in Slots : q # s => v1[q] = u[q]
    <3>1. UsersOK(u)
      BY DEF IInv
    <3>2. QED
      BY <2>4, <3>1, OwnFacts
  <2>6. QED
    BY <2>3, <2>5, Zenon
<1> HIDE DEF v1
<1>11. /\ r1 \in UsersWith({r1.code}) /\ CodeOK(r1.code) /\ ~Forks(r1.code)
  <2>1. u[s] \in UsersWith({u[s].code})
    BY UserFacts DEF IInv
  <2>2. CodeOK(Arg(s)) /\ ~Forks(Arg(s))
    <3>1. Plain(Arg(s))
      BY <1>2 DEF CallOK, Arg
    <3>2. QED
      BY <3>1, PlainCode
  <2>3. r1 \in UsersWith({r1.code}) /\ r1.code = Arg(s)
    BY <2>1, Zenon DEF UsersWith
  <2> HIDE DEF r1
  <2>4. QED
    BY <2>2, <2>3
<1> HIDE DEF r1
<1>12. UsersOK(v2) /\ v2[c] = r1 /\ \A q \in Slots : q # c => v2[q] = v1[q]
  BY <1>5, <1>10, <1>11, UserSet
<1> HIDE DEF v2
<1>13. /\ r2 \in UsersWith({r2.code}) /\ r2.code = v2[s].code /\ CodeOK(r2.code)
  <2>1. v2[s] \in UsersWith({v2[s].code}) /\ CodeOK(v2[s].code)
    BY <1>12, UserFacts
  <2>2. pid \in Nat
    BY <1>6 DEF Entries
  <2> HIDE DEF pid
  <2>3. r2 \in UsersWith({r2.code}) /\ r2.code = v2[s].code
    BY <2>1, <2>2, Zenon DEF UsersWith
  <2> HIDE DEF r2
  <2>4. QED
    BY <2>1, <2>3
<1> HIDE DEF r2
<1>14. UsersOK(u') /\ u'[s] = r2 /\ \A q \in Slots : q # s => u'[q] = v2[q]
  BY <1>4, <1>12, <1>13, UserSet
<1>15. /\ u'[c].code = r1.code
       /\ u'[s].code = Tail(u[s].code)
       /\ \A q \in Slots : q # c /\ q # s => u'[q] = u[q]
  BY <1>5, <1>10, <1>11, <1>12, <1>13, <1>14, Zenon
<1>16. NoParent(pt')
  BY <1>7, <1>8, Zenon DEF IInv, NoParent
<1>17. Forking(pt', u')
  <2>1. ASSUME NEW q \in Slots, Forks(u'[q].code)
        PROVE  /\ ChildOf(u', q) = ChildOf(u, q) /\ Forks(u[q].code)
               /\ ChildOf(u, q) \in Slots /\ pt'[ChildOf(u, q)].state = "EMBRYO"
    <3>1. q # s /\ q # c
      BY <1>2, <1>11, <1>15, <2>1
    <3>2. ChildOf(u', q) = ChildOf(u, q) /\ Forks(u[q].code)
      BY <1>15, <2>1, <3>1 DEF ChildOf
    <3>3. ChildOf(u, q) \in Slots /\ pt[ChildOf(u, q)].state = "EMBRYO" /\ ChildOf(u, q) # c
      BY <1>3, <3>1, <3>2, Zenon DEF IInv, Forking
    <3>4. QED
      BY <1>8, <3>2, <3>3
  <2>2. QED
    BY <2>1, Zenon DEF IInv, Forking
<1>18. FilesOK(ftable')
  <2> DEFINE R == {ftable'[f].ref : f \in 1 .. NFILE}
  <2>1. DOMAIN ftable = 1 .. NFILE
    BY DEF IInv, FilesOK
  <2>2. ASSUME NEW f \in 1 .. NFILE
        PROVE  ftable'[f] \in FilesWith(R) /\ (ftable'[f].type = "pipe" => ftable'[f].pipe # 0)
    <3>1. ftable[f] \in FilesWith({ftable[f].ref}) /\ (ftable[f].type = "pipe" => ftable[f].pipe # 0)
      BY FileFacts DEF IInv
    <3>2. PICK n : ftable'[f] = [ftable[f] EXCEPT !.ref = n]
      BY <1>4, <2>1, Zenon
    <3>3. /\ ftable'[f] \in FilesWith({ftable'[f].ref})
          /\ ftable'[f].type = ftable[f].type /\ ftable'[f].pipe = ftable[f].pipe
      BY <3>1, <3>2, Zenon DEF FilesWith
    <3>4. ftable'[f].ref \in R
      OBVIOUS
    <3> HIDE DEF R
    <3>5. ftable'[f] \in FilesWith(R)
      BY <3>3, <3>4, Zenon DEF FilesWith
    <3>6. QED
      BY <3>1, <3>3, <3>5
  <2>3. ftable' = [f \in 1 .. NFILE |-> ftable'[f]]
    BY <1>4, <2>1
  <2> HIDE DEF R
  <2>4. ftable' \in [1 .. NFILE -> FilesWith(R)]
    BY <2>2, <2>3
  <2>5. QED
    BY <2>2, <2>4 DEF FilesOK
<1>19. QED
  BY <1>1, <1>8, <1>9, <1>14, <1>16, <1>17, <1>18, Zenon DEF IInv

\* exit under ptable.lock: the process is a zombie, its children are init's, and
\* whoever still sleeps has a reason: the parent and, if it is given a zombie,
\* init were woken.
LEMMA ExitFacts ==
  ASSUME NEW t, TableOK(t), NEW ps, Asleep(t, ps), NEW s \in Slots, t[s].state = "RUNNING"
  PROVE  LET t2 == exit(t, s) IN
         /\ TableOK(t2) /\ Asleep(t2, ps) /\ t2[s].state = "ZOMBIE"
         /\ \A q \in Slots : q # s =>
              /\ t2[q].parent = IF t[q].parent = s THEN initproc ELSE t[q].parent
              /\ t2[q].state = t[q].state \/ (t[q].state \in Live /\ t2[q].state \in Live)
<1> DEFINE c1 == <<"proc", t[s].parent>>
           c2 == <<"proc", initproc>>
           woken == wakeup1(t, c1)
           all == IF Zombies(t, s) # {} THEN wakeup1(woken, c2) ELSE woken
           t2 == exit(t, s)
<1>1. \A q \in Slots : t2[q] = IF q = s THEN [all[q] EXCEPT !.state = "ZOMBIE"]
                               ELSE IF t[q].parent = s THEN [all[q] EXCEPT !.parent = initproc]
                               ELSE all[q]
  BY DEF exit
<1>2. t2 = [q \in Slots |-> t2[q]]
  BY DEF exit
<1> HIDE DEF t2
<1>3. /\ TableOK(woken) /\ Moves(t, woken)
      /\ \A q \in Slots : /\ woken[q].state = "SLEEPING" => woken[q] = t[q] /\ t[q].chan # c1
                          /\ t[q].state # "SLEEPING" => woken[q] = t[q]
  <2> HIDE DEF c1
  <2>1. QED
    BY WakeupFacts
<1> HIDE DEF woken, c1
<1>4. /\ TableOK(all) /\ Moves(t, all) /\ all[s] = t[s]
      /\ \A q \in Slots : all[q].state = "SLEEPING" =>
           all[q] = t[q] /\ t[q].chan # c1 /\ (Zombies(t, s) # {} => t[q].chan # c2)
  <2>1. CASE Zombies(t, s) = {}
    BY <1>3, <2>1, Zenon
  <2>2. CASE Zombies(t, s) # {}
    <3> DEFINE w2 == wakeup1(woken, c2)
    <3>1. /\ TableOK(w2) /\ Moves(woken, w2)
          /\ \A q \in Slots : /\ w2[q].state = "SLEEPING" => w2[q] = woken[q] /\ woken[q].chan # c2
                              /\ woken[q].state # "SLEEPING" => w2[q] = woken[q]
      <4> HIDE DEF c2
      <4>1. TableOK(woken)
        BY <1>3, Zenon
      <4>2. QED
        BY <4>1, WakeupFacts
    <3>2. all = w2
      BY <2>2
    <3> HIDE DEF w2, all, c2
    <3>3. Moves(t, w2)
      BY <1>3, <3>1, Zenon DEF Moves
    <3>4. w2[s] = t[s]
      BY <1>3, <3>1, Zenon
    <3>5. ASSUME NEW q \in Slots, w2[q].state = "SLEEPING"
          PROVE  w2[q] = t[q] /\ t[q].chan # c1 /\ t[q].chan # c2
      BY <1>3, <3>1, <3>5
    <3>6. QED
      BY <3>1, <3>2, <3>3, <3>4, <3>5, Zenon
  <2>3. QED
    BY <2>1, <2>2, Zenon
<1> HIDE DEF all
<1>5. ASSUME NEW q \in Slots
      PROVE  /\ t2[q] \in Entries
             /\ q = s => t2[q].state = "ZOMBIE" /\ t2[q].parent = t[q].parent
             /\ q # s =>
                  /\ t2[q].parent = IF t[q].parent = s THEN initproc ELSE t[q].parent
                  /\ t2[q].state = all[q].state /\ t2[q].chan = all[q].chan
                  /\ t2[q].killed = all[q].killed
                  /\ t2[q].state = t[q].state \/ (t[q].state \in Live /\ t2[q].state \in Live)
  <2>1. all[q] \in Entries /\ initproc \in 0 .. NPROC
    BY <1>4, ProcAssumption DEF TableOK, initproc
  <2>2. all[q].parent = t[q].parent
    BY <1>4 DEF Moves
  <2>3. all[q].state = t[q].state \/ (t[q].state \in Live /\ all[q].state \in Live)
    BY <1>4 DEF Moves
  <2>4. CASE q = s
    <3>1. t2[q] = [all[q] EXCEPT !.state = "ZOMBIE"]
      BY <1>1, <2>4, Zenon
    <3>2. QED
      BY <2>1, <2>2, <2>4, <3>1 DEF Entries, States
  <2>5. CASE q # s /\ t[q].parent = s
    <3>1. t2[q] = [all[q] EXCEPT !.parent = initproc]
      BY <1>1, <2>5, Zenon
    <3>2. QED
      BY <2>1, <2>3, <2>5, <3>1 DEF Entries
  <2>6. CASE q # s /\ t[q].parent # s
    <3>1. t2[q] = all[q]
      BY <1>1, <2>6, Zenon
    <3>2. QED
      BY <2>1, <2>2, <2>3, <2>6, <3>1
  <2>7. QED
    BY <2>4, <2>5, <2>6, Zenon
<1>6. TableOK(t2)
  BY <1>2, <1>5 DEF TableOK
<1>7. ASSUME NEW q \in Slots, t2[q].state = "SLEEPING" PROVE Reason(t2, ps, q)
  <2>1. q # s
    BY <1>5, <1>7
  <2>2. /\ t[q].state = "SLEEPING" /\ t2[q].chan = t[q].chan /\ t2[q].killed = t[q].killed
        /\ t[q].chan # c1 /\ (Zombies(t, s) # {} => t[q].chan # c2)
    BY <1>4, <1>5, <1>7, <2>1, Zenon
  <2>3. Reason(t, ps, q)
    BY <2>2, Zenon DEF Asleep
  <2>4. ASSUME t[q].chan[1] = "proc" PROVE Children(t2, q) # {} /\ Zombies(t2, q) = {}
    <3>1. t[q].chan = <<t[q].chan[1], t[q].chan[2]>>
      BY DEF TableOK, Entries, Chans
    <3>2. t[q].chan[2] = q /\ Children(t, q) # {} /\ Zombies(t, q) = {}
      BY <2>3, <2>4, Zenon DEF Reason
    <3>3. q # t[s].parent /\ (Zombies(t, s) # {} => q # initproc)
      BY <2>2, <2>4, <3>1, <3>2 DEF c1
    <3>4. PICK x \in Slots : t[x].parent = q
      BY <3>2 DEF Children
    <3>5. x # s /\ t2[x].parent = q
      BY <1>5, <2>1, <3>3, <3>4
    <3>6. Children(t2, q) # {}
      BY <3>4, <3>5 DEF Children
    <3>7. ASSUME NEW z \in Slots, t2[z].parent = q, t2[z].state = "ZOMBIE" PROVE FALSE
      <4>1. z # s
        BY <1>5, <3>3, <3>7
      <4>2. t[z].state = "ZOMBIE"
        BY <1>5, <3>7, <4>1, Zenon DEF Live
      <4>3. CASE t[z].parent = s
        <5>1. z \in Zombies(t, s) /\ q = initproc
          BY <1>5, <3>7, <4>1, <4>2, <4>3, Zenon DEF Zombies, Children
        <5>2. QED
          BY <3>3, <5>1
      <4>4. CASE t[z].parent # s
        <5>1. z \in Zombies(t, q)
          BY <1>5, <3>7, <4>1, <4>2, <4>4, Zenon DEF Zombies, Children
        <5>2. QED
          BY <3>2, <5>1
      <4>5. QED
        BY <4>3, <4>4
    <3>8. Zombies(t2, q) = {}
      BY <3>7 DEF Zombies, Children
    <3>9. QED
      BY <3>6, <3>8
  <2>5. QED
    BY <2>2, <2>3, <2>4, Zenon DEF Reason
<1>8. Asleep(t2, ps)
  BY <1>7 DEF Asleep
<1>9. QED
  BY <1>5, <1>6, <1>8, Zenon DEF t2

\* exit: a file after the other is closed, and then the process is a zombie.
LEMMA ExitStep ==
  ASSUME IInv, NEW s \in Slots, sys_exit(s)
  PROVE  IInv'
<1> DEFINE open == {d \in Fds : u[s].fd[d] # 0}
           d0 == Min(open)
           f0 == u[s].fd[d0]
           v == [u EXCEPT ![s].fd[d0] = 0]
<1>1. Does(s, "exit") /\ nextpid' = nextpid /\ cpu' = cpu
  BY Zenon DEF sys_exit
<1>2. pt[s].state = "RUNNING" /\ u[s].code # <<>> /\ u[s].code[1][1] = "exit"
  BY <1>1, Calls
<1>3. /\ s = initproc => UNCHANGED <<pt, u, ftable, pipes>>
      /\ s # initproc /\ open # {} => close(f0) /\ u' = v
      /\ s # initproc /\ open = {} => pt' = exit(pt, s) /\ u' = Put(u, s, NoUser) /\ UNCHANGED <<ftable, pipes>>
  BY Zenon DEF sys_exit, Put
<1>4. u[s].fd \in [Fds -> 0 .. NFILE]
  BY UserFacts, Zenon DEF IInv, UsersWith
<1>5. CASE s = initproc
  BY <1>1, <1>3, <1>5 DEF IInv
<1>6. CASE s # initproc /\ open # {}
  <2>1. d0 \in Fds /\ f0 # 0
    <3>1. open \in SUBSET Nat
      BY DEF Fds
    <3>2. d0 \in open
      <4> HIDE DEF open
      <4>1. QED
        BY <1>6, <3>1, MinOfNats
    <3>3. QED
      BY <3>2
  <2>2. close(f0) /\ u' = v
    BY <1>3, <1>6
  <2> HIDE DEF d0
  <2>3. f0 \in 1 .. NFILE
    BY <1>4, <2>1
  <2>4. UsersOK(v) /\ (\A q \in Slots : q # s => v[q] = u[q]) /\ v[s].code = u[s].code
    <3>1. PICK z \in 0 .. NFILE : z = 0
      BY FilesAssumption
    <3>2. UsersOK(u) /\ v = SetFd(u, s, d0, z)
      BY <3>1 DEF IInv, SetFd
    <3> HIDE DEF v
    <3>3. QED
      BY <2>1, <3>2, FdSet
  <2> HIDE DEF v
  <2>5. /\ TableOK(pt') /\ Moves(pt, pt')
        /\ PipesOK(pipes') /\ FilesOK(ftable') /\ Asleep(pt', pipes')
    <3>1. TableOK(pt) /\ PipesOK(pipes) /\ FilesOK(ftable) /\ Asleep(pt, pipes)
      BY DEF IInv
    <3>2. QED
      BY <2>2, <2>3, <3>1, CloseFacts, Zenon
  <2>6. cpu' \in Slots
    BY <1>1 DEF IInv
  <2>7. QED
    BY <1>1, <2>2, <2>4, <2>5, <2>6, UserStep, Zenon
<1>7. CASE s # initproc /\ open = {}
  <2>1. pt' = exit(pt, s) /\ u' = Put(u, s, NoUser) /\ UNCHANGED <<ftable, pipes>>
    BY <1>3, <1>7
  <2>2. /\ TableOK(pt') /\ Asleep(pt', pipes) /\ pt'[s].state = "ZOMBIE"
        /\ \A q \in Slots : q # s =>
              /\ pt'[q].parent = IF pt[q].parent = s THEN initproc ELSE pt[q].parent
              /\ pt'[q].state = pt[q].state \/ (pt[q].state \in Live /\ pt'[q].state \in Live)
    BY <1>2, <2>1, ExitFacts, Zenon DEF IInv
  <2>3. NoUser \in UsersWith({NoUser.code}) /\ NoUser.code = <<>> /\ CodeOK(NoUser.code)
    BY NoUserFacts
  <2>4. UsersOK(u') /\ u'[s] = NoUser /\ \A q \in Slots : q # s => u'[q] = u[q]
    <3>1. UsersOK(u)
      BY Zenon DEF IInv
    <3>2. QED
      BY <2>1, <2>3, <3>1, UserSet
  <2>5. NoParent(pt')
    <3>1. s # 0
      BY DEF Slots
    <3>2. ASSUME NEW q \in Slots, pt'[q].state \in {"UNUSED", "EMBRYO"} PROVE pt'[q].parent = 0
      <4>1. q # s /\ pt[q].state = pt'[q].state
        BY <2>2, <3>2 DEF Live
      <4>2. pt[q].parent = 0
        BY <3>2, <4>1 DEF IInv, NoParent
      <4>3. QED
        BY <2>2, <3>1, <4>1, <4>2
    <3>3. QED
      BY <3>2 DEF NoParent
  <2>6. Forking(pt', u')
    <3>1. ASSUME NEW q \in Slots, Forks(u'[q].code)
          PROVE  /\ ChildOf(u', q) = ChildOf(u, q) /\ Forks(u[q].code)
                 /\ ChildOf(u, q) \in Slots /\ pt'[ChildOf(u, q)].state = "EMBRYO"
      <4>1. u'[q] = u[q]
        BY <2>3, <2>4, <3>1 DEF Forks
      <4>2. ChildOf(u', q) = ChildOf(u, q) /\ Forks(u[q].code)
        BY <3>1, <4>1 DEF ChildOf
      <4>3. ChildOf(u, q) \in Slots /\ pt[ChildOf(u, q)].state = "EMBRYO"
        BY <4>2, Zenon DEF IInv, Forking
      <4>4. ChildOf(u, q) # s
        BY <1>2, <4>3
      <4>5. QED
        BY <2>2, <4>2, <4>3, <4>4, Zenon DEF Live
    <3>2. QED
      BY <3>1, Zenon DEF IInv, Forking
  <2>7. QED
    BY <1>1, <2>1, <2>2, <2>4, <2>5, <2>6, Zenon DEF IInv
<1>8. QED
  BY <1>5, <1>6, <1>7
============================================================================
