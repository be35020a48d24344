-------------------------- MODULE ProcessesProofs --------------------------
(***************************************************************************)
(* The calls on files and pipes keep the invariant too, and so no wakeup   *)
(* is lost.                                                                *)
(***************************************************************************)
EXTENDS ProcessesSteps

\* A call that sets a descriptor is over.
LEMMA ReturnSets ==
  ASSUME IInv, NEW s \in Slots, NEW op, Does(s, op), NEW d \in Fds, NEW f \in 0 .. NFILE
  PROVE  LET w == SetFd(Returns(s), s, d, f) IN
         /\ UsersOK(w) /\ \A q \in Slots : q # s => w[q] = u[q]
         /\ ~Forks(w[s].code) /\ w[s].fd[d] = f
         /\ \A e \in Fds : e # d => w[s].fd[e] = u[s].fd[e]
<1> DEFINE v == Returns(s)
           w == SetFd(v, s, d, f)
<1>1. UsersOK(u)
  BY DEF IInv
<1>2. PICK x : x = Tail(u[s].code) /\ CodeOK(x) /\ ~Forks(x)
  BY Calls, Zenon
<1>3. v = Own(u, s, x, FALSE)
  BY <1>1, <1>2, GoesOn, Zenon
<1> HIDE DEF v
<1>4. PICK b \in BOOLEAN : v = Own(u, s, x, b)
  BY <1>3, Zenon
<1>5. /\ UsersOK(v) /\ \A q \in Slots : q # s => v[q] = u[q]
      /\ v[s].code = x /\ v[s].fd = u[s].fd
  <2>1. CodeOK(x)
    BY <1>2
  <2>2. QED
    BY <1>1, <1>4, <2>1, OwnFacts
<1>6. /\ UsersOK(w) /\ \A q \in Slots : q # s => w[q] = v[q]
      /\ w[s].code = v[s].code /\ w[s].fd[d] = f
      /\ \A e \in Fds : e # d => w[s].fd[e] = v[s].fd[e]
  <2>1. UsersOK(v)
    BY <1>5, Zenon
  <2>2. QED
    BY <2>1, FdSet
<1> HIDE DEF w
<1>7. /\ UsersOK(w) /\ \A q \in Slots : q # s => w[q] = u[q]
      /\ ~Forks(w[s].code) /\ w[s].fd[d] = f
      /\ \A e \in Fds : e # d => w[s].fd[e] = u[s].fd[e]
  BY <1>2, <1>5, <1>6, Zenon
<1>8. QED
  BY <1>7, Zenon DEF w, v

\* close of a descriptor or of an end of the shell's pipe.
LEMMA CloseStep ==
  ASSUME IInv, NEW s \in Slots, sys_close(s)
  PROVE  IInv'
<1> DEFINE d == IF Head(u[s].code)[1] = "close" THEN Arg(s) ELSE u[s].p[Arg(s) + 1]
           f == argfd(s, d)
<1>1. PICK op : Does(s, op)
  BY DEF sys_close
<1>2. /\ nextpid' = nextpid /\ cpu' = cpu
      /\ f = 0 => u' = Returns(s) /\ UNCHANGED <<pt, ftable, pipes>>
      /\ f # 0 => close(f) /\ u' = SetFd(Returns(s), s, d, 0)
  BY Zenon DEF sys_close, SetFd
<1> HIDE DEF d
<1>3. CASE f = 0
  BY <1>1, <1>2, <1>3, ReturnStep
<1>4. CASE f # 0
  <2>1. d \in Fds /\ f = u[s].fd[d]
    BY <1>4 DEF argfd
  <2> HIDE DEF f
  <2>2. f \in 1 .. NFILE
    <3>1. u[s].fd \in [Fds -> 0 .. NFILE]
      BY UserFacts, Zenon DEF IInv, UsersWith
    <3>2. QED
      BY <1>4, <2>1, <3>1
  <2>3. /\ TableOK(pt') /\ Moves(pt, pt')
        /\ PipesOK(pipes') /\ FilesOK(ftable') /\ Asleep(pt', pipes')
    <3>1. close(f)
      BY <1>2, <1>4
    <3>2. TableOK(pt) /\ PipesOK(pipes) /\ FilesOK(ftable) /\ Asleep(pt, pipes)
      BY DEF IInv
    <3>3. QED
      BY <2>2, <3>1, <3>2, CloseFacts, Zenon
  <2>4. UsersOK(u') /\ (\A q \in Slots : q # s => u'[q] = u[q]) /\ ~Forks(u'[s].code)
    <3>1. PICK z \in 0 .. NFILE : z = 0
      BY FilesAssumption
    <3>2. u' = SetFd(Returns(s), s, d, z)
      BY <1>2, <1>4, <3>1
    <3>3. LET w == SetFd(Returns(s), s, d, z) IN
          /\ UsersOK(w) /\ \A q \in Slots : q # s => w[q] = u[q]
          /\ ~Forks(w[s].code) /\ w[s].fd[d] = z
          /\ \A e \in Fds : e # d => w[s].fd[e] = u[s].fd[e]
      BY <1>1, <2>1, <3>1, ReturnSets, Zenon
    <3>4. QED
      BY <3>2, <3>3, Zenon
  <2>5. cpu' \in Slots
    BY <1>2 DEF IInv
  <2>6. QED
    BY <1>2, <2>3, <2>4, <2>5, UserStep, Zenon
<1>5. QED
  BY <1>3, <1>4

\* A call that gives a descriptor to a file is over.
LEMMA OpenedStep ==
  ASSUME IInv, NEW s \in Slots, NEW op, Does(s, op), NEW d \in Fds, NEW f \in 1 .. NFILE,
         NEW e, e \in FilesWith({e.ref}), e.type = "pipe" => e.pipe # 0,
         u' = SetFd(Returns(s), s, d, f), ftable' = Put(ftable, f, e),
         UNCHANGED <<pt, nextpid, cpu, pipes>>
  PROVE  IInv'
<1>1. UsersOK(u') /\ (\A q \in Slots : q # s => u'[q] = u[q]) /\ ~Forks(u'[s].code)
  <2>1. f \in 0 .. NFILE
    OBVIOUS
  <2>2. QED
    BY <2>1, ReturnSets
<1>2. FilesOK(ftable')
  <2>1. FilesOK(ftable)
    BY DEF IInv
  <2>2. QED
    BY <2>1, FileSet
<1>3. /\ TableOK(pt') /\ Moves(pt, pt') /\ PipesOK(pipes') /\ Asleep(pt', pipes')
      /\ cpu' \in Slots /\ nextpid' = nextpid
  BY DEF IInv, Moves
<1>4. QED
  BY <1>1, <1>2, <1>3, UserStep, Zenon

\* The lowest free descriptor, and the lowest free file.
LEMMA FreeOnes ==
  ASSUME IInv, NEW s \in Slots
  PROVE  /\ FreeFd(s) # NOFILE => FreeFd(s) \in Fds /\ u[s].fd[FreeFd(s)] = 0
         /\ FreeFile # 0 => FreeFile \in 1 .. NFILE /\ ftable[FreeFile].ref = 0
<1>1. ASSUME FreeFd(s) # NOFILE PROVE FreeFd(s) \in Fds /\ u[s].fd[FreeFd(s)] = 0
  <2> DEFINE free == {d \in Fds : u[s].fd[d] = 0}
  <2>1. free # {} /\ FreeFd(s) = Min(free)
    BY <1>1 DEF FreeFd
  <2>2. free \in SUBSET Nat
    BY DEF Fds
  <2>3. FreeFd(s) \in free
    <3> HIDE DEF free
    <3>1. QED
      BY <2>1, <2>2, MinOfNats
  <2>4. QED
    BY <2>3
<1>2. ASSUME FreeFile # 0 PROVE FreeFile \in 1 .. NFILE /\ ftable[FreeFile].ref = 0
  <2> DEFINE free == {f \in DOMAIN ftable : ftable[f].ref = 0}
  <2>1. free # {} /\ FreeFile = Min(free)
    BY <1>2 DEF FreeFile
  <2>2. DOMAIN ftable = 1 .. NFILE /\ free \in SUBSET Nat
    BY DEF IInv, FilesOK
  <2>3. FreeFile \in free
    <3> HIDE DEF free
    <3>1. QED
      BY <2>1, <2>2, MinOfNats
  <2>4. QED
    BY <2>2, <2>3
<1>3. QED
  BY <1>1, <1>2

\* dup of an end of the shell's pipe.
LEMMA DupStep ==
  ASSUME IInv, NEW s \in Slots, sys_dup(s)
  PROVE  IInv'
<1> DEFINE d == u[s].p[Arg(s) + 1]
           f == argfd(s, d)
           n == FreeFd(s)
           e == [ftable[f] EXCEPT !.ref = ftable[f].ref + 1]
<1>1. /\ Does(s, "dupp") /\ UNCHANGED <<pt, nextpid, cpu, pipes>>
      /\ f = 0 \/ n = NOFILE => u' = Returns(s) /\ UNCHANGED ftable
      /\ ~(f = 0 \/ n = NOFILE) => u' = SetFd(Returns(s), s, n, f) /\ ftable' = Put(ftable, f, e)
  BY DEF sys_dup, SetFd, Put
<1> HIDE DEF d, n
<1>2. CASE f = 0 \/ n = NOFILE
  BY <1>1, <1>2, ReturnStep
<1>3. CASE ~(f = 0 \/ n = NOFILE)
  <2>1. d \in Fds /\ f = u[s].fd[d]
    BY <1>3 DEF argfd
  <2>2. n \in Fds
    BY <1>3, FreeOnes DEF n
  <2> HIDE DEF f
  <2>3. f \in 1 .. NFILE
    <3>1. u[s].fd \in [Fds -> 0 .. NFILE]
      BY UserFacts, Zenon DEF IInv, UsersWith
    <3>2. QED
      BY <1>3, <2>1, <3>1
  <2>4. ftable[f] \in FilesWith({ftable[f].ref}) /\ (ftable[f].type = "pipe" => ftable[f].pipe # 0)
    BY <2>3, FileFacts DEF IInv
  <2>5. PICK k : k = ftable[f].ref + 1
    BY Zenon
  <2>6. e = [ftable[f] EXCEPT !.ref = k]
    BY <2>5
  <2> HIDE DEF e
  <2>7. e \in FilesWith({e.ref}) /\ e.type = ftable[f].type /\ e.pipe = ftable[f].pipe
    BY <2>4, <2>6, Zenon DEF FilesWith
  <2>8. e.type = "pipe" => e.pipe # 0
    BY <2>4, <2>7
  <2>9. u' = SetFd(Returns(s), s, n, f) /\ ftable' = Put(ftable, f, e)
    BY <1>1, <1>3
  <2>10. QED
    BY <1>1, <2>2, <2>3, <2>7, <2>8, <2>9, OpenedStep, Zenon
<1>4. QED
  BY <1>2, <1>3

\* open of a redirection.
LEMMA OpenStep ==
  ASSUME IInv, NEW s \in Slots, sys_open(s)
  PROVE  IInv'
<1> DEFINE f == FreeFile
           n == FreeFd(s)
           e == [NoFile EXCEPT !.ref = 1, !.type = "file"]
<1>1. /\ Does(s, "open") /\ UNCHANGED <<pt, nextpid, cpu, pipes>>
      /\ f = 0 \/ n = NOFILE => u' = Continues(s, <<<<"exit">>>>) /\ UNCHANGED ftable
      /\ ~(f = 0 \/ n = NOFILE) => u' = SetFd(Returns(s), s, n, f) /\ ftable' = Put(ftable, f, e)
  BY DEF sys_open, SetFd, Put
<1> HIDE DEF f, n
<1>2. CASE f = 0 \/ n = NOFILE
  BY <1>1, <1>2, ContinueStep, FixedCode
<1>3. CASE ~(f = 0 \/ n = NOFILE)
  <2>1. n \in Fds /\ f \in 1 .. NFILE
    BY <1>3, FreeOnes DEF n, f
  <2>2. NoFile \in FilesWith({NoFile.ref})
    BY NoFileFacts
  <2>3. e \in FilesWith({e.ref}) /\ e.type = "file"
    BY <2>2, Zenon DEF FilesWith, FileTypes
  <2> HIDE DEF e
  <2>4. e.type # "pipe"
    BY <2>3
  <2>5. u' = SetFd(Returns(s), s, n, f) /\ ftable' = Put(ftable, f, e)
    BY <1>1, <1>3
  <2>6. QED
    BY <1>1, <2>1, <2>3, <2>4, <2>5, OpenedStep, Zenon
<1>4. QED
  BY <1>2, <1>3

\* The two least of a set that has two.
LEMMA TwoOf ==
  ASSUME NEW S \in SUBSET Nat, ~\A x, y \in S : x = y
  PROVE  Min(S) \in S /\ Min(S \ {Min(S)}) \in S /\ Min(S \ {Min(S)}) # Min(S)
<1>1. S # {}
  OBVIOUS
<1>2. PICK m : m = Min(S) /\ m \in S
  BY <1>1, MinOfNats
<1>3. S \ {m} \in SUBSET Nat
  BY Zenon
<1>4. PICK x \in S, y \in S : x # y
  OBVIOUS
<1>5. S \ {m} # {}
  BY <1>4
<1>6. Min(S \ {m}) \in S \ {m}
  BY <1>3, <1>5, MinOfNats
<1>7. QED
  BY <1>2, <1>6

\* The files of a new pipe's two ends.
ReadEnd(i) == [ref |-> 1, type |-> "pipe", pipe |-> i, writable |-> FALSE]

WriteEnd(i) == [ref |-> 1, type |-> "pipe", pipe |-> i, writable |-> TRUE]

\* Two files become the ends of a pipe.
LEMMA NewEnds ==
  ASSUME NEW fs, FilesOK(fs), NEW ps, PipesOK(ps), NEW f0 \in 1 .. NFILE, NEW f1 \in 1 .. NFILE,
         NEW i \in 1 .. NPIPE
  PROVE  LET ps2 == Put(ps, i, pipealloc) IN
         /\ FilesOK(Put(Put(fs, f0, ReadEnd(i)), f1, WriteEnd(i)))
         /\ PipesOK(ps2) /\ \A j \in 1 .. NPIPE : j # i => ps2[j] = ps[j]
<1>1. FilesOK(Put(Put(fs, f0, ReadEnd(i)), f1, WriteEnd(i)))
  <2> DEFINE r == ReadEnd(i)
             w == WriteEnd(i)
             fs1 == Put(fs, f0, r)
  <2>1. r \in FilesWith({r.ref}) /\ r.pipe = i /\ w \in FilesWith({w.ref}) /\ w.pipe = i
    BY DEF ReadEnd, WriteEnd, FilesWith, FileTypes
  <2>2. i # 0
    OBVIOUS
  <2> HIDE DEF r, w
  <2>3. FilesOK(fs1)
    BY <2>1, <2>2, FileSet
  <2> HIDE DEF fs1
  <2>4. FilesOK(Put(fs1, f1, w))
    BY <2>1, <2>2, <2>3, FileSet
  <2>5. QED
    BY <2>4 DEF fs1, r, w
<1>2. PICK q : q = pipealloc
  BY Zenon
<1>3. q \in PipesWith({q.data}) /\ Held(q) <= PIPESIZE
  BY <1>2, EmptyPipes, PipeAssumption
<1>4. PipesOK(Put(ps, i, q)) /\ \A j \in 1 .. NPIPE : j # i => Put(ps, i, q)[j] = ps[j]
  BY <1>3, PipesSet
<1>5. QED
  BY <1>1, <1>2, <1>4, Zenon

\* pipe: two files, a pipe and two descriptors, or the process exits.
LEMMA PipeStep ==
  ASSUME IInv, NEW s \in Slots, sys_pipe(s)
  PROVE  IInv'
<1> DEFINE free == {f \in DOMAIN ftable : ftable[f].ref = 0}
           fds == {d \in Fds : u[s].fd[d] = 0}
           empty == {i \in DOMAIN pipes : pipes[i] = NoPipe}
           f0 == Min(free)
           f1 == Min(free \ {f0})
           d0 == Min(fds)
           d1 == Min(fds \ {d0})
           i0 == Min(empty)
           ends == <<d0, d1>>
           v == Returns(s)
           fails == (\A f, g \in free : f = g) \/ (\A d, e \in fds : d = e) \/ empty = {}
<1>1. /\ Does(s, "pipe") /\ UNCHANGED <<pt, nextpid, cpu>>
      /\ fails => u' = Continues(s, <<<<"exit">>>>) /\ UNCHANGED <<ftable, pipes>>
  BY Zenon DEF sys_pipe
<1>2. ~fails =>
        /\ ftable' = [ftable EXCEPT ![f0] = ReadEnd(i0), ![f1] = WriteEnd(i0)]
        /\ pipes' = [pipes EXCEPT ![i0] = pipealloc]
        /\ u' = [v EXCEPT ![s].fd = [@ EXCEPT ![d0] = f0, ![d1] = f1], ![s].p = ends]
  BY Zenon DEF sys_pipe, ReadEnd, WriteEnd
<1>3. CASE fails
  BY <1>1, <1>3, ContinueStep, FixedCode, Zenon
<1>4. CASE ~fails
  <2>1. f0 \in 1 .. NFILE /\ f1 \in 1 .. NFILE
    <3>1. DOMAIN ftable = 1 .. NFILE
      BY DEF IInv, FilesOK
    <3>2. free \in SUBSET Nat
      BY <3>1
    <3>3. f0 \in free /\ f1 \in free /\ f1 # f0
      <4> HIDE DEF free
      <4>1. QED
        BY <1>4, <3>2, TwoOf
    <3> HIDE DEF f0, f1
    <3>4. QED
      BY <3>1, <3>3
  <2>2. d0 \in Fds /\ d1 \in Fds /\ d0 # d1
    <3>1. fds \in SUBSET Nat
      BY DEF Fds
    <3>2. d0 \in fds /\ d1 \in fds /\ d1 # d0
      <4> HIDE DEF fds
      <4>1. QED
        BY <1>4, <3>1, TwoOf, Zenon
    <3> HIDE DEF d0, d1
    <3>3. QED
      BY <3>2
  <2>3. i0 \in 1 .. NPIPE /\ pipes[i0] = NoPipe
    <3>1. DOMAIN pipes = 1 .. NPIPE /\ empty \in SUBSET Nat
      BY DEF IInv, PipesOK
    <3>2. i0 \in empty
      <4> HIDE DEF empty
      <4>1. QED
        BY <1>4, <3>1, MinOfNats
    <3> HIDE DEF i0
    <3>3. QED
      BY <3>1, <3>2
  <2>4. /\ ftable' = [ftable EXCEPT ![f0] = ReadEnd(i0), ![f1] = WriteEnd(i0)]
        /\ pipes' = [pipes EXCEPT ![i0] = pipealloc]
        /\ u' = [v EXCEPT ![s].fd = [@ EXCEPT ![d0] = f0, ![d1] = f1], ![s].p = ends]
    BY <1>2, <1>4, Zenon
  <2> HIDE DEF f0, f1, d0, d1, i0, fails
  <2> DEFINE fs1 == Put(ftable, f0, ReadEnd(i0))
             w1 == SetFd(v, s, d0, f0)
             w2 == SetFd(w1, s, d1, f1)
             r == [w2[s] EXCEPT !.p = ends]
  <2>5. ftable' = Put(fs1, f1, WriteEnd(i0)) /\ pipes' = Put(pipes, i0, pipealloc)
    BY <2>4 DEF Put
  <2>6. /\ FilesOK(ftable') /\ PipesOK(pipes')
        /\ \A j \in 1 .. NPIPE : j # i0 => pipes'[j] = pipes[j]
    <3>1. FilesOK(ftable) /\ PipesOK(pipes)
      BY DEF IInv
    <3>2. QED
      BY <2>1, <2>3, <2>5, <3>1, NewEnds, Zenon
  <2>7. UsersOK(w1) /\ (\A q \in Slots : q # s => w1[q] = u[q]) /\ ~Forks(w1[s].code)
    <3>1. f0 \in 0 .. NFILE
      BY <2>1
    <3>2. LET w == SetFd(Returns(s), s, d0, f0) IN
          /\ UsersOK(w) /\ \A q \in Slots : q # s => w[q] = u[q]
          /\ ~Forks(w[s].code) /\ w[s].fd[d0] = f0
          /\ \A e \in Fds : e # d0 => w[s].fd[e] = u[s].fd[e]
      BY <1>1, <2>2, <3>1, ReturnSets, Zenon
    <3>3. QED
      BY <3>2, Zenon
  <2>8. UsersOK(w2) /\ (\A q \in Slots : q # s => w2[q] = w1[q]) /\ w2[s].code = w1[s].code
    <3>1. f1 \in 0 .. NFILE
      BY <2>1
    <3> HIDE DEF w1
    <3>2. QED
      BY <2>2, <2>7, <3>1, FdSet
  <2>9. u' = Put(w2, s, r)
    <3>1. PICK x : x = Tail(u[s].code) /\ CodeOK(x)
      BY <1>1, Calls, Zenon
    <3>2. UsersOK(u)
      BY DEF IInv
    <3>3. v = Own(u, s, x, FALSE)
      BY <3>1, <3>2, GoesOn, Zenon
    <3> HIDE DEF v
    <3>4. PICK b \in BOOLEAN : v = Own(u, s, x, b)
      BY <3>3, Zenon
    <3>5. UsersOK(v)
      BY <3>1, <3>2, <3>4, OwnFacts
    <3>6. PICK C : v \in [Slots -> UsersWith(C)]
      BY <3>5 DEF UsersOK
    <3> HIDE DEF ends
    <3>7. v[s] \in UsersWith(C) /\ v[s].fd \in [Fds -> 0 .. NFILE]
      BY <3>6, Zenon DEF UsersWith
    <3>8. QED
      BY <2>2, <2>4, <3>6, <3>7, Zenon DEF Put, SetFd, UsersWith
  <2> HIDE DEF w1, w2, v
  <2>10. r \in UsersWith({r.code}) /\ CodeOK(r.code) /\ r.code = w1[s].code
    <3>1. w2[s] \in UsersWith({w2[s].code}) /\ CodeOK(w2[s].code)
      BY <2>8, UserFacts
    <3>2. ends \in Fds \X Fds
      BY <2>2
    <3> HIDE DEF ends
    <3>3. r \in UsersWith({r.code}) /\ r.code = w2[s].code
      BY <3>1, <3>2, Zenon DEF UsersWith
    <3> HIDE DEF r
    <3>4. QED
      BY <2>8, <3>1, <3>3, Zenon
  <2> HIDE DEF r
  <2>11. UsersOK(u') /\ u'[s] = r /\ \A q \in Slots : q # s => u'[q] = w2[q]
    BY <2>8, <2>9, <2>10, UserSet
  <2>12. Asleep(pt', pipes')
    <3>1. Moves(pt, pt)
      BY DEF Moves
    <3>2. ~pipes[i0].readopen /\ ~pipes[i0].writeopen
      BY <2>3, EmptyPipes
    <3>3. ASSUME NEW q \in Slots, pt[q].state = "SLEEPING" PROVE PipeHolds(pipes', pt[q].chan)
      <4>1. Reason(pt, pipes, q)
        BY <3>3, Zenon DEF IInv, Asleep
      <4>2. QED
        BY <2>6, <3>2, <4>1, Zenon DEF Reason, PipeHolds
    <3>4. Asleep(pt, pipes')
      BY <3>1, <3>3, AsleepMoves, Zenon DEF IInv
    <3>5. QED
      BY <1>1, <3>4
  <2>13. UsersOK(u') /\ (\A q \in Slots : q # s => u'[q] = u[q]) /\ ~Forks(u'[s].code)
    BY <2>7, <2>8, <2>10, <2>11, Zenon
  <2>14. TableOK(pt') /\ Moves(pt, pt') /\ cpu' \in Slots /\ nextpid' = nextpid
    BY <1>1 DEF IInv, Moves
  <2>15. QED
    BY <2>6, <2>12, <2>13, <2>14, UserStep, Zenon
<1>5. QED
  BY <1>3, <1>4

\* The descriptor a process reads or writes a pipe with is the end of one.
LEMMA EndOf ==
  ASSUME IInv, NEW s \in Slots, NEW d \in {0, 1}, u[s].fd[d] # 0, ftable[u[s].fd[d]].type = "pipe"
  PROVE  ftable[u[s].fd[d]].pipe \in 1 .. NPIPE
<1>1. d \in Fds
  BY FilesAssumption DEF Fds
<1>2. u[s].fd \in [Fds -> 0 .. NFILE]
  BY UserFacts, Zenon DEF IInv, UsersWith
<1>3. PICK f \in 1 .. NFILE : f = u[s].fd[d]
  BY <1>1, <1>2
<1>4. ftable[f] \in FilesWith({ftable[f].ref}) /\ ftable[f].pipe # 0
  BY <1>3, FileFacts, Zenon DEF IInv
<1>5. ftable[f].pipe \in 0 .. NPIPE
  BY <1>4, Zenon DEF FilesWith
<1>6. ftable[f].pipe \in 1 .. NPIPE
  BY <1>4, <1>5, FilesAssumption
<1>7. QED
  BY <1>3, <1>6, Zenon

\* A channel is a pair.
LEMMA ChannelPair ==
  ASSUME NEW t, TableOK(t), NEW q \in Slots
  PROVE  t[q].chan = <<t[q].chan[1], t[q].chan[2]>>
<1>1. t[q].chan \in Chans
  BY DEF TableOK, Entries
<1>2. QED
  BY <1>1 DEF Chans

\* No pipe but i changes, and the ends of i stay as they are.
OnlyPipe(ps, ps2, i) ==
  \A j \in 1 .. NPIPE :
    /\ j # i => ps2[j] = ps[j]
    /\ ps2[j].readopen = ps[j].readopen
    /\ ps2[j].writeopen = ps[j].writeopen

\* Pipe i changes, and its ends stay as they are.
LEMMA PipeChanged ==
  ASSUME NEW ps, PipesOK(ps), NEW i \in 1 .. NPIPE, NEW q, q \in PipesWith({q.data}),
         Held(q) <= PIPESIZE, q.readopen = ps[i].readopen, q.writeopen = ps[i].writeopen
  PROVE  LET ps2 == Put(ps, i, q) IN
         PipesOK(ps2) /\ ps2[i] = q /\ OnlyPipe(ps, ps2, i)
<1> DEFINE ps2 == Put(ps, i, q)
<1>1. PipesOK(ps2) /\ ps2[i] = q /\ \A j \in 1 .. NPIPE : j # i => ps2[j] = ps[j]
  BY PipesSet
<1> HIDE DEF ps2
<1>2. \A j \in 1 .. NPIPE : ps2[j].readopen = ps[j].readopen /\ ps2[j].writeopen = ps[j].writeopen
  BY <1>1
<1>3. QED
  BY <1>1, <1>2, Zenon DEF ps2, OnlyPipe

\* Those who are still asleep when pipe i changed have their reasons: a reader of
\* the pipe is asleep only if it is still empty, a writer only if still full.
LEMMA ChangedHolds ==
  ASSUME NEW t, NEW ps, Asleep(t, ps), NEW i \in 1 .. NPIPE, NEW ps2, OnlyPipe(ps, ps2, i),
         NEW q \in Slots, t[q].state = "SLEEPING",
         t[q].chan[1] = "nread" /\ t[q].chan[2] = i /\ Held(ps[i]) = 0 => Held(ps2[i]) = 0,
         t[q].chan[1] = "nwrite" /\ t[q].chan[2] = i /\ Held(ps[i]) = PIPESIZE => Held(ps2[i]) = PIPESIZE
  PROVE  PipeHolds(ps2, t[q].chan)
<1>1. Reason(t, ps, q)
  BY DEF Asleep
<1>2. ASSUME t[q].chan[1] = "nread" PROVE Held(ps2[t[q].chan[2]]) = 0 /\ ps2[t[q].chan[2]].writeopen
  <2>1. PICK j : j = t[q].chan[2]
    BY Zenon
  <2>2. j \in 1 .. NPIPE /\ Held(ps[j]) = 0 /\ ps[j].writeopen
    BY <1>1, <1>2, <2>1, Zenon DEF Reason
  <2>3. Held(ps2[j]) = 0
    BY <1>2, <2>1, <2>2, Zenon DEF OnlyPipe
  <2>4. ps2[j].writeopen
    BY <2>2, Zenon DEF OnlyPipe
  <2>5. QED
    BY <2>1, <2>3, <2>4, Zenon
<1>3. ASSUME t[q].chan[1] = "nwrite"
      PROVE  Held(ps2[t[q].chan[2]]) = PIPESIZE /\ ps2[t[q].chan[2]].readopen
  <2>1. PICK j : j = t[q].chan[2]
    BY Zenon
  <2>2. j \in 1 .. NPIPE /\ Held(ps[j]) = PIPESIZE /\ ps[j].readopen
    BY <1>1, <1>3, <2>1, Zenon DEF Reason
  <2>3. Held(ps2[j]) = PIPESIZE
    BY <1>3, <2>1, <2>2, Zenon DEF OnlyPipe
  <2>4. ps2[j].readopen
    BY <2>2, Zenon DEF OnlyPipe
  <2>5. QED
    BY <2>1, <2>3, <2>4, Zenon
<1>4. QED
  BY <1>2, <1>3, Zenon DEF PipeHolds

\* pipewrite: all bytes are in and the readers are woken, or no reader is left,
\* or the pipe is full and the writer sleeps.
LEMMA PipewriteStep ==
  ASSUME IInv, NEW s \in Slots, pipewrite(s)
  PROVE  IInv'
<1> DEFINE i == ftable[u[s].fd[1]].pipe
           bytes == Arg(s)
           p == pipes[i]
           r == fill(p, bytes)
           nread == <<"nread", i>>
           nwrite == <<"nwrite", i>>
           woken == wakeup1(pt, nread)
<1>1. /\ Does(s, "write") /\ u[s].fd[1] # 0 /\ ftable[u[s].fd[1]].type = "pipe"
      /\ UNCHANGED <<nextpid, cpu, ftable>> /\ pipes' = Put(pipes, i, r.pipe)
  BY Zenon DEF pipewrite, Put
<1>2. /\ r.left = <<>> => u' = Returns(s) /\ pt' = woken
      /\ r.left # <<>> /\ (~r.pipe.readopen \/ pt[s].killed) => u' = Returns(s) /\ pt' = pt
      /\ r.left # <<>> /\ ~(~r.pipe.readopen \/ pt[s].killed) =>
           /\ u' = [Sleeps(s) EXCEPT ![s].code = <<<<"write", r.left>>>> \o Tail(@)]
           /\ pt' = sleep(woken, s, nwrite)
  BY Zenon DEF pipewrite
<1>3. i \in 1 .. NPIPE
  <2>1. PICK d \in {0, 1} : d = 1
    OBVIOUS
  <2>2. u[s].fd[d] # 0 /\ ftable[u[s].fd[d]].type = "pipe" /\ i = ftable[u[s].fd[d]].pipe
    BY <1>1, <2>1, Zenon
  <2> HIDE DEF i
  <2>3. QED
    BY <2>2, EndOf, Zenon
<1> HIDE DEF i
<1>4. /\ pt[s].state = "RUNNING" /\ u[s].code # <<>> /\ CodeOK(u[s].code)
      /\ CallOK(Head(u[s].code)) /\ Head(u[s].code)[1] = "write"
      /\ CodeOK(Tail(u[s].code)) /\ ~Forks(Tail(u[s].code))
  BY <1>1, Calls, Zenon
<1>5. IsList(bytes) /\ Len(bytes) <= PIPESIZE
  BY <1>4 DEF CallOK, Arg
<1> HIDE DEF bytes
<1>6. PICK D : p \in PipesWith(D) /\ Held(p) <= PIPESIZE
  BY <1>3 DEF IInv, PipesOK
<1> HIDE DEF p
<1>7. /\ r.pipe \in PipesWith({r.pipe.data})
      /\ r.pipe.readopen = p.readopen /\ r.pipe.writeopen = p.writeopen
      /\ Held(r.pipe) <= PIPESIZE
      /\ Held(p) = PIPESIZE => Held(r.pipe) = PIPESIZE
      /\ r.left # <<>> => Held(r.pipe) = PIPESIZE /\ Held(p) # 0
      /\ IsList(r.left) /\ Len(r.left) <= PIPESIZE
  BY <1>5, <1>6, FillFacts, Zenon
<1> HIDE DEF r
<1>8. PICK q : q = r.pipe /\ q.readopen = pipes[i].readopen /\ q.writeopen = pipes[i].writeopen
  BY <1>7, Zenon DEF p
<1>9. PipesOK(pipes') /\ pipes'[i] = q /\ OnlyPipe(pipes, pipes', i)
  <2>1. pipes' = Put(pipes, i, q) /\ PipesOK(pipes) /\ q \in PipesWith({q.data}) /\ Held(q) <= PIPESIZE
    BY <1>1, <1>7, <1>8, Zenon DEF IInv
  <2>2. QED
    BY <1>3, <1>8, <2>1, PipeChanged
<1>10. ASSUME NEW z \in Slots, pt[z].state = "SLEEPING", r.left = <<>> => pt[z].chan # nread
       PROVE  PipeHolds(pipes', pt[z].chan)
  <2>1. pt[z].chan = <<pt[z].chan[1], pt[z].chan[2]>>
    BY ChannelPair, Zenon DEF IInv
  <2>2. pt[z].chan[1] = "nread" /\ pt[z].chan[2] = i /\ Held(pipes[i]) = 0 => Held(pipes'[i]) = 0
    <3>1. pt[z].chan[1] = "nread" /\ pt[z].chan[2] = i => r.left # <<>>
      BY <1>10, <2>1, Zenon
    <3>2. QED
      BY <1>7, <3>1 DEF p
  <2>3. pt[z].chan[1] = "nwrite" /\ pt[z].chan[2] = i /\ Held(pipes[i]) = PIPESIZE
          => Held(pipes'[i]) = PIPESIZE
    BY <1>7, <1>8, <1>9 DEF p
  <2>4. Asleep(pt, pipes)
    BY DEF IInv
  <2>5. QED
    BY <1>3, <1>9, <1>10, <2>2, <2>3, <2>4, ChangedHolds, Zenon
<1>11. /\ TableOK(woken) /\ Moves(pt, woken) /\ woken[s] = pt[s]
       /\ \A z \in Slots : woken[z].state = "SLEEPING" => woken[z] = pt[z] /\ pt[z].chan # nread
  <2>1. TableOK(pt) /\ pt[s].state # "SLEEPING"
    BY <1>4, Zenon DEF IInv
  <2> HIDE DEF nread
  <2>2. QED
    BY <2>1, WakeupFacts
<1>12. Returns(s) = Own(u, s, Tail(u[s].code), FALSE) /\ Sleeps(s) = Own(u, s, u[s].code, TRUE)
  BY GoesOn, Zenon DEF IInv
<1>13. nextpid' = nextpid /\ cpu' \in Slots /\ ftable' = ftable
  BY <1>1, Zenon DEF IInv
<1> HIDE DEF woken, nread
<1>14. CASE r.left = <<>>
  <2>1. pt' = woken /\ u' = Own(u, s, Tail(u[s].code), FALSE)
    BY <1>2, <1>12, <1>14
  <2>2. ASSUME NEW z \in Slots, pt'[z].state = "SLEEPING"
        PROVE  /\ pt[z].state = "SLEEPING" /\ pt'[z].chan = pt[z].chan /\ pt'[z].killed = pt[z].killed
               /\ PipeHolds(pipes', pt[z].chan)
    BY <1>10, <1>11, <2>1, <2>2, Zenon
  <2>3. TableOK(pt') /\ Moves(pt, pt')
    BY <1>11, <2>1
  <2>4. Asleep(pt', pipes')
    BY <2>2, <2>3, AsleepMoves, Zenon DEF IInv
  <2>5. QED
    BY <1>4, <1>9, <1>13, <2>1, <2>3, <2>4, MoveStep, Zenon
<1>15. CASE r.left # <<>> /\ (~r.pipe.readopen \/ pt[s].killed)
  <2>1. pt' = pt /\ u' = Own(u, s, Tail(u[s].code), FALSE)
    BY <1>2, <1>12, <1>15, Zenon
  <2>2. ASSUME NEW z \in Slots, pt'[z].state = "SLEEPING"
        PROVE  /\ pt[z].state = "SLEEPING" /\ pt'[z].chan = pt[z].chan /\ pt'[z].killed = pt[z].killed
               /\ PipeHolds(pipes', pt[z].chan)
    BY <1>10, <1>15, <2>1, <2>2, Zenon
  <2>3. TableOK(pt') /\ Moves(pt, pt')
    BY <2>1 DEF IInv, Moves
  <2>4. Asleep(pt', pipes')
    BY <2>2, <2>3, AsleepMoves, Zenon DEF IInv
  <2>5. QED
    BY <1>4, <1>9, <1>13, <2>1, <2>3, <2>4, MoveStep, Zenon
<1>16. CASE r.left # <<>> /\ ~(~r.pipe.readopen \/ pt[s].killed)
  <2> DEFINE x == <<"write", r.left>>
             code == <<x>> \o Tail(u[s].code)
  <2>1. pt' = sleep(woken, s, nwrite) /\ u' = [Sleeps(s) EXCEPT ![s].code = <<x>> \o Tail(@)]
    BY <1>2, <1>16, Zenon
  <2>2. CallOK(x) /\ x[1] # "forked"
    <3>1. x[1] = "write" /\ x[2] = r.left
      OBVIOUS
    <3> HIDE DEF x
    <3>2. QED
      BY <1>7, <3>1 DEF CallOK
  <2> HIDE DEF x
  <2>3. CodeOK(code) /\ ~Forks(code)
    <3>1. CodeOK(code) /\ code[1] = x
      BY <1>4, <2>2, CodeCons
    <3> HIDE DEF code
    <3>2. QED
      BY <2>2, <3>1 DEF Forks
  <2>4. u' = Own(u, s, code, TRUE)
    <3>1. PICK C : u \in [Slots -> UsersWith(C)]
      BY DEF IInv, UsersOK
    <3>2. QED
      BY <2>1, <3>1, Zenon DEF Sleeps, Own, UsersWith
  <2> HIDE DEF code
  <2>5. nwrite \in Chans /\ nwrite[1] = "nwrite" /\ nwrite[2] = i
    BY <1>3 DEF Chans
  <2> HIDE DEF nwrite
  <2>6. /\ TableOK(pt') /\ Moves(woken, pt') /\ pt'[s].chan = nwrite /\ pt'[s].killed = pt[s].killed
        /\ \A z \in Slots : z # s => pt'[z] = woken[z]
    <3>1. woken[s].state = "RUNNING" /\ woken[s].killed = pt[s].killed /\ TableOK(woken)
      BY <1>4, <1>11
    <3>2. QED
      BY <2>1, <2>5, <3>1, SleepFacts
  <2>7. Moves(pt, pt')
    BY <1>11, <2>6 DEF Moves
  <2>8. Reason(pt', pipes', s)
    <3>1. Held(pipes'[i]) = PIPESIZE /\ pipes'[i].readopen /\ ~pt'[s].killed
      BY <1>7, <1>8, <1>9, <1>16, <2>6
    <3>2. "nwrite" # "nread" /\ "nwrite" # "proc"
      OBVIOUS
    <3>3. pt'[s].chan[1] = "nwrite" /\ pt'[s].chan[2] = i
      BY <2>5, <2>6
    <3>4. QED
      BY <1>3, <3>1, <3>2, <3>3, Zenon DEF Reason
  <2>9. ASSUME NEW z \in Slots, pt'[z].state = "SLEEPING"
        PROVE  \/ /\ pt[z].state = "SLEEPING" /\ pt'[z].chan = pt[z].chan
                  /\ pt'[z].killed = pt[z].killed /\ PipeHolds(pipes', pt[z].chan)
               \/ Reason(pt', pipes', z)
    <3>1. CASE z = s
      BY <2>8, <3>1
    <3>2. CASE z # s
      BY <1>10, <1>11, <2>6, <2>9, <3>2, Zenon
    <3>3. QED
      BY <3>1, <3>2, Zenon
  <2>10. Asleep(pt', pipes')
    BY <2>7, <2>9, AsleepMoves, Zenon DEF IInv
  <2>11. QED
    BY <1>9, <1>13, <2>3, <2>4, <2>6, <2>7, <2>10, MoveStep, Zenon
<1>17. QED
  BY <1>14, <1>15, <1>16

\* What cat does next is a program.
LEMMA CatCode ==
  ASSUME NEW bytes, IsList(bytes), Len(bytes) <= PIPESIZE
  PROVE  CodeOK(CatNext(bytes)) /\ ~Forks(CatNext(bytes))
<1> DEFINE x == <<"write", bytes>>
           y == <<"read">>
<1>1. x[1] = "write" /\ x[2] = bytes
  OBVIOUS
<1>2. CallOK(y) /\ y[1] # "forked"
  BY OtherCalls
<1>3. CatNext(bytes) = IF bytes = <<>> THEN <<<<"exit">>>> ELSE <<x, y>>
  BY DEF CatNext
<1> HIDE DEF x, y
<1>4. CallOK(x) /\ x[1] # "forked"
  BY <1>1 DEF CallOK
<1>5. CodeOK(<<x, y>>) /\ ~Forks(<<x, y>>)
  BY <1>2, <1>4, ShortCode, Zenon
<1>6. QED
  BY <1>3, <1>5, FixedCode, Zenon

\* piperead: the reader sleeps on an empty pipe with a writer, or takes what is
\* there and wakes the writers.
LEMMA PipereadStep ==
  ASSUME IInv, NEW s \in Slots, piperead(s)
  PROVE  IInv'
<1> DEFINE i == ftable[u[s].fd[0]].pipe
           p == pipes[i]
           r == take(p, READ)
           nread == <<"nread", i>>
           nwrite == <<"nwrite", i>>
           waits == Empty(p) /\ p.writeopen
<1>1. /\ Does(s, "read") /\ u[s].fd[0] # 0 /\ ftable[u[s].fd[0]].type = "pipe"
      /\ UNCHANGED <<nextpid, cpu, ftable>>
  BY Zenon DEF piperead
<1>2. /\ waits => pipes' = pipes
      /\ waits /\ pt[s].killed => u' = Continues(s, <<<<"exit">>>>) /\ pt' = pt
      /\ waits /\ ~pt[s].killed => u' = Sleeps(s) /\ pt' = sleep(pt, s, nread)
      /\ ~waits => /\ pipes' = Put(pipes, i, r.pipe) /\ u' = Continues(s, CatNext(r.bytes))
                   /\ pt' = wakeup1(pt, nwrite)
  BY Zenon DEF piperead, Put
<1>3. i \in 1 .. NPIPE
  <2>1. PICK d \in {0, 1} : d = 0
    OBVIOUS
  <2>2. u[s].fd[d] # 0 /\ ftable[u[s].fd[d]].type = "pipe" /\ i = ftable[u[s].fd[d]].pipe
    BY <1>1, <2>1, Zenon
  <2> HIDE DEF i
  <2>3. QED
    BY <2>2, EndOf, Zenon
<1> HIDE DEF i
<1>4. pt[s].state = "RUNNING" /\ CodeOK(u[s].code)
  BY <1>1, Calls, Zenon
<1>5. PICK D : p \in PipesWith(D) /\ Held(p) <= PIPESIZE
  BY <1>3 DEF IInv, PipesOK
<1>6. Held(p) = 0 <=> Empty(p)
  BY <1>5, HeldIs
<1>7. nextpid' = nextpid /\ cpu' \in Slots /\ ftable' = ftable
  BY <1>1, Zenon DEF IInv
<1>8. CASE waits /\ pt[s].killed
  <2>1. UNCHANGED <<pt, nextpid, cpu, ftable, pipes>> /\ u' = Continues(s, <<<<"exit">>>>)
    BY <1>1, <1>2, <1>8, Zenon
  <2>2. QED
    BY <2>1, ContinueStep, FixedCode
<1>9. CASE waits /\ ~pt[s].killed
  <2>1. pipes' = pipes /\ pt' = sleep(pt, s, nread) /\ u' = Own(u, s, u[s].code, TRUE)
    BY <1>2, <1>9, GoesOn, Zenon DEF IInv
  <2>2. nread \in Chans /\ nread[1] = "nread" /\ nread[2] = i
    BY <1>3 DEF Chans
  <2> HIDE DEF nread
  <2>3. /\ TableOK(pt') /\ Moves(pt, pt') /\ pt'[s].chan = nread /\ pt'[s].killed = pt[s].killed
        /\ \A z \in Slots : z # s => pt'[z] = pt[z]
    <3>1. TableOK(pt) /\ pt[s].state = "RUNNING"
      BY <1>4, Zenon DEF IInv
    <3>2. LET t2 == sleep(pt, s, nread) IN
          /\ TableOK(t2) /\ Moves(pt, t2)
          /\ t2[s].chan = nread /\ t2[s].killed = pt[s].killed
          /\ \A q \in Slots : q # s => t2[q] = pt[q]
      BY <2>2, <3>1, SleepFacts, Zenon
    <3>3. QED
      BY <2>1, <3>2, Zenon
  <2>4. Reason(pt', pipes, s)
    <3>1. Held(pipes[i]) = 0 /\ pipes[i].writeopen /\ ~pt'[s].killed
      BY <1>6, <1>9, <2>3, Zenon
    <3>2. "nread" # "nwrite" /\ "nread" # "proc"
      OBVIOUS
    <3>3. pt'[s].chan[1] = "nread" /\ pt'[s].chan[2] = i
      BY <2>2, <2>3
    <3>4. QED
      BY <1>3, <3>1, <3>2, <3>3, Zenon DEF Reason
  <2>5. ASSUME NEW z \in Slots, pt'[z].state = "SLEEPING"
        PROVE  \/ /\ pt[z].state = "SLEEPING" /\ pt'[z].chan = pt[z].chan
                  /\ pt'[z].killed = pt[z].killed /\ PipeHolds(pipes, pt[z].chan)
               \/ Reason(pt', pipes, z)
    <3>1. CASE z = s
      BY <2>4, <3>1
    <3>2. CASE z # s
      BY <2>3, <2>5, <3>2, AsleepHolds, Zenon DEF IInv
    <3>3. QED
      BY <3>1, <3>2, Zenon
  <2>6. Asleep(pt', pipes)
    BY <2>3, <2>5, AsleepMoves, Zenon DEF IInv
  <2>7. Asleep(pt', pipes') /\ PipesOK(pipes')
    BY <2>1, <2>6 DEF IInv
  <2>8. QED
    BY <1>4, <1>7, <2>1, <2>3, <2>7, MoveStep, Zenon
<1>10. CASE ~waits
  <2>1. /\ r.pipe \in PipesWith({r.pipe.data})
        /\ r.pipe.readopen = p.readopen /\ r.pipe.writeopen = p.writeopen
        /\ Held(r.pipe) <= PIPESIZE
        /\ IsList(r.bytes) /\ Len(r.bytes) <= PIPESIZE
    <3>1. READ \in Nat
      BY FilesAssumption
    <3> HIDE DEF p
    <3>2. QED
      BY <1>5, <3>1, TakeFacts
  <2> HIDE DEF r
  <2>2. PICK q : q = r.pipe
    BY Zenon
  <2>3. /\ pipes' = Put(pipes, i, q) /\ PipesOK(pipes) /\ q \in PipesWith({q.data}) /\ Held(q) <= PIPESIZE
        /\ q.readopen = pipes[i].readopen /\ q.writeopen = pipes[i].writeopen
    BY <1>2, <1>10, <2>1, <2>2, Zenon DEF IInv
  <2>4. PipesOK(pipes') /\ pipes'[i] = q /\ OnlyPipe(pipes, pipes', i)
    BY <1>3, <2>3, PipeChanged
  <2>5. PICK code : code = CatNext(r.bytes) /\ CodeOK(code) /\ ~Forks(code)
    BY <2>1, CatCode
  <2>6. u' = Own(u, s, code, FALSE)
    BY <1>2, <1>10, <2>5, GoesOn, Zenon DEF IInv
  <2>7. pt' = wakeup1(pt, nwrite)
    BY <1>2, <1>10
  <2>8. /\ TableOK(pt') /\ Moves(pt, pt')
        /\ \A z \in Slots : pt'[z].state = "SLEEPING" => pt'[z] = pt[z] /\ pt[z].chan # nwrite
    <3> HIDE DEF nwrite
    <3>1. QED
      <4>1. TableOK(pt)
        BY Zenon DEF IInv
      <4>2. LET t2 == wakeup1(pt, nwrite) IN
            /\ TableOK(t2) /\ Moves(pt, t2)
            /\ \A z \in Slots : /\ t2[z].state = "SLEEPING" => t2[z] = pt[z] /\ pt[z].chan # nwrite
                                /\ pt[z].state # "SLEEPING" => t2[z] = pt[z]
                                /\ t2[z].killed = pt[z].killed
        BY <4>1, WakeupFacts
      <4>3. QED
        BY <2>7, <4>2, Zenon
  <2>9. ASSUME NEW z \in Slots, pt'[z].state = "SLEEPING"
        PROVE  /\ pt[z].state = "SLEEPING" /\ pt'[z].chan = pt[z].chan /\ pt'[z].killed = pt[z].killed
               /\ PipeHolds(pipes', pt[z].chan)
    <3>1. pt[z].state = "SLEEPING" /\ pt'[z] = pt[z] /\ pt[z].chan # nwrite
      BY <2>8, <2>9
    <3>2. pt[z].chan = <<pt[z].chan[1], pt[z].chan[2]>>
      BY ChannelPair, Zenon DEF IInv
    <3>3. ~(pt[z].chan[1] = "nwrite" /\ pt[z].chan[2] = i)
      BY <3>1, <3>2, Zenon
    <3>4. ~(pt[z].chan[1] = "nread" /\ pt[z].chan[2] = i)
      <4>1. SUFFICES ASSUME pt[z].chan[1] = "nread", pt[z].chan[2] = i PROVE FALSE
        OBVIOUS
      <4>2. Reason(pt, pipes, z)
        BY <3>1, Zenon DEF IInv, Asleep
      <4>3. Held(p) = 0 /\ p.writeopen
        BY <4>1, <4>2, Zenon DEF Reason
      <4>4. QED
        BY <1>6, <1>10, <4>3
    <3>5. Asleep(pt, pipes)
      BY DEF IInv
    <3>6. PipeHolds(pipes', pt[z].chan)
      BY <1>3, <2>4, <3>1, <3>3, <3>4, <3>5, ChangedHolds, Zenon
    <3>7. QED
      BY <3>1, <3>6, Zenon
  <2>10. Asleep(pt', pipes')
    BY <2>8, <2>9, AsleepMoves, Zenon DEF IInv
  <2>11. QED
    BY <1>7, <2>4, <2>5, <2>6, <2>8, <2>10, MoveStep, Zenon
<1>11. QED
  BY <1>8, <1>9, <1>10

----------------------------------------------------------------------------
\* Every step of the machine keeps the invariant.
LEMMA StepHolds ==
  IInv /\ [Next]_vars => IInv'
<1> SUFFICES ASSUME IInv, [Next]_vars PROVE IInv'
  OBVIOUS
<1>1. CASE UNCHANGED vars
  BY <1>1 DEF vars, IInv
<1>2. CASE idle
  BY <1>2, Zenon DEF idle, vars, IInv
<1>3. CASE schedule \/ tick
  BY <1>3, TableSteps
<1>4. ASSUME NEW s \in Slots, Step(s) PROVE IInv'
  <2>1. CASE trapKilled(s) \/ sys_exec(s) \/ run(s) \/ parse(s) \/ write(s) \/ readEnd(s)
    BY <2>1, CodeSteps
  <2>2. CASE sys_fork(s)
    BY <2>2, ForkStep
  <2>3. CASE forked(s)
    BY <2>3, ForkedStep
  <2>4. CASE sys_wait(s)
    BY <2>4, WaitStep
  <2>5. CASE sys_exit(s)
    BY <2>5, ExitStep
  <2>6. CASE sys_pipe(s)
    BY <2>6, PipeStep
  <2>7. CASE sys_close(s)
    BY <2>7, CloseStep
  <2>8. CASE sys_dup(s)
    BY <2>8, DupStep
  <2>9. CASE sys_open(s)
    BY <2>9, OpenStep
  <2>10. CASE pipewrite(s)
    BY <2>10, PipewriteStep
  <2>11. CASE piperead(s)
    BY <2>11, PipereadStep
  <2>12. CASE getcmd(s)
    BY <2>12, PromptSteps
  <2>13. QED
    BY <1>4, <2>1, <2>2, <2>3, <2>4, <2>5, <2>6, <2>7, <2>8, <2>9, <2>10, <2>11, <2>12 DEF Step
<1>5. ASSUME NEW s \in Slots, Input(s) PROVE IInv'
  <2>1. CASE \E line \in Lines : typed(s, line)
    BY <2>1, PromptSteps
  <2>2. CASE iconOnLeftDoubleClick(s)
    BY <2>2, CodeSteps
  <2>3. CASE sys_kill(s)
    BY <2>3, TableSteps
  <2>4. QED
    BY <1>5, <2>1, <2>2, <2>3 DEF Input
<1>6. QED
  BY <1>1, <1>2, <1>3, <1>4, <1>5 DEF Next

\* The process table, the processes, their files and their pipes fit together
\* after every step.
THEOREM Invariant ==
  Spec => []IInv
<1>1. QED
  BY InitHolds, StepHolds, PTL DEF Spec

\* Nobody sleeps for ever because a wakeup was lost: whoever sleeps in wait has
\* children and no zombie, in piperead an empty pipe with a writer, in pipewrite
\* a full pipe with a reader, and nobody sleeps who was killed.
THEOREM NoWakeupIsLost ==
  Spec => []SleepsForReason
<1>1. IInv => SleepsForReason
  <2> SUFFICES ASSUME IInv, NEW s \in Slots, pt[s].state = "SLEEPING"
               PROVE  /\ ~pt[s].killed
                      /\ LET c == pt[s].chan IN
                         CASE c[1] = "proc" -> Children(pt, s) # {} /\ Zombies(pt, s) = {}
                           [] c[1] = "nread" -> Held(pipes[c[2]]) = 0 /\ pipes[c[2]].writeopen
                           [] c[1] = "nwrite" -> Held(pipes[c[2]]) = PIPESIZE /\ pipes[c[2]].readopen
                           [] OTHER -> TRUE
    BY DEF SleepsForReason
  <2>1. Reason(pt, pipes, s)
    BY Zenon DEF IInv, Asleep
  <2>2. QED
    BY <2>1 DEF Reason
<1>2. QED
  BY <1>1, Invariant, PTL
============================================================================
