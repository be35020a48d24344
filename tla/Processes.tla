----------------------------- MODULE Processes ------------------------------
(***************************************************************************)
(* Processes at work: init (init.c), the desktop that starts programs, and *)
(* a shell with its pipelines, over the process table (Proc), pipes (Pipe) *)
(* and the table of open files (file.c).                                   *)
(*                                                                         *)
(* One CPU.  A step is a section of a system call that nothing interrupts; *)
(* between two steps the timer may preempt the process.  u[s] is the       *)
(* process in slot s: prog, the program it runs; code, the calls it makes  *)
(* next; fd, its descriptors; p, the ends of its pipe; pid, what init      *)
(* waits for; in, TRUE if it slept in its current call.                    *)
(***************************************************************************)
EXTENDS Proc, Pipe, ShellCmd

CONSTANTS
  NFILE, NOFILE, NPIPE,
  BYTES,         \* bytes echo writes
  READ,          \* bytes cat reads at a time
  Lines,         \* lines that may be typed, as tokens
  ParserTokens, MaxTokens,   \* the lines the parser is tried on
  MaxLines, MaxStarts, MaxKills   \* bounds

ASSUME FilesAssumption ==
  /\ {NFILE, NPIPE} \subseteq Nat \ {0} /\ NOFILE \in Nat \ {0, 1}
  /\ {BYTES, READ} \subseteq Nat \ {0}

VARIABLES
  pt, nextpid,   \* ptable
  cpu,           \* the slot that runs, or ran last
  u,
  ftable, pipes,
  out,           \* what the console was given
  lines, starts, kills,
  fresh,         \* the running process has not made a step yet
  panic

vars == <<pt, nextpid, cpu, u, ftable, pipes, out, lines, starts, kills, fresh, panic>>

Fds == 0 .. NOFILE - 1

NoUser == [prog |-> "", code |-> <<>>, fd |-> [d \in Fds |-> 0], p |-> <<0, 0>>, pid |-> 0,
           in |-> FALSE]

NoFile == [ref |-> 0, type |-> "none", pipe |-> 0, writable |-> FALSE]

\* What a program does when it starts: echo writes byte after byte; sh and the
\* desktop wait for input.
Main(prog) ==
  CASE prog = "echo" -> [k \in 1 .. BYTES |-> <<"write", <<k>>>>] \o <<<<"exit">>>>
    [] prog = "cat" -> <<<<"read">>>>
    [] prog \in {"sh", "desktop"} -> <<>>

Programs == {"echo", "cat", "sh", "desktop"}

\* Variant: init starts the shell, as it does without the GUI.
initLoopShell == <<<<"fork", <<<<"exec", "sh">>, <<"exit">>>>>>, <<"waitfor">>>>

\* One turn of init's loop.
initLoop == <<<<"fork", <<<<"exec", "desktop">>, <<"exit">>>>>>, <<"waitfor">>>>

\* init has opened the console and is about to start the desktop.
Init ==
  /\ pt = [s \in Slots |-> IF s = initproc THEN [Unused EXCEPT !.state = "RUNNING", !.pid = 1]
                           ELSE Unused]
  /\ nextpid = 2
  /\ cpu = initproc
  /\ u = [s \in Slots |-> IF s = initproc
                          THEN [NoUser EXCEPT !.prog = "init", !.code = initLoop, !.fd[0] = 1,
                                              !.fd[1] = 1]
                          ELSE NoUser]
  /\ ftable = [f \in 1 .. NFILE |-> IF f = 1 THEN [NoFile EXCEPT !.ref = 2, !.type = "console"]
                                    ELSE NoFile]
  /\ pipes = [i \in 1 .. NPIPE |-> NoPipe]
  /\ out = <<>>
  /\ lines = 0 /\ starts = 0 /\ kills = 0
  /\ fresh = TRUE
  /\ panic = ""

----------------------------------------------------------------------------
\* The scheduler switches to the next process that can run.
schedule ==
  /\ panic = "" /\ pt[cpu].state # "RUNNING" /\ NextRunnable(pt, cpu) # 0
  /\ pt' = scheduler(pt, cpu)
  /\ cpu' = NextRunnable(pt, cpu)
  /\ fresh' = TRUE
  /\ UNCHANGED <<nextpid, u, ftable, pipes, out, lines, starts, kills, panic>>

Polls(s) == u[s].prog = "desktop" /\ u[s].code = <<>>

\* A clock tick: the running process gives up the CPU.  A tick is long against a
\* step, so the process has made one.
tick ==
  /\ panic = "" /\ pt[cpu].state = "RUNNING" /\ NextRunnable(pt, cpu) # 0
  /\ ~fresh \/ Polls(cpu)
  /\ pt' = yield(pt, cpu)
  /\ UNCHANGED <<nextpid, cpu, u, ftable, pipes, out, lines, starts, kills, fresh, panic>>

Runs(s) == panic = "" /\ cpu = s /\ pt[s].state = "RUNNING"

\* s is about to make the call op.  A killed process only goes on with a call
\* that it slept in.
Does(s, op) ==
  /\ Runs(s) /\ u[s].code # <<>> /\ Head(u[s].code)[1] = op
  /\ ~pt[s].killed \/ u[s].in \/ op = "exit"

Arg(s) == Head(u[s].code)[2]

\* The call is over; the next one.
Returns(s) == [u EXCEPT ![s] = [u[s] EXCEPT !.code = Tail(@), !.in = FALSE]]

Continues(s, code) == [u EXCEPT ![s] = [@ EXCEPT !.code = code, !.in = FALSE]]

Sleeps(s) == [u EXCEPT ![s].in = TRUE]

\* trap finds the process killed, on the way into a call or out of one.
trapKilled(s) ==
  /\ Runs(s) /\ pt[s].killed /\ ~u[s].in
  /\ u[s].code # <<>> => Head(u[s].code)[1] # "exit"
  /\ u' = Continues(s, <<<<"exit">>>>)
  /\ UNCHANGED <<pt, nextpid, cpu, ftable, pipes, out, lines, starts, kills, panic>>

----------------------------------------------------------------------------
\* fork takes a slot.  Without one, sh's fork1 exits, and so does init; the
\* desktop goes on.
sys_fork(s) ==
  /\ Does(s, "fork")
  /\ IF FreeSlot(pt) = 0
     THEN /\ u' = IF u[s].prog = "desktop" THEN Returns(s) ELSE Continues(s, <<<<"exit">>>>)
          /\ UNCHANGED <<pt, nextpid>>
     ELSE /\ pt' = allocproc(pt, nextpid)
          /\ nextpid' = nextpid + 1
          /\ u' = [u EXCEPT ![s].code = <<<<"forked", Arg(s), FreeSlot(pt)>>>> \o Tail(@),
                            ![s].in = TRUE]
  /\ UNCHANGED <<cpu, ftable, pipes, out, lines, starts, kills, panic>>

\* Variant: a file is counted once, however many descriptors name it.
RefsOnce(fds, f) == IF \E d \in Fds : fds[d] = f THEN 1 ELSE 0

\* The descriptors of a process that name file f.
Refs(fds, f) == Cardinality({d \in Fds : fds[d] = f})

\* The rest of fork: the child has the parent's files, and may run.
forked(s) ==
  /\ Does(s, "forked")
  /\ LET child == Head(u[s].code)[3] IN
     /\ pt' = forkEnd(pt, child, s)
     /\ u' = [Returns(s) EXCEPT ![child] = [u[s] EXCEPT !.code = Arg(s), !.in = FALSE, !.pid = 0],
                                ![s].pid = IF s = initproc THEN pt[child].pid ELSE 0]
     /\ ftable' = [f \in DOMAIN ftable |-> [ftable[f] EXCEPT !.ref = @ + Refs(u[s].fd, f)]]
  /\ UNCHANGED <<nextpid, cpu, pipes, out, lines, starts, kills, panic>>

\* exec replaces the program, or fails and returns.
sys_exec(s) ==
  /\ Does(s, "exec")
  /\ u' = IF Arg(s) \in Programs
          THEN [u EXCEPT ![s] = [@ EXCEPT !.prog = Arg(s), !.code = Main(Arg(s)), !.p = <<0, 0>>]]
          ELSE Returns(s)
  /\ UNCHANGED <<pt, nextpid, cpu, ftable, pipes, out, lines, starts, kills, panic>>

\* runcmd in the shell's child, and the parsing before it.
run(s) ==
  /\ Does(s, "run")
  /\ u' = Continues(s, runcmd(Arg(s)))
  /\ UNCHANGED <<pt, nextpid, cpu, ftable, pipes, out, lines, starts, kills, panic>>

\* The trees of the lines.
Parsed == [line \in Lines |-> parsecmd(line)]

parse(s) ==
  /\ Does(s, "parse")
  /\ LET r == Parsed[Arg(s)]
     IN  u' = Continues(s, IF r.ok THEN runcmd(r.cmd) ELSE <<<<"exit">>>>)
  /\ UNCHANGED <<pt, nextpid, cpu, ftable, pipes, out, lines, starts, kills, panic>>

----------------------------------------------------------------------------
\* wait: a zombie child is freed, or there is nothing to wait for, or sleep.
sys_wait(s) ==
  /\ Does(s, "wait") \/ Does(s, "waitfor")
  /\ LET zombies == Zombies(pt, s)
         c == Min(zombies)
         again == Head(u[s].code)[1] = "waitfor"
         gone == IF zombies = {} THEN TRUE ELSE pt[c].pid = u[s].pid
         next == IF ~again THEN Returns(s)
                 ELSE IF gone THEN Continues(s, initLoop) ELSE Continues(s, u[s].code)
     IN  IF zombies # {} THEN pt' = reap(pt, c) /\ u' = [next EXCEPT ![c] = NoUser]
         ELSE IF Children(pt, s) = {} \/ pt[s].killed THEN pt' = pt /\ u' = next
         ELSE pt' = sleep(pt, s, <<"proc", s>>) /\ u' = Sleeps(s)
  /\ UNCHANGED <<nextpid, cpu, ftable, pipes, out, lines, starts, kills, panic>>

\* fileclose of file f: the tables, the pipe and the process table after it.
close(f) ==
  LET last == ftable[f].ref = 1
      pipe == ftable[f].pipe
      chan == <<IF ftable[f].writable THEN "nread" ELSE "nwrite", pipe>>
  IN  /\ ftable' = [ftable EXCEPT ![f] = IF last THEN NoFile ELSE [ftable[f] EXCEPT !.ref = @ - 1]]
      /\ IF last /\ ftable[f].type = "pipe"
         THEN /\ pipes' = [pipes EXCEPT ![pipe] = pipeclose(@, ftable[f].writable)]
              /\ pt' = wakeup1(pt, chan)
         ELSE UNCHANGED <<pipes, pt>>

\* exit closes the files one by one and leaves a zombie.
sys_exit(s) ==
  /\ Does(s, "exit")
  /\ LET open == {d \in Fds : u[s].fd[d] # 0} IN
     IF s = initproc THEN panic' = "init exiting" /\ UNCHANGED <<pt, u, ftable, pipes>>
     ELSE IF open # {}
     THEN close(u[s].fd[Min(open)]) /\ u' = [u EXCEPT ![s].fd[Min(open)] = 0] /\ panic' = panic
     ELSE pt' = exit(pt, s) /\ u' = [u EXCEPT ![s] = NoUser] /\ UNCHANGED <<ftable, pipes, panic>>
  /\ UNCHANGED <<nextpid, cpu, out, lines, starts, kills>>

----------------------------------------------------------------------------
FreeFile == LET free == {f \in DOMAIN ftable : ftable[f].ref = 0}
            IN  IF free = {} THEN 0 ELSE Min(free)

FreeFd(s) == LET free == {d \in Fds : u[s].fd[d] = 0} IN IF free = {} THEN NOFILE ELSE Min(free)

\* pipe: two files, a pipe and two descriptors, or sh's panic("pipe").
sys_pipe(s) ==
  /\ Does(s, "pipe")
  /\ LET free == {f \in DOMAIN ftable : ftable[f].ref = 0}
         fds == {d \in Fds : u[s].fd[d] = 0}
         idle == {i \in DOMAIN pipes : pipes[i] = NoPipe}
         f0 == Min(free)
         f1 == Min(free \ {f0})
         d0 == Min(fds)
         d1 == Min(fds \ {d0})
         i == Min(idle)
         end == [ref |-> 1, type |-> "pipe", pipe |-> i, writable |-> FALSE]
     IN  IF (\A f, g \in free : f = g) \/ (\A d, e \in fds : d = e) \/ idle = {}
         THEN u' = Continues(s, <<<<"exit">>>>) /\ UNCHANGED <<ftable, pipes>>
         ELSE /\ ftable' = [ftable EXCEPT ![f0] = end, ![f1] = [end EXCEPT !.writable = TRUE]]
              /\ pipes' = [pipes EXCEPT ![i] = pipealloc]
              /\ u' = [Returns(s) EXCEPT ![s].fd = [@ EXCEPT ![d0] = f0, ![d1] = f1],
                                         ![s].p = <<d0, d1>>]
  /\ UNCHANGED <<pt, nextpid, cpu, out, lines, starts, kills, panic>>

\* The file of descriptor d, 0 if there is none.
argfd(s, d) == IF d \in Fds THEN u[s].fd[d] ELSE 0

\* close(d), or close of an end of the pipe.
sys_close(s) ==
  /\ Does(s, "close") \/ Does(s, "closep")
  /\ LET d == IF Head(u[s].code)[1] = "close" THEN Arg(s) ELSE u[s].p[Arg(s) + 1] IN
     IF argfd(s, d) = 0 THEN u' = Returns(s) /\ UNCHANGED <<pt, ftable, pipes>>
     ELSE close(argfd(s, d)) /\ u' = [Returns(s) EXCEPT ![s].fd[d] = 0]
  /\ UNCHANGED <<nextpid, cpu, out, lines, starts, kills, panic>>

\* dup of an end of the pipe goes to the lowest free descriptor.
sys_dup(s) ==
  /\ Does(s, "dupp")
  /\ LET f == argfd(s, u[s].p[Arg(s) + 1]) IN
     IF f = 0 \/ FreeFd(s) = NOFILE THEN u' = Returns(s) /\ UNCHANGED ftable
     ELSE /\ u' = [Returns(s) EXCEPT ![s].fd[FreeFd(s)] = f]
          /\ ftable' = [ftable EXCEPT ![f].ref = @ + 1]
  /\ UNCHANGED <<pt, nextpid, cpu, pipes, out, lines, starts, kills, panic>>

\* open of a redirection: without a file structure or a descriptor the child
\* exits.
sys_open(s) ==
  /\ Does(s, "open")
  /\ IF FreeFile = 0 \/ FreeFd(s) = NOFILE
     THEN u' = Continues(s, <<<<"exit">>>>) /\ UNCHANGED ftable
     ELSE /\ u' = [Returns(s) EXCEPT ![s].fd[FreeFd(s)] = FreeFile]
          /\ ftable' = [ftable EXCEPT ![FreeFile] = [NoFile EXCEPT !.ref = 1, !.type = "file"]]
  /\ UNCHANGED <<pt, nextpid, cpu, pipes, out, lines, starts, kills, panic>>

----------------------------------------------------------------------------
\* write(1, bytes) to a pipe, whose end for writing it is: until all is in, the
\* readers are gone, or sleep.
pipewrite(s) ==
  /\ Does(s, "write") /\ u[s].fd[1] # 0 /\ ftable[u[s].fd[1]].type = "pipe"
  /\ LET i == ftable[u[s].fd[1]].pipe
         r == fill(pipes[i], Arg(s))
     IN  /\ pipes' = [pipes EXCEPT ![i] = r.pipe]
         /\ IF r.left = <<>> THEN u' = Returns(s) /\ pt' = wakeup1(pt, <<"nread", i>>)
            ELSE IF ~r.pipe.readopen \/ pt[s].killed THEN u' = Returns(s) /\ pt' = pt
            ELSE /\ u' = [Sleeps(s) EXCEPT ![s].code = <<<<"write", r.left>>>> \o Tail(@)]
                 /\ pt' = sleep(wakeup1(pt, <<"nread", i>>), s, <<"nwrite", i>>)
  /\ UNCHANGED <<nextpid, cpu, ftable, out, lines, starts, kills, panic>>

\* write(1, bytes) to the console or a file, or without a file.
write(s) ==
  /\ Does(s, "write") /\ (u[s].fd[1] = 0 \/ ftable[u[s].fd[1]].type # "pipe")
  /\ u' = Returns(s)
  /\ out' = IF u[s].fd[1] # 0 /\ ftable[u[s].fd[1]].type = "console" THEN out \o Arg(s) ELSE out
  /\ UNCHANGED <<pt, nextpid, cpu, ftable, pipes, lines, starts, kills, panic>>

\* cat's read(0): what it read is written next; at the end of the file it exits.
CatNext(bytes) == IF bytes = <<>> THEN <<<<"exit">>>> ELSE <<<<"write", bytes>>, <<"read">>>>

piperead(s) ==
  /\ Does(s, "read") /\ u[s].fd[0] # 0 /\ ftable[u[s].fd[0]].type = "pipe"
  /\ LET i == ftable[u[s].fd[0]].pipe
         r == take(pipes[i], READ)
     IN  IF Empty(pipes[i]) /\ pipes[i].writeopen
         THEN /\ pipes' = pipes
              /\ IF pt[s].killed THEN u' = Continues(s, <<<<"exit">>>>) /\ pt' = pt
                 ELSE u' = Sleeps(s) /\ pt' = sleep(pt, s, <<"nread", i>>)
         ELSE /\ pipes' = [pipes EXCEPT ![i] = r.pipe]
              /\ u' = Continues(s, CatNext(r.bytes))
              /\ pt' = wakeup1(pt, <<"nwrite", i>>)
  /\ UNCHANGED <<nextpid, cpu, ftable, out, lines, starts, kills, panic>>

\* read(0) of the console or of a file: here both are at their end.
readEnd(s) ==
  /\ Does(s, "read") /\ (u[s].fd[0] = 0 \/ ftable[u[s].fd[0]].type # "pipe")
  /\ u' = Continues(s, CatNext(<<>>))
  /\ UNCHANGED <<pt, nextpid, cpu, ftable, pipes, out, lines, starts, kills, panic>>

----------------------------------------------------------------------------
\* The shell's prompt: getcmd sleeps until a line is typed.
getcmd(s) ==
  /\ Runs(s) /\ u[s].prog = "sh" /\ u[s].code = <<>> /\ ~pt[s].killed
  /\ pt' = sleep(pt, s, <<"console", 0>>)
  /\ UNCHANGED <<nextpid, cpu, u, ftable, pipes, out, lines, starts, kills, panic>>

\* A line is typed; the shell forks a child for it and waits.  The empty line
\* stands for the end of the input.
typed(s, line) ==
  /\ panic = "" /\ lines < MaxLines /\ pt[s].state = "SLEEPING" /\ pt[s].chan = <<"console", 0>>
  /\ lines' = lines + 1
  /\ pt' = wakeup1(pt, <<"console", 0>>)
  /\ u' = Continues(s, IF line = <<>> THEN <<<<"exit">>>>
                       ELSE <<<<"fork", <<<<"parse", line>>>>>>, <<"wait">>>>)
  /\ UNCHANGED <<fresh, nextpid, cpu, ftable, pipes, out, starts, kills, panic>>

\* A double click on an icon of the desktop: it forks and does not wait.
iconOnLeftDoubleClick(s) ==
  /\ Runs(s) /\ u[s].prog = "desktop" /\ u[s].code = <<>> /\ ~pt[s].killed
  /\ starts < MaxStarts
  /\ starts' = starts + 1
  /\ u' = Continues(s, <<<<"fork", <<<<"exec", "sh">>, <<"exit">>>>>>>>)
  /\ UNCHANGED <<fresh, pt, nextpid, cpu, ftable, pipes, out, lines, kills, panic>>

\* Some program kills a process other than init.
sys_kill(s) ==
  /\ panic = "" /\ kills < MaxKills /\ s # initproc /\ pt[s].state # "UNUSED"
  /\ kills' = kills + 1
  /\ pt' = kill(pt, pt[s].pid)
  /\ UNCHANGED <<fresh, nextpid, cpu, u, ftable, pipes, out, lines, starts, panic>>

----------------------------------------------------------------------------
Step(s) ==
  /\ fresh' = FALSE
  /\ \/ trapKilled(s) \/ sys_fork(s) \/ forked(s) \/ sys_exec(s) \/ run(s) \/ parse(s)
     \/ sys_wait(s) \/ sys_exit(s) \/ sys_pipe(s) \/ sys_close(s) \/ sys_dup(s) \/ sys_open(s)
     \/ pipewrite(s) \/ write(s) \/ piperead(s) \/ readEnd(s) \/ getcmd(s)

Input(s) == (\E line \in Lines : typed(s, line)) \/ iconOnLeftDoubleClick(s) \/ sys_kill(s)

\* The desktop finds no message, or the scheduler nothing to run, or the kernel
\* has stopped.
idle ==
  /\ \/ panic # ""
     \/ \E s \in Slots : Runs(s) /\ Polls(s)
     \/ \A s \in Slots : pt[s].state \notin {"RUNNABLE", "RUNNING"}
  /\ UNCHANGED vars

Next == schedule \/ tick \/ idle \/ \E s \in Slots : Step(s) \/ Input(s)

Spec == Init /\ [][Next]_vars

\* The machine does not stop: the CPU runs what it was given, and the clock ticks.
\* That every process gets its turn follows from the scheduler's loop.
FairSpec == Spec /\ WF_vars(schedule \/ tick \/ \E s \in Slots : Step(s))

----------------------------------------------------------------------------
\* No wakeup is lost: a process sleeps in wait only with children and without
\* a zombie, in piperead only on an empty pipe with a writer, in pipewrite only
\* on a full pipe with a reader, and never when it is killed.
SleepsForReason ==
  \A s \in Slots :
    pt[s].state = "SLEEPING" =>
      /\ ~pt[s].killed
      /\ LET c == pt[s].chan IN
         CASE c[1] = "proc" -> Children(pt, s) # {} /\ Zombies(pt, s) = {}
           [] c[1] = "nread" -> Held(pipes[c[2]]) = 0 /\ pipes[c[2]].writeopen
           [] c[1] = "nwrite" -> Held(pipes[c[2]]) = PIPESIZE /\ pipes[c[2]].readopen
           [] OTHER -> TRUE

\* Files and pipes are counted: a file of ftable has as many references as
\* descriptors name it, and an end of a pipe is open exactly while some
\* process holds it.
EndsCounted ==
  /\ \A f \in DOMAIN ftable :
       ftable[f].ref = Cardinality({h \in Slots \X Fds : u[h[1]].fd[h[2]] = f})
  /\ \A i \in DOMAIN pipes :
       LET ends == {f \in DOMAIN ftable : ftable[f].ref > 0 /\ ftable[f].pipe = i} IN
       /\ pipes[i].writeopen <=> \E f \in ends : ftable[f].writable
       /\ pipes[i].readopen <=> \E f \in ends : ~ftable[f].writable

Count(b) == Cardinality({j \in DOMAIN out : out[j] = b})

\* What echo writes reaches the console in order, through pipes and cats and
\* over the wrap of the counters: a byte never comes before the one before it.
OutputInOrder == \A b \in 1 .. BYTES - 1 : Count(b) >= Count(b + 1)

\* The lines of up to MaxTokens tokens, and whether the parser keeps each.
AllLines == UNION {[1 .. n -> ParserTokens] : n \in 0 .. MaxTokens}

AllKept == \A line \in AllLines : Kept(line)

\* The parser drops nothing and turns nothing round: the tree of an accepted
\* line has the words, bars, semicolons and ampersands of the line in their
\* order, and its redirections in theirs.  (Looked at before the first fork.)
NothingDropped == nextpid = 2 => AllKept

\* A shell that runs a line comes back to its prompt or is gone: no pipeline
\* hangs, whatever is killed and whichever fork or pipe fails.
PromptReturns ==
  []<>(panic # "" \/ \A s \in Slots : u[s].prog = "sh" => u[s].code = <<>>)

\* init does its two duties for ever: every orphan it is given is waited for,
\* and the desktop is started again when it is gone.
InitKeepsUp ==
  /\ []<>(panic # "" \/ \A s \in Slots : ~(pt[s].state = "ZOMBIE" /\ pt[s].parent = initproc))
  /\ []<>(panic # "" \/ \E s \in Slots : u[s].prog = "desktop")
============================================================================
