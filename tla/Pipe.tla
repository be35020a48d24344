-------------------------------- MODULE Pipe --------------------------------
(***************************************************************************)
(* A pipe (pipe.c): a ring of PIPESIZE bytes and two unsigned counters     *)
(* that are never reduced.  They wrap at WRAP, which, as 2^32 is of        *)
(* PIPESIZE, is a multiple of it.                                          *)
(***************************************************************************)
EXTENDS Integers, FiniteSetsExt, Sequences

CONSTANTS PIPESIZE, WRAP

ASSUME PipeAssumption ==
  /\ PIPESIZE \in Nat \ {0}
  /\ WRAP \in Nat /\ WRAP > PIPESIZE /\ WRAP % PIPESIZE = 0

pipealloc == [data |-> [k \in 0 .. PIPESIZE - 1 |-> 0], nread |-> 0, nwrite |-> 0,
              readopen |-> TRUE, writeopen |-> TRUE]

NoPipe == [pipealloc EXCEPT !.readopen = FALSE, !.writeopen = FALSE]

Empty(p) == p.nread = p.nwrite

\* How many bytes are in the pipe.
Held(p) == (p.nwrite + WRAP - p.nread) % WRAP

\* The pipe with the first n bytes put in.
put(p, bytes, n) ==
  LET index(j) == ((p.nwrite + j - 1) % WRAP) % PIPESIZE
      put_at(x) == {j \in 1 .. n : index(j) = x}
  IN  [p EXCEPT !.data = [x \in DOMAIN @ |-> IF put_at(x) = {} THEN @[x] ELSE bytes[Max(put_at(x))]],
                !.nwrite = (@ + n) % WRAP]

\* Variant: the writer does not wait for room.
fillOver(p, bytes) == [pipe |-> put(p, bytes, Len(bytes)), left |-> <<>>]

\* pipewrite's loop until the bytes are in or the pipe is full.
fill(p, bytes) ==
  LET n == Min({Len(bytes), PIPESIZE - Held(p)})
  IN  [pipe |-> put(p, bytes, n), left |-> SubSeq(bytes, n + 1, Len(bytes))]

\* piperead's loop: up to n bytes of what is there.
take(p, n) ==
  LET k == Min({n, Held(p)})
  IN  [pipe |-> [p EXCEPT !.nread = (@ + k) % WRAP],
       bytes |-> [j \in 1 .. k |-> p.data[((p.nread + j - 1) % WRAP) % PIPESIZE]]]

pipeclose(p, writable) ==
  LET q == IF writable THEN [p EXCEPT !.writeopen = FALSE] ELSE [p EXCEPT !.readopen = FALSE]
  IN  IF q.readopen \/ q.writeopen THEN q ELSE NoPipe
============================================================================
