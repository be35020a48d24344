------------------------------- MODULE Memory -------------------------------
(***************************************************************************)
(* Physical memory: the free list of kalloc.c, the address spaces of vm.c, *)
(* and the calls that build, grow and tear them down (fork, exec, sbrk,    *)
(* exit and wait), with memory running out at any kalloc.                  *)
(*                                                                         *)
(* kalloc and kfree are atomic.  fork, exec and sbrk can be preempted      *)
(* between two pages, so an iteration of their loops is a step; tearing    *)
(* down touches nothing another process sees and is one step.  Sizes are   *)
(* in units of which PGSIZE make a page; 0 is the null page.               *)
(***************************************************************************)
EXTENDS Integers, FiniteSetsExt, SequencesExt

CONSTANTS
  NPAGES, NPROC,
  PGSIZE,        \* units in a page
  NPTENTRIES,    \* pages a page table maps
  NPDENTRIES,    \* page tables for user memory
  KTABLES,       \* page tables for the kernel's part of every address space
  Texts,         \* the sizes of the programs
  Amounts,       \* what sbrk is called with
  MAXCALLS       \* bound: how many calls the processes make

ASSUME MemoryAssumption ==
  /\ {NPAGES, NPROC, PGSIZE, NPTENTRIES, NPDENTRIES, KTABLES} \subseteq Nat \ {0}
  /\ NPAGES >= KTABLES + 4
  /\ Texts \subseteq Nat \ {0}

Pages == 1 .. NPAGES

Slots == 1 .. NPROC

KERNBASE == PGSIZE * NPTENTRIES * NPDENTRIES

VPNs == 0 .. NPTENTRIES * NPDENTRIES - 1

VARIABLES
  freelist,      \* kmem.freelist
  proc,          \* per slot: state, parent, kstack, the address space, sz
  job,           \* per slot: the call under way
  lost,          \* pages that nothing refers to any more
  calls, machine

vars == <<freelist, proc, job, lost, calls, machine>>

\* An address space: the directory, the kernel's tables, the user part's tables
\* and entries, and the pages that clearpteu took from the user.
NoSpace == [dir |-> 0, kern |-> <<>>, tab |-> [t \in 0 .. NPDENTRIES - 1 |-> 0],
            pte |-> [v \in VPNs |-> 0], guard |-> {}]

Idle == [op |-> "none", as |-> NoSpace, i |-> 0, old |-> 0, end |-> 0, child |-> 0]

PGROUNDUP(a) == ((a + PGSIZE - 1) \div PGSIZE) * PGSIZE

Page(a) == a \div PGSIZE

----------------------------------------------------------------------------
kalloc(f) == IF f = <<>> THEN [page |-> 0, free |-> f] ELSE [page |-> Head(f), free |-> Tail(f)]

kfree(f, pages) == Reverse(pages) \o f

\* The table for page v, made if it is missing and memory is left.
walkpgdir(as, f, v) ==
  LET t == v \div NPTENTRIES IN
  IF as.tab[t] # 0 THEN [page |-> as.tab[t], free |-> f] ELSE kalloc(f)

\* mappages for one page.
mappages(as, f, v, page) ==
  LET table == walkpgdir(as, f, v) IN
  [ok |-> table.page # 0, free |-> table.free,
   as |-> IF table.page = 0 THEN as
          ELSE [as EXCEPT !.tab[v \div NPTENTRIES] = table.page, !.pte[v] = page]]

\* The directory and the kernel's tables.  When memory runs out on the way, what
\* was taken is not given back.
setupkvm(f) ==
  IF Len(f) > KTABLES
  THEN [as |-> [NoSpace EXCEPT !.dir = f[1], !.kern = SubSeq(f, 2, KTABLES + 1)],
        free |-> SubSeq(f, KTABLES + 2, Len(f)), lost |-> {}]
  ELSE [as |-> NoSpace, free |-> <<>>, lost |-> ToSet(f)]

\* The pages deallocuvm's loop comes by: where a table is missing it goes on
\* NPTENTRIES pages further.
Visited(as, from, end) ==
  LET visits[a \in 0 .. Page(KERNBASE) + NPTENTRIES] ==
        IF a * PGSIZE >= end THEN {}
        ELSE IF as.tab[a \div NPTENTRIES] = 0 THEN visits[a + NPTENTRIES]
        ELSE {a} \cup visits[a + 1]
  IN  {v \in visits[from] : as.pte[v] # 0}

deallocuvm(as, f, oldsz, newsz) ==
  LET gone == IF newsz >= oldsz THEN {} ELSE Visited(as, Page(PGROUNDUP(newsz)), oldsz)
      pages == [k \in 1 .. Cardinality(gone) |-> as.pte[SetToSortSeq(gone, <)[k]]]
  IN  [free |-> kfree(f, pages),
       as |-> [as EXCEPT !.pte = [v \in VPNs |-> IF v \in gone THEN 0 ELSE @[v]]]]

Tables(as) == SelectSeq([k \in 1 .. NPDENTRIES |-> as.tab[k - 1]], LAMBDA t : t # 0)

freevm(as, f) ==
  kfree(deallocuvm(as, f, KERNBASE, 0).free, Tables(as) \o as.kern \o <<as.dir>>)

----------------------------------------------------------------------------
\* kinit1 and kinit2 put the pages on the list.
freerange == kfree(<<>>, [k \in 1 .. NPAGES |-> k])

\* The one page of the first program.
inituvm(as, f) == LET mem == kalloc(f) IN mappages(as, mem.free, 0, mem.page)

\* userinit makes the first process.
Init ==
  /\ LET list == freerange
         kvm == setupkvm(Tail(list))
         uvm == inituvm(kvm.as, kvm.free)
     IN  /\ freelist = uvm.free
         /\ proc = [s \in Slots |->
              IF s = 1 THEN [state |-> "RUNNABLE", parent |-> 0, kstack |-> Head(list),
                             as |-> uvm.as, sz |-> PGSIZE]
                       ELSE [state |-> "UNUSED", parent |-> 0, kstack |-> 0,
                             as |-> NoSpace, sz |-> 0]]
  /\ job = [s \in Slots |-> Idle]
  /\ lost = {} /\ calls = 0 /\ machine = "up"

Free == {s \in Slots : proc[s].state = "UNUSED"}

Enters(p) ==
  /\ machine = "up" /\ proc[p].state = "RUNNABLE" /\ job[p].op = "none"
  /\ calls < MAXCALLS /\ calls' = calls + 1

\* A process without its first page has no code to make calls with.
Calls(p) == Enters(p) /\ proc[p].as.pte[0] # 0

In(p, op) == machine = "up" /\ job[p].op = op /\ UNCHANGED calls

panic(message) == machine' = message /\ UNCHANGED <<freelist, proc, job, lost>>

----------------------------------------------------------------------------
\* fork up to the new kernel stack.
allocproc(p) ==
  /\ Calls(p) /\ Free # {} /\ freelist # <<>>
  /\ LET np == Min(Free) IN
       /\ proc' = [proc EXCEPT ![np].state = "EMBRYO", ![np].kstack = Head(freelist)]
       /\ job' = [job EXCEPT ![p] = [Idle EXCEPT !.op = "fork", !.child = np]]
  /\ freelist' = Tail(freelist)
  /\ UNCHANGED <<lost, machine>>

\* fork fails: the stack and the slot are given back.
unfork(p, f) ==
  LET np == job[p].child IN
  /\ freelist' = kfree(f, <<proc[np].kstack>>)
  /\ proc' = [proc EXCEPT ![np].state = "UNUSED", ![np].kstack = 0]
  /\ job' = [job EXCEPT ![p] = Idle]

\* The first part of copyuvm.
forkSetup(p) ==
  /\ In(p, "fork")
  /\ LET kvm == setupkvm(freelist) IN
       /\ lost' = lost \cup kvm.lost
       /\ \/ /\ kvm.as = NoSpace /\ unfork(p, kvm.free)
          \/ /\ kvm.as # NoSpace
             /\ freelist' = kvm.free
             /\ job' = [job EXCEPT ![p].op = "copyuvm", ![p].as = kvm.as]
             /\ UNCHANGED proc
  /\ UNCHANGED machine

\* Variant: the pages copied so far are not freed.
copyuvmKeeps(p, mem, map) == unfork(p, mem.free) /\ lost' = lost

\* copyuvm's "bad": a page that could not be mapped is in no table and stays.
copyuvmBad(p, mem, map) ==
  /\ unfork(p, freevm(map.as, map.free))
  /\ lost' = lost \cup ({mem.page} \ {0})

\* One page of the parent's memory.
copyuvm(p) ==
  /\ In(p, "copyuvm") /\ job[p].i * PGSIZE < proc[p].sz
  /\ LET v == job[p].i
         mem == kalloc(freelist)
         map == IF mem.page = 0 THEN [ok |-> FALSE, free |-> mem.free, as |-> job[p].as]
                ELSE mappages(job[p].as, mem.free, v, mem.page)
     IN  \/ /\ proc[p].as.pte[v] = 0
            /\ panic(IF proc[p].as.tab[v \div NPTENTRIES] = 0 THEN "copyuvm: pte should exist"
                                                            ELSE "copyuvm: page not present")
         \/ proc[p].as.pte[v] # 0 /\ ~map.ok /\ copyuvmBad(p, mem, map) /\ UNCHANGED machine
         \/ /\ proc[p].as.pte[v] # 0 /\ map.ok
            /\ freelist' = map.free
            /\ job' = [job EXCEPT ![p].as =
                         [map.as EXCEPT !.guard = proc[p].as.guard \cap 0 .. v], ![p].i = v + 1]
            /\ UNCHANGED <<proc, lost, machine>>

forkDone(p) ==
  /\ In(p, "copyuvm") /\ job[p].i * PGSIZE >= proc[p].sz
  /\ proc' = [proc EXCEPT ![job[p].child] =
       [@ EXCEPT !.state = "RUNNABLE", !.parent = p, !.as = job[p].as, !.sz = proc[p].sz]]
  /\ job' = [job EXCEPT ![p] = Idle]
  /\ UNCHANGED <<freelist, lost, machine>>

----------------------------------------------------------------------------
\* exec up to the new kernel part.  A file that cannot be found or has no header
\* changes nothing.
exec(p) ==
  /\ Calls(p)
  /\ \E text \in Texts :
       LET kvm == setupkvm(freelist) IN
       /\ lost' = lost \cup kvm.lost
       /\ freelist' = IF text >= KERNBASE /\ kvm.as # NoSpace THEN freevm(kvm.as, kvm.free)
                      ELSE kvm.free
       /\ job' = IF text >= KERNBASE \/ kvm.as = NoSpace THEN job
                 ELSE [job EXCEPT ![p] = [Idle EXCEPT !.op = "text", !.as = kvm.as, !.end = text]]
  /\ UNCHANGED <<proc, machine>>

\* exec fails.
bad(p, as, f) ==
  /\ freelist' = freevm(as, f)
  /\ job' = [job EXCEPT ![p] = Idle]
  /\ UNCHANGED <<proc, lost>>

\* The space that allocuvm works on: exec's new one or the process's own.
Target(p) == IF job[p].op = "sbrk" THEN proc[p].as ELSE job[p].as

Allocates(p) == job[p].op \in {"text", "stack", "sbrk"}

\* Variant: the pages allocated before memory ran out stay.
allocuvmFailsKeeping(p) ==
  IF job[p].op = "sbrk"
  THEN job' = [job EXCEPT ![p] = Idle] /\ UNCHANGED <<freelist, proc, lost>>
  ELSE bad(p, Target(p), freelist)

\* Out of memory in allocuvm: deallocuvm takes back what was added.
allocuvmFails(p) ==
  LET back == deallocuvm(Target(p), freelist, job[p].end, job[p].old) IN
  IF job[p].op = "sbrk"
  THEN /\ freelist' = back.free
       /\ proc' = [proc EXCEPT ![p].as = back.as]
       /\ job' = [job EXCEPT ![p] = Idle]
       /\ UNCHANGED lost
  ELSE bad(p, back.as, back.free)

\* One page of allocuvm.  The result of mappages is not looked at: without a
\* table the page is lost, and the loop goes on.
allocuvm(p) ==
  /\ machine = "up" /\ Allocates(p) /\ job[p].i * PGSIZE < job[p].end
  /\ LET mem == kalloc(freelist)
         map == mappages(Target(p), mem.free, job[p].i, mem.page)
     IN  \/ mem.page = 0 /\ allocuvmFails(p)
         \/ /\ mem.page # 0
            /\ freelist' = map.free
            /\ lost' = IF map.ok THEN lost ELSE lost \cup {mem.page}
            /\ IF job[p].op = "sbrk"
               THEN proc' = [proc EXCEPT ![p].as = map.as] /\ job' = [job EXCEPT ![p].i = @ + 1]
               ELSE job' = [job EXCEPT ![p].as = map.as, ![p].i = @ + 1] /\ UNCHANGED proc
  /\ UNCHANGED <<calls, machine>>

Allocated(p, op) == In(p, op) /\ job[p].i * PGSIZE >= job[p].end

\* walkpgdir finds a table for every page of the program.
loaduvm(as, sz) == \A v \in 0 .. Page(sz) - 1 : as.tab[v \div NPTENTRIES] # 0

\* The program is read into its pages, and allocuvm called for the stack.
execLoad(p) ==
  /\ Allocated(p, "text")
  /\ LET sz == PGROUNDUP(job[p].end)
         found == loaduvm(job[p].as, sz)
     IN  \/ ~found /\ panic("loaduvm: address should exist")
         \/ /\ found /\ sz + 2 * PGSIZE < KERNBASE
            /\ job' = [job EXCEPT ![p].op = "stack", ![p].i = Page(sz),
                                  ![p].old = sz, ![p].end = sz + 2 * PGSIZE]
            /\ UNCHANGED <<freelist, proc, lost, machine>>
         \/ \* readi falls short, or the stack does not fit
            found /\ bad(p, job[p].as, freelist) /\ UNCHANGED machine

clearpteu(as, v) == [as EXCEPT !.guard = {v}]

uva2ka(as, v) == IF v \in as.guard THEN 0 ELSE as.pte[v]

copyout(as, pages) == \A v \in pages : uva2ka(as, v) # 0

\* The arguments are copied to the stack and the process changes to the new
\* space; when they do not fit above the page without PTE_U, exec fails.
execCommit(p) ==
  /\ Allocated(p, "stack")
  /\ LET v == Page(job[p].end) - 2
         as == clearpteu(job[p].as, v)
     IN  \/ \* clearpteu has no entry, or uva2ka reads through walkpgdir's null pointer
            /\ 0 \in {as.tab[v \div NPTENTRIES], as.tab[(v + 1) \div NPTENTRIES]}
            /\ panic(IF as.tab[v \div NPTENTRIES] = 0 THEN "clearpteu" ELSE "uva2ka")
         \/ /\ 0 \notin {as.tab[v \div NPTENTRIES], as.tab[(v + 1) \div NPTENTRIES]}
            /\ \E low \in {v, v + 1} :
                 IF copyout(as, low .. v + 1)
                 THEN /\ proc' = [proc EXCEPT ![p].as = as, ![p].sz = job[p].end]
                      /\ freelist' = freevm(proc[p].as, freelist)
                      /\ job' = [job EXCEPT ![p] = Idle]
                      /\ UNCHANGED lost
                 ELSE bad(p, as, freelist)
            /\ UNCHANGED machine

----------------------------------------------------------------------------
\* growproc with n > 0; beyond KERNBASE allocuvm refuses and nothing changes.
sbrk(p, n) ==
  /\ Calls(p) /\ n > 0 /\ proc[p].sz + n < KERNBASE
  /\ job' = [job EXCEPT ![p] = [Idle EXCEPT !.op = "sbrk", !.i = Page(PGROUNDUP(proc[p].sz)),
                                           !.old = proc[p].sz, !.end = proc[p].sz + n]]
  /\ UNCHANGED <<freelist, proc, lost, machine>>

sbrkDone(p) ==
  /\ Allocated(p, "sbrk")
  /\ proc' = [proc EXCEPT ![p].sz = job[p].end]
  /\ job' = [job EXCEPT ![p] = Idle]
  /\ UNCHANGED <<freelist, lost, machine>>

\* growproc with n < 0.  deallocuvm's answer 0 is taken for a failure, and sz
\* stays although the pages are gone.
sbrkLess(p, n) ==
  /\ Calls(p) /\ n < 0 /\ proc[p].sz + n >= 0
  /\ LET newsz == proc[p].sz + n
         back == deallocuvm(proc[p].as, freelist, proc[p].sz, newsz)
     IN  /\ freelist' = back.free
         /\ proc' = [proc EXCEPT ![p].as = back.as, ![p].sz = IF newsz = 0 THEN @ ELSE newsz]
  /\ UNCHANGED <<job, lost, machine>>

\* exit, called or after a fault, leaves the memory to wait and the children to
\* init.
exit(p) ==
  /\ Enters(p)
  /\ \/ p = 1 /\ panic("init exiting")
     \/ /\ p # 1
        /\ proc' = [s \in Slots |->
             IF s = p THEN [proc[s] EXCEPT !.state = "ZOMBIE"]
             ELSE IF proc[s].parent = p THEN [proc[s] EXCEPT !.parent = 1] ELSE proc[s]]
        /\ UNCHANGED <<freelist, job, lost, machine>>

wait(p, c) ==
  /\ machine = "up" /\ proc[p].state = "RUNNABLE" /\ job[p].op = "none"
  /\ proc[c].state = "ZOMBIE" /\ proc[c].parent = p
  /\ freelist' = freevm(proc[c].as, kfree(freelist, <<proc[c].kstack>>))
  /\ proc' = [proc EXCEPT ![c] = [state |-> "UNUSED", parent |-> 0, kstack |-> 0,
                                  as |-> NoSpace, sz |-> 0]]
  /\ UNCHANGED <<job, lost, calls, machine>>

\* A panic, or MAXCALLS calls have been made.
stopped ==
  /\ machine = "up" => calls = MAXCALLS /\ \A p \in Slots : job[p].op = "none"
  /\ UNCHANGED vars

Next ==
  \/ \E p \in Slots :
       \/ allocproc(p) \/ forkSetup(p) \/ copyuvm(p) \/ forkDone(p)
       \/ exec(p) \/ allocuvm(p) \/ execLoad(p) \/ execCommit(p)
       \/ sbrkDone(p) \/ exit(p)
       \/ \E n \in Amounts : sbrk(p, n) \/ sbrkLess(p, n)
       \/ \E c \in Slots : wait(p, c)
  \/ stopped

Spec == Init /\ [][Next]_vars

----------------------------------------------------------------------------
Spaces == [dir : 0 .. NPAGES, kern : Seq(Pages), tab : [0 .. NPDENTRIES - 1 -> 0 .. NPAGES],
           pte : [VPNs -> 0 .. NPAGES], guard : SUBSET VPNs]

PagesOf(as) ==
  SelectSeq(<<as.dir>> \o as.kern \o Tables(as) \o [k \in 1 .. Cardinality(VPNs) |-> as.pte[k - 1]],
            LAMBDA page : page # 0)

\* Every place a page can be in, listed.
Places ==
  freelist \o SetToSeq(lost)
  \o FlattenSeq([s \in Slots |->
       PagesOf(proc[s].as) \o PagesOf(job[s].as) \o SelectSeq(<<proc[s].kstack>>, LAMBDA k : k # 0)])

\* kalloc and kfree keep the pages apart: a page is in exactly one place, the
\* free list, a kernel stack, one entry of one address space, or lost; never
\* free and in use, never in two processes, never forgotten by another path
\* than the three that lose pages when memory runs out (setupkvm, copyuvm's
\* "bad", allocuvm's mappages).  In particular freevm finds every page, although
\* deallocuvm jumps where a page table is missing.
Accounted == Len(Places) = NPAGES /\ ToSet(Places) = Pages

Mapped(as) == {v \in VPNs : as.pte[v] # 0}

Below(sz) == {v \in VPNs : v * PGSIZE < sz}

\* The size of a process and its page table agree between calls, whatever fork,
\* exec and sbrk failed before: its entries are the pages below sz, or it gave
\* all of them away, as long as no page has been lost. (After a loss there may
\* be holes, and deallocuvm, which skips from a hole to the next page table
\* without aligning its address, may step over entries above the new size.)
SizeIsMapped ==
  lost = {} =>
    \A s \in Slots : proc[s].state = "RUNNABLE" /\ job[s].op # "sbrk" =>
      Mapped(proc[s].as) \in {{}, Below(proc[s].sz)}

=============================================================================
