------------------------------- MODULE Files --------------------------------
(***************************************************************************)
(* The system calls on files and directories (sysfile.c, file.c and the    *)
(* walk of namex in fs.c), made by several processes.                      *)
(*                                                                         *)
(* A call is cut where it may sleep, at each ilock, and where an iput has  *)
(* let go of icache.lock to free an inode.  k[p] is the call p is in: at,  *)
(* the section it runs next; cur and ip, the inodes it holds; rest and     *)
(* name, what is left of the path; chan, the inode whose lock it sleeps    *)
(* on; frees, the inodes its last section has to free.                     *)
(***************************************************************************)
EXTENDS Inodes

CONSTANTS
  Procs,
  NFILE,         \* entries of ftable
  NOFILE,        \* open files of a process
  MaxChunk,      \* bytes filewrite writes in one transaction
  Modes,         \* the ways open is called without O_CREATE: "open", "openw", "openrw"
  Opens, Creates, Dirs, Devs, Unlinks, Chdirs,   \* the paths of each call
  Links,         \* the pairs of paths of link
  Writes,        \* the sizes of writes and reads
  Sizes,         \* the sizes of the file in the image
  MaxCalls       \* bound on the calls made

VARIABLES
  fs,            \* the disk and the inode cache: see Inodes
  ftable,        \* [1..NFILE -> [ref, ip, off, readable, writable]]
  ofile,         \* [Procs -> [1..NOFILE -> 0..NFILE]], 0: closed
  cwd,           \* [Procs -> Inums]
  k,             \* the calls in progress
  calls          \* the calls made

vars == <<fs, ftable, ofile, cwd, k, calls>>

NoFile == [ref |-> 0, ip |-> 0, off |-> 0, readable |-> FALSE, writable |-> FALSE]

Idle == [at |-> "user", call |-> "", cur |-> 0, ip |-> 0, rest |-> <<>>, name |-> "",
         new |-> <<>>, file |-> 0, n |-> 0, chan |-> 0, frees |-> {}]

\* The image after an earlier run made the directories d and d/d in it.
WithDirs(f) ==
  LET dir == [NoInode EXCEPT !.type = "DIR", !.nlink = 1] IN
  [f EXCEPT !.dinode = [@ EXCEPT ![3] = [dir EXCEPT !.nlink = 2], ![4] = dir, ![ROOTINO].nlink = 2],
            !.entries = [@ EXCEPT ![3] = [NoNames EXCEPT !["."] = 3, ![".."] = ROOTINO, !["d"] = 4],
                                  ![4] = [NoNames EXCEPT !["."] = 4, ![".."] = 3],
                                  ![ROOTINO]["d"] = 3]]

Init ==
  /\ \E size \in Sizes :
       \E disk \in {Image("a", size), WithDirs(Image("a", size))} :
         fs = [disk EXCEPT !.ic[ROOTINO].ref = Cardinality(Procs)]
  /\ ftable = [f \in 1 .. NFILE |-> NoFile]
  /\ ofile = [p \in Procs |-> [d \in 1 .. NOFILE |-> 0]]
  /\ cwd = [p \in Procs |-> ROOTINO]
  /\ k = [p \in Procs |-> Idle]
  /\ calls = 0

----------------------------------------------------------------------------
\* p goes on as r with the file system g; the sleepers g woke go on too.  A
\* panic does not return: p stays in the section it was in.
Goes(p, g, r) ==
  /\ fs' = [g EXCEPT !.freed = {}, !.woken = {}]
  /\ k' = [q \in Procs |-> IF g.panic # "" THEN k[q]
                           ELSE IF q = p THEN [r EXCEPT !.frees = g.freed]
                           ELSE IF k[q].chan \in g.woken THEN [k[q] EXCEPT !.chan = 0]
                           ELSE k[q]]

Runs(p, at) == fs.panic = "" /\ k[p].at = at /\ k[p].chan = 0 /\ k[p].frees = {}

\* The inode that the section p is at locks first; "unlink_end" locks none.
Locks(r) == IF r.at \in {"create_ip", "new_ip", "unlink_ip", "link_ip", "link_bad"} THEN r.ip
            ELSE r.cur

Section(p, at) == Runs(p, at) /\ ~fs.ic[Locks(k[p])].busy

\* ilock finds I_BUSY set.
ilockSleep(p) ==
  /\ Runs(p, k[p].at) /\ k[p].at \notin {"user", "unlink_end"} /\ fs.ic[Locks(k[p])].busy
  /\ k' = [k EXCEPT ![p].chan = Locks(k[p])]
  /\ UNCHANGED <<fs, ftable, ofile, cwd, calls>>

\* The rest of an iput that frees an inode, in the two steps of the code.
iputFrees(p) ==
  /\ fs.panic = "" /\ \E i \in k[p].frees :
       IF fs.ic[i].ino.type # "" THEN Goes(p, [iputFree(fs, i) EXCEPT !.freed = k[p].frees], k[p])
       ELSE Goes(p, [iputEnd(fs, i) EXCEPT !.freed = k[p].frees \ {i}], k[p])
  /\ UNCHANGED <<ftable, ofile, cwd, calls>>

----------------------------------------------------------------------------
NamesParent(c) == c \in {"create", "mkdir", "mknod", "unlink", "link2"}

\* Where a call goes on with the inode that namei or nameiparent returned.
After(c) ==
  CASE c \in {"open", "openw", "openrw"} -> "open" [] c \in {"create", "mkdir", "mknod"} -> "create"
    [] c = "link" -> "link_ip" [] c = "link2" -> "link" [] c = "unlink" -> "unlink"
    [] c = "chdir" -> "chdir"

\* namex has found inode i for r: the call's next section.
Found(r, i) ==
  IF r.call = "link" THEN [r EXCEPT !.at = After(r.call), !.ip = i, !.cur = 0]
  ELSE [r EXCEPT !.at = After(r.call), !.cur = i]

\* namex fails: the call returns -1, or sys_link takes its link back.
Fails(r) == IF r.call = "link2" THEN [r EXCEPT !.at = "link_bad", !.cur = 0] ELSE Idle

\* Where a path starts, the root or the current directory, and its elements.
Start(p, path) == IF path # <<>> /\ Head(path) = "/" THEN ROOTINO ELSE cwd[p]

Elems(path) == IF path # <<>> /\ Head(path) = "/" THEN Tail(path) ELSE path

\* The start of namex: the file system and the call after it.
walk(p, f, r, path) ==
  LET i == Start(p, path)
      g == iget(f, i)
      w == [r EXCEPT !.at = "namex", !.cur = i, !.rest = Elems(path)]
  IN  IF Elems(path) # <<>> THEN <<g, w>>
      ELSE IF NamesParent(r.call) THEN <<iput(g, i), Fails(w)>>
      ELSE <<g, Found(w, i)>>

\* A call that begins with a path is made.
call(p, c, path, new) ==
  /\ Runs(p, "user") /\ calls < MaxCalls
  /\ calls' = calls + 1
  /\ LET next == walk(p, fs, [Idle EXCEPT !.call = c, !.new = new], path)
     IN  Goes(p, next[1], next[2])
  /\ UNCHANGED <<ftable, ofile, cwd>>

\* One element of the path, with its directory locked in f.
element(f, r) ==
  LET i == r.cur
      last == Len(r.rest) = 1
      next == dirlookup(f, i, Head(r.rest))
      g == iunlockput(iget(f, next), i)
  IN  IF f.ic[i].ino.type # "DIR" THEN <<iunlockput(f, i), Fails(r)>>
      ELSE IF NamesParent(r.call) /\ last
           THEN <<iunlock(f, i), Found([r EXCEPT !.name = Head(r.rest), !.rest = <<>>], i)>>
      ELSE IF next = 0 THEN <<iunlockput(f, i), Fails(r)>>
      ELSE IF last THEN <<g, Found([r EXCEPT !.rest = <<>>], next)>>
      ELSE <<g, [r EXCEPT !.cur = next, !.rest = Tail(@)]>>

namex(p) ==
  /\ Section(p, "namex")
  /\ LET next == element(ilock(fs, k[p].cur), k[p]) IN Goes(p, next[1], next[2])
  /\ UNCHANGED <<ftable, ofile, cwd, calls>>

----------------------------------------------------------------------------
filealloc == LET free == {f \in DOMAIN ftable : ftable[f].ref = 0}
             IN  IF free = {} THEN 0 ELSE Min(free)

fdalloc(p) == LET free == {d \in DOMAIN ofile[p] : ofile[p][d] = 0}
              IN  IF free = {} THEN 0 ELSE Min(free)

\* The end of sys_open with inode i locked: a file and a descriptor, or neither.
openFile(p, f, i, readable, writable) ==
  IF filealloc = 0 \/ fdalloc(p) = 0
  THEN Goes(p, iunlockput(f, i), Idle) /\ UNCHANGED <<ftable, ofile>>
  ELSE /\ Goes(p, iunlock(f, i), Idle)
       /\ ftable' = [ftable EXCEPT ![filealloc] =
                       [ref |-> 1, ip |-> i, off |-> 0, readable |-> readable, writable |-> writable]]
       /\ ofile' = [ofile EXCEPT ![p][fdalloc(p)] = filealloc]

\* sys_open without O_CREATE: O_RDONLY ("open"), O_WRONLY or O_RDWR.
sys_open(p) ==
  /\ Section(p, "open")
  /\ LET i == k[p].cur
         f == ilock(fs, i)
     IN  IF f.ic[i].ino.type = "DIR" /\ k[p].call # "open"
         THEN Goes(p, iunlockput(f, i), Idle) /\ UNCHANGED <<ftable, ofile>>
         ELSE openFile(p, f, i, k[p].call # "openw", k[p].call # "open")
  /\ UNCHANGED <<cwd, calls>>

\* create with the parent directory: the name is there, or an inode is taken.
create(p) ==
  /\ Section(p, "create")
  /\ LET r == k[p]
         f == ilock(fs, r.cur)
         there == dirlookup(f, r.cur, r.name)
         type == CASE r.call = "create" -> "FILE" [] r.call = "mkdir" -> "DIR" [] OTHER -> "DEV"
     IN  IF there # 0
         THEN Goes(p, iunlockput(iget(f, there), r.cur),
                   [r EXCEPT !.at = "create_ip", !.ip = there, !.cur = 0])
         ELSE Goes(p, ialloc(f, type), [r EXCEPT !.at = "new_ip", !.ip = FreeInode(f)])
  /\ UNCHANGED <<ftable, ofile, cwd, calls>>

\* create found the name: only a file opened with O_CREATE (and O_RDWR) is fine.
createFound(p) ==
  /\ Section(p, "create_ip")
  /\ LET i == k[p].ip
         f == ilock(fs, i)
     IN  IF k[p].call = "create" /\ f.ic[i].ino.type = "FILE" THEN openFile(p, f, i, TRUE, TRUE)
         ELSE Goes(p, iunlockput(f, i), Idle) /\ UNCHANGED <<ftable, ofile>>
  /\ UNCHANGED <<cwd, calls>>

\* create made a new inode: links, dots, the name in the parent.
createNew(p) ==
  /\ Section(p, "new_ip")
  /\ LET r == k[p]
         f == iupdate([ilock(fs, r.ip) EXCEPT !.ic[r.ip].ino.nlink = 1], r.ip)
         dots == dirlink(dirlink(AddLinks(f, r.cur, 1), r.ip, ".", r.ip), r.ip, "..", r.cur)
         g == iunlockput(dirlink(IF r.call = "mkdir" THEN dots ELSE f, r.cur, r.name, r.ip), r.cur)
         h == IF Taken(f, r.cur, r.name) THEN Panic(g, "create: dirlink") ELSE g
     IN  IF r.call = "create" THEN openFile(p, h, r.ip, TRUE, TRUE)
         ELSE Goes(p, iunlockput(h, r.ip), Idle) /\ UNCHANGED <<ftable, ofile>>
  /\ UNCHANGED <<cwd, calls>>

----------------------------------------------------------------------------
\* Variant: sys_link leaves the link count alone.
linkOldUncounted(p) ==
  /\ Section(p, "link_ip")
  /\ LET r == k[p]
         f == ilock(fs, r.ip)
         next == IF f.ic[r.ip].ino.type = "DIR" THEN <<iunlockput(f, r.ip), Idle>>
                 ELSE walk(p, iunlock(f, r.ip), [r EXCEPT !.call = "link2"], r.new)
     IN  Goes(p, next[1], next[2])
  /\ UNCHANGED <<ftable, ofile, cwd, calls>>

\* sys_link counts the link before it is there.
linkOld(p) ==
  /\ Section(p, "link_ip")
  /\ LET r == k[p]
         f == ilock(fs, r.ip)
         next == IF f.ic[r.ip].ino.type = "DIR" THEN <<iunlockput(f, r.ip), Idle>>
                 ELSE walk(p, iunlock(AddLinks(f, r.ip, 1), r.ip), [r EXCEPT !.call = "link2"],
                           r.new)
     IN  Goes(p, next[1], next[2])
  /\ UNCHANGED <<ftable, ofile, cwd, calls>>

sys_link(p) ==
  /\ Section(p, "link")
  /\ LET r == k[p]
         f == ilock(fs, r.cur)
     IN  IF Taken(f, r.cur, r.name)
         THEN Goes(p, iunlockput(dirlinkTaken(f, r.cur, r.name), r.cur),
                   [r EXCEPT !.at = "link_bad", !.cur = 0])
         ELSE Goes(p, iput(iunlockput(dirlink(f, r.cur, r.name, r.ip), r.cur), r.ip), Idle)
  /\ UNCHANGED <<ftable, ofile, cwd, calls>>

linkBad(p) ==
  /\ Section(p, "link_bad")
  /\ LET i == k[p].ip IN Goes(p, iunlockput(AddLinks(ilock(fs, i), i, -1), i), Idle)
  /\ UNCHANGED <<ftable, ofile, cwd, calls>>

----------------------------------------------------------------------------
\* sys_unlink with the parent locked, then with both, then without the parent.
sys_unlink(p) ==
  /\ Section(p, "unlink")
  /\ LET r == k[p]
         f == ilock(fs, r.cur)
         there == dirlookup(f, r.cur, r.name)
     IN  IF r.name \in {".", ".."} \/ there = 0 THEN Goes(p, iunlockput(f, r.cur), Idle)
         ELSE Goes(p, iget(f, there), [r EXCEPT !.at = "unlink_ip", !.ip = there])
  /\ UNCHANGED <<ftable, ofile, cwd, calls>>

unlinkIp(p) ==
  /\ Section(p, "unlink_ip")
  /\ LET r == k[p]
         locked == ilock(fs, r.ip)
         f == IF locked.ic[r.ip].ino.nlink < 1 THEN Panic(locked, "unlink: nlink < 1") ELSE locked
         g == dirlink(f, r.cur, r.name, 0)
         h == IF f.ic[r.ip].ino.type = "DIR" THEN AddLinks(g, r.cur, -1) ELSE g
     IN  IF f.ic[r.ip].ino.type = "DIR" /\ ~isdirempty(f, r.ip)
         THEN Goes(p, iunlockput(iunlockput(f, r.ip), r.cur), Idle)
         ELSE Goes(p, iunlockput(h, r.cur), [r EXCEPT !.at = "unlink_end", !.cur = 0])
  /\ UNCHANGED <<ftable, ofile, cwd, calls>>

unlinkEnd(p) ==
  /\ Runs(p, "unlink_end")
  /\ Goes(p, iunlockput(AddLinks(fs, k[p].ip, -1), k[p].ip), Idle)
  /\ UNCHANGED <<ftable, ofile, cwd, calls>>

sys_chdir(p) ==
  /\ Section(p, "chdir")
  /\ LET i == k[p].cur
         f == ilock(fs, i)
         dir == f.ic[i].ino.type = "DIR"
     IN  /\ Goes(p, IF dir THEN iput(iunlock(f, i), cwd[p]) ELSE iunlockput(f, i), Idle)
         /\ cwd' = IF dir THEN [cwd EXCEPT ![p] = i] ELSE cwd
  /\ UNCHANGED <<ftable, ofile, calls>>

----------------------------------------------------------------------------
\* read and write begin: argfd, and the checks before the first ilock.
callFile(p, d, at, n) ==
  /\ Runs(p, "user") /\ calls < MaxCalls /\ ofile[p][d] # 0
  /\ IF at = "write" THEN ftable[ofile[p][d]].writable ELSE ftable[ofile[p][d]].readable
  /\ calls' = calls + 1
  /\ k' = [k EXCEPT ![p] = [Idle EXCEPT !.at = at, !.file = ofile[p][d], !.n = n,
                                         !.cur = ftable[ofile[p][d]].ip]]
  /\ UNCHANGED <<fs, ftable, ofile, cwd>>

fileread(p) ==
  /\ Section(p, "read")
  /\ LET r == k[p]
         f == ilock(fs, r.cur)
     IN  /\ Goes(p, iunlock(f, r.cur), Idle)
         /\ \E got \in readi(f, r.cur, ftable[r.file].off, r.n) :
              ftable' = IF got > 0 THEN [ftable EXCEPT ![r.file].off = @ + got] ELSE ftable
  /\ UNCHANGED <<ofile, cwd, calls>>

\* One turn of filewrite's loop, one transaction.
filewrite(p) ==
  /\ Section(p, "write")
  /\ LET r == k[p]
         f == ilock(fs, r.cur)
         n1 == Min({r.n, MaxChunk})
         off == ftable[r.file].off
     IN  \E put \in Written(f, r.cur, off, n1) :
         IF put < 0 THEN Goes(p, iunlock(f, r.cur), Idle) /\ ftable' = ftable
         ELSE /\ Goes(p, iunlock(writei(f, r.cur, off, n1), r.cur),
                      IF r.n = n1 THEN Idle ELSE [r EXCEPT !.n = @ - n1])
              /\ ftable' = [ftable EXCEPT ![r.file].off = @ + n1]
  /\ UNCHANGED <<ofile, cwd, calls>>

filedup(f) == [ftable EXCEPT ![f].ref = @ + 1]

sys_dup(p, d) ==
  /\ Runs(p, "user") /\ calls < MaxCalls /\ ofile[p][d] # 0 /\ fdalloc(p) # 0
  /\ calls' = calls + 1
  /\ ofile' = [ofile EXCEPT ![p][fdalloc(p)] = ofile[p][d]]
  /\ ftable' = filedup(ofile[p][d])
  /\ UNCHANGED <<fs, cwd, k>>

\* sys_close and fileclose: the last reference gives the inode back.
sys_close(p, d) ==
  /\ Runs(p, "user") /\ calls < MaxCalls /\ ofile[p][d] # 0
  /\ calls' = calls + 1
  /\ ofile' = [ofile EXCEPT ![p][d] = 0]
  /\ LET f == ofile[p][d] IN
     IF ftable[f].ref > 1 THEN ftable' = [ftable EXCEPT ![f].ref = @ - 1] /\ UNCHANGED <<fs, k>>
     ELSE ftable' = [ftable EXCEPT ![f] = NoFile] /\ Goes(p, iput(fs, ftable[f].ip), Idle)
  /\ UNCHANGED cwd

----------------------------------------------------------------------------
\* The kernel stopped in a panic, or the processes have made their calls.
stopped ==
  /\ fs.panic # "" \/ (calls = MaxCalls /\ \A p \in Procs : k[p] = Idle)
  /\ UNCHANGED vars

Call(p) ==
  \/ \E path \in Opens, c \in Modes : call(p, c, path, <<>>)
  \/ \E path \in Creates : call(p, "create", path, <<>>)
  \/ \E path \in Dirs : call(p, "mkdir", path, <<>>)
  \/ \E path \in Devs : call(p, "mknod", path, <<>>)
  \/ \E pair \in Links : call(p, "link", pair[1], pair[2])
  \/ \E path \in Unlinks : call(p, "unlink", path, <<>>)
  \/ \E path \in Chdirs : call(p, "chdir", path, <<>>)
  \/ \E d \in 1 .. NOFILE, n \in Writes, at \in {"read", "write"} : callFile(p, d, at, n)
  \/ \E d \in 1 .. NOFILE : sys_dup(p, d) \/ sys_close(p, d)

Next ==
  \/ \E p \in Procs :
       \/ Call(p) \/ ilockSleep(p) \/ iputFrees(p) \/ namex(p)
       \/ sys_open(p) \/ create(p) \/ createFound(p) \/ createNew(p)
       \/ linkOld(p) \/ sys_link(p) \/ linkBad(p)
       \/ sys_unlink(p) \/ unlinkIp(p) \/ unlinkEnd(p) \/ sys_chdir(p)
       \/ fileread(p) \/ filewrite(p)
  \/ stopped

Spec == Init /\ [][Next]_vars

----------------------------------------------------------------------------
\* The inode as the kernel sees it: the cached copy if there is one.
Inode(i) == IF fs.ic[i].valid THEN fs.ic[i].ino ELSE fs.dinode[i]

Allocated == {i \in Inums : fs.dinode[i].type # ""}

TreeOf(i) == [addrs |-> Inode(i).addrs, ptr |-> fs.ptr]

\* The panics that say the kernel's own structures are wrong (iput busy,
\* freeing free block, unlink: nlink < 1, create: dirlink, iunlock) never happen;
\* running out of inodes, of cache entries or of blocks may.  ilock meets a free
\* inode (ilock: no type) in one case only: the process that stops there walks
\* through the .. of its own current directory, which was removed, to the parent,
\* which is gone too.
NoPanic ==
  \/ fs.panic \in {"", "ialloc: no inodes", "iget: no inodes", "balloc: out of blocks"}
  \/ /\ fs.panic = "ilock: no type"
     /\ \E p \in Procs :
          LET d == cwd[p] IN
          /\ Inode(d).type = "DIR" /\ Inode(d).nlink = 0
          /\ k[p].at # "user" /\ Locks(k[p]) = fs.entries[d][".."] /\ Locks(k[p]) \notin Allocated

\* An entry of icache has exactly the references that working directories,
\* open files and calls in progress hold to it, and a file of ftable exactly
\* the descriptors: nothing is freed in use and nothing is kept for ever.
RefsCounted ==
  fs.panic = "" =>
    /\ \A i \in Inums :
         fs.ic[i].ref = Cardinality({p \in Procs : cwd[p] = i})
                      + Cardinality({f \in DOMAIN ftable : ftable[f].ref > 0 /\ ftable[f].ip = i})
                      + Cardinality({p \in Procs : k[p].cur = i /\ k[p].at \notin {"read", "write"}})
                      + Cardinality({p \in Procs : k[p].ip = i})
                      + Cardinality({p \in Procs : i \in k[p].frees})
    /\ \A f \in DOMAIN ftable :
         ftable[f].ref = Cardinality({<<p, d>> \in Procs \X (1 .. NOFILE) : ofile[p][d] = f})

\* No name dangles: what a directory on the disk names is an allocated inode,
\* whose link count is at least the number of its names.
NamesCounted ==
  fs.panic = "" =>
    \A i \in Inums :
      LET named == {<<d, n>> \in Allocated \X Names : fs.entries[d][n] = i}
      IN  named # {} => i \in Allocated /\ Inode(i).nlink >= Cardinality(named)

\* The block that bmap's indices lead to, 0 if a pointer on the way is null.
At(t, bn) ==
  FoldLeft(LAMBDA b, x : IF b = 0 THEN 0 ELSE t.ptr[b][x], t.addrs[Head(Steps(bn))],
           Tail(Steps(bn)))

\* A block belongs to one file, at one place, and the bitmap has it as used:
\* balloc never gives out a block that a file still uses.  Every byte below a
\* file's size has such a block, in the image mkfs wrote and after every write,
\* so readi never makes bmap allocate.
BlocksOwned ==
  \A i \in Allocated :
    LET n == (Inode(i).size + BSIZE - 1) \div BSIZE
        blocks == {At(TreeOf(i), bn) : bn \in 0 .. n - 1}
    IN  /\ Reach(TreeOf(i)) \subseteq fs.used
        /\ \A j \in Allocated \ {i} : Reach(TreeOf(i)) \cap Reach(TreeOf(j)) = {}
        /\ 0 \notin blocks /\ Cardinality(blocks) = n

\* q is between the section that took I_BUSY of inode i and the one that clears it.
Holds(q, i) ==
  \/ k[q].at \in {"new_ip", "unlink_ip"} /\ k[q].cur = i
  \/ k[q].at = "unlink_end" /\ k[q].ip = i
  \/ i \in k[q].frees

\* I_BUSY is set exactly while one process is in a call that will clear it: no
\* error path keeps a lock.  A process asleep in ilock waits for such a process,
\* so no wakeup is lost; and among the sleepers of any set one waits for a
\* process outside it, so they never wait for each other.
SleeperHasHolder ==
  fs.panic = "" =>
    /\ \A i \in Inums : Cardinality({q \in Procs : Holds(q, i)}) = IF fs.ic[i].busy THEN 1 ELSE 0
    /\ \A S \in SUBSET {p \in Procs : k[p].chan # 0} :
         S # {} => \E p \in S, q \in Procs \ S : Holds(q, k[p].chan)
============================================================================
