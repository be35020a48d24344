# xv6 GUI: a verification project in TLA+

The repository is xv6, a small Unix kernel for x86, with a graphical user
interface in the kernel (`window.c`, `gui.c`, `mouse.c`, `kbd.c`) and four
graphical applications (`desktop.c`, `explorer.c`, `editor.c`,
`imageviewer.c`). This directory has TLA+ modules that model its parts, TLC
configurations that check them on small instances, and proofs for TLAPS.
`PROJECT.json` lists components, runs, the source lines behind each definition,
findings, hazards and theorems. Line numbers are those of `src/`.

    tlc -config MCWindowQueue.cfg MCWindowQueue      # a run
    tlapm WindowQueueProofs.tla                      # the proofs of a module

## The system

| Part | State | Operations | Talks to |
|---|---|---|---|
| Window list (`window.c`) | `windowLine`, the links, `lastWindow` | create, delete, update, raise, move | painting, applications by system call |
| Painting (`gui.c`) | `screen_temp1` (all but the top window), `screen_temp2` (plus the top one), `screen` (plus the pointer), `focusIcon` | redraw everything, the top window, the pointer; focus of icons | reads windows in their processes' memory |
| Mouse (`mouse.c`) | `to_read`, buttons, `last_tick`, `drag_state`, `pwque`, pointer | one interrupt per byte; click, double click, right click, drag | window list, painting, handler flags of applications |
| Keyboard (`kbd.c`) | the text box of the top window | insert, erase, arrows | painting |
| Applications (`uwindow.c`, ...) | a window, its widgets, the `triggered` flags | poll the flags, run handlers | system calls |
| Log (`log.c`) | header in memory and on disk, `outstanding`, `committing` | `begin_op`, `log_write`, `end_op`, commit, recovery | buffer cache, disk |
| Buffer cache (`bio.c`), disk (`ide.c`) | buffers with a sector and flags, the LRU list, the request queue | bget, bread, bwrite, brelse, iderw, the interrupt | `sleep`/`wakeup`, log, file system |
| File system (`fs.c`, `file.c`, `sysfile.c`, `mkfs.c`) | inodes on disk and in the cache, bitmap, block pointers, directories, open files | open, create, link, unlink, mkdir, chdir, read, write, dup, close | log, processes |
| Pipes (`pipe.c`), shell (`sh.c`) | a ring with two counters; a command's tree | read, write, close; parse, run | open files, processes |
| Memory (`kalloc.c`, `vm.c`, `exec.c`) | the free list, page tables, sizes | fork's copy, exec, sbrk, exit, wait | processes |
| Processes (`proc.c`) | the process table | fork, exit, wait, sleep, wakeup, kill, the scheduler | everything |

What makes it hard: the mouse and keyboard handlers run in interrupts, between
any two instructions of a system call outside a locked section; they read and
write windows in the memory of other processes; system calls release the lock
before they redraw; `log_write` takes no lock; a crash may come between any two
disk writes; flags are cleared after the work they announce.

The build uses one CPU (`CPUS := 1` in the Makefile). A section under a
spinlock, and a whole interrupt, therefore run as one step, and the modules take
them as one action. Everything else may be preempted by the timer.

## The modules

**Windows.** `WindowQueue` models `window.c` down to the pointers: `next` and
`prev` are functions on the slots and the sentinel, `Walk` is what following one
of them visits. `sys_createWindow` and `sys_deleteWindow` are two actions each,
the locked section and the `redraw` after it. The desktop makes the first window
and never deletes it. `ZOrder` is the abstract specification, the windows as a
sequence, and `ImplementsZOrder` the refinement mapping. `Geometry` has the
arithmetic of places shared by the modules below.

**Mouse.** `MousePacket` is `mouseint` against a mouse that sends packets byte by
byte and a port, shared with the keyboard, that may lose a byte or have one of the
keyboard's in its place. `MouseEvent` classifies a packet's buttons;
`MouseClicks` adds the clock, with its width as a parameter (`WRAP` for 2^32).
`Mouse` composes them: what the first decodes, the second interprets.

**Gui** composes the window list (as `ZOrder`'s sequence), the places of the
windows, the mouse and keyboard handlers, drags and focus. A packet is one
action. Which widget is under the pointer is left open; what a click on each kind
does is not. `fault` names the first access that has no process to switch to or
from; the machine stops there.

**Painting** is `gui.c` point by point: the three buffers in one stretch of
memory, every widget's drawing with its transparency, the frame that is drawn
unclipped, the pointer and the focused icon. `astray` marks a focus drawn at a
place that is not repainted yet (`gui.c:728`); nothing is claimed after it.

**Editor** is the text box of `kbd.c` with its C array, its layout by
`drawTextBox`, and the load and save of `editor.c`. `overrun` marks a write
beyond the array; what follows is not modelled.

**Views** is the desktop and the explorer over the event loop of `uwindow.c`.
`at`, `ret`, `i` and `j` say where each process is: before the listing, at entry
`j` of it, at widget `i` of `handleEvent`, in the dialog's loop, in `wait`. The
mouse sets flags between any two of these steps. `meant` and `late` are history:
what an icon stood for when it was clicked, and which announcements came while
another was being handled.

**Log** models `log.c` with every `bwrite` as a step, crashes and recovery;
`Preemptible` says whether the timer may switch processes inside `log_write`.
`AtomicStore` is what it promises: the writes of operations that end together
survive a crash all or none.

**Disk.** `Ide` is the driver's queue and interrupt, `BufferCache` is `bio.c` over
it, `SectorStore` what both promise: a sector has one owner, who finds what the
last one left. Callers hold at most two buffers and take them in one order,
as the file system and the log do; the model names the first sector the lower. `ReadOk` says whether a read may fail; the run
has `{TRUE}`, because after a failed read `ideintr` marks the buffer valid with
its old bytes (`ide.c:106`), which is no store.

**Files.** `Blocks` has the bitmap, `bmap`, `itrunc` and the tree `mkfs` builds;
`Inodes` the inode cache and directories; `Files` the system calls of several
processes, cut at every `ilock`, where `iput` lets go of its lock, and in `unlink`
between the two inodes it gives up. Files are opened for reading, writing or both.

**Processes.** `Proc` is the process table, one operator per section under
`ptable.lock`; `Pipe` a pipe; `ShellCmd` the parser of `sh.c` and the calls
`runcmd` makes; `Processes` composes them with the open files, init, the desktop
and the round-robin scheduler on one CPU.

**Memory** is the free list, the page tables, and `fork`, `exec`, `sbrk`, `exit`
and `wait` cut between two pages, where the timer may preempt them.

Definitions headed "Variant" are altered copies of the definition after them,
each with one mistake. Nothing uses them; putting one in the place of the
original must make TLC report the property listed with it under `mutants`, which
shows that the property depends on that piece of code.

## What the runs check

| Run | Shows | Bounds |
|---|---|---|
| `window_queue` | `QueueOK`, `ScreenFresh`, and the refinement of `ZOrder` | 4 slots, 2 processes: a middle window with neighbours, a full table, two calls in their gaps |
| `mouse` | `Framed`, `HandsOnAsSent`: the decoder gets back in step and hands on what was sent; `DoubleClickHasFirstHalf`, `ClickIsNoDrag` | bytes of one bit with a sign, any losses and any bytes of the keyboard; a clock of 6 ticks that wraps for ever, an interval of 2 |
| `gui` | `OnScreen`, `TopInPlace`, `ClickReachesTop`, `MovesOnlyHeld` | 2 processes, desktop and two windows, 2x2 points, movements to every column and line and beyond |
| `painting` | `Composed`: the screen is the stack of windows; `PointerClean`; `IconsRestored` | 4x4 points, three windows with every kind of widget, one dragged over the whole screen |
| `log` | `AllOrNothing` over crashes; `SleeperHasOp`: who sleeps in `begin_op` has an operation or commit to wait for; `OpsEnd` | 3 processes, 2 blocks, room for two operations at once |
| `log_race` | a violation, see below | 2 processes |
| `editor` | `BoxOK`, `ArrowsMoveByLine`, `TextInBox`, `TypedIsShown` | texts of up to 5 characters from a letter and newline, every cursor place, boxes of a few columns |
| `disk` | `SleeperHasWaker`, the refinement of `SectorStore`, `IoReturns` | 2 processes, 2 buffers, 3 sectors, so that buffers are recycled and `bget` can run out |
| `memory` | `Accounted`, `SizeIsMapped` | 2 processes that need more than the 13 pages, 6 calls |
| `files` | `NoPanic`, `RefsCounted`, `NamesCounted`, `BlocksOwned`; `SleeperHasHolder`: a lock has one holder on its way to give it up, and sleepers never wait for each other | 2 processes, 4 calls in all, 1 direct, 2 indirect and 4 doubly indirect blocks, 2 open files |
| `processes` | `SleepsForReason`, `EndsCounted`, `OutputInOrder`, `NothingDropped`, `PromptReturns`, `InitKeepsUp` | 6 slots, a pipe of 1 byte whose counters wrap at 3, one line, one program started, one kill; every line of up to 5 tokens for the parser |
| `views` | `ShowsAll`, `OpensWhatWasClicked`, `CloseCloses` | 3 clicks, 7 descriptors, two files and a folder that may be made |

The bounds keep what decides. On the screen, a window can touch both edges, cover
the other, be under the pointer or not. Three clicks open the explorer and then
use its dialog, go back with an icon flagged, enter a directory again (which uses
up the descriptors), or start an editor and close; two editors are enough for one
announcement during the handling of another. Four file calls are enough for a
file to be unlinked while open and its inode taken again. The `VIEW`s drop what no
later step reads, and processes that are alike are a symmetry set in runs without
liveness.

**Fairness.** `log`: a process in an operation or commit is scheduled in the end;
crashes may come at any time and end the operation. `disk`: a process in `iderw`
is scheduled in the end, and the drive finishes what it was given. `processes`:
only that the CPU does not stop; that each process gets its turn follows from the
scheduler's loop, which is in the model. `views`: the desktop and the explorer are
scheduled in the end. Nothing is assumed of the user.

**Exceptions.** Some properties hold but for cases in which the code really does
otherwise. Each is part of the property's statement:

- `DoubleClickHasFirstHalf`: at tick 0 and in the 30 ticks before the clock
  wraps, the marker -30 looks like a recent release (`mouse.c:333`).
- `ClickIsNoDrag`: a right button released during a drag makes its end a click.
- `Composed`: the frame of a window at the upper edge falls into the last line of
  the buffer before (`gui.c:414`).
- `BoxOK`: `insertCharacter` does not check `MAX_STRING_NUM` (`kbd.c:24`) and `cat`
  fills the box without room for the terminator (`editor.c:34`), so a full array
  is overrun. The property says that only a full one is, and nothing after it.
- `TypedIsShown`: a loaded file's terminator counts as text, so what is typed
  behind it is neither shown nor saved (`editor.c:39`).
- `Accounted`: three paths lose pages when memory runs out (`setupkvm`,
  `copyuvm`'s "bad", `allocuvm`'s `mappages`). `SizeIsMapped`: after such a loss
  nothing is claimed, and a process that gives back all of its memory keeps its size (`proc.c:117`).
- `NoPanic`: `ilock: no type` in a process that walks through the `..` of its own
  current directory, removed, to a parent that is gone too (`sysfile.c:229`); and the panics for inodes, cache entries or blocks
  that have run out.
- `PromptReturns`, `InitKeepsUp`: until init panics for want of a process slot.
- `ShowsAll`: `handleEvent` clears the flag after the handler (`uwindow.c:15`), so a
  file announced during a refresh has no icon until the next change, though the
  technical document says that the desktop shows all files of the root; and `ls`
  never closes the directory (`desktop.c:120`), so a view shows nothing once its
  descriptors are used up.
- `CloseCloses`: the explorer's close button waits for a program started from it.

`Views` also has this: an explorer's path begins with a dot, so `suffix` never finds
an empty suffix and a program cannot be started from the explorer, only from the
desktop.

**A disagreement.** `log_race` is expected to end in a violation: two `log_write`
calls at once, which take no lock, lose a block from the log's header
(`log.c:224`), against the comment above it. `PROJECT.json` quotes both.

**Known and not covered by a property.** An event while the scheduler has no
process (`vm.c:171`, `Gui`'s fault "idle"); a click or drag one point beyond the last
column or line, which reaches the list's sentinel (`mouse.c:299`, the fault "walk");
a focus followed in the memory of another process (`gui.c:752`, the fault "focus"); a
drag that goes on with a slot that was given to another window (`mouse.c:276`); a log one block smaller than `begin_op`
plans with (`log.c:131`, the panic of `Log`) and `filewrite`'s chunks against
`MAXOPBLOCKS` (`file.c:132`); `bget` without a buffer (`bio.c:94`, in `disk` as a
panic); doubly indirect blocks that `itrunc` does not free (`fs.c:428`); text below
its box (`gui.c:213`); more files than widgets (`desktop.c:176`); a shorter text
saved over a longer one (`editor.c:170`).

## What is proved

The theorems below hold for every value of the constants that satisfies the
named assumptions, so for every number of processes, windows, buffers, blocks,
files and pipes; those of TLC's runs hold for the instances of the table above.
Each proof has the same frame: an inductive invariant, a lemma that `Init`
establishes it, a lemma that every step keeps it (one step per action), and a
last step of temporal logic. A refinement maps `Init` to the abstract `Init` and
each action to an abstract step or to no change, with the invariant as a
hypothesis. `tlapm X.tla` checks a module; the longest, `ProcessesSteps`, takes about
a quarter of an hour.

`Lists` has the few sequence operators the models share with the proofs, with
the meaning they have in `SequencesExt`; a module of their own keeps what every
proof obligation carries small. For the same reason the proofs of a component
begin with the facts about numbers and lists that they need: minima and maxima, an
element taken out of a list, a list of all elements of a set, and induction on a
set of naturals by its least counterexample (`InductionOnSet`), which takes the
place of the induction theorems with an operator parameter.

**`WindowQueueProofs`** (assumed: at least one slot; sentinel, null and "no
process" differ from slots and processes). `TypesAlwaysOK`, `QueueAlwaysOK`,
`DesktopAlwaysAtBottom`, `ScreenAlwaysFresh`: the list's shape, the desktop at its
bottom, a screen that shows the list. `ListIsZOrder`: the pointers implement the
sequence of `ZOrder`. `Walk` is the least set closed under a link, so what it
visits after a step is not a matter of the links alone. `Linked` states when a set
of nodes is a proper list from a first to a last node, and lemmas show that
appending, taking out and moving a node keep it. `QueueOK` is inductive with
`TypeOK` and `DesktopAtBottom`; `ScreenFresh` needs all of them, because an update of
the top window alone is right only if the rest of the screen was. For the
refinement, the sequence is characterised by its neighbours (`f` leads from each
element to the next) and shown to be unique.

**`GuiProofs`** (assumed: windows open inside a screen of at least one point).
`WindowsStayOnScreen`: every slot's window is a frame inside the screen;
`ShiftStays` is the arithmetic of `moveWindow`'s two corrections, of which the
second never undoes the first, because the window is no larger than the screen.
`TopIsPainted`: `TopInPlace` is inductive once the places in the system calls are
known, because a drag and every call that changes the list end by painting.
`WindowsMoveOnlyHeld` and `ClicksReachTop` are action properties; they need that the list has no window twice and that the search from
the top finds the last window that holds a point.

**`MouseProofs`** (assumed: the movements fit nine bits; two intervals fit the
clock). `StaysFramed`, `IntactPacketsArrive`, `DragsAreNoClicks`,
`DoubleClicksHaveFirstHalf`. The invariant says what the decoder holds of a packet
of which nothing was lost yet, how the buttons and the last event go together,
and that `last_tick` is either the marker or the reading of the clock at the last
release.

**`EditorProofs`** (assumed: an array of at least one character; a box at least
two glyphs wide). `BoxStaysOK`, `TypedTextIsShown`, `ArrowsKeepColumn`,
`TextStaysInBox`. The invariant is `BoxOK` with types, until a write beyond the
array, which `Full` shows to be full by then; the rest are facts about scans: the place after the last newline, the next
newline, the first terminator, and what one character adds to the layout.

**`BufferCacheProofs`** (assumed: a natural number of buffers). `Invariant`,
`NobodySleepsForever`, `OtherPanicsUnreachable`, and, for a drive without read
errors (`ReadOk = {TRUE}`), `CacheIsStore`. The invariant: the LRU list has every
buffer once; a busy buffer has one holder and a sector one buffer; a buffer has
data unless its holder is on the way through `iderw`; the queue has exactly the
requests whose process waits in `iderw`, each once, and the drive works on the
first. `SleeperHasWaker` alone is not inductive: that the holder of a buffer will
come back from `iderw` depends on the queue. The refinement also needs `Clean`, that
a buffer without changes has what the disk has, which a read error breaks
(`ide.c:106`).

**`LogProofs`** (assumed: finitely many processes; a log with room for one operation;
`Preemptible = FALSE`).
`Invariant`, `PinnedAreLogged`, `LogIsAtomic`, `SleepersHaveWaker`. The invariant says for each phase of a
commit and of recovery what the header on the disk lists, how far the loops of
`write_log` and `install_trans` have come, which blocks are pinned, and that the
cache agrees with the disk elsewhere. With it, a crash at any write leaves a disk
from which recovery makes the state before the commit or after it. `SleeperHasOp` needs
besides that a commit has a process that does it, and that with nobody in an
operation or commit the header in memory is empty, so that an operation finds room
(`MAXOPBLOCKS <= LOGSIZE`). The assumption
that the timer does not switch inside `log_write` is needed: `log_race` breaks
`PinnedIsLogged` without it.

**`ProcessesSteps`** and **`ProcessesProofs`** (assumed: at least two processes and two
descriptors, one file, one pipe; pipe counters that wrap at a multiple of the pipe's size).
`Invariant`, `NoWakeupIsLost`. `SleepsForReason` is not inductive. That the parent
of a process that exits is woken, and the children it leaves have `init` for a
parent, settles `wait` only if a free slot and one being forked are nobody's child,
and if a process halfway through `fork` has a child of its own in state `EMBRYO`. A
pipe holds no more than its size although both counters wrap. And a program writes
at most a pipe's size at once: this is needed, because a killed writer that fills
an empty pipe and finds no more room returns without waking the reader
(`pipe.c:85`). `echo` and `cat` keep to it (`cat` reads no more than a pipe gives),
and code that is forked writes nothing before it runs a program. The parts of the
invariant are predicates on explicit tables, so that what a step makes of each is
a lemma about functions. `ProcessesSteps` has the invariant, the scheduler, the
programs and the calls that make, end and wait for processes; `ProcessesProofs` the
calls on files and pipes and the theorems.

**Only model-checked.** Liveness (`OpsEnd`, `IoReturns`, `PromptReturns`, `InitKeepsUp`,
`CloseCloses`) is out of the proof system's reach, as is induction over data: the
parser (`NothingDropped`), the order of bytes through several pipes
(`OutputInOrder`), the trees of `bmap` against `mkfs`, page tables and the painted
screen, whose modules use recursion or folds. The invariants of `Painting`,
`Memory`, `Files` and `Views`, and `EndsCounted` of `Processes`, are for TLC alone.

## What is not modelled

- Fonts and the reading of bitmaps, scan code tables and shift states, captions:
  data that no property tells apart.
- The image viewer: one picture and a close button, with no state of its own.
- Several CPUs and the spinlocks: the build has one CPU, on which a locked section
  is one step.
- Boot code, trap entry, interrupt controllers, the serial line and the console's
  output: straight-line code on device registers.
- Command line tools (`ls`, `wc`, `grep`, ...): sequential, with no state beyond
  their input. `usertests` and `forktest` are tests.
- The memory disk and the probing for a second drive.
- `Gui` with `Processes`, and `Files` with `Log`: each composition is out of TLC's
  reach, so the window of a killed process (`proc.c:173`) and the number of blocks
  a system call logs are not covered.

## Plan

1. **Proofs**: `EndsCounted` of `Processes`, on top of its invariant, and `RefsCounted` of `Files`; `Accounted` of
   `Memory`, whose free list is a list of all pages not mapped.
2. **Composition**: a smaller abstraction of `Processes` under `Gui`, for windows of
   processes that exit; `Files` over `AtomicStore`, for crashes between calls.
3. **Keyboard and console**: the shift states of `kbdgetc`, and the line editing of
   `consoleintr`.
