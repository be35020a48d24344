------------------------------- MODULE Views --------------------------------
(***************************************************************************)
(* The desktop and the explorer (desktop.c, explorer.c): windows full of   *)
(* icons of a directory, driven by handleEvent of uwindow.c.               *)
(*                                                                         *)
(* The mouse interrupt sets a flag in a widget at any moment; handleEvent  *)
(* looks at the flags in turn, calls the handler of one that is set and    *)
(* clears it when the handler returns.  A process that made a file calls   *)
(* fileSystemChanged, which sets a flag in every window.  The programs     *)
(* started by a double click are here as makers of files, as the editor is.*)
(*                                                                         *)
(* A widget is its index in the window, as the code counts: first the      *)
(* fixed ones, in the explorer close, new folder and back, then the icons. *)
(***************************************************************************)
EXTENDS Integers, FiniteSets, SequencesExt

CONSTANTS
  NOFILE,      \* open files per process
  STDIO,       \* the descriptors a process starts with
  Kind,        \* what each name is: "dir", "txt", "bmp" or "prog"
  Saved,       \* the names programs may give new files, in the root
  Image,       \* the directories at the start, by path
  MaxClicks    \* bound: clicks of the user

ASSUME ViewsAssumption ==
  /\ STDIO \in Nat /\ NOFILE \in Nat /\ STDIO < NOFILE
  /\ <<>> \in DOMAIN Image /\ Saved \cup {"n"} \subseteq DOMAIN Kind
  /\ Kind["n"] = "dir" /\ \A s \in Saved : Kind[s] # "dir"

VARIABLES
  tree,        \* the entries of each directory
  app,         \* the desktop and the explorer, see Opened
  dialog,      \* the explorer's: open, and its flags
  child,       \* the programs started: at, parent, the file made
  clicks,
  meant,       \* the path each icon stood for when it was double clicked
  late         \* names announced to a view while it handled another change

vars == <<tree, app, dialog, child, clicks, meant, late>>

Apps == {"desktop", "explorer"}

Paths == DOMAIN Image

\* The widgets before the icons.
FIXED == [desktop |-> 1, explorer |-> 3]
CloseButton == 0
NewButton == 1
BackButton == 2
OkButton == 1

\* A process whose window has just been opened on directory wd: at, where it
\* is in its code; ret, the handler whose return is awaited; i, the widget
\* handleEvent looks at; j, the next entry ls reads; icon, the names shown;
\* trig, the widgets flagged; fs, the window's own flag; fd, the descriptors.
Opened(wd, fd) ==
  [at |-> "refresh", ret |-> "main", i |-> 0, j |-> 0, wd |-> wd, icon |-> <<>>,
   trig |-> {}, fs |-> FALSE, fd |-> fd]

Off == [Opened(<<>>, 0) EXCEPT !.at = "off"]

NoDialog == [open |-> FALSE, trig |-> {}]

Init ==
  /\ tree = Image
  /\ app = [desktop |-> Opened(<<>>, STDIO), explorer |-> Off]
  /\ dialog = NoDialog
  /\ child = <<>>
  /\ clicks = 0
  /\ meant = [a \in Apps |-> <<>>]
  /\ late = [a \in Apps |-> {}]

files == <<tree, dialog, child, clicks, meant>>

----------------------------------------------------------------------------
\* refresh and ls.
refresh(r) == [r EXCEPT !.at = "refresh", !.icon = <<>>]

\* The descriptor of the directory is never closed.
lsOpen(a) ==
  /\ app[a].at = "refresh"
  /\ app' = [app EXCEPT ![a] = IF @.fd = NOFILE THEN [@ EXCEPT !.at = "return"]
                               ELSE [@ EXCEPT !.fd = @ + 1, !.at = "ls", !.j = 1]]
  /\ UNCHANGED <<files, late>>

\* Variant: the icon's structure is not cleared first.
addIconKeeping(r, name, fixed) == [r EXCEPT !.icon = Append(@, name)]

addIcon(r, name, fixed) ==
  [r EXCEPT !.icon = Append(@, name), !.trig = @ \ {fixed + Len(r.icon)}]

\* Reads one entry; stat needs a descriptor.
lsRead(a) ==
  LET r == app[a]
      entries == tree[r.wd]
  IN  /\ r.at = "ls"
      /\ app' = [app EXCEPT ![a] =
           IF r.j > Len(entries) THEN [r EXCEPT !.at = "return"]
           ELSE LET next == [r EXCEPT !.j = @ + 1]
                IN  IF r.fd = NOFILE THEN next ELSE addIcon(next, entries[r.j], FIXED[a])]
      /\ UNCHANGED <<files, late>>

----------------------------------------------------------------------------
\* handleEvent: the window's own flag first.
fileSystemChanged(a) ==
  LET r == app[a]
  IN  /\ r.at = "event"
      /\ app' = [app EXCEPT ![a] = IF r.fs THEN [refresh(r) EXCEPT !.ret = "fs"]
                                   ELSE [r EXCEPT !.at = "widgets", !.i = 0]]
      /\ late' = [late EXCEPT ![a] = IF r.fs THEN {} ELSE @]
      /\ UNCHANGED files

\* A handler has returned: its flag is cleared.
clearTrigger(a) ==
  LET r == app[a]
  IN  /\ r.at = "return"
      /\ app' = [app EXCEPT ![a] =
           CASE r.ret = "main" -> [r EXCEPT !.at = "event"]
             [] r.ret = "fs" -> [r EXCEPT !.at = "widgets", !.i = 0, !.fs = FALSE]
             [] r.ret = "widget" -> [r EXCEPT !.at = "widgets", !.i = @ + 1, !.trig = @ \ {r.i}]]
      /\ UNCHANGED <<files, late>>

\* The widget looked at has a flag and a handler.
Triggered(a, i) ==
  /\ app[a].at = "widgets" /\ app[a].i = i
  /\ i \in app[a].trig /\ i < FIXED[a] + Len(app[a].icon)
  /\ a = "desktop" => i >= FIXED[a]

nextWidget(a) ==
  LET r == app[a]
  IN  /\ r.at = "widgets" /\ ~Triggered(a, r.i)
      /\ app' = [app EXCEPT ![a] = IF r.i < FIXED[a] + Len(r.icon) THEN [r EXCEPT !.i = @ + 1]
                                   ELSE [r EXCEPT !.at = "event"]]
      /\ UNCHANGED <<files, late>>

----------------------------------------------------------------------------
\* The handlers of icons.
Clicked(a) == app[a].icon[app[a].i - FIXED[a] + 1]

\* Starts a program.
fork(parent) ==
  /\ child' = Append(child, [at |-> "run", parent |-> parent, file |-> ""])
  /\ UNCHANGED <<tree, dialog, clicks, meant>>

\* The desktop opens an explorer on a directory and anything else by its suffix,
\* a file without one as a program.
desktopIcon ==
  LET r == app.desktop
      path == Append(r.wd, Clicked("desktop"))
  IN  /\ Triggered("desktop", r.i)
      /\ IF Kind[Last(path)] = "dir"
         THEN /\ app' = [desktop |-> [r EXCEPT !.at = "return", !.ret = "widget"],
                         explorer |-> Opened(path, r.fd)]
              /\ late' = [late EXCEPT !["explorer"] = {}]
              /\ UNCHANGED files
         ELSE /\ fork("desktop")
              /\ app' = [app EXCEPT !["desktop"] = [@ EXCEPT !.at = "return", !.ret = "widget"]]
              /\ UNCHANGED late

\* The explorer lists a directory itself.  Its paths begin with a dot, so the
\* suffix of a file without one is not empty, and it is not started.
iconOnLeftDoubleClick ==
  LET r == app.explorer
      path == Append(r.wd, Clicked("explorer"))
  IN  /\ Triggered("explorer", r.i) /\ r.i >= FIXED.explorer
      /\ IF Kind[Last(path)] = "dir"
         THEN /\ app' = [app EXCEPT !["explorer"] = [refresh(r) EXCEPT !.ret = "widget", !.wd = path]]
              /\ late' = [late EXCEPT !["explorer"] = {}]
              /\ UNCHANGED files
         ELSE /\ app' = [app EXCEPT !["explorer"] = [@ EXCEPT !.at = "return", !.ret = "widget"]]
              /\ IF Kind[Last(path)] \in {"txt", "bmp"} THEN fork("explorer") ELSE UNCHANGED files
              /\ UNCHANGED late

----------------------------------------------------------------------------
\* The explorer's buttons.
Explorer(at) == app' = [app EXCEPT !["explorer"] = [@ EXCEPT !.at = at, !.ret = "widget"]]

backup ==
  LET r == app.explorer
  IN  /\ Triggered("explorer", BackButton)
      /\ IF r.wd = <<>> THEN Explorer("return") /\ UNCHANGED late
         ELSE /\ app' = [app EXCEPT !["explorer"] = [refresh(r) EXCEPT !.ret = "widget", !.wd = Front(@)]]
              /\ late' = [late EXCEPT !["explorer"] = {}]
      /\ UNCHANGED files

showDialog ==
  /\ Triggered("explorer", NewButton)
  /\ Explorer("dialog")
  /\ dialog' = [dialog EXCEPT !.open = TRUE, !.trig = @ \ {CloseButton}]
  /\ UNCHANGED <<tree, child, clicks, meant, late>>

\* The loop of showDialog: the close button first, then OK, if it is flagged by
\* then; without a window the loop ends.
closeDialog ==
  /\ app.explorer.at = "dialog" /\ dialog.open /\ CloseButton \in dialog.trig
  /\ dialog' = [open |-> FALSE, trig |-> dialog.trig \ {CloseButton}]
  /\ UNCHANGED <<tree, app, child, clicks, meant, late>>

\* OK: newFolder closes the dialog first.
newFolder ==
  /\ app.explorer.at = "dialog" /\ OkButton \in dialog.trig
  /\ Explorer("mkdir")
  /\ dialog' = [dialog EXCEPT !.open = FALSE]
  /\ UNCHANGED <<tree, child, clicks, meant, late>>

dialogEnds ==
  /\ app.explorer.at = "dialog" /\ dialog = NoDialog
  /\ Explorer("return")
  /\ UNCHANGED <<files, late>>

mkdir ==
  /\ app.explorer.at = "mkdir"
  /\ LET wd == app.explorer.wd
     IN  tree' = [tree EXCEPT ![wd] = IF Contains(@, "n") THEN @ ELSE Append(@, "n")]
  /\ Explorer("announce")
  /\ UNCHANGED <<dialog, child, clicks, meant, late>>

\* Variant: the caller's own window is left out.
sys_fileSystemChangedOthers(caller, at, dir, name) ==
  /\ app' = [a \in Apps |->
       IF a = caller THEN [app[a] EXCEPT !.at = at]
       ELSE [app[a] EXCEPT !.fs = (app[a].at # "off")]]
  /\ UNCHANGED late

\* Flags every window that is open; late keeps what the clearing of the flag
\* will forget.  at is where the caller, if it is a view, goes on.
sys_fileSystemChanged(caller, at, dir, name) ==
  LET handling(a) == app[a].at \in {"refresh", "ls", "return"} /\ app[a].ret = "fs"
  IN  /\ app' = [a \in Apps |->
           [app[a] EXCEPT !.fs = (app[a].at # "off"), !.at = IF a = caller THEN at ELSE @]]
      /\ late' = [a \in Apps |->
           IF handling(a) /\ app[a].wd = dir THEN late[a] \cup {name} ELSE late[a]]

\* The end of newFolder and of the dialog's loop.
announce ==
  /\ app.explorer.at = "announce"
  /\ sys_fileSystemChanged("explorer", "return", app.explorer.wd, "n")
  /\ dialog' = NoDialog
  /\ UNCHANGED <<tree, child, clicks, meant>>

\* The close button of the explorer.
closeClicked ==
  /\ Triggered("explorer", CloseButton)
  /\ Explorer("wait")
  /\ UNCHANGED <<files, late>>

Children == {c \in DOMAIN child : child[c].parent = "explorer" /\ child[c].at # "gone"}

Zombies == {c \in Children : child[c].at = "zombie"}

\* exit leaves the children to init.
Orphaned(c) == [c EXCEPT !.parent = "init", !.at = IF @ = "zombie" THEN "gone" ELSE @]

exit ==
  /\ app' = [app EXCEPT !["explorer"] = Off]
  /\ child' = [c \in DOMAIN child |-> IF c \in Children THEN Orphaned(child[c]) ELSE child[c]]
  /\ UNCHANGED <<tree, dialog, clicks, meant, late>>

\* Variant: wait only returns with a child.
closeWaiting == app.explorer.at = "wait" /\ Zombies # {} /\ exit

\* wait returns when there is a zombie or no child at all.
closeWindow == app.explorer.at = "wait" /\ (Zombies # {} \/ Children = {}) /\ exit

----------------------------------------------------------------------------
\* A program: the editor saves a new file in the root directory, announces it,
\* and is closed.  Every program
\* started is taken for an editor.  A bound: each makes one file.
saveFile(c) ==
  /\ child[c].at = "run" /\ child[c].file = ""
  /\ \E s \in Saved \ ToSet(tree[<<>>]) :
       /\ tree' = [tree EXCEPT ![<<>>] = Append(@, s)]
       /\ child' = [child EXCEPT ![c].at = "made", ![c].file = s]
  /\ UNCHANGED <<app, dialog, clicks, meant, late>>

saved(c) ==
  /\ child[c].at = "made"
  /\ sys_fileSystemChanged("", "", <<>>, child[c].file)
  /\ child' = [child EXCEPT ![c].at = "run"]
  /\ UNCHANGED <<tree, dialog, clicks, meant>>

closeProgram(c) ==
  /\ child[c].at = "run"
  /\ child' = [child EXCEPT ![c].at = IF child[c].parent = "explorer" THEN "zombie" ELSE "gone"]
  /\ UNCHANGED <<tree, app, dialog, clicks, meant, late>>

----------------------------------------------------------------------------
\* The mouse interrupt.
Click == clicks < MaxClicks /\ clicks' = clicks + 1 /\ UNCHANGED <<tree, child, late>>

handleLeftClick(w) ==
  /\ Click /\ app.explorer.at # "off"
  /\ app' = [app EXCEPT !["explorer"].trig = @ \cup {w}]
  /\ UNCHANGED <<dialog, meant>>

\* CloseButton is the dialog's close button, OkButton its OK.
dialogClick(w) ==
  /\ Click /\ dialog.open
  /\ dialog' = [dialog EXCEPT !.trig = @ \cup {w}]
  /\ UNCHANGED <<app, meant>>

\* A bound: directories of Paths only, and one explorer at a time.
Followed(a, path) ==
  Kind[Last(path)] = "dir" =>
    /\ path \in Paths
    /\ a = "desktop" => app.explorer.at = "off" /\ app.desktop.trig = {}

handleLeftDoubleClick(a, k) ==
  /\ Click /\ k \in DOMAIN app[a].icon
  /\ LET path == Append(app[a].wd, app[a].icon[k])
     IN  /\ Followed(a, path)
         /\ meant' = [meant EXCEPT ![a] = [m \in DOMAIN @ \cup {k} |-> IF m = k THEN path ELSE @[m]]]
  /\ app' = [app EXCEPT ![a].trig = @ \cup {FIXED[a] + k - 1}]
  /\ UNCHANGED dialog

View(a) ==
  \/ lsOpen(a) \/ lsRead(a) \/ fileSystemChanged(a) \/ clearTrigger(a) \/ nextWidget(a)
  \/ a = "desktop" /\ desktopIcon
  \/ /\ a = "explorer"
     /\ \/ iconOnLeftDoubleClick \/ backup \/ showDialog \/ closeDialog \/ newFolder
        \/ dialogEnds \/ mkdir \/ announce \/ closeClicked \/ closeWindow

User ==
  \/ \E w \in {CloseButton, NewButton, BackButton} : handleLeftClick(w)
  \/ \E w \in {CloseButton, OkButton} : dialogClick(w)
  \/ \E a \in Apps : \E k \in DOMAIN app[a].icon : handleLeftDoubleClick(a, k)
  \/ \E c \in DOMAIN child : saveFile(c) \/ closeProgram(c)

Next ==
  \/ \E a \in Apps : View(a)
  \/ User
  \/ \E c \in DOMAIN child : saved(c)

Spec == Init /\ [][Next]_vars

\* The timer switches between processes that can run; the user owes nothing.
FairSpec == Spec /\ \A a \in Apps : WF_vars(View(a))

----------------------------------------------------------------------------
\* A file exists that its maker has still to announce.
Unannounced ==
  \/ app.explorer.at = "announce"
  \/ \E c \in DOMAIN child : child[c].at = "made"

\* A view at rest (handleEvent between two handlers) with no change flagged or
\* still to be announced shows its directory, each entry once and in order,
\* whatever the order of clicks, listings and announcements.  Two exceptions of
\* the code: a change announced while the view handles an earlier one loses its
\* flag when that handler returns (uwindow.c), and a view that has used up its
\* descriptors, since ls never closes the directory, shows nothing more.
ShowsAll ==
  \A a \in Apps :
    app[a].at \in {"event", "widgets"} /\ ~app[a].fs /\ ~Unannounced =>
      \/ app[a].fd = NOFILE
      \/ \E missed \in SUBSET late[a] :
           app[a].icon = SelectSeq(tree[app[a].wd], LAMBDA n : n \notin missed)

\* A flagged icon on display still stands for the file that was double clicked:
\* a listing between the click and its handler, which reuses the icons by
\* position (ls of desktop.c and explorer.c), never makes it open another file.
OpensWhatWasClicked ==
  \A a \in Apps : \A k \in DOMAIN app[a].icon :
    FIXED[a] + k - 1 \in app[a].trig => meant[a][k] = Append(app[a].wd, app[a].icon[k])

\* The explorer whose close button was clicked goes away, unless it shows its
\* dialog or a program it started is still running, for which closeWindow waits.
CloseCloses ==
  app.explorer.at # "off" /\ CloseButton \in app.explorer.trig ~>
    \/ app.explorer.at \in {"off", "dialog"}
    \/ Children \ Zombies # {}
=============================================================================
