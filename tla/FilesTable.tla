------------------------------ MODULE FilesTable ------------------------------
(***************************************************************************)
(* The rows of the files panel (pkg/filetug: fs_records.go, files_ui.go,   *)
(* files_selection.go), row by row: which entries of a listing a filter    *)
(* leaves visible, what the table draws in a row, and what the keys act on *)
(* when the cursor is there.  Four things index the same listing: the      *)
(* cursor counts drawn rows, the keys count visible entries, the memory of *)
(* the last file counts all entries, and the cached file information is    *)
(* written by one count and read by another.  With them, F8                *)
(* (nav_delete.go), the new-file panel (new_panel.go), and the git status  *)
(* texts that workers write into the rows (files_git.go).                  *)
(*                                                                         *)
(* The loading of a listing is one step here; its interleavings are in     *)
(* Navigator.  Every key and every update of the event loop is followed by *)
(* a drawing of all rows: the table is taken to fit the screen.            *)
(***************************************************************************)
EXTENDS Integers, Sequences, FiniteSets

CONSTANTS
  Store, Local,  \* the stores; the one on disk, the only one that can write
  Dir, Root,     \* directories; the one whose path is "/"
  Order,         \* all names, directories first: the order of sortDirChildren
  DirName,       \* names of directories
  HiddenName,    \* names that start with "."
  Ext, ExtOf,    \* file extensions, and [name -> extension]
  InitDisk,      \* [Store -> [Dir -> set of names]]
  InRepo,        \* the local directories in a git work tree
  Changed,       \* names with changes there: those that get a status text
  MaxEvents,     \* bound on the events of a behaviour
  None

Range_(s) == {s[i] : i \in DOMAIN s}
Name == Range_(Order)

\* A directory holds a name once.
ASSUME OrderAssumption ==
  /\ Order \in Seq(Name)
  /\ \A i, j \in DOMAIN Order : Order[i] = Order[j] => i = j

ASSUME FilesTableAssumption ==
  /\ Local \in Store /\ Root \in Dir
  /\ DirName \subseteq Name /\ HiddenName \subseteq Name
  /\ ExtOf \in [Name -> Ext]
  /\ InitDisk \in [Store -> [Dir -> SUBSET Name]]
  /\ InRepo \subseteq Dir /\ Changed \subseteq Name
  /\ MaxEvents \in Nat
  /\ None \notin Name \cup Store

VARIABLES
  disk,       \* what the stores hold
  store,      \* nav.store
  rows,       \* f.rows, or None
  shown,      \* the table draws f.rows (and not "Loading...")
  selectable, \* the table lets the user move the cursor
  cursor,     \* the table's selected row
  current,    \* f.currentFileName, or None
  texts,      \* f.rows.gitStatusText: the entries that have a text
  painted,    \* those whose text the last drawing of f.rows has shown
  jobs,       \* git status requests of listings, from Submit to the redraw
  deletes,    \* operations that F8 has started
  hung,       \* the event loop waits for itself
  events      \* number of events so far; identifies listings and operations

vars == <<disk, store, rows, shown, selectable, cursor, current, texts, painted,
          jobs, deletes, hung, events>>

-----------------------------------------------------------------------------
\* What a loop over s that picks the positions S appends to a new slice.
InOrder(S) == [k \in 1 .. Cardinality(S) |-> CHOOSE i \in S : Cardinality({j \in S : j <= i}) = k]
Pick(s, S) == [k \in DOMAIN InOrder(S) |-> s[InOrder(S)[k]]]

\* FileRows.  Infos has a place for each of the entries, VisualInfos one for
\* each visible entry; of the information we keep whose it is.  "shifted"
\* remembers whether a filter ever hid an entry before a visible one.

\* Filter.IsVisible; nothing sets ShowHidden.
IsVisible(n, f) ==
  /\ n \notin HiddenName
  /\ n \in DirName => f.showDirs
  /\ f.extensions # {} => ExtOf[n] \in f.extensions

\* FileRows.SetFilter and applyFilter.
SetFilter(r, f) ==
  LET kept == {i \in DOMAIN r.all : IsVisible(r.all[i], f)}
  IN [r EXCEPT !.visible = Pick(r.all, kept), !.visual = Pick(r.infos, kept),
               !.shifted = @ \/ kept # 1 .. Cardinality(kept)]

NewFileRows(s, d, names) ==
  LET all == Pick(Order, {i \in DOMAIN Order : Order[i] \in names})
      nothing == [i \in DOMAIN all |-> None]
  IN [id |-> events', from |-> s, dir |-> d, all |-> all, visible |-> all,
      infos |-> nothing, visual |-> nothing, shifted |-> FALSE]

DrawnByRow(r) ==  \* mutant of Drawn: the row number is the index, not i
  [r EXCEPT !.infos = [i \in DOMAIN @ |->
     IF i - 1 \in DOMAIN r.visible /\ r.visual[i - 1] = None THEN r.visible[i - 1] ELSE @[i]]]

\* GetCell for every row: information that is missing is read and stored, at
\* the index of the visible entry.
Drawn(r) ==
  [r EXCEPT !.infos = [i \in DOMAIN @ |->
     IF i \in DOMAIN r.visible /\ r.visual[i] = None THEN r.visible[i] ELSE @[i]]]

\* GetRowCount; at "/" there is no row for the parent.
RowCount(r) == IF r.dir = Root THEN Len(r.visual) ELSE Len(r.visible) + 1

EntryAt(r, i) == IF i \in DOMAIN r.visible THEN r.visible[i] ELSE None

\* The entry GetCell draws in a row: None for the parent and "No entries".
DrawnAt(r, row) == EntryAt(r, IF r.dir = Root THEN row + 1 ELSE row)

AmongAll(r, row) == IF row \in DOMAIN r.all THEN r.all[row] ELSE None  \* mutant of CurrentEntry

\* GetCurrentEntry: the row before is always taken to be the parent's.
CurrentEntry(r, row) == EntryAt(r, row)

\* entryFromRow: what a cursor in a row previews.  For the first row it asks
\* the cell, if the table has one for an entry.
EntryFromRow(r, row, drawn) ==
  IF row = 0 THEN (IF drawn THEN DrawnAt(r, 0) ELSE None) ELSE EntryAt(r, row)

RememberAny(r, row, drawn, before) ==  \* mutant of Remember: directories are remembered too
  LET e == EntryFromRow(r, row, drawn) IN IF e # None THEN e ELSE before

\* selectionChanged: rememberCurrent keeps the name of a file.
Remember(r, row, drawn, before) ==
  LET e == EntryFromRow(r, row, drawn) IN IF e \in Name \ DirName THEN e ELSE before

IndexIn(s, n) == IF n \in Range_(s) THEN CHOOSE i \in DOMAIN s : s[i] = n ELSE 0

AmongFiles(r, n) ==  \* mutant of FindFile: directories are not counted
  IndexIn(Pick(r.all, {i \in DOMAIN r.all : r.all[i] \notin DirName}), n)

\* selectCurrentFile looks for a name among all entries; 0 if it is not there.
FindFile(r, n) == IndexIn(r.all, n)

Cursor(r, i, row) == IF i = 0 THEN row ELSE i
RememberFound(r, i, row, drawn, before) ==
  IF i \in {0, row} THEN before ELSE Remember(r, i, drawn, before)

-----------------------------------------------------------------------------
Init ==
  /\ disk = InitDisk
  /\ store \in Store
  /\ rows = None
  /\ shown = FALSE
  /\ selectable = TRUE
  /\ cursor = 0
  /\ current \in (Name \ DirName) \cup {None}
  /\ texts = {} /\ painted = {}
  /\ jobs = {} /\ deletes = {}
  /\ hung = FALSE
  /\ events = 0

\* The event loop draws after every event: what an event leaves in f.rows is
\* on the screen, unless the table shows "Loading...".
Paint == painted' = IF shown' THEN texts' ELSE painted

UserEvent == ~hung /\ events < MaxEvents /\ events' = events + 1

\* filesPanel.SetRows: the cursor goes to the first row of the old listing
\* and then, if the file it remembers is listed, to that file's index.
SetRows(r, showDirs) ==
  LET new == SetFilter(r, [showDirs |-> showDirs, extensions |-> {}])
      known == IF rows = None THEN current ELSE Remember(rows, 0, shown, current)
      at == IF known = None THEN 0 ELSE FindFile(new, known)
  IN /\ rows' = Drawn(new)
     /\ shown' = TRUE
     /\ cursor' = Cursor(new, at, 0)
     /\ current' = RememberFound(new, at, 0, TRUE, known)
     /\ texts' = {}

\* updateGitStatuses submits a request for every entry; onGitStatus does
\* nothing for those without changes, which are left out.
JobsOf(r) ==
  IF store = Local /\ r.dir \in InRepo
  THEN {[rows |-> r.id, name |-> n, at |-> "asked"] : n \in Changed \cap Range_(r.all)}
  ELSE {}

\* Navigator.onDataLoaded, for a listing of d that nav.store gave.
DataLoaded(d, showDirs) ==
  LET r == NewFileRows(store, d, disk[store][d]) IN
  /\ UserEvent
  /\ SetRows(r, showDirs)
  /\ selectable' = TRUE
  /\ jobs' = jobs \cup JobsOf(r)
  /\ UNCHANGED <<disk, store, deletes, hung>>
  /\ Paint

\* Navigator.showNodeError: an empty listing for the node's directory.
NodeError(d) ==
  /\ UserEvent
  /\ SetRows(NewFileRows(store, d, {}), FALSE)
  /\ UNCHANGED <<disk, store, selectable, jobs, deletes, hung>>
  /\ Paint

\* filesPanel.onStoreChange: the table shows "Loading...", f.rows stays.
StoreChange(s) ==
  /\ UserEvent
  /\ s # store
  /\ store' = s
  /\ shown' = FALSE /\ selectable' = FALSE
  /\ UNCHANGED <<disk, rows, cursor, current, texts, jobs, deletes, hung>>
  /\ Paint

\* A key of the table moves the cursor.
MoveCursor(row) ==
  /\ UserEvent
  /\ rows # None /\ shown /\ selectable
  /\ row \in 0 .. RowCount(rows) - 1 /\ row # cursor
  /\ cursor' = row
  /\ current' = Remember(rows, row, TRUE, current)
  /\ UNCHANGED <<disk, store, rows, shown, selectable, texts, jobs, deletes, hung>>
  /\ Paint

\* DirPreviewer.selectionChanged: the cursor of the table of extensions is on
\* an extension or a group of them; the filter leaves ShowDirs out.  It acts
\* on f.rows, drawn or not.
FilterByExtensions(exts) ==
  LET filtered == SetFilter(rows, [showDirs |-> FALSE, extensions |-> exts]) IN
  /\ UserEvent
  /\ rows # None
  /\ rows' = IF shown THEN Drawn(filtered) ELSE filtered
  /\ UNCHANGED <<disk, store, shown, selectable, cursor, current, texts, jobs, deletes, hung>>
  /\ Paint

-----------------------------------------------------------------------------
(* Git status texts.                                                        *)

Advance(j, at) == jobs' = (jobs \ {j}) \cup {[j EXCEPT !.at = at]}

\* SetGitStatusText, in the rows of the request, which may be old ones.
SetGitStatusText(j) ==
  /\ j.at = "asked"
  /\ Advance(j, "set")
  /\ texts' = IF j.rows = rows.id THEN texts \cup {j.name} ELSE texts
  /\ UNCHANGED <<disk, store, rows, shown, selectable, cursor, current, painted,
                 deletes, hung, events>>

NoRedraw(j) ==  \* mutant of QueueRedraw: it returns if the text was updated
  /\ j.at = "set"
  /\ jobs' = jobs \ {j}
  /\ UNCHANGED <<disk, store, rows, shown, selectable, cursor, current, texts, painted,
                 deletes, hung, events>>

\* The worker queues the update and waits for it.
QueueRedraw(j) ==
  /\ j.at = "set"
  /\ Advance(j, "queued")
  /\ UNCHANGED <<disk, store, rows, shown, selectable, cursor, current, texts, painted,
                 deletes, hung, events>>

\* The update: the table draws the rows, if they still are the panel's.
Redraw(j) ==
  /\ j.at = "queued"
  /\ ~hung
  /\ jobs' = jobs \ {j}
  /\ IF rows # None /\ j.rows = rows.id
     THEN shown' = TRUE /\ rows' = Drawn(rows)
     ELSE UNCHANGED <<shown, rows>>
  /\ UNCHANGED <<disk, store, selectable, cursor, current, texts, deletes, hung, events>>
  /\ Paint

-----------------------------------------------------------------------------
(* Operations on files.                                                     *)

\* F8 with the focus on the table: the entry is looked up at once, and an
\* operation is started.  It remembers, for the properties, the store the
\* listing came from and what the screen has at the cursor.
Delete ==
  /\ UserEvent
  /\ rows # None
  /\ CurrentEntry(rows, cursor) # None
  /\ deletes' = deletes \cup
       {[id |-> events', at |-> "spawned", name |-> CurrentEntry(rows, cursor), dir |-> rows.dir,
         from |-> rows.from, seen |-> IF shown THEN DrawnAt(rows, cursor) ELSE None]}
  /\ UNCHANGED <<disk, store, rows, shown, selectable, cursor, current, texts, jobs, hung>>
  /\ Paint

LateTarget(o) == CurrentEntry(rows, cursor)  \* mutant of Target: the goroutine looks it up

\* The entry the operation deletes.
Target(o) == o.name

\* The operation's goroutine deletes the path in the store that nav has now,
\* and stops at a channel that nobody made.
DeleteEntries(o) ==
  /\ o.at = "spawned"
  /\ deletes' = (deletes \ {o}) \cup {[o EXCEPT !.at = "stuck"]}
  /\ \/ store = Local /\ disk' = [disk EXCEPT ![Local][o.dir] = @ \ {Target(o)}]
     \/ UNCHANGED disk  \* it fails; other stores than the local one always do
  /\ UNCHANGED <<store, rows, shown, selectable, cursor, current, texts, painted, jobs,
                 hung, events>>

\* NewPanel.createFile in the current directory d: it makes or empties the
\* file.  showDir is called for the directory that is current already and
\* returns, so the listing stays as it was.
CreateFile(d, n) ==
  /\ UserEvent
  /\ store = Local
  /\ n \in Name \ DirName
  /\ disk' = [disk EXCEPT ![Local][d] = @ \cup {n}]
  /\ LET at == IF rows = None THEN 0 ELSE FindFile(rows, n) IN
     /\ cursor' = Cursor(rows, at, cursor)
     /\ current' = RememberFound(rows, at, cursor, shown, n)
  /\ UNCHANGED <<store, rows, shown, selectable, texts, jobs, deletes, hung>>
  /\ Paint

\* NewPanel.createDir waits, in the event loop, for an update of the event
\* loop.
CreateDir(d, n) ==
  /\ UserEvent
  /\ store = Local
  /\ n \in DirName \ disk[Local][d]
  /\ disk' = [disk EXCEPT ![Local][d] = @ \cup {n}]
  /\ hung' = TRUE
  /\ UNCHANGED <<store, rows, shown, selectable, cursor, current, texts, painted, jobs, deletes>>

-----------------------------------------------------------------------------
Next ==
  \/ \E d \in Dir, showDirs \in BOOLEAN : DataLoaded(d, showDirs)
  \/ \E d \in Dir : NodeError(d)
  \/ \E s \in Store : StoreChange(s)
  \/ \E row \in 0 .. Len(Order) : MoveCursor(row)
  \/ \E exts \in (SUBSET Ext) \ {{}} : FilterByExtensions(exts)
  \/ \E j \in jobs : SetGitStatusText(j) \/ QueueRedraw(j) \/ Redraw(j)
  \/ Delete
  \/ \E o \in deletes : DeleteEntries(o)
  \/ \E d \in Dir, n \in Name : CreateFile(d, n) \/ CreateDir(d, n)

Spec == Init /\ [][Next]_vars

-----------------------------------------------------------------------------
Opt(S) == S \cup {None}

FileRows == [id : 1 .. MaxEvents, from : Store, dir : Dir, all : Seq(Name), visible : Seq(Name),
             infos : Seq(Opt(Name)), visual : Seq(Opt(Name)), shifted : BOOLEAN]

\* Every entry has its place for information.
Fits(r) == /\ DOMAIN r.infos = DOMAIN r.all /\ DOMAIN r.visual = DOMAIN r.visible
           /\ Len(r.visible) <= Len(r.all) /\ Len(r.all) <= Len(Order)

TypeOK ==
  /\ disk \in [Store -> [Dir -> SUBSET Name]]
  /\ store \in Store
  /\ rows # None => rows \in FileRows /\ Fits(rows)
  /\ shown \in BOOLEAN /\ selectable \in BOOLEAN /\ hung \in BOOLEAN
  /\ cursor \in 0 .. Len(Order)
  /\ current \in Opt(Name \ DirName)
  /\ texts \subseteq Name /\ painted \subseteq Name
  /\ jobs \subseteq [rows : 1 .. MaxEvents, name : Name, at : {"asked", "set", "queued"}]
  /\ deletes \subseteq [id : 1 .. MaxEvents, at : {"spawned", "stuck"}, name : Name, dir : Dir,
                        from : Store, seen : Opt(Name)]
  /\ events \in 0 .. MaxEvents

(* A status text that a worker has put into the listing on the screen is on *)
(* the screen, or its redraw is still to come.                              *)
TextsReachTheScreen ==
  shown => \A n \in texts \ painted :
             \E j \in jobs : j.rows = rows.id /\ j.name = n /\ j.at \in {"set", "queued"}

(* The size and the date drawn for an entry are its own, as long as no      *)
(* filter has hidden an entry of the listing before a visible one: after    *)
(* that GetCell and applyFilter disagree about the index.                   *)
SizesAreOwn ==
  (rows # None /\ ~rows.shifted) => \A i \in DOMAIN rows.visible :
                                      rows.visual[i] \in {None, rows.visible[i]}

(* What disappears from a disk was under the cursor on the screen when F8   *)
(* was pressed, in the listing of that disk.  Two exceptions are the        *)
(* program's: at "/" the cursor is a row off, and once nav has another      *)
(* store neither the screen nor the store is that of the listing.           *)
DeletesWhatIsDrawn ==
  [][\A d \in Dir, n \in Name : n \in disk[Local][d] \ disk'[Local][d] =>
       \E o \in deletes :
         /\ o.at = "spawned" /\ o.dir = d
         /\ \/ o.seen = n /\ o.from = Local
            \/ d = Root
            \/ o.seen = None \/ o.from # Local]_vars

\* A new listing is shown, in place of no listing or of one below "/".
Relisted == rows' # None /\ (rows = None \/ (rows.id # rows'.id /\ rows.dir # Root))

(* A file that was current when its directory is listed again is under the  *)
(* cursor, if the listing hides nothing before it and is not that of "/".   *)
RememberedIsSelected ==
  [][Relisted /\ rows'.dir # Root /\ ~rows'.shifted /\ current \in Range_(rows'.visible)
       => DrawnAt(rows', cursor') = current]_vars
=============================================================================
