------------------------------ MODULE Navigator ------------------------------
(***************************************************************************)
(* Directory loading in the navigator (pkg/filetug): the tview event loop, *)
(* which runs one key handler or one queued update at a time, and the      *)
(* goroutines that showDir starts.  A goroutine reads a directory and      *)
(* hands its result to the event loop with QueueUpdateDraw, which blocks   *)
(* until the update has run; a goroutine may be delayed at any point, so   *)
(* results reach the panels in any order.                                  *)
(*                                                                         *)
(* Panels: the tree on the left (the root node and its children), the      *)
(* table of files in the middle (f.rows and what the tview table shows)    *)
(* and the previewer on the right.  Captions, colours, sizes and the       *)
(* contents of files are left out; a file is "the file of that name".      *)
(***************************************************************************)
EXTENDS Integers, FiniteSets

CONSTANTS
  Store,        \* the stores (local disk, an FTP site, ...)
  Path,         \* directory paths, "~" among them
  Root,         \* the path "/"
  Tilde,        \* the path "~"
  Home,         \* what "~" expands to
  Parent,       \* [Path -> Path]
  Subdirs,      \* [Store -> [Path -> SUBSET Path]]: visible sub-directories
  HasFile,      \* [Store -> [Path -> BOOLEAN]]: holds the file the user last picked
  InRepo,       \* SUBSET (Store \X Path): a local directory in a git work tree
  MaxActs,      \* bound on the user's actions in a behaviour
  None

ASSUME NavigatorAssumption ==
  /\ Root \in Path /\ Tilde \in Path \ {Root} /\ Home \in Path \ {Tilde}
  /\ Parent \in [Path -> Path \ {Tilde}]
  /\ Subdirs \in [Store -> [Path -> SUBSET (Path \ {Root, Tilde})]]
  /\ HasFile \in [Store -> [Path -> BOOLEAN]]
  /\ InRepo \subseteq Store \X Path
  /\ MaxActs \in Nat

VARIABLES
  store,        \* nav.store
  current,      \* nav.current.dir: a directory context, or None
  rootRef,      \* the directory context the tree's root node refers to
  children,     \* the root node's children
  rows,         \* f.rows: the listing the files panel works on, or None
  content,      \* what the files table draws: a listing, "Loading..." or nothing
  selectable,   \* the files table's rows can be selected with the keys
  preview,      \* what the previewer panel shows
  picked,       \* f.currentFileName # ""
  loads,        \* showDir goroutines that have not delivered yet
  refreshes,    \* listings whose git status requests are outstanding
  treeSpin,     \* running doLoadingAnimation goroutines of the tree
  filesSpin,    \* running doLoadingAnimation goroutines of the files panel
  acts,         \* number of user actions so far; identifies loads and listings
  newest,       \* history: the last load started
  applied       \* history: the last load delivered to the panels, or None

vars == <<store, current, rootRef, children, rows, content, selectable, preview,
          picked, loads, refreshes, treeSpin, filesSpin, acts, newest, applied>>

panels == <<rows, content, selectable, preview, picked, refreshes, applied>>
spinners == <<treeSpin, filesSpin>>

-----------------------------------------------------------------------------
Act == 0 .. MaxActs

\* Contexts and listings never name "~": showDir expands it.
Dir == Path \ {Tilde}
Ctx == [store : Store, dir : Dir]

\* A tree node is known by what it stands for and by the action that made it.
RootNode == [kind |-> "root", by |-> 0, ctx |-> None]
LoadingNode(n) == [kind |-> "loading", by |-> n, ctx |-> None]
DirNode(n, c) == [kind |-> "dir", by |-> n, ctx |-> c]

Node == [kind : {"root", "loading", "dir"}, by : Act, ctx : Ctx \cup {None}]

\* A FileRows: its directory, the store its entries were read from, whether
\* reading failed, and the ShowDirs flag SetRows puts in its filter.
Listing == [kind : {"rows"}, by : Act, ctx : Ctx, from : Store,
            failed : BOOLEAN, showDirs : BOOLEAN]

Empty == [kind |-> "empty", by |-> 0]
Loading(n) == [kind |-> "loading", by |-> n]
Content == {Empty} \cup {Loading(n) : n \in Act} \cup Listing

Preview == [kind : {"none", "dir", "file"}, dir : Dir]

Load == [id : Act, node : Node \cup {None}, dir : Dir, rootChanged : BOOLEAN,
         phase : {"spawned", "opened", "ready"}, store : Store, from : Store,
         failed : BOOLEAN]

ASSUME NoneAssumption == None \notin Path \cup Ctx \cup Node \cup Listing \cup Load

KeepTilde(p) == p  \* mutant of ExpandHome

ExpandHome(p) == IF p = Tilde THEN Home ELSE p

\* The context a node refers to; the loading node refers to nothing.
NodeRef(n) == IF n = RootNode THEN rootRef ELSE n.ctx

DirsOf(r) == IF r.failed THEN {} ELSE Subdirs[r.from][r.ctx.dir]
FileOf(r) == ~r.failed /\ HasFile[r.from][r.ctx.dir]

-----------------------------------------------------------------------------
(* Initially NewNavigator has built the panels on the local store.          *)
Init ==
  /\ store \in Store
  /\ current = None
  /\ rootRef = None
  /\ children = {}
  /\ rows = None
  /\ content = Empty
  /\ selectable = TRUE
  /\ preview = [kind |-> "none", dir |-> Root]
  /\ picked = FALSE
  /\ loads = {}
  /\ refreshes = {}
  /\ treeSpin = {}
  /\ filesSpin = {}
  /\ acts = 0
  /\ newest = 0
  /\ applied = None

-----------------------------------------------------------------------------
(* The event loop's key handlers.                                           *)

\* showDir without its early return: c's directory becomes the current one,
\* the node refers to it, and a goroutine is started to read it.
StartLoad(node, c, rootChanged) ==
  LET target == [c EXCEPT !.dir = ExpandHome(c.dir)] IN
  /\ current' = target
  /\ rootRef' = IF node = RootNode THEN target ELSE rootRef
  /\ newest' = acts'
  /\ loads' = loads \cup
       {[id |-> acts', node |-> node, dir |-> target.dir, rootChanged |-> rootChanged,
         phase |-> "spawned", store |-> c.store, from |-> c.store, failed |-> FALSE]}

\* showDir: returns early on the current directory's path, unless the tree's
\* root changes.
ShowDir(node, c, rootChanged) ==
  IF ~rootChanged /\ current # None /\ current.dir = ExpandHome(c.dir)
  THEN UNCHANGED <<current, rootRef, newest, loads>>
  ELSE StartLoad(node, c, rootChanged)

\* goDir: setCurrentDir empties the tree, then showDir on the root node.
GoDirTo(c) ==
  /\ children' = {}
  /\ ShowDir(RootNode, c, TRUE)

\* initNavigatorWithPersistedState: the saved store and directory, and the
\* saved file name when there is one.
Startup(s, d) ==
  /\ acts = 0 /\ acts < MaxActs
  /\ acts' = acts + 1
  /\ store' = s
  /\ picked' \in BOOLEAN
  /\ GoDirTo([store |-> s, dir |-> d])
  /\ UNCHANGED <<rows, content, selectable, preview, refreshes, applied, spinners>>

UserActs ==
  /\ acts \in 1 .. (MaxActs - 1)
  /\ acts' = acts + 1

\* Enter or Left in the tree, Enter in the files table, a breadcrumb, home
\* or root: every one of them goes to a directory of nav.store.
GoDir(d) ==
  /\ UserActs
  /\ GoDirTo([store |-> store, dir |-> d])
  /\ UNCHANGED <<store, panels, spinners>>

\* The selection moves to a node of the tree (Tree.changed).
SelectNode(n) ==
  /\ UserActs
  /\ NodeRef(n) # None
  /\ ShowDir(n, NodeRef(n), FALSE)
  /\ UNCHANGED <<store, children, panels, spinners>>

\* filesPanel.onStoreChange: the table holds two loading cells, animated by a
\* goroutine.  f.rows keeps the old store's listing.
FilesStoreChange ==
  /\ content' = Loading(acts')
  /\ selectable' = FALSE
  /\ filesSpin' = filesSpin \cup {acts'}

\* Tree.onStoreChange: so does the tree, with one loading node.
TreeStoreChange ==
  /\ children' = {LoadingNode(acts')}
  /\ treeSpin' = treeSpin \cup {acts'}

SetStore(s) == store' = s /\ TreeStoreChange /\ FilesStoreChange

\* activateFavorite on a list entry the selection moves to (preview mode):
\* the directory is shown without a node.
PreviewFavorite(s, d) ==
  /\ UserActs
  /\ IF s = store
     THEN UNCHANGED <<store, content, selectable, children, spinners>>
     ELSE SetStore(s)
  /\ ShowDir(None, [store |-> s, dir |-> d], FALSE)
  /\ UNCHANGED <<rows, preview, picked, refreshes, applied>>

\* activateFavorite on Enter: goDir empties the tree again.
OpenFavorite(s, d) ==
  /\ UserActs
  /\ IF s = store
     THEN UNCHANGED <<store, content, selectable, spinners>>
     ELSE store' = s /\ FilesStoreChange /\ treeSpin' = treeSpin \cup {acts'}
  /\ GoDirTo([store |-> s, dir |-> d])
  /\ UNCHANGED <<rows, preview, picked, refreshes, applied>>

\* The selection moves to a row of the files table: the parent, a visible
\* sub-directory, or the file (rememberCurrent keeps its name).
SelectEntry ==
  /\ UserActs
  /\ rows # None /\ content = rows /\ selectable
  /\ \/ /\ \E d \in (IF rows.showDirs THEN DirsOf(rows) ELSE {}) \cup {Parent[rows.ctx.dir]} :
             preview' = [kind |-> "dir", dir |-> d]
        /\ UNCHANGED picked
     \/ /\ FileOf(rows)
        /\ preview' = [kind |-> "file", dir |-> rows.ctx.dir]
        /\ picked' = TRUE
  /\ UNCHANGED <<store, current, rootRef, children, rows, content, selectable,
                 loads, refreshes, spinners, newest, applied>>

-----------------------------------------------------------------------------
(* The goroutine of a load.                                                 *)

Advance(l, m) == loads' = (loads \ {l}) \cup {m}

\* getDirData makes the listing's context from nav.store as it is now.
OpenDir(l) ==
  /\ l.phase = "spawned"
  /\ Advance(l, [l EXCEPT !.phase = "opened", !.store = store])
  /\ UNCHANGED <<store, current, rootRef, children, panels, spinners, acts, newest>>

\* It reads nav.store once more for ReadDir, which answers or fails.
ReadDir(l) ==
  /\ l.phase = "opened"
  /\ \E bad \in BOOLEAN :
       Advance(l, [l EXCEPT !.phase = "ready", !.from = store, !.failed = bad])
  /\ UNCHANGED <<store, current, rootRef, children, panels, spinners, acts, newest>>

-----------------------------------------------------------------------------
(* The updates the event loop runs for goroutines.                          *)

\* table.Select(0, 0) fires selectionChanged on the rows the table still
\* draws, the old ones: the previewer shows what their first row stands for.
\* That is the parent directory, except at "/", where the parent's row is
\* hidden and the first row is an entry (its directories are never listed).
FirstRowPreview(p) ==
  IF rows = None THEN p
  ELSE LET drawn == IF content.kind = "rows" THEN content ELSE rows IN
       IF content = drawn /\ drawn.ctx.dir = Root /\ FileOf(drawn)
       THEN [kind |-> "file", dir |-> Root]
       ELSE [kind |-> "dir", dir |-> Parent[rows.ctx.dir]]

\* rememberCurrent ran if that was a file.
PickedAfter(p) == picked \/ FirstRowPreview(p).kind = "file"

\* selectCurrentFile looks the file's index up in all entries and selects that
\* row of the visible ones: it finds it when no directory before it is hidden.
FindsFile(new) == FileOf(new) /\ (new.showDirs \/ DirsOf(new) = {})

\* filesPanel.SetRows with the previewer showing p.
SetRows(new, p) ==
  /\ rows' = new
  /\ content' = new
  /\ picked' = PickedAfter(p)
  /\ preview' = IF PickedAfter(p) /\ FindsFile(new)
                THEN [kind |-> "file", dir |-> new.ctx.dir]
                ELSE FirstRowPreview(p)

AppendDirContext(l) ==  \* mutant of SetDirContext: no ClearChildren
  children' = children \cup
    {DirNode(l.id, [store |-> l.store, dir |-> d]) : d \in Subdirs[l.from][l.dir]}

\* setDirContext: the root's children are the listing's sub-directories.
SetDirContext(l) ==
  children' = {DirNode(l.id, [store |-> l.store, dir |-> d]) : d \in Subdirs[l.from][l.dir]}

\* updateGitStatuses submits one request per entry for a work tree on disk.
SubmitGitStatus(l) ==
  refreshes' = IF <<store, l.dir>> \in InRepo THEN refreshes \cup {rows'} ELSE refreshes

OnDataLoaded(l) ==
  /\ SetRows([kind |-> "rows", by |-> l.id, ctx |-> [store |-> l.store, dir |-> l.dir],
              from |-> l.from, failed |-> FALSE, showDirs |-> l.node \notin {None, RootNode}],
             [kind |-> "dir", dir |-> l.dir])
  /\ selectable' = TRUE
  /\ IF l.rootChanged /\ l.node # None THEN SetDirContext(l) ELSE UNCHANGED children
  /\ SubmitGitStatus(l)

MarkNodeOnly(l) ==  \* mutant of ShowNodeError: the files panel is left alone
  /\ children' = IF l.node = RootNode THEN {} ELSE children
  /\ UNCHANGED <<rows, content, selectable, preview, picked, refreshes>>

\* showNodeError does nothing without a node; else the node loses its children
\* and the table lists nothing for the directory the node refers to now.
ShowNodeError(l) ==
  IF l.node = None
  THEN UNCHANGED <<rows, content, selectable, preview, picked, children, refreshes>>
  ELSE /\ SetRows([kind |-> "rows", by |-> l.id,
                   ctx |-> [store |-> store, dir |-> NodeRef(l.node).dir],
                   from |-> store, failed |-> TRUE, showDirs |-> FALSE], preview)
       /\ children' = IF l.node = RootNode THEN {} ELSE children
       /\ UNCHANGED <<selectable, refreshes>>

\* The update a load queued: nothing compares it with the current directory.
Deliver(l) ==
  /\ l.phase = "ready"
  /\ loads' = loads \ {l}
  /\ applied' = l
  /\ IF l.failed THEN ShowNodeError(l) ELSE OnDataLoaded(l)
  /\ UNCHANGED <<store, current, rootRef, spinners, acts, newest>>

RefreshAnyRows(r) ==  \* mutant of RefreshRows: no check that r still is f.rows
  /\ refreshes' \in {refreshes, refreshes \ {r}}
  /\ content' = r
  /\ UNCHANGED <<store, current, rootRef, children, rows, selectable, preview,
                 picked, loads, spinners, acts, newest, applied>>

\* onGitStatus has a text for an entry of r and its update runs: the table
\* redraws r, if r still is f.rows.  Other entries of r may be outstanding.
RefreshRows(r) ==
  /\ refreshes' \in {refreshes, refreshes \ {r}}
  /\ content' = IF rows = r THEN r ELSE content
  /\ UNCHANGED <<store, current, rootRef, children, rows, selectable, preview,
                 picked, loads, spinners, acts, newest, applied>>

\* No entry of r has a status to show, or its requests were dropped.
RefreshNothing(r) ==
  /\ refreshes' = refreshes \ {r}
  /\ UNCHANGED <<store, current, rootRef, children, rows, content, selectable,
                 preview, picked, loads, spinners, acts, newest, applied>>

-----------------------------------------------------------------------------
(* The animation goroutines look at their widget every few milliseconds.    *)

\* Tree.doLoadingAnimation ends when it finds the root childless, or with a
\* single child that is not its loading node.
EndTreeSpin(n) ==
  /\ \/ children = {}
     \/ Cardinality(children) = 1 /\ LoadingNode(n) \notin children
  /\ treeSpin' = treeSpin \ {n}
  /\ UNCHANGED <<store, current, rootRef, children, panels, loads, filesSpin, acts, newest>>

\* filesPanel.doLoadingAnimation ends when its progress cell is gone.
EndFilesSpin(n) ==
  /\ content # Loading(n)
  /\ filesSpin' = filesSpin \ {n}
  /\ UNCHANGED <<store, current, rootRef, children, panels, loads, treeSpin, acts, newest>>

-----------------------------------------------------------------------------
User ==
  \/ \E s \in Store, d \in Path : Startup(s, d)
  \/ \E d \in Path : GoDir(d)
  \/ \E n \in children \cup {RootNode} : SelectNode(n)
  \/ \E s \in Store, d \in Path : PreviewFavorite(s, d) \/ OpenFavorite(s, d)
  \/ SelectEntry

Background ==
  \/ \E l \in loads : OpenDir(l) \/ ReadDir(l) \/ Deliver(l)
  \/ \E r \in refreshes : RefreshRows(r) \/ RefreshNothing(r)
  \/ \E n \in treeSpin : EndTreeSpin(n)
  \/ \E n \in filesSpin : EndFilesSpin(n)

Next == User \/ Background

Spec == Init /\ [][Next]_vars

-----------------------------------------------------------------------------
TypeOK ==
  /\ store \in Store
  /\ current \in Ctx \cup {None}
  /\ rootRef \in Ctx \cup {None}
  /\ children \subseteq Node
  /\ rows \in Listing \cup {None}
  /\ content \in Content
  /\ selectable \in BOOLEAN
  /\ preview \in Preview
  /\ picked \in BOOLEAN
  /\ loads \subseteq Load
  /\ refreshes \subseteq Listing
  /\ treeSpin \subseteq Act
  /\ filesSpin \subseteq Act
  /\ acts \in Act
  /\ newest \in Act
  /\ applied \in Load \cup {None}

\* For FilesPanel: the current directory, what has not been answered, and the
\* listing on the screen.
CurrentDir == IF current = None THEN None ELSE current.dir
Requested(l) == [id |-> l.id, dir |-> l.dir]
Asked == {Requested(l) : l \in loads}
DrawnRows == IF content.kind = "rows" THEN content ELSE None

Panel == INSTANCE FilesPanel
  WITH Request <- [id : Act, dir : Dir], dir <- CurrentDir, last <- newest, asked <- Asked,
       panel <- rows, drawn <- DrawnRows

(* showDir, its goroutine and the updates of git statuses and animations    *)
(* together keep the files panel's promise: in particular the table never   *)
(* draws a listing other than the one the panel's keys act on (f.rows),     *)
(* although git status answers for older listings keep arriving, so that    *)
(* row numbers always mean what the user sees.                              *)
PanelSpec == Panel!PanelSpec

(* Whenever the newest request was the last to be answered, the files panel *)
(* lists the current directory, whatever order the older answers came in.   *)
(* A failed preview of a favourite reports nothing, and is left out.        *)
LatestAnswerWins ==
  (applied # None /\ newest = applied.id /\ ~(applied.failed /\ applied.node = None))
    => rows # None /\ rows.by = newest /\ rows.ctx.dir = current.dir

(* The directories that the files panel hides because the tree shows them   *)
(* are all in the tree, and nothing else is, once a change of root has been *)
(* answered last.                                                           *)
TreeCompletesFiles ==
  (/\ applied # None /\ newest = applied.id /\ ~applied.failed /\ applied.rootChanged
   /\ \A n \in children : n.kind = "dir")
    => /\ ~rows.showDirs
       /\ {n.ctx.dir : n \in children} = DirsOf(rows)

(* navigator_navigation.go:41 says that showDir updates all panels: with no *)
(* load in flight, the files panel lists the current directory.  It does    *)
(* not: the answers of two loads may arrive in the other order.             *)
ListingFollowsCurrent ==
  (loads = {} /\ rows # None) => rows.ctx.dir = current.dir
=============================================================================
