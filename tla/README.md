# FileTug in TLA+

TLA+ models of FileTug (`pkg/filetug`, `pkg/gitutils`, `pkg/viewers`,
`pkg/files/ftpfile`, `pkg/sneatv/crumbs`): what its event loop, its goroutines,
its worker pool and its files do together, checked with TLC on small instances
and, for every property that holds and is not liveness, proved with TLAPS for
every instance.

FileTug is a terminal file manager built on tview. All panels belong to one
event loop, which runs one key handler or one queued update at a time. Whatever
may block (reading a directory, a git status, the sizes of files) runs in a
goroutine and hands its result back with `QueueUpdateDraw`, which blocks the
goroutine until the event loop has run the update. Nothing orders the
goroutines, and few results are compared with what the user does by the time
they arrive. That is where the program is hard to test, and what the models
are about.

## 1. Inventory

| Part | State | Operations | Talks to | Hard because |
|---|---|---|---|---|
| Navigator, tree and files panel (`navigator*.go`, `tree_*.go`, `files_*.go`) | `nav.store`, `nav.current`, the root node and its children, `f.rows`, the table's content and selection, the previewer's entry, `f.currentFileName` | `goDir`, `showDir`, `onDataLoaded`, `showNodeError`, `SetStore`, selection handlers, loading animations | stores (call in a goroutine), previewers (call), pool (`Submit` and callback), state file | answers of directories, errors and git statuses in any order; shared fields read by goroutines |
| Repository locks (`gitutils.go`, `status.go`) | `repoLocks`, `gitStatusSemaphore` | `getRepoLock`, `GetDirStatus`, `GetFileStatus` | go-git | two locks held in turn, made on demand, with cancellation in between |
| Git status worker pool (`worker_pool.go`) | the bounded channel, the context, `closed`, the wait group | `Submit`, `worker`, `Close`, `GetGlobalPool`, `SetGlobalPool` | repository locks, callbacks into the files panel | `Submit` against `Close`, a full channel, shutdown with work in flight |
| Tree git status (`navigator_git.go`) | `gitStatusCache` | `updateGitStatus`, `getGitStatus` | repository locks, event loop | cache filled by check-then-act, never emptied |
| Previewers (`pkg/viewers`, `previewer_panel.go`) | the current previewer, `previewID`, `d.dirPath`, the git tab's entries | `PreviewEntry`, `PreviewSingle`, `SetDirEntries`, `refresh`, `handleInput` | file system, git, event loop | results of older previews; guards that differ from previewer to previewer |
| Files table (`fs_records.go`, `ftui/filter.go`) | `AllEntries`, `VisibleEntries`, `Infos`, `gitStatusText` | `SetFilter`, `GetCell`, `SetGitStatusText` | drawn by tview, written by pool workers | two index spaces, two threads |
| Keyboard, focus and columns (`navigator.go`, `navigator_ui.go`, `left.go`, `container.go`, the panels' key handlers) | the application's focus, what the left and the right column show, `activeCol` | `inputCapture`, `SetFocus`, `SetContent`, focus and blur functions | every panel | a panel is exchanged while it has the focus |
| Favourites (`favorites_panel.go`, `ftfav`) | `f.items`, the favourites file | load, add, delete, activate | Navigator, file | list and file change separately, a goroutine reads and writes at the start |
| Persisted state (`ftstate`) | the state file | `SaveCurrentDir`, `SaveSelectedTreeDir`, `SaveCurrentFileName`, `GetState` | Navigator | read-modify-write, crash and restart |
| File operations (`nav_delete.go`, `operation.go`, `new_panel.go`) | the operation's `done` channel | `delete`, `createDir`, `createFile` | stores, Navigator | run in a goroutine or on the event loop, with the store read late |
| Stores (`pkg/files`) | connections | `ReadDir`, `CreateDir`, `CreateFile`, `Delete` | disk, FTP, HTTP | failure at any step, callers that give up |
| Staging (`gitutils/staging.go`) | the git index | `StageFile`, `UnstageFile`, `StageDir`, `CanBeStaged` | go-git | rules by status code |
| Widgets (`sneatv`) | selection, focus, active tab | breadcrumbs, tabs, sticky table | tview | boundaries of indices |

What makes each part correct: the panels show what the user last asked for, or
at least agree with each other; a repository is read by one call at a time and
no slot or mutex leaks; the pool neither loses, repeats nor invents answers and
can be shut down at any moment; a preview is of the entry it is titled with; an
index means the same entry to the code that draws it and the code that acts on
it; lists and files agree after every operation and after a restart; an
operation ends and acts where the user pointed; a connection is closed whatever
fails; some handler hears the next key. The hazards, each at its line,
are listed in `PROJECT.json`.

## 2. Modules

```
FilesPanel <- Navigator (INSTANCE: Navigator implements FilesPanel)
              Navigator <- MCNavigator (file systems for TLC)
                        <- NavigatorProofs
StatusGate <- StatusService
StatusGate <- RepoLocks (INSTANCE: RepoLocks implements StatusGate)
              RepoLocks <- GitStatusPool (INSTANCE: it implements StatusService)
                           GitStatusPool <- MCGitStatusPool
                                         <- GitStatusPoolProofs (RepoLocks' too)
FilePreviewers <- MCFilePreviewers (files by kind for TLC)
               <- FilePreviewersProofs
DirPreviewer   <- MCDirPreviewer (a repository for TLC)
               <- DirPreviewerProofs
FilesTable     <- MCFilesTable (listings for TLC)
               <- FilesTableProofs
FtpStore       <- MCFtpStore
               <- FtpStoreProofs
Session        <- MCSession (stores and paths for TLC)
               <- SessionProofs
Panels         <- PanelsProofs
```

The modules share the event loop and cut it by question. `Navigator` is about
which directory the panels show, `FilesTable` about the rows of one listing,
`Panels` about who hears the next key, `Session` about what outlives the
program; what one of them keeps in detail is a single step, a set of possible
outcomes or nothing in the others. The previewers have no way back into
`Navigator` but the filter of the files table, which `FilesTable` has
(`FilterByExtensions`); a store's `ReadDir`, in detail in `FtpStore`, is the
step `ReadDir` of `Navigator`.

### FilesPanel, Navigator

`FilesPanel` is what the navigator promises to the user of the files panel. A
request for a directory makes it the current one; it is answered at most once,
with a listing of that directory, with an empty one that says that reading
failed, or with nothing; answers come in any order and the panel holds the last
one; the screen shows the listing that the panel holds, or none. `Navigator`
is the program: its loads are the requests, `f.rows` is what the panel holds,
and the table's content is what the screen shows.

The event loop's handlers and the goroutines of `showDir`. One action is one
handler with everything it calls, or one step of a goroutine.

| Variable | Code |
|---|---|
| `store`, `current` | `nav.store`, `nav.current` |
| `rootRef`, `children` | the tree root's reference and its child nodes |
| `rows`, `content`, `selectable` | `f.rows`, what `f.table` draws, whether its rows can be selected |
| `preview`, `picked` | the previewer's entry, `f.currentFileName != ""` |
| `loads` | goroutines of `showDir` that have not delivered |
| `refreshes` | listings with git status callbacks outstanding |
| `treeSpin`, `filesSpin` | goroutines of the two `doLoadingAnimation` |
| `acts`, `newest`, `applied` | names for loads and listings, and history |

* `Startup`, `GoDir`, `SelectNode`, `PreviewFavorite`, `OpenFavorite`,
  `SelectEntry` are what the user can do. `GoDir` stands for every handler that
  ends in `goDir` with a directory of `nav.store`: Enter and Left in the tree,
  Enter in the table, a breadcrumb, `~`, `/`.
* `OpenDir`, `ReadDir`, `Deliver` are the goroutine: it reads `nav.store` once
  for the context and once for `ReadDir`, which may fail, and its update runs
  `onDataLoaded` or `showNodeError`. The updates are a set and are delivered in
  any order, since each goroutine may be delayed before it queues its own.
* `RefreshRows`, `RefreshNothing` are the updates of `onGitStatus`, one for each
  entry whose status arrives;
  `EndTreeSpin`, `EndFilesSpin` the ends of the animations (their other steps
  only change the text of the indicator).
* `SetRows` moves the selection to the first row before it replaces the rows,
  so `selectionChanged` runs on the old ones: `FirstRowPreview`.

### StatusGate, RepoLocks, StatusService, GitStatusPool

`RepoLocks` is the synchronisation that `GetDirStatus` and `GetFileStatus`
share: `getRepoLock`, `Lock`, the select on the semaphore or the context, the
work, the deferred release and unlock. `StatusGate` is what that promises: one
reader per repository, at most `Limit` readers. `GitStatusPool` adds the
channel, `Submit`, the workers and `Close`; the goroutines of the tree call
`RepoLocks` beside it. `Submit` is two steps, as in the code: the look at the
context, and the send. A send on the closed channel panics and ends the
program: no action is enabled after that. `StatusService` is what the pool
promises: a request is accepted or refused, once; an accepted one waits in a
bounded place, is served while a worker is free for it and is answered, in this
order and once; repositories are read as in `StatusGate`; and once the `Close`
that shuts the pool down has returned, no worker serves a request or reads.

### FilePreviewers

The previewer panel and the previewers of files. `PreviewEntry` is one call of
`previewerPanel.PreviewEntry`: the title, the choice of the previewer (the one
on the panel if it is of the same kind, else a new one) and its
`PreviewSingle`, up to the goroutine it starts. `Deliver` is the update of that
goroutine. `view` is the previewer on the panel, identified by the preview that
made it; `counter` is its `previewID`; a job carries the number it was given.
The text and markdown previewers (`Guarded`) compare the two. The JSON and
`.DS_Store` previewers seem to: they have value receivers, so each preview
raises the counter of a copy, and no comparison ever fails. The image previewer
does not compare.

### DirPreviewer

The previewer of directories. `SetDirEntries` is the handler that all ways of
showing a directory end in: `ShowLoaded` calls it once, from `onDataLoaded`,
and `ShowSummary` twice in one event, from `showDirSummary` (before and after
reading the directory).

| Variable | Code |
|---|---|
| `dirPath`, `stats` | `d.dirPath`, whose summary `ExtTable` shows and whether of a directory that had been read |
| `sizing` | goroutines of `SetDirEntries` |
| `tabs` | `d.tabs`: whether there is a Git tab, and the active tab |
| `probes` | goroutines of `activateGitTabIfDirty` |
| `gitDir`, `gitEntries`, `gitTable` | `p.dirContext`, `p.entries` and what `p.table` shows |
| `refreshes` | goroutines of `refresh`: not begun, with a directory to load, or loaded and not drawn |
| `staged` | the index of the repository |

Files never become clean here (only a commit does that, outside), so whether a
directory is dirty is a constant, and `ProbeEnds` need not tell its look from
its update.

### FilesTable

The rows of the files panel. Four things index the same listing: the cursor
counts rows, keys count visible entries, the memory of the last file counts all
entries, and the cached file information is written by one count and read by
another.

| Variable | Code |
|---|---|
| `disk`, `store` | what the stores hold; `nav.store` |
| `rows` | `f.rows`: `AllEntries`, `VisibleEntries`, `Infos`, `VisualInfos`, with the directory and the store they came from |
| `shown`, `selectable`, `cursor` | whether `f.table` draws `f.rows`, whether its rows can be selected, the selected row |
| `current` | `f.currentFileName` |
| `texts`, `painted` | `gitStatusText` of the rows, and what of it has been on the screen |
| `jobs` | git status requests, from `Submit` to the redraw |
| `deletes`, `hung` | operations started by F8; the event loop waits for itself |

`SetRows` is `filesPanel.SetRows` with the selections it makes and the drawing
that follows (`Drawn`: `GetCell` reads what is missing and stores it). A git
worker writes its text first (`SetGitStatusText`), then queues a redraw and
waits. F8 looks the entry up at once and starts a goroutine, which reads
`nav.store` later (`DeleteEntries`).

### FtpStore

`ReadDir` of the FTP store: dial, log in, list, quit. Each request is a
goroutine that leaves its answer in a channel of capacity one; the call waits
for the answer or for the end of its context. `pc` is where the call is,
`request` and `answer` are the goroutine and the channel of each stage, `conn`
the connection the call has. Actions: `ReadDir`, `Send`, `Answer` (the server's
and the channel's part), `Connected`, `NoPassword`, `LoggedIn`, `Listed`,
`Failed`, `GivesUp` (the call's), `Cancel` (the caller's).

### Session

The two files that outlive the program, with the panel and the goroutine that
use them.

| Variable | Code |
|---|---|
| `here`, `prev` | `nav.store` and `nav.current`; `nav.prev` |
| `items`, `offered` | `favoritesPanel.items`, `addFormVisible` |
| `loader` | the goroutine of `loadUserFavorites`: reading, writing the defaults, appending, waiting for its update |
| `busy` | what the event loop is writing: both files are emptied and then filled |
| `favFile`, `stateFile` | the files, or `Torn` when they cannot be parsed |
| `wanted`, `ghosts`, `mishap`, `left` | history, for the properties |

A write is two steps, and the program may be stopped between them (`Stop`) and
started again (`Start`). An emptied file may already hold the first items, and
may end in the middle of one, whose path is then shorter if the file can be
parsed at all (`Partly`). The event loop does nothing else while it writes; the
loader's goroutine does. A path is the sequence of its parts, with `/` and `~`
as possible first parts, so that cutting the path of a URL off (`SavedPath`),
naming home from `~` (`Collapse`) and back (`ExpandHome`) are what the code does:
`/` is cut from the front of `/foo` on a store whose URL ends in `/`, and an
empty path comes back as `~`.

### Panels

`ui` is one record: the focus, the content of both columns, the help window,
the add form, `activeCol`, where the nested directories' form goes back to, the
current and the previous directory, and the crumbs' selection and next focus
target. What tview does when the focus moves (`Blurred`, `SetFocus`) and what
handlers share (`GoDir`, `ShowDir`, `Preview`, `UpdateForm`) are functions on
that record, and an action is a key, a click or an answer composed of them.
`Shown` is what is below the application's root: a key is heard only by it.
`search` says whether the tree has a search pattern, which its letters, Backspace
and Escape change and every change of directory empties.

## 3. Runs

| Run | Shows | Bounds |
|---|---|---|
| `navigator` | `TypeOK`, `LatestAnswerWins`, `TreeCompletesFiles`, `PanelSpec` | 2 stores, `/`, `~` and one directory, the start-up and two user actions |
| `navigator_stale` (violated) | `ListingFollowsCurrent` | 2 stores, `/`, `~` and one directory, the start-up and a user action |
| `pool` | `NothingLost`, `NeverStuck`, `ServiceSpec`, `CloseNeverPanics` | 2 workers, 1 tree goroutine, 3 repositories, 3 mutexes, 3 requests, 2 closers, 2 slots |
| `pool_live` | `PoolTypeOK`, `AcceptedIsAnswered`, `CloseReturns` | 1 worker (channel of 2), 3 requests, 1 closer, fairness |
| `pool_panic` (violated) | `NoPanic` | as `pool_live` |
| `file_previewers` | `TypeOK`, `TextSettles`, `NeverSuperseded` | 7 files of all kinds, a directory, 4 previews |
| `dir_previewer` | `TypeOK`, `StatsSettle`, `RowsAreEntries`, `TurnsToDirty`, `LoadingEnds` | 4 directories (dirty, clean, without sizes, unreadable), 2 files, 2 calls of `SetDirEntries`, 2 Space keys, fairness |
| `ftp_store` | `TypeOK`, `NoneLeftOpen`, `OneRequestAtATime`, `NamesAreEarned`, `RequestsEnd`, `ReadDirReturns` | 2 calls, a name and `.`, fairness |
| `files_table` | `TypeOK`, `TextsReachTheScreen`, `SizesAreOwn`, `DeletesWhatIsDrawn`, `RememberedIsSelected` | 2 stores, `/` and a directory, a sub-directory, a hidden file, 2 files of 2 extensions, 4 events |
| `session` | `TypeOK`, `FileFollowsUser`, `PanelShowsFile`, `BrokenFileIsKept`, `StartsWhereLeft` | 3 stores, 4 events, 2 starts |
| `panels` | `TypeOK`, `KeepsKeyboard`, `UpSelectsParent` | a chain of 2 directories, 1 load under way, any number of events |
| `panels_esc` (violated) | `EscGoesBack` | as `panels` |

The three actions of `navigator` are the start-up and two that race with it:
enough for three loads, refreshes and animations to overlap in every order, for a
load to fail while others are in flight, and for the store to change under them
(2.5 million states). A third directory level adds nothing the properties tell
apart: they compare directories for equality and for being the parent. Its four
properties are also proved, for any file systems and any number of actions.

`pool` has one repository more than slots and as many callers as repositories:
two callers read, the third waits for a slot while it holds its repository's
mutex, which is the dangerous state, or two callers want the same repository
with a slot free. `pool_live` has one slot, so that one caller is enough to
fill the semaphore, and a third request that finds the channel full. The code's
limit is 2 and its pool has 4 workers; the proofs are for any limit, pool and
number of requests. `pool` uses symmetry among mutexes, workers and closers,
which the specification never distinguishes; `pool_live` checks liveness and
uses none.

Four previews let a previewer be left and come back to (text, markdown, text)
with a goroutine of each still under way. Two calls of `SetDirEntries` are one
selection or two loaded directories that race; a third only adds goroutines of
the same two sorts, and the proofs need no such bound. Two Space keys are one on
a row and one on the row its refresh changed.

Two FTP calls show that one call's failure leaves the other alone; within a
call, every stage may fail, be late, or be given up. Each kind of user in the
URL (none, without a password, with one) is tried.

Four events of `files_table` are two listings with a move of the cursor and a
deletion, or a listing, a filter, a listing; git workers and the goroutines of
F8 take any number of steps in between. A sub-directory, a hidden file and two
extensions let each of the four counts differ from the others.

Four events and two starts of `session` let the user add, delete and go
somewhere, crash in the middle of a write, and add or delete in the next run,
while the loader is at any of its steps (5.9 million states). Its stores are the
disk, a site with a path in its URL and one without, as the default favourites
have; the favourite of the last has no path. Its five properties are proved
without bounds.

`panels` has no bound on events; its state is finite. Two directories are the
root, which has no parent, and one below it, and one load under way is enough for
its answer to come at any time. All three properties
are proved for any chain and any number of loads.

The systems may stop: users stop acting and closed pools have nothing left to
do. All runs say `CHECK_DEADLOCK FALSE` for that reason; that nothing gets
stuck is said by the liveness properties.

### What the violated runs show

* `ListingFollowsCurrent`: two loads answered in the other order leave the
  files panel on the older directory. `onDataLoaded` compares nothing.
* `NoPanic`: `Close` between the two selects of `Submit`.
* `EscGoesBack`: Alt+F, F1, Escape. Closing the help focuses the tree, which the
  favourites have replaced in the left column. The focus is on a widget that is
  not below the root, no handler hears a key, and only the mouse helps.

### Known deviations

These behaviours are in the models and outside the properties, which name them
as exceptions. Where a document of the repository says otherwise, it is quoted.

Loading and previews:

* `showDir` returns early when the path is the current one, also when the store
  is another and both loading indicators are up: "Loading..." with nothing
  loading.
* After the preview of a favourite of another store no load has a tree node: the
  loading node stays, and its animation's goroutine runs on.
* The JSON and `.DS_Store` previewers have value receivers, so each preview
  checks a counter of its own; the image previewer checks none. Of two files
  selected quickly the older text may stay under the newer title.
* `showDirSummary` counts twice, first nothing, then the entries. If the first
  goroutine is late, the summary stays empty: the guard compares paths.
* `setItems` refills the favourites' list, and tview tells of its first item: the
  panel previews that favourite, so the current directory changes.

Staging:

* The Git tab cannot stage a file that git does not track.
  `loadGitDirStatus` counts every file as staged whose `Staging` is not
  `Unmodified` (`git_dir_status_previewer.go:267`), and go-git gives untracked
  files `Untracked` there; so Space unstages such a file, which changes nothing,
  and no sequence of keys stages it (`RowsOf`, `Space`). The repository expects
  otherwise: "Build-in git client that provides git status and allows to
  stage/commit/rollback/etc." (`README.md:58`), "It returns true if the file is in
  a git repository and has changes (modified or untracked)" (`staging.go:52`, of
  `CanBeStaged`), "it can be staged because it's untracked"
  (`staging_test.go:253`).
* While the tab says "Loading..." or shows an error, its entries are still the
  earlier ones, and Space acts on a row that is not shown.

Rows and operations:

* `selectCurrentFile` finds the remembered file among all entries and selects
  that index among the visible ones: with a hidden entry, or with directories
  that the panel leaves to the tree, before it, the cursor is on another row.
* At `/` there is no row for the parent, but keys count as if there were one:
  F8 deletes the entry above the cursor.
* The operation of F8 reads `nav.store` in its goroutine, after the store may
  have changed. It then sends to a channel nobody made, and stays. `os.Remove`
  fails for directories that are not empty.
* Once a filter has hidden an entry before a visible one, sizes and dates of the
  rows after it may be another entry's: `GetCell` stores by visible index,
  `applyFilter` reads by index among all.
* `createDir` calls `QueueUpdateDraw` from the event loop, which then waits for
  itself: the program freezes.

Files:

* A directory below home is added by its full path and saved from `~`. Deleted
  in the run that added it, it disappears from the panel, stays in the file and
  returns at the next start.
* A first start that writes the default favourites while the user adds one may
  lose it, and a crash during a write loses what was not yet written.
* Favourites read at the start are appended to the list as it is then; one added
  or deleted before the update runs is gone from the panel, or back in it.
* A start opens the directory that was left only where its path is saved whole.
  `SaveCurrentDir` cuts the path of the store's URL off and a start does not put
  it back: below `https://cdn.kernel.org/pub/`, `/pub/linux` becomes `linux`. An
  empty path, as the default FTP favourite has, is saved as no directory, and
  the start opens `~` on that server. `StartsWhereLeft` promises the store in
  these cases and the directory in the others (`Returns`).
* The repository's README says that `ft` starts "in the current directory" and
  `ft <PATH_TO_DIRECTORY_OR_FILE>` "at the specific directory or file"
  (`README.md:95`, `README.md:101`). `main` looks at no argument, and every start
  goes where the state file says.
* Escape from the favourites goes to the previous path on the store of the last
  preview.

Connections:

* A call that gives up while its connection is being made returns; the
  connection that is made afterwards is closed by nobody.

Keyboard. `KnownLoss` in `Panels` lists every step after which no key is heard
although one was before, and `KeepsKeyboard` excepts these and no others:

* The program ends (`Ends`): Backspace (the key `KeyBackspace`) in the tree with
  no search pattern, whose last letter is cut off all the same
  (`tree_input.go:55`); F8 while the third column is the active one, as after F7,
  because that column has no browser to delete in (`navigator.go:213`). It
  freezes: the button that creates a directory (`new_panel.go:130`).
* The tree gets the focus while the favourites have its place (`TreeIsHidden`):
  closing the help (`EscGoesBack`), Left in the files panel, Escape in the new
  panel, Cancel in the nested directories' form, Down in the crumbs.
* Nothing gets the focus (`NothingNext`): Down in crumbs that were clicked, as
  their next focus target is nil; Cancel in the nested directories' form when it
  was opened from the third column.
* The right column is exchanged under the focus (`ExchangedUnder`): Alt+M, Alt+R
  and Alt+H in a panel there, and the answer of a load or of `loadUserFavorites`.
* The answer of `loadUserFavorites` hides the add form and focuses the list after
  the user has left the favourites (`TakesOfferBack`).

Seen in the code and not modelled: Alt+0 falls through to the search; the crumbs' mouse hit test is off by the separators; column widths may become
negative (`navigator_ui.go:152`); `GeneratedNestedDirs` reads an error without
waiting for its goroutine (`nested_dirs_generator.go:83`); `SetGlobalPool` before
the first `GetGlobalPool` is undone.

## 4. Fairness

`Navigator` states none and claims no liveness: whether a directory is answered
is up to its store, and neither the HTTP client nor an FTP connection after its
dial has a time limit.

`GitStatusPool`: weak fairness on every goroutine's next step. Strong fairness
on acquiring a mutex and on taking a slot: both can be taken by others again and
again, and Go's mutexes (starvation mode) and channels (first in, first out)
serve the goroutine that waits longest. No fairness on calls that nobody has to
make: submitting, closing, opening a tree node.

`FtpStore`: weak fairness on the calls and their goroutines, and on the server's
answers to requests that are under way. The last is an assumption about the
server: only the dial has a time limit (5 s), a login or a listing that the
server never answers keeps its goroutine, and the call returns then only when
its caller gives up.

`DirPreviewer`: weak fairness on the goroutines taken together, which is less
than the scheduler gives each of them and enough while there are finitely many.
The user need not do anything.

## 5. Proofs

All theorems hold for every value of the constants that the named assumptions
allow; tlapm checks them to the last leaf.

* `NavigatorProofs`. `TableShowsRows` (what is drawn is what the keys act on) is
  inductive by itself: every update that draws a listing draws `f.rows`, and
  `RefreshRows` compares first.
  `TypeOK` and `LatestAnswerWins` need `NavInv`: loads are numbered by the
  action that began them and none is newer than `newest` (`LoadsNumbered`); a
  load's node refers to a directory (`NodesRefer`, otherwise an error could make
  a listing of nothing); and the newest load is for the current directory, as is
  its node (`NewestIsCurrent`). The last is what `LatestAnswerWins` lacks by
  itself: when a load is delivered and is the newest, its directory, or on an
  error the directory its node refers to *at that time*, is the current one.
  `TreeCompletesFiles` is inductive together with `RootChangesOnRoot`: only a
  load whose node is the root may have changed the root's directory, so the
  answer that fills the tree is the one that fills the panel.
  `PanelSpec`, the refinement of `FilesPanel`, needs two more facts. No two loads
  under way have the same number (`NumbersNameLoads`), so a load that is
  delivered takes away its own request and no other. And a load's node may refer
  to another directory by the time its error arrives, but not the newest load's:
  this is why the promise allows an empty listing of another directory as the
  answer to an older request only. Then each action is mapped: those that begin a
  load to `Ask`, `Deliver` to `Answer` or, when no node is left to tell, to
  `Silence`, `RefreshRows` to `Redraw`, a change of store to `Cover` or `Ask`,
  and everything else to a stutter.
* `GitStatusPoolProofs`, for `RepoLocks`. The invariant ties the three tables
  together: a caller past `AcquireLock` owns the mutex it was given, and that
  mutex is the one the table holds for its repository; whoever owns a mutex is
  between its `Lock` and its `Unlock` (`OwnersRun`); tokens in the semaphore are
  exactly the callers at work. From it `OneReaderPerRepo`, and `GateSpec`: a step of the
  locks is a step of `StatusGate` or stutters. `MutexAssumption` (there is memory
  for a mutex of every repository) gives a caller its mutex whenever it asks.
* `GitStatusPoolProofs`, for the pool. Every step of the pool is a step of
  `RepoLocks` or leaves it alone, so its theorems carry over
  (`PoolImplementsLocks`, `PoolImplementsGate`). `PoolInv` adds that a worker
  serves a request exactly while it is in a call, that an exited worker is idle,
  where accepted requests are, that at most one closer is past the swap, and what
  that closer has done at each of its steps. From it `PoolTypeOK`,
  `NothingLost` and `CloseNeverPanics`. `ServiceSpec` maps the channel, the
  workers' hands and the closers to places of requests: a worker whose closer has
  returned has exited, so it can neither serve nor read. `NeverStuck` follows the
  chain of waiting to its end: the owner of a mutex waits at most for a slot, and
  whoever has a slot waits for nothing.
* `FilePreviewersProofs`. `TextSettles` and `NeverSuperseded` rest on
  `TicketsOfView`: of the goroutines that write to the text or markdown
  previewer on the panel, none has a ticket above the counter, the one with the
  counter itself is the last preview's, and that one is for the title. Previewers
  are numbered by the preview that made them (`Numbered`), so a new previewer
  has no goroutine yet.
* `DirPreviewerProofs`. `StatsSettle` and `RowsAreEntries` are inductive given
  the types. `TurnsToDirty` follows from the types and the guard of the probe.
  `LoadingIsLoaded` says that a tab that shows "Loading..." has a goroutine on its
  way to draw something else: the entries are not empty when it is set, and each
  of them starts one.
* `FilesTableProofs`. `TableInv` is the types, `RowsOwnIndex` (until a filter has
  hidden an entry before a visible one, the visible entries are the first ones of
  the listing, and what is kept at an index is that entry's own), `SeenIsTarget`
  (an operation of F8 keeps what the cursor was on when the key was pressed) and
  `TextsReachTheScreen`, which is inductive by itself. `applyFilter` is a loop
  that appends what it keeps; the model says the same without it, by the order of
  the positions that are kept (`Pick`, `InOrder`), and the lemmas show by least
  positions what such a listing is: the entries that are kept, each once, in their
  order (`FilterShowsVisible`), and unchanged up to the first that is left out
  (`InOrderPrefix`), on which `SizesAreOwn` and `RememberedIsSelected` rest.
  `OrderAssumption` says that a listing has no name twice.
* `FtpStoreProofs`. `FtpInv` says of each call: an answer in a channel means
  that its goroutine has ended (`AnswersEnd`); a stage is only begun after the
  answer of the one before (`InOrder`), which makes `OneRequestAtATime` hold, also
  of a call that was given up: its goroutine may still be using the connection,
  but it is the only one;
  the connection is held exactly between the dial's answer and the return
  (`HoldsConn`), which gives `NoneLeftOpen`; the call waits for the stage it has
  begun (`WaitsForIt`), whose goroutine runs or has answered (`Begun`); and names
  come last (`NamesLast`). `NobodyWaitsInVain` follows: the answer a call waits
  for is at hand or under way, and a goroutine finds room for its answer also
  when nobody reads it any more.
* `PanelsProofs`. `PanelsInv` adds one fact to the types: the crumbs select the
  last crumb while they have no focus (`AtTheEnd`), from which `UpSelectsParent`
  follows, as Up takes one away and the focus function corrects only what is out
  of range. For `KeepsKeyboard` each action is shown to focus a widget that is
  then shown (`HeardAt`, from what must be shown where its key was heard:
  `WhereHeard`), to leave the column of the focus alone (`Undisturbed`), or to be
  one of `KnownLoss`.
* `SessionProofs`. `FileFollowsUser` needs to know what is being written
  (`FavInv`: it follows the user too, and the defaults are written while there is
  nothing else to lose) and that a program that is down writes nothing
  (`DownInv`). `PanelInv` follows the favourites from the file through the
  goroutine into the panel, which gives `PanelShowsFile`. `StateInv` says that a
  running program finds the state file torn only while it is writing it, and that
  what is in the file, or on its way there, leads to the place it was saved for,
  where the path is saved whole; the first part is what keeps the directory when
  only the file name is saved. That a start never opens a directory named from
  `~` rests on the home directory beginning with `/` (`TildeNotHome`).
  The proofs assume that the default favourites below home are named from `~`
  (`DefaultsAssumption`), as `defaultFavorites` does.

Only model-checked: liveness, which is out of the provers' reach
(`AcceptedIsAnswered`, `CloseReturns`, `LoadingEnds`, `RequestsEnd`,
`ReadDirReturns`). What these have to fear in the code, a wait for something that
nobody will do, is a safety property, and that part is proved: `NeverStuck`,
`LoadingIsLoaded`, `NobodyWaitsInVain`.

## 6. What is left out

* Captions, colours, sizes, layout, breadcrumb texts, and git texts on tree
  nodes: no property is about them. The text an error puts in the previewer's
  text view is left out because that view is never shown.
* A path with a trailing slash (Left in the tree goes to `dir/`) is the same
  directory as without it.
* A favourite with an unknown URL scheme leaves the store; in the model it is a
  favourite of the current store. The same disk under another URL is another
  store.
* A status call whose context is done may return a partial status: the work of
  `RepoLocks` has no result.
* What the previewers write besides the entry: the file's contents change
  outside, an error's red colour stays on the text view, a symbolic link to a
  directory is also previewed as a file. The keys of the table of extensions.
* go-git's answers in the Git tab are those of its documentation for tracked,
  staged and untracked files; commits, edits and a repository that disappears
  while it is shown are left out.
* The model of the Git tab allows what no document of the repository excludes
  and no property states: a refresh has no guard, so the tab may end on the
  changes of the directory shown before.
* `FilesTable`: the table fits the screen, so that every row is drawn after
  every event; the row of an error; symbolic links; F8 in the tree. The loading
  of a listing is one step; how loads interleave is in `Navigator`.
* `FtpStore`: TLS and the parsing of names; `Quit` is taken to close the
  connection. The FTP store's other operations answer
  `ErrNotImplemented`. The HTTP store is one request and the parsing of a page,
  and the local store one call of package `os` each.
* `Session`: the order of the favourites, their shortcuts and descriptions,
  credentials in URLs, `SelectedTreeDir` (written and never read), the spelling of
  http paths by older versions. The two files are never written by two programs.
* `Panels`: resizing the columns, the runes macOS sends for Option keys, Alt+X
  (it quits), which node a search finds, drawing, and which crumb a click hits.
* Not modelled: the global pool (two assignments and a `sync.Once`, called in one
  order by the program); the tree's git status cache, whose staleness depends on
  commits made outside while no document says when a status is renewed; masks (a
  match of a regular expression); diff statistics and ignore patterns, which
  compute over file contents with go-git; `StageDir` and `CanBeStaged`, which the
  program does not call; progress reports of operations; boxes, colours, the
  bottom menu and start-up.

## 7. Plan

1. **Tabs and the sticky table** (`sneatv`): indices and focus against what is
   drawn.
2. **Nested directories' generator**: its goroutine, its error and its progress.
3. **What the tree's search finds**, and the keys that move the selection by name.
4. **HTTP store**: redirects and listings of old spellings of a path.
5. **More proofs**: what the previewers promise as an abstract specification (the
   preview that stays is the last one's) with the refinement proved; the same for
   the two files of `Session`.
