----------------------------- MODULE DirPreviewer -----------------------------
(***************************************************************************)
(* The previewer of directories (pkg/viewers/dir_previewer.go) and its Git *)
(* tab (git_dir_status_previewer.go).  The event loop shows a directory;   *)
(* three goroutines follow: one adds up file sizes and fills the table of  *)
(* extensions, one looks whether the directory is dirty and then turns to  *)
(* the Git tab, one loads the rows of the Git tab.  The first two check,   *)
(* when they are back in the event loop, that their directory is still     *)
(* shown; the third does not.  Space on a row of the Git tab stages or     *)
(* unstages its file.                                                      *)
(*                                                                         *)
(* Of a summary we keep whose it is and whether the directory had been     *)
(* read when it was made; of the repository, each file's status.           *)
(***************************************************************************)
EXTENDS Integers, Sequences

CONSTANTS
  Dir,       \* directories
  RepoDir,   \* those inside a git repository
  Unsized,   \* those with a file whose size cannot be read
  Unreadable, \* those that cannot be read
  File,      \* files that differ from HEAD
  Tracked,   \* those that HEAD has
  Indexed,   \* those that are in the index when the program starts
  FilesOf,   \* [RepoDir -> SUBSET File]: those below a directory
  MaxShows,  \* bound on the calls of SetDirEntries
  MaxSpaces, \* bound on the number of Space keys
  None

Summary == [dir : Dir, listed : BOOLEAN]

ASSUME DirPreviewerAssumption ==
  /\ RepoDir \subseteq Dir
  /\ Unsized \subseteq Dir /\ Unreadable \subseteq Dir
  /\ Tracked \subseteq File
  /\ Indexed \subseteq File
  /\ FilesOf \in [RepoDir -> SUBSET File]
  /\ MaxShows \in Nat /\ MaxSpaces \in Nat
  /\ None \notin Dir \cup Summary

VARIABLES
  dirPath,    \* DirPreviewer.dirPath
  stats,      \* the summary in ExtTable
  sizing,     \* goroutines of SetDirEntries
  tabs,       \* has it a Git tab, and which tab is active
  probes,     \* goroutines of activateGitTabIfDirty
  gitDir,     \* GitDirStatusPreviewer.dirContext
  gitEntries, \* GitDirStatusPreviewer.entries
  gitTable,   \* what GitDirStatusPreviewer.table shows
  refreshes,  \* goroutines of GitDirStatusPreviewer.refresh
  staged,     \* the files in the repository's index
  shows, spaces  \* numbers of calls so far; they identify goroutines

dirVars == <<dirPath, stats, sizing, tabs, probes, shows>>
gitVars == <<gitDir, gitEntries, gitTable, refreshes, staged, spaces>>
vars == <<dirVars, gitVars>>

SizeJob == [id : Nat, dir : Dir, listed : BOOLEAN]
Probe == [id : Nat, dir : RepoDir]
Row == [file : File, staged : BOOLEAN]
Table == [is : {"blank", "loading", "clean", "error"}, rows : {{}}]
           \cup [is : {"rows"}, rows : (SUBSET Row) \ {{}}]
Id == Nat \X Nat
Refresh == [id : Id, at : {"spawned"}]
             \cup [id : Id, at : {"reading"}, dir : RepoDir]
             \cup [id : Id, at : {"loaded"}, result : Table]

Message(text) == [is |-> text, rows |-> {}]

Init ==
  /\ dirPath = None
  /\ stats = None
  /\ sizing = {}
  /\ tabs = [git |-> FALSE, active |-> 0]
  /\ probes = {}
  /\ gitDir = None
  /\ gitEntries = {}
  /\ gitTable = Message("blank")
  /\ refreshes = {}
  /\ staged = Indexed
  /\ shows = 0
  /\ spaces = 0

-----------------------------------------------------------------------------
\* sneatv.Tabs.SwitchTo: there may be no such tab.
SwitchTo(i) == IF i = 1 => tabs.git THEN [tabs EXCEPT !.active = i] ELSE tabs

\* The calls of SetDirEntries for d in one event; "listed" says of each
\* whether it was given what is in d.
SetDirEntries(d, listed) ==
  LET Call == DOMAIN listed
      Id_(i) == <<shows + i, spaces>>
  IN
  /\ shows + Len(listed) <= MaxShows
  /\ shows' = shows + Len(listed)
  /\ dirPath' = d
  /\ tabs' = [git |-> d \in RepoDir, active |-> 0]
  /\ sizing' = sizing \cup {[id |-> shows + i, dir |-> d, listed |-> listed[i]] : i \in Call}
  /\ UNCHANGED <<stats, gitEntries, staged, spaces>>
  /\ IF d \in RepoDir
     THEN /\ gitDir' = d
          /\ gitTable' = Message("loading")
          /\ refreshes' = refreshes \cup {[id |-> Id_(i), at |-> "spawned"] : i \in Call}
          /\ probes' = probes \cup {[id |-> shows + i, dir |-> d] : i \in Call}
     ELSE UNCHANGED <<gitDir, gitTable, refreshes, probes>>

\* filesPanel.showDirSummary previews the selected entry, which is not read
\* yet, and then what it has read of it, or that it could not.
ShowSummary(d) == SetDirEntries(d, <<FALSE, d \notin Unreadable>>)

\* Navigator.onDataLoaded previews the directory it has loaded.
ShowLoaded(d) == d \notin Unreadable /\ SetDirEntries(d, <<TRUE>>)

SizedAnyDir(j) ==  \* mutant of Sized: the directory is not compared
  /\ sizing' = sizing \ {j}
  /\ stats' = IF j.listed /\ j.dir \in Unsized THEN stats ELSE [dir |-> j.dir, listed |-> j.listed]
  /\ UNCHANGED <<dirPath, tabs, probes, shows, gitVars>>

\* The sizes are added up and the summary is drawn, unless another directory
\* is shown by then.  A size that cannot be read ends it silently.
Sized(j) ==
  /\ sizing' = sizing \ {j}
  /\ stats' = IF (j.listed /\ j.dir \in Unsized) \/ dirPath # j.dir THEN stats
              ELSE [dir |-> j.dir, listed |-> j.listed]
  /\ UNCHANGED <<dirPath, tabs, probes, shows, gitVars>>

-----------------------------------------------------------------------------
Dirty(d) == FilesOf[d] # {}

TurnAnyway(p) ==  \* mutant of ProbeEnds: the directory is not compared
  /\ probes' = probes \ {p}
  /\ tabs' = IF Dirty(p.dir) THEN SwitchTo(1) ELSE tabs
  /\ UNCHANGED <<dirPath, stats, sizing, shows, gitVars>>

\* The status is loaded (nothing here makes a dirty directory clean), and if
\* the directory is dirty and still on show the update turns to the Git tab.
\* If it is not, or on an error, there is no update.
ProbeEnds(p) ==
  /\ probes' = probes \ {p}
  /\ \/ UNCHANGED tabs
     \/ Dirty(p.dir) /\ dirPath = p.dir /\ tabs' = SwitchTo(1)
  /\ UNCHANGED <<dirPath, stats, sizing, shows, gitVars>>

\* A key or a click on the tabs.
Switch(i) ==
  /\ tabs' = SwitchTo(i)
  /\ UNCHANGED <<dirPath, stats, sizing, probes, shows, gitVars>>

-----------------------------------------------------------------------------
\* go-git reports an untracked file as untracked in the index too, which is
\* "not unmodified" and so counts as staged: Space unstages it, and no key of
\* the tab stages it.
RowsOf(d) == {[file |-> f, staged |-> f \in staged \/ f \notin Tracked] : f \in FilesOf[d]}

RowsOnly(d) == [is |-> "rows", rows |-> RowsOf(d)]  \* mutant of Status: no "No changes"

\* What loadGitDirStatus tells of a directory.
Status(d) == IF Dirty(d) THEN [is |-> "rows", rows |-> RowsOf(d)] ELSE Message("clean")

\* The goroutine reads p.dirContext, which the event loop may replace.
RefreshReads(r) ==
  /\ r.at = "spawned"
  /\ refreshes' = (refreshes \ {r}) \cup [id : {r.id}, at : {"reading"}, dir : {gitDir}]
  /\ UNCHANGED <<dirVars, gitDir, gitEntries, gitTable, staged, spaces>>

\* It loads the status of that directory, or fails.  (That the repository is
\* gone by then is left out.)
RefreshLoads(r) ==
  /\ r.at = "reading"
  /\ \E result \in {Status(r.dir), Message("error")} :
       refreshes' = (refreshes \ {r}) \cup [id : {r.id}, at : {"loaded"}, result : {result}]
  /\ UNCHANGED <<dirVars, gitDir, gitEntries, gitTable, staged, spaces>>

KeepEntries(r) ==  \* mutant of RefreshDraws: new rows are drawn over the old entries
  /\ r.at = "loaded"
  /\ refreshes' = refreshes \ {r}
  /\ gitTable' = r.result
  /\ UNCHANGED <<dirVars, gitDir, gitEntries, staged, spaces>>

IgnoreClean(r) ==  \* mutant of RefreshDraws: nothing to show, nothing drawn
  /\ r.at = "loaded"
  /\ refreshes' = refreshes \ {r}
  /\ IF r.result.is = "clean" THEN UNCHANGED <<gitTable, gitEntries>>
     ELSE /\ gitTable' = r.result
          /\ gitEntries' = IF r.result.is = "error" THEN gitEntries ELSE r.result.rows
  /\ UNCHANGED <<dirVars, gitDir, staged, spaces>>

\* Its update runs, whichever directory is shown by now.  An error is written
\* over the rows and leaves the entries.
RefreshDraws(r) ==
  /\ r.at = "loaded"
  /\ refreshes' = refreshes \ {r}
  /\ gitTable' = r.result
  /\ gitEntries' = IF r.result.is = "error" THEN gitEntries ELSE r.result.rows
  /\ UNCHANGED <<dirVars, gitDir, staged, spaces>>

\* Space on an entry, whether or not its row is drawn.
Space(entry) ==
  /\ spaces < MaxSpaces
  /\ spaces' = spaces + 1
  /\ \/ /\ staged' = IF entry.staged THEN staged \ {entry.file} ELSE staged \cup {entry.file}
        /\ refreshes' = refreshes \cup [id : {<<shows, spaces + 1>>}, at : {"spawned"}]
        /\ UNCHANGED gitTable
     \/ /\ gitTable' = Message("error")
        /\ UNCHANGED <<staged, refreshes>>
  /\ UNCHANGED <<dirVars, gitDir, gitEntries>>

Goroutine ==
  \/ \E j \in sizing : Sized(j)
  \/ \E p \in probes : ProbeEnds(p)
  \/ \E r \in refreshes : RefreshReads(r) \/ RefreshLoads(r) \/ RefreshDraws(r)

Next ==
  \/ \E d \in Dir : ShowSummary(d) \/ ShowLoaded(d)
  \/ \E i \in {0, 1} : Switch(i)
  \/ \E entry \in gitEntries : Space(entry)
  \/ Goroutine

Spec == Init /\ [][Next]_vars

\* A goroutine is scheduled, and the event loop runs what it has queued.
SpecLive == Spec /\ WF_vars(Goroutine)

-----------------------------------------------------------------------------
TypeOK ==
  /\ dirPath \in Dir \cup {None}
  /\ stats \in Summary \cup {None}
  /\ sizing \subseteq SizeJob
  /\ tabs \in [git : BOOLEAN, active : {0, 1}]
  /\ probes \subseteq Probe
  /\ gitDir \in RepoDir \cup {None}
  /\ gitEntries \subseteq Row
  /\ gitTable \in Table
  /\ refreshes \subseteq Refresh
  /\ refreshes # {} \/ gitEntries # {} => gitDir # None
  /\ staged \subseteq File
  /\ shows \in 0 .. MaxShows
  /\ spaces \in 0 .. MaxSpaces

(* When the sizes of the directory on show are added up, the summary is that *)
(* directory's, however the goroutines of earlier ones ended.                *)
StatsSettle ==
  (dirPath # None /\ dirPath \notin Unsized /\ \A j \in sizing : j.dir # dirPath)
    => stats # None /\ stats.dir = dirPath

(* Nobody is taken to the Git tab by a goroutine unless the directory on    *)
(* show has changes.                                                        *)
TurnsToDirty ==
  [][probes' # probes /\ tabs.active = 0 /\ tabs'.active = 1
       => dirPath \in RepoDir /\ Dirty(dirPath)]_vars

(* The rows of the Git tab are those Space acts on: row and entry change    *)
(* together, though errors and "Loading..." do not touch the entries.       *)
RowsAreEntries == gitTable.is = "rows" => gitTable.rows = gitEntries

(* "Loading..." is replaced by rows or a message.                           *)
LoadingEnds == gitTable.is = "loading" ~> gitTable.is # "loading"
=============================================================================
