-------------------------- MODULE DirPreviewerProofs --------------------------
(***************************************************************************)
(* What the previewer of directories promises, for any directories, any    *)
(* files and any number of goroutines under way.                           *)
(***************************************************************************)
EXTENDS DirPreviewer, TLAPS

(* The inductive invariant: the types and the two invariants.               *)
DirInv == TypeOK /\ StatsSettle /\ RowsAreEntries

USE DirPreviewerAssumption

\* The invariant holds before anything is shown.
LEMMA DirInit == Init => DirInv
  <1> SUFFICES ASSUME Init PROVE DirInv
    OBVIOUS
  <1>1. TypeOK
    BY DEF Init, TypeOK, Message, Table
  <1>2. StatsSettle /\ RowsAreEntries
    BY DEF Init, StatsSettle, RowsAreEntries, Message
  <1>3. QED
    BY <1>1, <1>2 DEF DirInv

\* What is loaded from a repository fits the table.
LEMMA StatusFits ==
  ASSUME NEW d \in RepoDir, NEW result \in {Status(d), Message("error")}
  PROVE  result \in Table
  <1> DEFINE Marked(f) == f \in staged \/ f \notin Tracked
             RowFor(f) == [file |-> f, staged |-> Marked(f)]
  <1>1. RowsOf(d) \subseteq Row
    <2> SUFFICES ASSUME NEW row \in RowsOf(d) PROVE row \in Row
      OBVIOUS
    <2>1. PICK f \in FilesOf[d] : row = RowFor(f)
      BY DEF RowsOf
    <2>2. f \in File /\ Marked(f) \in BOOLEAN
      OBVIOUS
    <2> HIDE DEF Marked
    <2>3. QED
      BY <2>1, <2>2 DEF Row
  <1>2. Dirty(d) => RowsOf(d) # {}
    <2> SUFFICES ASSUME NEW f \in FilesOf[d] PROVE RowsOf(d) # {}
      BY DEF Dirty
    <2>1. RowFor(f) \in RowsOf(d)
      BY Zenon DEF RowsOf
    <2>2. QED
      BY <2>1
  <1>3. CASE result = Status(d) /\ Dirty(d)
    <2>1. result = [is |-> "rows", rows |-> RowsOf(d)]
      BY <1>3 DEF Status
    <2>2. QED
      BY <2>1, <1>1, <1>2, <1>3 DEF Table
  <1>4. CASE result \in {Message("clean"), Message("error")}
    BY <1>4 DEF Message, Table
  <1>5. QED
    BY <1>3, <1>4 DEF Status

\* Showing a directory.
LEMMA ShowKeeps ==
  ASSUME NEW d \in Dir, NEW listed \in Seq(BOOLEAN), listed # <<>>, DirInv,
         SetDirEntries(d, listed)
  PROVE  DirInv'
  <1> USE DEF DirInv
  <1> DEFINE Call == DOMAIN listed
             Sizes == {[id |-> shows + i, dir |-> d, listed |-> listed[i]] : i \in Call}
             Loads == {[id |-> <<shows + i, spaces>>, at |-> "spawned"] : i \in Call}
             Looks == {[id |-> shows + i, dir |-> d] : i \in Call}
  <1>1. /\ Call = 1 .. Len(listed) /\ Len(listed) \in Nat \ {0}
        /\ shows \in Nat /\ spaces \in Nat
    BY DEF TypeOK
  <1>2. \A i \in Call : shows + i \in Nat /\ listed[i] \in BOOLEAN
    BY <1>1
  <1>3. /\ shows' \in 0 .. MaxShows /\ dirPath' = d
        /\ tabs' \in [git : BOOLEAN, active : {0, 1}]
        /\ sizing' = sizing \cup Sizes
        /\ UNCHANGED <<stats, gitEntries, staged, spaces>>
    BY <1>1 DEF SetDirEntries
  <1>4. \/ /\ d \in RepoDir /\ gitDir' = d /\ gitTable' = Message("loading")
           /\ refreshes' = refreshes \cup Loads /\ probes' = probes \cup Looks
        \/ UNCHANGED <<gitDir, gitTable, refreshes, probes>>
    BY DEF SetDirEntries
  <1>5. Sizes \subseteq SizeJob /\ Loads \subseteq Refresh
    BY <1>1, <1>2 DEF SizeJob, Refresh, Id
  <1>6. d \in RepoDir => Looks \subseteq Probe
    BY <1>2 DEF Probe
  <1>7. \E j \in Sizes : j.dir = d
    <2>1. 1 \in Call
      BY <1>1
    <2>2. [id |-> shows + 1, dir |-> d, listed |-> listed[1]] \in Sizes
      BY <2>1
    <2>3. QED
      BY <2>2
  <1>8. TypeOK'
    <2>1. /\ gitDir' \in RepoDir \cup {None} /\ gitTable' \in Table
          /\ refreshes' \subseteq Refresh /\ probes' \subseteq Probe
          /\ refreshes' # {} \/ gitEntries' # {} => gitDir' # None
      BY <1>3, <1>4, <1>5, <1>6 DEF TypeOK, Message, Table
    <2>2. QED
      BY <2>1, <1>3, <1>5 DEF TypeOK
  <1>9. StatsSettle'
    BY <1>3, <1>7 DEF StatsSettle
  <1>10. RowsAreEntries'
    BY <1>3, <1>4 DEF RowsAreEntries, Message
  <1>11. QED
    BY <1>8, <1>9, <1>10

\* The sizes of a directory are added up.
LEMMA SizedKeeps ==
  ASSUME DirInv, NEW j \in sizing, Sized(j)
  PROVE  DirInv'
  <1> USE DEF DirInv
  <1>1. /\ sizing' = sizing \ {j} /\ UNCHANGED <<dirPath, tabs, probes, shows>>
        /\ UNCHANGED gitVars
    BY DEF Sized
  <1>2. j.dir \in Dir /\ j.listed \in BOOLEAN
    BY DEF TypeOK, SizeJob
  <1>3. [dir |-> j.dir, listed |-> j.listed] \in Summary
    BY <1>2 DEF Summary
  <1>4. stats' \in Summary \cup {None}
    BY <1>3 DEF Sized, TypeOK
  <1>5. TypeOK'
    BY <1>1, <1>4 DEF TypeOK, gitVars
  <1>6. StatsSettle'
    <2> SUFFICES ASSUME dirPath # None, dirPath \notin Unsized,
                        \A k \in sizing' : k.dir # dirPath
                 PROVE  stats' # None /\ stats'.dir = dirPath
      BY <1>1 DEF StatsSettle
    <2>1. CASE j.dir = dirPath
      <3>1. stats' = [dir |-> j.dir, listed |-> j.listed]
        BY <2>1 DEF Sized
      <3>2. QED
        BY <3>1, <2>1, <1>3
    <2>2. CASE j.dir # dirPath
      <3>1. stats' = stats
        BY <2>2 DEF Sized
      <3>2. \A k \in sizing : k.dir # dirPath
        BY <2>2, <1>1
      <3>3. QED
        BY <3>1, <3>2 DEF StatsSettle
    <2>3. QED
      BY <2>1, <2>2
  <1>7. RowsAreEntries'
    BY <1>1 DEF gitVars, RowsAreEntries
  <1>8. QED
    BY <1>5, <1>6, <1>7

\* The tabs may turn, by a goroutine or by the user.
LEMMA TurnKeeps ==
  ASSUME DirInv, UNCHANGED <<dirPath, stats, sizing, shows>>, UNCHANGED gitVars,
         probes' \subseteq probes, tabs' \in {tabs, SwitchTo(0), SwitchTo(1)}
  PROVE  DirInv'
  <1> USE DEF DirInv
  <1>1. tabs' \in [git : BOOLEAN, active : {0, 1}]
    BY DEF SwitchTo, TypeOK
  <1>2. TypeOK'
    BY <1>1 DEF TypeOK, gitVars
  <1>3. StatsSettle' /\ RowsAreEntries'
    BY DEF StatsSettle, RowsAreEntries, gitVars
  <1>4. QED
    BY <1>2, <1>3

\* A refresh reads which directory to load.
LEMMA ReadsKeeps ==
  ASSUME DirInv, NEW r \in refreshes, RefreshReads(r)
  PROVE  DirInv'
  <1> USE DEF DirInv
  <1>1. UNCHANGED dirVars /\ UNCHANGED <<gitDir, gitEntries, gitTable, staged, spaces>>
    BY DEF RefreshReads
  <1>2. gitDir \in RepoDir /\ r.id \in Id
    BY DEF TypeOK, Refresh
  <1> DEFINE new == [id : {r.id}, at : {"reading"}, dir : {gitDir}]
  <1>3. refreshes' = (refreshes \ {r}) \cup new
    BY DEF RefreshReads
  <1>4. \A n \in new : n \in Refresh
    BY <1>2 DEF Refresh
  <1>5. TypeOK'
    BY <1>1, <1>2, <1>3, <1>4 DEF TypeOK, dirVars
  <1>6. StatsSettle' /\ RowsAreEntries'
    BY <1>1 DEF dirVars, StatsSettle, RowsAreEntries
  <1>7. QED
    BY <1>5, <1>6

\* A refresh loads.
LEMMA LoadsKeeps ==
  ASSUME DirInv, NEW r \in refreshes, RefreshLoads(r)
  PROVE  DirInv'
  <1> USE DEF DirInv
  <1>1. UNCHANGED dirVars /\ UNCHANGED <<gitDir, gitEntries, gitTable, staged, spaces>>
    BY DEF RefreshLoads
  <1>2. gitDir \in RepoDir /\ r.dir \in RepoDir /\ r.id \in Id
    BY DEF RefreshLoads, TypeOK, Refresh
  <1>3. PICK result \in {Status(r.dir), Message("error")} :
          refreshes' = (refreshes \ {r}) \cup [id : {r.id}, at : {"loaded"}, result : {result}]
    BY DEF RefreshLoads
  <1>4. result \in Table
    BY <1>2, StatusFits
  <1>5. \A n \in [id : {r.id}, at : {"loaded"}, result : {result}] : n \in Refresh
    BY <1>2, <1>4 DEF Refresh
  <1>6. TypeOK'
    BY <1>1, <1>2, <1>3, <1>5 DEF TypeOK, dirVars
  <1>7. StatsSettle' /\ RowsAreEntries'
    BY <1>1 DEF dirVars, StatsSettle, RowsAreEntries
  <1>8. QED
    BY <1>6, <1>7

\* A refresh draws.
LEMMA DrawsKeeps ==
  ASSUME DirInv, NEW r \in refreshes, RefreshDraws(r)
  PROVE  DirInv'
  <1> USE DEF DirInv
  <1>1. /\ r.at = "loaded" /\ refreshes' = refreshes \ {r} /\ gitTable' = r.result
        /\ gitEntries' = IF r.result.is = "error" THEN gitEntries ELSE r.result.rows
        /\ UNCHANGED dirVars /\ UNCHANGED <<gitDir, staged, spaces>>
    BY DEF RefreshDraws
  <1>2. r.result \in Table
    BY <1>1 DEF TypeOK, Refresh
  <1>3. r.result.rows \subseteq Row
    BY <1>2 DEF Table
  <1>4. TypeOK'
    BY <1>1, <1>2, <1>3 DEF TypeOK, dirVars
  <1>5. StatsSettle' /\ RowsAreEntries'
    BY <1>1 DEF dirVars, StatsSettle, RowsAreEntries
  <1>6. QED
    BY <1>4, <1>5

\* Space stages or unstages a file, or fails.
LEMMA SpaceKeeps ==
  ASSUME DirInv, NEW entry \in gitEntries, Space(entry)
  PROVE  DirInv'
  <1> USE DEF DirInv
  <1> DEFINE new == [id : {<<shows, spaces + 1>>}, at : {"spawned"}]
  <1>1. /\ spaces' = spaces + 1 /\ spaces' \in 0 .. MaxSpaces
        /\ UNCHANGED dirVars /\ UNCHANGED <<gitDir, gitEntries>>
    BY DEF Space, TypeOK
  <1>2. /\ refreshes' = refreshes \/ refreshes' = refreshes \cup new
        /\ gitTable' \in {gitTable, Message("error")}
    BY DEF Space
  <1>3. staged' \subseteq File
    BY DEF Space, Row, TypeOK
  <1>4. new \subseteq Refresh
    BY DEF Refresh, Id, TypeOK
  <1>5. refreshes' # {} => gitDir' # None
    BY <1>1 DEF TypeOK
  <1>6. TypeOK'
    BY <1>1, <1>2, <1>3, <1>4, <1>5 DEF TypeOK, dirVars, Message, Table
  <1>7. StatsSettle' /\ RowsAreEntries'
    BY <1>1, <1>2 DEF dirVars, StatsSettle, RowsAreEntries, Message
  <1>8. QED
    BY <1>6, <1>7

\* Every step keeps the invariant.
LEMMA DirStep == DirInv /\ [Next]_vars => DirInv'
  <1> SUFFICES ASSUME DirInv, [Next]_vars PROVE DirInv'
    OBVIOUS
  <1>1. ASSUME NEW d \in Dir, ShowSummary(d) PROVE DirInv'
    <2>1. PICK read \in BOOLEAN : SetDirEntries(d, <<FALSE, read>>)
      BY <1>1 DEF ShowSummary
    <2>2. <<FALSE, read>> \in Seq(BOOLEAN) /\ <<FALSE, read>> # <<>>
      OBVIOUS
    <2>3. QED
      BY <2>1, <2>2, ShowKeeps
  <1>2. ASSUME NEW d \in Dir, ShowLoaded(d) PROVE DirInv'
    <2>1. <<TRUE>> \in Seq(BOOLEAN) /\ <<TRUE>> # <<>>
      OBVIOUS
    <2>2. QED
      BY <1>2, <2>1, ShowKeeps DEF ShowLoaded
  <1>3. ASSUME NEW i \in {0, 1}, Switch(i) PROVE DirInv'
    BY <1>3, TurnKeeps DEF Switch
  <1>4. ASSUME NEW entry \in gitEntries, Space(entry) PROVE DirInv'
    BY <1>4, SpaceKeeps
  <1>5. ASSUME NEW j \in sizing, Sized(j) PROVE DirInv'
    BY <1>5, SizedKeeps
  <1>6. ASSUME NEW p \in probes, ProbeEnds(p) PROVE DirInv'
    BY <1>6, TurnKeeps DEF ProbeEnds
  <1>7. ASSUME NEW r \in refreshes, RefreshLoads(r) PROVE DirInv'
    BY <1>7, LoadsKeeps
  <1>8. ASSUME NEW r \in refreshes, RefreshDraws(r) PROVE DirInv'
    BY <1>8, DrawsKeeps
  <1>9. ASSUME NEW r \in refreshes, RefreshReads(r) PROVE DirInv'
    BY <1>9, ReadsKeeps
  <1>10. CASE UNCHANGED vars
    BY <1>10 DEF vars, dirVars, gitVars, DirInv, TypeOK, StatsSettle, RowsAreEntries
  <1>11. QED
    BY <1>1, <1>2, <1>3, <1>4, <1>5, <1>6, <1>7, <1>8, <1>9, <1>10 DEF Next, Goroutine

\* The goroutine that turns to the Git tab finds its directory dirty and shown.
LEMMA TurnsOnlyToDirty ==
  DirInv /\ [Next]_vars
    => (probes' # probes /\ tabs.active = 0 /\ tabs'.active = 1
          => dirPath \in RepoDir /\ Dirty(dirPath))
  <1> SUFFICES ASSUME DirInv, [Next]_vars, probes' # probes, tabs.active = 0, tabs'.active = 1
               PROVE  dirPath \in RepoDir /\ Dirty(dirPath)
    OBVIOUS
  <1>1. ASSUME NEW d \in Dir, ShowSummary(d) \/ ShowLoaded(d) PROVE FALSE
    <2>1. tabs'.active = 0
      BY <1>1 DEF ShowSummary, ShowLoaded, SetDirEntries
    <2>2. QED
      BY <2>1
  <1>2. ASSUME NEW p \in probes, ProbeEnds(p) PROVE dirPath \in RepoDir /\ Dirty(dirPath)
    <2>1. p.dir \in RepoDir
      BY DEF DirInv, TypeOK, Probe
    <2>2. tabs' # tabs
      OBVIOUS
    <2>3. QED
      BY <2>1, <2>2, <1>2 DEF ProbeEnds
  <1>3. QED
    BY <1>1, <1>2
    DEF Next, Goroutine, Switch, Space, Sized, RefreshReads, RefreshLoads, RefreshDraws,
        vars, dirVars

\* The invariant holds in every state.
LEMMA DirAlways == Spec => []DirInv
  BY DirInit, DirStep, PTL DEF Spec

(* The variables keep their types.                                          *)
THEOREM DirTypes == Spec => []TypeOK
  <1>1. DirInv => TypeOK
    BY DEF DirInv
  <1>2. QED
    BY <1>1, DirAlways, PTL

(* When no sizes are being added up for the directory on show, the summary  *)
(* is that directory's.                                                     *)
THEOREM StatsAlwaysSettle == Spec => []StatsSettle
  <1>1. DirInv => StatsSettle
    BY DEF DirInv
  <1>2. QED
    BY <1>1, DirAlways, PTL

(* The rows that the Git tab draws are the entries that Space acts on.      *)
THEOREM RowsAlwaysEntries == Spec => []RowsAreEntries
  <1>1. DirInv => RowsAreEntries
    BY DEF DirInv
  <1>2. QED
    BY <1>1, DirAlways, PTL

(* No goroutine turns to the Git tab of a directory without changes.        *)
THEOREM AlwaysTurnsToDirty == Spec => TurnsToDirty
  BY TurnsOnlyToDirty, DirAlways, PTL DEF Spec, TurnsToDirty
-----------------------------------------------------------------------------
(* What "Loading..." waits for: a goroutine that is on its way to draw, and *)
(* none of them draws "Loading..." again.                                   *)
LoadingIsLoaded ==
  /\ gitTable.is = "loading" => refreshes # {}
  /\ \A r \in refreshes : r.at = "loaded" => r.result.is \in {"rows", "clean", "error"}

\* A step other than SetDirEntries on a repository draws something else or
\* leaves a goroutine on its way.
LEMMA LoadingStep ==
  ASSUME DirInv, LoadingIsLoaded, [Next]_vars
  PROVE  LoadingIsLoaded'
  <1>1. ASSUME UNCHANGED <<gitTable, refreshes>> PROVE LoadingIsLoaded'
    BY <1>1 DEF LoadingIsLoaded
  <1>2. ASSUME NEW d \in Dir, NEW listed \in Seq(BOOLEAN), listed # <<>>, SetDirEntries(d, listed)
        PROVE  LoadingIsLoaded'
    <2> DEFINE Loads == {[id |-> <<shows + i, spaces>>, at |-> "spawned"] : i \in DOMAIN listed}
    <2>1. CASE d \in RepoDir
      <3>1. refreshes' = refreshes \cup Loads
        BY <1>2, <2>1 DEF SetDirEntries
      <3>2. 1 \in DOMAIN listed
        BY <1>2
      <3>3. [id |-> <<shows + 1, spaces>>, at |-> "spawned"] \in refreshes'
        BY <3>1, <3>2
      <3>4. \A r \in Loads : r.at = "spawned"
        OBVIOUS
      <3>5. QED
        BY <3>1, <3>3, <3>4 DEF LoadingIsLoaded
    <2>2. CASE d \notin RepoDir
      BY <1>1, <1>2, <2>2 DEF SetDirEntries
    <2>3. QED
      BY <2>1, <2>2
  <1>3. ASSUME NEW d \in Dir, ShowSummary(d) \/ ShowLoaded(d) PROVE LoadingIsLoaded'
    <2>1. \A read \in BOOLEAN : <<FALSE, read>> \in Seq(BOOLEAN) /\ <<FALSE, read>> # <<>>
      OBVIOUS
    <2>2. <<TRUE>> \in Seq(BOOLEAN) /\ <<TRUE>> # <<>>
      OBVIOUS
    <2>3. ASSUME ShowSummary(d) PROVE \E read \in BOOLEAN : SetDirEntries(d, <<FALSE, read>>)
      BY <2>3 DEF ShowSummary
    <2>4. QED
      BY <1>2, <1>3, <2>1, <2>2, <2>3 DEF ShowLoaded
  <1>4. ASSUME NEW entry \in gitEntries, Space(entry) PROVE LoadingIsLoaded'
    <2> DEFINE new == [id : {<<shows, spaces + 1>>}, at : {"spawned"}]
    <2>1. \/ refreshes' = refreshes \cup new /\ UNCHANGED gitTable
          \/ gitTable' = Message("error") /\ UNCHANGED refreshes
      BY <1>4 DEF Space
    <2>2. \A n \in new : n.at = "spawned"
      OBVIOUS
    <2>3. QED
      BY <2>1, <2>2 DEF LoadingIsLoaded, Message
  <1>5. ASSUME NEW r \in refreshes, RefreshReads(r) PROVE LoadingIsLoaded'
    <2> DEFINE new == [id : {r.id}, at : {"reading"}, dir : {gitDir}]
    <2>1. refreshes' = (refreshes \ {r}) \cup new /\ UNCHANGED gitTable
      BY <1>5 DEF RefreshReads
    <2>2. \A n \in new : n.at = "reading"
      OBVIOUS
    <2>3. [id |-> r.id, at |-> "reading", dir |-> gitDir] \in new
      OBVIOUS
    <2>4. QED
      BY <2>1, <2>2, <2>3 DEF LoadingIsLoaded
  <1>6. ASSUME NEW r \in refreshes, RefreshLoads(r) PROVE LoadingIsLoaded'
    <2>1. PICK result \in {Status(r.dir), Message("error")} :
            refreshes' = (refreshes \ {r}) \cup [id : {r.id}, at : {"loaded"}, result : {result}]
      BY <1>6, Zenon DEF RefreshLoads
    <2> DEFINE new == [id : {r.id}, at : {"loaded"}, result : {result}]
    <2>2. UNCHANGED gitTable
      BY <1>6 DEF RefreshLoads
    <2>3. result.is \in {"rows", "clean", "error"}
      BY DEF Status, Message
    <2>4. \A n \in new : n.at = "loaded" /\ n.result.is \in {"rows", "clean", "error"}
      BY <2>3
    <2>5. [id |-> r.id, at |-> "loaded", result |-> result] \in new
      OBVIOUS
    <2>6. QED
      BY <2>1, <2>2, <2>4, <2>5 DEF LoadingIsLoaded
  <1>7. ASSUME NEW r \in refreshes, RefreshDraws(r) PROVE LoadingIsLoaded'
    BY <1>7 DEF RefreshDraws, LoadingIsLoaded
  <1>8. QED
    BY <1>1, <1>3, <1>4, <1>5, <1>6, <1>7
    DEF Next, Goroutine, Switch, Sized, ProbeEnds, vars, gitVars

(* While the Git tab says "Loading...", a goroutine is on its way to draw   *)
(* something else: the safety that LoadingEnds rests on.                    *)
THEOREM DirLoadingIsLoaded == Spec => []LoadingIsLoaded
  <1>1. Init => LoadingIsLoaded
    BY DEF Init, LoadingIsLoaded, Message
  <1>2. QED
    BY <1>1, LoadingStep, DirAlways, PTL DEF Spec
=============================================================================
