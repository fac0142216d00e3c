--------------------------- MODULE NavigatorProofs ---------------------------
(***************************************************************************)
(* What Navigator promises for any stores, directories and user: its       *)
(* types, and the safety properties of the files panel and of the tree.    *)
(***************************************************************************)
EXTENDS Navigator, TLAPS

(* The inductive invariant.  Loads are numbered by the action that began    *)
(* them, each has a node that refers to a directory or no node, and the     *)
(* newest load is for the current directory and so is its node.             *)
LoadsNumbered ==
  /\ newest <= acts
  /\ \A l \in loads : l.id <= acts
  /\ applied # None => applied.id <= acts

HasNode(l) == l.node # None

NodesRefer == \A l \in loads : HasNode(l) => NodeRef(l.node) \in Ctx

NewestIsCurrent ==
  \A l \in loads : l.id = newest =>
    /\ current # None /\ l.dir = current.dir
    /\ HasNode(l) => NodeRef(l.node).dir = l.dir

NavInv == /\ TypeOK
          /\ LoadsNumbered
          /\ NodesRefer
          /\ NewestIsCurrent
          /\ LatestAnswerWins

USE NavigatorAssumption, NoneAssumption

-----------------------------------------------------------------------------
(* The table and f.rows.  This needs no more than itself.                   *)

\* The table never draws a listing other than the one the panel's keys act on.
TableShowsRows == content.kind = "rows" => content = rows

\* Every step that draws a listing draws f.rows.
LEMMA TableStep == TableShowsRows /\ [Next]_vars => TableShowsRows'
  <1> SUFFICES ASSUME TableShowsRows, [Next]_vars PROVE TableShowsRows'
    OBVIOUS
  <1>1. ASSUME UNCHANGED <<rows, content>> PROVE TableShowsRows'
    BY <1>1 DEF TableShowsRows
  <1>2. ASSUME FilesStoreChange PROVE TableShowsRows'
    BY <1>2 DEF FilesStoreChange, Loading, TableShowsRows
  <1>3. ASSUME NEW r, NEW p, SetRows(r, p) PROVE TableShowsRows'
    BY <1>3 DEF SetRows, TableShowsRows
  <1>4. ASSUME NEW l \in loads, Deliver(l) PROVE TableShowsRows'
    <2>1. CASE l.failed
      BY <2>1, <1>1, <1>3, <1>4 DEF Deliver, ShowNodeError
    <2>2. CASE ~l.failed
      BY <2>2, <1>3, <1>4 DEF Deliver, OnDataLoaded
    <2>3. QED
      BY <2>1, <2>2
  <1>5. ASSUME NEW l \in loads, OpenDir(l) \/ ReadDir(l) \/ Deliver(l) PROVE TableShowsRows'
    BY <1>1, <1>4, <1>5 DEF OpenDir, ReadDir, panels
  <1>6. ASSUME NEW r \in refreshes, RefreshRows(r) \/ RefreshNothing(r) PROVE TableShowsRows'
    BY <1>6 DEF RefreshRows, RefreshNothing, TableShowsRows
  <1>7. ASSUME Background PROVE TableShowsRows'
    BY <1>1, <1>5, <1>6, <1>7 DEF Background, EndTreeSpin, EndFilesSpin, panels
  <1>8. ASSUME NEW s \in Store, NEW d \in Path, PreviewFavorite(s, d) \/ OpenFavorite(s, d)
        PROVE  TableShowsRows'
    <2>1. UNCHANGED rows
      BY <1>8 DEF PreviewFavorite, OpenFavorite
    <2>2. UNCHANGED content \/ FilesStoreChange
      BY <1>8 DEF PreviewFavorite, OpenFavorite, SetStore
    <2>3. QED
      BY <1>1, <1>2, <2>1, <2>2
  <1>9. ASSUME User PROVE TableShowsRows'
    BY <1>1, <1>8, <1>9 DEF User, Startup, GoDir, SelectNode, SelectEntry, panels
  <1>10. QED
    BY <1>1, <1>7, <1>9 DEF Next, vars

\* The table never draws a listing other than f.rows, however late the git
\* status answers of older listings come.
THEOREM NavigatorTableShowsRows == Spec => []TableShowsRows
  <1>1. Init => TableShowsRows
    BY DEF Init, Empty, TableShowsRows
  <1>2. QED
    BY <1>1, TableStep, PTL DEF Spec

-----------------------------------------------------------------------------
(* Starting a load.                                                         *)

\* A context for a user's path, before "~" is expanded.
UserCtx == [store : Store, dir : Path]

\* "~" is expanded, and nothing else changes.
LEMMA ExpandedIsDir ==
  ASSUME NEW p \in Path
  PROVE  /\ ExpandHome(p) \in Dir
         /\ p \in Dir => ExpandHome(p) = p
  BY DEF ExpandHome, Dir

\* A load that begins for a node, or for none, leaves every number, node and
\* directory in order.
LEMMA StartLoadInv ==
  ASSUME NavInv, NEW c \in UserCtx, NEW n \in Node \cup {None}, NEW rc \in BOOLEAN,
         StartLoad(n, c, rc), UNCHANGED <<rows, applied>>,
         acts' = acts + 1, acts' \in Act,
         n \notin {None, RootNode} => n.ctx = c /\ c \in Ctx
  PROVE  /\ current' \in Ctx \cup {None} /\ rootRef' \in Ctx \cup {None}
         /\ loads' \subseteq Load /\ newest' \in Act
         /\ LoadsNumbered' /\ NodesRefer' /\ NewestIsCurrent' /\ LatestAnswerWins'
  <1> DEFINE target == [c EXCEPT !.dir = ExpandHome(c.dir)]
             l0 == [id |-> acts', node |-> n, dir |-> target.dir, rootChanged |-> rc,
                    phase |-> "spawned", store |-> c.store, from |-> c.store,
                    failed |-> FALSE]
  <1> USE DEF NavInv
  <1>0. /\ loads \subseteq Load /\ rootRef \in Ctx \cup {None}
        /\ acts \in Nat /\ newest \in Nat /\ MaxActs \in Nat
    BY DEF TypeOK, Act
  <1>1. target \in Ctx /\ (c \in Ctx => target = c)
    BY ExpandedIsDir DEF UserCtx, Ctx
  <1>2. /\ current' = target /\ rootRef' = (IF n = RootNode THEN target ELSE rootRef)
        /\ newest' = acts' /\ loads' = loads \cup {l0}
    BY DEF StartLoad
  <1>3. l0 \in Load
    BY <1>1 DEF Load, Ctx, UserCtx
  <1>4. LoadsNumbered'
    <2>1. \A l \in Load : l.id \in Nat
      BY DEF Load, Act
    <2>2. applied \in Load \cup {None} /\ applied' = applied
      BY DEF TypeOK
    <2>3. newest' <= acts' /\ \A l \in loads' : l.id <= acts'
      BY <1>0, <1>2, <2>1 DEF LoadsNumbered, Act
    <2>4. applied' # None => applied'.id <= acts'
      BY <1>0, <2>1, <2>2 DEF LoadsNumbered, Act
    <2>5. QED
      BY <2>3, <2>4 DEF LoadsNumbered
  <1>5. NodesRefer'
    <2>1. ASSUME NEW l \in loads', HasNode(l) PROVE NodeRef(l.node)' \in Ctx
      <3>1. CASE l = l0
        BY <3>1, <2>1, <1>1, <1>2 DEF HasNode, NodeRef
      <3>2. CASE l \in loads
        BY <3>2, <2>1, <1>1, <1>2 DEF NodesRefer, NodeRef
      <3>3. QED
        BY <3>1, <3>2, <1>2
    <2>2. QED
      BY <2>1 DEF NodesRefer, HasNode
  <1>6. NewestIsCurrent'
    <2>1. ASSUME NEW l \in loads', l.id = newest' PROVE l = l0
      BY <2>1, <1>0, <1>2 DEF LoadsNumbered, Load, Act
    <2>2. HasNode(l0) => NodeRef(n)'.dir = target.dir
      BY <1>1, <1>2 DEF HasNode, NodeRef
    <2>3. current' # None
      BY <1>1, <1>2
    <2>4. QED
      BY <2>1, <2>2, <2>3, <1>2 DEF NewestIsCurrent, HasNode
  <1>7. LatestAnswerWins'
    BY <1>0, <1>2 DEF LatestAnswerWins, LoadsNumbered, TypeOK, Load, Act
  <1>8. QED
    BY <1>0, <1>1, <1>2, <1>3, <1>4, <1>5, <1>6, <1>7

\* With its early return, showDir still does.
LEMMA ShowDirInv ==
  ASSUME NavInv, NEW c \in UserCtx, NEW n \in Node \cup {None}, NEW rc \in BOOLEAN,
         ShowDir(n, c, rc), UNCHANGED <<rows, applied>>,
         acts' = acts + 1, acts' \in Act,
         n \notin {None, RootNode} => n.ctx = c /\ c \in Ctx
  PROVE  /\ current' \in Ctx \cup {None} /\ rootRef' \in Ctx \cup {None}
         /\ loads' \subseteq Load /\ newest' \in Act
         /\ LoadsNumbered' /\ NodesRefer' /\ NewestIsCurrent' /\ LatestAnswerWins'
  <1>1. CASE StartLoad(n, c, rc)
    BY <1>1, StartLoadInv
  <1>2. CASE UNCHANGED <<current, rootRef, newest, loads>>
    <2> USE <1>2 DEF NavInv
    <2>1. /\ current' \in Ctx \cup {None} /\ rootRef' \in Ctx \cup {None}
          /\ loads' \subseteq Load /\ newest' \in Act
      BY DEF TypeOK
    <2>2. LoadsNumbered'
      <3>1. /\ loads \subseteq Load /\ applied \in Load \cup {None}
            /\ newest \in Nat /\ acts \in Nat
        BY DEF TypeOK, Act
      <3>2. \A l \in Load : l.id \in Nat
        BY DEF Load, Act
      <3>3. newest' <= acts' /\ (\A l \in loads' : l.id <= acts')
        BY <3>1, <3>2 DEF LoadsNumbered
      <3>4. applied' # None => applied'.id <= acts'
        BY <3>1, <3>2 DEF LoadsNumbered
      <3>5. QED
        BY <3>3, <3>4 DEF LoadsNumbered
    <2>3. NodesRefer' /\ NewestIsCurrent' /\ LatestAnswerWins'
      BY DEF NodesRefer, NewestIsCurrent, LatestAnswerWins, NodeRef, HasNode
    <2>4. QED
      BY <2>1, <2>2, <2>3
  <1>3. QED
    BY <1>1, <1>2 DEF ShowDir

\* goDir shows its directory on the root node.
LEMMA GoDirToInv ==
  ASSUME NavInv, NEW c \in UserCtx, GoDirTo(c), UNCHANGED <<rows, applied>>,
         acts' = acts + 1, acts' \in Act
  PROVE  /\ current' \in Ctx \cup {None} /\ rootRef' \in Ctx \cup {None}
         /\ loads' \subseteq Load /\ newest' \in Act
         /\ LoadsNumbered' /\ NodesRefer' /\ NewestIsCurrent' /\ LatestAnswerWins'
         /\ children' \subseteq Node
  <1>1. RootNode \in Node
    BY DEF RootNode, Node, Act, NavInv, TypeOK
  <1>2. QED
    BY <1>1, ShowDirInv DEF GoDirTo

\* The directories a listing stands for.
LEMMA ListingDirs ==
  ASSUME NEW r \in Listing
  PROVE  r.ctx.dir \in Dir /\ Parent[r.ctx.dir] \in Dir /\ DirsOf(r) \subseteq Dir
  BY DEF Listing, Ctx, Dir, DirsOf

\* A new loading indicator has the number of the action.
LEMMA SetStoreType ==
  ASSUME TypeOK, NEW s \in Store, SetStore(s), acts' \in Act
  PROVE  /\ store' \in Store /\ content' \in Content /\ selectable' \in BOOLEAN
         /\ treeSpin' \subseteq Act /\ filesSpin' \subseteq Act
         /\ children' \subseteq Node
  <1>1. selectable' \in BOOLEAN
    BY DEF SetStore, FilesStoreChange
  <1>2. QED
    BY <1>1 DEF TypeOK, SetStore, FilesStoreChange, TreeStoreChange, Content, LoadingNode, Node

\* The user's actions keep the invariant.
LEMMA UserStep ==
  ASSUME NavInv, User
  PROVE  NavInv'
  <1> USE DEF NavInv
  <1>0. acts \in Nat /\ MaxActs \in Nat /\ store \in Store /\ TypeOK
    BY DEF TypeOK, Act
  <1>1. ASSUME NEW s \in Store, NEW d \in Path, Startup(s, d) PROVE NavInv'
    <2> DEFINE c == [store |-> s, dir |-> d]
    <2>1. /\ c \in UserCtx /\ acts' = acts + 1 /\ acts' \in Act
          /\ UNCHANGED <<rows, content, selectable, preview, refreshes, applied, treeSpin, filesSpin>>
          /\ store' \in Store /\ picked' \in BOOLEAN /\ GoDirTo(c)
      BY <1>0, <1>1 DEF Startup, UserCtx, Act, spinners
    <2>2. QED
      BY <2>1, <1>0, GoDirToInv DEF TypeOK
  <1>2. ASSUME NEW d \in Path, GoDir(d) PROVE NavInv'
    <2> DEFINE c == [store |-> store, dir |-> d]
    <2>1. /\ c \in UserCtx /\ acts' = acts + 1 /\ acts' \in Act
          /\ UNCHANGED <<store, rows, content, selectable, preview, picked, refreshes, applied, treeSpin,
                        filesSpin>>
          /\ GoDirTo(c)
      BY <1>0, <1>2 DEF GoDir, UserActs, UserCtx, Act, spinners, panels
    <2>2. QED
      BY <2>1, <1>0, GoDirToInv DEF TypeOK
  <1>3. ASSUME NEW n \in children \cup {RootNode}, SelectNode(n) PROVE NavInv'
    <2>1. n \in Node
      BY <1>0 DEF TypeOK, RootNode, Node, Act
    <2>2. NodeRef(n) \in Ctx
      BY <1>0, <1>3, <2>1 DEF TypeOK, SelectNode, NodeRef, Node
    <2>3. NodeRef(n) \in UserCtx /\ (n \notin {None, RootNode} => n.ctx = NodeRef(n))
      BY <2>2 DEF Ctx, UserCtx, Dir, NodeRef
    <2>4. /\ acts' = acts + 1 /\ acts' \in Act
          /\ UNCHANGED <<store, rows, content, selectable, preview, picked, refreshes, applied, treeSpin,
                        filesSpin, children>>
      BY <1>0, <1>3 DEF SelectNode, UserActs, Act, spinners, panels
    <2>5. ShowDir(n, NodeRef(n), FALSE)
      BY <1>3 DEF SelectNode
    <2>6. QED
      BY <2>1, <2>2, <2>3, <2>4, <2>5, <1>0, ShowDirInv DEF TypeOK
  <1>4. ASSUME NEW s \in Store, NEW d \in Path, PreviewFavorite(s, d) PROVE NavInv'
    <2> DEFINE c == [store |-> s, dir |-> d]
    <2>1. /\ c \in UserCtx /\ acts' = acts + 1 /\ acts' \in Act
          /\ UNCHANGED <<rows, preview, picked, refreshes, applied>>
      BY <1>0, <1>4 DEF PreviewFavorite, UserActs, UserCtx, Act
    <2>0. ShowDir(None, c, FALSE)
      BY <1>4 DEF PreviewFavorite
    <2>2. /\ store' \in Store /\ content' \in Content /\ selectable' \in BOOLEAN /\ children' \subseteq Node
          /\ treeSpin' \subseteq Act /\ filesSpin' \subseteq Act
      BY <1>0, <1>4, <2>1, SetStoreType DEF PreviewFavorite, TypeOK, spinners
    <2>3. QED
      BY <2>0, <2>1, <2>2, <1>0, ShowDirInv DEF TypeOK
  <1>5. ASSUME NEW s \in Store, NEW d \in Path, OpenFavorite(s, d) PROVE NavInv'
    <2> DEFINE c == [store |-> s, dir |-> d]
    <2>1. /\ c \in UserCtx /\ acts' = acts + 1 /\ acts' \in Act
          /\ UNCHANGED <<rows, preview, picked, refreshes, applied>>
          /\ GoDirTo(c)
      BY <1>0, <1>5 DEF OpenFavorite, UserActs, UserCtx, Act
    <2>2. /\ store' \in Store /\ content' \in Content /\ selectable' \in BOOLEAN
          /\ treeSpin' \subseteq Act /\ filesSpin' \subseteq Act
      BY <1>0, <1>5, <2>1 DEF OpenFavorite, FilesStoreChange, Content, TypeOK, spinners
    <2>3. QED
      BY <2>1, <2>2, <1>0, GoDirToInv DEF TypeOK
  <1>6. ASSUME SelectEntry PROVE NavInv'
    <2>1. /\ acts' = acts + 1 /\ acts' \in Act
          /\ UNCHANGED <<store, current, rootRef, children, rows, content, selectable, loads,
                        refreshes, treeSpin, filesSpin, newest, applied>>
          /\ rows \in Listing
      BY <1>0, <1>6 DEF SelectEntry, UserActs, Act, spinners, TypeOK
    <2>2. picked' \in BOOLEAN
      BY <1>0, <1>6 DEF SelectEntry, TypeOK
    <2>3. preview' \in Preview
      <3>1. rows.ctx.dir \in Dir /\ Parent[rows.ctx.dir] \in Dir /\ DirsOf(rows) \subseteq Dir
        BY <2>1, ListingDirs
      <3>2. QED
        BY <1>6, <3>1 DEF SelectEntry, Preview
    <2>4. TypeOK'
      BY <1>0, <2>1, <2>2, <2>3 DEF TypeOK
    <2>5. LoadsNumbered'
      BY <1>0, <2>1 DEF TypeOK, LoadsNumbered, Load, Act
    <2>6. NodesRefer' /\ NewestIsCurrent' /\ LatestAnswerWins'
      BY <2>1 DEF NodesRefer, NewestIsCurrent, LatestAnswerWins, NodeRef, HasNode
    <2>7. QED
      BY <2>4, <2>5, <2>6
  <1>7. QED
    BY <1>1, <1>2, <1>3, <1>4, <1>5, <1>6 DEF User

-----------------------------------------------------------------------------
(* Answering a load.                                                        *)

\* The previewer shows an entry of a listing, or what it showed.
LEMMA SetRowsType ==
  ASSUME TypeOK, NEW r \in Listing, NEW p \in Preview, SetRows(r, p)
  PROVE  rows' = r /\ content' \in Content /\ picked' \in BOOLEAN /\ preview' \in Preview
  <1>1. FirstRowPreview(p) \in Preview
    <2>1. CASE rows = None
      BY <2>1 DEF FirstRowPreview
    <2>2. CASE rows \in Listing
      BY <2>2, ListingDirs DEF FirstRowPreview, Preview, Dir
    <2>3. QED
      BY <2>1, <2>2 DEF TypeOK
  <1>2. [kind |-> "file", dir |-> r.ctx.dir] \in Preview
    BY ListingDirs DEF Preview
  <1>3. PickedAfter(p) \in BOOLEAN
    BY DEF PickedAfter, TypeOK
  <1>4. QED
    BY <1>1, <1>2, <1>3 DEF SetRows, Content

\* The answer to a load keeps the invariant; the answer to the newest one
\* lists the current directory.
LEMMA DeliverStep ==
  ASSUME NavInv, NEW l \in loads, Deliver(l)
  PROVE  NavInv'
  <1> USE DEF NavInv
  <1>0. /\ TypeOK /\ l \in Load /\ applied' = l /\ loads' \subseteq loads
        /\ UNCHANGED <<store, current, rootRef, treeSpin, filesSpin, acts, newest>>
    BY DEF TypeOK, Deliver, spinners
  <1>1. LoadsNumbered' /\ NodesRefer' /\ NewestIsCurrent'
    BY <1>0 DEF LoadsNumbered, NodesRefer, NewestIsCurrent, NodeRef, HasNode
  <1>2. CASE l.failed /\ l.node = None
    <2>1. UNCHANGED <<rows, content, selectable, preview, picked, children, refreshes>>
      BY <1>2 DEF Deliver, ShowNodeError
    <2>2. TypeOK'
      BY <1>0, <2>1 DEF TypeOK
    <2>3. LatestAnswerWins'
      BY <1>0, <1>2 DEF LatestAnswerWins
    <2>4. QED
      BY <1>1, <2>2, <2>3
  <1>3. CASE l.failed /\ l.node # None
    <2> DEFINE r == [kind |-> "rows", by |-> l.id,
                     ctx |-> [store |-> store, dir |-> NodeRef(l.node).dir],
                     from |-> store, failed |-> TRUE, showDirs |-> FALSE]
    <2>1. /\ SetRows(r, preview) /\ UNCHANGED <<selectable, refreshes>>
          /\ children' = IF l.node = RootNode THEN {} ELSE children
      BY <1>3 DEF Deliver, ShowNodeError
    <2>2. NodeRef(l.node) \in Ctx
      BY <1>3 DEF NodesRefer, HasNode
    <2>3. r \in Listing
      BY <1>0, <2>2 DEF Listing, Ctx, TypeOK, Load
    <2>4. rows' = r /\ content' \in Content /\ picked' \in BOOLEAN /\ preview' \in Preview
      <3>1. preview \in Preview
        BY DEF TypeOK
      <3>2. QED
        BY <2>1, <2>3, <3>1, SetRowsType
    <2>5. TypeOK'
      BY <1>0, <2>1, <2>3, <2>4 DEF TypeOK
    <2>6. LatestAnswerWins'
      <3>1. r.ctx.dir = NodeRef(l.node).dir /\ r.by = l.id /\ r # None
        BY <2>3
      <3>2. l.id = newest => NodeRef(l.node).dir = current.dir
        BY <1>3 DEF NewestIsCurrent, HasNode
      <3>3. QED
        BY <1>0, <2>4, <3>1, <3>2 DEF LatestAnswerWins
    <2>7. QED
      BY <1>1, <2>5, <2>6
  <1>4. CASE ~l.failed
    <2> DEFINE r == [kind |-> "rows", by |-> l.id, ctx |-> [store |-> l.store, dir |-> l.dir],
                     from |-> l.from, failed |-> FALSE, showDirs |-> l.node \notin {None, RootNode}]
               p == [kind |-> "dir", dir |-> l.dir]
    <2>1. /\ SetRows(r, p) /\ SubmitGitStatus(l) /\ selectable' = TRUE
          /\ IF l.rootChanged /\ l.node # None THEN SetDirContext(l) ELSE UNCHANGED children
      BY <1>4 DEF Deliver, OnDataLoaded
    <2>0. selectable' \in BOOLEAN
      BY <2>1
    <2>2. r \in Listing /\ p \in Preview
      BY <1>0 DEF Listing, Ctx, Load, Preview
    <2>3. rows' = r /\ content' \in Content /\ picked' \in BOOLEAN /\ preview' \in Preview
      BY <1>0, <2>1, <2>2, SetRowsType
    <2>4. children' \subseteq Node
      <3>1. \A d \in Subdirs[l.from][l.dir] : DirNode(l.id, [store |-> l.store, dir |-> d]) \in Node
        BY <1>0 DEF Load, DirNode, Node, Ctx, Dir
      <3>2. CASE SetDirContext(l)
        <4>1. children' = {DirNode(l.id, [store |-> l.store, dir |-> d]) : d \in Subdirs[l.from][l.dir]}
          BY <3>2 DEF SetDirContext
        <4>2. ASSUME NEW n \in children' PROVE n \in Node
          <5>1. PICK d \in Subdirs[l.from][l.dir] : n = DirNode(l.id, [store |-> l.store, dir |-> d])
            BY <4>1, Zenon
          <5>2. QED
            BY <3>1, <5>1, Zenon
        <4>3. QED
          BY <4>2
      <3>3. CASE UNCHANGED children
        BY <3>3, <1>0 DEF TypeOK
      <3>4. QED
        BY <2>1, <3>2, <3>3
    <2>5. refreshes' \subseteq Listing
      BY <1>0, <2>1, <2>2, <2>3 DEF SubmitGitStatus, TypeOK
    <2>6. TypeOK'
      BY <1>0, <2>0, <2>2, <2>3, <2>4, <2>5 DEF TypeOK
    <2>7. LatestAnswerWins'
      <3>1. r.ctx.dir = l.dir /\ r.by = l.id /\ r # None
        BY <2>2
      <3>2. QED
        BY <1>0, <2>3, <3>1 DEF LatestAnswerWins, NewestIsCurrent
    <2>8. QED
      BY <1>1, <2>6, <2>7
  <1>5. QED
    BY <1>2, <1>3, <1>4, <1>0 DEF Load

\* So do the other steps of the goroutines and of the event loop.
LEMMA BackgroundStep ==
  ASSUME NavInv, Background
  PROVE  NavInv'
  <1> USE DEF NavInv
  <1>1. ASSUME NEW l \in loads, NEW m, m \in Load, m.id = l.id, m.node = l.node, m.dir = l.dir,
               Advance(l, m),
               UNCHANGED <<store, current, rootRef, children, panels, spinners, acts, newest>>
        PROVE  NavInv'
    <2>1. /\ loads' = (loads \ {l}) \cup {m}
          /\ UNCHANGED <<store, current, rootRef, children, rows, content, selectable, preview, picked,
                        refreshes, applied, treeSpin, filesSpin, acts, newest>>
      BY <1>1 DEF Advance, panels, spinners
    <2>2. TypeOK'
      BY <1>1, <2>1 DEF TypeOK
    <2>3. LoadsNumbered' /\ NodesRefer' /\ NewestIsCurrent' /\ LatestAnswerWins'
      BY <1>1, <2>1 DEF LoadsNumbered, NodesRefer, NewestIsCurrent, LatestAnswerWins, NodeRef,
                        HasNode
    <2>4. QED
      BY <2>2, <2>3
  <1>2. ASSUME NEW l \in loads, OpenDir(l) PROVE NavInv'
    <2>1. l \in Load /\ store \in Store
      BY DEF TypeOK
    <2> DEFINE m == [l EXCEPT !.phase = "opened", !.store = store]
    <2>2. m \in Load /\ m.id = l.id /\ m.node = l.node /\ m.dir = l.dir
      BY <2>1 DEF Load
    <2>3. QED
      BY <1>1, <1>2, <2>2 DEF OpenDir
  <1>3. ASSUME NEW l \in loads, ReadDir(l) PROVE NavInv'
    <2>1. l \in Load /\ store \in Store
      BY DEF TypeOK
    <2>2. PICK bad \in BOOLEAN :
            Advance(l, [l EXCEPT !.phase = "ready", !.from = store, !.failed = bad])
      BY <1>3 DEF ReadDir
    <2> DEFINE m == [l EXCEPT !.phase = "ready", !.from = store, !.failed = bad]
    <2>3. m \in Load /\ m.id = l.id /\ m.node = l.node /\ m.dir = l.dir
      BY <2>1 DEF Load
    <2>4. QED
      BY <1>1, <1>3, <2>2, <2>3 DEF ReadDir
  <1>4. ASSUME UNCHANGED <<store, current, rootRef, children, rows, selectable, preview, picked, loads, acts,
                           newest, applied>>,
               content' \in Content, refreshes' \subseteq Listing,
               treeSpin' \subseteq Act, filesSpin' \subseteq Act
        PROVE  NavInv'
    <2>1. TypeOK'
      BY <1>4 DEF TypeOK
    <2>2. LoadsNumbered' /\ NodesRefer' /\ NewestIsCurrent' /\ LatestAnswerWins'
      BY <1>4 DEF LoadsNumbered, NodesRefer, NewestIsCurrent, LatestAnswerWins, NodeRef, HasNode
    <2>3. QED
      BY <2>1, <2>2
  <1>5. ASSUME NEW r \in refreshes, RefreshRows(r) \/ RefreshNothing(r) PROVE NavInv'
    <2>1. content' \in Content /\ refreshes' \subseteq Listing
      BY <1>5 DEF RefreshRows, RefreshNothing, TypeOK, Content
    <2>2. QED
      BY <1>4, <1>5, <2>1 DEF RefreshRows, RefreshNothing, spinners, TypeOK
  <1>6. ASSUME NEW n, EndTreeSpin(n) \/ EndFilesSpin(n) PROVE NavInv'
    BY <1>4, <1>6 DEF EndTreeSpin, EndFilesSpin, panels, TypeOK
  <1>7. QED
    BY <1>2, <1>3, <1>5, <1>6, DeliverStep DEF Background

-----------------------------------------------------------------------------
\* The invariant holds before the user acts.
LEMMA NavInit == Init => NavInv
  <1> SUFFICES ASSUME Init PROVE NavInv
    OBVIOUS
  <1>1. 0 \in Act /\ Root \in Dir
    BY DEF Act, Dir
  <1>2. TypeOK
    BY <1>1 DEF Init, TypeOK, Empty, Content, Preview
  <1>3. LoadsNumbered /\ NodesRefer /\ NewestIsCurrent /\ LatestAnswerWins
    BY DEF Init, LoadsNumbered, NodesRefer, NewestIsCurrent, LatestAnswerWins
  <1>4. QED
    BY <1>2, <1>3 DEF NavInv

\* Every step keeps it.
LEMMA NavStep == NavInv /\ [Next]_vars => NavInv'
  <1>1. ASSUME NavInv, UNCHANGED vars PROVE NavInv'
    BY <1>1 DEF vars, NavInv, TypeOK, LoadsNumbered, NodesRefer, NewestIsCurrent,
                LatestAnswerWins, NodeRef, HasNode
  <1>2. QED
    BY <1>1, UserStep, BackgroundStep DEF Next

\* The types hold throughout: no context or listing is ever for "~".
THEOREM NavigatorTypes == Spec => []TypeOK
  <1>1. NavInv => TypeOK
    BY DEF NavInv
  <1>2. QED
    BY <1>1, NavInit, NavStep, PTL DEF Spec

\* When the newest load is the last to be answered, the files panel lists the
\* current directory, whatever was in flight before.
THEOREM NavigatorLatestWins == Spec => []LatestAnswerWins
  <1>1. NavInv => LatestAnswerWins
    BY DEF NavInv
  <1>2. QED
    BY <1>1, NavInit, NavStep, PTL DEF Spec

-----------------------------------------------------------------------------
(* The tree and the files panel.                                            *)

\* Only goDir changes the root, and it shows its directory on the root node.
RootChangesOnRoot == \A l \in loads : l.rootChanged => l.node = RootNode

TreeInv == NavInv /\ RootChangesOnRoot /\ TreeCompletesFiles

\* A load that starts, or does not, leaves older answers and their trees.
LEMMA ShowDirTree ==
  ASSUME TreeInv, NEW n, NEW c, NEW rc \in BOOLEAN, ShowDir(n, c, rc),
         acts' = acts + 1, UNCHANGED <<rows, applied>>,
         rc => n = RootNode,
         \/ UNCHANGED children
         \/ rc
         \/ \E m \in children' : m.kind # "dir"
  PROVE  RootChangesOnRoot' /\ TreeCompletesFiles'
  <1>0. /\ acts \in Nat /\ newest \in Nat /\ newest <= acts
        /\ applied # None => applied.id \in Nat /\ applied.id <= acts
    BY DEF TreeInv, NavInv, TypeOK, LoadsNumbered, Act, Load
  <1>1. CASE StartLoad(n, c, rc)
    <2>1. RootChangesOnRoot'
      BY <1>1 DEF StartLoad, TreeInv, RootChangesOnRoot
    <2>2. newest' = acts + 1
      BY <1>1 DEF StartLoad
    <2>3. TreeCompletesFiles'
      BY <1>0, <2>2 DEF TreeCompletesFiles
    <2>4. QED
      BY <2>1, <2>3
  <1>2. CASE ~rc /\ UNCHANGED <<current, rootRef, newest, loads>>
    <2>1. RootChangesOnRoot'
      BY <1>2 DEF TreeInv, RootChangesOnRoot
    <2>2. TreeCompletesFiles'
      BY <1>2 DEF TreeInv, TreeCompletesFiles, DirsOf
    <2>3. QED
      BY <2>1, <2>2
  <1>3. QED
    BY <1>1, <1>2 DEF ShowDir

\* The user's actions keep the tree's invariant.
LEMMA UserTree ==
  ASSUME TreeInv, User
  PROVE  RootChangesOnRoot' /\ TreeCompletesFiles'
  <1>1. ASSUME NEW c, GoDirTo(c), acts' = acts + 1, UNCHANGED <<rows, applied>>
        PROVE  RootChangesOnRoot' /\ TreeCompletesFiles'
    BY <1>1, ShowDirTree DEF GoDirTo
  <1>2. ASSUME NEW s \in Store, NEW d \in Path, Startup(s, d) \/ OpenFavorite(s, d)
        PROVE  RootChangesOnRoot' /\ TreeCompletesFiles'
    BY <1>1, <1>2 DEF Startup, OpenFavorite, UserActs
  <1>6. ASSUME NEW d \in Path, GoDir(d) PROVE RootChangesOnRoot' /\ TreeCompletesFiles'
    BY <1>1, <1>6 DEF GoDir, UserActs, panels
  <1>3. ASSUME NEW n \in children \cup {RootNode}, SelectNode(n)
        PROVE  RootChangesOnRoot' /\ TreeCompletesFiles'
    BY <1>3, ShowDirTree DEF SelectNode, UserActs, panels
  <1>4. ASSUME NEW s \in Store, NEW d \in Path, PreviewFavorite(s, d)
        PROVE  RootChangesOnRoot' /\ TreeCompletesFiles'
    <2>1. UNCHANGED children \/ children' = {LoadingNode(acts')}
      BY <1>4 DEF PreviewFavorite, SetStore, TreeStoreChange
    <2>2. LoadingNode(acts').kind # "dir"
      BY DEF LoadingNode
    <2>3. /\ ShowDir(None, [store |-> s, dir |-> d], FALSE)
          /\ acts' = acts + 1 /\ UNCHANGED <<rows, applied>>
      BY <1>4 DEF PreviewFavorite, UserActs
    <2>4. QED
      BY <2>1, <2>2, <2>3, ShowDirTree
  <1>5. ASSUME SelectEntry PROVE RootChangesOnRoot' /\ TreeCompletesFiles'
    BY <1>5 DEF SelectEntry, TreeInv, RootChangesOnRoot, TreeCompletesFiles, DirsOf
  <1>7. QED
    BY <1>2, <1>3, <1>4, <1>5, <1>6 DEF User

\* An answer fills the tree and the files panel from one listing.
LEMMA DeliverTree ==
  ASSUME TreeInv, NEW l \in loads, Deliver(l)
  PROVE  RootChangesOnRoot' /\ TreeCompletesFiles'
  <1>1. RootChangesOnRoot'
    BY DEF Deliver, TreeInv, RootChangesOnRoot
  <1>2. CASE ~l.failed /\ l.rootChanged
    <2>1. l \in Load /\ l.node = RootNode /\ l.node # None
      BY <1>2 DEF TreeInv, NavInv, TypeOK, RootChangesOnRoot, RootNode, Node, Act
    <2> DEFINE r == [kind |-> "rows", by |-> l.id, ctx |-> [store |-> l.store, dir |-> l.dir],
                     from |-> l.from, failed |-> FALSE, showDirs |-> l.node \notin {None, RootNode}]
               Child(d) == DirNode(l.id, [store |-> l.store, dir |-> d])
    <2>2. rows' = r /\ children' = {Child(d) : d \in Subdirs[l.from][l.dir]}
      BY <1>2, <2>1 DEF Deliver, OnDataLoaded, SetRows, SetDirContext
    <2>3. \A d : Child(d).ctx.dir = d
      BY DEF DirNode
    <2>4. {n.ctx.dir : n \in children'} = Subdirs[l.from][l.dir]
      <3>1. ASSUME NEW d \in Subdirs[l.from][l.dir] PROVE d \in {n.ctx.dir : n \in children'}
        <4>1. Child(d) \in children'
          BY <2>2, Zenon
        <4>2. QED
          BY <4>1, <2>3, Zenon
      <3>2. ASSUME NEW d \in {n.ctx.dir : n \in children'} PROVE d \in Subdirs[l.from][l.dir]
        <4>1. PICK n \in children' : d = n.ctx.dir
          BY Zenon
        <4>2. PICK e \in Subdirs[l.from][l.dir] : n = Child(e)
          BY <2>2, Zenon
        <4>3. QED
          BY <4>1, <4>2, <2>3, Zenon
      <3>3. QED
        BY <3>1, <3>2, Zenon
    <2>5. ~r.showDirs /\ DirsOf(r) = Subdirs[l.from][l.dir]
      BY <2>1 DEF DirsOf
    <2>6. DirsOf(rows)' = DirsOf(r)
      BY <2>2 DEF DirsOf
    <2>7. TreeCompletesFiles'
      BY <2>2, <2>4, <2>5, <2>6 DEF TreeCompletesFiles
    <2>8. QED
      BY <1>1, <2>7
  <1>3. CASE l.failed \/ ~l.rootChanged
    BY <1>1, <1>3 DEF Deliver, TreeCompletesFiles
  <1>4. QED
    BY <1>2, <1>3

\* The other steps change neither the listing nor the tree.
LEMMA BackgroundTree ==
  ASSUME TreeInv, Background
  PROVE  RootChangesOnRoot' /\ TreeCompletesFiles'
  <1>1. ASSUME UNCHANGED <<children, rows, newest, applied>>, RootChangesOnRoot'
        PROVE  RootChangesOnRoot' /\ TreeCompletesFiles'
    BY <1>1 DEF TreeInv, TreeCompletesFiles, DirsOf
  <1>2. ASSUME NEW l \in loads, NEW m, m.rootChanged = l.rootChanged, m.node = l.node, Advance(l, m),
               UNCHANGED <<children, panels, newest>>
        PROVE  RootChangesOnRoot' /\ TreeCompletesFiles'
    <2>1. loads' = (loads \ {l}) \cup {m}
      BY <1>2 DEF Advance
    <2>2. RootChangesOnRoot'
      BY <1>2, <2>1 DEF TreeInv, RootChangesOnRoot
    <2>3. QED
      BY <1>1, <1>2, <2>2 DEF panels
  <1>4. ASSUME NEW l \in loads, OpenDir(l) PROVE RootChangesOnRoot' /\ TreeCompletesFiles'
    <2> DEFINE m == [l EXCEPT !.phase = "opened", !.store = store]
    <2>1. l \in Load
      BY DEF TreeInv, NavInv, TypeOK
    <2>2. m.rootChanged = l.rootChanged /\ m.node = l.node
      BY <2>1 DEF Load
    <2>3. QED
      BY <1>2, <1>4, <2>2 DEF OpenDir
  <1>5. ASSUME NEW l \in loads, ReadDir(l) PROVE RootChangesOnRoot' /\ TreeCompletesFiles'
    <2>1. PICK bad \in BOOLEAN :
            Advance(l, [l EXCEPT !.phase = "ready", !.from = store, !.failed = bad])
      BY <1>5, Zenon DEF ReadDir
    <2> DEFINE m == [l EXCEPT !.phase = "ready", !.from = store, !.failed = bad]
    <2>2. l \in Load
      BY DEF TreeInv, NavInv, TypeOK
    <2>3. m.rootChanged = l.rootChanged /\ m.node = l.node
      BY <2>2 DEF Load
    <2>4. UNCHANGED <<children, panels, newest>>
      BY <1>5 DEF ReadDir
    <2>5. QED
      BY <1>2, <2>1, <2>3, <2>4
  <1>3. ASSUME UNCHANGED <<children, rows, newest, applied, loads>>
        PROVE  RootChangesOnRoot' /\ TreeCompletesFiles'
    BY <1>1, <1>3 DEF TreeInv, RootChangesOnRoot
  <1>6. QED
    BY <1>3, <1>4, <1>5, DeliverTree
    DEF Background, RefreshRows, RefreshNothing, EndTreeSpin, EndFilesSpin, panels

\* The directories that the files panel hides are in the tree, whatever was
\* in flight when the root was changed.
THEOREM NavigatorTreeCompletesFiles == Spec => []TreeCompletesFiles
  <1>1. Init => TreeInv
    <2>1. Init => RootChangesOnRoot /\ TreeCompletesFiles
      BY DEF Init, RootChangesOnRoot, TreeCompletesFiles
    <2>2. QED
      BY <2>1, NavInit DEF TreeInv
  <1>2. TreeInv /\ [Next]_vars => TreeInv'
    <2>1. ASSUME TreeInv, UNCHANGED vars PROVE RootChangesOnRoot' /\ TreeCompletesFiles'
      BY <2>1 DEF vars, TreeInv, RootChangesOnRoot, TreeCompletesFiles, DirsOf
    <2>2. QED
      BY <2>1, NavStep, UserTree, BackgroundTree DEF Next, TreeInv
  <1>3. TreeInv => TreeCompletesFiles
    BY DEF TreeInv
  <1>4. QED
    BY <1>1, <1>2, <1>3, PTL DEF Spec
-----------------------------------------------------------------------------
(* The files panel keeps its promise.                                       *)

\* A number names one load.
NumbersNameLoads == \A l, m \in loads : l.id = m.id => l = m

PanelInv == NavInv /\ NumbersNameLoads

PanelStep == Panel!PanelNext \/ UNCHANGED Panel!panelVars

\* showDir asks for a directory, or changes nothing the panel knows of.
Asks(q) ==
  /\ q.id > newest
  /\ CurrentDir' = q.dir
  /\ newest' = q.id
  /\ Asked' = Asked \cup {q}

\* The requests when a load is added, answered or carried on.
LEMMA AskedAdds ==
  ASSUME NEW l, loads' = loads \cup {l}
  PROVE  Asked' = Asked \cup {Requested(l)}
  BY DEF Asked, Requested

LEMMA AskedAnswers ==
  ASSUME NumbersNameLoads, NEW l \in loads, loads' = loads \ {l}
  PROVE  Requested(l) \in Asked /\ Asked' = Asked \ {Requested(l)}
  <1>1. \A m \in loads : Requested(m) = Requested(l) => m = l
    BY DEF NumbersNameLoads, Requested
  <1>2. QED
    BY <1>1 DEF Asked

LEMMA AskedStays ==
  ASSUME NEW l \in loads, NEW m, Requested(m) = Requested(l), Advance(l, m)
  PROVE  Asked' = Asked
  BY DEF Advance, Asked

\* showDir asks at most once, with a number of its own.
LEMMA ShowDirAsks ==
  ASSUME PanelInv, NEW c \in UserCtx, NEW n, NEW rc, ShowDir(n, c, rc),
         acts' = acts + 1, acts' \in Act
  PROVE  /\ NumbersNameLoads'
         /\ \/ UNCHANGED <<CurrentDir, newest, Asked>>
            \/ \E q \in [id : Act, dir : Dir] : Asks(q)
  <1> USE DEF PanelInv
  <1>1. CASE UNCHANGED <<current, rootRef, newest, loads>>
    BY <1>1 DEF NumbersNameLoads, CurrentDir, Asked
  <1>2. CASE StartLoad(n, c, rc)
    <2> DEFINE target == [c EXCEPT !.dir = ExpandHome(c.dir)]
               l0 == [id |-> acts', node |-> n, dir |-> target.dir, rootChanged |-> rc,
                      phase |-> "spawned", store |-> c.store, from |-> c.store,
                      failed |-> FALSE]
               q == Requested(l0)
    <2>1. target \in Ctx /\ target.dir \in Dir
      BY ExpandedIsDir DEF UserCtx, Ctx
    <2>2. current' = target /\ newest' = acts' /\ loads' = loads \cup {l0}
      BY <1>2 DEF StartLoad
    <2>3. q = [id |-> acts', dir |-> target.dir] /\ q \in [id : Act, dir : Dir]
      BY <2>1 DEF Requested
    <2>4. newest \in Nat /\ acts \in Nat /\ newest <= acts
      BY DEF NavInv, TypeOK, LoadsNumbered, Act
    <2>5. CurrentDir' = target.dir
      BY <2>1, <2>2 DEF CurrentDir
    <2>6. Asked' = Asked \cup {q}
      BY <2>2, AskedAdds
    <2>7. NumbersNameLoads'
      <3>1. \A l \in loads : l.id \in Nat /\ l.id <= acts
        BY DEF NavInv, TypeOK, LoadsNumbered, Load, Act
      <3>2. \A l \in loads : l.id # l0.id
        BY <2>4, <3>1
      <3>3. QED
        BY <2>2, <3>2 DEF NumbersNameLoads
    <2>8. Asks(q)
      BY <2>2, <2>3, <2>4, <2>5, <2>6 DEF Asks
    <2>9. QED
      BY <2>3, <2>7, <2>8
  <1>3. QED
    BY <1>1, <1>2 DEF ShowDir

\* A user's action leaves the listing and may put a note over it.
LEMMA UserPanelStep ==
  ASSUME UNCHANGED rows, DrawnRows' \in {DrawnRows, None},
         \/ UNCHANGED <<CurrentDir, newest, Asked>>
         \/ \E q \in [id : Act, dir : Dir] : Asks(q)
  PROVE  PanelStep
  <1>1. ASSUME NEW q \in [id : Act, dir : Dir], Asks(q) PROVE PanelStep
    BY <1>1 DEF Asks, PanelStep, Panel!PanelNext, Panel!Ask
  <1>2. CASE UNCHANGED <<CurrentDir, newest, Asked>>
    BY <1>2 DEF PanelStep, Panel!PanelNext, Panel!Cover, Panel!panelVars
  <1>3. QED
    BY <1>1, <1>2

LEMMA UserPanel ==
  ASSUME PanelInv, User
  PROVE  NumbersNameLoads' /\ PanelStep
  <1>1. acts \in Nat /\ MaxActs \in Nat /\ store \in Store /\ TypeOK
    BY DEF PanelInv, NavInv, TypeOK, Act
  <1>2. UNCHANGED rows
    BY DEF User, Startup, GoDir, SelectNode, PreviewFavorite, OpenFavorite, SelectEntry, panels
  <1>3. acts' = acts + 1 /\ acts' \in Act
    <2>1. UserActs => acts' = acts + 1 /\ acts' \in Act
      BY <1>1 DEF UserActs, Act
    <2>2. ASSUME NEW s \in Store, NEW d \in Path, Startup(s, d)
          PROVE  acts' = acts + 1 /\ acts' \in Act
      BY <1>1, <2>2 DEF Startup, Act
    <2>3. QED
      BY <2>1, <2>2
      DEF User, GoDir, SelectNode, PreviewFavorite, OpenFavorite, SelectEntry
  <1>4. UNCHANGED content \/ FilesStoreChange
    <2>1. ASSUME NEW s \in Store, NEW d \in Path, PreviewFavorite(s, d) \/ OpenFavorite(s, d)
          PROVE  UNCHANGED content \/ FilesStoreChange
      BY <2>1 DEF PreviewFavorite, OpenFavorite, SetStore
    <2>2. QED
      BY <2>1 DEF User, Startup, GoDir, SelectNode, SelectEntry, panels
  <1>5. DrawnRows' \in {DrawnRows, None}
    BY <1>4 DEF FilesStoreChange, Loading, DrawnRows
  <1>6. ASSUME NEW c \in UserCtx, NEW n, NEW rc, ShowDir(n, c, rc)
        PROVE  NumbersNameLoads' /\ PanelStep
    BY <1>2, <1>3, <1>5, <1>6, ShowDirAsks, UserPanelStep
  <1>7. \A s \in Store, d \in Path : [store |-> s, dir |-> d] \in UserCtx
    BY DEF UserCtx
  <1>8. ASSUME NEW s \in Store, NEW d \in Path,
               Startup(s, d) \/ PreviewFavorite(s, d) \/ OpenFavorite(s, d)
        PROVE  NumbersNameLoads' /\ PanelStep
    BY <1>6, <1>7, <1>8 DEF Startup, PreviewFavorite, OpenFavorite, GoDirTo
  <1>9. ASSUME NEW d \in Path, GoDir(d) PROVE NumbersNameLoads' /\ PanelStep
    BY <1>1, <1>6, <1>7, <1>9 DEF GoDir, GoDirTo
  <1>10. ASSUME NEW n \in children \cup {RootNode}, SelectNode(n)
         PROVE  NumbersNameLoads' /\ PanelStep
    <2>1. NodeRef(n) \in Ctx
      BY <1>1, <1>10 DEF TypeOK, SelectNode, NodeRef, Node
    <2>2. NodeRef(n) \in UserCtx
      BY <2>1 DEF Ctx, UserCtx, Dir
    <2>3. QED
      BY <1>6, <1>10, <2>2 DEF SelectNode
  <1>11. CASE SelectEntry
    BY <1>2, <1>5, <1>11, UserPanelStep
    DEF SelectEntry, PanelInv, NumbersNameLoads, CurrentDir, Asked
  <1>12. QED
    BY <1>8, <1>9, <1>10, <1>11 DEF User

\* A load is answered once, with a listing of its directory, or with the empty
\* one of an error, which for the newest load is of the current directory.
LEMMA DeliverPanel ==
  ASSUME PanelInv, NEW l \in loads, Deliver(l)
  PROVE  NumbersNameLoads' /\ PanelStep
  <1> DEFINE q == Requested(l)
  <1> USE DEF PanelInv
  <1>1. /\ l \in Load /\ store \in Store /\ loads' = loads \ {l}
        /\ UNCHANGED <<current, newest>> /\ TypeOK
    BY DEF Deliver, NavInv, TypeOK
  <1>2. NumbersNameLoads' /\ q \in Asked /\ Asked' = Asked \ {q}
    BY <1>1, AskedAnswers DEF NumbersNameLoads
  <1>3. q.id = l.id /\ q.dir = l.dir /\ CurrentDir' = CurrentDir
    BY <1>1 DEF Requested, CurrentDir
  <1>4. ASSUME NEW r \in Listing, NEW p, SetRows(r, p), r.by = l.id,
               r.ctx.dir = l.dir \/ (r.failed /\ l.id # newest)
        PROVE  PanelStep
    <2>1. rows' = r /\ DrawnRows' = r
      BY <1>4 DEF SetRows, DrawnRows, Listing
    <2>2. Panel!Answer(q)
      BY <1>1, <1>2, <1>3, <1>4, <2>1 DEF Panel!Answer
    <2>3. QED
      BY <1>2, <2>2 DEF PanelStep, Panel!PanelNext
  <1>5. CASE l.failed /\ l.node = None
    <2>1. UNCHANGED <<rows, content>>
      BY <1>5 DEF Deliver, ShowNodeError
    <2>2. Panel!Silence(q)
      BY <1>1, <1>2, <1>3, <2>1 DEF Panel!Silence, DrawnRows
    <2>3. QED
      BY <1>2, <2>2 DEF PanelStep, Panel!PanelNext
  <1>6. CASE l.failed /\ l.node # None
    <2> DEFINE r == [kind |-> "rows", by |-> l.id,
                     ctx |-> [store |-> store, dir |-> NodeRef(l.node).dir],
                     from |-> store, failed |-> TRUE, showDirs |-> FALSE]
    <2>1. SetRows(r, preview)
      BY <1>6 DEF Deliver, ShowNodeError
    <2>2. NodeRef(l.node) \in Ctx
      BY <1>6 DEF NavInv, NodesRefer, HasNode
    <2>3. r \in Listing
      BY <1>1, <2>2 DEF Listing, Ctx, Load
    <2>4. r.failed /\ r.by = l.id /\ r.ctx.dir = NodeRef(l.node).dir
      OBVIOUS
    <2>5. l.id = newest => NodeRef(l.node).dir = l.dir
      BY <1>6 DEF NavInv, NewestIsCurrent, HasNode
    <2>6. QED
      BY <1>2, <1>4, <2>1, <2>3, <2>4, <2>5
  <1>7. CASE ~l.failed
    <2> DEFINE r == [kind |-> "rows", by |-> l.id, ctx |-> [store |-> l.store, dir |-> l.dir],
                     from |-> l.from, failed |-> FALSE,
                     showDirs |-> l.node \notin {None, RootNode}]
    <2>1. SetRows(r, [kind |-> "dir", dir |-> l.dir])
      BY <1>7 DEF Deliver, OnDataLoaded
    <2>2. r \in Listing
      BY <1>1 DEF Listing, Ctx, Load
    <2>3. r.by = l.id /\ r.ctx.dir = l.dir
      OBVIOUS
    <2>4. QED
      BY <1>2, <1>4, <2>1, <2>2, <2>3
  <1>8. QED
    BY <1>1, <1>5, <1>6, <1>7 DEF Load

\* The other steps of goroutines draw f.rows or nothing.
LEMMA BackgroundPanel ==
  ASSUME PanelInv, Background
  PROVE  NumbersNameLoads' /\ PanelStep
  <1> USE DEF PanelInv
  <1>1. ASSUME NEW l \in loads, NEW m, m.id = l.id, m.dir = l.dir, Advance(l, m),
               UNCHANGED <<current, newest, rows, content>>
        PROVE  NumbersNameLoads' /\ PanelStep
    <2>1. Asked' = Asked
      BY <1>1, AskedStays DEF Requested
    <2>2. NumbersNameLoads'
      BY <1>1 DEF Advance, NumbersNameLoads
    <2>3. QED
      BY <1>1, <2>1, <2>2 DEF PanelStep, Panel!panelVars, CurrentDir, DrawnRows
  <1>2. ASSUME NEW l \in loads, OpenDir(l) PROVE NumbersNameLoads' /\ PanelStep
    <2> DEFINE m == [l EXCEPT !.phase = "opened", !.store = store]
    <2>1. m.id = l.id /\ m.dir = l.dir
      BY DEF NavInv, TypeOK, Load
    <2>2. QED
      BY <1>1, <1>2, <2>1 DEF OpenDir, panels
  <1>3. ASSUME NEW l \in loads, ReadDir(l) PROVE NumbersNameLoads' /\ PanelStep
    <2>1. PICK bad \in BOOLEAN :
            Advance(l, [l EXCEPT !.phase = "ready", !.from = store, !.failed = bad])
      BY <1>3, Zenon DEF ReadDir
    <2> DEFINE m == [l EXCEPT !.phase = "ready", !.from = store, !.failed = bad]
    <2>2. m.id = l.id /\ m.dir = l.dir
      BY DEF NavInv, TypeOK, Load
    <2>3. UNCHANGED <<current, newest, rows, content>>
      BY <1>3 DEF ReadDir, panels
    <2>4. QED
      BY <1>1, <2>1, <2>2, <2>3
  <1>4. ASSUME UNCHANGED <<current, newest, loads, rows>>,
               UNCHANGED content \/ (rows # None /\ content' = rows)
        PROVE  NumbersNameLoads' /\ PanelStep
    <2>1. NumbersNameLoads' /\ UNCHANGED <<CurrentDir, newest, Asked, rows>>
      BY <1>4 DEF NumbersNameLoads, CurrentDir, Asked
    <2>2. CASE UNCHANGED content
      BY <2>1, <2>2 DEF PanelStep, Panel!panelVars, DrawnRows
    <2>3. CASE rows # None /\ content' = rows
      <3>1. rows.kind = "rows"
        BY <2>3 DEF NavInv, TypeOK, Listing
      <3>2. DrawnRows' = rows
        BY <2>3, <3>1 DEF DrawnRows
      <3>3. QED
        BY <2>1, <2>3, <3>2 DEF PanelStep, Panel!PanelNext, Panel!Redraw
    <2>4. QED
      BY <1>4, <2>2, <2>3
  <1>5. ASSUME NEW r \in refreshes, RefreshRows(r) PROVE NumbersNameLoads' /\ PanelStep
    <2>1. r # None
      BY DEF NavInv, TypeOK
    <2>2. QED
      BY <1>4, <1>5, <2>1 DEF RefreshRows
  <1>6. ASSUME NEW r \in refreshes, RefreshNothing(r) PROVE NumbersNameLoads' /\ PanelStep
    BY <1>4, <1>6 DEF RefreshNothing
  <1>7. ASSUME NEW n, EndTreeSpin(n) \/ EndFilesSpin(n) PROVE NumbersNameLoads' /\ PanelStep
    BY <1>4, <1>7 DEF EndTreeSpin, EndFilesSpin, panels
  <1>8. QED
    BY <1>2, <1>3, <1>5, <1>6, <1>7, DeliverPanel DEF Background

\* Every step of the navigator is a step of the files panel, or none.
LEMMA PanelKeeps == PanelInv /\ [Next]_vars => NumbersNameLoads' /\ PanelStep
  <1>1. ASSUME PanelInv, UNCHANGED vars PROVE NumbersNameLoads' /\ PanelStep
    BY <1>1 DEF vars, PanelInv, NumbersNameLoads, PanelStep, Panel!panelVars, CurrentDir, Asked,
                DrawnRows
  <1>2. QED
    BY <1>1, UserPanel, BackgroundPanel DEF Next

\* A load that has been answered is not under way any more, and a number never
\* names two loads: nothing is answered twice.
THEOREM NavigatorNumbersNameLoads == Spec => []NumbersNameLoads
  <1>1. Init => PanelInv
    BY NavInit DEF Init, PanelInv, NumbersNameLoads
  <1>2. PanelInv /\ [Next]_vars => PanelInv'
    BY NavStep, PanelKeeps DEF PanelInv
  <1>3. PanelInv => NumbersNameLoads
    BY DEF PanelInv
  <1>4. QED
    BY <1>1, <1>2, <1>3, PTL DEF Spec

\* The navigator keeps the files panel's promise: requests are answered at
\* most once and by listings of their directories, the answer to the newest is
\* for the current directory, and the panel draws what it holds.
THEOREM NavigatorImplementsPanel == Spec => PanelSpec
  <1>1. Init => PanelInv /\ Panel!PanelInit
    <2>1. Init => Panel!PanelInit
      BY DEF Init, Panel!PanelInit, CurrentDir, Asked, DrawnRows, Empty
    <2>2. Init => PanelInv
      BY NavInit DEF Init, PanelInv, NumbersNameLoads
    <2>3. QED
      BY <2>1, <2>2
  <1>2. PanelInv /\ [Next]_vars => PanelInv' /\ [Panel!PanelNext]_Panel!panelVars
    BY NavStep, PanelKeeps DEF PanelInv, PanelStep
  <1>3. QED
    BY <1>1, <1>2, PTL DEF Spec, PanelSpec, Panel!PanelSpec
=============================================================================
