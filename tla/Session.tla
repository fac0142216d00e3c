------------------------------- MODULE Session -------------------------------
(***************************************************************************)
(* What the program keeps between its runs: the file of favourites         *)
(* (ftfav/persistence.go) with the panel that shows them                   *)
(* (favorites_panel.go), and the file with the directory and the file name *)
(* where the user was (ftstate/state.go, navigator_state.go).              *)
(*                                                                         *)
(* Both files are rewritten in place: emptied, then filled.  The event     *)
(* loop writes them and does nothing else meanwhile; a goroutine of the    *)
(* start-up reads the favourites, or writes the default ones; the program  *)
(* may be stopped or crash between any two steps, and be started again.    *)
(* Of a favourite we keep its store and its path; orders, shortcuts,       *)
(* descriptions and the passwords in URLs are left out.                    *)
(*                                                                         *)
(* A path is the sequence of its parts: "/a/b" is <<Slash, a, b>>, "/" is  *)
(* <<Slash>>, "~/a" is <<Tilde, a>>, "a" is <<a>> and "" is <<>>.          *)
(***************************************************************************)
EXTENDS Integers, Sequences

CONSTANTS
  Store, Local,  \* the stores; the one on disk
  RootPath,      \* [Store -> path]: the path in the store's URL
  Segment,       \* the parts of paths
  Slash, Tilde,  \* the first part of an absolute path, and of one below "~"
  Home,          \* the user's home directory
  Place,         \* where the user may go
  Entry,         \* names of files
  Defaults,      \* the favourites of a first start
  MaxEvents, MaxStarts, \* bounds on the events and on the starts of the program
  None

Path == Seq(Segment)
Favorite == [store : Store, path : Path]

StartsWith(p, part) == p # <<>> /\ p[1] = part

\* Where the user is: nav.current never is named from "~".
Somewhere == {p \in [store : Store, path : Path] : ~StartsWith(p.path, Tilde)}

ASSUME SessionAssumption ==
  /\ Local \in Store
  /\ {Slash, Tilde} \subseteq Segment /\ Slash # Tilde
  /\ RootPath \in [Store -> Path]
  /\ \A s \in Store : RootPath[s] = <<>> \/ StartsWith(RootPath[s], Slash)
  /\ Home \in Path /\ StartsWith(Home, Slash)
  /\ Place \subseteq Somewhere
  /\ Defaults \subseteq Favorite
  /\ MaxEvents \in Nat /\ MaxStarts \in Nat
  /\ None \notin Path \cup Entry \cup Somewhere

VARIABLES
  up,        \* is the program running?
  here,      \* nav.store and nav.current
  prev,      \* nav.prev: where the favourites were opened
  items,     \* favoritesPanel.items
  offered,   \* addFormVisible: the button that adds the current directory
  loader,    \* the goroutine of loadUserFavorites
  busy,      \* what the event loop is writing
  favFile,   \* the file of favourites
  stateFile, \* the file with the state
  wanted,    \* history: the favourites the user has
  ghosts,    \* history: those in the home directory deleted by another name
  mishap,    \* history: a crash or two writers may have spoilt the favourites
  left,      \* history: the place that was saved last
  events, starts

files == <<favFile, stateFile>>
history == <<wanted, ghosts, mishap, left>>
vars == <<up, here, prev, items, offered, loader, busy, files, history, events, starts>>

-----------------------------------------------------------------------------
(* Paths.                                                                   *)

IsPrefix_(s, t) == Len(s) <= Len(t) /\ SubSeq(t, 1, Len(s)) = s
After(s, t) == SubSeq(t, Len(s) + 1, Len(t))

\* ExpandHome.
ExpandHome(p) == IF StartsWith(p, Tilde) THEN Home \o Tail(p) ELSE p

\* collapseTilde, for favourites on disk: those below home are named from "~".
Collapse(f) ==
  IF f.store = Local /\ IsPrefix_(Home, f.path)
  THEN [f EXCEPT !.path = <<Tilde>> \o After(Home, @)]
  ELSE f

\* defaultFavorites names what is below home from "~".
ASSUME DefaultsAssumption == \A f \in Defaults : Collapse(f) = f

TildeKept(f) == f  \* mutant of Target: nothing expands "~"

\* Where a favourite leads.
Target(f) == [store |-> f.store, path |-> ExpandHome(f.path)]

BuiltIn == {[store |-> Local, path |-> <<Slash>>], [store |-> Local, path |-> <<Tilde>>]}

\* shouldShowAddCurrentForm and currentFavorite: p, which has a path, is a
\* favourite by its full path, and not listed.
Offers(p, fs) == p.path # <<>> /\ p \notin fs

\* SaveCurrentDir cuts the path of the store's URL off.  (That path ends with
\* "/", as the one of the default favourite does.)
SavedPath(p) ==
  IF IsPrefix_(RootPath[p.store], p.path) THEN After(RootPath[p.store], p.path) ELSE p.path

\* initNavigatorWithPersistedState: an empty path means "~", and nothing is put
\* in front of the others.
Reopened(s) == [store |-> s.store, path |-> IF s.path = <<>> THEN <<Tilde>> ELSE s.path]

-----------------------------------------------------------------------------
(* Files.                                                                   *)

Torn == [is |-> "torn"]
NoFavorites == [is |-> "absent"]
Favorites(fs) == [is |-> "ok", favorites |-> fs]

\* What GetFavorites makes of the file when it is there and can be read.
Read(file) == {Collapse(f) : f \in file.favorites}

\* A file that is being filled holds the first items, down to none, or ends in
\* the middle of one; then it cannot be parsed, or that one's path is shorter.
Shortened(f) == {[f EXCEPT !.path = SubSeq(@, 1, n)] : n \in 0 .. Len(f.path) - 1}
CutIn(fs, f) == UNION {{part \cup {g} : part \in SUBSET (fs \ {f})} : g \in Shortened(f)}
Parts(fs) == (SUBSET fs) \cup UNION {CutIn(fs, f) : f \in fs}
Partly(fs) == {Torn} \cup {Favorites(part) : part \in Parts(fs)}

\* The state of a first start is that of an empty file.
State(store, path, entry) == [is |-> "ok", store |-> store, path |-> path, entry |-> entry]
NoState == State(Local, <<>>, None)

ReadState == IF stateFile = Torn THEN NoState ELSE stateFile

Init ==
  /\ up = FALSE
  /\ here = [store |-> Local, path |-> Home] /\ prev = None
  /\ items = {} /\ offered = FALSE
  /\ loader = [at |-> "off"] /\ busy = [file |-> "none"]
  /\ favFile = NoFavorites
  /\ stateFile = NoState
  /\ wanted = {} /\ ghosts = {} /\ mishap = FALSE
  /\ left = here
  /\ events = 0 /\ starts = 0

-----------------------------------------------------------------------------
(* The event loop writes a file in two steps.                               *)

Idle == up /\ busy.file = "none"
UserEvent == Idle /\ events < MaxEvents /\ events' = events + 1

\* saveSettingValue: os.Create has emptied the file.
BeginState(s, p) ==
  /\ busy' = [file |-> "state", data |-> s, place |-> p]
  /\ stateFile' = Torn
  /\ UNCHANGED favFile

\* goDir to p saves it as it is named, "~" too.
SaveCurrentDir(p) ==
  BeginState(State(p.store, SavedPath(p), ReadState.entry), Target(p))

FreshFileName(e) ==  \* mutant of SaveCurrentFileName: the state is not read first
  BeginState([NoState EXCEPT !.entry = e], left)

SaveCurrentFileName(e) == BeginState([ReadState EXCEPT !.entry = e], left)

EndState ==
  /\ up /\ busy.file = "state"
  /\ stateFile' = busy.data
  /\ left' = busy.place
  /\ busy' = [file |-> "none"]
  /\ UNCHANGED <<up, here, prev, items, offered, loader, favFile, wanted, ghosts, mishap,
                 events, starts>>

\* writeFavorites has emptied the file.  The panel changes when it is done.
BeginFavorites(fs, panel, user, lost) ==
  /\ busy' = [file |-> "favorites", data |-> fs, items |-> panel]
  /\ favFile' \in Partly(fs)
  /\ wanted' = user
  /\ ghosts' = lost
  /\ mishap' = (mishap \/ loader.at = "creating")
  /\ UNCHANGED stateFile

\* setItems refills the list, which tells of its first item: the panel
\* previews it.  (Orders are left out: it may be any.)  Then the button is
\* offered, unless the current directory is listed.
SetItems(fs) ==
  /\ items' = fs
  /\ here' \in {Target(f) : f \in fs} \cup (IF fs = {} THEN {here} ELSE {})
  /\ offered' = Offers(here', fs)

EndFavorites ==
  /\ up /\ busy.file = "favorites"
  /\ favFile' = Favorites(busy.data)
  /\ SetItems(busy.items)
  /\ loader' = IF loader.at \in {"read", "ready"} THEN [loader EXCEPT !.clean = FALSE] ELSE loader
  /\ busy' = [file |-> "none"]
  /\ UNCHANGED <<up, prev, stateFile, history, events, starts>>

-----------------------------------------------------------------------------
(* The user.                                                                *)

\* NewNavigator and initNavigatorWithPersistedState.
Start ==
  /\ ~up /\ starts < MaxStarts
  /\ up' = TRUE /\ starts' = starts + 1
  /\ items' = BuiltIn /\ offered' = FALSE
  /\ loader' = [at |-> "reading", clean |-> TRUE]
  /\ here' = Target(Reopened(ReadState)) /\ prev' = None
  /\ SaveCurrentDir(Reopened(ReadState))
  /\ UNCHANGED <<history, events>>

\* The program is stopped or crashes; a file that is being written stays as
\* it is.
Stop ==
  /\ up
  /\ up' = FALSE
  /\ items' = {} /\ offered' = FALSE /\ prev' = None
  /\ loader' = [at |-> "off"] /\ busy' = [file |-> "none"]
  /\ mishap' = (mishap \/ busy.file = "favorites" \/ loader.at = "creating")
  /\ UNCHANGED <<here, files, wanted, ghosts, left, events, starts>>

\* Any way to another directory of the store.
GoDir(p) ==
  /\ UserEvent
  /\ p.store = here.store
  /\ here' = p
  /\ SaveCurrentDir(p)
  /\ UNCHANGED <<up, prev, items, offered, loader, history, starts>>

\* The cursor of the files table is on a file.
PickFile(e) ==
  /\ UserEvent
  /\ SaveCurrentFileName(e)
  /\ UNCHANGED <<up, here, prev, items, offered, loader, history, starts>>

ShowFavorites ==
  /\ UserEvent
  /\ prev' = here
  /\ offered' = Offers(here, items)
  /\ UNCHANGED <<up, here, items, loader, busy, files, history, starts>>

\* activateFavorite in preview mode saves nothing.
PreviewFavorite(f) ==
  /\ UserEvent
  /\ here' = Target(f)
  /\ UNCHANGED <<up, prev, items, offered, loader, busy, files, history, starts>>

OpenFavorite(f) ==
  /\ UserEvent
  /\ here' = Target(f)
  /\ SaveCurrentDir(f)
  /\ UNCHANGED <<up, prev, items, offered, loader, history, starts>>

\* Esc goes back to the path, in the store of the last preview.
Escape ==
  /\ UserEvent
  /\ prev # None
  /\ here' = [here EXCEPT !.path = prev.path]
  /\ SaveCurrentDir(here')
  /\ UNCHANGED <<up, prev, items, offered, loader, history, starts>>

FromPanel == {Collapse(f) : f \in items}  \* mutant of Existing: the file is made from the panel

\* AddFavorite and DeleteFavorite read the file first: an absent one is made
\* of the defaults, one that cannot be parsed ends them with an error.
Existing == IF favFile = NoFavorites THEN Defaults ELSE Read(favFile)
Wanted == IF favFile = NoFavorites THEN Defaults ELSE wanted

AddToReadable ==  \* mutant of AddCurrentFavorite: an unreadable file counts as empty
  LET old == IF favFile = Torn THEN {} ELSE Existing
  IN /\ UserEvent
     /\ offered /\ here.path # <<>>
     /\ BeginFavorites(old \cup {Collapse(here)}, items \cup {here},
                       Wanted \cup {Collapse(here)}, ghosts)
     /\ UNCHANGED <<up, here, prev, items, offered, loader, left, starts>>

AddCurrentFavorite ==
  /\ UserEvent
  /\ offered /\ here.path # <<>>
  /\ favFile # Torn
  /\ BeginFavorites(Existing \cup {Collapse(here)}, items \cup {here},
                    Wanted \cup {Collapse(here)}, ghosts)
  /\ UNCHANGED <<up, here, prev, items, offered, loader, left, starts>>

\* Those that stay are told by their Key: the full path is not the one from "~".
Without(f, fs) == fs \ {f}

\* The keys Backspace and Delete on f.  The panel forgets f also when the file
\* cannot be read.
DeleteFavorite(f) ==
  /\ UserEvent
  /\ IF favFile = Torn
     THEN /\ SetItems(items \ {f})
          /\ UNCHANGED <<busy, files, history>>
     ELSE /\ BeginFavorites(Without(f, Existing), items \ {f}, Wanted \ {Collapse(f)},
                            IF Collapse(f) = f THEN ghosts \ {f} ELSE ghosts \cup {Collapse(f)})
          /\ UNCHANGED <<here, items, offered, left>>
  /\ UNCHANGED <<up, prev, loader, starts>>

-----------------------------------------------------------------------------
(* loadUserFavorites: its goroutine, and the update it queues.              *)

LoaderOnly == UNCHANGED <<up, here, prev, items, offered, busy, stateFile, ghosts, left,
                          events, starts>>

GetFavorites ==
  /\ up /\ loader.at = "reading"
  /\ loader' =
       IF favFile = Torn THEN [at |-> "off"]
       ELSE IF favFile = NoFavorites THEN [loader EXCEPT !.at = "absent"]
       ELSE [at |-> "read", favorites |-> Read(favFile),
             clean |-> busy.file # "favorites"]
  /\ LoaderOnly /\ UNCHANGED <<favFile, wanted, mishap>>

\* The file was absent when it was looked for: the defaults are written.
BeginDefaults ==
  /\ up /\ loader.at = "absent"
  /\ loader' = [loader EXCEPT !.at = "creating"]
  /\ favFile' \in Partly(Defaults)
  /\ mishap' = (mishap \/ favFile # NoFavorites \/ busy.file = "favorites")
  /\ LoaderOnly /\ UNCHANGED wanted

EndDefaults ==
  /\ up /\ loader.at = "creating"
  /\ loader' = [at |-> "read", favorites |-> Defaults, clean |-> loader.clean]
  /\ favFile' = Favorites(Defaults)
  /\ wanted' = wanted \cup Defaults
  /\ LoaderOnly /\ UNCHANGED mishap

\* The goroutine appends what it has read to the panel's list as it is now.
Append_ ==
  /\ up /\ loader.at = "read"
  /\ loader' = [at |-> "ready", items |-> items \cup loader.favorites, clean |-> loader.clean]
  /\ LoaderOnly /\ UNCHANGED <<favFile, wanted, mishap>>

KeepItems == SetItems(items)  \* mutant of SetLoaded: the update does not take the new list

SetLoaded == SetItems(loader.items)

\* The update.
Loaded ==
  /\ Idle /\ loader.at = "ready"
  /\ SetLoaded
  /\ loader' = [at |-> "done", clean |-> loader.clean]
  /\ UNCHANGED <<up, prev, busy, files, history, events, starts>>

-----------------------------------------------------------------------------
Next ==
  \/ Start \/ Stop
  \/ EndState \/ EndFavorites
  \/ \E p \in Place : GoDir(p)
  \/ \E e \in Entry : PickFile(e)
  \/ ShowFavorites \/ Escape \/ AddCurrentFavorite
  \/ \E f \in items : PreviewFavorite(f) \/ OpenFavorite(f) \/ DeleteFavorite(f)
  \/ GetFavorites \/ BeginDefaults \/ EndDefaults \/ Append_ \/ Loaded

Spec == Init /\ [][Next]_vars

-----------------------------------------------------------------------------
IsState(s) ==
  \/ s = Torn
  \/ /\ DOMAIN s = {"is", "store", "path", "entry"}
     /\ s.store \in Store /\ s.path \in Path /\ s.entry \in Entry \cup {None}

TypeOK ==
  /\ up \in BOOLEAN /\ offered \in BOOLEAN /\ mishap \in BOOLEAN
  /\ here \in Somewhere
  /\ items \subseteq Favorite
  /\ favFile \in {Torn, NoFavorites} \/ favFile.favorites \subseteq Favorite
  /\ IsState(stateFile)
  /\ loader.at \in {"off", "reading", "absent", "creating", "read", "ready", "done"}
  /\ busy.file \in {"none", "state", "favorites"}
  /\ \A f \in wanted \cup ghosts : f \in Favorite /\ Collapse(f) = f
  /\ events \in 0 .. MaxEvents /\ starts \in 0 .. MaxStarts

(* Through all starts of the program, the file of favourites holds what the *)
(* user has added and not deleted, and nothing else: but a directory below  *)
(* home that is deleted in the run it was added in stays in the file.       *)
(* Crashes during a write, and a first start that writes the defaults while *)
(* the user adds or deletes, are excepted.                                  *)
FileFollowsUser ==
  (~mishap /\ busy.file # "favorites" /\ loader.at # "creating" /\ favFile # NoFavorites)
    => /\ favFile # Torn
       /\ wanted \subseteq favFile.favorites
       /\ favFile.favorites \subseteq wanted \cup ghosts

(* A file of favourites that cannot be parsed is left as it is: no start    *)
(* and no key replaces what the user may still repair by hand.              *)
BrokenFileIsKept ==
  [][favFile = Torn /\ busy.file # "favorites" /\ loader.at \notin {"absent", "creating"}
       => favFile' = Torn]_vars

(* Once the favourites are loaded, the panel shows all that are in the      *)
(* file, if none was added or deleted while they were loading.              *)
PanelShowsFile ==
  (up /\ ~mishap /\ loader.at = "done" /\ loader.clean /\ busy.file # "favorites")
    => favFile.favorites \subseteq {Collapse(f) : f \in items} \cup ghosts

\* What SaveCurrentDir keeps of a place leads back to it: the place has a path,
\* and the URL of its store has none or one that the place is not below.
Returns(p) ==
  /\ p.path # <<>>
  /\ RootPath[p.store] = <<>> \/ ~IsPrefix_(RootPath[p.store], p.path)

(* A start opens the store that was saved last, and the directory too, if   *)
(* its name leads back to it.  That is so however often file names were     *)
(* saved in between, and whenever the program was stopped; but if that was  *)
(* in the middle of a save, it starts at home on the disk.                  *)
StartsWhereLeft ==
  [][~up /\ up' =>
       IF stateFile = Torn THEN here' = [store |-> Local, path |-> Home]
       ELSE here'.store = left.store /\ (Returns(left) => here' = left)]_vars
=============================================================================
