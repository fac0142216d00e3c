----------------------------- MODULE SessionProofs -----------------------------
(***************************************************************************)
(* The two files and the panel of favourites, for any stores, paths and    *)
(* entries and any number of events and starts.                            *)
(***************************************************************************)
EXTENDS Session, SequenceTheorems, TLAPS

USE SessionAssumption
-----------------------------------------------------------------------------
(* Types.                                                                   *)

\* Favourites as the file names them.
Saved == {f \in Favorite : Collapse(f) = f}

SomeState ==
  [is : {"ok"}, store : Store, path : Path, entry : Entry \cup {None}]

Loader ==
  [at : {"off"}] \cup [at : {"reading", "absent", "creating", "done"}, clean : BOOLEAN]
    \cup [at : {"read"}, favorites : SUBSET Favorite, clean : BOOLEAN]
    \cup [at : {"ready"}, items : SUBSET Favorite, clean : BOOLEAN]

Busy ==
  [file : {"none"}] \cup [file : {"state"}, data : SomeState, place : Somewhere]
    \cup [file : {"favorites"}, data : SUBSET Favorite, items : SUBSET Favorite]

FavFile == {Torn, NoFavorites} \cup {Favorites(fs) : fs \in SUBSET Favorite}

Types ==
  /\ up \in BOOLEAN /\ offered \in BOOLEAN /\ mishap \in BOOLEAN
  /\ here \in Somewhere /\ left \in Somewhere /\ prev \in Somewhere \cup {None}
  /\ items \in SUBSET Favorite
  /\ loader \in Loader /\ busy \in Busy
  /\ favFile \in FavFile /\ stateFile \in SomeState \cup {Torn}
  /\ wanted \in SUBSET Saved /\ ghosts \in SUBSET Saved
  /\ events \in 0 .. MaxEvents /\ starts \in 0 .. MaxStarts

\* What is left of a path without its first names is a path.
LEMMA AfterType ==
  ASSUME NEW s \in Path, NEW t \in Path
  PROVE  After(s, t) \in Path
  <1>1. /\ Len(s) \in Nat /\ Len(t) \in Nat
        /\ \A i \in Len(s) + 1 .. Len(t) : t[i] \in Segment
    BY DEF Path
  <1>2. QED
    BY <1>1, SubSeqProperties DEF After, Path

\* What is named from "~" is not below home: that begins with "/".
LEMMA TildeNotHome ==
  ASSUME NEW t \in Path
  PROVE  ~IsPrefix_(Home, <<Tilde>> \o t)
  <1> DEFINE p == <<Tilde>> \o t
  <1>1. /\ Len(Home) \in Nat /\ Len(Home) >= 1 /\ Home[1] = Slash /\ Slash # Tilde
    BY DEF StartsWith, Path
  <1>2. p \in Seq(Segment) /\ p[1] = Tilde
    BY ConcatProperties DEF Path
  <1> HIDE DEF p
  <1>3. ASSUME Len(Home) <= Len(p), SubSeq(p, 1, Len(Home)) = Home
        PROVE  FALSE
    <2>1. SubSeq(p, 1, Len(Home))[1] = p[1]
      BY <1>1, <1>2, <1>3, SubSeqProperties
    <2>2. QED
      BY <1>1, <1>2, <1>3, <2>1
  <1>4. QED
    BY <1>3 DEF IsPrefix_, p

\* A favourite is named from "~" once and for all.
LEMMA CollapseSaved ==
  ASSUME NEW f \in Favorite
  PROVE  Collapse(f) \in Saved
  <1> DEFINE t == After(Home, f.path)
             c == [f EXCEPT !.path = <<Tilde>> \o t]
  <1>1. CASE f.store = Local /\ IsPrefix_(Home, f.path)
    <2>1. Collapse(f) = c
      BY <1>1 DEF Collapse
    <2>2. t \in Path
      BY AfterType DEF Favorite
    <2> HIDE DEF t
    <2>3. <<Tilde>> \o t \in Path
      BY <2>2, ConcatProperties DEF Path
    <2>4. c \in Favorite /\ c.path = <<Tilde>> \o t
      BY <2>3 DEF Favorite
    <2> HIDE DEF c
    <2>5. Collapse(c) = c
      BY <2>2, <2>4, TildeNotHome DEF Collapse
    <2>6. QED
      BY <2>1, <2>4, <2>5 DEF Saved
  <1>2. CASE ~(f.store = Local /\ IsPrefix_(Home, f.path))
    BY <1>2 DEF Collapse, Saved
  <1>3. QED
    BY <1>1, <1>2

\* Nothing that ExpandHome returns is named from "~".
LEMMA ExpandHomeType ==
  ASSUME NEW p \in Path
  PROVE  ExpandHome(p) \in Path /\ ~StartsWith(ExpandHome(p), Tilde)
  <1>1. CASE StartsWith(p, Tilde)
    <2>1. p \in Seq(Segment) /\ p # <<>> /\ Home \in Seq(Segment) /\ Home # <<>>
      BY <1>1 DEF StartsWith, Path
    <2>2. Tail(p) \in Seq(Segment)
      BY <2>1
    <2>3. /\ Len(Home) \in Nat /\ Len(Home) >= 1 /\ Len(Tail(p)) \in Nat
      BY <2>1, <2>2
    <2>4. /\ Home \o Tail(p) \in Seq(Segment) /\ (Home \o Tail(p))[1] = Home[1]
          /\ Len(Home \o Tail(p)) >= 1
      BY <2>1, <2>2, <2>3, ConcatProperties
    <2>5. Home[1] = Slash /\ Slash # Tilde
      BY DEF StartsWith
    <2>6. QED
      BY <1>1, <2>4, <2>5 DEF ExpandHome, StartsWith, Path
  <1>2. CASE ~StartsWith(p, Tilde)
    BY <1>2 DEF ExpandHome
  <1>3. QED
    BY <1>1, <1>2

\* Where a favourite leads, and the favourite that leads here.
LEMMA PlaceTypes ==
  /\ \A f \in Favorite : Target(f) \in Somewhere
  /\ \A p \in Somewhere : p \in Favorite /\ Target(p) = p
  /\ BuiltIn \subseteq Favorite
  <1>1. ASSUME NEW f \in Favorite PROVE Target(f) \in Somewhere
    <2>1. f.store \in Store /\ f.path \in Path
      BY DEF Favorite
    <2>2. ExpandHome(f.path) \in Path /\ ~StartsWith(ExpandHome(f.path), Tilde)
      BY <2>1, ExpandHomeType
    <2>3. QED
      BY <2>1, <2>2 DEF Target, Somewhere
  <1>2. ASSUME NEW p \in Somewhere PROVE p \in Favorite /\ Target(p) = p
    <2>1. p = [store |-> p.store, path |-> p.path] /\ ~StartsWith(p.path, Tilde)
      BY DEF Somewhere
    <2>2. QED
      BY <2>1 DEF Target, ExpandHome, Favorite, Somewhere
  <1>3. BuiltIn \subseteq Favorite
    <2>1. <<Slash>> \in Path /\ <<Tilde>> \in Path
      BY DEF Path
    <2>2. QED
      BY <2>1 DEF BuiltIn, Favorite
  <1>4. QED
    BY <1>1, <1>2, <1>3

\* What is saved of a place, and what a start makes of it.
LEMMA StateTypes ==
  /\ NoState \in SomeState
  /\ \A p \in Favorite : SavedPath(p) \in Path
  /\ \A s \in SomeState : Reopened(s) \in Favorite
  <1>1. NoState \in SomeState
    BY DEF NoState, State, SomeState, Path
  <1>2. ASSUME NEW p \in Favorite PROVE SavedPath(p) \in Path
    <2>1. p.store \in Store /\ p.path \in Path /\ RootPath[p.store] \in Path
      BY DEF Favorite
    <2>2. After(RootPath[p.store], p.path) \in Path
      BY <2>1, AfterType
    <2>3. QED
      BY <2>1, <2>2 DEF SavedPath
  <1>3. ASSUME NEW s \in SomeState PROVE Reopened(s) \in Favorite
    <2>1. <<Tilde>> \in Path
      BY DEF Path
    <2>2. QED
      BY <2>1 DEF SomeState, Favorite, Reopened
  <1>4. QED
    BY <1>1, <1>2, <1>3

\* The files, as they are read and written.
LEMMA FileTypes ==
  /\ \A fs \in SUBSET Favorite :
       /\ Favorites(fs) \in FavFile \ {Torn, NoFavorites} /\ Favorites(fs).favorites = fs
       /\ Partly(fs) \subseteq FavFile \ {NoFavorites}
  /\ \A file \in FavFile \ {Torn, NoFavorites} :
       file.favorites \in SUBSET Favorite /\ Read(file) \in SUBSET Saved
  /\ Torn # NoFavorites
  <1>1. Torn # NoFavorites
    BY DEF Torn, NoFavorites
  <1>2. ASSUME NEW fs \in SUBSET Favorite
        PROVE  Favorites(fs) \in FavFile \ {Torn, NoFavorites} /\ Favorites(fs).favorites = fs
    <2>1. Favorites(fs).is = "ok" /\ Torn.is = "torn" /\ NoFavorites.is = "absent"
      BY DEF Favorites, Torn, NoFavorites
    <2>2. Favorites(fs) # Torn /\ Favorites(fs) # NoFavorites
      BY <2>1
    <2>3. QED
      BY <2>2 DEF FavFile, Favorites
  <1>3. ASSUME NEW fs \in SUBSET Favorite PROVE Partly(fs) \subseteq FavFile \ {NoFavorites}
    <2>1. ASSUME NEW f \in fs, NEW g \in Shortened(f) PROVE g \in Favorite
      <3>1. PICK n \in 0 .. Len(f.path) - 1 : g = [f EXCEPT !.path = SubSeq(@, 1, n)]
        BY <2>1 DEF Shortened
      <3>2. f.path \in Seq(Segment)
        BY DEF Favorite, Path
      <3>3. SubSeq(f.path, 1, n) \in Path
        BY <3>1, <3>2, SubSeqProperties DEF Path
      <3>4. QED
        BY <3>1, <3>3 DEF Favorite
    <2>2. ASSUME NEW part \in Parts(fs) PROVE part \in SUBSET Favorite
      <3>1. CASE part \in SUBSET fs
        BY <3>1
      <3>2. ASSUME NEW f \in fs, part \in CutIn(fs, f) PROVE part \in SUBSET Favorite
        <4>1. PICK g \in Shortened(f) : part \in {some \cup {g} : some \in SUBSET (fs \ {f})}
          BY <3>2 DEF CutIn
        <4>2. PICK some \in SUBSET (fs \ {f}) : part = some \cup {g}
          BY <4>1
        <4>3. QED
          BY <2>1, <4>2
      <3>3. QED
        BY <2>2, <3>1, <3>2 DEF Parts
    <2>3. ASSUME NEW file \in Partly(fs) PROVE file \in FavFile \ {NoFavorites}
      <3>1. CASE file = Torn
        BY <1>1, <3>1 DEF FavFile
      <3>2. ASSUME NEW part \in Parts(fs), file = Favorites(part)
            PROVE  file \in FavFile \ {NoFavorites}
        BY <1>2, <2>2, <3>2
      <3>3. QED
        BY <2>3, <3>1, <3>2 DEF Partly
    <2>4. QED
      BY <2>3
  <1>4. ASSUME NEW file \in FavFile \ {Torn, NoFavorites}
        PROVE  file.favorites \in SUBSET Favorite /\ Read(file) \in SUBSET Saved
    <2>1. PICK fs \in SUBSET Favorite : file = Favorites(fs)
      BY DEF FavFile
    <2>2. file.favorites = fs
      BY <2>1 DEF Favorites
    <2>3. QED
      BY <2>2, CollapseSaved DEF Read
  <1>5. QED
    BY <1>1, <1>2, <1>3, <1>4

\* What an addition or a deletion starts from.
LEMMA ExistingTypes ==
  ASSUME Types, favFile # Torn
  PROVE  Existing \in SUBSET Saved /\ Wanted \in SUBSET Saved
  <1>1. Defaults \in SUBSET Saved
    BY DefaultsAssumption DEF Saved
  <1>2. QED
    BY <1>1, FileTypes DEF Existing, Wanted, Types

\* The state file is begun.
LEMMA BeginStateTypes ==
  ASSUME Types, NEW s \in SomeState, NEW p \in Somewhere, BeginState(s, p)
  PROVE  /\ busy' \in Busy /\ busy'.file = "state" /\ busy'.data = s /\ busy'.place = p
         /\ stateFile' = Torn /\ stateFile' \in SomeState \cup {Torn} /\ favFile' = favFile
  BY DEF BeginState, Busy

\* goDir begins the state file, with the directory,
LEMMA SaveCurrentDirTypes ==
  ASSUME Types, NEW p \in Favorite, SaveCurrentDir(p)
  PROVE  /\ busy' \in Busy /\ busy'.file = "state" /\ busy'.place = Target(p)
         /\ busy'.data.store = p.store /\ busy'.data.path = SavedPath(p)
         /\ stateFile' = Torn /\ favFile' = favFile
  <1> DEFINE s == State(p.store, SavedPath(p), ReadState.entry)
  <1>1. ReadState \in SomeState
    BY StateTypes DEF ReadState, Types
  <1>2. s \in SomeState /\ s.store = p.store /\ s.path = SavedPath(p)
    BY <1>1, StateTypes DEF State, SomeState, Favorite
  <1>3. BeginState(s, Target(p)) /\ Target(p) \in Somewhere
    BY PlaceTypes DEF SaveCurrentDir
  <1> HIDE DEF s
  <1>4. QED
    BY <1>2, <1>3, BeginStateTypes

\* and the cursor of the files table with the entry.
LEMMA SaveFileNameTypes ==
  ASSUME Types, NEW e \in Entry, SaveCurrentFileName(e)
  PROVE  /\ busy' \in Busy /\ busy'.file = "state" /\ busy'.place = left
         /\ busy'.data.store = ReadState.store /\ busy'.data.path = ReadState.path
         /\ stateFile' = Torn /\ favFile' = favFile
  <1> DEFINE s == [ReadState EXCEPT !.entry = e]
  <1>1. ReadState \in SomeState
    BY StateTypes DEF ReadState, Types
  <1>2. s \in SomeState /\ s.store = ReadState.store /\ s.path = ReadState.path
    BY <1>1 DEF SomeState
  <1>3. BeginState(s, left) /\ left \in Somewhere
    BY DEF SaveCurrentFileName, Types
  <1> HIDE DEF s
  <1>4. QED
    BY <1>2, <1>3, BeginStateTypes

\* The file of favourites is begun.
LEMMA BeginFavoritesTypes ==
  ASSUME Types, NEW fs \in SUBSET Favorite, NEW panel \in SUBSET Favorite, NEW user, NEW lost,
         BeginFavorites(fs, panel, user, lost)
  PROVE  /\ busy' \in Busy /\ busy'.file = "favorites" /\ busy'.data = fs /\ busy'.items = panel
         /\ favFile' \in FavFile \ {NoFavorites}
         /\ mishap' \in BOOLEAN /\ (mishap \/ loader.at = "creating" => mishap')
         /\ wanted' = user /\ ghosts' = lost /\ stateFile' = stateFile
  BY FileTypes DEF BeginFavorites, Busy, Types

\* The panel is refilled.
LEMMA SetItemsTypes ==
  ASSUME Types, NEW fs \in SUBSET Favorite, SetItems(fs)
  PROVE  items' = fs /\ here' \in Somewhere /\ offered' \in BOOLEAN
  BY PlaceTypes DEF SetItems, Offers, Types

\* Actions that go somewhere, or begin or end the state file.
GoesSomewhere ==
  \/ \E p \in Place : GoDir(p)
  \/ \E e \in Entry : PickFile(e)
  \/ ShowFavorites \/ Escape
  \/ \E f \in items : PreviewFavorite(f) \/ OpenFavorite(f)

\* They leave the favourites and their file alone.
LEMMA GoingTypes ==
  ASSUME Types, GoesSomewhere
  PROVE  /\ Types'
         /\ UNCHANGED <<up, items, loader, favFile, wanted, ghosts, mishap, left>>
         /\ busy.file = "none" /\ up
         /\ busy' \in Busy /\ busy'.file \in {"none", "state"}
  <1> USE DEF history
  <1>1. CASE \E p \in Place : GoDir(p)
    <2>1. PICK p \in Place : GoDir(p)
      BY <1>1
    <2>2. p \in Somewhere /\ p \in Favorite
      BY PlaceTypes
    <2>3. SaveCurrentDir(p)
      BY <2>1 DEF GoDir
    <2>4. busy' \in Busy /\ busy'.file = "state" /\ stateFile' = Torn /\ favFile' = favFile
      BY <2>2, <2>3, SaveCurrentDirTypes
    <2>5. QED
      BY <2>1, <2>2, <2>4 DEF GoDir, Types, UserEvent, Idle
  <1>2. CASE \E e \in Entry : PickFile(e)
    <2>1. PICK e \in Entry : PickFile(e)
      BY <1>2
    <2>2. SaveCurrentFileName(e)
      BY <2>1 DEF PickFile
    <2>3. busy' \in Busy /\ busy'.file = "state" /\ stateFile' = Torn /\ favFile' = favFile
      BY <2>2, SaveFileNameTypes
    <2>4. QED
      BY <2>1, <2>3 DEF PickFile, Types, UserEvent, Idle
  <1>3. CASE ShowFavorites
    BY <1>3 DEF ShowFavorites, Offers, Types, UserEvent, Idle, files
  <1>4. CASE Escape
    <2> DEFINE p == [here EXCEPT !.path = prev.path]
    <2>1. prev # None
      BY <1>4 DEF Escape
    <2>2. p \in Somewhere /\ p \in Favorite
      <3>1. p = [store |-> here.store, path |-> prev.path]
        BY <2>1 DEF Types, Somewhere
      <3>2. p \in Somewhere
        BY <2>1, <3>1 DEF Types, Somewhere
      <3>3. QED
        BY <3>2, PlaceTypes
    <2>3. here' = p /\ SaveCurrentDir(here')
      BY <1>4 DEF Escape
    <2> HIDE DEF p
    <2>4. busy' \in Busy /\ busy'.file = "state" /\ stateFile' = Torn /\ favFile' = favFile
      BY <2>2, <2>3, SaveCurrentDirTypes
    <2>5. QED
      BY <1>4, <2>2, <2>3, <2>4 DEF Escape, Types, UserEvent, Idle
  <1>5. ASSUME NEW f \in items, PreviewFavorite(f) \/ OpenFavorite(f)
        PROVE  /\ Types'
               /\ UNCHANGED <<up, items, loader, favFile, wanted, ghosts, mishap, left>>
               /\ busy.file = "none" /\ up
               /\ busy' \in Busy /\ busy'.file \in {"none", "state"}
    <2>1. here' \in Somewhere
      BY <1>5, PlaceTypes DEF PreviewFavorite, OpenFavorite, Types
    <2>2. CASE PreviewFavorite(f)
      BY <2>1, <2>2 DEF PreviewFavorite, Types, UserEvent, Idle, files
    <2>3. CASE OpenFavorite(f)
      <3>1. SaveCurrentDir(f) /\ f \in Favorite
        BY <2>3 DEF OpenFavorite, Types
      <3>2. busy' \in Busy /\ busy'.file = "state" /\ stateFile' = Torn /\ favFile' = favFile
        BY <3>1, SaveCurrentDirTypes
      <3>3. QED
        BY <2>1, <2>3, <3>2 DEF OpenFavorite, Types, UserEvent, Idle
    <2>4. QED
      BY <1>5, <2>2, <2>3
  <1>6. QED
    BY <1>1, <1>2, <1>3, <1>4, <1>5 DEF GoesSomewhere

\* A start and an end of the program.
LEMMA StartTypes ==
  ASSUME Types, Start
  PROVE  /\ Types' /\ up' /\ loader'.at = "reading"
         /\ here' = Target(Reopened(ReadState))
         /\ SaveCurrentDir(Reopened(ReadState)) /\ Reopened(ReadState) \in Favorite
         /\ UNCHANGED <<favFile, wanted, ghosts, mishap, left>> /\ stateFile' = Torn
  <1>1. ReadState \in SomeState
    BY StateTypes DEF ReadState, Types
  <1>2. /\ here' = Target(Reopened(ReadState)) /\ SaveCurrentDir(Reopened(ReadState))
        /\ Reopened(ReadState) \in Favorite
    BY <1>1, StateTypes DEF Start
  <1>3. here' \in Somewhere
    BY <1>2, PlaceTypes
  <1>4. busy' \in Busy /\ busy'.file = "state" /\ stateFile' = Torn /\ favFile' = favFile
    BY <1>2, SaveCurrentDirTypes
  <1>5. loader' \in Loader /\ loader'.at = "reading"
    BY DEF Start, Loader
  <1>6. items' \in SUBSET Favorite
    BY PlaceTypes DEF Start
  <1>7. starts' \in 0 .. MaxStarts
    BY DEF Start, Types
  <1>8. /\ up' = TRUE /\ offered' = FALSE /\ prev' = None
        /\ UNCHANGED <<wanted, ghosts, mishap, left, events>>
    BY DEF Start, history
  <1>9. QED
    BY <1>2, <1>3, <1>4, <1>5, <1>6, <1>7, <1>8 DEF Types

\* The end of the program leaves the files as they are.
LEMMA StopTypes ==
  ASSUME Types, Stop
  PROVE  /\ Types' /\ ~up' /\ loader'.at = "off" /\ busy'.file = "none"
         /\ UNCHANGED <<favFile, stateFile, wanted, ghosts, left>>
         /\ mishap' = (mishap \/ busy.file = "favorites" \/ loader.at = "creating")
  <1>1. /\ loader' \in Loader /\ loader'.at = "off"
        /\ busy' \in Busy /\ busy'.file = "none"
    BY DEF Stop, Loader, Busy
  <1>2. mishap' \in BOOLEAN /\ items' \in SUBSET Favorite
    BY DEF Stop, Types
  <1>3. QED
    BY <1>1, <1>2 DEF Stop, Types, files

\* The state file is complete.
LEMMA EndStateTypes ==
  ASSUME Types, EndState
  PROVE  /\ Types' /\ busy'.file = "none" /\ up' = up /\ busy.file = "state"
         /\ UNCHANGED <<items, loader, favFile, wanted, ghosts, mishap>>
         /\ stateFile' = busy.data /\ left' = busy.place /\ stateFile' # Torn
  <1>1. busy.data \in SomeState /\ busy.place \in Somewhere
    BY DEF EndState, Types, Busy
  <1>2. busy.data # Torn
    <2>1. busy.data.is = "ok" /\ Torn.is = "torn"
      BY <1>1 DEF SomeState, Torn
    <2>2. QED
      BY <2>1
  <1>3. busy' \in Busy /\ busy'.file = "none"
    BY DEF EndState, Busy
  <1>4. QED
    BY <1>1, <1>2, <1>3 DEF EndState, Types

\* An addition or a deletion is begun, or a deletion without a file.
LEMMA ChangeTypes ==
  ASSUME Types,
         \/ AddCurrentFavorite
         \/ \E f \in items : DeleteFavorite(f)
  PROVE  /\ Types' /\ busy.file = "none" /\ up' = up
         /\ UNCHANGED <<loader, stateFile, left>>
         /\ \/ \E f \in Favorite :
                 /\ favFile # Torn
                 /\ busy'.file = "favorites" /\ busy'.data = Existing \cup {Collapse(f)}
                 /\ busy'.items = items \cup {f}
                 /\ favFile' # NoFavorites /\ (mishap \/ loader.at = "creating" => mishap')
                 /\ wanted' = Wanted \cup {Collapse(f)} /\ ghosts' = ghosts
            \/ \E f \in items :
                 /\ favFile # Torn
                 /\ busy'.file = "favorites" /\ busy'.data = Existing \ {f}
                 /\ busy'.items = items \ {f}
                 /\ favFile' # NoFavorites /\ (mishap \/ loader.at = "creating" => mishap')
                 /\ wanted' = Wanted \ {Collapse(f)}
                 /\ ghosts' = IF Collapse(f) = f THEN ghosts \ {f} ELSE ghosts \cup {Collapse(f)}
            \/ favFile = Torn /\ UNCHANGED <<busy, favFile, wanted, ghosts, mishap>>
  <1>1. CASE AddCurrentFavorite
    <2> DEFINE f == here
    <2>1. favFile # Torn
      BY <1>1 DEF AddCurrentFavorite
    <2>2. f \in Favorite /\ Collapse(f) \in Saved
      BY PlaceTypes, CollapseSaved DEF Types
    <2>3. Existing \cup {Collapse(f)} \in SUBSET Favorite /\ items \cup {f} \in SUBSET Favorite
      BY <2>1, <2>2, ExistingTypes DEF Types, Saved
    <2>4. Wanted \cup {Collapse(f)} \in SUBSET Saved
      BY <2>1, <2>2, ExistingTypes
    <2>5. /\ BeginFavorites(Existing \cup {Collapse(f)}, items \cup {f},
                            Wanted \cup {Collapse(f)}, ghosts)
          /\ UNCHANGED <<up, here, prev, items, offered, loader, left, starts>>
          /\ events' \in 0 .. MaxEvents /\ busy.file = "none"
      BY <1>1 DEF AddCurrentFavorite, UserEvent, Idle, Types
    <2> HIDE DEF f
    <2>6. /\ busy' \in Busy /\ busy'.file = "favorites"
          /\ busy'.data = Existing \cup {Collapse(f)} /\ busy'.items = items \cup {f}
          /\ favFile' \in FavFile \ {NoFavorites}
          /\ mishap' \in BOOLEAN /\ (mishap \/ loader.at = "creating" => mishap')
          /\ wanted' = Wanted \cup {Collapse(f)} /\ ghosts' = ghosts /\ stateFile' = stateFile
      BY <2>3, <2>5, BeginFavoritesTypes
    <2>7. Types'
      BY <2>4, <2>5, <2>6 DEF Types
    <2>8. QED
      BY <2>1, <2>2, <2>5, <2>6, <2>7
  <1>2. ASSUME NEW f \in items, DeleteFavorite(f), favFile # Torn
        PROVE  /\ Types' /\ busy.file = "none" /\ up' = up
               /\ UNCHANGED <<loader, stateFile, left>>
               /\ favFile # Torn
               /\ busy'.file = "favorites" /\ busy'.data = Existing \ {f}
               /\ busy'.items = items \ {f}
               /\ favFile' # NoFavorites /\ (mishap \/ loader.at = "creating" => mishap')
               /\ wanted' = Wanted \ {Collapse(f)}
               /\ ghosts' = IF Collapse(f) = f THEN ghosts \ {f} ELSE ghosts \cup {Collapse(f)}
    <2> DEFINE g == IF Collapse(f) = f THEN ghosts \ {f} ELSE ghosts \cup {Collapse(f)}
    <2>1. f \in Favorite /\ Collapse(f) \in Saved
      BY CollapseSaved DEF Types
    <2>2. Existing \ {f} \in SUBSET Favorite /\ items \ {f} \in SUBSET Favorite
      BY <1>2, ExistingTypes DEF Types, Saved
    <2>3. Wanted \ {Collapse(f)} \in SUBSET Saved /\ g \in SUBSET Saved
      BY <1>2, <2>1, ExistingTypes DEF Types
    <2>4. /\ BeginFavorites(Existing \ {f}, items \ {f}, Wanted \ {Collapse(f)}, g)
          /\ UNCHANGED <<up, here, prev, items, offered, loader, left, starts>>
          /\ events' \in 0 .. MaxEvents /\ busy.file = "none"
      BY <1>2 DEF DeleteFavorite, Without, UserEvent, Idle, Types
    <2> HIDE DEF g
    <2>5. /\ busy' \in Busy /\ busy'.file = "favorites"
          /\ busy'.data = Existing \ {f} /\ busy'.items = items \ {f}
          /\ favFile' \in FavFile \ {NoFavorites}
          /\ mishap' \in BOOLEAN /\ (mishap \/ loader.at = "creating" => mishap')
          /\ wanted' = Wanted \ {Collapse(f)} /\ ghosts' = g /\ stateFile' = stateFile
      BY <2>2, <2>4, BeginFavoritesTypes
    <2>6. Types'
      BY <2>3, <2>4, <2>5 DEF Types
    <2>7. QED
      BY <1>2, <2>4, <2>5, <2>6 DEF g
  <1>3. ASSUME NEW f \in items, DeleteFavorite(f), favFile = Torn
        PROVE  /\ Types' /\ busy.file = "none" /\ up' = up
               /\ UNCHANGED <<loader, stateFile, left, busy, favFile, wanted, ghosts, mishap>>
    <2>1. /\ SetItems(items \ {f}) /\ UNCHANGED <<busy, files, history>>
          /\ UNCHANGED <<up, prev, loader, starts>>
          /\ events' \in 0 .. MaxEvents /\ busy.file = "none"
      BY <1>3 DEF DeleteFavorite, UserEvent, Idle, Types
    <2>2. items \ {f} \in SUBSET Favorite
      BY DEF Types
    <2>3. items' \in SUBSET Favorite /\ here' \in Somewhere /\ offered' \in BOOLEAN
      BY <2>1, <2>2, SetItemsTypes
    <2>4. QED
      BY <2>1, <2>3 DEF Types, files, history
  <1>4. QED
    BY <1>1, <1>2, <1>3

\* The file of favourites is complete.
LEMMA EndFavoritesTypes ==
  ASSUME Types, EndFavorites
  PROVE  /\ Types' /\ up' = up /\ busy.file = "favorites" /\ busy'.file = "none"
         /\ busy.data \in SUBSET Favorite /\ favFile' = Favorites(busy.data) /\ items' = busy.items
         /\ loader'.at = loader.at
         /\ loader.at \in {"read", "ready"} => loader'.clean = FALSE
         /\ loader.at \notin {"read", "ready"} => loader' = loader
         /\ UNCHANGED <<stateFile, wanted, ghosts, mishap, left>>
  <1>1. busy.data \in SUBSET Favorite /\ busy.items \in SUBSET Favorite
    BY DEF EndFavorites, Types, Busy
  <1>2. items' = busy.items /\ here' \in Somewhere /\ offered' \in BOOLEAN
    BY <1>1, SetItemsTypes DEF EndFavorites
  <1>3. /\ loader' \in Loader /\ loader'.at = loader.at
        /\ loader.at \in {"read", "ready"} => loader'.clean = FALSE
        /\ loader.at \notin {"read", "ready"} => loader' = loader
    <2>1. CASE loader.at \in {"read", "ready"}
      <3>1. loader' = [loader EXCEPT !.clean = FALSE]
        BY <2>1 DEF EndFavorites
      <3>2. \/ loader \in [at : {"read"}, favorites : SUBSET Favorite, clean : BOOLEAN]
            \/ loader \in [at : {"ready"}, items : SUBSET Favorite, clean : BOOLEAN]
        BY <2>1 DEF Types, Loader
      <3>3. QED
        BY <2>1, <3>1, <3>2 DEF Loader
    <2>2. CASE loader.at \notin {"read", "ready"}
      BY <2>2 DEF EndFavorites, Types
    <2>3. QED
      BY <2>1, <2>2
  <1>4. busy' \in Busy /\ busy'.file = "none"
    BY DEF EndFavorites, Busy
  <1>5. favFile' = Favorites(busy.data) /\ favFile' \in FavFile
    BY <1>1, FileTypes DEF EndFavorites
  <1>6. QED
    BY <1>1, <1>2, <1>3, <1>4, <1>5 DEF EndFavorites, Types, history

\* The goroutine that loads the favourites, and its update.
LoaderLeaves == UNCHANGED <<up, busy, stateFile, ghosts, left>>

\* The goroutine reads the file,
LEMMA GetFavoritesTypes ==
  ASSUME Types, GetFavorites
  PROVE  /\ Types' /\ LoaderLeaves /\ loader.at = "reading"
         /\ UNCHANGED <<items, favFile, wanted, mishap>>
         /\ \/ loader'.at = "off"
            \/ loader'.at = "absent"
            \/ /\ favFile \in FavFile \ {Torn, NoFavorites}
               /\ loader'.at = "read" /\ loader'.favorites = Read(favFile)
               /\ loader'.clean = (busy.file # "favorites")
  <1>1. /\ loader \in [at : {"reading"}, clean : BOOLEAN]
        /\ favFile \in FavFile
    BY DEF GetFavorites, Types, Loader
  <1>2. CASE favFile = Torn
    <2>1. loader' = [at |-> "off"]
      BY <1>2 DEF GetFavorites
    <2>2. QED
      BY <1>1, <2>1 DEF GetFavorites, LoaderOnly, LoaderLeaves, Types, Loader
  <1>3. CASE favFile = NoFavorites
    <2>1. loader' = [loader EXCEPT !.at = "absent"]
      BY <1>3, FileTypes DEF GetFavorites
    <2>2. loader' \in [at : {"absent"}, clean : BOOLEAN]
      BY <1>1, <2>1
    <2>3. QED
      BY <1>1, <2>2 DEF GetFavorites, LoaderOnly, LoaderLeaves, Types, Loader
  <1>4. CASE favFile \notin {Torn, NoFavorites}
    <2>1. loader' = [at |-> "read", favorites |-> Read(favFile), clean |-> busy.file # "favorites"]
      BY <1>4 DEF GetFavorites
    <2>2. Read(favFile) \in SUBSET Favorite
      BY <1>1, <1>4, FileTypes DEF Saved
    <2>3. loader' \in Loader
      BY <2>1, <2>2 DEF Loader
    <2>4. QED
      BY <1>1, <1>4, <2>1, <2>3 DEF GetFavorites, LoaderOnly, LoaderLeaves, Types
  <1>5. QED
    BY <1>2, <1>3, <1>4

\* writes the default favourites when there is none,
LEMMA DefaultsTypes ==
  ASSUME Types, BeginDefaults \/ EndDefaults
  PROVE  /\ Types' /\ LoaderLeaves /\ items' = items
         /\ \/ /\ loader.at = "absent" /\ loader'.at = "creating" /\ wanted' = wanted
               /\ favFile' # NoFavorites
               /\ mishap' = (mishap \/ favFile # NoFavorites \/ busy.file = "favorites")
            \/ /\ loader.at = "creating" /\ loader'.at = "read"
               /\ loader'.favorites = Defaults
               /\ favFile' = Favorites(Defaults)
               /\ wanted' = wanted \cup Defaults /\ mishap' = mishap
  <1>1. Defaults \in SUBSET Saved /\ Defaults \in SUBSET Favorite
    BY DefaultsAssumption DEF Saved
  <1>2. CASE BeginDefaults
    <2>1. loader \in [at : {"absent"}, clean : BOOLEAN]
      BY <1>2 DEF BeginDefaults, Types, Loader
    <2>2. loader' \in [at : {"creating"}, clean : BOOLEAN]
      BY <1>2, <2>1 DEF BeginDefaults
    <2>3. favFile' \in FavFile \ {NoFavorites}
      BY <1>1, <1>2, FileTypes DEF BeginDefaults
    <2>4. mishap' \in BOOLEAN
      BY <1>2 DEF BeginDefaults, Types
    <2>5. QED
      BY <1>2, <2>1, <2>2, <2>3, <2>4
         DEF BeginDefaults, LoaderOnly, LoaderLeaves, Types, Loader
  <1>3. CASE EndDefaults
    <2>1. loader \in [at : {"creating"}, clean : BOOLEAN]
      BY <1>3 DEF EndDefaults, Types, Loader
    <2>2. /\ loader' \in Loader /\ loader'.at = "read" /\ loader'.favorites = Defaults
      BY <1>1, <1>3, <2>1 DEF EndDefaults, Loader
    <2>3. favFile' \in FavFile
      BY <1>1, <1>3, FileTypes DEF EndDefaults
    <2>4. QED
      BY <1>1, <1>3, <2>1, <2>2, <2>3 DEF EndDefaults, LoaderOnly, LoaderLeaves, Types
  <1>4. QED
    BY <1>2, <1>3

\* appends what it has to the panel's list, and the update shows it.
LEMMA LoadedTypes ==
  ASSUME Types, Append_ \/ Loaded
  PROVE  /\ Types' /\ LoaderLeaves /\ UNCHANGED <<favFile, wanted, mishap>>
         /\ \/ /\ loader.at = "read" /\ loader'.at = "ready" /\ items' = items
               /\ loader'.items = items \cup loader.favorites /\ loader'.clean = loader.clean
            \/ /\ loader.at = "ready" /\ loader'.at = "done" /\ busy.file = "none"
               /\ items' = loader.items /\ loader'.clean = loader.clean
  <1>1. CASE Append_
    <2>1. loader \in [at : {"read"}, favorites : SUBSET Favorite, clean : BOOLEAN]
      BY <1>1 DEF Append_, Types, Loader
    <2>2. /\ loader' \in Loader /\ loader'.at = "ready"
          /\ loader'.items = items \cup loader.favorites /\ loader'.clean = loader.clean
      BY <1>1, <2>1 DEF Append_, Types, Loader
    <2>3. QED
      BY <1>1, <2>1, <2>2 DEF Append_, LoaderOnly, LoaderLeaves, Types
  <1>2. CASE Loaded
    <2>1. loader \in [at : {"ready"}, items : SUBSET Favorite, clean : BOOLEAN]
      BY <1>2 DEF Loaded, Types, Loader
    <2>2. items' = loader.items /\ here' \in Somewhere /\ offered' \in BOOLEAN
      BY <1>2, <2>1, SetItemsTypes DEF Loaded, SetLoaded
    <2>3. loader' \in [at : {"done"}, clean : BOOLEAN] /\ loader'.clean = loader.clean
      BY <1>2, <2>1 DEF Loaded
    <2>4. items' \in SUBSET Favorite
      BY <2>1, <2>2
    <2>5. QED
      BY <1>2, <2>1, <2>2, <2>3, <2>4 DEF Loaded, Idle, LoaderLeaves, Types, Loader, files, history
  <1>3. QED
    BY <1>1, <1>2

-----------------------------------------------------------------------------
(* The file with the state.                                                 *)

\* A start that reads s opens the store of p, and p if its name leads back.
LeadsTo(s, p) == s.store = p.store /\ (Returns(p) => Target(Reopened(s)) = p)

(* Once the program is up only a write leaves the file without a state; and *)
(* what is in the file, or is being written, leads to the place it was      *)
(* saved for.                                                               *)
StateInv ==
  /\ up /\ busy.file # "state" => stateFile # Torn
  /\ stateFile # Torn => LeadsTo(stateFile, left)
  /\ busy.file = "state" => LeadsTo(busy.data, busy.place)

\* A saved place leads to itself: nothing is cut off a name that begins with
\* "~", and nothing else off one that returns.
LEMMA SavedLeads ==
  ASSUME NEW s, NEW p \in Favorite, s.store = p.store, s.path = SavedPath(p)
  PROVE  LeadsTo(s, Target(p))
  <1> DEFINE root == RootPath[p.store]
  <1>1. /\ p.path \in Seq(Segment) /\ p.store \in Store /\ root \in Seq(Segment)
        /\ root = <<>> \/ StartsWith(root, Slash)
        /\ p = [store |-> p.store, path |-> p.path]
    BY DEF Favorite, Path
  <1>2. /\ Target(p).store = p.store /\ Target(p).path = ExpandHome(p.path)
    BY DEF Target
  <1>3. ASSUME Returns(Target(p)) PROVE SavedPath(p) = p.path /\ p.path # <<>>
    <2>1. p.path # <<>>
      BY <1>2, <1>3 DEF Returns, ExpandHome, StartsWith
    <2>2. CASE root = <<>>
      <3>1. After(root, p.path) = p.path
        BY <1>1, <2>2, SubSeqProperties DEF After
      <3>2. QED
        BY <2>1, <3>1 DEF SavedPath
    <2>3. CASE root # <<>> /\ StartsWith(p.path, Tilde)
      <3>1. ASSUME Len(root) <= Len(p.path), SubSeq(p.path, 1, Len(root)) = root
            PROVE  FALSE
        <4>1. Len(root) \in Nat /\ Len(root) >= 1 /\ root[1] = Slash /\ p.path[1] = Tilde
          BY <1>1, <2>3 DEF StartsWith
        <4>2. SubSeq(p.path, 1, Len(root))[1] = p.path[1]
          BY <1>1, <3>1, <4>1, SubSeqProperties
        <4>3. QED
          BY <3>1, <4>1, <4>2
      <3>2. QED
        BY <2>1, <3>1 DEF SavedPath, IsPrefix_
    <2>4. CASE root # <<>> /\ ~StartsWith(p.path, Tilde)
      BY <1>2, <1>3, <2>1, <2>4 DEF Returns, ExpandHome, SavedPath
    <2>5. QED
      BY <2>2, <2>3, <2>4
  <1>4. ASSUME Returns(Target(p)) PROVE Target(Reopened(s)) = Target(p)
    BY <1>3, <1>4 DEF Reopened, Target
  <1>5. QED
    BY <1>2, <1>4 DEF LeadsTo

\* The entry does not matter.
LEMMA SameLeads ==
  ASSUME NEW s, NEW t, NEW p, s.store = t.store, s.path = t.path, LeadsTo(t, p)
  PROVE  LeadsTo(s, p)
  BY DEF LeadsTo, Reopened

\* Every action keeps it.
LEMMA StateStep ==
  ASSUME Types, StateInv, Next
  PROVE  StateInv'
  <1>1. ASSUME NEW p \in Favorite, SaveCurrentDir(p) PROVE StateInv'
    <2>1. /\ busy'.file = "state" /\ busy'.place = Target(p)
          /\ busy'.data.store = p.store /\ busy'.data.path = SavedPath(p)
          /\ stateFile' = Torn
      BY <1>1, SaveCurrentDirTypes
    <2>2. LeadsTo(busy'.data, Target(p))
      BY <2>1, SavedLeads
    <2>3. QED
      BY <2>1, <2>2 DEF StateInv, LeadsTo
  <1>2. CASE Start
    BY <1>1, <1>2, StartTypes
  <1>3. CASE Stop
    BY <1>3, StopTypes DEF StateInv, LeadsTo
  <1>4. CASE EndState
    BY <1>4, EndStateTypes DEF StateInv, LeadsTo
  <1>5. CASE EndFavorites
    BY <1>5, EndFavoritesTypes DEF StateInv, LeadsTo
  <1>6. CASE \E p \in Place : GoDir(p)
    <2>1. PICK p \in Place : SaveCurrentDir(p)
      BY <1>6 DEF GoDir
    <2>2. p \in Favorite
      BY PlaceTypes
    <2>3. QED
      BY <1>1, <2>1, <2>2
  <1>7. CASE \E e \in Entry : PickFile(e)
    <2>1. PICK e \in Entry : SaveCurrentFileName(e) /\ up /\ busy.file = "none" /\ left' = left
      BY <1>7 DEF PickFile, UserEvent, Idle, history
    <2>2. ReadState = stateFile /\ LeadsTo(stateFile, left)
      BY <2>1 DEF StateInv, ReadState
    <2>3. /\ busy'.file = "state" /\ busy'.place = left
          /\ busy'.data.store = stateFile.store /\ busy'.data.path = stateFile.path
          /\ stateFile' = Torn
      BY <2>1, <2>2, SaveFileNameTypes
    <2>4. LeadsTo(busy'.data, left)
      BY <2>2, <2>3, SameLeads
    <2>5. QED
      BY <2>3, <2>4 DEF StateInv, LeadsTo
  <1>8. CASE Escape \/ \E f \in items : OpenFavorite(f)
    <2>1. CASE Escape
      <3>1. here' \in Favorite
        BY <2>1, GoingTypes, PlaceTypes DEF GoesSomewhere, Types
      <3>2. QED
        BY <1>1, <2>1, <3>1 DEF Escape
    <2>2. ASSUME NEW f \in items, OpenFavorite(f) PROVE StateInv'
      BY <1>1, <2>2 DEF OpenFavorite, Types
    <2>3. QED
      BY <1>8, <2>1, <2>2
  <1>9. CASE ShowFavorites \/ \E f \in items : PreviewFavorite(f)
    <2>1. UNCHANGED <<up, busy, stateFile, left>>
      BY <1>9 DEF ShowFavorites, PreviewFavorite, files, history
    <2>2. QED
      BY <2>1 DEF StateInv, LeadsTo
  <1>10. CASE AddCurrentFavorite \/ \E f \in items : DeleteFavorite(f)
    <2>1. /\ UNCHANGED <<up, stateFile, left>> /\ busy.file = "none"
          /\ busy'.file = "favorites" \/ busy' = busy
      BY <1>10, ChangeTypes
    <2>2. QED
      BY <2>1 DEF StateInv, LeadsTo
  <1>11. CASE GetFavorites \/ BeginDefaults \/ EndDefaults \/ Append_ \/ Loaded
    <2>1. LoaderLeaves
      BY <1>11, GetFavoritesTypes, DefaultsTypes, LoadedTypes
    <2>2. QED
      BY <2>1 DEF LoaderLeaves, StateInv, LeadsTo
  <1>12. QED
    BY <1>2, <1>3, <1>4, <1>5, <1>6, <1>7, <1>8, <1>9, <1>10, <1>11 DEF Next

-----------------------------------------------------------------------------
(* The file of favourites.                                                  *)

\* fs are the favourites of the user, but for ghosts.
Follows(fs) == wanted \subseteq fs /\ fs \subseteq wanted \cup ghosts

(* Without a mishap what is being written follows the user, the defaults    *)
(* are written while there is nothing else, and nobody wants a favourite    *)
(* before there is a file; a file, once there, stays.                       *)
FavInv ==
  /\ favFile = NoFavorites => wanted = {}
  /\ loader.at \in {"read", "ready", "done"} => favFile # NoFavorites
  /\ FileFollowsUser
  /\ ~mishap /\ busy.file = "favorites" => Follows(busy.data)
  /\ ~mishap /\ loader.at = "creating" => wanted = {} /\ busy.file # "favorites"

\* While the program is down nothing is read or written.
DownInv == ~up => loader.at = "off" /\ busy.file = "none"

\* All but a start happens while the program is up, and all but Stop leaves it up.
LEMMA OthersRun ==
  ASSUME Types, Next
  PROVE  Start \/ Stop \/ (up /\ up')
  <1>1. CASE GoesSomewhere
    BY <1>1, GoingTypes
  <1>2. CASE EndState
    BY <1>2 DEF EndState
  <1>3. CASE EndFavorites
    BY <1>3 DEF EndFavorites
  <1>4. CASE AddCurrentFavorite \/ \E f \in items : DeleteFavorite(f)
    <2>1. up
      BY <1>4 DEF AddCurrentFavorite, DeleteFavorite, UserEvent, Idle
    <2>2. QED
      BY <1>4, <2>1, ChangeTypes
  <1>5. CASE GetFavorites
    BY <1>5 DEF GetFavorites, LoaderOnly
  <1>6. CASE BeginDefaults
    BY <1>6 DEF BeginDefaults, LoaderOnly
  <1>7. CASE EndDefaults
    BY <1>7 DEF EndDefaults, LoaderOnly
  <1>8. CASE Append_
    BY <1>8 DEF Append_, LoaderOnly
  <1>9. CASE Loaded
    BY <1>9 DEF Loaded, Idle
  <1>10. QED
    BY <1>1, <1>2, <1>3, <1>4, <1>5, <1>6, <1>7, <1>8, <1>9 DEF Next, GoesSomewhere

\* It stays so.
LEMMA DownStep ==
  ASSUME Types, DownInv, Next
  PROVE  DownInv'
  <1>1. CASE Stop
    BY <1>1, StopTypes DEF DownInv
  <1>2. CASE Start
    BY <1>2, StartTypes DEF DownInv
  <1>3. CASE up'
    BY <1>3 DEF DownInv
  <1>4. QED
    BY <1>1, <1>2, <1>3, OthersRun

\* What is read of a file that follows the user is what is in it.
LEMMA ReadFollows ==
  ASSUME Types, FavInv, ~mishap, busy.file # "favorites", loader.at # "creating",
         favFile # NoFavorites
  PROVE  favFile # Torn /\ Read(favFile) = favFile.favorites /\ Follows(Read(favFile))
  <1>1. favFile # Torn /\ Follows(favFile.favorites)
    BY DEF FavInv, FileFollowsUser, Follows
  <1>2. \A f \in favFile.favorites : Collapse(f) = f
    BY <1>1 DEF Follows, Types, Saved
  <1>3. Read(favFile) = favFile.favorites
    BY <1>2 DEF Read
  <1>4. QED
    BY <1>1, <1>3

\* And so is what a change starts from.
LEMMA ExistingFollows ==
  ASSUME Types, FavInv, ~mishap, busy.file # "favorites", loader.at # "creating"
  PROVE  /\ Wanted \subseteq Existing /\ Existing \subseteq Wanted \cup ghosts
         /\ favFile # NoFavorites => Existing = favFile.favorites
  BY ReadFollows DEF Existing, Wanted, Follows

\* What the invariant is about stays the same.
LEMMA SameFavorites ==
  ASSUME FavInv, UNCHANGED <<favFile, wanted, ghosts, mishap>>,
         busy'.file # "favorites", busy.file # "favorites",
         loader'.at \in {"read", "ready", "done"} => favFile # NoFavorites,
         loader'.at = "creating" => loader.at = "creating",
         loader.at = "creating" => loader'.at = "creating"
  PROVE  FavInv'
  BY DEF FavInv, FileFollowsUser

\* An addition and a deletion start from the file, so that what they write follows too.
LEMMA ChangeFollows ==
  ASSUME Types, FavInv, AddCurrentFavorite \/ \E f \in items : DeleteFavorite(f)
  PROVE  FavInv'
  <1>1. /\ busy.file = "none" /\ loader' = loader
    BY ChangeTypes
  <1>2. ASSUME NEW f \in Favorite, favFile # Torn,
               busy'.file = "favorites", busy'.data = Existing \cup {Collapse(f)},
               favFile' # NoFavorites, mishap \/ loader.at = "creating" => mishap',
               wanted' = Wanted \cup {Collapse(f)}, ghosts' = ghosts
        PROVE  FavInv'
    <2>1. ~mishap' => Follows(busy.data)'
      BY <1>1, <1>2, ExistingFollows DEF Follows
    <2>2. QED
      BY <1>1, <1>2, <2>1 DEF FavInv, FileFollowsUser
  <1>3. ASSUME NEW f \in items, favFile # Torn,
               busy'.file = "favorites", busy'.data = Existing \ {f},
               favFile' # NoFavorites, mishap \/ loader.at = "creating" => mishap',
               wanted' = Wanted \ {Collapse(f)},
               ghosts' = IF Collapse(f) = f THEN ghosts \ {f} ELSE ghosts \cup {Collapse(f)}
        PROVE  FavInv'
    <2>1. \A w \in Wanted : Collapse(w) = w
      BY <1>3, ExistingTypes DEF Saved
    <2>2. ~mishap' => Follows(busy.data)'
      <3>1. CASE Collapse(f) = f
        BY <1>1, <1>3, <3>1, ExistingFollows DEF Follows
      <3>2. CASE Collapse(f) # f
        BY <1>1, <1>3, <2>1, <3>2, ExistingFollows DEF Follows
      <3>3. QED
        BY <3>1, <3>2
    <2>3. QED
      BY <1>1, <1>3, <2>2 DEF FavInv, FileFollowsUser
  <1>4. CASE favFile = Torn /\ UNCHANGED <<busy, favFile, wanted, ghosts, mishap>>
    BY <1>1, <1>4, SameFavorites DEF FavInv
  <1>5. QED
    BY <1>2, <1>3, <1>4, ChangeTypes

\* Every action keeps the file to the user's favourites.
LEMMA FavStep ==
  ASSUME Types, DownInv, FavInv, Next
  PROVE  FavInv'
  <1>1. CASE GoesSomewhere
    BY <1>1, GoingTypes, SameFavorites DEF FavInv
  <1>2. CASE Start
    <2>1. busy.file # "favorites" /\ loader.at = "off"
      BY <1>2 DEF Start, DownInv
    <2>2. /\ loader'.at = "reading" /\ busy'.file = "state"
          /\ UNCHANGED <<favFile, wanted, ghosts, mishap>>
      <3>1. PICK p \in Favorite : SaveCurrentDir(p)
        BY <1>2, StartTypes
      <3>2. QED
        BY <1>2, <3>1, StartTypes, SaveCurrentDirTypes
    <2>3. QED
      BY <2>1, <2>2, SameFavorites
  <1>3. CASE Stop
    <2>1. CASE busy.file = "favorites" \/ loader.at = "creating"
      BY <1>3, <2>1, StopTypes DEF FavInv, FileFollowsUser
    <2>2. CASE busy.file # "favorites" /\ loader.at # "creating"
      <3>1. mishap' = mishap
        BY <1>3, <2>2, StopTypes DEF Types
      <3>2. QED
        BY <1>3, <2>2, <3>1, StopTypes, SameFavorites DEF FavInv
    <2>3. QED
      BY <2>1, <2>2
  <1>4. CASE EndState
    BY <1>4, EndStateTypes, SameFavorites DEF FavInv
  <1>5. CASE AddCurrentFavorite \/ \E f \in items : DeleteFavorite(f)
    BY <1>5, ChangeFollows
  <1>6. CASE EndFavorites
    <2>1. /\ favFile'.favorites = busy.data /\ favFile' \notin {Torn, NoFavorites}
      BY <1>6, EndFavoritesTypes, FileTypes
    <2>2. QED
      BY <1>6, <2>1, EndFavoritesTypes DEF FavInv, FileFollowsUser, Follows
  <1>7. CASE GetFavorites
    BY <1>7, GetFavoritesTypes DEF FavInv, FileFollowsUser, LoaderLeaves, Follows
  <1>8. CASE BeginDefaults \/ EndDefaults
    <2>1. /\ Favorites(Defaults).favorites = Defaults
          /\ Favorites(Defaults) \notin {Torn, NoFavorites}
      BY FileTypes
    <2>2. CASE BeginDefaults
      BY <2>2, DefaultsTypes DEF BeginDefaults, FavInv, FileFollowsUser, LoaderLeaves, Follows
    <2>3. CASE EndDefaults
      BY <2>1, <2>3, DefaultsTypes DEF EndDefaults, FavInv, FileFollowsUser, LoaderLeaves, Follows
    <2>4. QED
      BY <1>8, <2>2, <2>3
  <1>9. CASE Append_ \/ Loaded
    BY <1>9, LoadedTypes DEF FavInv, FileFollowsUser, LoaderLeaves, Follows
  <1>10. QED
    BY <1>1, <1>2, <1>3, <1>4, <1>5, <1>6, <1>7, <1>8, <1>9 DEF Next, GoesSomewhere
-----------------------------------------------------------------------------
(* The panel.                                                               *)

Collapsed(fs) == {Collapse(f) : f \in fs}

\* fs are shown, but for ghosts, by a panel of gs.
ShownBy(fs, gs) == fs \subseteq Collapsed(gs) \cup ghosts

(* While they are loaded, what was read, and then what the panel will hold, *)
(* shows what is in the file; and an addition or a deletion after that      *)
(* changes the file and the panel alike.                                    *)
PanelInv ==
  ~mishap =>
    /\ (busy.file # "favorites" /\ loader.at = "read" /\ loader.clean)
         => ShownBy(favFile.favorites, loader.favorites)
    /\ (busy.file # "favorites" /\ loader.at = "ready" /\ loader.clean)
         => ShownBy(favFile.favorites, loader.items)
    /\ (busy.file # "favorites" /\ loader.at = "done" /\ loader.clean)
         => ShownBy(favFile.favorites, items)
    /\ (busy.file = "favorites" /\ loader.at = "done" /\ loader.clean)
         => ShownBy(busy.data, busy.items)

\* An addition or a deletion changes the panel like the file.
LEMMA ChangeShows ==
  ASSUME Types, FavInv, PanelInv, AddCurrentFavorite \/ \E f \in items : DeleteFavorite(f)
  PROVE  PanelInv'
  <1>1. /\ busy.file = "none" /\ loader' = loader
    BY ChangeTypes
  <1>2. ASSUME ~mishap, loader.at = "done", loader.clean
        PROVE  favFile # Torn /\ ShownBy(Existing, items)
    BY <1>1, <1>2, ExistingFollows, ReadFollows DEF FavInv, PanelInv
  <1>3. ASSUME NEW f \in Favorite,
               busy'.file = "favorites", busy'.data = Existing \cup {Collapse(f)},
               busy'.items = items \cup {f},
               mishap \/ loader.at = "creating" => mishap', ghosts' = ghosts
        PROVE  PanelInv'
    BY <1>1, <1>2, <1>3 DEF PanelInv, ShownBy, Collapsed
  <1>4. ASSUME NEW f \in items,
               busy'.file = "favorites", busy'.data = Existing \ {f}, busy'.items = items \ {f},
               mishap \/ loader.at = "creating" => mishap',
               ghosts' = IF Collapse(f) = f THEN ghosts \ {f} ELSE ghosts \cup {Collapse(f)}
        PROVE  PanelInv'
    <2>1. ASSUME ~mishap, loader.at = "done", loader.clean
          PROVE  ShownBy(busy.data, busy.items)'
      <3>1. ASSUME NEW x \in Existing, x # f
            PROVE  x \in Collapsed(items \ {f}) \cup ghosts'
        <4>1. x \in Collapsed(items) \cup ghosts
          BY <1>2, <2>1, <3>1 DEF ShownBy
        <4>2. QED
          BY <1>4, <3>1, <4>1 DEF Collapsed
      <3>2. QED
        BY <1>4, <3>1 DEF ShownBy
    <2>2. QED
      BY <1>1, <1>4, <2>1 DEF PanelInv
  <1>5. CASE favFile = Torn /\ UNCHANGED <<busy, favFile, wanted, ghosts, mishap>>
    BY <1>1, <1>2, <1>5 DEF PanelInv, ShownBy, Collapsed
  <1>6. QED
    BY <1>3, <1>4, <1>5, ChangeTypes

\* Every action keeps the panel to the file.
LEMMA PanelStep ==
  ASSUME Types, FavInv, PanelInv, Next
  PROVE  PanelInv'
  <1>1. CASE GoesSomewhere
    BY <1>1, GoingTypes DEF PanelInv, ShownBy, Collapsed
  <1>2. CASE Start
    BY <1>2, StartTypes DEF PanelInv
  <1>3. CASE Stop
    BY <1>3, StopTypes DEF PanelInv
  <1>4. CASE EndState
    BY <1>4, EndStateTypes DEF PanelInv, ShownBy, Collapsed
  <1>5. CASE AddCurrentFavorite \/ \E f \in items : DeleteFavorite(f)
    BY <1>5, ChangeShows
  <1>6. CASE EndFavorites
    <2>1. favFile'.favorites = busy.data
      BY <1>6, EndFavoritesTypes, FileTypes
    <2>2. QED
      BY <1>6, <2>1, EndFavoritesTypes DEF PanelInv, ShownBy, Collapsed
  <1>7. CASE GetFavorites
    <2>1. CASE loader'.at \in {"off", "absent"}
      BY <1>7, <2>1 DEF PanelInv
    <2>2. CASE /\ favFile \in FavFile \ {Torn, NoFavorites}
               /\ loader'.at = "read" /\ loader'.favorites = Read(favFile)
               /\ loader'.clean = (busy.file # "favorites")
      <3>1. ASSUME ~mishap, busy.file # "favorites"
            PROVE  ShownBy(favFile.favorites, Read(favFile))
        <4>1. /\ Read(favFile) = favFile.favorites /\ Follows(favFile.favorites)
          BY <1>7, <2>2, <3>1, ReadFollows, GetFavoritesTypes
        <4>2. \A f \in favFile.favorites : Collapse(f) = f
          BY <4>1 DEF Follows, Types, Saved
        <4>3. QED
          BY <4>1, <4>2 DEF ShownBy, Collapsed
      <3>2. QED
        BY <1>7, <2>2, <3>1, GetFavoritesTypes DEF PanelInv, LoaderLeaves, ShownBy
    <2>3. QED
      BY <1>7, <2>1, <2>2, GetFavoritesTypes
  <1>8. CASE BeginDefaults \/ EndDefaults
    <2>1. Favorites(Defaults).favorites = Defaults /\ ShownBy(Defaults, Defaults)'
      BY FileTypes, DefaultsAssumption DEF ShownBy, Collapsed
    <2>2. QED
      BY <1>8, <2>1, DefaultsTypes DEF PanelInv, LoaderLeaves
  <1>9. CASE Append_ \/ Loaded
    BY <1>9, LoadedTypes DEF PanelInv, LoaderLeaves, ShownBy, Collapsed
  <1>10. QED
    BY <1>1, <1>2, <1>3, <1>4, <1>5, <1>6, <1>7, <1>8, <1>9 DEF Next, GoesSomewhere

-----------------------------------------------------------------------------
(* The theorems.                                                            *)

Inv == Types /\ DownInv /\ StateInv /\ FavInv /\ PanelInv

\* A start without a state opens home.
LEMMA StartsHome == Target(Reopened(NoState)) = [store |-> Local, path |-> Home]
  <1>1. Tail(<<Tilde>>) = <<>> /\ Home \o <<>> = Home
    <2>1. Home \in Seq(Segment)
      BY DEF Path
    <2>2. QED
      BY <2>1, ConcatProperties
  <1>2. ExpandHome(<<Tilde>>) = Home
    BY <1>1 DEF ExpandHome, StartsWith
  <1>3. QED
    BY <1>2 DEF Target, Reopened, NoState, State

\* A first start finds no file, and home.
LEMMA InitInv ==
  ASSUME Init
  PROVE  Inv
  <1> DEFINE h == [store |-> Local, path |-> Home]
  <1>1. h \in Somewhere /\ NoState \in SomeState
    BY StateTypes DEF Somewhere, StartsWith
  <1>2. LeadsTo(NoState, h)
    BY StartsHome DEF LeadsTo, NoState, State
  <1>3. NoState # Torn
    <2>1. NoState.is = "ok" /\ Torn.is = "torn"
      BY DEF NoState, State, Torn
    <2>2. QED
      BY <2>1
  <1>4. here = h /\ left = h
    BY DEF Init
  <1> HIDE DEF h
  <1>5. Types
    <2>1. loader \in Loader /\ busy \in Busy /\ favFile \in FavFile
      BY DEF Init, Loader, Busy, FavFile
    <2>2. stateFile \in SomeState \cup {Torn}
      BY <1>1 DEF Init
    <2>3. prev \in Somewhere \cup {None} /\ events \in 0 .. MaxEvents /\ starts \in 0 .. MaxStarts
      <3>1. MaxEvents \in Nat /\ MaxStarts \in Nat
        BY DEF SessionAssumption
      <3>2. prev = None /\ events = 0 /\ starts = 0
        BY DEF Init
      <3>3. QED
        BY <3>1, <3>2
    <2>4. up \in BOOLEAN /\ offered \in BOOLEAN /\ mishap \in BOOLEAN
      BY DEF Init
    <2>5. items \in SUBSET Favorite /\ wanted \in SUBSET Saved /\ ghosts \in SUBSET Saved
      BY DEF Init
    <2>6. QED
      BY <1>1, <1>4, <2>1, <2>2, <2>3, <2>4, <2>5 DEF Types
  <1>6. DownInv /\ FavInv /\ PanelInv
    BY DEF Init, DownInv, FavInv, FileFollowsUser, PanelInv
  <1>7. StateInv
    BY <1>2, <1>3, <1>4 DEF Init, StateInv
  <1>8. QED
    BY <1>5, <1>6, <1>7 DEF Inv

\* Every action keeps the types.
LEMMA TypesStep ==
  ASSUME Types, Next
  PROVE  Types'
  BY GoingTypes, StartTypes, StopTypes, EndStateTypes, EndFavoritesTypes, ChangeTypes,
     GetFavoritesTypes, DefaultsTypes, LoadedTypes DEF Next, GoesSomewhere

\* Every step keeps it, or changes nothing.
LEMMA InvStep ==
  ASSUME Inv, [Next]_vars
  PROVE  Inv'
  <1>1. CASE Next
    BY <1>1, TypesStep, DownStep, StateStep, FavStep, PanelStep DEF Inv
  <1>2. CASE UNCHANGED vars
    <2>1. /\ Types' /\ DownInv' /\ FavInv'
      BY <1>2 DEF Inv, vars, files, history, Types, DownInv, FavInv, FileFollowsUser, Follows
    <2>2. StateInv'
      BY <1>2 DEF Inv, vars, files, history, StateInv, LeadsTo
    <2>3. PanelInv'
      BY <1>2 DEF Inv, vars, files, history, PanelInv, ShownBy, Collapsed
    <2>4. QED
      BY <2>1, <2>2, <2>3 DEF Inv
  <1>3. QED
    BY <1>1, <1>2

(* The invariant: the types, what a program that is down does not do, where *)
(* the state file leads, the file of favourites and the panel.              *)
THEOREM SessionInvariant == Spec => []Inv
  <1>1. Init => Inv
    BY InitInv
  <1>2. Inv /\ [Next]_vars => Inv'
    BY InvStep
  <1>3. QED
    BY <1>1, <1>2, PTL DEF Spec

\* What the state file holds is the state TypeOK describes, or torn.
LEMMA TypesOK ==
  ASSUME Types
  PROVE  TypeOK
  <1>1. IsState(stateFile)
    BY DEF Types, SomeState, IsState
  <1>2. /\ loader.at \in {"off", "reading", "absent", "creating", "read", "ready", "done"}
        /\ busy.file \in {"none", "state", "favorites"}
    BY DEF Types, Loader, Busy
  <1>3. favFile \in {Torn, NoFavorites} \/ favFile.favorites \subseteq Favorite
    BY FileTypes DEF Types
  <1>4. here \in Somewhere
    BY DEF Types
  <1>5. QED
    BY <1>1, <1>2, <1>3, <1>4 DEF TypeOK, Types, Saved

(* The files hold what the program can read back, and the favourites of the *)
(* history are named as the file names them.                                *)
THEOREM SessionTypes == Spec => []TypeOK
  <1>1. Inv => TypeOK
    BY TypesOK DEF Inv
  <1>2. QED
    BY <1>1, SessionInvariant, PTL

(* Over any number of starts and stops of the program, for any favourites,  *)
(* the file holds what the user has added and not deleted (persistence.go:  *)
(* AddFavorite, DeleteFavorite, GetFavorites).                              *)
THEOREM SessionFileFollowsUser == Spec => []FileFollowsUser
  <1>1. Inv => FileFollowsUser
    BY DEF Inv, FavInv
  <1>2. QED
    BY <1>1, SessionInvariant, PTL

(* After the load the panel shows what is in the file (loadUserFavorites,   *)
(* addCurrentFavorite, deleteFavorite).                                     *)
THEOREM SessionPanelShowsFile == Spec => []PanelShowsFile
  <1>1. Inv => PanelShowsFile
    BY DEF Inv, PanelInv, PanelShowsFile, ShownBy, Collapsed
  <1>2. QED
    BY <1>1, SessionInvariant, PTL

(* Neither a start nor a key replaces a file of favourites that cannot be   *)
(* parsed (GetFavorites ends them with an error).                           *)
THEOREM SessionBrokenFileIsKept == Spec => BrokenFileIsKept
  <1> DEFINE Broken == /\ favFile = Torn /\ busy.file # "favorites"
                       /\ loader.at \notin {"absent", "creating"}
  <1>1. ASSUME Inv, [Next]_vars, Broken
        PROVE  favFile' = Torn
    <2>1. CASE GoesSomewhere
      BY <1>1, <2>1, GoingTypes DEF Inv
    <2>2. CASE Start \/ Stop \/ EndState
      BY <1>1, <2>2, StartTypes, StopTypes, EndStateTypes DEF Inv
    <2>3. CASE EndFavorites
      BY <1>1, <2>3 DEF EndFavorites
    <2>4. CASE AddCurrentFavorite \/ \E f \in items : DeleteFavorite(f)
      BY <1>1, <2>4, ChangeTypes DEF Inv
    <2>5. CASE GetFavorites \/ BeginDefaults \/ EndDefaults \/ Append_ \/ Loaded
      BY <1>1, <2>5 DEF GetFavorites, BeginDefaults, EndDefaults, Append_, Loaded, files
    <2>6. CASE UNCHANGED vars
      BY <1>1, <2>6 DEF vars, files
    <2>7. QED
      BY <1>1, <2>1, <2>2, <2>3, <2>4, <2>5, <2>6 DEF Next, GoesSomewhere
  <1>2. Inv /\ [Next]_vars => [Broken => favFile' = Torn]_vars
    BY <1>1
  <1>3. QED
    BY <1>2, SessionInvariant, PTL DEF Spec, BrokenFileIsKept

(* A start opens the store that was saved last, and the directory if its    *)
(* name leads back to it; after a save that was cut short, home             *)
(* (ftstate/state.go, initNavigatorWithPersistedState).                     *)
THEOREM SessionStartsWhereLeft == Spec => StartsWhereLeft
  <1> DEFINE Starts == ~up /\ up'
             Opens == IF stateFile = Torn THEN here' = [store |-> Local, path |-> Home]
                      ELSE here'.store = left.store /\ (Returns(left) => here' = left)
  <1>1. ASSUME Inv, [Next]_vars, Starts
        PROVE  Opens
    <2>1. Next
      BY <1>1 DEF vars
    <2>2. CASE Start
      <3>1. here' = Target(Reopened(ReadState))
        BY <2>2, StartTypes, <1>1 DEF Inv
      <3>2. CASE stateFile = Torn
        BY <3>1, <3>2, StartsHome DEF ReadState
      <3>3. CASE stateFile # Torn
        <4>1. LeadsTo(stateFile, left) /\ here' = Target(Reopened(stateFile))
          BY <1>1, <3>1, <3>3 DEF Inv, StateInv, ReadState
        <4>2. here'.store = stateFile.store
          BY <4>1 DEF Target, Reopened
        <4>3. QED
          BY <3>3, <4>1, <4>2 DEF LeadsTo
      <3>4. QED
        BY <3>2, <3>3
    <2>3. CASE Stop
      BY <1>1, <2>3 DEF Stop
    <2>4. QED
      BY <1>1, <2>1, <2>2, <2>3, OthersRun DEF Inv
  <1>2. Inv /\ [Next]_vars => [Starts => Opens]_vars
    BY <1>1
  <1>3. QED
    BY <1>2, SessionInvariant, PTL DEF Spec, StartsWhereLeft
=============================================================================
