-------------------------------- MODULE Panels --------------------------------
(***************************************************************************)
(* The keyboard: which widget has the focus, what the left and the right   *)
(* column show, and the crumbs above them (navigator_ui.go, left.go,       *)
(* container.go, breadcrumbs.go, and the key handlers of the panels).      *)
(*                                                                         *)
(* A key goes to the root only while the widget with the focus is below    *)
(* it; panels are exchanged under the focus by keys, by answers of loads   *)
(* and by the favourites that are loaded at the start.  Directories are a  *)
(* chain: 0 is the store's root, d + 1 is in d.  Stores, and what the      *)
(* panels list, are left out.                                              *)
(***************************************************************************)
EXTENDS Integers

CONSTANTS MaxDepth, MaxLoads  \* bounds on the directories and on the loads under way

ASSUME PanelsAssumption == MaxDepth \in Nat /\ MaxLoads \in Nat \ {0}

Dir == 0 .. MaxDepth
Previewer == {"summary", "text"}  \* the main widgets of two of the previewers

VARIABLES
  ui,       \* focus and layout, see UI
  items,    \* favoritesPanel.items: the directories among them
  loading,  \* is loadUserFavorites under way?
  loads,    \* [BOOLEAN -> Nat]: the loads under way with and without a tree node
  search,   \* has the tree a search pattern?
  status    \* "up", "stuck" (createDir waits for itself) or "crashed"

vars == <<ui, items, loading, loads, search, status>>

Widget == {"tree", "list", "addButton", "files", "crumbs", "bottom", "rows", "attrs", "summary",
           "text", "input", "dirButton", "fileButton", "scripts", "form", "masks", "help"}

UI == [
  focus : Widget \cup {"none"},
  left : {"tree", "favorites"},  \* nav.left.content
  right : {"previewer", "new", "scripts", "generator", "masks"},  \* nav.right.content
  main : Previewer \cup {"none"},  \* the widget of previewerPanel.previewer
  help : BOOLEAN,     \* is the help window the root?
  form : BOOLEAN,     \* addFormVisible
  col : 0 .. 2,       \* nav.activeCol
  back : {"tree", "files", "none"},  \* active, of the nested directories' form
  dir : Dir,          \* nav.current
  prev : Dir,         \* nav.prev
  sel : 0 .. MaxDepth + 1,  \* selectedItemIndex of the crumbs
  next : {"tree", "none"}]  \* their nextFocusTarget

-----------------------------------------------------------------------------
(* What the handlers are made of: functions on ui.                          *)

\* The crumbs are a title, the store's root and a crumb for each directory.
Last(u) == u.dir + 1
CrumbDir(i) == i - 1

\* What is below the root.
Shown(u) ==
  IF u.help THEN {"help"}
  ELSE {"files", "crumbs", "bottom"}
       \cup (IF u.left = "tree" THEN {"tree"} ELSE {"list"} \cup (IF u.form THEN {"addButton"} ELSE {}))
       \cup (CASE u.right = "previewer" -> {"rows", "attrs", u.main} \ {"none"}
               [] u.right = "new" -> {"input", "dirButton", "fileButton"}
               [] u.right = "scripts" -> {"scripts"}
               [] u.right = "generator" -> {"form"}
               [] u.right = "masks" -> {"masks"})

\* Application.SetFocus blurs the widget that has the focus.
KeepSelected(u) == u  \* mutant of Blurred: the crumbs stay where they are
Blurred(u) == IF u.focus = "crumbs" THEN [u EXCEPT !.sel = Last(u)] ELSE u

\* Then the focus function of the next runs.  "new" is the panel: it hands the
\* focus to its input field.
SetFocus(w, u) ==
  LET v == [Blurred(u) EXCEPT !.focus = w] IN
  CASE w = "tree"  -> [v EXCEPT !.col = 0, !.right = "previewer"]
    [] w = "files" -> [v EXCEPT !.col = 1, !.right = "previewer"]
    [] w = "rows"  -> [v EXCEPT !.col = 2]
    [] w = "new"   -> [v EXCEPT !.col = 2, !.focus = "input"]
    [] w = "crumbs" -> [v EXCEPT !.sel = IF @ < 0 \/ @ >= Last(v) THEN Last(v) - 1 ELSE @]
    [] OTHER       -> v

\* The focus of a container goes to its content.
Content == [previewer |-> "rows", new |-> "new", scripts |-> "scripts", generator |-> "form",
            masks |-> "masks"]

\* goDir and showDir: setBreadcrumbs selects the crumb it pushes last.
GoDir(d, u) == [u EXCEPT !.dir = d, !.sel = d + 1, !.right = "previewer"]
ShowDir(d, u) == IF u.dir = d THEN u ELSE GoDir(d, u)

\* updatePreviewForEntry: setPreviewer exchanges the main widget.
Preview(p, u) == [u EXCEPT !.right = "previewer", !.main = p]
Selections(u) == {u} \cup {Preview(p, u) : p \in Previewer}

\* updateAddCurrentForm
UpdateForm(u, fs) ==
  LET show == u.dir \notin fs IN
  IF show = u.form THEN u
  ELSE IF show THEN [u EXCEPT !.form = TRUE]
  ELSE SetFocus("list", [u EXCEPT !.form = FALSE])

-----------------------------------------------------------------------------
Init ==
  /\ \E d \in Dir, p \in Previewer \cup {"none"} :
       ui = [focus |-> "tree", left |-> "tree", right |-> "previewer", main |-> p,
             help |-> FALSE, form |-> FALSE, col |-> 0, back |-> "none",
             dir |-> d, prev |-> d, sel |-> d + 1, next |-> "none"]
  /\ items = {0}
  /\ loading = TRUE
  /\ loads = [node \in BOOLEAN |-> IF node THEN 1 ELSE 0]
  /\ search = FALSE
  /\ status = "up"

\* The root passes a key on if the focus is below it.
Heard(u) == u.focus \in Shown(u)
Up == status = "up"
At(w) == Up /\ ui.focus = w /\ Heard(ui)
Key == Up /\ Heard(ui) /\ ~ui.help

Rest == UNCHANGED <<items, loading, loads, search, status>>

\* A directory is loaded in a goroutine.
Load(node) ==
  /\ loads[TRUE] + loads[FALSE] < MaxLoads
  /\ loads' = [loads EXCEPT ![node] = @ + 1]
LoadIf(node, d) == IF d = ui.dir THEN UNCHANGED loads ELSE Load(node)

\* setCurrentDir, which goDir calls, empties the search pattern of the tree.
Going == search' = FALSE /\ UNCHANGED <<items, loading, status>>

-----------------------------------------------------------------------------
(* Keys that nav.inputCapture takes, wherever the focus is.                 *)

\* F1: the help window is the root; closing it gives the focus to the tree.
ShowHelp == Key /\ ui' = SetFocus("help", [ui EXCEPT !.help = TRUE]) /\ Rest
CloseHelp == At("help") /\ ui' = SetFocus("tree", [ui EXCEPT !.help = FALSE]) /\ Rest

\* F7
ShowNewPanel == Key /\ ui' = SetFocus("new", [ui EXCEPT !.right = "new"]) /\ Rest

\* F8: getCurrentBrowser has nothing for the third column, and delete calls it.
DeleteNothing ==
  /\ Key /\ ui.col = 2
  /\ status' = "crashed"
  /\ UNCHANGED <<ui, items, loading, loads, search>>

\* F10
ShowScripts == Key /\ ui' = SetFocus("scripts", [ui EXCEPT !.right = "scripts"]) /\ Rest

\* Alt+M: the focus stays.
ShowMasks == Key /\ ui' = [ui EXCEPT !.right = "masks"] /\ Rest

FocusFavorites ==  \* mutant of ShowFavorites: the left column is not exchanged
  /\ Key
  /\ ui' = SetFocus("list", UpdateForm([ui EXCEPT !.prev = ui.dir], items))
  /\ Rest

\* Alt+F
ShowFavorites ==
  /\ Key
  /\ ui' = SetFocus("list", UpdateForm([ui EXCEPT !.prev = ui.dir, !.left = "favorites"], items))
  /\ Rest

\* Alt+R and Alt+H; in the tree and in the files panel also "/" and "`".  The
\* user's home is the deepest directory.
GoRootOrHome ==
  /\ Key /\ Load(TRUE)
  /\ \E d \in {0, MaxDepth} : ui' = GoDir(d, ui)
  /\ Going

-----------------------------------------------------------------------------
(* The tree and the files panel.                                            *)

TreeRight == At("tree") /\ ui' = SetFocus("files", ui) /\ Rest

\* At the tree's root.  TakeFocus comes first.
TreeUp ==
  /\ At("tree")
  /\ ui' = SetFocus("crumbs", [ui EXCEPT !.next = "tree", !.sel = @ - 1])
  /\ Rest

\* Left or Enter in the tree, Enter on a directory in the files panel.
OpenDir ==
  /\ At("tree") \/ At("files")
  /\ Load(TRUE)
  /\ \E d \in Dir : ui' = GoDir(d, ui)
  /\ Going

SelectNode ==
  /\ At("tree")
  /\ \E d \in Dir : ui' = ShowDir(d, ui) /\ LoadIf(TRUE, d)
  /\ UNCHANGED <<items, loading, search, status>>

\* Keys of the search in the tree.  A pattern that no name holds is cut until one
\* does; the node that is found becomes the current one (SelectNode).
Searching == UNCHANGED <<ui, items, loading, loads, status>>
TypeLetter == At("tree") /\ search' \in BOOLEAN /\ Searching
ClearSearch == At("tree") /\ search' = FALSE /\ Searching
Backspace == At("tree") /\ search /\ search' \in BOOLEAN /\ Searching

\* Backspace cuts the last letter off an empty pattern.
BackspaceOnNothing ==
  /\ At("tree") /\ ~search
  /\ status' = "crashed"
  /\ UNCHANGED <<ui, items, loading, loads, search>>

SelectEntry == At("files") /\ ui' \in Selections(ui) /\ Rest
FilesLeft == At("files") /\ ui' = SetFocus("tree", ui) /\ Rest
FilesRight == At("files") /\ ui' = SetFocus(Content[ui.right], ui) /\ Rest

\* Left in the previewer, whichever of its widgets has the focus.
PreviewerLeft ==
  /\ \E w \in {"rows", "attrs"} \cup Previewer : At(w)
  /\ ui' = SetFocus("files", ui)
  /\ Rest

-----------------------------------------------------------------------------
(* The favourites.                                                          *)

PreviewFavorite(d) ==
  /\ At("list")
  /\ ui' = ShowDir(d, ui) /\ LoadIf(FALSE, d)
  /\ UNCHANGED <<items, loading, search, status>>

OpenFavorite(d) ==
  /\ At("list") /\ Load(TRUE)
  /\ ui' = SetFocus("tree", [GoDir(d, ui) EXCEPT !.left = "tree"])
  /\ Going

Escape == OpenFavorite(ui.prev)

ListLeft == At("list") /\ ui' = SetFocus("files", ui) /\ Rest
ListTab == At("list") /\ ui.form /\ ui' = SetFocus("addButton", ui) /\ Rest
ButtonEscape == At("addButton") /\ ui' = SetFocus("list", ui) /\ Rest

\* setItems: the list tells of its first item, which is previewed.
SetItems(fs) ==
  /\ items' = fs
  /\ \E d \in IF fs = {} THEN {ui.dir} ELSE fs :
       ui' = UpdateForm(ShowDir(d, ui), fs) /\ LoadIf(FALSE, d)

AddCurrentFavorite ==
  At("addButton") /\ SetItems(items \cup {ui.dir}) /\ UNCHANGED <<loading, search, status>>
DeleteFavorite(d) == At("list") /\ SetItems(items \ {d}) /\ UNCHANGED <<loading, search, status>>

\* The update of loadUserFavorites.  What its goroutine read and appended to an
\* earlier list may be anything here (module Session has it).
FavoritesLoaded ==
  /\ Up /\ loading
  /\ loading' = FALSE
  /\ \E fs \in SUBSET Dir : SetItems(fs)
  /\ UNCHANGED <<search, status>>

-----------------------------------------------------------------------------
(* The panels of the right column.                                          *)

InputTab == At("input") /\ ui' = SetFocus("dirButton", ui) /\ Rest
InputEscape == At("input") /\ ui' = SetFocus("tree", [ui EXCEPT !.right = "previewer"]) /\ Rest

\* The current directory is not loaded again.
CreateFile ==
  /\ At("input") \/ At("fileButton")
  /\ \E u \in Selections([ui EXCEPT !.right = "previewer"]) : ui' = SetFocus("files", u)
  /\ Rest

\* QueueUpdateDraw waits for the event loop, which is its caller.
CreateDir ==
  /\ At("dirButton")
  /\ ui' = [ui EXCEPT !.right = "previewer"]
  /\ status' = "stuck"
  /\ UNCHANGED <<items, loading, loads, search>>

CurrentBrowser == IF ui.col = 0 THEN "tree" ELSE IF ui.col = 1 THEN "files" ELSE "none"

ShowGenerator ==
  /\ At("scripts")
  /\ ui' = SetFocus("form", [ui EXCEPT !.right = "generator", !.back = CurrentBrowser])
  /\ Rest

CancelGenerator ==
  /\ At("form")
  /\ LET u == [ui EXCEPT !.right = "previewer"] IN
     ui' = IF u.back = "none" THEN u ELSE SetFocus(u.back, u)
  /\ Rest

-----------------------------------------------------------------------------
(* The crumbs, and the mouse.                                               *)

LeftAlways ==  \* mutant of CrumbLeft: no end on the left
  At("crumbs") /\ ui' = [ui EXCEPT !.sel = @ - 1] /\ Rest
CrumbLeft == At("crumbs") /\ ui.sel > 0 /\ ui' = [ui EXCEPT !.sel = @ - 1] /\ Rest
CrumbRight == At("crumbs") /\ ui.sel < Last(ui) /\ ui' = [ui EXCEPT !.sel = @ + 1] /\ Rest

\* The first crumb, the title, does nothing.
CrumbEnter ==
  /\ At("crumbs") /\ ui.sel > 0
  /\ Load(TRUE)
  /\ ui' = GoDir(CrumbDir(ui.sel), ui)
  /\ Going

CrumbDown ==
  /\ At("crumbs")
  /\ ui' = IF ui.next = "none" THEN [Blurred(ui) EXCEPT !.focus = "none"]
           ELSE SetFocus(ui.next, ui)
  /\ Rest

\* A click gives the focus to a widget.
Click(w) == Up /\ ~ui.help /\ w \in Shown(ui) \ {"rows", "crumbs"} /\ ui' = SetFocus(w, ui) /\ Rest

\* A crumb that is pressed has the focus; when it is let go, it acts.
PressCrumb(i) == Up /\ ~ui.help /\ ui' = SetFocus("crumbs", [ui EXCEPT !.sel = i]) /\ Rest
ClickCrumb(i) ==
  /\ Up /\ ~ui.help /\ i > 0
  /\ Load(TRUE)
  /\ ui' = GoDir(CrumbDir(i), SetFocus("crumbs", [ui EXCEPT !.sel = i]))
  /\ Going

-----------------------------------------------------------------------------
(* The update that showDir queues: the directory is previewed and listed.   *)

Answer(node) ==
  /\ Up /\ loads[node] > 0
  /\ loads' = [loads EXCEPT ![node] = @ - 1]
  /\ UNCHANGED <<items, loading, search, status>>

LoadSucceeds(node) == Answer(node) /\ ui' \in Selections([ui EXCEPT !.main = "summary"])

\* showNodeError does nothing without a node.
LoadFails(node) ==
  /\ Answer(node)
  /\ ui' \in IF node THEN {[u EXCEPT !.right = "previewer"] : u \in Selections(ui)} ELSE {ui}

Next ==
  \/ ShowHelp \/ CloseHelp \/ ShowNewPanel \/ DeleteNothing \/ ShowScripts \/ ShowMasks
  \/ ShowFavorites \/ GoRootOrHome
  \/ TreeRight \/ TreeUp \/ OpenDir \/ SelectNode
  \/ TypeLetter \/ ClearSearch \/ Backspace \/ BackspaceOnNothing
  \/ SelectEntry \/ FilesLeft \/ FilesRight \/ PreviewerLeft
  \/ \E d \in items : PreviewFavorite(d) \/ OpenFavorite(d) \/ DeleteFavorite(d)
  \/ Escape \/ ListLeft \/ ListTab \/ ButtonEscape \/ AddCurrentFavorite \/ FavoritesLoaded
  \/ InputTab \/ InputEscape \/ CreateFile \/ CreateDir \/ ShowGenerator \/ CancelGenerator
  \/ CrumbLeft \/ CrumbRight \/ CrumbEnter \/ CrumbDown
  \/ \E w \in Widget : Click(w)
  \/ \E i \in 0 .. Last(ui) : PressCrumb(i) \/ ClickCrumb(i)
  \/ \E node \in BOOLEAN : LoadSucceeds(node) \/ LoadFails(node)

Spec == Init /\ [][Next]_vars
-----------------------------------------------------------------------------
TypeOK ==
  /\ ui \in UI /\ ui.sel <= Last(ui)
  /\ items \subseteq Dir /\ loading \in BOOLEAN /\ search \in BOOLEAN
  /\ loads \in [BOOLEAN -> 0 .. MaxLoads]
  /\ status \in {"up", "stuck", "crashed"}

\* The steps after which keys are not heard although they were, each a deviation
\* the README describes: what the next property excepts, and nothing else.
Ends == BackspaceOnNothing \/ DeleteNothing \/ CreateDir

\* The tree gets the focus while the favourites have its place.
TreeIsHidden ==
  /\ CloseHelp \/ FilesLeft \/ InputEscape \/ CancelGenerator \/ CrumbDown
  /\ ui.left = "favorites" /\ ui'.focus = "tree"

\* Nothing gets the focus from a form that is closed, or from the crumbs.
NothingNext == (CancelGenerator /\ ui.back = "none") \/ (CrumbDown /\ ui.next = "none")

\* The right column is exchanged while a widget in it has the focus.
RightColumn == {"rows", "attrs", "input", "dirButton", "fileButton", "scripts", "form", "masks"}
               \cup Previewer
ExchangedUnder ==
  /\ \/ ShowMasks \/ GoRootOrHome \/ FavoritesLoaded
     \/ \E node \in BOOLEAN : LoadSucceeds(node) \/ LoadFails(node)
  /\ \/ ui.focus \in RightColumn /\ ui'.right # ui.right
     \/ ui.focus \in Previewer /\ ui'.main # ui.main

\* The loaded favourites hold the directory the panel offered to add: the panel
\* takes the offer back, and takes the focus, even if it is not shown.
TakesOfferBack ==
  FavoritesLoaded /\ ui.form /\ ~ui'.form /\ (ui.left = "tree" \/ ui.help)

KnownLoss == Ends \/ TreeIsHidden \/ NothingNext \/ ExchangedUnder \/ TakesOfferBack

(* Wherever keys are heard, they are heard after the next key, click or     *)
(* answer of a goroutine, and the program runs: no step ends it, blocks it  *)
(* or gives the focus to a widget that is not shown, except those of        *)
(* KnownLoss, in the states KnownLoss says.                                 *)
KeepsKeyboard ==
  [][Up /\ Heard(ui) => (status' = "up" /\ Heard(ui')) \/ KnownLoss]_vars

(* Up at the tree's root selects the crumb of the parent directory, however *)
(* the crumbs were left and whatever was loaded since.                      *)
UpSelectsParent == [][TreeUp => CrumbDir(ui'.sel) = ui.dir - 1]_vars

(* favorites_panel.go says "<esc> to go back" below the list: while the     *)
(* favourites are shown, keys are heard.                                    *)
EscGoesBack == Up /\ ui.left = "favorites" /\ ~ui.help => Heard(ui)
=============================================================================
