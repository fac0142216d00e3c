----------------------------- MODULE PanelsProofs -----------------------------
(***************************************************************************)
(* What the keyboard promises, for directories of any depth and any number *)
(* of loads under way.                                                     *)
(***************************************************************************)
EXTENDS Panels, TLAPS

(* The inductive invariant.  While the crumbs do not have the focus their   *)
(* selection is the last one, the current directory's.                      *)
AtTheEnd(u) == u.focus # "crumbs" => u.sel = Last(u)

UIInv(u) == u \in UI /\ u.sel <= Last(u) /\ AtTheEnd(u)

PanelsInv == TypeOK /\ UIInv(ui)

USE PanelsAssumption
-----------------------------------------------------------------------------
(* What the handlers are made of keeps the invariant.                       *)

\* The three columns.
LEMMA Columns == 0 \in 0 .. 2 /\ 1 \in 0 .. 2 /\ 2 \in 0 .. 2
  OBVIOUS

\* A directory has a crumb.
LEMMA Crumbs ==
  ASSUME NEW d \in Dir
  PROVE  d \in Int /\ d >= 0 /\ d + 1 \in 0 .. (MaxDepth + 1) /\ d \in 0 .. (MaxDepth + 1)
  BY DEF Dir

\* The invariant of a layout whose crumbs are at the end.
LEMMA Settled ==
  ASSUME NEW v \in UI, v.sel = Last(v)
  PROVE  UIInv(v)
  <1>1. v.dir \in Int
    BY Crumbs DEF UI
  <1>2. QED
    BY <1>1 DEF UIInv, AtTheEnd, Last

\* What the invariant is about.
SameKeys(v, u) == v.focus = u.focus /\ v.sel = u.sel /\ v.dir = u.dir

\* Other fields may change.
LEMMA SameKeysInv ==
  ASSUME NEW u, UIInv(u), NEW v \in UI,
         SameKeys(v, u)
  PROVE  UIInv(v)
  BY DEF SameKeys, UIInv, AtTheEnd, Last

\* A new directory's crumb is the last one, and is selected.
LEMMA GoDirInv ==
  ASSUME NEW u, UIInv(u), NEW d \in Dir
  PROVE  LET v == GoDir(d, u) IN
         /\ UIInv(v) /\ v.focus = u.focus /\ v.left = u.left /\ v.help = u.help
         /\ v.form = u.form /\ v.main = u.main /\ v.right = "previewer" /\ v.dir = d
  <1> DEFINE v == GoDir(d, u)
  <1>1. v \in UI /\ u \in UI
    BY Crumbs DEF GoDir, UI, UIInv
  <1>2. /\ v.focus = u.focus /\ v.left = u.left /\ v.help = u.help
        /\ v.form = u.form /\ v.main = u.main /\ v.right = "previewer" /\ v.dir = d /\ v.sel = d + 1
    BY <1>1 DEF GoDir, UI
  <1> HIDE DEF v
  <1>3. UIInv(v)
    BY <1>1, <1>2, Crumbs DEF UIInv, AtTheEnd, Last
  <1>4. QED
    BY <1>2, <1>3 DEF v

\* A blur leaves the crumbs at their end.
LEMMA BlurredInv ==
  ASSUME NEW u, UIInv(u)
  PROVE  LET b == Blurred(u) IN
         /\ b \in UI /\ b.sel = Last(u) /\ Last(b) = Last(u)
         /\ b.left = u.left /\ b.help = u.help /\ b.right = u.right
         /\ b.form = u.form /\ b.main = u.main /\ b.dir = u.dir
  <1>1. u \in UI /\ Last(u) \in 0 .. (MaxDepth + 1)
    BY Crumbs DEF UIInv, UI, Last
  <1>2. CASE u.focus = "crumbs"
    BY <1>1, <1>2 DEF Blurred, UI, Last
  <1>3. CASE u.focus # "crumbs"
    BY <1>1, <1>3 DEF Blurred, UIInv, AtTheEnd, Last
  <1>4. QED
    BY <1>2, <1>3

\* What a focus function leaves alone.
SamePanels(v, u) ==
  v.left = u.left /\ v.help = u.help /\ v.form = u.form /\ v.main = u.main /\ v.dir = u.dir

\* Any widget but the crumbs may get the focus.
LEMMA SetFocusInv ==
  ASSUME NEW u, UIInv(u), NEW w \in Widget, w # "crumbs"
  PROVE  LET v == SetFocus(w, u) IN
         /\ UIInv(v) /\ SamePanels(v, u) /\ v.focus = w
         /\ v.right = IF w \in {"tree", "files"} THEN "previewer" ELSE u.right
  <1> DEFINE b == Blurred(u)
             x == [b EXCEPT !.focus = w]
             v == SetFocus(w, u)
  <1>1. /\ b \in UI /\ b.sel = Last(u) /\ Last(b) = Last(u) /\ SamePanels(b, u)
        /\ b.right = u.right
    BY BlurredInv DEF SamePanels
  <1> HIDE DEF b
  <1>2. /\ x \in UI /\ x.focus = w /\ x.sel = Last(x) /\ SamePanels(x, u)
        /\ x.right = u.right
    BY <1>1 DEF UI, Last, SamePanels
  <1>3. w # "new"
    BY DEF Widget
  <1>4. v = CASE w = "tree"  -> [x EXCEPT !.col = 0, !.right = "previewer"]
              [] w = "files" -> [x EXCEPT !.col = 1, !.right = "previewer"]
              [] w = "rows"  -> [x EXCEPT !.col = 2]
              [] OTHER       -> x
    BY <1>3 DEF SetFocus, b
  <1> HIDE DEF x, v
  <1>5. CASE w = "tree"
    <2>1. v = [x EXCEPT !.col = 0, !.right = "previewer"]
      BY <1>4, <1>5
    <2>2. v \in UI /\ SamePanels(v, u) /\ v.focus = w /\ v.right = "previewer" /\ v.sel = Last(v)
      BY <2>1, <1>2, Columns DEF UI, SamePanels, Last
    <2>3. QED
      BY <2>2, <1>5, Settled DEF v
  <1>6. CASE w = "files"
    <2>1. v = [x EXCEPT !.col = 1, !.right = "previewer"]
      BY <1>4, <1>6
    <2>2. v \in UI /\ SamePanels(v, u) /\ v.focus = w /\ v.right = "previewer" /\ v.sel = Last(v)
      BY <2>1, <1>2, Columns DEF UI, SamePanels, Last
    <2>3. QED
      BY <2>2, <1>6, Settled DEF v
  <1>7. CASE w = "rows"
    <2>1. v = [x EXCEPT !.col = 2]
      BY <1>4, <1>7
    <2>2. v \in UI /\ SamePanels(v, u) /\ v.focus = w /\ v.right = u.right /\ v.sel = Last(v)
      BY <2>1, <1>2, Columns DEF UI, SamePanels, Last
    <2>3. QED
      BY <2>2, <1>7, Settled DEF v
  <1>8. CASE w \notin {"tree", "files", "rows"}
    <2>1. v = x
      BY <1>4, <1>8
    <2>2. QED
      BY <2>1, <1>2, <1>8, Settled DEF v
  <1>9. QED
    BY <1>5, <1>6, <1>7, <1>8

\* The new panel hands the focus to its input field.
LEMMA FocusNewInv ==
  ASSUME NEW u, UIInv(u)
  PROVE  LET v == SetFocus("new", u) IN
         UIInv(v) /\ SamePanels(v, u) /\ v.focus = "input" /\ v.right = u.right
  <1> DEFINE b == Blurred(u)
             x == [b EXCEPT !.focus = "new"]
             v == SetFocus("new", u)
  <1>1. /\ b \in UI /\ b.sel = Last(u) /\ Last(b) = Last(u) /\ SamePanels(b, u)
        /\ b.right = u.right
    BY BlurredInv DEF SamePanels
  <1>2. v = [x EXCEPT !.col = 2, !.focus = "input"]
    BY DEF SetFocus
  <1> HIDE DEF b, v
  <1>3. v = [b EXCEPT !.col = 2, !.focus = "input"]
    BY <1>1, <1>2 DEF UI
  <1>4. /\ v \in UI /\ v.focus = "input" /\ v.sel = Last(v) /\ SamePanels(v, u)
        /\ v.right = u.right
    BY <1>1, <1>3, Columns DEF UI, Last, SamePanels, Widget
  <1>5. QED
    BY <1>4, Settled DEF v

\* When the crumbs get the focus, a crumb before the last one is selected.
LEMMA FocusCrumbsInv ==
  ASSUME NEW u \in UI
  PROVE  LET v == SetFocus("crumbs", u) IN
         /\ UIInv(v) /\ SamePanels(v, u) /\ v.focus = "crumbs" /\ v.right = u.right
         /\ u.focus # "crumbs" => v.sel = IF u.sel >= Last(u) THEN Last(u) - 1 ELSE u.sel
  <1> DEFINE b == Blurred(u)
             x == [b EXCEPT !.focus = "crumbs"]
             s == IF x.sel < 0 \/ x.sel >= Last(x) THEN Last(x) - 1 ELSE x.sel
             v == SetFocus("crumbs", u)
  <1>1. u \in UI /\ Last(u) \in 1 .. (MaxDepth + 1) /\ u.sel \in 0 .. (MaxDepth + 1)
    BY DEF UI, Last, Dir
  <1>2. /\ b \in UI /\ Last(b) = Last(u) /\ SamePanels(b, u)
        /\ b.right = u.right
        /\ u.focus # "crumbs" => b.sel = u.sel
    BY <1>1 DEF Blurred, UI, Last, SamePanels
  <1>3. v = [x EXCEPT !.sel = s]
    BY DEF SetFocus
  <1> HIDE DEF b, v
  <1>4. /\ x \in UI /\ x.focus = "crumbs" /\ Last(x) = Last(u) /\ SamePanels(x, u)
        /\ x.right = u.right /\ x.sel = b.sel
    BY <1>2 DEF UI, Last, SamePanels, Widget
  <1> HIDE DEF x
  <1>5. s \in 0 .. (MaxDepth + 1) /\ s <= Last(u)
    BY <1>1, <1>4 DEF UI
  <1> HIDE DEF s
  <1>6. /\ v \in UI /\ v.focus = "crumbs" /\ Last(v) = Last(u) /\ SamePanels(v, u)
        /\ v.right = u.right /\ v.sel = s
    <2>1. v \in UI
      BY <1>3, <1>4, <1>5 DEF UI
    <2>2. QED
      BY <2>1, <1>3, <1>4 DEF UI, Last, SamePanels
  <1>7. UIInv(v)
    BY <1>5, <1>6 DEF UIInv, AtTheEnd
  <1>8. u.focus # "crumbs" => s = IF u.sel >= Last(u) THEN Last(u) - 1 ELSE u.sel
    BY <1>1, <1>2, <1>4 DEF s
  <1>9. QED
    BY <1>6, <1>7, <1>8 DEF v

\* A directory is entered, or is the current one.
LEMMA ShowDirInv ==
  ASSUME NEW u, UIInv(u), NEW d \in Dir
  PROVE  LET v == ShowDir(d, u) IN
         /\ UIInv(v) /\ v.focus = u.focus /\ v.left = u.left /\ v.help = u.help
         /\ v.form = u.form /\ v.main = u.main /\ v.right \in {u.right, "previewer"}
  BY GoDirInv DEF ShowDir

\* A preview exchanges the panel and the main widget.
LEMMA PreviewInv ==
  ASSUME NEW u, UIInv(u), NEW v \in Selections(u)
  PROVE  /\ UIInv(v) /\ v.focus = u.focus /\ v.left = u.left /\ v.help = u.help
         /\ v.form = u.form
  <1>1. CASE v = u
    BY <1>1
  <1>2. ASSUME NEW p \in Previewer, v = Preview(p, u)
        PROVE  /\ UIInv(v) /\ v.focus = u.focus /\ v.left = u.left /\ v.help = u.help
               /\ v.form = u.form
    <2>1. /\ v \in UI /\ v.focus = u.focus /\ v.left = u.left /\ v.help = u.help
          /\ v.form = u.form /\ v.sel = u.sel /\ v.dir = u.dir
      BY <1>2 DEF Preview, UIInv, UI
    <2>2. QED
      BY <2>1, SameKeysInv DEF SameKeys
  <1>3. QED
    BY <1>1, <1>2 DEF Selections

\* The form of the favourites takes the focus only when it is hidden.
LEMMA UpdateFormInv ==
  ASSUME NEW u, UIInv(u), NEW fs
  PROVE  LET v == UpdateForm(u, fs) IN
         /\ UIInv(v) /\ v.left = u.left /\ v.help = u.help
         /\ v.right = u.right /\ v.main = u.main
         /\ \/ v.focus = u.focus /\ (u.form => v.form)
            \/ u.form /\ ~v.form /\ v.focus = "list"
  <1> DEFINE x == [u EXCEPT !.form = TRUE]
             y == [u EXCEPT !.form = FALSE]
             v == UpdateForm(u, fs)
  <1>1. u \in UI
    BY DEF UIInv
  <1>2. /\ x \in UI /\ SameKeys(x, u) /\ x.left = u.left /\ x.help = u.help
        /\ x.focus = u.focus /\ x.form /\ x.right = u.right /\ x.main = u.main
        /\ y \in UI /\ SameKeys(y, u) /\ y.left = u.left /\ y.help = u.help
        /\ ~y.form /\ y.right = u.right /\ y.main = u.main
    BY <1>1 DEF UI, SameKeys
  <1>3. "list" \in Widget /\ "list" # "crumbs"
    BY DEF Widget
  <1>4. v = IF (u.dir \notin fs) = u.form THEN u
            ELSE IF u.dir \notin fs THEN x ELSE SetFocus("list", y)
    BY DEF UpdateForm
  <1>5. u.form \in BOOLEAN
    BY <1>1 DEF UI
  <1> HIDE DEF x, y, v
  <1>6. UIInv(x) /\ UIInv(y)
    BY <1>2, SameKeysInv
  <1>7. LET z == SetFocus("list", y) IN
        /\ UIInv(z) /\ z.left = u.left /\ z.help = u.help /\ z.focus = "list"
        /\ ~z.form /\ z.right = u.right /\ z.main = u.main
    BY <1>6, <1>2, <1>3, SetFocusInv DEF SamePanels
  <1>8. QED
    <2>1. CASE v = u
      BY <2>1 DEF v
    <2>2. CASE v = x
      BY <2>2, <1>6, <1>2 DEF v
    <2>3. CASE v = SetFocus("list", y) /\ u.form
      BY <2>3, <1>7 DEF v
    <2>4. CASE u.dir \in fs
      <3>1. u.form => v = SetFocus("list", y)
        BY <2>4, <1>4, <1>5
      <3>2. ~u.form => v = u
        BY <2>4, <1>4, <1>5
      <3>3. QED
        BY <3>1, <3>2, <2>1, <2>3
    <2>5. CASE u.dir \notin fs
      <3>1. v = u \/ v = x
        BY <2>5, <1>4
      <3>2. QED
        BY <3>1, <2>1, <2>2
    <2>6. QED
      BY <2>4, <2>5

\* What the right column may show.
Right == {"previewer", "new", "scripts", "generator", "masks"}

\* A panel is shown in the right column and gets the focus.
LEMMA ShowPanelInv ==
  ASSUME NEW u, UIInv(u), NEW r \in Right, NEW w \in Widget, w # "crumbs"
  PROVE  LET v == SetFocus(w, [u EXCEPT !.right = r]) IN
         /\ UIInv(v) /\ SamePanels(v, u) /\ v.focus = w
         /\ v.right = IF w \in {"tree", "files"} THEN "previewer" ELSE r
  <1> DEFINE x == [u EXCEPT !.right = r]
  <1>1. x \in UI /\ SameKeys(x, u) /\ SamePanels(x, u) /\ x.right = r
    BY DEF UIInv, UI, SamePanels, SameKeys, Right
  <1> HIDE DEF x
  <1>2. UIInv(x)
    BY <1>1, SameKeysInv
  <1>3. LET v == SetFocus(w, x) IN
        /\ UIInv(v) /\ SamePanels(v, u) /\ v.focus = w
        /\ v.right = IF w \in {"tree", "files"} THEN "previewer" ELSE r
    BY <1>1, <1>2, SetFocusInv DEF SamePanels
  <1>4. QED
    BY <1>3 DEF x

\* Where keys are heard.
LEMMA HeardAt ==
  ASSUME NEW u, u.help = FALSE
  PROVE  /\ u.focus \in {"files", "crumbs", "bottom"} => Heard(u)
         /\ u.focus = "tree" /\ u.left = "tree" => Heard(u)
         /\ u.focus = "list" /\ u.left = "favorites" => Heard(u)
         /\ u.focus = "addButton" /\ u.left = "favorites" /\ u.form => Heard(u)
         /\ u.focus = "rows" /\ u.right = "previewer" => Heard(u)
         /\ u.focus \in {"input", "dirButton"} /\ u.right = "new" => Heard(u)
         /\ u.focus = "scripts" /\ u.right = "scripts" => Heard(u)
         /\ u.focus = "form" /\ u.right = "generator" => Heard(u)
         /\ u.focus = "masks" /\ u.right = "masks" => Heard(u)
  BY DEF Heard, Shown

\* What is shown where keys are heard.
LEMMA WhereHeard ==
  ASSUME NEW u \in UI, Heard(u)
  PROVE  /\ u.focus # "help" => u.help = FALSE
         /\ u.focus = "tree" => u.left = "tree"
         /\ u.focus \in {"list", "addButton"} => u.left = "favorites"
         /\ u.focus = "addButton" => u.form
         /\ u.focus \in {"input", "dirButton", "fileButton"} => u.right = "new"
         /\ u.help => u.focus = "help"
  BY DEF Heard, Shown, UI, Previewer

\* A widget stays below the root when its column stays.
LEMMA Undisturbed ==
  ASSUME NEW u \in UI, Heard(u), NEW v \in UI,
         v.focus = u.focus, v.left = u.left, v.help = u.help, u.form => v.form,
         u.focus \in RightColumn => v.right = u.right,
         u.focus \in Previewer => v.main = u.main
  PROVE  Heard(v)
  <1>1. CASE u.help
    BY <1>1 DEF Heard, Shown
  <1>2. CASE ~u.help /\ u.focus \notin RightColumn
    BY <1>2 DEF Heard, Shown, RightColumn, UI, Previewer
  <1>3. CASE ~u.help /\ u.focus \in RightColumn /\ u.focus \notin Previewer
    BY <1>3 DEF Heard, Shown, RightColumn, UI, Previewer
  <1>4. CASE ~u.help /\ u.focus \in Previewer
    <2>1. v.main = u.main /\ v.right = u.right
      BY <1>4 DEF RightColumn
    <2>2. QED
      BY <1>4, <2>1 DEF Heard, Shown, Previewer
  <1>5. QED
    BY <1>1, <1>2, <1>3, <1>4

-----------------------------------------------------------------------------
(* What an action must keep.                                                *)

Keeps ==
  UIInv(ui') /\ (Up /\ Heard(ui) => (status' = "up" /\ Heard(ui')) \/ KnownLoss)

\* A key of a widget other than the help window.
LEMMA AtWidget ==
  ASSUME UIInv(ui), NEW w \in Widget, w # "help", At(w)
  PROVE  /\ ui \in UI /\ Heard(ui) /\ ui.focus = w /\ status = "up" /\ ui.help = FALSE
         /\ w = "tree" => ui.left = "tree"
         /\ w \in {"list", "addButton"} => ui.left = "favorites"
         /\ w = "addButton" => ui.form
         /\ w \in {"input", "dirButton", "fileButton"} => ui.right = "new"
  BY WhereHeard DEF At, Up, UIInv

\* Keys that inputCapture takes.
LEMMA GlobalKeysKeep ==
  ASSUME UIInv(ui), items \subseteq Dir,
         ShowHelp \/ ShowNewPanel \/ DeleteNothing \/ ShowScripts \/ ShowMasks
           \/ ShowFavorites \/ GoRootOrHome
  PROVE  Keeps
  <1>0. ui \in UI
    BY DEF UIInv
  <1>1. CASE ShowHelp
    <2> DEFINE x == [ui EXCEPT !.help = TRUE]
               v == SetFocus("help", x)
    <2>1. x \in UI /\ SameKeys(x, ui) /\ x.help
      BY <1>0 DEF UI, SameKeys
    <2> HIDE DEF x
    <2>2. UIInv(x)
      BY <2>1, SameKeysInv
    <2>3. "help" \in Widget
      BY DEF Widget
    <2>4. UIInv(v) /\ v.help /\ v.focus = "help"
      BY <2>1, <2>2, <2>3, SetFocusInv DEF SamePanels
    <2>5. ui' = v /\ status' = status
      BY <1>1 DEF ShowHelp, Rest, x
    <2> HIDE DEF v
    <2>6. QED
      BY <2>4, <2>5 DEF Keeps, Up, Heard, Shown
  <1>2. CASE ShowNewPanel
    <2> DEFINE x == [ui EXCEPT !.right = "new"]
               v == SetFocus("new", x)
    <2>1. x \in UI /\ SameKeys(x, ui) /\ x.help = ui.help /\ x.right = "new"
      BY <1>0 DEF UI, SameKeys
    <2> HIDE DEF x
    <2>2. UIInv(x)
      BY <2>1, SameKeysInv
    <2>3. UIInv(v) /\ v.help = ui.help /\ v.focus = "input" /\ v.right = "new"
      BY <2>1, <2>2, FocusNewInv DEF SamePanels
    <2>4. ui' = v /\ status' = status /\ ui.help = FALSE
      BY <1>0, <1>2 DEF ShowNewPanel, Rest, x, Key, UI
    <2> HIDE DEF v
    <2>5. QED
      BY <2>3, <2>4, HeardAt DEF Keeps, Up
  <1>3. CASE DeleteNothing
    BY <1>3 DEF DeleteNothing, Keeps, KnownLoss, Ends
  <1>4. CASE ShowScripts
    <2> DEFINE v == SetFocus("scripts", [ui EXCEPT !.right = "scripts"])
    <2>0. "scripts" \in Right /\ "scripts" \in Widget
      BY DEF Right, Widget
    <2>1. UIInv(v) /\ v.help = ui.help /\ v.focus = "scripts" /\ v.right = "scripts"
      BY <2>0, ShowPanelInv DEF SamePanels
    <2>2. ui' = v /\ status' = status /\ ui.help = FALSE
      BY <1>0, <1>4 DEF ShowScripts, Rest, Key, UI
    <2> HIDE DEF v
    <2>3. QED
      BY <2>1, <2>2, HeardAt DEF Keeps, Up
  <1>5. CASE ShowMasks
    <2> DEFINE v == [ui EXCEPT !.right = "masks"]
    <2>1. /\ v \in UI /\ SameKeys(v, ui) /\ v.help = ui.help /\ v.focus = ui.focus
          /\ v.left = ui.left /\ v.form = ui.form /\ v.main = ui.main
      BY <1>0 DEF UI, SameKeys
    <2>2. ui' = v /\ status' = status /\ ui.help = FALSE
      BY <1>0, <1>5 DEF ShowMasks, Rest, Key, UI
    <2> HIDE DEF v
    <2>3. UIInv(v)
      BY <2>1, SameKeysInv
    <2>4. CASE ui.focus \in RightColumn /\ v.right # ui.right
      BY <1>5, <2>2, <2>3, <2>4 DEF Keeps, KnownLoss, ExchangedUnder
    <2>5. CASE ui.focus \in RightColumn => v.right = ui.right
      BY <1>0, <2>1, <2>2, <2>3, <2>5, Undisturbed DEF Keeps, Up
    <2>6. QED
      BY <2>4, <2>5
  <1>6. CASE ShowFavorites
    <2> DEFINE x == [ui EXCEPT !.prev = ui.dir, !.left = "favorites"]
               y == UpdateForm(x, items)
               v == SetFocus("list", y)
    <2>1. x \in UI /\ SameKeys(x, ui) /\ x.help = ui.help /\ x.left = "favorites"
      BY <1>0 DEF UI, SameKeys
    <2>2. ui' = v /\ status' = status /\ ui.help = FALSE
      BY <1>0, <1>6 DEF ShowFavorites, Rest, Key, UI
    <2> HIDE DEF x
    <2>3. UIInv(x)
      BY <2>1, SameKeysInv
    <2>4. UIInv(y) /\ y.help = ui.help /\ y.left = "favorites"
      BY <2>1, <2>3, UpdateFormInv
    <2> HIDE DEF y
    <2>5. "list" \in Widget
      BY DEF Widget
    <2>6. UIInv(v) /\ v.help = ui.help /\ v.left = "favorites" /\ v.focus = "list"
      BY <2>4, <2>5, SetFocusInv DEF SamePanels
    <2> HIDE DEF v
    <2>7. QED
      BY <2>2, <2>6, HeardAt DEF Keeps, Up
  <1>7. CASE GoRootOrHome
    <2>1. PICK d \in Dir : ui' = GoDir(d, ui)
      BY <1>7 DEF GoRootOrHome, Dir
    <2>2. /\ UIInv(ui') /\ ui'.help = ui.help /\ ui'.focus = ui.focus /\ ui'.left = ui.left
          /\ ui'.form = ui.form /\ ui'.main = ui.main /\ ui' \in UI
      BY <2>1, GoDirInv DEF UIInv
    <2>3. status' = status
      BY <1>7 DEF GoRootOrHome, Going
    <2>4. CASE ui.focus \in RightColumn /\ ui'.right # ui.right
      BY <1>7, <2>2, <2>4 DEF Keeps, KnownLoss, ExchangedUnder
    <2>5. CASE ui.focus \in RightColumn => ui'.right = ui.right
      BY <1>0, <2>2, <2>3, <2>5, Undisturbed DEF Keeps, Up
    <2>6. QED
      BY <2>4, <2>5
  <1>8. QED
    BY <1>1, <1>2, <1>3, <1>4, <1>5, <1>6, <1>7

\* Keys of the tree and of the files panel.
LEMMA BrowserKeysKeep ==
  ASSUME UIInv(ui),
         TreeRight \/ TreeUp \/ OpenDir \/ SelectNode \/ TypeLetter \/ ClearSearch \/ Backspace
           \/ BackspaceOnNothing \/ SelectEntry \/ FilesLeft \/ FilesRight \/ PreviewerLeft
  PROVE  Keeps
  <1>0. /\ ui \in UI /\ {"tree", "files", "rows", "scripts", "form", "masks"} \subseteq Widget
        /\ ui.help = FALSE
    <2>1. ui \in UI /\ {"tree", "files", "rows", "scripts", "form", "masks"} \subseteq Widget
      BY DEF UIInv, Widget
    <2>2. Heard(ui) /\ ui.focus # "help"
      BY DEF TreeRight, TreeUp, OpenDir, SelectNode, TypeLetter, ClearSearch, Backspace,
             BackspaceOnNothing, SelectEntry, FilesLeft, FilesRight, PreviewerLeft, At, Previewer
    <2>3. QED
      BY <2>1, <2>2, WhereHeard
  <1>1. CASE TreeRight \/ PreviewerLeft
    <2>1. ui' = SetFocus("files", ui) /\ status' = status
      BY <1>1 DEF TreeRight, PreviewerLeft, Rest
    <2>2. UIInv(ui') /\ ui'.help = ui.help /\ ui'.focus = "files"
      BY <1>0, <2>1, SetFocusInv DEF SamePanels
    <2>3. QED
      BY <1>0, <2>1, <2>2, HeardAt DEF Keeps, Up
  <1>2. CASE TreeUp
    <2> DEFINE x == [ui EXCEPT !.next = "tree", !.sel = @ - 1]
    <2>1. ui.sel = Last(ui) /\ ui.dir \in Dir
      BY <1>0, <1>2 DEF TreeUp, At, UIInv, AtTheEnd, UI
    <2>2. ui.sel - 1 \in 0 .. (MaxDepth + 1)
      BY <2>1 DEF Last, Dir
    <2>3. x \in UI /\ x.help = ui.help
      BY <1>0, <2>2 DEF UI
    <2>4. ui' = SetFocus("crumbs", x) /\ status' = status
      BY <1>2 DEF TreeUp, Rest
    <2> HIDE DEF x
    <2>5. UIInv(ui') /\ ui'.help = ui.help /\ ui'.focus = "crumbs"
      BY <2>3, <2>4, FocusCrumbsInv DEF SamePanels
    <2>6. QED
      BY <1>0, <2>4, <2>5, HeardAt DEF Keeps, Up
  <1>3. CASE OpenDir \/ SelectNode
    <2>1. PICK d \in Dir : ui' = GoDir(d, ui) \/ ui' = ShowDir(d, ui)
      BY <1>3 DEF OpenDir, SelectNode
    <2>2. UIInv(ui') /\ ui'.help = ui.help /\ ui'.focus = ui.focus /\ ui'.left = ui.left
      BY <2>1, GoDirInv, ShowDirInv
    <2>3. status' = status
      BY <1>3 DEF OpenDir, SelectNode, Going
    <2>4. ui.focus = "files" \/ (ui.focus = "tree" /\ ui.left = "tree")
      BY <1>0, <1>3, WhereHeard DEF OpenDir, SelectNode, At
    <2>5. QED
      BY <1>0, <2>2, <2>3, <2>4, HeardAt DEF Keeps, Up
  <1>4. CASE SelectEntry
    <2>1. ui' \in Selections(ui) /\ status' = status
      BY <1>4 DEF SelectEntry, Rest
    <2>2. UIInv(ui') /\ ui'.help = ui.help /\ ui'.focus = ui.focus /\ ui'.left = ui.left
      BY <2>1, PreviewInv
    <2>3. ui.focus = "files"
      BY <1>4 DEF SelectEntry, At
    <2>4. QED
      BY <1>0, <2>1, <2>2, <2>3, HeardAt DEF Keeps, Up
  <1>5. CASE FilesLeft
    <2>1. ui' = SetFocus("tree", ui) /\ status' = status
      BY <1>5 DEF FilesLeft, Rest
    <2>2. UIInv(ui') /\ ui'.help = ui.help /\ ui'.focus = "tree" /\ ui'.left = ui.left
      BY <1>0, <2>1, SetFocusInv DEF SamePanels
    <2>3. CASE ui.left = "tree"
      BY <1>0, <2>1, <2>2, <2>3, HeardAt DEF Keeps, Up
    <2>4. CASE ui.left = "favorites"
      BY <1>5, <2>2, <2>4 DEF Keeps, KnownLoss, TreeIsHidden
    <2>5. QED
      BY <1>0, <2>3, <2>4 DEF UI
  <1>6. CASE FilesRight
    <2>1. ui' = SetFocus(Content[ui.right], ui) /\ status' = status
      BY <1>6 DEF FilesRight, Rest
    <2>2. CASE ui.right = "new"
      <3>1. ui' = SetFocus("new", ui)
        BY <2>1, <2>2 DEF Content
      <3>2. UIInv(ui') /\ ui'.help = ui.help /\ ui'.focus = "input" /\ ui'.right = "new"
        BY <3>1, <2>2, FocusNewInv DEF SamePanels
      <3>3. QED
        BY <1>0, <2>1, <3>2, HeardAt DEF Keeps, Up
    <2>3. ASSUME NEW r \in {"previewer", "scripts", "generator", "masks"}, ui.right = r
          PROVE  Keeps
      <3> DEFINE w == Content[r]
      <3>1. /\ w \in Widget /\ w \notin {"crumbs", "tree", "files"}
            /\ <<r, w>> \in {<<"previewer", "rows">>, <<"scripts", "scripts">>,
                              <<"generator", "form">>, <<"masks", "masks">>}
        BY DEF Content, Widget
      <3>2. ui' = SetFocus(w, ui) /\ status' = status
        BY <2>1, <2>3
      <3> HIDE DEF w
      <3>3. UIInv(ui') /\ ui'.help = ui.help /\ ui'.focus = w /\ ui'.right = r
        BY <2>3, <3>1, <3>2, SetFocusInv DEF SamePanels
      <3>4. QED
        BY <1>0, <3>1, <3>2, <3>3, HeardAt DEF Keeps, Up
    <2>4. QED
      BY <1>0, <2>2, <2>3 DEF UI
  <1>7. CASE TypeLetter \/ ClearSearch \/ Backspace
    <2>1. ui' = ui /\ status' = status
      BY <1>7 DEF TypeLetter, ClearSearch, Backspace, Searching
    <2>2. QED
      BY <2>1 DEF Keeps, Up, Heard
  <1>8. CASE BackspaceOnNothing
    BY <1>8 DEF BackspaceOnNothing, Keeps, KnownLoss, Ends
  <1>9. QED
    BY <1>1, <1>2, <1>3, <1>4, <1>5, <1>6, <1>7, <1>8

\* New items leave the left column as it is; they may take the focus from the form.
LEMMA SetItemsInv ==
  ASSUME UIInv(ui), NEW fs \in SUBSET Dir, SetItems(fs)
  PROVE  /\ UIInv(ui') /\ ui'.left = ui.left /\ ui'.help = ui.help /\ ui'.main = ui.main
         /\ \/ ui'.focus = ui.focus /\ (ui.form => ui'.form)
            \/ ui.form /\ ~ui'.form /\ ui'.focus = "list"
  <1>1. ui.dir \in Dir
    BY DEF UIInv, UI
  <1>2. PICK d \in Dir : ui' = UpdateForm(ShowDir(d, ui), fs)
    BY <1>1 DEF SetItems
  <1> DEFINE x == ShowDir(d, ui)
  <1>3. /\ UIInv(x) /\ x.left = ui.left /\ x.help = ui.help /\ x.focus = ui.focus
        /\ x.form = ui.form /\ x.main = ui.main
    BY ShowDirInv
  <1>4. ui' = UpdateForm(x, fs)
    BY <1>2
  <1> HIDE DEF x
  <1>5. QED
    BY <1>3, <1>4, UpdateFormInv

\* The favourites' keys, and the update that loads them.
LEMMA FavoritesKeep ==
  ASSUME UIInv(ui), items \subseteq Dir,
         \/ \E d \in items : PreviewFavorite(d) \/ OpenFavorite(d) \/ DeleteFavorite(d)
         \/ Escape \/ ListLeft \/ ListTab \/ ButtonEscape \/ AddCurrentFavorite \/ FavoritesLoaded
  PROVE  Keeps
  <1>0. /\ ui \in UI /\ {"tree", "files", "list", "addButton"} \subseteq Widget
        /\ ui.dir \in Dir /\ ui.prev \in Dir /\ ui.help \in BOOLEAN /\ ui.form \in BOOLEAN
    BY DEF UIInv, UI, Widget
  <1>1. ASSUME NEW d \in items, PreviewFavorite(d) PROVE Keeps
    <2>1. At("list") /\ ui' = ShowDir(d, ui) /\ status' = status
      BY <1>1 DEF PreviewFavorite
    <2>2. UIInv(ui') /\ ui'.focus = ui.focus /\ ui'.left = ui.left /\ ui'.help = ui.help
      BY <2>1, ShowDirInv
    <2>3. QED
      BY <1>0, <2>1, <2>2, AtWidget, HeardAt DEF Keeps, Up
  <1>2. ASSUME NEW d \in Dir, OpenFavorite(d) PROVE Keeps
    <2> DEFINE g == GoDir(d, ui)
               x == [g EXCEPT !.left = "tree"]
    <2>1. UIInv(g)
      BY GoDirInv
    <2> HIDE DEF g
    <2>2. x \in UI /\ SameKeys(x, g) /\ x.left = "tree" /\ x.help = g.help
      BY <2>1 DEF UIInv, UI, SameKeys
    <2>3. ui' = SetFocus("tree", x) /\ status' = status /\ g.help = ui.help
      BY <1>2, GoDirInv DEF OpenFavorite, g, Going
    <2> HIDE DEF x
    <2>4. UIInv(x)
      BY <2>1, <2>2, SameKeysInv
    <2>5. UIInv(ui') /\ ui'.focus = "tree" /\ ui'.left = "tree" /\ ui'.help = ui.help
      BY <1>0, <2>2, <2>3, <2>4, SetFocusInv DEF SamePanels
    <2>6. At("list")
      BY <1>2 DEF OpenFavorite
    <2>7. QED
      BY <1>0, <2>3, <2>5, <2>6, AtWidget, HeardAt DEF Keeps, Up
  <1>3. ASSUME NEW d \in items, DeleteFavorite(d) PROVE Keeps
    <2>1. At("list") /\ status' = status
      BY <1>3 DEF DeleteFavorite
    <2>2. /\ UIInv(ui') /\ ui'.left = ui.left /\ ui'.help = ui.help
          /\ ui'.focus = "list" \/ (ui'.focus = ui.focus /\ (ui.form => ui'.form))
      BY <1>0, <1>3, SetItemsInv DEF DeleteFavorite
    <2>3. QED
      BY <1>0, <2>1, <2>2, AtWidget, HeardAt DEF Keeps, Up
  <1>4. CASE ListLeft
    <2>1. At("list") /\ ui' = SetFocus("files", ui) /\ status' = status
      BY <1>4 DEF ListLeft, Rest
    <2>2. UIInv(ui') /\ SamePanels(ui', ui) /\ ui'.focus = "files"
      BY <1>0, <2>1, SetFocusInv
    <2>3. QED
      BY <1>0, <2>1, <2>2, AtWidget, HeardAt DEF Keeps, Up, SamePanels
  <1>5. CASE ListTab
    <2>1. At("list") /\ ui' = SetFocus("addButton", ui) /\ status' = status /\ ui.form
      BY <1>5 DEF ListTab, Rest
    <2>2. UIInv(ui') /\ SamePanels(ui', ui) /\ ui'.focus = "addButton"
      BY <1>0, <2>1, SetFocusInv
    <2>3. QED
      BY <1>0, <2>1, <2>2, AtWidget, HeardAt DEF Keeps, Up, SamePanels
  <1>6. CASE ButtonEscape
    <2>1. At("addButton") /\ ui' = SetFocus("list", ui) /\ status' = status
      BY <1>6 DEF ButtonEscape, Rest
    <2>2. UIInv(ui') /\ SamePanels(ui', ui) /\ ui'.focus = "list"
      BY <1>0, <2>1, SetFocusInv
    <2>3. QED
      BY <1>0, <2>1, <2>2, AtWidget, HeardAt DEF Keeps, Up, SamePanels
  <1>7. CASE AddCurrentFavorite
    <2>1. At("addButton") /\ status' = status
      BY <1>7 DEF AddCurrentFavorite
    <2>2. /\ UIInv(ui') /\ ui'.left = ui.left /\ ui'.help = ui.help
          /\ ui'.focus = "list" \/ (ui'.focus = ui.focus /\ (ui.form => ui'.form))
      BY <1>0, <1>7, SetItemsInv DEF AddCurrentFavorite
    <2>3. QED
      BY <1>0, <2>1, <2>2, AtWidget, HeardAt DEF Keeps, Up
  <1>8. CASE FavoritesLoaded
    <2>1. PICK fs \in SUBSET Dir : SetItems(fs)
      BY <1>8 DEF FavoritesLoaded
    <2>2. /\ UIInv(ui') /\ ui'.left = ui.left /\ ui'.help = ui.help /\ ui'.main = ui.main
          /\ \/ ui'.focus = ui.focus /\ (ui.form => ui'.form)
             \/ ui.form /\ ~ui'.form /\ ui'.focus = "list"
      BY <2>1, SetItemsInv
    <2>3. status' = status
      BY <1>8 DEF FavoritesLoaded
    <2>4. CASE ui.form /\ ~ui'.form /\ ui'.focus = "list"
      <3>1. CASE ui.left = "tree" \/ ui.help
        BY <1>8, <2>2, <2>4, <3>1 DEF Keeps, KnownLoss, TakesOfferBack
      <3>2. CASE ui.left = "favorites" /\ ui.help = FALSE
        BY <2>2, <2>3, <2>4, <3>2, HeardAt DEF Keeps, Up
      <3>3. QED
        BY <1>0, <3>1, <3>2 DEF UI
    <2>5. CASE ui'.focus = ui.focus /\ (ui.form => ui'.form)
      <3>1. CASE ui.focus \in RightColumn /\ ui'.right # ui.right
        BY <1>8, <2>2, <3>1 DEF Keeps, KnownLoss, ExchangedUnder
      <3>2. CASE ui.focus \in RightColumn => ui'.right = ui.right
        BY <1>0, <2>2, <2>3, <2>5, <3>2, Undisturbed DEF Keeps, Up, UIInv
      <3>3. QED
        BY <3>1, <3>2
    <2>6. QED
      BY <2>2, <2>4, <2>5
  <1>9. QED
    BY <1>0, <1>1, <1>2, <1>3, <1>4, <1>5, <1>6, <1>7, <1>8 DEF Escape

\* Keys of the panels of the right column.
LEMMA RightKeysKeep ==
  ASSUME UIInv(ui),
         InputTab \/ InputEscape \/ CreateFile \/ CreateDir \/ ShowGenerator \/ CancelGenerator
  PROVE  Keeps
  <1>0. /\ ui \in UI /\ "previewer" \in Right
        /\ {"tree", "files", "input", "dirButton", "fileButton", "scripts", "form"} \subseteq Widget
    BY DEF UIInv, Widget, Right
  <1> DEFINE p == [ui EXCEPT !.right = "previewer"]
  <1>1. p \in UI /\ SameKeys(p, ui) /\ p.back = ui.back /\ p.left = ui.left /\ p.help = ui.help
    BY <1>0 DEF UI, SameKeys
  <1> HIDE DEF p
  <1>2. UIInv(p)
    BY <1>1, SameKeysInv
  <1>3. CASE InputTab
    <2>1. At("input") /\ ui' = SetFocus("dirButton", ui) /\ status' = status
      BY <1>3 DEF InputTab, Rest
    <2>2. /\ UIInv(ui') /\ SamePanels(ui', ui) /\ ui'.focus = "dirButton"
          /\ ui'.right = ui.right
      BY <1>0, <2>1, SetFocusInv
    <2>3. QED
      BY <1>0, <2>1, <2>2, AtWidget, HeardAt DEF Keeps, Up, SamePanels
  <1>4. CASE InputEscape
    <2>1. At("input") /\ ui' = SetFocus("tree", p) /\ status' = status
      BY <1>4 DEF InputEscape, Rest, p
    <2>2. UIInv(ui') /\ ui'.focus = "tree" /\ ui'.left = ui.left /\ ui'.help = ui.help
      BY <1>0, <1>1, <1>2, <2>1, SetFocusInv DEF SamePanels
    <2>3. CASE ui.left = "tree"
      BY <1>0, <2>1, <2>2, <2>3, AtWidget, HeardAt DEF Keeps, Up
    <2>4. CASE ui.left = "favorites"
      BY <1>4, <2>2, <2>4 DEF Keeps, KnownLoss, TreeIsHidden
    <2>5. QED
      BY <1>0, <2>3, <2>4 DEF UI
  <1>5. CASE CreateFile
    <2>1. PICK u \in Selections(p) : ui' = SetFocus("files", u)
      BY <1>5 DEF CreateFile, p
    <2>2. UIInv(u) /\ u.help = ui.help
      BY <1>1, <1>2, PreviewInv
    <2>3. UIInv(ui') /\ ui'.focus = "files" /\ ui'.help = ui.help
      BY <1>0, <2>1, <2>2, SetFocusInv DEF SamePanels
    <2>4. (At("input") \/ At("fileButton")) /\ status' = status
      BY <1>5 DEF CreateFile, Rest
    <2>5. QED
      BY <1>0, <2>3, <2>4, AtWidget, HeardAt DEF Keeps, Up
  <1>6. CASE CreateDir
    <2>1. UIInv(ui')
      BY <1>2, <1>6 DEF CreateDir, p
    <2>2. QED
      BY <1>6, <2>1 DEF Keeps, KnownLoss, Ends
  <1>7. CASE ShowGenerator
    <2> DEFINE x == [ui EXCEPT !.right = "generator", !.back = CurrentBrowser]
    <2>1. x \in UI /\ SameKeys(x, ui) /\ x.help = ui.help /\ x.right = "generator"
      BY <1>0 DEF UI, SameKeys, CurrentBrowser
    <2>2. At("scripts") /\ ui' = SetFocus("form", x) /\ status' = status
      BY <1>7 DEF ShowGenerator, Rest
    <2> HIDE DEF x
    <2>3. UIInv(x)
      BY <2>1, SameKeysInv
    <2>4. LET v == SetFocus("form", x) IN
          /\ UIInv(v) /\ SamePanels(v, x) /\ v.focus = "form"
          /\ v.right = x.right
      BY <1>0, <2>3, SetFocusInv
    <2>5. /\ UIInv(ui') /\ ui'.focus = "form" /\ ui'.help = ui.help
          /\ ui'.right = "generator"
      BY <2>1, <2>2, <2>4 DEF SamePanels
    <2>6. QED
      BY <1>0, <2>2, <2>5, AtWidget, HeardAt DEF Keeps, Up
  <1>8. CASE CancelGenerator
    <2>1. /\ ui' = IF p.back = "none" THEN p ELSE SetFocus(p.back, p)
          /\ At("form") /\ status' = status
      BY <1>8 DEF CancelGenerator, Rest, p
    <2>2. p.back \in {"tree", "files", "none"} /\ ui.left \in {"tree", "favorites"}
      BY <1>0, <1>1 DEF UI
    <2>3. CASE p.back = "none"
      BY <1>1, <1>2, <1>8, <2>1, <2>3 DEF Keeps, KnownLoss, NothingNext
    <2>4. CASE p.back = "files"
      <3>1. UIInv(ui') /\ ui'.focus = "files" /\ ui'.help = ui.help
        BY <1>0, <1>1, <1>2, <2>1, <2>4, SetFocusInv DEF SamePanels
      <3>2. QED
        BY <1>0, <2>1, <3>1, AtWidget, HeardAt DEF Keeps, Up
    <2>5. CASE p.back = "tree"
      <3>1. UIInv(ui') /\ ui'.focus = "tree" /\ ui'.left = ui.left /\ ui'.help = ui.help
        BY <1>0, <1>1, <1>2, <2>1, <2>5, SetFocusInv DEF SamePanels
      <3>2. CASE ui.left = "tree"
        BY <1>0, <2>1, <3>1, <3>2, AtWidget, HeardAt DEF Keeps, Up
      <3>3. CASE ui.left = "favorites"
        BY <1>8, <3>1, <3>3 DEF Keeps, KnownLoss, TreeIsHidden
      <3>4. QED
        BY <2>2, <3>2, <3>3
    <2>6. QED
      BY <2>2, <2>3, <2>4, <2>5
  <1>9. QED
    BY <1>3, <1>4, <1>5, <1>6, <1>7, <1>8

\* The crumbs' keys.
LEMMA CrumbKeysKeep ==
  ASSUME UIInv(ui), CrumbLeft \/ CrumbRight \/ CrumbEnter \/ CrumbDown
  PROVE  Keeps
  <1>0. /\ ui \in UI /\ ui.sel \in 0 .. (MaxDepth + 1) /\ ui.sel <= Last(ui)
        /\ ui.dir \in 0 .. MaxDepth /\ ui.next \in {"tree", "none"}
        /\ "tree" \in Widget /\ "crumbs" \in Widget /\ ui.left \in {"tree", "favorites"}
    BY DEF UIInv, UI, Dir, Widget
  <1>5. ui.focus = "crumbs" /\ ui.help = FALSE /\ status = "up"
    BY <1>0, AtWidget DEF CrumbLeft, CrumbRight, CrumbEnter, CrumbDown
  <1>1. CASE CrumbLeft \/ CrumbRight
    <2>1. PICK s \in 0 .. (MaxDepth + 1) : s <= Last(ui) /\ ui' = [ui EXCEPT !.sel = s]
      <3>1. CASE CrumbLeft
        <4>1. ui.sel - 1 \in 0 .. (MaxDepth + 1) /\ ui.sel - 1 <= Last(ui)
          BY <1>0, <3>1 DEF CrumbLeft, Last
        <4>2. QED
          BY <3>1, <4>1 DEF CrumbLeft
      <3>2. CASE CrumbRight
        <4>1. ui.sel + 1 \in 0 .. (MaxDepth + 1) /\ ui.sel + 1 <= Last(ui)
          BY <1>0, <3>2 DEF CrumbRight, Last
        <4>2. QED
          BY <3>2, <4>1 DEF CrumbRight
      <3>3. QED
        BY <1>1, <3>1, <3>2
    <2>2. status' = status
      BY <1>1 DEF CrumbLeft, CrumbRight, Rest
    <2>3. /\ ui' \in UI /\ ui'.focus = "crumbs" /\ ui'.sel = s /\ ui'.dir = ui.dir
          /\ ui'.help = FALSE
      BY <1>0, <1>5, <2>1 DEF UI
    <2>4. UIInv(ui')
      BY <2>1, <2>3 DEF UIInv, AtTheEnd, Last
    <2>5. QED
      BY <1>5, <2>2, <2>3, <2>4, HeardAt DEF Keeps
  <1>2. CASE CrumbEnter
    <2>1. CrumbDir(ui.sel) \in Dir
      BY <1>0, <1>2 DEF CrumbEnter, CrumbDir, Last, Dir
    <2>2. ui' = GoDir(CrumbDir(ui.sel), ui) /\ status' = status
      BY <1>2 DEF CrumbEnter, Going
    <2>3. UIInv(ui') /\ ui'.focus = "crumbs" /\ ui'.help = FALSE
      BY <1>5, <2>1, <2>2, GoDirInv
    <2>4. QED
      BY <1>5, <2>2, <2>3, HeardAt DEF Keeps
  <1>3. CASE CrumbDown
    <2> DEFINE b == Blurred(ui)
    <2>1. b \in UI /\ b.sel = Last(b)
      BY BlurredInv
    <2>2. /\ ui' = IF ui.next = "none" THEN [b EXCEPT !.focus = "none"] ELSE SetFocus("tree", ui)
          /\ status' = status
      BY <1>0, <1>3 DEF CrumbDown, Rest
    <2> HIDE DEF b
    <2>3. CASE ui.next = "none"
      <3>1. ui' \in UI /\ ui'.sel = Last(ui') /\ ui'.focus = "none"
        BY <2>1, <2>2, <2>3 DEF UI, Last
      <3>2. QED
        BY <1>3, <2>3, <3>1, Settled DEF Keeps, KnownLoss, NothingNext
    <2>4. CASE ui.next = "tree"
      <3>1. UIInv(ui') /\ ui'.focus = "tree" /\ ui'.left = ui.left /\ ui'.help = FALSE
        BY <1>0, <1>5, <2>2, <2>4, SetFocusInv DEF SamePanels
      <3>2. CASE ui.left = "tree"
        BY <1>5, <2>2, <3>1, <3>2, HeardAt DEF Keeps
      <3>3. CASE ui.left = "favorites"
        BY <1>3, <3>1, <3>3 DEF Keeps, KnownLoss, TreeIsHidden
      <3>4. QED
        BY <1>0, <3>2, <3>3
    <2>5. QED
      BY <1>0, <2>3, <2>4
  <1>4. QED
    BY <1>1, <1>2, <1>3

\* The mouse, and closing the help.
LEMMA ClicksKeep ==
  ASSUME UIInv(ui),
         \/ CloseHelp \/ \E w \in Widget : Click(w)
         \/ \E i \in 0 .. Last(ui) : PressCrumb(i) \/ ClickCrumb(i)
  PROVE  Keeps
  <1>0. /\ ui \in UI /\ ui.help \in BOOLEAN /\ ui.dir \in 0 .. MaxDepth /\ "tree" \in Widget
    BY DEF UIInv, UI, Dir, Widget
  <1>1. CASE CloseHelp
    <2> DEFINE x == [ui EXCEPT !.help = FALSE]
    <2>1. x \in UI /\ SameKeys(x, ui) /\ x.help = FALSE /\ x.left = ui.left
      BY <1>0 DEF UI, SameKeys
    <2>2. ui' = SetFocus("tree", x) /\ status' = status
      BY <1>1 DEF CloseHelp, Rest
    <2> HIDE DEF x
    <2>3. UIInv(ui') /\ ui'.focus = "tree" /\ ui'.left = ui.left /\ ui'.help = FALSE
      BY <1>0, <2>1, <2>2, SameKeysInv, SetFocusInv DEF SamePanels
    <2>4. CASE ui.left = "tree"
      BY <2>2, <2>3, <2>4, HeardAt DEF Keeps, Up
    <2>5. CASE ui.left = "favorites"
      BY <1>1, <2>3, <2>5 DEF Keeps, KnownLoss, TreeIsHidden
    <2>6. QED
      BY <1>0, <2>4, <2>5 DEF UI
  <1>2. ASSUME NEW w \in Widget, Click(w) PROVE Keeps
    <2>1. /\ ui' = SetFocus(w, ui) /\ status' = status /\ ui.help = FALSE
          /\ w \in Shown(ui) /\ w # "crumbs"
      BY <1>0, <1>2 DEF Click, Rest
    <2>2. /\ UIInv(ui') /\ SamePanels(ui', ui) /\ ui'.focus = w
          /\ ui'.right = IF w \in {"tree", "files"} THEN "previewer" ELSE ui.right
      BY <2>1, SetFocusInv
    <2>3. CASE w \in {"tree", "files"}
      <3>1. w = "tree" => ui.left = "tree"
        BY <1>0, <2>1 DEF Shown, UI, Previewer
      <3>2. QED
        BY <2>1, <2>2, <2>3, <3>1, HeardAt DEF Keeps, Up, SamePanels
    <2>4. CASE w \notin {"tree", "files"}
      <3>1. Shown(ui') = Shown(ui)
        BY <2>2, <2>4 DEF Shown, SamePanels
      <3>2. QED
        BY <2>1, <2>2, <3>1 DEF Keeps, Up, Heard
    <2>5. QED
      BY <2>3, <2>4
  <1>3. ASSUME NEW i \in 0 .. Last(ui), PressCrumb(i) \/ ClickCrumb(i) PROVE Keeps
    <2> DEFINE x == [ui EXCEPT !.sel = i]
               v == SetFocus("crumbs", x)
    <2>1. i \in 0 .. (MaxDepth + 1)
      BY <1>0 DEF Last
    <2>2. x \in UI /\ x.help = ui.help
      BY <1>0, <2>1 DEF UI
    <2>3. /\ ui' = v \/ (ui' = GoDir(CrumbDir(i), v) /\ i > 0)
          /\ status' = status /\ ui.help = FALSE
      BY <1>0, <1>3 DEF PressCrumb, ClickCrumb, Rest, Going
    <2> HIDE DEF x
    <2>4. UIInv(v) /\ v.help = ui.help /\ v.focus = "crumbs"
      BY <2>2, FocusCrumbsInv DEF SamePanels
    <2> HIDE DEF v
    <2>5. i > 0 => CrumbDir(i) \in Dir
      BY <1>0 DEF CrumbDir, Last, Dir
    <2>6. UIInv(ui') /\ ui'.help = ui.help /\ ui'.focus = "crumbs"
      BY <2>3, <2>4, <2>5, GoDirInv
    <2>7. QED
      BY <2>3, <2>6, HeardAt DEF Keeps, Up
  <1>4. QED
    BY <1>1, <1>2, <1>3

\* The updates of the loads.
LEMMA LoadsKeep ==
  ASSUME UIInv(ui), NEW node \in BOOLEAN, LoadSucceeds(node) \/ LoadFails(node)
  PROVE  Keeps
  <1>0. ui \in UI /\ "summary" \in Previewer
    BY DEF UIInv, Previewer
  <1>1. status' = status
    BY DEF LoadSucceeds, LoadFails, Answer
  <1>2. /\ UIInv(ui') /\ ui'.focus = ui.focus /\ ui'.left = ui.left /\ ui'.help = ui.help
        /\ ui'.form = ui.form
    <2>1. CASE LoadSucceeds(node)
      <3> DEFINE x == [ui EXCEPT !.main = "summary"]
      <3>1. /\ x \in UI /\ SameKeys(x, ui) /\ x.form = ui.form
            /\ x.focus = ui.focus /\ x.left = ui.left /\ x.help = ui.help
        BY <1>0 DEF UI, SameKeys
      <3>2. ui' \in Selections(x)
        BY <2>1 DEF LoadSucceeds
      <3> HIDE DEF x
      <3>3. UIInv(x)
        BY <3>1, SameKeysInv
      <3>4. QED
        BY <3>1, <3>2, <3>3, PreviewInv
    <2>2. CASE LoadFails(node)
      <3>1. PICK u \in Selections(ui) : ui' = [u EXCEPT !.right = "previewer"] \/ ui' = ui
        BY <2>2 DEF LoadFails, Selections
      <3>2. /\ UIInv(u) /\ u.focus = ui.focus /\ u.left = ui.left /\ u.help = ui.help
            /\ u.form = ui.form
        BY PreviewInv
      <3> DEFINE x == [u EXCEPT !.right = "previewer"]
      <3>3. /\ x \in UI /\ SameKeys(x, u) /\ x.form = u.form
            /\ x.focus = u.focus /\ x.left = u.left /\ x.help = u.help
        BY <3>2 DEF UIInv, UI, SameKeys
      <3>4. ui' = x \/ ui' = ui
        BY <3>1
      <3> HIDE DEF x
      <3>5. QED
        BY <3>2, <3>3, <3>4, SameKeysInv
    <2>3. QED
      BY <2>1, <2>2
  <1>3. CASE \/ ui.focus \in RightColumn /\ ui'.right # ui.right
             \/ ui.focus \in Previewer /\ ui'.main # ui.main
    BY <1>2, <1>3 DEF Keeps, KnownLoss, ExchangedUnder
  <1>4. CASE /\ ui.focus \in RightColumn => ui'.right = ui.right
             /\ ui.focus \in Previewer => ui'.main = ui.main
    BY <1>0, <1>1, <1>2, <1>4, Undisturbed DEF Keeps, Up, UIInv
  <1>5. QED
    BY <1>3, <1>4
-----------------------------------------------------------------------------
(* The invariant, and what follows from it.                                 *)

\* Every step keeps the invariant, and the keyboard but for the known losses.
LEMMA StepKeeps ==
  ASSUME PanelsInv, Next
  PROVE  Keeps
  BY GlobalKeysKeep, BrowserKeysKeep, FavoritesKeep, RightKeysKeep, CrumbKeysKeep, ClicksKeep,
     LoadsKeep
     DEF Next, PanelsInv, TypeOK

\* The rest of the state.
LEMMA RestTyped ==
  ASSUME PanelsInv, Next
  PROVE  /\ items' \subseteq Dir /\ loading' \in BOOLEAN
         /\ loads' \in [BOOLEAN -> 0 .. MaxLoads]
         /\ status' \in {"up", "stuck", "crashed"} /\ search' \in BOOLEAN
  <1>0. /\ search \in BOOLEAN /\ items \subseteq Dir /\ loading \in BOOLEAN /\ ui.dir \in Dir
        /\ loads \in [BOOLEAN -> 0 .. MaxLoads]
        /\ status \in {"up", "stuck", "crashed"}
    BY DEF PanelsInv, TypeOK, UI
  <1>1. ASSUME NEW node \in BOOLEAN, Load(node) PROVE loads' \in [BOOLEAN -> 0 .. MaxLoads]
    <2> DEFINE t == loads[TRUE]
               f == loads[FALSE]
    <2>1. t \in 0 .. MaxLoads /\ f \in 0 .. MaxLoads
      BY <1>0
    <2>2. loads[node] + 1 \in 0 .. MaxLoads
      <3>1. t + f < MaxLoads
        BY <1>1 DEF Load
      <3> HIDE DEF t, f
      <3>2. t + 1 \in 0 .. MaxLoads /\ f + 1 \in 0 .. MaxLoads
        BY <2>1, <3>1
      <3>3. node = TRUE \/ node = FALSE
        OBVIOUS
      <3>4. QED
        BY Zenon, <3>2, <3>3 DEF t, f
    <2>3. QED
      BY <1>0, <1>1, <2>2 DEF Load
  <1>2. ASSUME NEW node \in BOOLEAN, Answer(node) PROVE loads' \in [BOOLEAN -> 0 .. MaxLoads]
    BY <1>0, <1>2 DEF Answer
  <1>3. ASSUME NEW node \in BOOLEAN, NEW d, LoadIf(node, d)
        PROVE  loads' \in [BOOLEAN -> 0 .. MaxLoads]
    BY <1>0, <1>1, <1>3 DEF LoadIf
  <1>4. ASSUME NEW fs \in SUBSET Dir, SetItems(fs)
        PROVE  items' \subseteq Dir /\ loads' \in [BOOLEAN -> 0 .. MaxLoads]
    BY <1>3, <1>4 DEF SetItems
  <1>5. CASE /\ UNCHANGED <<items, loading, loads>> /\ search' \in BOOLEAN
             /\ status' \in {"up", "stuck", "crashed"}
    BY <1>0, <1>5
  <1>6. CASE \/ ShowHelp \/ CloseHelp \/ ShowNewPanel \/ DeleteNothing \/ ShowScripts \/ ShowMasks
             \/ ShowFavorites \/ TreeRight \/ TreeUp \/ SelectEntry \/ FilesLeft \/ FilesRight
             \/ PreviewerLeft \/ ListLeft \/ ListTab \/ ButtonEscape \/ InputTab \/ InputEscape
             \/ CreateFile \/ CreateDir \/ ShowGenerator \/ CancelGenerator
             \/ CrumbLeft \/ CrumbRight \/ CrumbDown
             \/ TypeLetter \/ ClearSearch \/ Backspace \/ BackspaceOnNothing
             \/ \E w \in Widget : Click(w)
             \/ \E i \in 0 .. Last(ui) : PressCrumb(i)
    BY <1>0, <1>5, <1>6
       DEF ShowHelp, CloseHelp, ShowNewPanel, DeleteNothing, ShowScripts, ShowMasks,
           ShowFavorites, TreeRight, TreeUp, SelectEntry, FilesLeft, FilesRight, PreviewerLeft,
           ListLeft, ListTab, ButtonEscape, InputTab, InputEscape, CreateFile, CreateDir,
           ShowGenerator, CancelGenerator, CrumbLeft, CrumbRight, CrumbDown, Click, PressCrumb,
           TypeLetter, ClearSearch, Backspace, BackspaceOnNothing, Searching, Rest
  <1>7. CASE \/ GoRootOrHome \/ OpenDir \/ CrumbEnter \/ OpenFavorite(ui.prev)
             \/ \E i \in 0 .. Last(ui) : ClickCrumb(i)
             \/ \E d \in items : OpenFavorite(d)
    BY <1>0, <1>1, <1>7 DEF GoRootOrHome, OpenDir, CrumbEnter, ClickCrumb, OpenFavorite, Going
  <1>8. CASE SelectNode \/ \E d \in items : PreviewFavorite(d)
    BY <1>0, <1>3, <1>8 DEF SelectNode, PreviewFavorite
  <1>9. CASE AddCurrentFavorite \/ FavoritesLoaded \/ \E d \in items : DeleteFavorite(d)
    <2>1. \E fs \in SUBSET Dir : SetItems(fs)
      BY <1>0, <1>9 DEF AddCurrentFavorite, FavoritesLoaded, DeleteFavorite
    <2>2. QED
      BY <1>0, <1>4, <1>9, <2>1 DEF AddCurrentFavorite, FavoritesLoaded, DeleteFavorite
  <1>10. CASE \E node \in BOOLEAN : LoadSucceeds(node) \/ LoadFails(node)
    BY <1>0, <1>2, <1>10 DEF LoadSucceeds, LoadFails, Answer
  <1>11. QED
    BY <1>6, <1>7, <1>8, <1>9, <1>10 DEF Next, Escape

\* The invariant holds of every state.
THEOREM PanelsInvariant == Spec => []PanelsInv
  <1>1. Init => PanelsInv
    <2>1. SUFFICES ASSUME Init PROVE PanelsInv
      OBVIOUS
    <2>2. PICK d \in Dir, p \in Previewer \cup {"none"} :
            ui = [focus |-> "tree", left |-> "tree", right |-> "previewer", main |-> p,
                  help |-> FALSE, form |-> FALSE, col |-> 0, back |-> "none",
                  dir |-> d, prev |-> d, sel |-> d + 1, next |-> "none"]
      BY <2>1 DEF Init
    <2>3. /\ ui \in UI /\ ui.sel = Last(ui) /\ ui.focus = "tree" /\ ui.col = 0
          /\ ui.sel <= Last(ui)
      BY <2>2, Crumbs, Columns DEF UI, Last, Widget
    <2>4. UIInv(ui)
      BY <2>3, Settled
    <2>5. 0 \in Dir /\ loads \in [BOOLEAN -> 0 .. MaxLoads]
      BY <2>1 DEF Init, Dir
    <2>6. QED
      BY <2>1, <2>3, <2>4, <2>5 DEF Init, PanelsInv, TypeOK
  <1>2. PanelsInv /\ [Next]_vars => PanelsInv'
    <2>1. SUFFICES ASSUME PanelsInv, [Next]_vars PROVE PanelsInv'
      OBVIOUS
    <2>2. CASE Next
      <3>1. UIInv(ui')
        BY <2>1, <2>2, StepKeeps DEF Keeps
      <3>2. QED
        BY <2>1, <2>2, <3>1, RestTyped DEF PanelsInv, TypeOK, UIInv, AtTheEnd, Last
    <2>3. CASE UNCHANGED vars
      BY <2>1, <2>3 DEF PanelsInv, TypeOK, UIInv, AtTheEnd, Last, vars
    <2>4. QED
      BY <2>1, <2>2, <2>3
  <1>3. QED
    BY <1>1, <1>2, PTL DEF Spec

(* For directories of any depth and any number of loads under way the       *)
(* layout is one of those the code can show, and the crumbs' selection is a *)
(* crumb.                                                                   *)
THEOREM PanelsTypes == Spec => []TypeOK
  <1>1. PanelsInv => TypeOK
    BY DEF PanelsInv
  <1>2. QED
    BY <1>1, PanelsInvariant, PTL

(* Wherever keys are heard, no key, click or answer ends or blocks the      *)
(* program or leaves the focus where no key is heard, but for the steps of  *)
(* KnownLoss.                                                               *)
THEOREM PanelsKeepKeyboard == Spec => KeepsKeyboard
  <1>1. PanelsInv /\ [Next]_vars =>
          [Up /\ Heard(ui) => (status' = "up" /\ Heard(ui')) \/ KnownLoss]_vars
    BY StepKeeps DEF Keeps
  <1>2. QED
    BY <1>1, PanelsInvariant, PTL DEF Spec, KeepsKeyboard

(* Up at the tree's root selects the crumb of the parent directory.         *)
THEOREM PanelsUpSelectsParent == Spec => UpSelectsParent
  <1>1. ASSUME PanelsInv, TreeUp PROVE CrumbDir(ui'.sel) = ui.dir - 1
    <2> DEFINE x == [ui EXCEPT !.next = "tree", !.sel = @ - 1]
    <2>1. ui \in UI /\ ui.focus = "tree" /\ ui.sel = ui.dir + 1 /\ ui.dir \in 0 .. MaxDepth
      BY <1>1 DEF TreeUp, At, PanelsInv, UIInv, AtTheEnd, UI, Last, Dir
    <2>2. ui.sel - 1 \in 0 .. (MaxDepth + 1) /\ ui.sel - 1 = ui.dir
      BY <2>1
    <2>3. x \in UI /\ x.focus = "tree" /\ x.sel = ui.dir /\ x.dir = ui.dir
      BY <2>1, <2>2 DEF UI
    <2>4. ui' = SetFocus("crumbs", x)
      BY <1>1 DEF TreeUp
    <2> HIDE DEF x
    <2>5. ui'.sel = IF x.sel >= Last(x) THEN Last(x) - 1 ELSE x.sel
      BY <2>3, <2>4, FocusCrumbsInv
    <2>6. QED
      BY <2>1, <2>3, <2>5 DEF CrumbDir, Last
  <1>2. PanelsInv /\ [Next]_vars => [TreeUp => CrumbDir(ui'.sel) = ui.dir - 1]_vars
    BY <1>1
  <1>3. QED
    BY <1>2, PanelsInvariant, PTL DEF Spec, UpSelectsParent
=============================================================================
