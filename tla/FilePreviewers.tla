---------------------------- MODULE FilePreviewers ----------------------------
(***************************************************************************)
(* Previews of files: the previewer panel (pkg/filetug/previewer_panel.go) *)
(* and the previewers of pkg/viewers it chooses by the file's name.  The   *)
(* panel keeps the current previewer as long as the kind of file stays the *)
(* same, and each preview reads its file in a goroutine, so that an older  *)
(* result may arrive after a newer one.                                    *)
(*                                                                         *)
(* What a previewer draws is "the preview of that file", or its error.     *)
(* Directories have a previewer of their own: see DirPreviewer.            *)
(***************************************************************************)
EXTENDS Integers, FiniteSets

CONSTANTS
  Entry,        \* files and directories that can be selected
  KindOf,       \* [Entry -> Kind]: by name and extension
  MaxPreviews,  \* bound on the number of previews
  None

Kind == {"text", "markdown", "json", "dsstore", "image", "dir"}

View == [kind : Kind, by : Nat]
Drawing == [entry : Entry, failed : BOOLEAN]

ASSUME PreviewersAssumption ==
  /\ KindOf \in [Entry -> Kind]
  /\ MaxPreviews \in Nat
  /\ None \notin Entry \cup View \cup Drawing

VARIABLES
  title,        \* the entry the panel was last told to preview
  view,         \* p.previewer: its kind and the preview that created it
  drawn,        \* what p.previewer draws: an entry, and whether as an error
  counter,      \* TextPreviewer.previewID of p.previewer
  jobs,         \* goroutines of PreviewSingle that have not delivered
  previews      \* number of previews so far; identifies goroutines

vars == <<title, view, drawn, counter, jobs, previews>>

\* The previewers that compare previewID before they draw.  The counter of a
\* JsonPreviewer or a DsstorePreviewer is copied with its value receiver, so
\* that a goroutine of theirs compares a counter no other preview changes;
\* the image previewer has none.
Guarded == {"text", "markdown"}

Job == [id : Nat, by : Nat, kind : Kind, entry : Entry, ticket : Nat]

Init ==
  /\ title = None
  /\ view = None
  /\ drawn = None
  /\ counter = 0
  /\ jobs = {}
  /\ previews = 0

-----------------------------------------------------------------------------
Reused(e) == view # None /\ view.kind = KindOf[e]

\* getFilePreviewer: the current previewer again, or a new one.  There is only
\* one previewer of directories.
SetPreviewer(e) ==
  view' = IF Reused(e) THEN view
          ELSE [kind |-> KindOf[e], by |-> IF KindOf[e] = "dir" THEN 0 ELSE previews']

Blank(e) == IF Reused(e) THEN drawn ELSE None
CountOn(e) == counter  \* mutant of Count: a new previewer goes on counting

Count(e) == IF Reused(e) THEN counter ELSE 0

Spawn(e, ticket) ==
  jobs' = jobs \cup {[id |-> previews', by |-> view'.by, kind |-> KindOf[e], entry |-> e,
                      ticket |-> ticket]}

LateTicket(e) ==  \* mutant of PreviewText: the number is taken before it is raised
  /\ KindOf[e] \in Guarded
  /\ counter' = Count(e) + 1
  /\ drawn' = Blank(e)
  /\ Spawn(e, Count(e))

\* TextPreviewer.PreviewSingle and MarkdownPreviewer.PreviewSingle.
PreviewText(e) ==
  /\ KindOf[e] \in Guarded
  /\ counter' = Count(e) + 1
  /\ drawn' = Blank(e)
  /\ Spawn(e, Count(e) + 1)

\* JsonPreviewer reads and formats the file in the event loop, and then has it
\* coloured by the TextPreviewer of a copy of itself.
PreviewJson(e) ==
  /\ KindOf[e] = "json"
  /\ counter' = Count(e)
  /\ drawn' = Blank(e)
  /\ Spawn(e, Count(e) + 1)

\* So does DsstorePreviewer; a file it cannot read leaves everything as it is,
\* one it cannot parse is reported at once.
PreviewDsstore(e) ==
  /\ KindOf[e] = "dsstore"
  /\ counter' = Count(e)
  /\ \/ drawn' = Blank(e) /\ UNCHANGED jobs
     \/ drawn' = [entry |-> e, failed |-> TRUE] /\ UNCHANGED jobs
     \/ drawn' = Blank(e) /\ Spawn(e, Count(e) + 1)

PreviewImage(e) ==
  /\ KindOf[e] = "image"
  /\ counter' = Count(e)
  /\ drawn' = Blank(e)
  /\ Spawn(e, 0)

\* The directory previewer takes over, and nothing of a file is drawn.
PreviewDir(e) ==
  /\ KindOf[e] = "dir"
  /\ counter' = 0
  /\ drawn' = None
  /\ UNCHANGED jobs

\* previewerPanel.PreviewEntry.
PreviewEntry(e) ==
  /\ previews < MaxPreviews
  /\ previews' = previews + 1
  /\ title' = e
  /\ SetPreviewer(e)
  /\ \/ PreviewText(e) \/ PreviewJson(e) \/ PreviewDsstore(e) \/ PreviewImage(e)
     \/ PreviewDir(e)

-----------------------------------------------------------------------------
AlwaysCurrent(j) == view # None /\ j.by = view.by  \* mutant of IsCurrent

\* The previewer of j is on the panel, and takes j's result.
IsCurrent(j) ==
  /\ view # None /\ j.by = view.by
  /\ j.kind \in Guarded => j.ticket = counter

\* The goroutine has read its file, or failed, and its update runs.  The image
\* previewer draws nothing for a file that is no image.
Deliver(j) ==
  /\ jobs' = jobs \ {j}
  /\ \E failed \in BOOLEAN :
       drawn' = IF ~IsCurrent(j) \/ (failed /\ j.kind = "image") THEN drawn
                ELSE [entry |-> j.entry, failed |-> failed]
  /\ UNCHANGED <<title, view, counter, previews>>

Next ==
  \/ \E e \in Entry : PreviewEntry(e)
  \/ \E j \in jobs : Deliver(j)

Spec == Init /\ [][Next]_vars

-----------------------------------------------------------------------------
TypeOK ==
  /\ title \in Entry \cup {None}
  /\ view \in View \cup {None}
  /\ drawn \in Drawing \cup {None}
  /\ counter \in Nat
  /\ counter # 0 => view # None /\ view.kind \in Guarded
  /\ jobs \subseteq Job
  /\ previews \in 0 .. MaxPreviews

OnText == view # None /\ view.kind \in Guarded

(* When the goroutine of the last preview is done, a text or markdown       *)
(* previewer draws the entry of the panel's title.                          *)
TextSettles ==
  (OnText /\ \A j \in jobs : j.id # previews) => drawn # None /\ drawn.entry = title

(* Until then it draws what it drew before: the result of a preview that    *)
(* was superseded is never drawn, whenever it comes.                        *)
NeverSuperseded ==
  [][OnText /\ view' = view /\ drawn' # drawn => drawn'.entry = title']_vars
=============================================================================
