------------------------------ MODULE FilesPanel ------------------------------
(***************************************************************************)
(* What the navigator promises to the user of the files panel: every       *)
(* request for a directory makes it the current one and is answered at     *)
(* most once, in any order; an answer is a listing of the directory asked  *)
(* for, or an empty one that says that reading failed, or nothing; the     *)
(* panel holds the last answer; what it draws is what it holds, or no      *)
(* listing at all; and the answer to the last request is always for the    *)
(* current directory.                                                      *)
(***************************************************************************)
EXTENDS Naturals

CONSTANTS
  Request,    \* numbered requests for directories
  Listing,    \* listings; each knows the number of the request it answers
  None

VARIABLES
  dir,        \* the current directory
  last,       \* the number of the last request
  asked,      \* requests that are not answered
  panel,      \* the listing that the panel's keys act on, or None
  drawn       \* the listing on the screen, or None

panelVars == <<dir, last, asked, panel, drawn>>

PanelInit ==
  /\ dir = None
  /\ last = 0
  /\ asked = {}
  /\ panel = None
  /\ drawn = None

-----------------------------------------------------------------------------
\* Numbers grow.  Asking may replace the listing on the screen by a note.
Ask(q) ==
  /\ q.id > last
  /\ dir' = q.dir
  /\ last' = q.id
  /\ asked' = asked \cup {q}
  /\ drawn' \in {drawn, None}
  /\ UNCHANGED panel

\* When reading failed and something else has been asked for, the empty
\* listing may be for another directory.
Answer(q) ==
  /\ asked' = asked \ {q}
  /\ panel' \in Listing /\ panel'.by = q.id
  /\ panel'.ctx.dir = q.dir \/ (panel'.failed /\ q.id # last)
  /\ drawn' = panel'
  /\ UNCHANGED <<dir, last>>

\* Nothing is shown: a directory that could not be read, outside of the tree.
Silence(q) ==
  /\ asked' = asked \ {q}
  /\ UNCHANGED <<dir, last, panel, drawn>>

\* A note hides the listing.
Cover ==
  /\ drawn' = None
  /\ UNCHANGED <<dir, last, asked, panel>>

\* The listing is drawn once more, perhaps over a note.
Redraw ==
  /\ panel # None
  /\ drawn' = panel
  /\ UNCHANGED <<dir, last, asked, panel>>

PanelNext ==
  \/ \E q \in Request : Ask(q)
  \/ \E q \in asked : Answer(q) \/ Silence(q)
  \/ Cover
  \/ Redraw

PanelSpec == PanelInit /\ [][PanelNext]_panelVars
=============================================================================
