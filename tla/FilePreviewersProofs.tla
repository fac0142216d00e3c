------------------------- MODULE FilePreviewersProofs -------------------------
(***************************************************************************)
(* The text and markdown previewers never show a superseded preview, for   *)
(* any files and any number of previews under way.                         *)
(***************************************************************************)
EXTENDS FilePreviewers, TLAPS

(* The inductive invariant.  Goroutines and previewers carry numbers of     *)
(* previews that were; on a text or markdown previewer, the goroutines that *)
(* write there have tickets up to the counter, only the last preview's has  *)
(* the counter itself, and when that one is done its entry is drawn.        *)
Numbered ==
  /\ \A j \in jobs : j.id <= previews /\ j.by <= previews
  /\ view # None => view.by <= previews

TicketsOfView ==
  OnText => \A j \in jobs :
    /\ j.by = view.by => j.kind \in Guarded /\ j.ticket <= counter
    /\ j.by = view.by /\ j.ticket = counter => j.id = previews
    /\ j.id = previews => j.by = view.by /\ j.ticket = counter /\ j.entry = title

PreviewsInv == TypeOK /\ Numbered /\ TicketsOfView /\ TextSettles

USE PreviewersAssumption

\* The invariant holds when nothing has been previewed.
LEMMA PreviewsInit == Init => PreviewsInv
  <1> SUFFICES ASSUME Init PROVE PreviewsInv
    OBVIOUS
  <1>1. TypeOK
    BY DEF Init, TypeOK
  <1>2. Numbered /\ TicketsOfView /\ TextSettles
    BY DEF Init, Numbered, TicketsOfView, TextSettles, OnText
  <1>3. QED
    BY <1>1, <1>2 DEF PreviewsInv

\* The previewer a preview goes to: the one on the panel, or one that no
\* goroutine writes to yet.
LEMMA NextView ==
  ASSUME NEW e \in Entry, TypeOK, Numbered, previews' = previews + 1, SetPreviewer(e)
  PROVE  /\ view' \in View
         /\ view'.kind = KindOf[e]
         /\ view'.by <= previews'
         /\ Reused(e) => view' = view
         /\ (~Reused(e) /\ KindOf[e] # "dir") => view'.by = previews + 1
  <1>1. KindOf[e] \in Kind /\ previews \in Nat
    BY DEF TypeOK
  <1>2. CASE Reused(e)
    BY <1>1, <1>2 DEF SetPreviewer, Reused, TypeOK, Numbered, View
  <1>3. CASE ~Reused(e)
    BY <1>1, <1>3 DEF SetPreviewer, View
  <1>4. QED
    BY <1>2, <1>3

\* A preview keeps the types, whatever kind of file it is of.
LEMMA PreviewTypes ==
  ASSUME NEW e \in Entry, TypeOK, Numbered, PreviewEntry(e)
  PROVE  TypeOK' /\ Numbered'
  <1>1. /\ previews < MaxPreviews /\ previews' = previews + 1
        /\ title' = e /\ SetPreviewer(e)
    BY DEF PreviewEntry
  <1>2. /\ view' \in View /\ view'.kind = KindOf[e] /\ view'.by <= previews'
    BY <1>1, NextView
  <1>3. /\ KindOf[e] \in Kind /\ previews \in Nat /\ view'.by \in Nat
        /\ title' \in Entry /\ previews' \in 0 .. MaxPreviews
    BY <1>1, <1>2 DEF TypeOK, View
  <1>4. Blank(e) \in Drawing \cup {None} /\ Count(e) \in Nat
    BY DEF TypeOK, Blank, Count
  <1>5. KindOf[e] \notin Guarded => Count(e) = 0
    BY DEF TypeOK, Count, Reused
  <1>6. view' # None /\ (view'.kind \in Guarded <=> KindOf[e] \in Guarded)
    <2>1. CASE Reused(e)
      BY <2>1, <1>1, <1>2 DEF SetPreviewer, Reused
    <2>2. CASE ~Reused(e)
      BY <2>2, <1>1, <1>2 DEF SetPreviewer, View
    <2>3. QED
      BY <2>1, <2>2
  <1>7. /\ drawn' \in Drawing \cup {None} /\ counter' \in Nat
        /\ counter' # 0 => KindOf[e] \in Guarded
        /\ \/ jobs' = jobs
           \/ \E t \in Nat : Spawn(e, t)
    <2>1. CASE PreviewText(e)
      BY <2>1, <1>4 DEF PreviewText
    <2>2. CASE PreviewJson(e)
      BY <2>2, <1>4, <1>5 DEF PreviewJson, Guarded
    <2>3. CASE PreviewDsstore(e)
      <3>1. KindOf[e] = "dsstore" /\ counter' = 0
        BY <2>3, <1>5 DEF PreviewDsstore, Guarded
      <3>2. [entry |-> e, failed |-> TRUE] \in Drawing
        BY DEF Drawing
      <3>3. drawn' \in Drawing \cup {None}
        BY <2>3, <3>2, <1>4 DEF PreviewDsstore
      <3>4. jobs' = jobs \/ Spawn(e, Count(e) + 1)
        BY <2>3 DEF PreviewDsstore
      <3>5. QED
        BY <3>1, <3>3, <3>4, <1>4
    <2>4. CASE PreviewImage(e)
      BY <2>4, <1>4, <1>5 DEF PreviewImage, Guarded
    <2>5. CASE PreviewDir(e)
      BY <2>5 DEF PreviewDir
    <2>6. QED
      BY <2>1, <2>2, <2>3, <2>4, <2>5 DEF PreviewEntry
  <1>8. \A j \in jobs' : j \in Job /\ j.id <= previews' /\ j.by <= previews'
    <2>1. \A j \in jobs : j \in Job /\ j.id <= previews' /\ j.by <= previews'
      BY <1>1, <1>3 DEF TypeOK, Numbered, Job
    <2>2. CASE jobs' = jobs
      BY <2>1, <2>2
    <2>3. ASSUME NEW t \in Nat, Spawn(e, t)
          PROVE  \A j \in jobs' : j \in Job /\ j.id <= previews' /\ j.by <= previews'
      BY <2>1, <2>3, <1>1, <1>2, <1>3 DEF Spawn, Job
    <2>4. QED
      BY <2>2, <2>3, <1>7
  <1>9. TypeOK'
    BY <1>2, <1>3, <1>6, <1>7, <1>8 DEF TypeOK
  <1>10. Numbered'
    BY <1>2, <1>8 DEF Numbered
  <1>11. QED
    BY <1>9, <1>10

\* A preview keeps the order of tickets.
LEMMA PreviewTickets ==
  ASSUME NEW e \in Entry, PreviewsInv, PreviewEntry(e)
  PROVE  TicketsOfView' /\ TextSettles'
  <1> USE DEF PreviewsInv
  <1>1. previews' = previews + 1 /\ title' = e /\ SetPreviewer(e) /\ previews \in Nat
    BY DEF PreviewEntry, TypeOK
  <1>2. /\ view' \in View /\ view'.kind = KindOf[e]
        /\ Reused(e) => view' = view
        /\ (~Reused(e) /\ KindOf[e] # "dir") => view'.by = previews + 1
    BY <1>1, NextView
  <1>3. CASE KindOf[e] \notin Guarded
    <2>1. ~OnText'
      BY <1>2, <1>3 DEF OnText
    <2>2. QED
      BY <2>1 DEF TicketsOfView, TextSettles
  <1>4. CASE KindOf[e] \in Guarded
    <2>1. PreviewText(e)
      BY <1>4 DEF PreviewEntry, PreviewJson, PreviewDsstore, PreviewImage, PreviewDir, Guarded
    <2>2. counter' = Count(e) + 1 /\ Spawn(e, Count(e) + 1) /\ Count(e) \in Nat
      BY <2>1 DEF PreviewText, Count, TypeOK
    <2> DEFINE new == [id |-> previews', by |-> view'.by, kind |-> KindOf[e], entry |-> e,
                       ticket |-> counter']
    <2>3. jobs' = jobs \cup {new}
      BY <2>2 DEF Spawn
    <2>4. \A j \in jobs : j.id \in Nat /\ j.id # previews' /\ j.ticket \in Nat
      BY <1>1 DEF TypeOK, Numbered, Job
    <2>5. \A j \in jobs : j.by = view'.by => j.kind \in Guarded /\ j.ticket < counter'
      <3>1. CASE Reused(e)
        <4>1. OnText /\ Count(e) = counter /\ view' = view
          BY <3>1, <1>2, <1>4 DEF OnText, Reused, Count
        <4>2. \A j \in jobs : j.by = view.by => j.kind \in Guarded /\ j.ticket <= counter
          BY <4>1 DEF TicketsOfView
        <4>3. QED
          BY <4>1, <4>2, <2>2, <2>4
      <3>2. CASE ~Reused(e)
        <4>1. view'.by = previews + 1
          BY <3>2, <1>2, <1>4 DEF Guarded
        <4>2. \A j \in jobs : j.by \in Nat /\ j.by <= previews
          BY DEF TypeOK, Numbered, Job
        <4>3. QED
          BY <4>1, <4>2, <1>1
      <3>3. QED
        BY <3>1, <3>2
    <2>6. TicketsOfView'
      <3> SUFFICES ASSUME NEW j \in jobs'
                   PROVE  /\ j.by = view'.by => j.kind \in Guarded /\ j.ticket <= counter'
                          /\ j.by = view'.by /\ j.ticket = counter' => j.id = previews'
                          /\ j.id = previews' => /\ j.by = view'.by
                                                 /\ j.ticket = counter' /\ j.entry = title'
        BY DEF TicketsOfView
      <3>1. CASE j = new
        BY <3>1, <2>2, <1>1, <1>4
      <3>2. CASE j \in jobs
        BY <3>2, <2>2, <2>4, <2>5
      <3>3. QED
        BY <3>1, <3>2, <2>3
    <2>7. TextSettles'
      <3>1. new \in jobs' /\ new.id = previews'
        BY <2>3
      <3>2. QED
        BY <3>1 DEF TextSettles
    <2>8. QED
      BY <2>6, <2>7
  <1>5. QED
    BY <1>3, <1>4
\* The goroutine of a preview delivers: a text or markdown previewer takes
\* the result of the last preview, and no other.
LEMMA Delivered ==
  ASSUME PreviewsInv, NEW j \in jobs, Deliver(j), OnText
  PROVE  /\ j.id = previews => drawn' # None /\ drawn'.entry = title
         /\ drawn' # drawn => drawn' # None /\ drawn'.entry = title
  <1> USE DEF PreviewsInv
  <1>1. PICK failed \in BOOLEAN :
          drawn' = IF ~IsCurrent(j) \/ (failed /\ j.kind = "image") THEN drawn
                   ELSE [entry |-> j.entry, failed |-> failed]
    BY DEF Deliver
  <1>2. j \in Job /\ [entry |-> j.entry, failed |-> failed] \in Drawing
    BY DEF TypeOK, Job, Drawing
  <1>3. /\ j.by = view.by => j.kind \in Guarded
        /\ j.by = view.by /\ j.ticket = counter => j.id = previews
        /\ j.id = previews => j.by = view.by /\ j.ticket = counter /\ j.entry = title
    BY DEF TicketsOfView
  <1>4. IsCurrent(j) => j.id = previews
    BY <1>3 DEF IsCurrent
  <1>5. j.id = previews => IsCurrent(j) /\ j.kind # "image"
    BY <1>3 DEF IsCurrent, OnText, Guarded
  <1>6. CASE IsCurrent(j)
    <2>1. drawn' = [entry |-> j.entry, failed |-> failed] /\ j.entry = title
      BY <1>1, <1>3, <1>4, <1>5, <1>6
    <2>2. QED
      BY <2>1, <1>2
  <1>7. CASE ~IsCurrent(j)
    BY <1>1, <1>5, <1>7
  <1>8. QED
    BY <1>6, <1>7

\* Delivery keeps the invariant, whichever previewer is on the panel.
LEMMA DeliverKeeps ==
  ASSUME PreviewsInv, NEW j \in jobs, Deliver(j)
  PROVE  PreviewsInv'
  <1> USE DEF PreviewsInv
  <1>1. jobs' = jobs \ {j} /\ UNCHANGED <<title, view, counter, previews>>
    BY DEF Deliver
  <1>2. drawn' \in Drawing \cup {None}
    BY DEF Deliver, TypeOK, Job, Drawing
  <1>3. TypeOK' /\ Numbered'
    BY <1>1, <1>2 DEF TypeOK, Numbered
  <1>4. OnText' <=> OnText
    BY <1>1 DEF OnText
  <1>5. TicketsOfView'
    BY <1>1, <1>4 DEF TicketsOfView
  <1>6. TextSettles'
    <2> SUFFICES ASSUME OnText, \A k \in jobs' : k.id # previews
                 PROVE  drawn' # None /\ drawn'.entry = title
      BY <1>1, <1>4 DEF TextSettles
    <2>1. CASE j.id = previews
      BY <2>1, Delivered
    <2>2. CASE j.id # previews
      <3>1. drawn # None /\ drawn.entry = title
        BY <2>2, <1>1 DEF TextSettles
      <3>2. QED
        BY <3>1, <1>2, Delivered
    <2>3. QED
      BY <2>1, <2>2
  <1>7. QED
    BY <1>3, <1>5, <1>6

\* Every step keeps the invariant.
LEMMA PreviewsStep == PreviewsInv /\ [Next]_vars => PreviewsInv'
  <1> SUFFICES ASSUME PreviewsInv, [Next]_vars PROVE PreviewsInv'
    OBVIOUS
  <1>1. ASSUME NEW e \in Entry, PreviewEntry(e) PROVE PreviewsInv'
    BY <1>1, PreviewTypes, PreviewTickets DEF PreviewsInv
  <1>2. ASSUME NEW j \in jobs, Deliver(j) PROVE PreviewsInv'
    BY <1>2, DeliverKeeps
  <1>3. CASE UNCHANGED vars
    BY <1>3 DEF vars, PreviewsInv, TypeOK, Numbered, TicketsOfView, TextSettles, OnText
  <1>4. QED
    BY <1>1, <1>2, <1>3 DEF Next

\* What is drawn by a text or markdown previewer that stays on the panel is
\* drawn by the goroutine of the last preview.
LEMMA DrawsLast ==
  PreviewsInv /\ [Next]_vars
    => (OnText /\ view' = view /\ drawn' # drawn => drawn'.entry = title')
  <1> SUFFICES ASSUME PreviewsInv, [Next]_vars, OnText, view' = view, drawn' # drawn
               PROVE  drawn'.entry = title'
    OBVIOUS
  <1>1. ASSUME NEW e \in Entry, PreviewEntry(e) PROVE FALSE
    <2>1. previews' = previews + 1 /\ SetPreviewer(e) /\ previews \in Nat
      BY <1>1 DEF PreviewEntry, PreviewsInv, TypeOK
    <2>2. view'.kind = KindOf[e] /\ (~Reused(e) /\ KindOf[e] # "dir" => view'.by = previews + 1)
      BY <2>1, NextView DEF PreviewsInv
    <2>3. KindOf[e] \in Guarded /\ Reused(e)
      BY <2>2 DEF OnText, Reused
    <2>4. PreviewText(e)
      BY <2>3, <1>1
      DEF PreviewEntry, PreviewJson, PreviewDsstore, PreviewImage, PreviewDir, Guarded
    <2>5. QED
      BY <2>3, <2>4 DEF PreviewText, Blank
  <1>2. ASSUME NEW j \in jobs, Deliver(j) PROVE drawn'.entry = title'
    <2>1. title' = title
      BY <1>2 DEF Deliver
    <2>2. QED
      BY <2>1, <1>2, Delivered
  <1>3. CASE UNCHANGED vars
    BY <1>3 DEF vars
  <1>4. QED
    BY <1>1, <1>2, <1>3 DEF Next

(* The invariant holds in every state.                                      *)
LEMMA PreviewsAlways == Spec => []PreviewsInv
  BY PreviewsInit, PreviewsStep, PTL DEF Spec

(* The variables keep their types.                                          *)
THEOREM PreviewsTypes == Spec => []TypeOK
  <1>1. PreviewsInv => TypeOK
    BY DEF PreviewsInv
  <1>2. QED
    BY <1>1, PreviewsAlways, PTL

(* A text or markdown previewer whose last preview is done draws the entry  *)
(* of the title, however many earlier previews are still under way.         *)
THEOREM TextAlwaysSettles == Spec => []TextSettles
  <1>1. PreviewsInv => TextSettles
    BY DEF PreviewsInv
  <1>2. QED
    BY <1>1, PreviewsAlways, PTL

(* And it never draws anything else in the meantime.                        *)
THEOREM TextNeverSuperseded == Spec => NeverSuperseded
  <1>1. QED
    BY DrawsLast, PreviewsAlways, PTL DEF Spec, NeverSuperseded
=============================================================================
