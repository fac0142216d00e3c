---------------------------- MODULE StatusService ----------------------------
(***************************************************************************)
(* What the pool of git status workers promises to those who submit        *)
(* requests, to the one who closes it, and to the repositories: a request  *)
(* is accepted or refused, once; an accepted one waits in a bounded place, *)
(* is served by a worker and is answered, in this order and once; the      *)
(* repositories are read as StatusGate says; and after the Close that      *)
(* shuts the pool down, no worker serves a request or reads.               *)
(***************************************************************************)
EXTENDS StatusGate

CONSTANTS
  Worker,     \* the callers that belong to the pool
  Request     \* requests for a status

VARIABLES
  reply,      \* [Request -> what Submit returned]
  place,      \* [Request -> where the request is]
  shut        \* has Close returned to the caller that shut the pool down?

serviceVars == <<reading, reply, place, shut>>

At(p) == {q \in Request : place[q] = p}

ServiceInit ==
  /\ Init
  /\ reply = [q \in Request |-> "none"]
  /\ place = [q \in Request |-> "outside"]
  /\ shut = FALSE

-----------------------------------------------------------------------------
Accept(q) ==
  /\ ~shut
  /\ reply[q] = "none"
  /\ place[q] = "outside"
  /\ Cardinality(At("queued")) < 2 * Cardinality(Worker)
  /\ reply' = [reply EXCEPT ![q] = "accepted"]
  /\ place' = [place EXCEPT ![q] = "queued"]
  /\ UNCHANGED <<reading, shut>>

Refuse(q) ==
  /\ reply[q] = "none"
  /\ reply' = [reply EXCEPT ![q] = "refused"]
  /\ UNCHANGED <<reading, place, shut>>

Serve(q) ==
  /\ ~shut
  /\ place[q] = "queued"
  /\ Cardinality(At("served")) < Cardinality(Worker)
  /\ place' = [place EXCEPT ![q] = "served"]
  /\ UNCHANGED <<reading, reply, shut>>

Answer(q) ==
  /\ place[q] = "served"
  /\ place' = [place EXCEPT ![q] = "answered"]
  /\ UNCHANGED <<reading, reply, shut>>

\* A worker or another caller begins or ends to read a repository.
Read(c) ==
  /\ shut => c \notin Worker
  /\ Stop(c) \/ \E r \in Repo : Start(c, r)
  /\ UNCHANGED <<reply, place, shut>>

Shut ==
  /\ ~shut
  /\ At("served") = {} /\ Worker \cap Readers = {}
  /\ shut' = TRUE
  /\ UNCHANGED <<reading, reply, place>>

ServiceNext ==
  \/ \E q \in Request : Accept(q) \/ Refuse(q) \/ Serve(q) \/ Answer(q)
  \/ \E c \in Caller : Read(c)
  \/ Shut

ServiceSpec == ServiceInit /\ [][ServiceNext]_serviceVars
=============================================================================
