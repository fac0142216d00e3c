----------------------------- MODULE StatusGate -----------------------------
(***************************************************************************)
(* What GetDirStatus and GetFileStatus promise to the git repositories     *)
(* they read, whoever calls them: a repository is read by one caller at a  *)
(* time, and at most Limit repositories are read at once.                  *)
(***************************************************************************)
EXTENDS Integers, FiniteSets

CONSTANTS
  Caller,       \* goroutines that ask for a git status
  Repo,         \* git repositories
  Limit,        \* capacity of gitStatusSemaphore
  None

VARIABLE reading  \* [Caller -> Repo or None]: the repository a caller reads

Readers == {c \in Caller : reading[c] # None}

Init == reading = [c \in Caller |-> None]

Start(c, r) ==
  /\ reading[c] = None
  /\ \A d \in Caller : reading[d] # r
  /\ Cardinality(Readers) < Limit
  /\ reading' = [reading EXCEPT ![c] = r]

Stop(c) ==
  /\ reading[c] # None
  /\ reading' = [reading EXCEPT ![c] = None]

Next == \E c \in Caller : Stop(c) \/ \E r \in Repo : Start(c, r)

Spec == Init /\ [][Next]_reading
=============================================================================
