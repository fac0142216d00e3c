------------------------------ MODULE RepoLocks ------------------------------
(***************************************************************************)
(* GetDirStatus and GetFileStatus (pkg/gitutils): every call takes the     *)
(* mutex of its repository, then a slot of gitStatusSemaphore, and reads   *)
(* the repository with both.  The two functions synchronise in the same    *)
(* way and are one model.  What they read is left out; a call whose        *)
(* context is done may answer with less, or with nothing.                  *)
(***************************************************************************)
EXTENDS Integers, FiniteSets

CONSTANTS
  Caller,       \* goroutines that ask for a git status
  Repo,         \* repository roots
  Mutex,        \* the mutexes getRepoLock can allocate
  Limit,        \* capacity of gitStatusSemaphore
  None          \* no repository, no mutex, nobody

ASSUME RepoLocksAssumption ==
  /\ IsFiniteSet(Caller)
  /\ Limit \in Nat \ {0}
  /\ None \notin Caller \cup Repo \cup Mutex

\* There is memory for a mutex of every repository.
ASSUME MutexAssumption ==
  /\ IsFiniteSet(Repo) /\ IsFiniteSet(Mutex)
  /\ Cardinality(Repo) <= Cardinality(Mutex)

VARIABLES
  lockOf,       \* repoLocks: [Repo -> Mutex], None where there is no entry
  owner,        \* [Mutex -> Caller]: who has locked it, or None
  slots,        \* gitStatusSemaphore: the callers with a token in it
  pc,           \* where each call is
  repo,         \* the repository of each call
  lock,         \* the mutex each call was given
  done          \* callers whose context is done

lockVars == <<lockOf, owner, slots, pc, repo, lock, done>>

Where == {"idle", "lock", "slot", "work", "unlock", "done"}

Init ==
  /\ lockOf = [r \in Repo |-> None]
  /\ owner = [m \in Mutex |-> None]
  /\ slots = {}
  /\ pc = [c \in Caller |-> "idle"]
  /\ repo = [c \in Caller |-> None]
  /\ lock = [c \in Caller |-> None]
  /\ done = {}

-----------------------------------------------------------------------------
Goto(c, label) == pc' = [pc EXCEPT ![c] = label]

\* A mutex that nobody has heard of.
Fresh(m) == owner[m] = None /\ \A r \in Repo : lockOf[r] # m

AllocateLock(c, r) ==  \* mutant of GetRepoLock: never finds the entry
  \E m \in Mutex :
    /\ Fresh(m)
    /\ lockOf' = [lockOf EXCEPT ![r] = m]
    /\ lock' = [lock EXCEPT ![c] = m]

\* getRepoLock runs under repoLocksMu, in one step: the repository's mutex,
\* made at the first request for it.
GetRepoLock(c, r) ==
  \E m \in Mutex :
    /\ IF lockOf[r] = None THEN Fresh(m) ELSE m = lockOf[r]
    /\ lockOf' = [lockOf EXCEPT ![r] = m]
    /\ lock' = [lock EXCEPT ![c] = m]

\* c calls for repository r.
Call(c, r) ==
  /\ pc[c] = "idle"
  /\ GetRepoLock(c, r)
  /\ repo' = [repo EXCEPT ![c] = r]
  /\ Goto(c, "lock")
  /\ UNCHANGED <<owner, slots, done>>

\* Without a repository, or a work tree, the answer is nil at once.
CallNothing(c) ==
  /\ pc[c] = "idle"
  /\ Goto(c, "done")
  /\ UNCHANGED <<lockOf, owner, slots, repo, lock, done>>

\* lock.Lock() returns.
AcquireLock(c) ==
  /\ pc[c] = "lock"
  /\ owner[lock[c]] = None
  /\ owner' = [owner EXCEPT ![lock[c]] = c]
  /\ Goto(c, "slot")
  /\ UNCHANGED <<lockOf, slots, repo, lock, done>>

TakeAnySlot(c) ==  \* mutant of TakeSlot: the semaphore is never full
  /\ pc[c] = "slot"
  /\ slots' = slots \cup {c}
  /\ Goto(c, "work")
  /\ UNCHANGED <<lockOf, owner, repo, lock, done>>

\* The select takes the free slot, even with the context done.
TakeSlot(c) ==
  /\ pc[c] = "slot"
  /\ Cardinality(slots) < Limit
  /\ slots' = slots \cup {c}
  /\ Goto(c, "work")
  /\ UNCHANGED <<lockOf, owner, repo, lock, done>>

\* The select takes <-ctx.Done(), even with a slot free.
GiveUp(c) ==
  /\ pc[c] = "slot"
  /\ c \in done
  /\ Goto(c, "unlock")
  /\ UNCHANGED <<lockOf, owner, slots, repo, lock, done>>

KeepSlot(c) ==  \* mutant of ReleaseSlot: the token stays in the semaphore
  /\ pc[c] = "work"
  /\ Goto(c, "unlock")
  /\ UNCHANGED <<lockOf, owner, slots, repo, lock, done>>

\* The work is over and the deferred functions run, last one first.
ReleaseSlot(c) ==
  /\ pc[c] = "work"
  /\ slots' = slots \ {c}
  /\ Goto(c, "unlock")
  /\ UNCHANGED <<lockOf, owner, repo, lock, done>>

KeepLocked(c) ==  \* mutant of Unlock: no deferred Unlock
  /\ pc[c] = "unlock"
  /\ Goto(c, "done")
  /\ UNCHANGED <<lockOf, owner, slots, repo, lock, done>>

Unlock(c) ==
  /\ pc[c] = "unlock"
  /\ owner' = [owner EXCEPT ![lock[c]] = None]
  /\ Goto(c, "done")
  /\ UNCHANGED <<lockOf, slots, repo, lock, done>>

\* The caller goes on with the answer.
Return(c) ==
  /\ pc[c] = "done"
  /\ Goto(c, "idle")
  /\ UNCHANGED <<lockOf, owner, slots, repo, lock, done>>

\* The context that the callers C share is cancelled.
Cancel(C) ==
  /\ done' = done \cup C
  /\ UNCHANGED <<lockOf, owner, slots, pc, repo, lock>>

-----------------------------------------------------------------------------
\* The steps of a call from its first mutex to its answer.
Advance(c) ==
  \/ AcquireLock(c) \/ TakeSlot(c) \/ GiveUp(c) \/ ReleaseSlot(c) \/ Unlock(c)

Next ==
  \/ \E c \in Caller : \/ \E r \in Repo : Call(c, r)
                       \/ CallNothing(c) \/ Advance(c) \/ Return(c)
  \/ \E C \in SUBSET Caller : Cancel(C)

Spec == Init /\ [][Next]_lockVars

\* Can c go on by itself, between its first mutex and its answer?
GoesOn(c) ==
  \/ pc[c] = "lock" /\ owner[lock[c]] = None
  \/ pc[c] = "slot" /\ (Cardinality(slots) < Limit \/ c \in done)
  \/ pc[c] \in {"work", "unlock"}

\* Those c waits for: the owner of the mutex, and whoever has a slot.
InFront(c) ==
  {c} \cup slots \cup (IF pc[c] = "lock" THEN {owner[lock[c]]} \ {None} ELSE {})

\* Is there a mutex for r?
HasMutex(r) == lockOf[r] # None \/ \E m \in Mutex : Fresh(m)

\* A goroutine goes on when it can.  Lock() and the select may find their
\* mutex or slot taken again and again; Go hands both to the goroutine that
\* waited longest.
LockFairness(c) ==
  /\ WF_lockVars(Advance(c))
  /\ SF_lockVars(AcquireLock(c))
  /\ SF_lockVars(TakeSlot(c))

-----------------------------------------------------------------------------
LocksTypeOK ==
  /\ lockOf \in [Repo -> Mutex \cup {None}]
  /\ owner \in [Mutex -> Caller \cup {None}]
  /\ slots \subseteq Caller
  /\ pc \in [Caller -> Where]
  /\ repo \in [Caller -> Repo \cup {None}]
  /\ lock \in [Caller -> Mutex \cup {None}]
  /\ done \subseteq Caller

(* Two calls never read the same repository at the same time, although     *)
(* getRepoLock makes the mutexes on demand.                                *)
OneReaderPerRepo ==
  \A c, d \in Caller :
    pc[c] = "work" /\ pc[d] = "work" /\ repo[c] = repo[d] => c = d

(* What a call reads, for StatusGate.                                      *)
Reading == [c \in Caller |-> IF c \in slots THEN repo[c] ELSE None]

Gate == INSTANCE StatusGate WITH reading <- Reading

(* The mutexes and the semaphore together implement the gate.              *)
GateSpec == Gate!Spec
=============================================================================
