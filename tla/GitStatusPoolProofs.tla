------------------------- MODULE GitStatusPoolProofs -------------------------
(***************************************************************************)
(* What the repositories' locks promise to any callers, and what the pool  *)
(* promises for any number of workers, requests and closers, whatever else *)
(* asks for a git status.                                                  *)
(***************************************************************************)
EXTENDS GitStatusPool, FiniteSetTheorems, TLAPS

-----------------------------------------------------------------------------
(* The locks.  The inductive invariant: two repositories never have the    *)
(* same mutex; a call that was given a mutex was given its repository's; a *)
(* call past AcquireLock owns it, and nobody else owns one; and the        *)
(* semaphore holds the calls that read.                                    *)
MutexesDiffer ==
  \A q, r \in Repo : lockOf[q] = lockOf[r] /\ lockOf[q] # None => q = r

GivenItsMutex ==
  \A c \in Caller : pc[c] \in {"lock", "slot", "work", "unlock"}
    => repo[c] \in Repo /\ lock[c] \in Mutex /\ lock[c] = lockOf[repo[c]]

OwnsItsMutex ==
  \A c \in Caller : pc[c] \in {"slot", "work", "unlock"} => owner[lock[c]] = c

OwnersRun ==
  \A m \in Mutex : owner[m] # None =>
    /\ owner[m] \in Caller /\ pc[owner[m]] \in {"slot", "work", "unlock"}
    /\ lock[owner[m]] = m

SlotsAreReaders == slots = {c \in Caller : pc[c] = "work"}

SlotsBounded == IsFiniteSet(slots) /\ Cardinality(slots) <= Limit

LocksInv == /\ LocksTypeOK
            /\ MutexesDiffer
            /\ GivenItsMutex
            /\ OwnsItsMutex
            /\ OwnersRun
            /\ SlotsAreReaders
            /\ SlotsBounded

USE RepoLocksAssumption

\* The invariant holds when no call has been made.
LEMMA LocksInit == Init => LocksInv
  <1> SUFFICES ASSUME Init PROVE LocksInv
    OBVIOUS
  <1>1. LocksTypeOK
    BY DEF Init, LocksTypeOK, Where
  <1>2. MutexesDiffer /\ GivenItsMutex /\ OwnsItsMutex /\ OwnersRun /\ SlotsAreReaders
    BY DEF Init, MutexesDiffer, GivenItsMutex, OwnsItsMutex, OwnersRun, SlotsAreReaders
  <1>3. SlotsBounded
    BY FS_EmptySet DEF Init, SlotsBounded
  <1>4. QED
    BY <1>1, <1>2, <1>3 DEF LocksInv

\* Every step of a call, and a cancellation, keeps it.
LEMMA LocksStep == LocksInv /\ [Next]_lockVars => LocksInv'
  <1> SUFFICES ASSUME LocksInv, [Next]_lockVars PROVE LocksInv'
    OBVIOUS
  <1> USE DEF LocksInv
  <1>1. ASSUME NEW c \in Caller, NEW r \in Repo, Call(c, r) PROVE LocksInv'
    <2>1. PICK m \in Mutex : /\ IF lockOf[r] = None THEN Fresh(m) ELSE m = lockOf[r]
                             /\ lockOf' = [lockOf EXCEPT ![r] = m]
                             /\ lock' = [lock EXCEPT ![c] = m]
      BY <1>1 DEF Call, GetRepoLock
    <2>2. /\ pc[c] = "idle" /\ pc' = [pc EXCEPT ![c] = "lock"]
          /\ repo' = [repo EXCEPT ![c] = r]
          /\ UNCHANGED <<owner, slots, done>>
      BY <1>1 DEF Call, Goto
    <2>3. LocksTypeOK'
      BY <2>1, <2>2 DEF LocksTypeOK, Where
    <2>4. MutexesDiffer'
      BY <2>1 DEF MutexesDiffer, LocksTypeOK, Fresh
    <2>5. GivenItsMutex'
      <3> SUFFICES ASSUME NEW d \in Caller, pc'[d] \in {"lock", "slot", "work", "unlock"}
                   PROVE repo'[d] \in Repo /\ lock'[d] \in Mutex /\ lock'[d] = lockOf'[repo'[d]]
        BY DEF GivenItsMutex
      <3>1. CASE d = c
        BY <3>1, <2>1, <2>2 DEF LocksTypeOK
      <3>2. CASE d # c
        BY <3>2, <2>1, <2>2 DEF LocksTypeOK, GivenItsMutex
      <3>3. QED
        BY <3>1, <3>2
    <2>6. OwnsItsMutex' /\ OwnersRun'
      BY <2>1, <2>2 DEF OwnsItsMutex, OwnersRun, LocksTypeOK
    <2>7. SlotsAreReaders' /\ SlotsBounded'
      BY <2>2 DEF SlotsAreReaders, SlotsBounded, LocksTypeOK
    <2>8. QED
      BY <2>3, <2>4, <2>5, <2>6, <2>7
  <1>2. ASSUME NEW c \in Caller, CallNothing(c) \/ Return(c) PROVE LocksInv'
    BY <1>2 DEF CallNothing, Return, Goto, LocksTypeOK, Where, MutexesDiffer, GivenItsMutex,
                OwnsItsMutex, OwnersRun, SlotsAreReaders, SlotsBounded
  <1>3. ASSUME NEW c \in Caller, AcquireLock(c) PROVE LocksInv'
    <2>1. LocksTypeOK' /\ MutexesDiffer' /\ GivenItsMutex'
      BY <1>3 DEF AcquireLock, Goto, LocksTypeOK, Where, MutexesDiffer, GivenItsMutex
    <2>2. OwnsItsMutex' /\ OwnersRun'
      BY <1>3 DEF AcquireLock, Goto, LocksTypeOK, GivenItsMutex, OwnsItsMutex, OwnersRun
    <2>3. SlotsAreReaders' /\ SlotsBounded'
      BY <1>3 DEF AcquireLock, Goto, LocksTypeOK, SlotsAreReaders, SlotsBounded
    <2>4. QED
      BY <2>1, <2>2, <2>3
  <1>4. ASSUME NEW c \in Caller, TakeSlot(c) PROVE LocksInv'
    <2>1. LocksTypeOK' /\ MutexesDiffer' /\ GivenItsMutex' /\ OwnsItsMutex' /\ OwnersRun'
      BY <1>4 DEF TakeSlot, Goto, LocksTypeOK, Where, MutexesDiffer, GivenItsMutex, OwnsItsMutex,
                  OwnersRun
    <2>2. SlotsAreReaders'
      BY <1>4 DEF TakeSlot, Goto, LocksTypeOK, SlotsAreReaders
    <2>3. SlotsBounded'
      <3>1. slots' = slots \cup {c} /\ c \notin slots /\ Cardinality(slots) < Limit
        BY <1>4 DEF TakeSlot, SlotsAreReaders
      <3>2. Cardinality(slots) \in Nat /\ Cardinality(slots') = Cardinality(slots) + 1
        BY <3>1, FS_AddElement, FS_CardinalityType DEF SlotsBounded
      <3>3. QED
        BY <3>1, <3>2, FS_AddElement DEF SlotsBounded
    <2>4. QED
      BY <2>1, <2>2, <2>3
  <1>5. ASSUME NEW c \in Caller, GiveUp(c) PROVE LocksInv'
    BY <1>5 DEF GiveUp, Goto, LocksTypeOK, Where, MutexesDiffer, GivenItsMutex,
                OwnsItsMutex, OwnersRun, SlotsAreReaders, SlotsBounded
  <1>6. ASSUME NEW c \in Caller, ReleaseSlot(c) PROVE LocksInv'
    <2>1. LocksTypeOK' /\ MutexesDiffer' /\ GivenItsMutex' /\ OwnsItsMutex' /\ OwnersRun'
      BY <1>6 DEF ReleaseSlot, Goto, LocksTypeOK, Where, MutexesDiffer, GivenItsMutex,
                  OwnsItsMutex, OwnersRun
    <2>2. SlotsAreReaders'
      BY <1>6 DEF ReleaseSlot, Goto, LocksTypeOK, SlotsAreReaders
    <2>3. SlotsBounded'
      <3>1. slots' \subseteq slots
        BY <1>6 DEF ReleaseSlot
      <3>2. IsFiniteSet(slots') /\ Cardinality(slots') <= Cardinality(slots)
        BY <3>1, FS_Subset DEF SlotsBounded
      <3>3. Cardinality(slots') \in Nat /\ Cardinality(slots) \in Nat
        BY <3>2, FS_CardinalityType DEF SlotsBounded
      <3>4. QED
        BY <3>2, <3>3 DEF SlotsBounded
    <2>4. QED
      BY <2>1, <2>2, <2>3
  <1>7. ASSUME NEW c \in Caller, Unlock(c) PROVE LocksInv'
    <2>1. LocksTypeOK' /\ MutexesDiffer' /\ GivenItsMutex'
      BY <1>7 DEF Unlock, Goto, LocksTypeOK, Where, MutexesDiffer, GivenItsMutex
    <2>2. OwnsItsMutex' /\ OwnersRun'
      BY <1>7 DEF Unlock, Goto, LocksTypeOK, GivenItsMutex, OwnsItsMutex, OwnersRun
    <2>3. SlotsAreReaders' /\ SlotsBounded'
      BY <1>7 DEF Unlock, Goto, LocksTypeOK, SlotsAreReaders, SlotsBounded
    <2>4. QED
      BY <2>1, <2>2, <2>3
  <1>8. ASSUME NEW C \in SUBSET Caller, Cancel(C) PROVE LocksInv'
    BY <1>8 DEF Cancel, LocksTypeOK, MutexesDiffer, GivenItsMutex, OwnsItsMutex, OwnersRun,
                SlotsAreReaders, SlotsBounded
  <1>9. ASSUME UNCHANGED lockVars PROVE LocksInv'
    BY <1>9 DEF lockVars, LocksTypeOK, MutexesDiffer, GivenItsMutex, OwnsItsMutex, OwnersRun,
                SlotsAreReaders, SlotsBounded
  <1>10. QED
    BY <1>1, <1>2, <1>3, <1>4, <1>5, <1>6, <1>7, <1>8, <1>9 DEF Next, Advance

\* Hence it holds throughout.
THEOREM LocksInvariant == Spec => []LocksInv
  BY LocksInit, LocksStep, PTL DEF Spec

\* Two readers of one repository would own the same mutex.
LEMMA InvExcludes == LocksInv => OneReaderPerRepo
  BY DEF LocksInv, GivenItsMutex, OwnsItsMutex, OneReaderPerRepo

\* Calls never read the same repository at the same time, however many
\* goroutines call and whenever the repository's mutex is made.
THEOREM LocksExclude == Spec => []OneReaderPerRepo
  BY LocksInvariant, InvExcludes, PTL

\* There is always a mutex for a repository: those without one are more than
\* the mutexes nobody has heard of are few, as only listed mutexes are owned.
LEMMA MutexToSpare ==
  ASSUME LocksInv, NEW r \in Repo
  PROVE  HasMutex(r)
  <1> SUFFICES ASSUME lockOf[r] = None PROVE \E m \in Mutex : Fresh(m)
    BY DEF HasMutex
  <1> DEFINE U == {q \in Repo : lockOf[q] # None}
             T == {lockOf[q] : q \in U}
             f == [q \in U |-> lockOf[q]]
  <1>1. U \subseteq Repo /\ r \notin U
    OBVIOUS
  <1>2. IsFiniteSet(U) /\ Cardinality(U) < Cardinality(Repo)
    <2>1. IsFiniteSet(U) /\ Cardinality(U) <= Cardinality(Repo) /\ Cardinality(U) # Cardinality(Repo)
      BY <1>1, MutexAssumption, FS_Subset
    <2>2. Cardinality(U) \in Nat /\ Cardinality(Repo) \in Nat
      BY <2>1, MutexAssumption, FS_CardinalityType
    <2>3. QED
      BY <2>1, <2>2
  <1>3. f \in Surjection(U, T)
    BY DEF Surjection
  <1>4. IsFiniteSet(T) /\ Cardinality(T) <= Cardinality(U)
    BY <1>2, <1>3, FS_Surjection
  <1>5. Cardinality(T) < Cardinality(Mutex)
    <2>1. /\ Cardinality(T) \in Nat /\ Cardinality(U) \in Nat /\ Cardinality(Repo) \in Nat
          /\ Cardinality(Mutex) \in Nat
      BY <1>2, <1>4, MutexAssumption, FS_CardinalityType
    <2>2. QED
      BY <1>2, <1>4, <2>1, MutexAssumption
  <1>6. PICK m \in Mutex : m \notin T
    <2>1. T \subseteq Mutex
      BY DEF LocksInv, LocksTypeOK
    <2>2. T # Mutex
      <3>1. Cardinality(Mutex) \in Nat
        BY MutexAssumption, FS_CardinalityType
      <3>2. QED
        BY <1>5, <3>1
    <2>3. QED
      BY <2>1, <2>2
  <1>7. \A q \in Repo : lockOf[q] # m
    BY <1>6 DEF LocksInv, LocksTypeOK
  <1>8. owner[m] = None
    <2> SUFFICES ASSUME owner[m] # None PROVE FALSE
      OBVIOUS
    <2>1. owner[m] \in Caller /\ pc[owner[m]] \in {"slot", "work", "unlock"} /\ lock[owner[m]] = m
      BY DEF LocksInv, OwnersRun
    <2>2. repo[owner[m]] \in Repo /\ lockOf[repo[owner[m]]] = m
      BY <2>1 DEF LocksInv, GivenItsMutex
    <2>3. QED
      BY <1>7, <2>2
  <1>9. QED
    BY <1>7, <1>8 DEF Fresh

\* A call that has its mutex goes on, or one with a slot does.
LEMMA SlotMoves ==
  ASSUME LocksInv, NEW c \in Caller, pc[c] \in {"slot", "work", "unlock"}
  PROVE  GoesOn(c) \/ \E d \in slots : GoesOn(d)
  <1>1. CASE pc[c] # "slot"
    BY <1>1 DEF GoesOn
  <1>2. CASE pc[c] = "slot" /\ slots = {}
    <2>1. Cardinality(slots) < Limit
      BY <1>2, FS_EmptySet
    <2>2. QED
      BY <1>2, <2>1 DEF GoesOn
  <1>3. ASSUME NEW d \in slots PROVE GoesOn(d)
    BY DEF GoesOn, LocksInv, SlotsAreReaders
  <1>4. QED
    BY <1>1, <1>2, <1>3

\* No call waits for itself: it, the owner of its mutex, or a call with a slot
\* can go on.
LEMMA CallMoves ==
  ASSUME LocksInv, NEW c \in Caller, pc[c] \in {"lock", "slot", "work", "unlock"}
  PROVE  \E d \in InFront(c) : GoesOn(d)
  <1>1. CASE pc[c] # "lock"
    BY <1>1, SlotMoves DEF InFront
  <1>2. CASE pc[c] = "lock" /\ owner[lock[c]] = None
    BY <1>2 DEF GoesOn, InFront
  <1>3. CASE pc[c] = "lock" /\ owner[lock[c]] # None
    <2>1. lock[c] \in Mutex
      BY <1>3 DEF LocksInv, GivenItsMutex
    <2>2. owner[lock[c]] \in Caller /\ pc[owner[lock[c]]] \in {"slot", "work", "unlock"}
      BY <1>3, <2>1 DEF LocksInv, OwnersRun
    <2>3. QED
      BY <1>3, <2>2, SlotMoves DEF InFront
  <1>4. QED
    BY <1>1, <1>2, <1>3

-----------------------------------------------------------------------------
(* The refinement of StatusGate.                                           *)

\* What the gate sees of a state.
LEMMA ReadingIsSlots ==
  ASSUME LocksInv
  PROVE  /\ \A c \in Caller : Reading[c] = IF c \in slots THEN repo[c] ELSE None
         /\ \A c \in Caller : Reading[c] # None <=> c \in slots
         /\ Gate!Readers = slots
  <1>1. \A c \in Caller : Reading[c] = IF c \in slots THEN repo[c] ELSE None
    BY DEF Reading
  <1>2. \A c \in slots : c \in Caller /\ repo[c] \in Repo /\ repo[c] # None
    BY DEF LocksInv, SlotsAreReaders, GivenItsMutex
  <1>3. \A c \in Caller : Reading[c] # None <=> c \in slots
    BY <1>1, <1>2
  <1>4. QED
    BY <1>1, <1>2, <1>3 DEF Gate!Readers

\* The gate counts as this module does.
LEMMA GateCounts == \A S : Gate!Cardinality(S) = Cardinality(S)
  BY DEF Gate!Cardinality, Cardinality

\* Nobody reads at first.
LEMMA GateInit == Init => Gate!Init
  BY DEF Init, Gate!Init, Reading

\* A step that neither moves a slot nor the repository of a reader is not seen.
LEMMA GateStutters ==
  ASSUME slots' = slots, \A c \in slots : repo'[c] = repo[c]
  PROVE  Reading' = Reading
  BY DEF Reading

\* TakeSlot starts a read.
LEMMA TakeSlotStarts ==
  ASSUME LocksInv, NEW c \in Caller, TakeSlot(c)
  PROVE  Gate!Start(c, repo[c]) /\ repo[c] \in Repo
  <1>1. pc[c] = "slot" /\ c \notin slots /\ repo[c] \in Repo
    BY DEF LocksInv, TakeSlot, SlotsAreReaders, GivenItsMutex
  <1>2. Reading[c] = None
    BY <1>1, ReadingIsSlots
  <1>3. \A d \in Caller : Reading[d] # repo[c]
    <2> SUFFICES ASSUME NEW d \in Caller, Reading[d] = repo[c] PROVE FALSE
      OBVIOUS
    <2>1. d \in slots /\ repo[d] = repo[c]
      BY <1>1, ReadingIsSlots
    <2>2. lock[d] = lock[c] /\ owner[lock[d]] = d /\ owner[lock[c]] = c
      BY <1>1, <2>1 DEF LocksInv, SlotsAreReaders, GivenItsMutex, OwnsItsMutex
    <2>3. QED
      BY <1>1, <2>1, <2>2
  <1>4. Gate!Cardinality(Gate!Readers) < Limit
    BY ReadingIsSlots, GateCounts DEF TakeSlot
  <1>5. Reading' = [Reading EXCEPT ![c] = repo[c]]
    BY <1>1 DEF TakeSlot, Reading
  <1>6. QED
    BY <1>1, <1>2, <1>3, <1>4, <1>5 DEF Gate!Start

\* ReleaseSlot ends it.
LEMMA ReleaseSlotStops ==
  ASSUME LocksInv, NEW c \in Caller, ReleaseSlot(c)
  PROVE  Gate!Stop(c)
  <1>1. Reading[c] # None
    BY ReadingIsSlots DEF LocksInv, ReleaseSlot, SlotsAreReaders
  <1>2. Reading' = [Reading EXCEPT ![c] = None]
    BY DEF ReleaseSlot, Reading
  <1>3. QED
    BY <1>1, <1>2 DEF Gate!Stop

\* No other step is seen.
LEMMA OthersStutter ==
  ASSUME LocksInv
  PROVE  /\ \A c \in Caller, r \in Repo : Call(c, r) => Reading' = Reading
         /\ \A c \in Caller : CallNothing(c) \/ Return(c) \/ AcquireLock(c) \/ GiveUp(c) \/ Unlock(c)
              => Reading' = Reading
         /\ \A C \in SUBSET Caller : Cancel(C) => Reading' = Reading
         /\ UNCHANGED lockVars => Reading' = Reading
  <1>1. ASSUME NEW c \in Caller, NEW r \in Repo, Call(c, r) PROVE Reading' = Reading
    <2>1. slots' = slots /\ c \notin slots /\ repo' = [repo EXCEPT ![c] = r]
      BY <1>1 DEF Call, LocksInv, SlotsAreReaders
    <2>2. \A d \in slots : repo'[d] = repo[d]
      BY <2>1 DEF LocksInv, LocksTypeOK
    <2>3. QED
      BY <2>1, <2>2, GateStutters
  <1>2. ASSUME NEW c \in Caller,
               CallNothing(c) \/ Return(c) \/ AcquireLock(c) \/ GiveUp(c) \/ Unlock(c)
        PROVE  Reading' = Reading
    BY <1>2, GateStutters DEF CallNothing, Return, AcquireLock, GiveUp, Unlock
  <1>3. ASSUME NEW C \in SUBSET Caller, Cancel(C) PROVE Reading' = Reading
    BY <1>3, GateStutters DEF Cancel
  <1>4. ASSUME UNCHANGED lockVars PROVE Reading' = Reading
    BY <1>4, GateStutters DEF lockVars
  <1>5. QED
    BY <1>1, <1>2, <1>3, <1>4

\* So every step of the locks is a step of the gate, or is not seen.
LEMMA GateStep == LocksInv /\ [Next]_lockVars => [Gate!Next]_Reading
  BY TakeSlotStarts, ReleaseSlotStops, OthersStutter DEF Next, Advance, Gate!Next

\* The mutexes made on demand and the semaphore implement the gate: one
\* reader of a repository at a time, and at most Limit readers.
THEOREM LocksImplementGate == Spec => GateSpec
  BY LocksInvariant, GateInit, GateStep, PTL DEF Spec, GateSpec, Gate!Spec

-----------------------------------------------------------------------------
(* The pool.  The inductive invariant: a worker has a request exactly while *)
(* it is in a call; a worker that left is not in one; one Close call at     *)
(* most got past the swap, it alone closes the channel, and it cancels the  *)
(* context before.                                                          *)
ServesInCall == \A w \in Worker : pc[w] = "idle" <=> serving[w] = None

LeftIdle == \A w \in exited : pc[w] = "idle"

PastSwap == {k \in Closer : closing[k] \in {"swapped", "cancelled", "waiting", "finished"}}

OneCloses ==
  /\ PastSwap # {} => closed
  /\ \A j, k \in PastSwap : j = k
  /\ chanClosed => \E k \in PastSwap : closing[k] \in {"waiting", "finished"}
  /\ \A k \in Closer : closing[k] = "finished" => exited = Worker

CloseOrder ==
  \A k \in Closer :
    /\ closing[k] \in {"cancelled", "waiting", "finished"} => Cancelled
    /\ closing[k] \in {"waiting", "finished"} => chanClosed

PoolInv == /\ LocksInv
           /\ PoolTypeOK
           /\ ServesInCall
           /\ LeftIdle
           /\ OneCloses
           /\ CloseOrder
           /\ NothingLost

USE PoolAssumption

-----------------------------------------------------------------------------
(* The pool's calls are calls of RepoLocks.                                 *)

\* A pool starts with no call for a status.
LEMMA PoolInitIsInit == PoolInit => Init
  BY DEF PoolInit

\* The request a worker takes is one of those that were sent.
LEMMA HeadIsRequest ==
  ASSUME queue \in Seq(Request), queue # <<>>
  PROVE  /\ Head(queue) \in Request
         /\ Tail(queue) \in Seq(Request)
         /\ Len(queue) \in Nat /\ Len(Tail(queue)) = Len(queue) - 1
  OBVIOUS

\* Every step of the pool is a step of its calls, or none of theirs.
LEMMA PoolStepIsLockStep ==
  ASSUME queue \in Seq(Request), [PoolNext]_vars
  PROVE  [Next]_lockVars
  <1>1. ASSUME NEW q \in Request, SubmitStep(q) PROVE UNCHANGED lockVars
    BY <1>1 DEF SubmitStep, SubmitCheck, SubmitSend
  <1>2. ASSUME NEW w \in Worker, WorkerStep(w) PROVE [Next]_lockVars
    <2>1. w \in Caller
      OBVIOUS
    <2>2. CASE Take(w)
      <3>1. RepoOf[Head(queue)] = None \/ RepoOf[Head(queue)] \in Repo
        BY <2>2, HeadIsRequest DEF Take
      <3>2. CallNothing(w) \/ \E r \in Repo : Call(w, r)
        BY <2>2, <3>1 DEF Take
      <3>3. QED
        BY <3>2, <2>1 DEF Next
    <2>3. CASE Exit(w)
      BY <2>3 DEF Exit
    <2>4. CASE Callback(w)
      BY <2>4, <2>1 DEF Callback, Next
    <2>5. CASE Advance(w)
      BY <2>5, <2>1 DEF Next
    <2>6. QED
      BY <1>2, <2>2, <2>3, <2>4, <2>5 DEF WorkerStep
  <1>3. ASSUME NEW k \in Closer, CloserStep(k) PROVE [Next]_lockVars
    BY <1>3 DEF CloserStep, Swap, CancelPool, CloseChannel, Wait, Next
  <1>4. ASSUME NEW o \in Others, TreeCall(o) PROVE [Next]_lockVars
    BY <1>4 DEF TreeCall, Others, Next
  <1>5. ASSUME UNCHANGED vars PROVE UNCHANGED lockVars
    BY <1>5 DEF vars
  <1>6. QED
    BY <1>1, <1>2, <1>3, <1>4, <1>5 DEF PoolNext

-----------------------------------------------------------------------------
\* The invariant holds when the pool has been made.
LEMMA PoolInitInv == PoolInit => PoolInv
  <1> SUFFICES ASSUME PoolInit PROVE PoolInv
    OBVIOUS
  <1>1. LocksInv
    BY PoolInitIsInit, LocksInit
  <1>2. Capacity \in Nat
    BY FS_Subset, FS_CardinalityType, RepoLocksAssumption DEF Capacity
  <1>3. PoolTypeOK
    <2>1. queue \in Seq(Request) /\ Len(queue) <= Capacity
      BY <1>2 DEF PoolInit
    <2>2. QED
      BY <1>1, <2>1 DEF LocksInv, PoolInit, PoolTypeOK
  <1>4. ServesInCall /\ LeftIdle
    BY DEF PoolInit, Init, ServesInCall, LeftIdle
  <1>5. OneCloses /\ CloseOrder
    BY DEF PoolInit, OneCloses, PastSwap, CloseOrder
  <1>6. NothingLost
    BY DEF PoolInit, NothingLost, Waiting, InService, Range
  <1>7. QED
    BY <1>1, <1>3, <1>4, <1>5, <1>6 DEF PoolInv

\* Each step keeps the types of the pool's variables.
LEMMA PoolStepType ==
  ASSUME PoolInv, [PoolNext]_vars
  PROVE  LocksInv' /\ PoolTypeOK'
  <1> USE DEF PoolInv
  <1>1. queue \in Seq(Request)
    BY DEF PoolTypeOK
  <1>2. LocksInv' /\ LocksTypeOK'
    BY <1>1, PoolStepIsLockStep, LocksStep DEF LocksInv
  <1>3. Capacity \in Nat /\ Capacity' = Capacity
    BY FS_Subset, FS_CardinalityType, RepoLocksAssumption DEF Capacity
  <1>4. ASSUME NEW q \in Request, SubmitStep(q) PROVE PoolTypeOK'
    <2>1. CASE SubmitCheck(q)
      BY <1>2, <1>3, <2>1 DEF SubmitCheck, PoolTypeOK
    <2>2. CASE SubmitSend(q)
      <3>1. queue' \in Seq(Request) /\ Len(queue') <= Capacity'
        BY <1>1, <1>3, <2>2 DEF SubmitSend, PoolTypeOK
      <3>2. panicked' \in BOOLEAN
        BY <2>2 DEF SubmitSend, PoolTypeOK
      <3>3. submit' \in [Request -> {"new", "checked", "accepted", "refused"}]
        BY <2>2 DEF SubmitSend, PoolTypeOK
      <3>4. QED
        BY <1>2, <2>2, <3>1, <3>2, <3>3 DEF SubmitSend, PoolTypeOK
    <2>3. QED
      BY <1>4, <2>1, <2>2 DEF SubmitStep
  <1>5. ASSUME NEW w \in Worker, WorkerStep(w) PROVE PoolTypeOK'
    <2>1. CASE Take(w)
      <3>1. queue # <<>> /\ queue' = Tail(queue)
        BY <2>1 DEF Take
      <3>2. queue' \in Seq(Request) /\ Len(queue') <= Capacity'
        BY <1>1, <1>3, <3>1, HeadIsRequest DEF PoolTypeOK
      <3>3. serving' \in [Worker -> Request \cup {None}]
        BY <1>1, <2>1, <3>1, HeadIsRequest DEF Take, PoolTypeOK
      <3>4. QED
        BY <1>2, <2>1, <3>2, <3>3 DEF Take, PoolTypeOK
    <2>2. CASE Exit(w)
      BY <1>2, <1>3, <2>2 DEF Exit, PoolTypeOK
    <2>3. CASE Callback(w)
      <3>1. serving[w] \in Request
        BY <2>3 DEF Callback, Return, PoolTypeOK, ServesInCall
      <3>2. QED
        BY <1>2, <1>3, <2>3, <3>1 DEF Callback, PoolTypeOK
    <2>4. CASE UNCHANGED poolVars
      BY <1>2, <1>3, <2>4 DEF poolVars, PoolTypeOK
    <2>5. QED
      BY <1>5, <2>1, <2>2, <2>3, <2>4 DEF WorkerStep
  <1>6. ASSUME NEW k \in Closer, CloserStep(k) PROVE PoolTypeOK'
    BY <1>2, <1>3, <1>6 DEF CloserStep, Swap, CancelPool, CloseChannel, Wait, CloseStep, PoolTypeOK
  <1>7. ASSUME UNCHANGED poolVars PROVE PoolTypeOK'
    BY <1>2, <1>3, <1>7 DEF poolVars, PoolTypeOK
  <1>8. QED
    BY <1>2, <1>4, <1>5, <1>6, <1>7 DEF PoolNext, TreeCall, vars

\* A worker is in a call exactly while it has a request.
LEMMA PoolStepServes ==
  ASSUME PoolInv, [PoolNext]_vars
  PROVE  ServesInCall' /\ LeftIdle'
  <1> USE DEF PoolInv
  <1>0. /\ pc \in [Caller -> Where] /\ serving \in [Worker -> Request \cup {None}]
        /\ exited \subseteq Worker /\ queue \in Seq(Request)
    BY DEF PoolTypeOK, LocksTypeOK
  <1>1. ASSUME NEW q \in Request, SubmitStep(q) PROVE ServesInCall' /\ LeftIdle'
    BY <1>1 DEF SubmitStep, SubmitCheck, SubmitSend, lockVars, ServesInCall, LeftIdle
  <1>2. ASSUME NEW w \in Worker, WorkerStep(w) PROVE ServesInCall' /\ LeftIdle'
    <2>1. CASE Take(w)
      <3>1. w \notin exited /\ serving' = [serving EXCEPT ![w] = Head(queue)]
            /\ exited' = exited /\ Head(queue) # None
        BY <1>0, <2>1, HeadIsRequest DEF Take
      <3>2. PICK l \in {"lock", "done"} : pc' = [pc EXCEPT ![w] = l]
        BY <2>1 DEF Take, Call, CallNothing, Goto
      <3>3. QED
        BY <1>0, <3>1, <3>2 DEF ServesInCall, LeftIdle
    <2>2. CASE Exit(w)
      BY <2>2 DEF Exit, lockVars, ServesInCall, LeftIdle
    <2>3. CASE Callback(w)
      BY <1>0, <2>3 DEF Callback, Return, Goto, ServesInCall, LeftIdle
    <2>4. CASE Advance(w) /\ UNCHANGED poolVars
      <3>1. /\ serving' = serving /\ exited' = exited
            /\ pc[w] # "idle"
        BY <2>4 DEF poolVars, Advance, AcquireLock, TakeSlot, GiveUp, ReleaseSlot, Unlock
      <3>2. PICK l \in Where \ {"idle"} : pc' = [pc EXCEPT ![w] = l]
        BY <2>4 DEF Advance, AcquireLock, TakeSlot, GiveUp, ReleaseSlot, Unlock, Goto, Where
      <3>3. QED
        BY <1>0, <3>1, <3>2 DEF ServesInCall, LeftIdle
    <2>5. QED
      BY <1>2, <2>1, <2>2, <2>3, <2>4 DEF WorkerStep
  <1>3. ASSUME NEW k \in Closer, CloserStep(k) PROVE ServesInCall' /\ LeftIdle'
    BY <1>3 DEF CloserStep, Swap, CancelPool, CloseChannel, Wait, Cancel, lockVars,
                ServesInCall, LeftIdle
  <1>4. ASSUME NEW o \in Others, TreeCall(o) PROVE ServesInCall' /\ LeftIdle'
    <2>1. UNCHANGED <<serving, exited>> /\ o \in Caller /\ o \notin Worker
      BY <1>4 DEF TreeCall, poolVars, Others
    <2>2. \E l : pc' = [pc EXCEPT ![o] = l]
      BY <1>4 DEF TreeCall, Call, CallNothing, Return, Advance, AcquireLock, TakeSlot, GiveUp,
                  ReleaseSlot, Unlock, Goto
    <2>3. \A w \in Worker : pc'[w] = pc[w]
      BY <1>0, <2>1, <2>2
    <2>4. QED
      BY <1>0, <2>1, <2>3 DEF ServesInCall, LeftIdle
  <1>5. ASSUME UNCHANGED vars PROVE ServesInCall' /\ LeftIdle'
    BY <1>5 DEF vars, lockVars, poolVars, ServesInCall, LeftIdle
  <1>6. QED
    BY <1>1, <1>2, <1>3, <1>4, <1>5 DEF PoolNext

\* Only the first Close gets past the swap, and its wait is for every worker.
LEMMA PoolStepCloses ==
  ASSUME PoolInv, [PoolNext]_vars
  PROVE  OneCloses' /\ (\A k \in Closer : closing'[k] # closing[k] => ~panicked')
  <1> USE DEF PoolInv
  <1> DEFINE Goal == OneCloses'
               /\ (\A k \in Closer : closing'[k] # closing[k] => ~panicked')
  <1>0. /\ closing \in [Closer -> {"new", "swapped", "cancelled", "waiting", "returned",
                                   "finished"}]
        /\ exited \subseteq Worker /\ chanClosed \in BOOLEAN
    BY DEF PoolTypeOK
  <1>1. ASSUME UNCHANGED <<closing, closed, chanClosed, exited>> PROVE Goal
    BY <1>1 DEF OneCloses, PastSwap
  <1>2. ASSUME NEW q \in Request, SubmitStep(q) PROVE Goal
    BY <1>1, <1>2 DEF SubmitStep, SubmitCheck, SubmitSend
  <1>3. ASSUME NEW w \in Worker, WorkerStep(w) PROVE Goal
    <2>1. CASE Exit(w)
      BY <1>0, <2>1 DEF Exit, OneCloses, PastSwap
    <2>2. CASE UNCHANGED <<closing, closed, chanClosed, exited>>
      BY <1>1, <2>2
    <2>3. QED
      BY <1>3, <2>1, <2>2 DEF WorkerStep, Take, Callback, poolVars
  <1>4. ASSUME NEW k \in Closer, CloserStep(k) PROVE Goal
    <2>0. ~panicked
      BY <1>4 DEF CloserStep
    <2>1. CASE Swap(k)
      BY <1>0, <2>0, <2>1 DEF Swap, CloseStep, OneCloses, PastSwap
    <2>2. CASE CancelPool(k)
      BY <1>0, <2>0, <2>2 DEF CancelPool, CloseStep, OneCloses, PastSwap
    <2>3. CASE CloseChannel(k)
      <3>1. ~chanClosed
        BY <2>3 DEF CloseChannel, CloseStep, OneCloses, PastSwap
      <3>2. ~panicked'
        BY <2>3, <3>1 DEF CloseChannel
      <3>3. OneCloses'
        BY <1>0, <2>3 DEF CloseChannel, CloseStep, OneCloses, PastSwap
      <3>4. QED
        BY <3>2, <3>3
    <2>4. CASE Wait(k)
      BY <1>0, <2>0, <2>4 DEF Wait, CloseStep, OneCloses, PastSwap
    <2>5. QED
      BY <1>4, <2>1, <2>2, <2>3, <2>4 DEF CloserStep
  <1>5. ASSUME UNCHANGED poolVars PROVE Goal
    BY <1>1, <1>5 DEF poolVars
  <1>6. QED
    BY <1>2, <1>3, <1>4, <1>5 DEF PoolNext, TreeCall, vars

-----------------------------------------------------------------------------
(* Requests move from the channel to a worker to their callback.            *)

\* Sending adds the request to the channel.
LEMMA SendWaits ==
  ASSUME queue \in Seq(Request), NEW q \in Request, queue' = Append(queue, q)
  PROVE  Waiting' = Waiting \cup {q}
  <1>1. /\ DOMAIN queue = 1 .. Len(queue) /\ DOMAIN queue' = 1 .. (Len(queue) + 1)
        /\ Len(queue) \in Nat
        /\ \A i \in 1 .. Len(queue) : queue'[i] = queue[i]
        /\ queue'[Len(queue) + 1] = q
    OBVIOUS
  <1>2. Waiting' \subseteq Waiting \cup {q}
    BY <1>1 DEF Waiting, Range
  <1>3. Waiting \cup {q} \subseteq Waiting'
    BY <1>1 DEF Waiting, Range
  <1>4. QED
    BY <1>2, <1>3

\* Taking removes the oldest request from the channel, where it is once.
LEMMA TakeUnwaits ==
  ASSUME queue \in Seq(Request), queue # <<>>, queue' = Tail(queue),
         \A i, j \in DOMAIN queue : queue[i] = queue[j] => i = j
  PROVE  /\ Head(queue) \in Waiting
         /\ Waiting' = Waiting \ {Head(queue)}
         /\ \A i, j \in DOMAIN queue' : queue'[i] = queue'[j] => i = j
  <1>1. /\ DOMAIN queue = 1 .. Len(queue) /\ DOMAIN queue' = 1 .. (Len(queue) - 1)
        /\ Len(queue) \in Nat \ {0}
        /\ \A i \in 1 .. (Len(queue) - 1) : queue'[i] = queue[i + 1]
        /\ Head(queue) = queue[1]
    OBVIOUS
  <1>2. Head(queue) \in Waiting
    BY <1>1 DEF Waiting, Range
  <1>3. \A i \in DOMAIN queue' : queue'[i] \in Waiting /\ queue'[i] # Head(queue)
    BY <1>1 DEF Waiting, Range
  <1>4. \A i \in DOMAIN queue : i # 1 => i - 1 \in DOMAIN queue' /\ queue[i] = queue'[i - 1]
    BY <1>1
  <1>5. Waiting' = Waiting \ {Head(queue)}
    <2>1. Waiting' \subseteq Waiting \ {Head(queue)}
      BY <1>3 DEF Waiting, Range
    <2>2. ASSUME NEW q \in Waiting \ {Head(queue)} PROVE q \in Waiting'
      <3>1. PICK i \in DOMAIN queue : queue[i] = q
        BY DEF Waiting, Range
      <3>2. i - 1 \in DOMAIN queue' /\ queue'[i - 1] = q
        BY <1>1, <1>4, <3>1
      <3>3. QED
        BY <3>2 DEF Waiting, Range
    <2>3. QED
      BY <2>1, <2>2
  <1>6. \A i, j \in DOMAIN queue' : queue'[i] = queue'[j] => i = j
    BY <1>1
  <1>7. QED
    BY <1>2, <1>5, <1>6

\* No step loses a request, doubles it, or calls back one that was refused.
LEMMA PoolStepKeeps ==
  ASSUME PoolInv, [PoolNext]_vars
  PROVE  NothingLost'
  <1> USE DEF PoolInv
  <1>0. /\ queue \in Seq(Request) /\ serving \in [Worker -> Request \cup {None}]
        /\ submit \in [Request -> {"new", "checked", "accepted", "refused"}]
    BY DEF PoolTypeOK
  <1>1. ASSUME UNCHANGED <<queue, serving, submit, answered>> PROVE NothingLost'
    BY <1>1 DEF NothingLost, Waiting, InService
  <1>2. ASSUME NEW q \in Request, SubmitStep(q) PROVE NothingLost'
    <2>1. UNCHANGED <<serving, answered>> /\ submit[q] \in {"new", "checked"}
      BY <1>2 DEF SubmitStep, SubmitCheck, SubmitSend
    <2>2. CASE UNCHANGED <<queue, submit>>
      BY <1>1, <2>1, <2>2
    <2>3. CASE \E a \in {"checked", "refused"} : submit' = [submit EXCEPT ![q] = a] /\ UNCHANGED queue
      <3>1. {r \in Request : submit'[r] = "accepted"} = {r \in Request : submit[r] = "accepted"}
        BY <1>0, <2>1, <2>3
      <3>2. QED
        BY <2>1, <2>3, <3>1 DEF NothingLost, Waiting, InService
    <2>4. CASE submit' = [submit EXCEPT ![q] = "accepted"] /\ queue' = Append(queue, q)
      <3>1. {r \in Request : submit'[r] = "accepted"}
              = {r \in Request : submit[r] = "accepted"} \cup {q}
        BY <1>0, <2>4
      <3>2. q \notin Waiting \cup InService \cup answered
        BY <2>1 DEF NothingLost
      <3>3. Waiting' = Waiting \cup {q} /\ InService' = InService
        BY <1>0, <2>1, <2>4, SendWaits DEF InService
      <3>4. \A i, j \in DOMAIN queue' : queue'[i] = queue'[j] => i = j
        <4>1. /\ DOMAIN queue = 1 .. Len(queue) /\ DOMAIN queue' = 1 .. (Len(queue) + 1)
              /\ Len(queue) \in Nat
              /\ \A i \in 1 .. Len(queue) : queue'[i] = queue[i]
              /\ queue'[Len(queue) + 1] = q
          BY <1>0, <2>4
        <4>2. \A i \in 1 .. Len(queue) : queue[i] # q
          BY <3>2, <4>1 DEF Waiting, Range
        <4>3. QED
          BY <4>1, <4>2 DEF NothingLost
      <3>5. QED
        BY <2>1, <3>1, <3>2, <3>3, <3>4 DEF NothingLost
    <2>5. QED
      BY <1>2, <2>2, <2>3, <2>4 DEF SubmitStep, SubmitCheck, SubmitSend
  <1>3. ASSUME NEW w \in Worker, Take(w) PROVE NothingLost'
    <2>1. /\ queue # <<>> /\ queue' = Tail(queue)
          /\ serving' = [serving EXCEPT ![w] = Head(queue)]
          /\ UNCHANGED <<submit, answered>> /\ serving[w] = None
      BY <1>3 DEF Take, Call, CallNothing, ServesInCall
    <2>2. /\ Head(queue) \in Waiting /\ Waiting' = Waiting \ {Head(queue)}
          /\ \A i, j \in DOMAIN queue' : queue'[i] = queue'[j] => i = j
      BY <1>0, <2>1, TakeUnwaits DEF NothingLost
    <2>3. Head(queue) \in Request /\ Head(queue) # None
      BY <1>0, <2>1, HeadIsRequest
    <2>4. InService' = InService \cup {Head(queue)}
      BY <1>0, <2>1, <2>3 DEF InService, Range
    <2>5. \A v \in Worker : serving[v] # Head(queue)
      BY <1>0, <2>2, <2>3 DEF NothingLost, InService, Range
    <2>6. \A u, v \in Worker : serving'[u] = serving'[v] /\ serving'[u] # None => u = v
      BY <1>0, <2>1, <2>5 DEF NothingLost
    <2>7. QED
      BY <2>1, <2>2, <2>4, <2>6 DEF NothingLost
  <1>4. ASSUME NEW w \in Worker, Callback(w) PROVE NothingLost'
    <2>1. /\ serving' = [serving EXCEPT ![w] = None] /\ answered' = answered \cup {serving[w]}
          /\ UNCHANGED <<queue, submit>> /\ serving[w] # None
      BY <1>4 DEF Callback, Return, ServesInCall
    <2>2. Waiting' = Waiting
      BY <2>1 DEF Waiting
    <2>3. serving[w] \in InService
      BY <1>0, <2>1 DEF InService, Range
    <2>4. InService' = InService \ {serving[w]}
      BY <1>0, <2>1 DEF InService, Range, NothingLost
    <2>5. QED
      BY <1>0, <2>1, <2>2, <2>3, <2>4 DEF NothingLost
  <1>5. QED
    BY <1>1, <1>2, <1>3, <1>4
       DEF PoolNext, WorkerStep, Exit, CloserStep, Swap, CancelPool, CloseChannel, Wait, TreeCall,
           poolVars, vars

\* The context stays done, and the channel closed.
LEMMA PoolStepOrder ==
  ASSUME PoolInv, [PoolNext]_vars
  PROVE  CloseOrder'
  <1> USE DEF PoolInv
  <1>0. closing \in [Closer -> {"new", "swapped", "cancelled", "waiting", "returned", "finished"}]
        /\ chanClosed \in BOOLEAN
    BY DEF PoolTypeOK
  <1>1. done \subseteq done'
    <2>1. [Next]_lockVars
      BY PoolStepIsLockStep DEF PoolTypeOK
    <2>2. QED
      BY <2>1 DEF Next, lockVars, Call, CallNothing, Advance, AcquireLock, TakeSlot, GiveUp,
                  ReleaseSlot, Unlock, Return, Cancel
  <1>2. ASSUME UNCHANGED <<closing, chanClosed>> PROVE CloseOrder'
    BY <1>1, <1>2 DEF CloseOrder, Cancelled
  <1>3. ASSUME NEW k \in Closer, CloserStep(k) PROVE CloseOrder'
    <2>1. CASE Swap(k)
      BY <1>0, <1>1, <2>1 DEF Swap, CloseStep, CloseOrder, Cancelled
    <2>2. CASE CancelPool(k)
      BY <1>0, <1>1, <2>2 DEF CancelPool, Cancel, CloseStep, CloseOrder, Cancelled
    <2>3. CASE CloseChannel(k)
      BY <1>0, <1>1, <2>3 DEF CloseChannel, CloseStep, CloseOrder, Cancelled
    <2>4. CASE Wait(k)
      BY <1>0, <1>1, <2>4 DEF Wait, CloseStep, CloseOrder, Cancelled
    <2>5. QED
      BY <1>3, <2>1, <2>2, <2>3, <2>4 DEF CloserStep
  <1>4. QED
    BY <1>2, <1>3 DEF PoolNext, SubmitStep, SubmitCheck, SubmitSend, WorkerStep, Take, Exit,
                      Callback, TreeCall, poolVars, vars

-----------------------------------------------------------------------------
\* Together: every step keeps the invariant of the pool.
LEMMA PoolStepInv == PoolInv /\ [PoolNext]_vars => PoolInv'
  BY PoolStepType, PoolStepServes, PoolStepCloses, PoolStepOrder, PoolStepKeeps DEF PoolInv

\* The invariant of the pool holds throughout.
THEOREM PoolInvariant == PoolSpec => []PoolInv
  BY PoolInitInv, PoolStepInv, PTL DEF PoolSpec

\* Whatever holds of RepoLocks holds of the pool's workers and the tree's
\* goroutines together.
THEOREM PoolImplementsLocks == PoolSpec => Spec
  <1>1. PoolInv /\ [PoolNext]_vars => [Next]_lockVars
    BY PoolStepIsLockStep DEF PoolInv, PoolTypeOK
  <1>2. QED
    BY <1>1, PoolInvariant, PoolInitIsInit, PTL DEF PoolSpec, Spec

\* Hence the gate: a repository has one reader at a time among them.
THEOREM PoolImplementsGate == PoolSpec => GateSpec
  BY PoolImplementsLocks, LocksImplementGate, PTL

\* The types hold throughout: in particular the channel never holds more than
\* it was made for, however many goroutines submit.
THEOREM PoolTypes == PoolSpec => []PoolTypeOK
  <1>1. PoolInv => PoolTypeOK
    BY DEF PoolInv
  <1>2. QED
    BY <1>1, PoolInvariant, PTL

\* An accepted request is in the channel, with one worker, or called back.
THEOREM PoolLosesNothing == PoolSpec => []NothingLost
  <1>1. PoolInv => NothingLost
    BY DEF PoolInv
  <1>2. QED
    BY <1>1, PoolInvariant, PTL

\* Nobody waits in a circle: for every call, it, the owner of its mutex or a
\* call with a slot can go on, and so can every worker that is left while
\* requests wait, or a Close (worker_pool.go, gitutils.go).
THEOREM PoolNeverStuck == PoolSpec => []NeverStuck
  <1>1. ASSUME PoolInv PROVE NeverStuck
    <2> USE <1>1 DEF PoolInv
    <2>1. \A c \in Caller : pc[c] \in {"lock", "slot"} => \E d \in InFront(c) : GoesOn(d)
      BY CallMoves
    <2>2. ASSUME Waiting # {} \/ (\E k \in Closer : closing[k] = "waiting"),
                 NEW w \in Worker \ exited
          PROVE  WorkerGoesOn(w)
      <3>1. pc[w] \in Where
        BY DEF LocksInv, LocksTypeOK
      <3>2. CASE pc[w] = "idle"
        <4>1. CASE \E k \in Closer : closing[k] = "waiting"
          BY <3>2, <4>1 DEF WorkerGoesOn, CloseOrder
        <4>2. CASE Waiting # {}
          <5>1. queue \in Seq(Request) /\ queue # <<>>
            BY <4>2 DEF PoolTypeOK, Waiting, Range
          <5>2. RepoOf[Head(queue)] \in Repo \cup {None}
            BY <5>1, HeadIsRequest
          <5>3. Takeable
            BY <5>1, <5>2, MutexToSpare DEF Takeable
          <5>4. QED
            BY <3>2, <5>3 DEF WorkerGoesOn
        <4>3. QED
          BY <2>2, <4>1, <4>2
      <3>3. CASE pc[w] \in {"lock", "slot", "work", "unlock"}
        BY <3>3, CallMoves DEF WorkerGoesOn
      <3>4. CASE pc[w] = "done"
        BY <3>4 DEF WorkerGoesOn
      <3>5. QED
        BY <3>1, <3>2, <3>3, <3>4 DEF Where
    <2>3. QED
      BY <2>1, <2>2 DEF NeverStuck
  <1>2. QED
    BY <1>1, PoolInvariant, PTL

-----------------------------------------------------------------------------
(* The refinement of StatusService.                                         *)

\* The service counts as this module does, and reads as the gate does.
LEMMA ServiceIsGate ==
  /\ \A S : Service!Cardinality(S) = Cardinality(S)
  /\ \A c, r : Gate!Start(c, r) => Service!Start(c, r)
  /\ \A c : Gate!Stop(c) => Service!Stop(c)
  /\ Service!Readers = Gate!Readers
  /\ Gate!Init => Service!Init
  BY DEF Service!Cardinality, Cardinality, Gate!Cardinality, Gate!Start, Service!Start,
         Gate!Stop, Service!Stop, Gate!Readers, Service!Readers, Gate!Init, Service!Init

\* Once the Close that shuts the pool down has returned, the workers have left
\* and serve nothing, and the channel is closed.
LEMMA ShutdownIsFinal ==
  ASSUME PoolInv
  PROVE  /\ Shutdown => exited = Worker /\ chanClosed
         /\ exited = Worker => InService = {} /\ Worker \cap slots = {}
  <1>1. Shutdown => exited = Worker /\ chanClosed
    BY DEF PoolInv, OneCloses, PastSwap, CloseOrder, Shutdown
  <1>2. ASSUME exited = Worker PROVE InService = {} /\ Worker \cap slots = {}
    BY <1>2 DEF PoolInv, PoolTypeOK, LeftIdle, ServesInCall, InService, Range, LocksInv,
                SlotsAreReaders
  <1>3. QED
    BY <1>1, <1>2

\* Requests are where the service has them.
LEMMA PlacesAreSets ==
  ASSUME PoolInv
  PROVE  /\ Service!At("queued") = Waiting
         /\ Service!At("served") = InService
         /\ \A q \in Request : q \in Waiting => Place[q] = "queued"
         /\ \A q \in Request : q \in InService => Place[q] = "served"
  <1>1. Waiting \subseteq Request /\ InService \subseteq Request
    <2>1. queue \in Seq(Request) /\ serving \in [Worker -> Request \cup {None}]
      BY DEF PoolInv, PoolTypeOK
    <2>2. QED
      BY <2>1 DEF Waiting, InService, Range
  <1>2. Waiting \cap InService = {}
    BY DEF PoolInv, NothingLost
  <1>3. QED
    BY <1>1, <1>2 DEF Service!At, Place

\* No more requests wait than the channel holds.
LEMMA WaitingFits ==
  ASSUME PoolInv
  PROVE  IsFiniteSet(Waiting) /\ Cardinality(Waiting) \in Nat /\ Cardinality(Waiting) <= Len(queue)
  <1>1. queue \in Seq(Request) /\ Len(queue) \in Nat /\ DOMAIN queue = 1 .. Len(queue)
    BY DEF PoolInv, PoolTypeOK
  <1>2. queue \in Surjection(1 .. Len(queue), Waiting)
    BY <1>1 DEF Surjection, Waiting, Range
  <1>3. IsFiniteSet(1 .. Len(queue)) /\ Cardinality(1 .. Len(queue)) = Len(queue)
    BY <1>1, FS_Interval
  <1>4. IsFiniteSet(Waiting) /\ Cardinality(Waiting) <= Len(queue)
    BY <1>2, <1>3, FS_Surjection
  <1>5. QED
    BY <1>4, FS_CardinalityType

\* A worker without a request leaves room for one.
LEMMA WorkerToSpare ==
  ASSUME PoolInv, NEW w \in Worker, serving[w] = None
  PROVE  Cardinality(InService) < Cardinality(Worker)
  <1> DEFINE U == {v \in Worker : serving[v] # None}
             f == [v \in U |-> serving[v]]
  <1>1. serving \in [Worker -> Request \cup {None}]
    BY DEF PoolInv, PoolTypeOK
  <1>2. f \in Surjection(U, InService)
    BY <1>1 DEF Surjection, InService, Range
  <1>3. IsFiniteSet(Worker)
    BY FS_Subset
  <1>4. U \subseteq Worker /\ U # Worker
    OBVIOUS
  <1>5. IsFiniteSet(U) /\ Cardinality(U) <= Cardinality(Worker) /\ Cardinality(U) # Cardinality(Worker)
    BY <1>3, <1>4, FS_Subset
  <1>6. IsFiniteSet(InService) /\ Cardinality(InService) <= Cardinality(U)
    BY <1>2, <1>5, FS_Surjection
  <1>7. /\ Cardinality(U) \in Nat /\ Cardinality(Worker) \in Nat
        /\ Cardinality(InService) \in Nat
    BY <1>3, <1>5, <1>6, FS_CardinalityType
  <1>8. QED
    BY <1>5, <1>6, <1>7

\* A step that the service does not see.
LEMMA ServiceStutters ==
  ASSUME PoolInv, UNCHANGED <<queue, serving, answered, submit, closing>>
  PROVE  Reply' = Reply /\ Place' = Place /\ Shutdown' = Shutdown
  BY DEF Reply, Place, Shutdown, Waiting, InService

\* Submit accepts the request, refuses it, or has only looked at the context.
LEMMA SubmitIsService ==
  ASSUME PoolInv, PoolInv', NEW q \in Request, SubmitStep(q)
  PROVE  [Service!ServiceNext]_(Service!serviceVars)
  <1> USE DEF PoolInv
  <1>1. /\ UNCHANGED <<lockVars, serving, closing, answered>>
        /\ submit[q] \in {"new", "checked"}
    BY DEF SubmitStep, SubmitCheck, SubmitSend
  <1>2. Reading' = Reading /\ Shutdown' = Shutdown /\ InService' = InService
    BY <1>1, OthersStutter DEF Shutdown, InService
  <1>3. submit \in [Request -> {"new", "checked", "accepted", "refused"}] /\ queue \in Seq(Request)
    BY DEF PoolTypeOK
  <1>4. Reply[q] = "none"
    BY <1>1 DEF Reply
  <1>5. CASE UNCHANGED queue /\ submit' = [submit EXCEPT ![q] = "refused"]
    <2>1. Place' = Place
      BY <1>1, <1>2, <1>5 DEF Place, Waiting
    <2>2. Reply' = [Reply EXCEPT ![q] = "refused"]
      BY <1>3, <1>5 DEF Reply
    <2>3. QED
      BY <1>2, <1>4, <2>1, <2>2 DEF Service!ServiceNext, Service!Refuse
  <1>6. CASE UNCHANGED queue /\ submit' \in {submit, [submit EXCEPT ![q] = "checked"]}
    <2>1. Place' = Place
      BY <1>1, <1>2, <1>6 DEF Place, Waiting
    <2>2. Reply' = Reply
      BY <1>1, <1>3, <1>6 DEF Reply
    <2>3. QED
      BY <1>2, <2>1, <2>2 DEF Service!serviceVars
  <1>7. CASE /\ ~chanClosed /\ Len(queue) < Capacity
             /\ queue' = Append(queue, q) /\ submit' = [submit EXCEPT ![q] = "accepted"]
    <2>1. q \notin Waiting \cup InService \cup answered
      BY <1>1 DEF NothingLost
    <2>2. Waiting' = Waiting \cup {q}
      BY <1>3, <1>7, SendWaits
    <2>3. Place[q] = "outside" /\ Place' = [Place EXCEPT ![q] = "queued"]
      BY <1>1, <1>2, <2>1, <2>2 DEF Place
    <2>4. Reply' = [Reply EXCEPT ![q] = "accepted"]
      BY <1>3, <1>7 DEF Reply
    <2>5. ~Shutdown
      BY <1>7, ShutdownIsFinal
    <2>6. Service!Cardinality(Service!At("queued")) < 2 * Service!Cardinality(Worker)
      <3>1. Capacity \in Nat /\ Len(queue) \in Nat
        BY <1>3, FS_Subset, FS_CardinalityType DEF Capacity
      <3>2. Cardinality(Waiting) < Capacity
        BY <1>7, <3>1, WaitingFits
      <3>3. QED
        BY <3>2, PlacesAreSets, ServiceIsGate DEF Capacity
    <2>7. QED
      BY <1>2, <1>4, <2>3, <2>4, <2>5, <2>6 DEF Service!ServiceNext, Service!Accept
  <1>8. QED
    BY <1>5, <1>6, <1>7 DEF SubmitStep, SubmitCheck, SubmitSend

\* A worker serves the oldest request, answers the one it serves, reads, or
\* leaves.
LEMMA WorkerIsService ==
  ASSUME PoolInv, PoolInv', NEW w \in Worker, WorkerStep(w)
  PROVE  [Service!ServiceNext]_(Service!serviceVars)
  <1> USE DEF PoolInv
  <1>1. /\ serving \in [Worker -> Request \cup {None}] /\ queue \in Seq(Request)
        /\ exited \subseteq Worker /\ w \in Caller
    BY DEF PoolTypeOK
  <1>2. CASE Take(w)
    <2> DEFINE q == Head(queue)
    <2>1. /\ queue # <<>> /\ queue' = Tail(queue) /\ serving' = [serving EXCEPT ![w] = q]
          /\ UNCHANGED <<submit, closing, answered>> /\ w \notin exited
          /\ serving[w] = None
      BY <1>2 DEF Take, Call, CallNothing, ServesInCall
    <2>2. q \in Request /\ q # None
      BY <1>1, <2>1, HeadIsRequest
    <2>3. q \in Waiting /\ Waiting' = Waiting \ {q}
      BY <1>1, <2>1, TakeUnwaits DEF NothingLost
    <2> HIDE DEF q
    <2>4. InService' = InService \cup {q}
      BY <1>1, <2>1, <2>2 DEF InService, Range
    <2>5. Place[q] = "queued" /\ Place' = [Place EXCEPT ![q] = "served"]
      BY <2>1, <2>2, <2>3, <2>4 DEF Place
    <2>6. Reply' = Reply /\ Shutdown' = Shutdown
      BY <2>1 DEF Reply, Shutdown
    <2>7. ~Shutdown
      BY <1>1, <2>1, ShutdownIsFinal
    <2>8. Reading' = Reading
      <3>1. RepoOf[q] = None \/ RepoOf[q] \in Repo
        BY <2>2
      <3>2. CallNothing(w) \/ \E r \in Repo : Call(w, r)
        BY <1>2, <3>1 DEF Take, q
      <3>3. QED
        BY <1>1, <3>2, OthersStutter
    <2>9. Service!Cardinality(Service!At("served")) < Service!Cardinality(Worker)
      BY <2>1, PlacesAreSets, WorkerToSpare, ServiceIsGate
    <2>10. QED
      BY <2>2, <2>5, <2>6, <2>7, <2>8, <2>9 DEF Service!ServiceNext, Service!Serve
  <1>3. CASE Exit(w)
    <2>1. UNCHANGED <<lockVars, queue, serving, answered, submit, closing>>
      BY <1>3 DEF Exit
    <2>2. QED
      BY <2>1, ServiceStutters, OthersStutter DEF Service!serviceVars
  <1>4. CASE Callback(w)
    <2> DEFINE q == serving[w]
    <2>1. /\ serving' = [serving EXCEPT ![w] = None] /\ answered' = answered \cup {q}
          /\ UNCHANGED <<queue, submit, closing>> /\ q # None
      BY <1>4 DEF Callback, Return, ServesInCall
    <2>2. q \in Request /\ q \in InService /\ q \notin Waiting
      BY <1>1, <2>1 DEF InService, Range, NothingLost
    <2>3. InService' = InService \ {q} /\ Waiting' = Waiting
      BY <1>1, <2>1 DEF InService, Range, NothingLost, Waiting
    <2> HIDE DEF q
    <2>4. Place[q] = "served" /\ Place' = [Place EXCEPT ![q] = "answered"]
      BY <2>1, <2>2, <2>3 DEF Place
    <2>5. Reply' = Reply /\ Shutdown' = Shutdown
      BY <2>1 DEF Reply, Shutdown
    <2>6. Reading' = Reading
      BY <1>1, <1>4, OthersStutter DEF Callback
    <2>7. QED
      BY <2>2, <2>4, <2>5, <2>6 DEF Service!ServiceNext, Service!Answer
  <1>5. CASE Advance(w) /\ UNCHANGED poolVars
    <2>1. Reply' = Reply /\ Place' = Place /\ Shutdown' = Shutdown
      BY <1>5, ServiceStutters DEF poolVars
    <2>2. pc[w] # "idle"
      BY <1>5 DEF Advance, AcquireLock, TakeSlot, GiveUp, ReleaseSlot, Unlock
    <2>3. ~Shutdown
      BY <2>2, ShutdownIsFinal DEF LeftIdle
    <2>4. CASE TakeSlot(w)
      BY <1>1, <2>1, <2>3, <2>4, TakeSlotStarts, ServiceIsGate DEF Service!ServiceNext, Service!Read
    <2>5. CASE ReleaseSlot(w)
      BY <1>1, <2>1, <2>3, <2>5, ReleaseSlotStops, ServiceIsGate DEF Service!ServiceNext, Service!Read
    <2>6. CASE AcquireLock(w) \/ GiveUp(w) \/ Unlock(w)
      BY <1>1, <2>1, <2>6, OthersStutter DEF Service!serviceVars
    <2>7. QED
      BY <1>5, <2>4, <2>5, <2>6 DEF Advance
  <1>6. QED
    BY <1>2, <1>3, <1>4, <1>5 DEF WorkerStep

\* The Close that waits for the workers shuts the service; others are not seen.
LEMMA CloserIsService ==
  ASSUME PoolInv, PoolInv', NEW k \in Closer, CloserStep(k)
  PROVE  [Service!ServiceNext]_(Service!serviceVars)
  <1> USE DEF PoolInv
  <1>1. /\ closing \in [Closer -> {"new", "swapped", "cancelled", "waiting", "returned", "finished"}]
        /\ Worker \in SUBSET Caller
    BY DEF PoolTypeOK
  <1>2. UNCHANGED <<queue, serving, answered, submit>>
    BY DEF CloserStep, Swap, CancelPool, CloseChannel, Wait
  <1>3. Reply' = Reply /\ Place' = Place
    BY <1>2 DEF Reply, Place, Waiting, InService
  <1>4. Reading' = Reading
    BY <1>1, OthersStutter DEF CloserStep, Swap, CancelPool, CloseChannel, Wait
  <1>5. CASE Wait(k)
    <2>1. exited = Worker /\ closing[k] = "waiting" /\ closing' = [closing EXCEPT ![k] = "finished"]
      BY <1>5 DEF Wait, CloseStep
    <2>2. ~Shutdown
      BY <2>1 DEF Shutdown, OneCloses, PastSwap
    <2>3. Shutdown'
      BY <1>1, <2>1 DEF Shutdown
    <2>4. Service!At("served") = {}
      BY <2>1, ShutdownIsFinal, PlacesAreSets
    <2>5. Worker \cap Service!Readers = {}
      BY <2>1, ShutdownIsFinal, ReadingIsSlots, ServiceIsGate
    <2>6. (Shutdown') = TRUE /\ Shutdown = FALSE
      BY <2>2, <2>3 DEF Shutdown
    <2>7. QED
      BY <1>3, <1>4, <2>2, <2>4, <2>5, <2>6 DEF Service!ServiceNext, Service!Shut
  <1>6. CASE ~Wait(k)
    <2>1. PICK a \in {"swapped", "cancelled", "waiting", "returned"} :
            closing[k] # "finished" /\ closing' = [closing EXCEPT ![k] = a]
      BY <1>6 DEF CloserStep, Swap, CancelPool, CloseChannel, CloseStep
    <2>2. Shutdown' = Shutdown
      BY <1>1, <2>1 DEF Shutdown
    <2>3. QED
      BY <1>3, <1>4, <2>2 DEF Service!serviceVars
  <1>7. QED
    BY <1>5, <1>6

\* The tree's goroutines read, and are otherwise not seen.
LEMMA TreeIsService ==
  ASSUME PoolInv, NEW o \in Others, TreeCall(o)
  PROVE  [Service!ServiceNext]_(Service!serviceVars)
  <1> USE DEF PoolInv
  <1>1. Reply' = Reply /\ Place' = Place /\ Shutdown' = Shutdown
    BY ServiceStutters DEF TreeCall, poolVars
  <1>2. o \in Caller /\ o \notin Worker
    BY DEF Others
  <1>3. CASE TakeSlot(o)
    BY <1>1, <1>2, <1>3, TakeSlotStarts, ServiceIsGate DEF Service!ServiceNext, Service!Read
  <1>4. CASE ReleaseSlot(o)
    BY <1>1, <1>2, <1>4, ReleaseSlotStops, ServiceIsGate DEF Service!ServiceNext, Service!Read
  <1>5. CASE \/ \E r \in Repo : Call(o, r)
             \/ CallNothing(o) \/ Return(o) \/ AcquireLock(o) \/ GiveUp(o) \/ Unlock(o)
    <2>1. Reading' = Reading
      BY <1>2, <1>5, OthersStutter
    <2>2. QED
      BY <1>1, <2>1 DEF Service!serviceVars
  <1>6. QED
    BY <1>3, <1>4, <1>5 DEF TreeCall, Advance

\* A new pool is a service that nobody has asked for anything.
LEMMA PoolInitIsService == PoolInit => Service!ServiceInit
  <1> SUFFICES ASSUME PoolInit PROVE Service!ServiceInit
    OBVIOUS
  <1>1. Service!Init
    BY PoolInitIsInit, GateInit, ServiceIsGate
  <1>2. Waiting = {} /\ InService = {}
    BY DEF PoolInit, Waiting, InService, Range
  <1>3. Reply = [q \in Request |-> "none"] /\ Place = [q \in Request |-> "outside"]
    BY <1>2 DEF PoolInit, Reply, Place
  <1>4. Shutdown = FALSE
    BY DEF PoolInit, Shutdown
  <1>5. QED
    BY <1>1, <1>3, <1>4 DEF Service!ServiceInit

\* The channel, the workers, Close and the locks implement the service: each
\* request is accepted or refused once, and served and answered once if it was
\* accepted, within the channel's bound; repositories have one reader each;
\* and a Close that has shut the pool down leaves no worker that calls back.
THEOREM PoolImplementsService == PoolSpec => ServiceSpec
  <1>1. PoolInv /\ [PoolNext]_vars => [Service!ServiceNext]_(Service!serviceVars)
    <2> SUFFICES ASSUME PoolInv, [PoolNext]_vars
                 PROVE  [Service!ServiceNext]_(Service!serviceVars)
      OBVIOUS
    <2>1. PoolInv'
      BY PoolStepInv
    <2>2. CASE UNCHANGED vars
      BY <2>2, ServiceStutters, OthersStutter DEF vars, poolVars, Service!serviceVars, PoolInv
    <2>3. QED
      BY <2>1, <2>2, SubmitIsService, WorkerIsService, CloserIsService, TreeIsService DEF PoolNext
  <1>2. QED
    BY <1>1, PoolInvariant, PoolInitIsService, PTL DEF PoolSpec, ServiceSpec, Service!ServiceSpec

\* No call of Close panics, however many goroutines close the pool.
THEOREM PoolCloseNeverPanics == PoolSpec => CloseNeverPanics
  <1>1. PoolInv /\ [PoolNext]_vars
          => [\A k \in Closer : closing'[k] # closing[k] => ~panicked']_vars
    BY PoolStepCloses
  <1>2. QED
    BY <1>1, PoolInvariant, PTL DEF PoolSpec, CloseNeverPanics
=============================================================================
