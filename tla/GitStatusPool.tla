---------------------------- MODULE GitStatusPool ----------------------------
(***************************************************************************)
(* GitStatusWorkerPool (pkg/gitutils/worker_pool.go) at work: goroutines   *)
(* submit requests to a bounded channel, workers take them, get the status *)
(* through RepoLocks and call back, and Close shuts the pool down while    *)
(* all of that goes on.  The tree's goroutines, which ask for a status     *)
(* without the pool, are callers of RepoLocks too.                         *)
(*                                                                         *)
(* A request is known by name and submitted once.  A request without a     *)
(* callback is the same but for the call; its path and whether it is a     *)
(* directory are left out.                                                 *)
(***************************************************************************)
EXTENDS RepoLocks, Sequences, Functions

CONSTANTS
  Worker,       \* the pool's goroutines
  Request,      \* requests submitted in a behaviour
  Closer,       \* goroutines that call Close
  RepoOf        \* [Request -> Repo], None for a request without repository

ASSUME PoolAssumption ==
  /\ Worker \subseteq Caller /\ Worker # {}
  /\ RepoOf \in [Request -> Repo \cup {None}]
  /\ None \notin Request

VARIABLES
  queue,        \* p.requests: the buffered requests
  chanClosed,   \* p.requests has been closed
  closed,       \* p.closed
  exited,       \* workers that have returned: wg counts the others
  serving,      \* [Worker -> Request]: the request a worker has taken, or None
  submit,       \* [Request -> where its Submit call is]
  closing,      \* [Closer -> where its Close call is]
  panicked,     \* a goroutine panicked, and the program has ended
  answered      \* history: requests whose callback has run

poolVars == <<queue, chanClosed, closed, exited, serving, submit, closing,
              panicked, answered>>
vars == <<lockVars, poolVars>>

Capacity == 2 * Cardinality(Worker)
Others == Caller \ Worker
Cancelled == Worker \subseteq done   \* p.ctx is done

PoolInit ==
  /\ Init
  /\ queue = <<>>
  /\ chanClosed = FALSE
  /\ closed = FALSE
  /\ exited = {}
  /\ serving = [w \in Worker |-> None]
  /\ submit = [q \in Request |-> "new"]
  /\ closing = [k \in Closer |-> "new"]
  /\ panicked = FALSE
  /\ answered = {}

-----------------------------------------------------------------------------
(* Submit: a look at the context, then a send that does not block.          *)

SubmitCheck(q) ==
  /\ submit[q] = "new"
  /\ submit' = [submit EXCEPT ![q] = IF Cancelled THEN "refused" ELSE "checked"]
  /\ UNCHANGED <<lockVars, queue, chanClosed, closed, exited, serving, closing,
                 panicked, answered>>

SendAlways(q) ==  \* mutant of SubmitSend: the channel has no bound
  /\ submit[q] = "checked"
  /\ IF chanClosed
     THEN panicked' = TRUE /\ UNCHANGED <<queue, submit>>
     ELSE /\ queue' = Append(queue, q)
          /\ submit' = [submit EXCEPT ![q] = "accepted"]
          /\ UNCHANGED panicked
  /\ UNCHANGED <<lockVars, chanClosed, closed, exited, serving, closing, answered>>

\* A send on a closed channel panics, in a select too; a full buffer drops
\* the request.
SubmitSend(q) ==
  /\ submit[q] = "checked"
  /\ IF chanClosed
     THEN panicked' = TRUE /\ UNCHANGED <<queue, submit>>
     ELSE /\ IF Len(queue) < Capacity
             THEN /\ queue' = Append(queue, q)
                  /\ submit' = [submit EXCEPT ![q] = "accepted"]
             ELSE /\ submit' = [submit EXCEPT ![q] = "refused"]
                  /\ UNCHANGED queue
          /\ UNCHANGED panicked
  /\ UNCHANGED <<lockVars, chanClosed, closed, exited, serving, closing, answered>>

-----------------------------------------------------------------------------
(* A worker's loop.  With the context done and a request at hand its select *)
(* takes either.                                                            *)

Take(w) ==
  /\ w \notin exited
  /\ queue # <<>>
  /\ IF RepoOf[Head(queue)] = None THEN CallNothing(w)
     ELSE Call(w, RepoOf[Head(queue)])
  /\ serving' = [serving EXCEPT ![w] = Head(queue)]
  /\ queue' = Tail(queue)
  /\ UNCHANGED <<chanClosed, closed, exited, submit, closing, panicked, answered>>

Exit(w) ==
  /\ w \notin exited
  /\ pc[w] = "idle"
  /\ Cancelled \/ (chanClosed /\ queue = <<>>)
  /\ exited' = exited \cup {w}
  /\ UNCHANGED <<lockVars, queue, chanClosed, closed, serving, submit, closing,
                 panicked, answered>>

SkipCallback(w) ==  \* mutant of Callback: nothing is done when the context is
  /\ Return(w)
  /\ serving' = [serving EXCEPT ![w] = None]
  /\ answered' = IF w \in done THEN answered ELSE answered \cup {serving[w]}
  /\ UNCHANGED <<queue, chanClosed, closed, exited, submit, closing, panicked>>

\* The callback returns once the event loop has run the update it queued.
Callback(w) ==
  /\ Return(w)
  /\ serving' = [serving EXCEPT ![w] = None]
  /\ answered' = answered \cup {serving[w]}
  /\ UNCHANGED <<queue, chanClosed, closed, exited, submit, closing, panicked>>

-----------------------------------------------------------------------------
(* Close.                                                                   *)

CloseStep(k, from, to) ==
  /\ closing[k] = from
  /\ closing' = [closing EXCEPT ![k] = to]

SwapNothing(k) ==  \* mutant of Swap: every call goes on to close the channel
  /\ CloseStep(k, "new", "swapped")
  /\ closed' = TRUE
  /\ UNCHANGED <<lockVars, queue, chanClosed, exited, serving, submit, panicked, answered>>

\* p.closed.Swap(true): every call but the first returns.
Swap(k) ==
  /\ CloseStep(k, "new", IF closed THEN "returned" ELSE "swapped")
  /\ closed' = TRUE
  /\ UNCHANGED <<lockVars, queue, chanClosed, exited, serving, submit, panicked, answered>>

CancelPool(k) ==
  /\ CloseStep(k, "swapped", "cancelled")
  /\ Cancel(Worker)
  /\ UNCHANGED <<queue, chanClosed, closed, exited, serving, submit, panicked, answered>>

\* Closing a closed channel panics.
CloseChannel(k) ==
  /\ CloseStep(k, "cancelled", "waiting")
  /\ chanClosed' = TRUE
  /\ panicked' = chanClosed
  /\ UNCHANGED <<lockVars, queue, closed, exited, serving, submit, answered>>

DontWait(k) ==  \* mutant of Wait
  /\ CloseStep(k, "waiting", "finished")
  /\ UNCHANGED <<lockVars, queue, chanClosed, closed, exited, serving, submit,
                 panicked, answered>>

\* p.wg.Wait(): this call returns with the workers gone.
Wait(k) ==
  /\ exited = Worker
  /\ CloseStep(k, "waiting", "finished")
  /\ UNCHANGED <<lockVars, queue, chanClosed, closed, exited, serving, submit,
                 panicked, answered>>

-----------------------------------------------------------------------------
SubmitStep(q) == ~panicked /\ (SubmitCheck(q) \/ SubmitSend(q))
WorkerStep(w) ==
  /\ ~panicked
  /\ \/ Take(w) \/ Exit(w) \/ Callback(w)
     \/ Advance(w) /\ UNCHANGED poolVars
CloserStep(k) ==
  ~panicked /\ (Swap(k) \/ CancelPool(k) \/ CloseChannel(k) \/ Wait(k))

\* getGitStatus of the tree, with a context that nobody cancels.
TreeCall(o) ==
  /\ ~panicked
  /\ \/ \E r \in Repo : Call(o, r)
     \/ CallNothing(o) \/ Return(o) \/ Advance(o)
  /\ UNCHANGED poolVars

PoolNext ==
  \/ \E q \in Request : SubmitStep(q)
  \/ \E w \in Worker : WorkerStep(w)
  \/ \E k \in Closer : CloserStep(k)
  \/ \E o \in Others : TreeCall(o)

PoolSpec == PoolInit /\ [][PoolNext]_vars

\* Every goroutine goes on when it can, and the mutexes and the semaphore
\* are fair.  Nobody has to submit, to close, or to open a tree node.
PoolFairness ==
  /\ \A q \in Request : WF_vars(~panicked /\ SubmitSend(q))
  /\ \A c \in Caller :
       /\ WF_vars(~panicked /\ Advance(c) /\ UNCHANGED poolVars)
       /\ SF_vars(~panicked /\ AcquireLock(c) /\ UNCHANGED poolVars)
       /\ SF_vars(~panicked /\ TakeSlot(c) /\ UNCHANGED poolVars)
  /\ \A w \in Worker : WF_vars(WorkerStep(w))
  /\ \A k \in Closer : WF_vars(~panicked /\ (CancelPool(k) \/ CloseChannel(k) \/ Wait(k)))

PoolFairSpec == PoolSpec /\ PoolFairness

-----------------------------------------------------------------------------
PoolTypeOK ==
  /\ LocksTypeOK
  /\ queue \in Seq(Request) /\ Len(queue) <= Capacity
  /\ chanClosed \in BOOLEAN /\ closed \in BOOLEAN /\ panicked \in BOOLEAN
  /\ exited \subseteq Worker
  /\ serving \in [Worker -> Request \cup {None}]
  /\ submit \in [Request -> {"new", "checked", "accepted", "refused"}]
  /\ closing \in [Closer -> {"new", "swapped", "cancelled", "waiting", "returned", "finished"}]
  /\ answered \subseteq Request

Waiting == Range(queue)
InService == Range(serving) \ {None}

(* A request is accepted once and never forgotten: it waits in the channel, *)
(* is with one worker, or has been called back; one that was dropped or     *)
(* refused is never called back.                                            *)
NothingLost ==
  /\ {q \in Request : submit[q] = "accepted"} = Waiting \cup InService \cup answered
  /\ \A i, j \in DOMAIN queue : queue[i] = queue[j] => i = j
  /\ Waiting \cap InService = {} /\ answered \cap (Waiting \cup InService) = {}
  /\ \A v, w \in Worker : serving[v] = serving[w] /\ serving[v] # None => v = w

(* What Submit has answered, for StatusService, and where a request is.     *)
Reply == [q \in Request |-> IF submit[q] \in {"new", "checked"} THEN "none" ELSE submit[q]]
Place == [q \in Request |-> IF q \in Waiting THEN "queued" ELSE IF q \in InService THEN "served"
                            ELSE IF q \in answered THEN "answered" ELSE "outside"]

Shutdown == \E k \in Closer : closing[k] = "finished"

Service == INSTANCE StatusService
  WITH reading <- Reading, reply <- Reply, place <- Place, shut <- Shutdown

(* The channel, the workers, Close and the locks together implement the     *)
(* service: in particular no callback runs and no worker reads a repository *)
(* once the Close that shuts the pool down has returned.                    *)
ServiceSpec == Service!ServiceSpec

Takeable == queue # <<>> /\ (RepoOf[Head(queue)] = None \/ HasMutex(RepoOf[Head(queue)]))

\* Can w go on, or somebody it waits for?
WorkerGoesOn(w) ==
  \/ pc[w] = "idle" /\ (Cancelled \/ Takeable)
  \/ pc[w] = "done"
  \/ \E c \in InFront(w) : GoesOn(c)

(* Nobody waits in a circle, although a call keeps its repository's mutex   *)
(* while it waits for a slot and Close waits for the workers: for every     *)
(* call, itself, the owner of its mutex or a call with a slot can go on;    *)
(* and while requests wait, or a Close, so can every worker that is left.   *)
NeverStuck ==
  /\ \A c \in Caller : pc[c] \in {"lock", "slot"} => \E d \in InFront(c) : GoesOn(d)
  /\ Waiting # {} \/ (\E k \in Closer : closing[k] = "waiting")
       => \A w \in Worker \ exited : WorkerGoesOn(w)

(* Close may be called any number of times: only a Submit can panic.        *)
CloseNeverPanics ==
  [][\A k \in Closer : closing'[k] # closing[k] => ~panicked']_vars

(* A request that was accepted is called back, unless the pool is closed.   *)
AcceptedIsAnswered ==
  \A q \in Request : (submit[q] = "accepted") ~> (q \in answered \/ closed)

(* Close returns, whatever the workers and the tree's goroutines are doing, *)
(* unless a panic ends the program.                                         *)
CloseReturns ==
  \A k \in Closer : (closing[k] = "swapped") ~> (closing[k] = "finished" \/ panicked)

(* WORKER_POOL_IMPLEMENTATION.md:43 says that all operations are            *)
(* goroutine-safe.  They are not: Submit may send on the closed channel.    *)
NoPanic == ~panicked
=============================================================================
