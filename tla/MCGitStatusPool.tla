-------------------------- MODULE MCGitStatusPool --------------------------
(* Small pools: the workers and a goroutine of the tree ask for the status  *)
(* of entries of repositories; q3 is outside of all of them. *)
EXTENDS GitStatusPool, TLC

CONSTANTS w1, w2, t1, r1, r2, r3, q1, q2, q3, m1, m2, m3, k1, k2

MCRepoOf == [q \in Request |-> CASE q = q1 -> r1 [] q = q2 -> r2 [] OTHER -> None]

\* Mutexes, workers and closers are interchangeable.
Symmetry == Permutations(Mutex) \cup Permutations(Worker) \cup Permutations(Closer)
=============================================================================
