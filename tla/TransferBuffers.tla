--------------------------- MODULE TransferBuffers ---------------------------
(***************************************************************************)
(* The buffer pool of one transfer and its users. The pool allocates on    *)
(* demand up to a capacity that is exactly what the users may hold at the  *)
(* same time: two buffers for each permit of the LNA file semaphore, one   *)
(* for each WebTransport lane. A worker that outlives its request keeps    *)
(* buffers which nobody counts.                                            *)
(***************************************************************************)
EXTENDS Integers, FiniteSets

CONSTANTS
  Users,    \* LNA requests, or the lanes of all WebTransport connections
  Permits,  \* FILE_HTTP_PARALLELISM
  Planes    \* data planes explored, a subset of {"lna", "wt"}

ASSUME BufferAssumption ==
  /\ IsFiniteSet(Users) /\ Permits \in Nat \ {0} /\ Planes \subseteq {"lna", "wt"}

VARIABLES
  plane,     \* data plane of the transfer
  open,      \* the transfer is in the slot of the manager
  phase,     \* where each user is
  worker,    \* the user has a blocking worker that has not ended
  held,      \* buffers of the user, its worker and their channels
  allocated, \* PoolState.allocated
  available  \* PoolState.available

pool == <<allocated, available>>
poolVars == <<plane, open, phase, worker, held, pool>>

\* Buffers of a user, and of the pool.
Need     == IF plane = "lna" THEN 2 ELSE 1
Capacity == IF plane = "lna" THEN 2 * Permits ELSE Cardinality(Users)

\* The LNA requests that hold a permit, until their handler returns.
HasPermit(u) == phase[u] \in {"begun", "running", "failing", "failed"}
PermitFree   == Cardinality({u \in Users : HasPermit(u)}) < Permits

\* PooledBuffer::drop.
GiveBack(u, n) ==
  /\ held' = [held EXCEPT ![u] = @ - n]
  /\ available' = available + n

-----------------------------------------------------------------------------
\* An LNA request gets a permit and a lease while the transfer is in the slot; a
\* lane gets a lease as long as its connection lives.
Begin(u) ==
  /\ phase[u] = "idle" /\ ~worker[u]
  /\ plane = "lna" => open /\ PermitFree
  /\ phase' = [phase EXCEPT ![u] = "begun"]
  /\ UNCHANGED <<plane, open, worker, held, pool>>

\* BufferPool::acquire; an exhausted pool fails the request.
Acquire(u) ==
  /\ phase[u] = "begun" /\ held[u] < Need
  /\ IF available > 0 \/ allocated < Capacity
       THEN /\ held' = [held EXCEPT ![u] = @ + 1]
            /\ IF available > 0 THEN available' = available - 1 /\ UNCHANGED allocated
                                ELSE allocated' = allocated + 1 /\ UNCHANGED available
            /\ UNCHANGED phase
       ELSE /\ phase' = [phase EXCEPT ![u] = "failing"]
            /\ GiveBack(u, held[u])
            /\ UNCHANGED allocated
  /\ UNCHANGED <<plane, open, worker>>

StartWorker(u) ==
  /\ phase[u] = "begun" /\ held[u] = Need
  /\ phase'  = [phase EXCEPT ![u] = "running"]
  /\ worker' = [worker EXCEPT ![u] = TRUE]
  /\ UNCHANGED <<plane, open, held, pool>>

\* The worker has returned, all buffers are back, the lease is committed.
Finish(u) ==
  /\ phase[u] = "running"
  /\ GiveBack(u, held[u])
  /\ phase'  = [phase EXCEPT ![u] = "idle"]
  /\ worker' = [worker EXCEPT ![u] = FALSE]
  /\ UNCHANGED <<plane, open, allocated>>

\* The request breaks off or the lane is aborted with its connection: the buffers
\* in its own hands go back, the rest stays with the worker, if there is one.
Break(u) ==
  /\ phase[u] \in {"begun", "running"}
  /\ \E n \in 0 .. held[u] : GiveBack(u, n) /\ (worker[u] \/ n = held[u])
  /\ phase' = [phase EXCEPT ![u] = IF plane = "lna" THEN "failing" ELSE "gone"]
  /\ UNCHANGED <<plane, open, worker, allocated>>

WorkerEnds(u) ==
  /\ worker[u] /\ phase[u] # "running"
  /\ GiveBack(u, held[u])
  /\ worker' = [worker EXCEPT ![u] = FALSE]
  /\ UNCHANGED <<plane, open, phase, allocated>>

\* A failed request takes the transfer out of the slot, then its handler returns
\* the permit. The mutant returns the permit without the former.
ReturnPermitFirst(u) ==
  /\ phase[u] = "failing"
  /\ phase' = [phase EXCEPT ![u] = "idle"]
  /\ UNCHANGED <<plane, open, worker, held, pool>>
FailTransfer(u) ==
  /\ phase[u] = "failing"
  /\ open' = FALSE
  /\ phase' = [phase EXCEPT ![u] = "failed"]
  /\ UNCHANGED <<plane, worker, held, pool>>
ReturnPermit(u) ==
  /\ phase[u] = "failed"
  /\ phase' = [phase EXCEPT ![u] = "idle"]
  /\ UNCHANGED <<plane, open, worker, held, pool>>

\* The transfer is cancelled, or fails elsewhere.
Taken ==
  /\ open
  /\ open' = FALSE
  /\ UNCHANGED <<plane, phase, worker, held, pool>>

-----------------------------------------------------------------------------
PoolInit ==
  /\ plane \in Planes /\ open = TRUE
  /\ phase  = [u \in Users |-> "idle"]
  /\ worker = [u \in Users |-> FALSE]
  /\ held   = [u \in Users |-> 0]
  /\ allocated = 0 /\ available = 0

UserStep(u) ==
  \/ Begin(u) \/ Acquire(u) \/ StartWorker(u) \/ Finish(u)
  \/ Break(u) \/ WorkerEnds(u) \/ FailTransfer(u) \/ ReturnPermit(u)

PoolNext == (\E u \in Users : UserStep(u)) \/ Taken

PoolSpec == PoolInit /\ [][PoolNext]_poolVars

-----------------------------------------------------------------------------
(* Properties.                                                             *)

\* "buffer pool exhausted; an in-flight bound was violated" is never reported:
\* whoever needs a buffer finds one, also while workers that nobody waits for
\* keep theirs, because their requests hold on to the permit until no further
\* request can begin.
NeverExhausted ==
  \A u \in Users : phase[u] = "begun" /\ held[u] < Need =>
    available > 0 \/ allocated < Capacity
=============================================================================
