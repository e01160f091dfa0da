------------------------------- MODULE ConnPool -------------------------------
(***************************************************************************)
(* The connection pool of the API process (app/db.py) and the requests     *)
(* that share it.  GET /positions and GET /decisions borrow a connection   *)
(* for one query.  POST /run/trigger borrows one for its whole cycle       *)
(* (app/agent/runner.py) and, while it holds it, a second one whenever its *)
(* risk node reads positions: twice a symbol, one after the other          *)
(* (risk_manager.py through PostgresRepository).                           *)
(* psycopg_pool serves those who wait in order and raises PoolTimeout when *)
(* one has waited too long.  Each request is sent once.                    *)
(***************************************************************************)
EXTENDS Integers, SequencesExt

CONSTANTS Triggers,   \* POST /run/trigger
          Readers,    \* GET /positions, GET /decisions
          NReads,     \* how often a cycle reads positions
          PoolSize    \* max_size, 5 in the code

ASSUME PoolConstants ==
  /\ IsFiniteSet(Triggers) /\ IsFiniteSet(Readers) /\ Triggers \cap Readers = {}
  /\ NReads \in Nat /\ PoolSize \in Nat \ {0}

Requests == Triggers \cup Readers

VARIABLES
  stage,    \* where each request is
  left,     \* position reads a cycle has still to make
  owned,    \* connections each request holds
  free,     \* connections nobody holds
  waiting   \* the pool's queue of waiting requests

poolVars == <<stage, left, owned, free, waiting>>

Ended == {"served", "failed"}

PoolInit ==
  /\ stage = [r \in Requests |-> "new"]
  /\ left  = [r \in Requests |-> NReads]
  /\ owned = [r \in Requests |-> 0]
  /\ free = PoolSize /\ waiting = <<>>

To(r, s) == stage' = [stage EXCEPT ![r] = s]

-----------------------------------------------------------------------------
(* The pool *)

\* pool.connection(): a free connection at once, or a place in the queue.
GetConn(r, whenGiven, whenQueued) ==
  IF free > 0
  THEN /\ free' = free - 1
       /\ owned' = [owned EXCEPT ![r] = @ + 1]
       /\ To(r, whenGiven)
       /\ UNCHANGED waiting
  ELSE /\ waiting' = Append(waiting, r)
       /\ To(r, whenQueued)
       /\ UNCHANGED <<free, owned>>

\* Where a request goes on when its turn comes.
Served(r) == IF stage[r] = "queued" THEN "holding" ELSE "reading"

\* Request r gives back n connections and goes on to stage s: they go to those
\* in the queue, in their order.
HandOver(r, n, queue, s) ==
  LET given == Min({n, Len(queue)})
      lucky == {queue[i] : i \in 1..given}
  IN  /\ owned' = [q \in Requests |-> owned[q] + (IF q \in lucky THEN 1 ELSE 0)
                                              - (IF q = r THEN n ELSE 0)]
      /\ stage' = [q \in Requests |-> IF q = r THEN s
                                      ELSE IF q \in lucky THEN Served(q) ELSE stage[q]]
      /\ waiting' = SubSeq(queue, given + 1, Len(queue))
      /\ free' = free + n - given

PutConns(r, n, s) == HandOver(r, n, waiting, s)

-----------------------------------------------------------------------------
(* Requests *)

Arrive(r) ==
  /\ stage[r] = "new"
  /\ GetConn(r, "holding", "queued")
  /\ UNCHANGED left

\* A GET runs its query and returns.
Answer(r) ==
  /\ r \in Readers /\ stage[r] = "holding"
  /\ PutConns(r, 1, "served")
  /\ UNCHANGED left

\* The risk node wants a connection of its own.
AskPosition(c) ==
  /\ c \in Triggers /\ stage[c] = "holding" /\ left[c] > 0
  /\ GetConn(c, "reading", "queued2")
  /\ UNCHANGED left

\* It has the positions; the cycle goes on to its next read.
PositionRead(c) ==
  /\ stage[c] = "reading"
  /\ left' = [left EXCEPT ![c] = @ - 1]
  /\ PutConns(c, 1, "holding")

FinishCycle(c) ==
  /\ c \in Triggers /\ stage[c] = "holding" /\ left[c] = 0
  /\ PutConns(c, 1, "served")
  /\ UNCHANGED left

\* Mutant of Released: on an error the inner connection is not given back.
ReleasedOuterOnly(r) == Min({owned[r], 1})

\* Leaving the `async with` blocks.
Released(r) == owned[r]

\* A model, Alpaca or the database raises; run.py turns it into a 500.
Fail(r) ==
  /\ stage[r] \in {"holding", "reading"}
  /\ PutConns(r, Released(r), "failed")
  /\ UNCHANGED left

\* Mutant of MayTimeOut: those who wait, wait for good.
MayTimeOutNever(r) == FALSE

MayTimeOut(r) == r \in ToSet(waiting)

\* r leaves the queue and gives back what it holds already.
PoolTimeout(r) ==
  /\ MayTimeOut(r)
  /\ HandOver(r, owned[r], RemoveFirst(waiting, r), "failed")
  /\ UNCHANGED left

Progress(r) ==
  \/ Answer(r) \/ AskPosition(r) \/ PositionRead(r) \/ FinishCycle(r) \/ PoolTimeout(r)

PoolNext == \E r \in Requests : Arrive(r) \/ Progress(r) \/ Fail(r)

PoolSpec == PoolInit /\ [][PoolNext]_poolVars

\* Every await ends: queries return, models answer or time out, and the pool's
\* own timer runs.  Nobody has to send a request, and nothing has to fail.
FairPoolSpec == PoolSpec /\ \A r \in Requests : WF_poolVars(Progress(r))

-----------------------------------------------------------------------------
(* Properties *)

\* Nobody holds more than the two connections its code asks for.
PoolTypeOK ==
  /\ stage \in [Requests -> Ended \cup {"new", "queued", "holding", "queued2", "reading"}]
  /\ left \in [Requests -> 0..NReads]
  /\ owned \in [Requests -> 0..2]
  /\ free \in 0..PoolSize
  /\ IsInjective(waiting) /\ ToSet(waiting) = {r \in Requests : stage[r] \in {"queued", "queued2"}}

\* However requests fail or time out, every connection is either free or held by
\* a request that is still under way: none leaks.
NoneLeaks ==
  /\ free + SumFunctionOnSet(owned, Requests) = PoolSize
  /\ \A r \in Requests : stage[r] \in Ended => owned[r] = 0

\* PoolSize cycles that each hold one connection and wait for a second one do
\* not wait for ever: every request that was sent ends, with a result or a 500.
EveryRequestEnds ==
  \A r \in Requests : (stage[r] # "new") ~> (stage[r] \in Ended)
=============================================================================
