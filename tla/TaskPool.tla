------------------------------ MODULE TaskPool ------------------------------
(***************************************************************************)
(* What a caller of ThreadPool (iPrivJoin, threadPool.h) relies on: a task *)
(* that enqueue took is started once, in the order of the calls, no more   *)
(* tasks run at a time than there are threads, and when the destructor has *)
(* returned every task that was taken has ended.                           *)
(***************************************************************************)
EXTENDS Integers, FiniteSets

VARIABLES
    size,     \* threads of the pool
    taken,    \* tasks enqueue took: they are numbered from 1
    started,  \* of which the first so many were started
    ended,    \* tasks that came to their end
    phase     \* "open", or "closed" when the destructor has returned

pool == <<size, taken, started, ended, phase>>

Running == (1 .. started) \ ended

PoolInit == taken = 0 /\ started = 0 /\ ended = {} /\ phase = "open"

Take ==
    /\ phase = "open"
    /\ taken' = taken + 1
    /\ UNCHANGED <<size, started, ended, phase>>

Start ==
    /\ phase = "open"
    /\ started < taken
    /\ Cardinality(Running) < size
    /\ started' = started + 1
    /\ UNCHANGED <<size, taken, ended, phase>>

End(t) ==
    /\ phase = "open"
    /\ t \in Running
    /\ ended' = ended \cup {t}
    /\ UNCHANGED <<size, taken, started, phase>>

Close ==
    /\ phase = "open"
    /\ ended = 1 .. taken
    /\ phase' = "closed"
    /\ UNCHANGED <<size, taken, started, ended>>

PoolNext == Take \/ Start \/ (\E t \in Running : End(t)) \/ Close

PoolSpec == PoolInit /\ [][PoolNext]_pool
=============================================================================
