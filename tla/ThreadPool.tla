----------------------------- MODULE ThreadPool -----------------------------
(***************************************************************************)
(* The thread pool of the iPrivJoin baseline (threadPool.h): workers that  *)
(* wait on a condition variable for a queue of tasks, and the thread that  *)
(* makes the pool, calls enqueue and destroys it.  A task may call enqueue *)
(* as well, also while the destructor waits for it: that is the call the   *)
(* check of stop refuses.                                                  *)
(*                                                                         *)
(* A critical section of queue_mutex is one action; what happens outside   *)
(* it, running a task, notify_one, notify_all and the joins, are actions   *)
(* of their own.  condition.wait releases the mutex and blocks in one      *)
(* step; a blocked worker may also wake without a notification.            *)
(***************************************************************************)
EXTENDS Integers, Sequences, FiniteSets

CONSTANTS
    Workers,  \* the threads of the constructor
    Owner,    \* the thread that owns the pool
    MaxTasks  \* bound: calls of enqueue that take a task

ASSUME ThreadPoolAssumption ==
    /\ IsFiniteSet(Workers) /\ Workers # {}
    /\ Owner \notin Workers
    /\ MaxTasks \in Nat

Threads == Workers \cup {Owner}

VARIABLES
    tasks,      \* the queue: tasks are numbered by the calls of enqueue
    stop,
    calls,      \* calls of enqueue that took a task
    worker,     \* each worker: "loop", "waiting", "running" or "gone"
    task,       \* the task a worker has moved out of the queue, 0 for none
    notifying,  \* threads in enqueue, between the critical section and notify_one
    owner,      \* the destructor: "uses", "stopped", "joins" or "returned"
    finished,   \* tasks that returned
    failed      \* tasks whose call of enqueue threw: their futures hold the exception

threadPoolVars == <<tasks, stop, calls, worker, task, notifying, owner, finished, failed>>

ThreadPoolInit ==
    /\ tasks = << >>
    /\ stop = FALSE
    /\ calls = 0
    /\ worker = [w \in Workers |-> "loop"]
    /\ task = [w \in Workers |-> 0]
    /\ notifying = {}
    /\ owner = "uses"
    /\ finished = {}
    /\ failed = {}

Becomes(w, state) == worker' = [worker EXCEPT ![w] = state]

-----------------------------------------------------------------------------
(* A worker.  The predicate of condition.wait is evaluated before it       *)
(* blocks and again when it wakes: both are the state "loop".              *)
Awake == stop \/ tasks # << >>

WaitUnchecked(w) ==  \* mutant
    /\ worker[w] = "loop"
    /\ Becomes(w, "waiting")
    /\ UNCHANGED <<tasks, stop, calls, task, notifying, owner, finished, failed>>

Wait(w) ==
    /\ worker[w] = "loop"
    /\ ~ Awake
    /\ Becomes(w, "waiting")
    /\ UNCHANGED <<tasks, stop, calls, task, notifying, owner, finished, failed>>

WakeSpuriously(w) ==
    /\ worker[w] = "waiting"
    /\ Becomes(w, "loop")
    /\ UNCHANGED <<tasks, stop, calls, task, notifying, owner, finished, failed>>

MustLeaveAtStop == stop  \* mutant
MustLeave == stop /\ tasks = << >>

Leave(w) ==
    /\ worker[w] = "loop"
    /\ MustLeave
    /\ Becomes(w, "gone")
    /\ UNCHANGED <<tasks, stop, calls, task, notifying, owner, finished, failed>>

PopLast(w) ==  \* mutant
    /\ worker[w] = "loop"
    /\ Awake /\ ~ MustLeave
    /\ task' = [task EXCEPT ![w] = tasks[Len(tasks)]]
    /\ tasks' = SubSeq(tasks, 1, Len(tasks) - 1)
    /\ Becomes(w, "running")
    /\ UNCHANGED <<stop, calls, notifying, owner, finished, failed>>

Pop(w) ==
    /\ worker[w] = "loop"
    /\ Awake /\ ~ MustLeave
    /\ task' = [task EXCEPT ![w] = Head(tasks)]
    /\ tasks' = Tail(tasks)
    /\ Becomes(w, "running")
    /\ UNCHANGED <<stop, calls, notifying, owner, finished, failed>>

FinishKeepsTask(w) ==  \* mutant
    /\ worker[w] = "running" /\ w \notin notifying
    /\ finished' = finished \cup {task[w]}
    /\ Becomes(w, "loop")
    /\ UNCHANGED <<tasks, stop, calls, task, notifying, owner, failed>>

\* The packaged task returns and its future is ready.
Finish(w) ==
    /\ worker[w] = "running" /\ w \notin notifying
    /\ finished' = finished \cup {task[w]}
    /\ task' = [task EXCEPT ![w] = 0]
    /\ Becomes(w, "loop")
    /\ UNCHANGED <<tasks, stop, calls, notifying, owner, failed>>

-----------------------------------------------------------------------------
(* enqueue, called by the owner before it destroys the pool or by a task.  *)
Calls(c) ==
    /\ c \notin notifying
    /\ IF c = Owner THEN owner = "uses" ELSE worker[c] = "running"

Enqueue(c) ==
    /\ Calls(c)
    /\ ~ stop
    /\ calls < MaxTasks
    /\ calls' = calls + 1
    /\ tasks' = Append(tasks, calls + 1)
    /\ notifying' = notifying \cup {c}
    /\ UNCHANGED <<stop, worker, task, owner, finished, failed>>

\* "enqueue on stopped ThreadPool": the exception ends the calling task.
EnqueueThrows(w) ==
    /\ Calls(w)
    /\ stop
    /\ failed' = failed \cup {task[w]}
    /\ task' = [task EXCEPT ![w] = 0]
    /\ Becomes(w, "loop")
    /\ UNCHANGED <<tasks, stop, calls, notifying, owner, finished>>

Waiting == {w \in Workers : worker[w] = "waiting"}

NotifyOne(c) ==
    /\ c \in notifying
    /\ notifying' = notifying \ {c}
    /\ \/ Waiting = {} /\ UNCHANGED worker
       \/ \E w \in Waiting : Becomes(w, "loop")
    /\ UNCHANGED <<tasks, stop, calls, task, owner, finished, failed>>

-----------------------------------------------------------------------------
(* The destructor.                                                         *)
Stop ==
    /\ owner = "uses"
    /\ Owner \notin notifying
    /\ stop' = TRUE
    /\ owner' = "stopped"
    /\ UNCHANGED <<tasks, calls, worker, task, notifying, finished, failed>>

WokenOne == IF Waiting = {} THEN {} ELSE {CHOOSE w \in Waiting : TRUE}  \* mutant
Woken == Waiting

NotifyAll ==
    /\ owner = "stopped"
    /\ owner' = "joins"
    /\ worker' = [w \in Workers |-> IF w \in Woken THEN "loop" ELSE worker[w]]
    /\ UNCHANGED <<tasks, stop, calls, task, notifying, finished, failed>>

\* The loop of joins.
Join ==
    /\ owner = "joins"
    /\ \A w \in Workers : worker[w] = "gone"
    /\ owner' = "returned"
    /\ UNCHANGED <<tasks, stop, calls, worker, task, notifying, finished, failed>>

-----------------------------------------------------------------------------
Ended ==
    /\ owner = "returned"
    /\ UNCHANGED threadPoolVars

ThreadPoolNext ==
    \/ \E w \in Workers :
         \/ Wait(w) \/ WakeSpuriously(w) \/ Leave(w) \/ Pop(w) \/ Finish(w)
         \/ EnqueueThrows(w)
    \/ \E c \in Threads : Enqueue(c) \/ NotifyOne(c)
    \/ Stop \/ NotifyAll \/ Join
    \/ Ended

(* A thread that can go on does, and a task that runs comes to its end.    *)
(* Nothing makes the owner destroy the pool, and nothing makes a blocked   *)
(* worker wake by itself.                                                  *)
Fairness ==
    /\ \A w \in Workers : WF_threadPoolVars(Wait(w) \/ Leave(w) \/ Pop(w) \/ Finish(w))
    /\ \A c \in Threads : WF_threadPoolVars(NotifyOne(c))
    /\ WF_threadPoolVars(NotifyAll \/ Join)

ThreadPoolSpec == ThreadPoolInit /\ [][ThreadPoolNext]_threadPoolVars /\ Fairness

-----------------------------------------------------------------------------
(* Type invariant: a worker holds a task while it runs one and at no other *)
(* time.                                                                   *)
ThreadPoolTypeOK ==
    /\ tasks \in Seq(1 .. calls)
    /\ stop \in BOOLEAN
    /\ calls \in Nat
    /\ worker \in [Workers -> {"loop", "waiting", "running", "gone"}]
    /\ task \in [Workers -> 0 .. calls]
    /\ \A w \in Workers : task[w] # 0 <=> worker[w] = "running"
    /\ notifying \subseteq Threads
    /\ owner \in {"uses", "stopped", "joins", "returned"}
    /\ finished \subseteq 1 .. calls
    /\ failed \subseteq 1 .. calls

Held == {task[w] : w \in {v \in Workers : worker[v] = "running"}}
Started == calls - Len(tasks)

(* A task that enqueue took is in one place: in the queue, in the order of *)
(* the calls, with one worker, or ended, and it ended once.                *)
OnePlace ==
    /\ \A k \in 1 .. Len(tasks) : tasks[k] = Started + k
    /\ \A v, w \in Workers : task[v] = task[w] /\ task[v] # 0 => v = w
    /\ finished \cap failed = {}
    /\ Held \cap (finished \cup failed) = {}
    /\ Held \cup finished \cup failed = 1 .. Started

(* No wake-up is lost: while a task is in the queue a worker is about to   *)
(* look at it, or runs a task after which it will, or a notification is    *)
(* under way; and once the destructor joins nobody waits any more.         *)
NoLostWakeup ==
    /\ tasks # << >> => \/ \E w \in Workers : worker[w] \in {"loop", "running"}
                        \/ notifying # {}
    /\ owner = "joins" => Waiting = {}

(* The destructor returns only when every task that was taken has ended,   *)
(* those that tasks took while others ran included: no future is left      *)
(* without a value or an exception.                                        *)
NoTaskLeft == owner = "returned" => finished \cup failed = 1 .. calls

(* Every task that enqueue took ends, whether the pool is destroyed or     *)
(* not.                                                                    *)
EveryTaskEnds ==
    \A t \in 1 .. MaxTasks : (t <= calls) ~> (t \in finished \cup failed)

(* The destructor returns.                                                 *)
DestructorReturns == (owner = "stopped") ~> (owner = "returned")

(* A pool of threads is a TaskPool of as many.                             *)
Abstract == INSTANCE TaskPool
    WITH size <- Cardinality(Workers), taken <- calls, started <- Started,
         ended <- finished \cup failed, phase <- IF owner = "returned" THEN "closed" ELSE "open"

ImplementsTaskPool == Abstract!PoolSpec
=============================================================================
