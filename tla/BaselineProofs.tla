---------------------------- MODULE BaselineProofs ----------------------------
(***************************************************************************)
(* The baselines.  ThreadPool for every number of workers and calls: where *)
(* the tasks are, that no wake-up is lost, what the destructor leaves      *)
(* behind, and that the pool is a TaskPool.  Shuffle for every number of   *)
(* rows, of layers and of threads of either pool, as long as a call has no *)
(* more tasks than incrementPort has ports: connections go to the right    *)
(* place, the trees of the receiver stay punctured, and the shares add up  *)
(* to the permuted input.  Pirana for every degree, database and hash: the *)
(* constructors come to their end for the databases that are supported,    *)
(* the cuckoo table of a client of batches is sound, and every slot of the *)
(* payload is where the tests read it, for one query and for every query   *)
(* of a batch that the table holds.                                        *)
(***************************************************************************)
EXTENDS ThreadPool, Shuffle, Pirana, SumsAndRemainders, SequenceTheorems

-----------------------------------------------------------------------------
(* ThreadPool.                                                             *)

(* A worker has left only after it saw stop with an empty queue, and from  *)
(* then on nothing is enqueued; the destructor has set stop as soon as it  *)
(* was called.                                                             *)
Leaving ==
    /\ \A w \in Workers : worker[w] = "gone" => stop /\ tasks = << >>
    /\ stop <=> owner # "uses"
    /\ owner = "returned" => \A w \in Workers : worker[w] = "gone"

PoolInv == ThreadPoolTypeOK /\ OnePlace /\ Leaving /\ NoLostWakeup

(* What a task of the queue is, in plain arithmetic.                       *)
LEMMA QueueFacts ==
    ASSUME ThreadPoolTypeOK
    PROVE  /\ calls \in Nat
           /\ Len(tasks) \in Nat
           /\ tasks = << >> <=> Len(tasks) = 0
           /\ \A k \in 1 .. Len(tasks) : tasks[k] \in 1 .. calls
BY EmptySeq, LenProperties, ElementOfSeq DEF ThreadPoolTypeOK

(* The initial state has no task anywhere.                                 *)
LEMMA PoolInvInit == ThreadPoolInit => PoolInv
<1> SUFFICES ASSUME ThreadPoolInit PROVE PoolInv
    OBVIOUS
<1>1. ThreadPoolTypeOK
    <2>1. tasks \in Seq(1 .. calls)
        BY EmptySeq DEF ThreadPoolInit
    <2>2. task \in [Workers -> 0 .. calls]
        BY DEF ThreadPoolInit
    <2>3. \A w \in Workers : task[w] # 0 <=> worker[w] = "running"
        BY DEF ThreadPoolInit
    <2>4. /\ stop \in BOOLEAN /\ calls \in Nat
          /\ finished \subseteq 1 .. calls /\ failed \subseteq 1 .. calls
        BY DEF ThreadPoolInit
    <2> QED BY <2>1, <2>2, <2>3, <2>4 DEF ThreadPoolInit, ThreadPoolTypeOK
<1>2. OnePlace
    BY ThreadPoolAssumption DEF ThreadPoolInit, OnePlace, Held, Started
<1>3. Leaving /\ NoLostWakeup
    BY ThreadPoolAssumption DEF ThreadPoolInit, Leaving, NoLostWakeup, Waiting
<1> QED BY <1>1, <1>2, <1>3 DEF PoolInv

-----------------------------------------------------------------------------
(* Types.                                                                  *)

(* Enqueue, Pop and the two ends of a task are the actions that move a     *)
(* task; they keep the types.                                              *)
LEMMA TypeStep == PoolInv /\ [ThreadPoolNext]_threadPoolVars => ThreadPoolTypeOK'
<1> SUFFICES ASSUME PoolInv, [ThreadPoolNext]_threadPoolVars PROVE ThreadPoolTypeOK'
    OBVIOUS
<1> USE DEF PoolInv
<1>1. ASSUME NEW w \in Workers,
             Wait(w) \/ WakeSpuriously(w) \/ Leave(w)
      PROVE  ThreadPoolTypeOK'
    BY <1>1 DEF Wait, WakeSpuriously, Leave, Becomes, ThreadPoolTypeOK
<1>2. ASSUME NEW w \in Workers, Pop(w)
      PROVE  ThreadPoolTypeOK'
    <2>1. tasks # << >>
        BY <1>2 DEF Pop, Awake, MustLeave
    <2>2. Head(tasks) \in 1 .. calls /\ Tail(tasks) \in Seq(1 .. calls)
        BY <2>1, HeadTailProperties DEF ThreadPoolTypeOK
    <2>3. calls' = calls /\ calls \in Nat
        BY <1>2 DEF Pop, ThreadPoolTypeOK
    <2>4. task' \in [Workers -> 0 .. calls]
        BY <1>2, <2>2, <2>3 DEF Pop, ThreadPoolTypeOK
    <2>5. \A v \in Workers : task'[v] # 0 <=> worker'[v] = "running"
        BY <1>2, <2>2, <2>3 DEF Pop, Becomes, ThreadPoolTypeOK
    <2> QED BY <1>2, <2>2, <2>3, <2>4, <2>5 DEF Pop, Becomes, ThreadPoolTypeOK
<1>3. ASSUME NEW w \in Workers, Finish(w) \/ EnqueueThrows(w)
      PROVE  ThreadPoolTypeOK'
    <2>1. worker[w] = "running"
        BY <1>3, ThreadPoolAssumption DEF Finish, EnqueueThrows, Calls
    <2>2. task[w] \in 1 .. calls
        BY <2>1 DEF ThreadPoolTypeOK
    <2>3. /\ worker' = [worker EXCEPT ![w] = "loop"]
          /\ task' = [task EXCEPT ![w] = 0]
          /\ finished' \subseteq finished \cup {task[w]}
          /\ failed' \subseteq failed \cup {task[w]}
          /\ UNCHANGED <<tasks, stop, calls, notifying, owner>>
        BY <1>3 DEF Finish, EnqueueThrows, Becomes
    <2>4. task' \in [Workers -> 0 .. calls] /\ 0 \in 0 .. calls
        BY <2>2, <2>3 DEF ThreadPoolTypeOK
    <2>5. \A v \in Workers : task'[v] # 0 <=> worker'[v] = "running"
        BY <2>3 DEF ThreadPoolTypeOK
    <2>6. finished' \subseteq 1 .. calls /\ failed' \subseteq 1 .. calls
        BY <2>2, <2>3 DEF ThreadPoolTypeOK
    <2> QED BY <2>3, <2>4, <2>5, <2>6 DEF ThreadPoolTypeOK
<1>4. ASSUME NEW c \in Threads, Enqueue(c)
      PROVE  ThreadPoolTypeOK'
    <2>1. calls' = calls + 1 /\ calls \in Nat /\ calls' \in Nat
        BY <1>4 DEF Enqueue, ThreadPoolTypeOK
    <2>2. 1 .. calls \subseteq 1 .. calls' /\ calls' \in 1 .. calls'
        BY <2>1
    <2>3. tasks \in Seq(1 .. calls')
        BY <2>2, SeqMonotonic DEF ThreadPoolTypeOK
    <2>4. tasks' \in Seq(1 .. calls')
        BY <1>4, <2>1, <2>2, <2>3, AppendProperties DEF Enqueue
    <2>5. task' \in [Workers -> 0 .. calls']
        BY <1>4, <2>1 DEF Enqueue, ThreadPoolTypeOK
    <2> QED BY <1>4, <2>1, <2>2, <2>4, <2>5 DEF Enqueue, ThreadPoolTypeOK
<1>5. ASSUME NEW c \in Threads, NotifyOne(c)
      PROVE  ThreadPoolTypeOK'
    <2>1. worker' \in [Workers -> {"loop", "waiting", "running", "gone"}]
        BY <1>5 DEF NotifyOne, Becomes, Waiting, ThreadPoolTypeOK
    <2>2. \A w \in Workers : worker'[w] = "running" <=> worker[w] = "running"
        BY <1>5 DEF NotifyOne, Becomes, Waiting, ThreadPoolTypeOK
    <2> QED BY <1>5, <2>1, <2>2 DEF NotifyOne, ThreadPoolTypeOK
<1>6. CASE Stop \/ Join
    BY <1>6 DEF Stop, Join, ThreadPoolTypeOK
<1>7. CASE NotifyAll
    BY <1>7 DEF NotifyAll, Woken, Waiting, ThreadPoolTypeOK
<1>8. CASE UNCHANGED threadPoolVars
    BY <1>8 DEF threadPoolVars, ThreadPoolTypeOK
<1> QED BY <1>1, <1>2, <1>3, <1>4, <1>5, <1>6, <1>7, <1>8 DEF ThreadPoolNext, Ended

-----------------------------------------------------------------------------
(* Tasks.                                                                  *)

(* A step that leaves the queue, the workers' tasks and the ended tasks    *)
(* alone leaves every task where it is.                                    *)
LEMMA StaysInPlace ==
    ASSUME ThreadPoolTypeOK, ThreadPoolTypeOK', OnePlace,
           UNCHANGED <<tasks, calls, task, finished, failed>>
    PROVE  OnePlace'
<1>1. Held' = Held
    BY DEF Held, ThreadPoolTypeOK
<1> QED BY <1>1 DEF OnePlace, Started

(* The tasks the workers hold, by the tasks alone.                         *)
LEMMA HeldTasks ==
    ASSUME ThreadPoolTypeOK
    PROVE  Held = {task[w] : w \in Workers} \ {0}
BY DEF ThreadPoolTypeOK, Held

(* Enqueue adds a task behind the others; Pop takes the first one, the     *)
(* oldest that was not started; an ended task leaves its worker.           *)
LEMMA OnePlaceStep == PoolInv /\ [ThreadPoolNext]_threadPoolVars => OnePlace'
<1> SUFFICES ASSUME PoolInv, [ThreadPoolNext]_threadPoolVars PROVE OnePlace'
    OBVIOUS
<1>0. ThreadPoolTypeOK /\ ThreadPoolTypeOK' /\ OnePlace
    BY TypeStep DEF PoolInv
<1>h. /\ Held = {task[w] : w \in Workers} \ {0}
      /\ Held' = {task'[w] : w \in Workers} \ {0}
    BY <1>0, HeldTasks DEF ThreadPoolTypeOK, Held
<1>1. ASSUME NEW w \in Workers, Pop(w)
      PROVE  OnePlace'
    <2>1. /\ tasks # << >> /\ tasks \in Seq(1 .. calls)
          /\ worker[w] = "loop" /\ calls' = calls
          /\ finished' = finished /\ failed' = failed
          /\ tasks' = Tail(tasks)
          /\ task' = [task EXCEPT ![w] = Head(tasks)]
        BY <1>0, <1>1 DEF Pop, Awake, MustLeave, ThreadPoolTypeOK
    <2>2. /\ Len(tasks) \in Nat \ {0} /\ calls \in Nat
          /\ Len(tasks') = Len(tasks) - 1
          /\ \A k \in 1 .. Len(tasks) - 1 : tasks'[k] = tasks[k + 1]
          /\ Head(tasks) = tasks[1]
        BY <1>0, <2>1, HeadTailProperties, EmptySeq, LenProperties DEF ThreadPoolTypeOK
    <2>3. Started' = Started + 1 /\ Head(tasks) = Started + 1 /\ Started \in Int
        BY <1>0, <2>1, <2>2 DEF Started, OnePlace
    <2>4. task[w] = 0 /\ task'[w] = Started + 1
        BY <1>0, <2>1, <2>3 DEF ThreadPoolTypeOK
    <2>5. \A v \in Workers : v # w => task'[v] = task[v]
        BY <1>0, <2>1 DEF ThreadPoolTypeOK
    <2>6. Started \in Nat
        <3>1. tasks[1] \in 1 .. calls
            BY <2>1, <2>2, ElementOfSeq
        <3> QED BY <2>2, <2>3, <3>1
    <2>7. Held \subseteq 1 .. Started /\ finished \cup failed \subseteq 1 .. Started
        BY <1>0 DEF OnePlace
    <2>8. Held' = Held \cup {Started + 1}
        BY <1>h, <2>4, <2>5, <2>6
    <2>9. \A k \in 1 .. Len(tasks') : tasks'[k] = Started' + k
        BY <1>0, <2>2, <2>3 DEF OnePlace
    <2>10. ASSUME NEW u \in Workers, NEW v \in Workers, task'[u] = task'[v], task'[u] # 0
           PROVE  u = v
        <3>1. \A x \in Workers : task[x] # 0 => task[x] \in 1 .. Started
            BY <1>h, <2>7
        <3>2. \A x \in Workers : x # w => task'[x] # Started + 1
            BY <2>5, <2>6, <3>1
        <3> QED BY <1>0, <2>4, <2>5, <2>10, <3>2 DEF OnePlace
    <2>11. Held' \cap (finished' \cup failed') = {}
        BY <1>0, <2>1, <2>6, <2>7, <2>8 DEF OnePlace
    <2>12. Held' \cup finished' \cup failed' = 1 .. Started'
        <3>1. 1 .. (Started + 1) = (1 .. Started) \cup {Started + 1}
            BY <2>6
        <3> QED BY <1>0, <2>1, <2>3, <2>8, <3>1 DEF OnePlace
    <2> QED BY <1>0, <2>1, <2>9, <2>10, <2>11, <2>12 DEF OnePlace
<1>2. ASSUME NEW w \in Workers, Finish(w) \/ EnqueueThrows(w)
      PROVE  OnePlace'
    <2>1. /\ worker[w] = "running"
          /\ task' = [task EXCEPT ![w] = 0]
          /\ tasks' = tasks /\ calls' = calls
          /\ \/ finished' = finished \cup {task[w]} /\ failed' = failed
             \/ failed' = failed \cup {task[w]} /\ finished' = finished
        BY <1>2, ThreadPoolAssumption DEF Finish, EnqueueThrows, Calls
    <2>2. task[w] \in Held /\ task[w] # 0
        BY <1>0, <2>1 DEF Held, ThreadPoolTypeOK
    <2>3. task'[w] = 0 /\ \A v \in Workers : v # w => task'[v] = task[v]
        BY <1>0, <2>1 DEF ThreadPoolTypeOK
    <2>4. Held' = Held \ {task[w]}
        <3>1. \A v \in Workers : v # w => task[v] # task[w]
            BY <1>0, <2>2 DEF OnePlace
        <3> QED BY <1>h, <2>3, <3>1
    <2>5. Started' = Started
        BY <2>1 DEF Started
    <2>6. \A u, v \in Workers : task'[u] = task'[v] /\ task'[u] # 0 => u = v
        BY <1>0, <2>3 DEF OnePlace
    <2> QED BY <1>0, <2>1, <2>2, <2>4, <2>5, <2>6 DEF OnePlace
<1>3. ASSUME NEW c \in Threads, Enqueue(c)
      PROVE  OnePlace'
    <2>1. /\ calls' = calls + 1 /\ calls \in Nat
          /\ tasks' = Append(tasks, calls + 1)
          /\ task' = task /\ finished' = finished /\ failed' = failed
        BY <1>0, <1>3 DEF Enqueue, ThreadPoolTypeOK
    <2>2. tasks \in Seq(1 .. calls + 1) /\ calls + 1 \in 1 .. calls + 1
        <3>1. 1 .. calls \subseteq 1 .. calls + 1
            BY <2>1
        <3> QED BY <1>0, <2>1, <3>1, SeqMonotonic DEF ThreadPoolTypeOK
    <2>3. /\ Len(tasks') = Len(tasks) + 1 /\ Len(tasks) \in Nat
          /\ \A k \in 1 .. Len(tasks) : tasks'[k] = tasks[k]
          /\ tasks'[Len(tasks) + 1] = calls + 1
        BY <2>1, <2>2, AppendProperties, LenProperties
    <2>4. Started' = Started /\ Held' = Held
        BY <1>h, <2>1, <2>3 DEF Started
    <2>5. \A k \in 1 .. Len(tasks') : tasks'[k] = Started' + k
        <3> SUFFICES ASSUME NEW k \in 1 .. Len(tasks') PROVE tasks'[k] = Started' + k
            OBVIOUS
        <3>1. CASE k \in 1 .. Len(tasks)
            BY <1>0, <2>3, <2>4, <3>1 DEF OnePlace
        <3>2. CASE k = Len(tasks) + 1
            BY <2>1, <2>3, <2>4, <3>2 DEF Started
        <3> QED BY <2>3, <3>1, <3>2
    <2> QED BY <1>0, <2>1, <2>4, <2>5 DEF OnePlace
<1>4. ASSUME UNCHANGED <<tasks, calls, task, finished, failed>>
      PROVE  OnePlace'
    BY <1>0, <1>4, StaysInPlace
<1> QED BY <1>1, <1>2, <1>3, <1>4
    DEF ThreadPoolNext, Ended, threadPoolVars, Wait, WakeSpuriously, Leave, NotifyOne, Stop,
        NotifyAll, Join
-----------------------------------------------------------------------------
(* The end of the pool.                                                    *)

(* A worker leaves only from an empty stopped queue, which nothing fills   *)
(* again: the owner that stopped it enqueues no more, and a task that      *)
(* calls enqueue gets an exception.                                        *)
LEMMA LeavingStep == PoolInv /\ [ThreadPoolNext]_threadPoolVars => Leaving'
<1> SUFFICES ASSUME PoolInv, [ThreadPoolNext]_threadPoolVars PROVE Leaving'
    OBVIOUS
<1>0. ThreadPoolTypeOK /\ Leaving
    BY DEF PoolInv
<1>1. ASSUME NEW w \in Workers, Wait(w) \/ WakeSpuriously(w)
      PROVE  Leaving'
    BY <1>0, <1>1 DEF Wait, WakeSpuriously, Becomes, Leaving, ThreadPoolTypeOK
<1>2. ASSUME NEW w \in Workers, Leave(w)
      PROVE  Leaving'
    BY <1>0, <1>2 DEF Leave, MustLeave, Becomes, Leaving, ThreadPoolTypeOK
<1>3. ASSUME NEW w \in Workers, Pop(w)
      PROVE  Leaving'
    BY <1>0, <1>3 DEF Pop, Awake, MustLeave, Becomes, Leaving, ThreadPoolTypeOK
<1>4. ASSUME NEW w \in Workers, Finish(w) \/ EnqueueThrows(w)
      PROVE  Leaving'
    <2>1. worker[w] = "running" /\ worker' = [worker EXCEPT ![w] = "loop"]
          /\ UNCHANGED <<tasks, stop, owner>>
        BY <1>4, ThreadPoolAssumption DEF Finish, EnqueueThrows, Calls, Becomes
    <2> QED BY <1>0, <2>1 DEF Leaving, ThreadPoolTypeOK
<1>5. ASSUME NEW c \in Threads, Enqueue(c)
      PROVE  Leaving'
    BY <1>0, <1>5 DEF Enqueue, Leaving
<1>6. ASSUME NEW c \in Threads, NotifyOne(c)
      PROVE  Leaving'
    <2>1. \A w \in Workers : worker'[w] = "gone" <=> worker[w] = "gone"
        BY <1>0, <1>6 DEF NotifyOne, Becomes, Waiting, ThreadPoolTypeOK
    <2> QED BY <1>0, <1>6, <2>1 DEF NotifyOne, Leaving
<1>7. CASE Stop
    BY <1>0, <1>7 DEF Stop, Leaving
<1>8. CASE NotifyAll
    <2>1. \A w \in Workers : worker'[w] = "gone" <=> worker[w] = "gone"
        BY <1>0, <1>8 DEF NotifyAll, Woken, Waiting, ThreadPoolTypeOK
    <2> QED BY <1>0, <1>8, <2>1 DEF NotifyAll, Leaving
<1>9. CASE Join
    BY <1>0, <1>9 DEF Join, Leaving
<1>10. CASE UNCHANGED threadPoolVars
    BY <1>0, <1>10 DEF threadPoolVars, Leaving
<1> QED BY <1>1, <1>2, <1>3, <1>4, <1>5, <1>6, <1>7, <1>8, <1>9, <1>10 DEF ThreadPoolNext, Ended

(* A worker blocks only where the queue is empty and stop is not set, and  *)
(* a thread that changed either has its notification still to give.        *)
LEMMA WakeupStep == PoolInv /\ [ThreadPoolNext]_threadPoolVars => NoLostWakeup'
<1> SUFFICES ASSUME PoolInv, [ThreadPoolNext]_threadPoolVars PROVE NoLostWakeup'
    OBVIOUS
<1>0. ThreadPoolTypeOK /\ Leaving /\ NoLostWakeup /\ Workers # {}
    BY ThreadPoolAssumption DEF PoolInv
<1>1. ASSUME NEW w \in Workers, Wait(w)
      PROVE  NoLostWakeup'
    BY <1>0, <1>1 DEF Wait, Awake, Becomes, Leaving, NoLostWakeup
<1>2. ASSUME NEW w \in Workers, Leave(w)
      PROVE  NoLostWakeup'
    BY <1>0, <1>2 DEF Leave, MustLeave, Becomes, Waiting, NoLostWakeup, ThreadPoolTypeOK
<1>3. ASSUME NEW w \in Workers,
             \/ worker' = [worker EXCEPT ![w] = "loop"]
             \/ worker' = [worker EXCEPT ![w] = "running"],
             UNCHANGED owner
      PROVE  NoLostWakeup'
    BY <1>0, <1>3 DEF Waiting, NoLostWakeup, ThreadPoolTypeOK
<1>4. ASSUME NEW w \in Workers,
             WakeSpuriously(w) \/ Pop(w) \/ Finish(w) \/ EnqueueThrows(w)
      PROVE  NoLostWakeup'
    BY <1>3, <1>4 DEF WakeSpuriously, Pop, Finish, EnqueueThrows, Becomes
<1>5. ASSUME NEW c \in Threads, Enqueue(c)
      PROVE  NoLostWakeup'
    BY <1>0, <1>5 DEF Enqueue, Waiting, NoLostWakeup
<1>6. ASSUME NEW c \in Threads, NotifyOne(c)
      PROVE  NoLostWakeup'
    <2>1. CASE \E w \in Waiting : Becomes(w, "loop")
        BY <1>3, <1>6, <2>1 DEF NotifyOne, Becomes, Waiting
    <2>2. CASE Waiting = {} /\ UNCHANGED worker
        <3>1. \A w \in Workers : worker[w] \in {"loop", "running", "gone"}
            BY <1>0, <2>2 DEF Waiting, ThreadPoolTypeOK
        <3>2. tasks # << >> => \E w \in Workers : worker[w] \in {"loop", "running"}
            BY <1>0, <3>1 DEF Leaving
        <3> QED BY <1>6, <2>2, <3>2 DEF NotifyOne, Waiting, NoLostWakeup
    <2> QED BY <1>6, <2>1, <2>2 DEF NotifyOne
<1>7. CASE Stop \/ Join
    BY <1>0, <1>7 DEF Stop, Join, Waiting, NoLostWakeup
<1>8. CASE NotifyAll
    <2>1. \A w \in Workers : /\ worker'[w] # "waiting"
                             /\ worker[w] \in {"loop", "running"} => worker'[w] = worker[w]
        BY <1>0, <1>8 DEF NotifyAll, Woken, Waiting, ThreadPoolTypeOK
    <2> QED BY <1>0, <1>8, <2>1 DEF NotifyAll, Waiting, NoLostWakeup
<1>9. CASE UNCHANGED threadPoolVars
    BY <1>0, <1>9 DEF threadPoolVars, Waiting, NoLostWakeup
<1> QED BY <1>1, <1>2, <1>4, <1>5, <1>6, <1>7, <1>8, <1>9 DEF ThreadPoolNext, Ended

(* The invariant is inductive.                                             *)
LEMMA PoolInvStep == PoolInv /\ [ThreadPoolNext]_threadPoolVars => PoolInv'
BY TypeStep, OnePlaceStep, LeavingStep, WakeupStep DEF PoolInv

(* Every reachable state satisfies the invariant.                          *)
LEMMA PoolInvariance == ThreadPoolSpec => []PoolInv
<1> QED BY PoolInvInit, PoolInvStep, PTL DEF ThreadPoolSpec

(* When the destructor has returned no worker holds a task and the queue   *)
(* is empty, so every task that was taken has ended.                       *)
LEMMA NothingLeft == PoolInv => NoTaskLeft
<1> SUFFICES ASSUME PoolInv, owner = "returned" PROVE finished \cup failed = 1 .. calls
    BY DEF NoTaskLeft
<1>1. ThreadPoolTypeOK /\ OnePlace
    BY DEF PoolInv
<1>2. tasks = << >> /\ \A w \in Workers : worker[w] = "gone"
    BY ThreadPoolAssumption DEF PoolInv, Leaving
<1>3. Started = calls /\ Held = {}
    BY <1>1, <1>2, QueueFacts DEF Started, Held
<1> QED BY <1>1, <1>3 DEF OnePlace

(* Every state of a pool has its type, for all workers and calls.          *)
THEOREM ThreadPoolTyped == ThreadPoolSpec => []ThreadPoolTypeOK
<1> QED BY PoolInvariance, PTL DEF PoolInv

(* A task is in one place and starts in the order of the calls of enqueue. *)
THEOREM TasksInOnePlace == ThreadPoolSpec => []OnePlace
<1> QED BY PoolInvariance, PTL DEF PoolInv

(* The condition variable loses no wake-up.                                *)
THEOREM WakeupsKept == ThreadPoolSpec => []NoLostWakeup
<1> QED BY PoolInvariance, PTL DEF PoolInv

(* The destructor leaves no task behind.                                   *)
THEOREM NoTaskIsLeft == ThreadPoolSpec => []NoTaskLeft
<1> QED BY PoolInvariance, NothingLeft, PTL

-----------------------------------------------------------------------------
(* The pool is a TaskPool.                                                 *)

(* A worker that is about to pop leaves a thread's room for its task.      *)
LEMMA RoomForOne ==
    ASSUME ThreadPoolTypeOK, NEW w \in Workers, worker[w] = "loop"
    PROVE  IsFiniteSet(Held) /\ Cardinality(Held) < Cardinality(Workers)
<1> DEFINE R == {v \in Workers : worker[v] = "running"}
           f == [v \in R |-> task[v]]
<1>1. /\ IsFiniteSet(Workers \ {w})
      /\ Cardinality(Workers \ {w}) = Cardinality(Workers) - 1
      /\ Cardinality(Workers) \in Nat
    BY ThreadPoolAssumption, FS_RemoveElement, FS_CardinalityType
<1>2. R \in SUBSET (Workers \ {w})
    OBVIOUS
<1>3. IsFiniteSet(R) /\ Cardinality(R) <= Cardinality(Workers \ {w}) /\ Cardinality(R) \in Nat
    BY <1>1, <1>2, FS_Subset, FS_CardinalityType
<1>4. f \in Surjection(R, Held)
    BY DEF Surjection, Held
<1>5. IsFiniteSet(Held) /\ Cardinality(Held) <= Cardinality(R)
    BY <1>3, <1>4, FS_Surjection
<1>6. Cardinality(Held) \in Nat
    BY <1>5, FS_CardinalityType
<1> QED BY <1>1, <1>3, <1>5, <1>6

(* Every step of the pool is a step of TaskPool or changes nothing there.  *)
LEMMA StepImplements ==
    PoolInv /\ PoolInv' /\ NoTaskLeft' /\ [ThreadPoolNext]_threadPoolVars
        => [Abstract!PoolNext]_(Abstract!pool)
<1> SUFFICES ASSUME PoolInv, PoolInv', NoTaskLeft', [ThreadPoolNext]_threadPoolVars
             PROVE  [Abstract!PoolNext]_(Abstract!pool)
    OBVIOUS
<1>0. ThreadPoolTypeOK /\ OnePlace /\ Leaving /\ ThreadPoolTypeOK' /\ OnePlace'
    BY DEF PoolInv
<1>r. Abstract!Running = Held
    BY <1>0 DEF Abstract!Running, OnePlace
<1>1. ASSUME NEW w \in Workers, Pop(w)
      PROVE  Abstract!Start
    <2>1. /\ tasks # << >> /\ worker[w] = "loop" /\ tasks \in Seq(1 .. calls)
          /\ UNCHANGED <<calls, finished, failed, owner>>
          /\ tasks' = Tail(tasks)
        BY <1>0, <1>1 DEF Pop, Awake, MustLeave, ThreadPoolTypeOK
    <2>2. Len(tasks') = Len(tasks) - 1 /\ Len(tasks) \in Nat \ {0} /\ calls \in Nat
        BY <1>0, <2>1, HeadTailProperties, EmptySeq DEF ThreadPoolTypeOK
    <2>3. Started < calls /\ Started' = Started + 1
        BY <2>1, <2>2 DEF Started
    <2>4. owner # "returned"
        BY <1>0, <2>1 DEF Leaving
    <2>5. Abstract!Cardinality(Abstract!Running) < Cardinality(Workers)
        <3>1. Cardinality(Held) < Cardinality(Workers)
            BY <1>0, <2>1, RoomForOne
        <3>2. Abstract!Cardinality(Held) = Cardinality(Held)
            BY DEF Cardinality, Abstract!Cardinality
        <3> QED BY <1>r, <3>1, <3>2
    <2>6. /\ UNCHANGED <<Cardinality(Workers), calls, finished \cup failed>>
          /\ owner' = owner
        BY <2>1
    <2> QED BY <2>3, <2>4, <2>5, <2>6 DEF Abstract!Start
<1>2. ASSUME NEW w \in Workers, Finish(w) \/ EnqueueThrows(w)
      PROVE  \E ended \in Abstract!Running : Abstract!End(ended)
    <2>1. /\ worker[w] = "running"
          /\ UNCHANGED <<tasks, calls, owner>>
          /\ (finished \cup failed)' = (finished \cup failed) \cup {task[w]}
        BY <1>2, ThreadPoolAssumption DEF Finish, EnqueueThrows, Calls
    <2>2. task[w] \in Abstract!Running
        BY <1>r, <2>1 DEF Held
    <2>3. owner # "returned"
        BY <1>0, <2>1 DEF Leaving
    <2>4. Abstract!End(task[w])
        BY <2>1, <2>2, <2>3 DEF Abstract!End, Started
    <2> QED BY <2>2, <2>4
<1>3. ASSUME NEW c \in Threads, Enqueue(c)
      PROVE  Abstract!Take
    <2>1. /\ calls' = calls + 1 /\ calls \in Nat
          /\ tasks' = Append(tasks, calls + 1)
          /\ UNCHANGED <<owner, finished, failed>>
          /\ ~ stop
        BY <1>0, <1>3 DEF Enqueue, ThreadPoolTypeOK
    <2>2. tasks \in Seq(1 .. calls + 1) /\ calls + 1 \in 1 .. calls + 1
        <3>1. 1 .. calls \subseteq 1 .. calls + 1
            BY <2>1
        <3> QED BY <1>0, <2>1, <3>1, SeqMonotonic DEF ThreadPoolTypeOK
    <2>3. Len(tasks') = Len(tasks) + 1 /\ Len(tasks) \in Nat
        BY <2>1, <2>2, AppendProperties, LenProperties
    <2>4. Started' = Started
        BY <2>1, <2>3 DEF Started
    <2>5. owner # "returned" /\ owner' # "returned"
        BY <1>0, <2>1 DEF Leaving
    <2> QED BY <2>1, <2>4, <2>5 DEF Abstract!Take
<1>4. ASSUME Join
      PROVE  Abstract!Close
    <2>1. owner' = "returned" /\ owner # "returned" /\ UNCHANGED <<tasks, calls, finished, failed>>
        BY <1>4 DEF Join
    <2>2. finished \cup failed = 1 .. calls
        BY <2>1 DEF NoTaskLeft
    <2>3. UNCHANGED <<Cardinality(Workers), calls, Started, finished \cup failed>>
        BY <2>1 DEF Started
    <2> QED BY <2>1, <2>2, <2>3 DEF Abstract!Close
<1>5. ASSUME UNCHANGED <<tasks, calls, finished, failed>>,
             owner # "returned" <=> owner' # "returned"
      PROVE  UNCHANGED Abstract!pool
    <2>1. UNCHANGED Started
        BY <1>5 DEF Started
    <2> QED BY <1>5, <2>1 DEF Abstract!pool
<1>6. ASSUME NEW w \in Workers, Wait(w) \/ WakeSpuriously(w) \/ Leave(w)
      PROVE  UNCHANGED Abstract!pool
    BY <1>5, <1>6 DEF Wait, WakeSpuriously, Leave
<1>7. ASSUME NEW c \in Threads, NotifyOne(c)
      PROVE  UNCHANGED Abstract!pool
    BY <1>5, <1>7 DEF NotifyOne
<1>8. CASE Stop \/ NotifyAll
    BY <1>5, <1>8 DEF Stop, NotifyAll
<1>9. CASE UNCHANGED threadPoolVars
    BY <1>5, <1>9 DEF threadPoolVars
<1> QED BY <1>1, <1>2, <1>3, <1>4, <1>6, <1>7, <1>8, <1>9
    DEF ThreadPoolNext, Ended, Abstract!PoolNext

(* ThreadPool implements TaskPool: tasks start in the order of the calls,  *)
(* as many at a time as there are workers, and the destructor returns      *)
(* after the last of them.                                                 *)
THEOREM PoolImplements == ThreadPoolSpec => ImplementsTaskPool
<1>1. ThreadPoolInit => Abstract!PoolInit
    <2> SUFFICES ASSUME ThreadPoolInit PROVE Abstract!PoolInit
        OBVIOUS
    <2>1. calls = 0 /\ Started = 0
        <3>1. Len(tasks) = 0 /\ calls = 0
            BY EmptySeq DEF ThreadPoolInit
        <3> QED BY <3>1 DEF Started
    <2>2. finished \cup failed = {} /\ owner = "uses"
        BY DEF ThreadPoolInit
    <2> QED BY <2>1, <2>2 DEF Abstract!PoolInit
<1> QED BY <1>1, PoolInvariance, NothingLeft, StepImplements, PTL
       DEF ThreadPoolSpec, ImplementsTaskPool, Abstract!PoolSpec

-----------------------------------------------------------------------------
(* Shuffle.                                                                *)

(* Lists and their sums.  The trees are proved about layer by layer.       *)

(* A list is folded from its last element down.                            *)
LEMMA LastOfAnyPrefix ==
    ASSUME NEW k \in Nat
    PROVE  /\ \A x \in SUBSET (1 .. k + 1) :
                 IF k + 1 \in x THEN Max(x) = k + 1 /\ x \ {k + 1} \in SUBSET (1 .. k)
                 ELSE x \in SUBSET (1 .. k)
           /\ Max(1 .. k + 1) = k + 1 /\ (1 .. k + 1) \ {k + 1} = 1 .. k
<1>1. ASSUME NEW x \in SUBSET (1 .. k + 1), k + 1 \in x
      PROVE  Max(x) = k + 1
    <2>1. (\A y \in x : k + 1 >= y) /\ \A z \in x : (\A y \in x : z >= y) => z = k + 1
        BY <1>1
    <2> QED BY <1>1, <2>1 DEF Max
<1>2. \A x \in SUBSET (1 .. k + 1) : \A y \in x : y # k + 1 => y \in 1 .. k
    OBVIOUS
<1>3. \A y : y \in (1 .. k + 1) \ {k + 1} <=> y \in 1 .. k
    OBVIOUS
<1>4. 1 .. k + 1 \in SUBSET (1 .. k + 1) /\ k + 1 \in 1 .. k + 1
    OBVIOUS
<1> QED BY <1>1, <1>2, <1>3, <1>4

(* The sum of a list, from its front.                                      *)
LEMMA TotalIs ==
    ASSUME NEW n \in Nat, NEW s, DOMAIN s = 1 .. n
    PROVE  \E P : /\ P[0] = Zero
                  /\ \A k \in 0 .. n - 1 : P[k + 1] = Xor(P[k], s[k + 1])
                  /\ Total(s) = P[n]
<1> DEFINE Folds(D, iter) == iter = [x \in SUBSET D |->
                          IF x = {} THEN Zero
                          ELSE Xor(iter[x \ {Max(x)}], s[Max(x)])]
           S == {k \in 0 .. n : \E iter : Folds(1 .. k, iter)}
<1>1. Total(s) = (CHOOSE iter : Folds(1 .. n, iter))[1 .. n]
    BY DEF Total, FoldLeft, MapThenFoldSet
<1>2. 0 \in S
    <2> DEFINE none == [x \in SUBSET (1 .. 0) |-> Zero]
    <2>1. \A x \in SUBSET (1 .. 0) : x = {}
        OBVIOUS
    <2>2. Folds(1 .. 0, none)
        BY <2>1
    <2> QED BY <2>2
<1>3. ASSUME NEW k \in 0 .. n - 1, k \in S
      PROVE  k + 1 \in S
    <2>1. PICK iter : Folds(1 .. k, iter)
        BY <1>3
    <2> DEFINE more == [x \in SUBSET (1 .. k + 1) |->
                          IF k + 1 \in x THEN Xor(iter[x \ {k + 1}], s[k + 1]) ELSE iter[x]]
    <2>2. ASSUME NEW x \in SUBSET (1 .. k + 1)
          PROVE  more[x] = IF x = {} THEN Zero ELSE Xor(more[x \ {Max(x)}], s[Max(x)])
        <3>1. CASE k + 1 \in x
            <4>1. Max(x) = k + 1 /\ x \ {k + 1} \in SUBSET (1 .. k)
                <5>1. k \in Nat
                    OBVIOUS
                <5> QED BY <3>1, <5>1, LastOfAnyPrefix
            <4>2. more[x \ {k + 1}] = iter[x \ {k + 1}]
                OBVIOUS
            <4> QED BY <3>1, <4>1, <4>2
        <3>2. CASE k + 1 \notin x
            <4>1. x \in SUBSET (1 .. k)
                BY <3>2
            <4>2. more[x] = iter[x]
                BY <3>2
            <4>3. x \ {Max(x)} \in SUBSET (1 .. k) /\ more[x \ {Max(x)}] = iter[x \ {Max(x)}]
                BY <3>2, <4>1
            <4>4. iter[x] = IF x = {} THEN Zero ELSE Xor(iter[x \ {Max(x)}], s[Max(x)])
                BY <2>1, <4>1
            <4> QED BY <4>2, <4>3, <4>4
        <3> QED BY <3>1, <3>2
    <2>3. Folds(1 .. k + 1, more)
        BY <2>2
    <2>4. k + 1 \in 0 .. n
        OBVIOUS
    <2> QED BY <2>3, <2>4
<1>4. n \in S
    <2> HIDE DEF S
    <2>1. \A k \in 0 .. n - 1 : k \in S => k + 1 \in S
        BY <1>3
    <2>2. \A k \in 0 .. n : k \in S
        BY <1>2, <2>1, InductionUpTo
    <2> QED BY <2>2
<1>5. PICK iter : Folds(1 .. n, iter) /\ Total(s) = iter[1 .. n]
    BY <1>1, <1>4
<1> DEFINE P == [k \in 0 .. n |-> iter[1 .. k]]
<1>6. P[0] = Zero
    BY <1>5
<1>7. ASSUME NEW k \in 0 .. n - 1
      PROVE  P[k + 1] = Xor(P[k], s[k + 1])
    <2>1. k \in Nat /\ k + 1 \in 1 .. k + 1 /\ \A x \in 1 .. k + 1 : x \in 1 .. n
        OBVIOUS
    <2>2. Max(1 .. k + 1) = k + 1 /\ (1 .. k + 1) \ {k + 1} = 1 .. k
        BY <2>1, LastOfAnyPrefix
    <2>3. iter[1 .. k + 1] = Xor(iter[1 .. k], s[k + 1])
        BY <1>5, <2>1, <2>2
    <2> QED BY <2>3
<1> HIDE DEF Folds
<1>8. Total(s) = P[n]
    BY <1>5
<1> HIDE DEF P
<1> QED BY <1>6, <1>7, <1>8

(* Sums of blocks.                                                         *)
LEMMA XorFacts ==
    /\ \A v : Xor(v, Zero) = v /\ Xor(Zero, v) = v /\ Xor(v, v) = Zero
    /\ \A v, w : Xor(v, w) = Xor(w, v)
    /\ \A u, v, w : Xor(Xor(u, v), w) = Xor(u, Xor(v, w))
BY DEF Xor, Zero

(* An atom that is in one element of a list only is in its sum.            *)
LEMMA OnlyIn ==
    ASSUME NEW n \in Nat, NEW s, DOMAIN s = 1 .. n, NEW j \in 1 .. n, NEW x \in s[j],
           \A k \in 1 .. n : k # j => x \notin s[k]
    PROVE  x \in Total(s)
<1>1. PICK P : /\ P[0] = Zero
               /\ \A k \in 0 .. n - 1 : P[k + 1] = Xor(P[k], s[k + 1])
               /\ Total(s) = P[n]
    BY TotalIs
<1> DEFINE S == {k \in 0 .. n : x \in P[k] <=> k >= j}
<1>2. 0 \in S
    BY <1>1 DEF Zero
<1>3. ASSUME NEW k \in 0 .. n - 1, k \in S PROVE k + 1 \in S
    <2>1. P[k + 1] = Xor(P[k], s[k + 1]) /\ k + 1 \in 1 .. n
        BY <1>1
    <2> QED BY <1>3, <2>1 DEF Xor
<1>4. \A k \in 0 .. n : k \in S
    <2> HIDE DEF S
    <2> QED BY <1>2, <1>3, InductionUpTo
<1>5. n \in S
    BY <1>4
<1> QED BY <1>1, <1>5

(* A sum has no atoms but its elements'.                                   *)
LEMMA TotalWithin ==
    ASSUME NEW n \in Nat, NEW s, DOMAIN s = 1 .. n, NEW U, \A k \in 1 .. n : s[k] \subseteq U
    PROVE  Total(s) \subseteq U
<1>1. PICK P : /\ P[0] = Zero
               /\ \A k \in 0 .. n - 1 : P[k + 1] = Xor(P[k], s[k + 1])
               /\ Total(s) = P[n]
    BY TotalIs
<1> DEFINE S == {k \in 0 .. n : P[k] \subseteq U}
<1>2. 0 \in S
    BY <1>1 DEF Zero
<1>3. ASSUME NEW k \in 0 .. n - 1, k \in S PROVE k + 1 \in S
    <2>1. P[k + 1] = Xor(P[k], s[k + 1]) /\ k + 1 \in 1 .. n
        BY <1>1
    <2> QED BY <1>3, <2>1 DEF Xor
<1>4. \A k \in 0 .. n : k \in S
    <2> HIDE DEF S
    <2> QED BY <1>2, <1>3, InductionUpTo
<1>5. n \in S
    BY <1>4
<1> QED BY <1>1, <1>5

(* Two lists that differ in one element differ in their sums by as much.   *)
LEMMA DifferInOne ==
    ASSUME NEW n \in Nat, NEW s, DOMAIN s = 1 .. n, NEW r, DOMAIN r = 1 .. n, NEW j \in 1 .. n,
           \A k \in 1 .. n : k # j => s[k] = r[k]
    PROVE  Xor(Total(s), Total(r)) = Xor(s[j], r[j])
<1>1. PICK P : /\ P[0] = Zero
               /\ \A k \in 0 .. n - 1 : P[k + 1] = Xor(P[k], s[k + 1])
               /\ Total(s) = P[n]
    BY TotalIs
<1>2. PICK R : /\ R[0] = Zero
               /\ \A k \in 0 .. n - 1 : R[k + 1] = Xor(R[k], r[k + 1])
               /\ Total(r) = R[n]
    BY TotalIs
<1> DEFINE S == {k \in 0 .. n : Xor(P[k], R[k]) = IF k < j THEN Zero ELSE Xor(s[j], r[j])}
<1>3. 0 \in S
    BY <1>1, <1>2, XorFacts
<1>4. ASSUME NEW k \in 0 .. n - 1, k \in S PROVE k + 1 \in S
    <2>1. P[k + 1] = Xor(P[k], s[k + 1]) /\ R[k + 1] = Xor(R[k], r[k + 1]) /\ k + 1 \in 1 .. n
        BY <1>1, <1>2
    <2>2. Xor(P[k + 1], R[k + 1]) = Xor(Xor(P[k], R[k]), Xor(s[k + 1], r[k + 1]))
        BY <2>1 DEF Xor
    <2>3. CASE k + 1 = j
        BY <1>4, <2>1, <2>2, <2>3, XorFacts
    <2>4. CASE k + 1 # j
        BY <1>4, <2>1, <2>2, <2>4, XorFacts
    <2> QED BY <2>3, <2>4
<1>5. \A k \in 0 .. n : k \in S
    <2> HIDE DEF S
    <2> QED BY <1>3, <1>4, InductionUpTo
<1>6. n \in S
    BY <1>5
<1> QED BY <1>1, <1>2, <1>6

(* The sum of sums.                                                        *)
LEMMA TotalXor ==
    ASSUME NEW n \in Nat, NEW s, DOMAIN s = 1 .. n, NEW r, DOMAIN r = 1 .. n
    PROVE  Total([k \in 1 .. n |-> Xor(s[k], r[k])]) = Xor(Total(s), Total(r))
<1> DEFINE q == [k \in 1 .. n |-> Xor(s[k], r[k])]
<1>1. PICK P : /\ P[0] = Zero
               /\ \A k \in 0 .. n - 1 : P[k + 1] = Xor(P[k], s[k + 1])
               /\ Total(s) = P[n]
    BY TotalIs
<1>2. PICK R : /\ R[0] = Zero
               /\ \A k \in 0 .. n - 1 : R[k + 1] = Xor(R[k], r[k + 1])
               /\ Total(r) = R[n]
    BY TotalIs
<1>3. PICK Q : /\ Q[0] = Zero
               /\ \A k \in 0 .. n - 1 : Q[k + 1] = Xor(Q[k], q[k + 1])
               /\ Total(q) = Q[n]
    <2>1. DOMAIN q = 1 .. n
        OBVIOUS
    <2> HIDE DEF q
    <2> QED BY <2>1, TotalIs
<1> DEFINE S == {k \in 0 .. n : Q[k] = Xor(P[k], R[k])}
<1>4. 0 \in S
    BY <1>1, <1>2, <1>3, XorFacts
<1>5. ASSUME NEW k \in 0 .. n - 1, k \in S PROVE k + 1 \in S
    <2>1. P[k + 1] = Xor(P[k], s[k + 1]) /\ R[k + 1] = Xor(R[k], r[k + 1]) /\ k + 1 \in 1 .. n
        BY <1>1, <1>2
    <2>2. Q[k + 1] = Xor(Q[k], Xor(s[k + 1], r[k + 1]))
        BY <1>3, <2>1
    <2> QED BY <1>5, <2>1, <2>2 DEF Xor
<1>6. \A k \in 0 .. n : k \in S
    <2> HIDE DEF S
    <2> QED BY <1>4, <1>5, InductionUpTo
<1>7. n \in S
    BY <1>6
<1> QED BY <1>1, <1>2, <1>3, <1>7

\* Numbers of nodes as far as eight bits of ports allow trees to grow.
Node == 0 .. 510
Parent(i) == (i - 1) \div 2

LEMMA ParentIs ==
    ASSUME NEW i \in Nat, i >= 1
    PROVE  /\ Parent(i) \in 0 .. i - 1
           /\ (i - 1) % 2 \in {0, 1}
           /\ i = 2 * Parent(i) + 1 + ((i - 1) % 2)
           /\ Parent(i) + 1 = (i + 1) \div 2
BY DEF Parent

(* A node is below another one if it is that one or its parent is.         *)
LEMMA UnderParent ==
    ASSUME NEW index \in Nat, NEW i \in Node
    PROVE  /\ Under(index, i) => index <= i
           /\ i = 0 => (Under(index, i) <=> index = 0)
           /\ i # 0 => (Under(index, i) <=> i = index \/ Under(index, Parent(i)))
<1>1. ASSUME NEW d \in 0 .. 30 PROVE (i + 1) \div 2^d \in 0 .. i + 1
    <2>1. 2^d \in Nat \ {0}
        BY PowersDouble
    <2>2. i + 1 \in Nat
        BY DEF Node
    <2> HIDE DEF Node
    <2> QED BY <2>1, <2>2, Quotients
<1>2. (i + 1) \div 2^0 = i + 1
    BY PowersDouble DEF Node
<1>3. Under(index, i) => index <= i
    <2> SUFFICES ASSUME NEW d \in 0 .. 30, (i + 1) \div 2^d = index + 1 PROVE index <= i
        BY DEF Under
    <2>1. (i + 1) \div 2^d \in 0 .. i + 1
        BY <1>1
    <2> QED BY <2>1 DEF Node
<1>4. ASSUME i = 0 PROVE Under(index, i) <=> index = 0
    <2>1. index = 0 => Under(index, i)
        BY <1>2, <1>4 DEF Under
    <2> QED BY <2>1, <1>3, <1>4 DEF Node
<1>5. ASSUME i # 0 PROVE Under(index, i) <=> i = index \/ Under(index, Parent(i))
    <2>1. Parent(i) + 1 = (i + 1) \div 2 /\ Parent(i) \in Nat /\ i \in Nat /\ Parent(i) <= 254
        <3>1. i \in Nat /\ i >= 1 /\ i <= 510
            BY <1>5 DEF Node
        <3>2. Parent(i) + 1 = (i + 1) \div 2 /\ Parent(i) \in Nat
            BY <3>1, ParentIs
        <3>3. i = 2 * Parent(i) + 1 + ((i - 1) % 2) /\ (i - 1) % 2 \in {0, 1}
            BY <3>1, ParentIs
        <3> QED BY <3>1, <3>2, <3>3
    <2>2. \A d \in 0 .. 29 : (i + 1) \div 2^(d + 1) = (Parent(i) + 1) \div 2^d
        <3> TAKE d \in 0 .. 29
        <3>1. 2^(d + 1) = 2 * 2^d /\ 2^d \in Nat \ {0}
            <4>1. d \in 0 .. 30
                OBVIOUS
            <4> QED BY <4>1, PowersDouble
        <3>2. i + 1 \in Nat
            BY <2>1
        <3> HIDE DEF Node
        <3> QED BY <2>1, <3>1, <3>2, HalfThen
    <2>3. ASSUME Under(index, i) PROVE i = index \/ Under(index, Parent(i))
        <3>1. PICK d \in 0 .. 30 : (i + 1) \div 2^d = index + 1
            BY <2>3 DEF Under
        <3>2. CASE d = 0
            BY <3>1, <3>2, <1>2, <2>1
        <3>3. CASE d # 0
            <4>1. d - 1 \in 0 .. 29 /\ (d - 1) + 1 = d
                BY <3>3
            <4>2. (Parent(i) + 1) \div 2^(d - 1) = index + 1
                BY <3>1, <4>1, <2>2
            <4>3. d - 1 \in 0 .. 30
                BY <4>1
            <4> QED BY <4>2, <4>3 DEF Under
        <3> QED BY <3>2, <3>3
    <2>4. ASSUME Under(index, Parent(i)) PROVE Under(index, i)
        <3>1. PICK d \in 0 .. 30 : (Parent(i) + 1) \div 2^d = index + 1
            BY <2>4 DEF Under
        <3>2. d # 30
            <4> SUFFICES ASSUME d = 30 PROVE FALSE
                OBVIOUS
            <4>1. 2^30 \in Nat \ {0} /\ 2^30 >= 1024
                BY PowersDouble
            <4>2. Parent(i) + 1 \in Nat /\ Parent(i) + 1 < 2^30
                BY <2>1, <4>1
            <4>3. (Parent(i) + 1) \div 2^30 = 0
                BY <4>1, <4>2, Quotients
            <4> QED BY <3>1, <4>3
        <3>3. d \in 0 .. 29 /\ d + 1 \in 0 .. 30
            BY <3>2
        <3>4. (i + 1) \div 2^(d + 1) = index + 1
            BY <3>1, <3>3, <2>2
        <3> QED BY <3>3, <3>4 DEF Under
    <2>5. i = index => Under(index, i)
        <3>1. 0 \in 0 .. 30
            OBVIOUS
        <3> QED BY <1>2, <3>1 DEF Under
    <2> QED BY <2>3, <2>4, <2>5
<1> QED BY <1>3, <1>4, <1>5

(* Every node is below the root.                                           *)
LEMMA UnderRoot == \A i \in Node : Under(0, i)
<1> DEFINE m == 510
           S == {n \in 0 .. m : \A i \in 0 .. n : Under(0, i)}
<1>0. m \in Nat /\ Node = 0 .. m
    BY DEF Node
<1>1. 0 \in S
    BY UnderParent DEF Node
<1>2. ASSUME NEW n \in 0 .. m - 1, n \in S PROVE n + 1 \in S
    <2>1. n + 1 \in Nat /\ n + 1 >= 1 /\ n + 1 \in Node
        BY <1>2, <1>0
    <2>2. Parent(n + 1) \in 0 .. n
        BY <2>1, ParentIs
    <2>3. Under(0, Parent(n + 1))
        BY <1>2, <2>2
    <2>4. Under(0, n + 1)
        BY <2>1, <2>3, UnderParent
    <2>5. \A i \in 0 .. n + 1 : i \in 0 .. n \/ i = n + 1
        OBVIOUS
    <2> QED BY <1>2, <2>4, <2>5
<1>3. \A n \in 0 .. m : n \in S
    <2> HIDE DEF S, m
    <2> QED BY <1>0, <1>1, <1>2, InductionUpTo
<1>4. m \in S
    BY <1>3
<1> QED BY <1>0, <1>4

(* GGMTree::set: the node at index gets the key, what is below it follows  *)
(* from it, and the rest stays.                                            *)
LEMMA SetIs ==
    ASSUME NEW m \in Nat, m <= 511, NEW node, DOMAIN node = 0 .. m - 1,
           NEW index \in Nat, NEW key
    PROVE  LET v == Set(node, index, key)
           IN  v = [i \in 0 .. m - 1 |->
                      IF i = index THEN key
                      ELSE IF Under(index, i) THEN Prg(v[Parent(i)], (i - 1) % 2) ELSE node[i]]
<1> DEFINE Values(k, f) == f = [i \in 0 .. k - 1 |->
                      IF i = index THEN key
                      ELSE IF Under(index, i) THEN Prg(f[Parent(i)], (i - 1) % 2) ELSE node[i]]
           S == {k \in 0 .. m : \E f : Values(k, f)}
<1>1. Set(node, index, key) = CHOOSE f : Values(m, f)
    BY DEF Set, Parent
<1>2. 0 \in S
    <2> DEFINE none == [i \in 0 .. 0 - 1 |-> key]
    <2>1. \A i \in 0 .. 0 - 1 : FALSE
        OBVIOUS
    <2>2. Values(0, none)
        BY <2>1
    <2> HIDE DEF Values, none
    <2> QED BY <2>2
<1>3. ASSUME NEW k \in 0 .. m - 1, k \in S
      PROVE  k + 1 \in S
    <2>1. PICK f : Values(k, f)
        BY <1>3
    <2> DEFINE last == IF k = index THEN key
                       ELSE IF Under(index, k) THEN Prg(f[Parent(k)], (k - 1) % 2) ELSE node[k]
               more == [i \in 0 .. (k + 1) - 1 |-> IF i = k THEN last ELSE f[i]]
    <2>2. ASSUME NEW i \in 0 .. (k + 1) - 1
          PROVE  more[i] = IF i = index THEN key
                           ELSE IF Under(index, i) THEN Prg(more[Parent(i)], (i - 1) % 2)
                           ELSE node[i]
        <3>1. i \in Node /\ k \in Nat /\ i <= k
            BY DEF Node
        <3>2. i # index /\ Under(index, i) => Parent(i) \in 0 .. i - 1
            <4>1. i = 0 => (Under(index, i) <=> index = 0)
                BY <3>1, UnderParent
            <4>2. i # 0 => Parent(i) \in 0 .. i - 1
                <5>1. i \in Nat /\ (i # 0 => i >= 1)
                    BY <3>1 DEF Node
                <5> QED BY <5>1, ParentIs
            <4> QED BY <4>1, <4>2
        <3>3. i # index /\ Under(index, i) => more[Parent(i)] = f[Parent(i)]
            <4> HIDE DEF last
            <4> QED BY <3>1, <3>2
        <3>4. CASE i = k
            <4>1. more[i] = last
                BY <3>4
            <4> HIDE DEF more
            <4> QED BY <3>3, <3>4, <4>1
        <3>5. CASE i # k
            <4>1. i \in 0 .. k - 1 /\ more[i] = f[i]
                BY <3>1, <3>5
            <4> HIDE DEF more
            <4>2. f[i] = IF i = index THEN key
                           ELSE IF Under(index, i) THEN Prg(f[Parent(i)], (i - 1) % 2)
                           ELSE node[i]
                BY <2>1, <4>1
            <4> QED BY <3>3, <4>1, <4>2
        <3> QED BY <3>4, <3>5
    <2>3. Values(k + 1, more)
        <3> HIDE DEF last
        <3> QED BY <2>2
    <2>4. k + 1 \in 0 .. m
        OBVIOUS
    <2> QED BY <2>3, <2>4
<1>4. m \in S
    <2> HIDE DEF S
    <2>1. \A k \in 0 .. m - 1 : k \in S => k + 1 \in S
        BY <1>3
    <2>2. \A k \in 0 .. m : k \in S
        BY <1>2, <2>1, InductionUpTo
    <2> QED BY <2>2
<1>5. \E f : Values(m, f)
    BY <1>4
<1> HIDE DEF Values
<1>6. Values(m, Set(node, index, key))
    BY <1>1, <1>5
<1> QED BY <1>6 DEF Values

\* The number of nodes of a tree, and its layers.
Heights == 1 .. 9
Layer(k) == (2^k - 1) .. (2^(k + 1) - 2)

LEMMA NodesAre ==
    ASSUME NEW high \in Heights
    PROVE  /\ 2^high \in Nat /\ 2^high >= 2 /\ 2^high <= 512
           /\ Nodes(high) = 0 .. 2^high - 2
           /\ Nodes(high) \subseteq Node
<1>1. high \in {1, 2, 3, 4, 5, 6, 7, 8, 9}
    BY DEF Heights
<1> DEFINE Q == [k \in 1 .. 9 |-> 2^k]
<1>2. Q[1] = 2 /\ Q[2] = 4 /\ Q[3] = 8 /\ Q[4] = 16 /\ Q[5] = 32 /\ Q[6] = 64 /\ Q[7] = 128
      /\ Q[8] = 256 /\ Q[9] = 512
    OBVIOUS
<1>3. 2^high \in {2, 4, 8, 16, 32, 64, 128, 256, 512}
    <2>1. 2^high = Q[high]
        BY DEF Heights
    <2> HIDE DEF Q
    <2> QED BY <1>1, <1>2, <2>1
<1>4. Nodes(high) = 0 .. 2^high - 2
    BY <1>3 DEF Nodes
<1>5. 2^high \in Nat /\ 2^high >= 2 /\ 2^high <= 512
    BY <1>3
<1>6. Nodes(high) \subseteq Node
    <2> DEFINE m == 2^high
    <2>1. m \in Nat /\ m <= 512 /\ Nodes(high) = 0 .. m - 2
        BY <1>4, <1>5
    <2> HIDE DEF m
    <2> QED BY <2>1 DEF Node
<1> QED BY <1>4, <1>5, <1>6

(* GGMTree: a key, and children after their parents.                       *)
LEMMA TreeIs ==
    ASSUME NEW high \in Heights, NEW key
    PROVE  LET T == GGMTree(high, key)
           IN  /\ DOMAIN T = Nodes(high)
               /\ T[0] = key
               /\ \A i \in Nodes(high) : i # 0 => T[i] = Prg(T[Parent(i)], (i - 1) % 2)
<1> DEFINE T == GGMTree(high, key)
           m == 2^high - 1
           node == [i \in Nodes(high) |-> Zero]
<1>1. m \in Nat /\ m <= 511 /\ m >= 1 /\ Nodes(high) = 0 .. m - 1 /\ Nodes(high) \subseteq Node
    BY NodesAre
<1>2. T = Set(node, 0, key)
    BY DEF GGMTree
<1> HIDE DEF m
<1>3. DOMAIN node = 0 .. m - 1
    BY <1>1
<1> HIDE DEF T, node
<1>4. T = [i \in 0 .. m - 1 |->
                      IF i = 0 THEN key
                      ELSE IF Under(0, i) THEN Prg(T[Parent(i)], (i - 1) % 2) ELSE node[i]]
    BY <1>1, <1>2, <1>3, SetIs
<1>5. DOMAIN T = 0 .. m - 1 /\ \A i \in 0 .. m - 1 : T[i] =
                      IF i = 0 THEN key
                      ELSE IF Under(0, i) THEN Prg(T[Parent(i)], (i - 1) % 2) ELSE node[i]
    BY <1>4
<1>6. \A i \in 0 .. m - 1 : Under(0, i)
    BY <1>1, UnderRoot
<1>7. 0 \in 0 .. m - 1
    BY <1>1
<1> QED BY <1>1, <1>5, <1>6, <1>7 DEF T

(* The layers of a tree lie one after the other, parents in the one above. *)
LEMMA LayerOrder ==
    /\ \A k \in 0 .. 8 : Layer(k) \subseteq Node
    /\ \A j, k \in 0 .. 8 : j < k => \A x \in Layer(j), y \in Layer(k) : x < y
    /\ \A k \in 1 .. 8 : \A i \in Layer(k) :
          i \in Nat /\ i >= 1 /\ k - 1 \in 0 .. 8 /\ Parent(i) \in Layer(k - 1)
<1>1. \A k \in 0 .. 8 : 2^k \in Nat /\ 2^k >= 1 /\ 2^(k + 1) = 2 * 2^k /\ 2^k <= 256
    <2> TAKE k \in 0 .. 8
    <2>1. k \in 0 .. 30 /\ k \in 0 .. 29 /\ k \in 0 .. 9 /\ 8 \in 0 .. 9 /\ k <= 8
        OBVIOUS
    <2>2. 2^8 = 256
        OBVIOUS
    <2>3. 2^k \in Nat \ {0} /\ 2^(k + 1) = 2 * 2^k
        BY <2>1, PowersDouble
    <2>4. 2^k <= 2^8
        BY <2>1, PowersRise
    <2> QED BY <2>2, <2>3, <2>4
<1>2. ASSUME NEW k \in 0 .. 8 PROVE Layer(k) \subseteq Node
    <2> DEFINE q == 2^k
    <2>1. Layer(k) = q - 1 .. 2 * q - 2 /\ q \in Nat /\ q <= 256
        BY <1>1 DEF Layer
    <2> HIDE DEF q
    <2> QED BY <2>1 DEF Node
<1>3. ASSUME NEW j \in 0 .. 8, NEW k \in 0 .. 8, j < k, NEW x \in Layer(j), NEW y \in Layer(k)
      PROVE  x < y
    <2>1. 2^(j + 1) <= 2^k
        <3>1. j + 1 \in 0 .. 9 /\ k \in 0 .. 9 /\ j + 1 <= k
            BY <1>3
        <3> QED BY <3>1, PowersRise
    <2> QED BY <1>1, <2>1 DEF Layer
<1>4. ASSUME NEW k \in 1 .. 8, NEW i \in Layer(k)
      PROVE  i \in Nat /\ i >= 1 /\ k - 1 \in 0 .. 8 /\ Parent(i) \in Layer(k - 1)
    <2>1. k \in 0 .. 8 /\ k - 1 \in 0 .. 8 /\ (k - 1) + 1 = k
        OBVIOUS
    <2> DEFINE q == 2^(k - 1)
    <2>2. q \in Nat /\ q >= 1 /\ 2^k = 2 * q /\ 2^(k + 1) = 2 * 2^k
        BY <1>1, <2>1
    <2>3. i \in 2 * q - 1 .. 4 * q - 2 /\ Layer(k - 1) = q - 1 .. 2 * q - 2
        BY <2>1, <2>2 DEF Layer
    <2> HIDE DEF q
    <2>4. i \in Nat /\ i >= 1
        BY <2>2, <2>3
    <2>5. /\ Parent(i) \in 0 .. i - 1 /\ (i - 1) % 2 \in {0, 1}
          /\ i = 2 * Parent(i) + 1 + ((i - 1) % 2)
        BY <2>4, ParentIs
    <2> QED BY <2>1, <2>2, <2>3, <2>4, <2>5
<1> QED BY <1>2, <1>3, <1>4

(* Every node is in a layer.                                               *)
LEMMA NodeInLayer ==
    ASSUME NEW l \in 0 .. 8, NEW i \in Nodes(l + 1)
    PROVE  \E k \in 0 .. l : i \in Layer(k)
<1> DEFINE S == {n \in 0 .. l : \A x \in 0 .. 2^(n + 1) - 2 : \E k \in 0 .. n : x \in Layer(k)}
<1>1. \A k \in 0 .. 9 : 2^k \in Nat
    <2>1. \A k \in 0 .. 9 : k \in 0 .. 30
        OBVIOUS
    <2> QED BY <2>1, PowersDouble
<1>2. 0 \in S
    <2>1. 2^(0 + 1) = 2 /\ 2^0 = 1
        OBVIOUS
    <2>2. Layer(0) = 0 .. 0 /\ 0 .. 2^(0 + 1) - 2 = 0 .. 0
        BY <2>1 DEF Layer
    <2> QED BY <2>2
<1>3. ASSUME NEW n \in 0 .. l - 1, n \in S PROVE n + 1 \in S
    <2> SUFFICES ASSUME NEW x \in 0 .. 2^((n + 1) + 1) - 2
                 PROVE  \E k \in 0 .. n + 1 : x \in Layer(k)
        OBVIOUS
    <2>1. 2^(n + 1) \in Nat /\ 2^((n + 1) + 1) \in Nat
        <3>1. n + 1 \in 0 .. 9 /\ (n + 1) + 1 \in 0 .. 9
            OBVIOUS
        <3> QED BY <3>1, <1>1
    <2> DEFINE lo == 2^(n + 1)
               q == 2^((n + 1) + 1)
    <2>2. Layer(n + 1) = lo - 1 .. q - 2 /\ lo \in Nat /\ q \in Nat /\ x \in 0 .. q - 2
        BY <2>1 DEF Layer
    <2>3. \A y \in 0 .. lo - 2 : \E k \in 0 .. n : y \in Layer(k)
        BY <1>3
    <2> HIDE DEF lo, q
    <2>4. CASE x \in 0 .. lo - 2
        <3>1. PICK k \in 0 .. n : x \in Layer(k)
            BY <2>3, <2>4
        <3> QED BY <3>1
    <2>5. CASE x \notin 0 .. lo - 2
        <3>1. x \in Layer(n + 1) /\ n + 1 \in 0 .. n + 1
            BY <2>2, <2>5
        <3> QED BY <3>1
    <2> QED BY <2>4, <2>5
<1>4. \A n \in 0 .. l : n \in S
    <2> HIDE DEF S
    <2> QED BY <1>2, <1>3, InductionUpTo
<1>5. l \in S
    BY <1>4
<1>6. Nodes(l + 1) = 0 .. 2^(l + 1) - 2
    <2>1. l + 1 \in Heights
        BY DEF Heights
    <2> QED BY <2>1, NodesAre
<1> QED BY <1>5, <1>6

-----------------------------------------------------------------------------
(* The node of layer k on the path to a leaf, which turns right there or   *)
(* not, and the node beside it.                                            *)
On(l, path, k) == (2^k - 1) + (path \div 2^(l - k))
Turn(l, path, k) == (path \div 2^(l - k)) % 2
Off(l, path, k) == (2 * On(l, path, k - 1)) + 1 + (1 - Turn(l, path, k))

(* A path goes down layer by layer.                                        *)
LEMMA PathDown ==
    ASSUME NEW l \in 0 .. 8, NEW path \in 0 .. 2^l - 1
    PROVE  /\ On(l, path, 0) = 0 /\ On(l, path, l) = (2^l - 1) + path
           /\ \A k \in 0 .. l : On(l, path, k) \in Layer(k)
           /\ \A k \in 1 .. l : /\ Turn(l, path, k) \in {0, 1}
                                /\ On(l, path, k) = (2 * On(l, path, k - 1)) + 1 + Turn(l, path, k)
<1>1. \A k \in 0 .. 8 : 2^k \in Nat \ {0} /\ 2^(k + 1) = 2 * 2^k
    <2>1. \A k \in 0 .. 8 : k \in 0 .. 30 /\ k \in 0 .. 29
        OBVIOUS
    <2> QED BY <2>1, PowersDouble
<1>2. path \in Nat /\ path < 2^l /\ 2^0 = 1
    <2>0. 2^l \in Nat \ {0}
        BY <1>1
    <2> DEFINE q == 2^l
    <2>1. q \in Nat \ {0}
        BY <2>0
    <2>3. path \in 0 .. q - 1
        OBVIOUS
    <2> HIDE DEF q
    <2>2. path \in Nat /\ path < q
        BY <2>1, <2>3
    <2> QED BY <2>2, PowersDouble DEF q
<1> DEFINE Down(d) == path \div 2^d
           S == {d \in 0 .. l : Down(d) \in 0 .. 2^(l - d) - 1}
<1>3. \A d \in 0 .. l - 1 : Down(d + 1) = Down(d) \div 2
    <2> TAKE d \in 0 .. l - 1
    <2>1. 2^d \in Nat \ {0} /\ 2^(d + 1) = 2 * 2^d
        <3>1. d \in 0 .. 8
            OBVIOUS
        <3> QED BY <1>1, <3>1
    <2> QED BY <1>2, <2>1, ThenHalf
<1>4. 0 \in S
    <2>1. path \div 1 = path /\ l - 0 = l
        BY <1>2
    <2> QED BY <1>2, <2>1
<1>5. ASSUME NEW d \in 0 .. l - 1, d \in S PROVE d + 1 \in S
    <2>1. Down(d + 1) = Down(d) \div 2
        BY <1>3
    <2> DEFINE q == 2^(l - (d + 1))
    <2>2. q \in Nat \ {0} /\ 2^(l - d) = 2 * q
        <3>1. l - (d + 1) \in 0 .. 8 /\ (l - (d + 1)) + 1 = l - d
            OBVIOUS
        <3> QED BY <3>1, <1>1
    <2>3. Down(d) \in 0 .. 2^(l - d) - 1
        BY <1>5
    <2> HIDE DEF q, Down
    <2>4. Down(d + 1) \in 0 .. q - 1
        BY <2>1, <2>2, <2>3
    <2> QED BY <2>4 DEF q
<1>6. \A d \in 0 .. l : d \in S
    <2> HIDE DEF S
    <2> QED BY <1>4, <1>5, InductionUpTo
<1>7. \A d \in 0 .. l : Down(d) \in 0 .. 2^(l - d) - 1
    BY <1>6
<1>8. Down(0) = path
    BY <1>2
<1> HIDE DEF S, Down
<1>9. \A k \in 0 .. l : On(l, path, k) = (2^k - 1) + Down(l - k)
    BY DEF On, Down
<1>10. \A k \in 1 .. l : Turn(l, path, k) = Down(l - k) % 2
    BY DEF Turn, Down
<1>11. \A k \in 0 .. l : k \in 0 .. 8 /\ l - k \in 0 .. l /\ l - (l - k) = k
    OBVIOUS
<1>12. \A k \in 0 .. l : Down(l - k) \in 0 .. 2^k - 1
    BY <1>7, <1>11
<1>13. ASSUME NEW k \in 0 .. l PROVE On(l, path, k) \in Layer(k)
    <2>1. On(l, path, k) = (2^k - 1) + Down(l - k) /\ Down(l - k) \in 0 .. 2^k - 1
        BY <1>9, <1>12
    <2> DEFINE q == 2^k
    <2>2. q \in Nat \ {0} /\ Layer(k) = q - 1 .. 2 * q - 2
        BY <1>1, <1>11 DEF Layer
    <2> HIDE DEF q
    <2> QED BY <2>1, <2>2 DEF q
<1>14. ASSUME NEW k \in 1 .. l
       PROVE  /\ Turn(l, path, k) \in {0, 1}
              /\ On(l, path, k) = (2 * On(l, path, k - 1)) + 1 + Turn(l, path, k)
    <2>1. k - 1 \in 0 .. l /\ k \in 0 .. l /\ l - k \in 0 .. l - 1 /\ (l - k) + 1 = l - (k - 1)
        OBVIOUS
    <2>2. Down(l - (k - 1)) = Down(l - k) \div 2
        BY <1>3, <2>1
    <2>3. Down(l - k) \in Nat
        BY <1>12, <2>1, <1>1, <1>11
    <2>4. 2^k = 2 * 2^(k - 1) /\ 2^(k - 1) \in Nat
        <3>1. (k - 1) + 1 = k /\ k - 1 \in 0 .. 8
            OBVIOUS
        <3> QED BY <3>1, <1>1
    <2>5. /\ On(l, path, k) = (2^k - 1) + Down(l - k)
          /\ On(l, path, k - 1) = (2^(k - 1) - 1) + Down(l - (k - 1))
          /\ Turn(l, path, k) = Down(l - k) % 2
        BY <1>9, <1>10, <2>1
    <2> DEFINE up == Down(l - k)
               q == 2^(k - 1)
    <2>6. up \in Nat /\ q \in Nat
        BY <2>3, <2>4
    <2>7. /\ On(l, path, k) = (2 * q - 1) + up
          /\ On(l, path, k - 1) = (q - 1) + (up \div 2)
          /\ Turn(l, path, k) = up % 2
        BY <2>2, <2>4, <2>5
    <2> HIDE DEF up, q
    <2>8. up = 2 * (up \div 2) + (up % 2) /\ up % 2 \in {0, 1} /\ up \div 2 \in Int
        BY <2>6
    <2> QED BY <2>6, <2>7, <2>8
<1>15. On(l, path, 0) = 0
    <2>1. 0 \in 0 .. l
        OBVIOUS
    <2>2. On(l, path, 0) = (2^0 - 1) + Down(l - 0) /\ Down(l - 0) \in 0 .. 2^0 - 1
        BY <2>1, <1>9, <1>12
    <2> QED BY <1>2, <2>2
<1>16. On(l, path, l) = (2^l - 1) + path
    <2>1. l \in 0 .. l /\ l - l = 0
        OBVIOUS
    <2> QED BY <2>1, <1>8, <1>9
<1> QED BY <1>13, <1>14, <1>15, <1>16

(* The node beside the path is the other child.                            *)
LEMMA BesidePath ==
    ASSUME NEW l \in 0 .. 8, NEW path \in 0 .. 2^l - 1, NEW k \in 1 .. l
    PROVE  /\ Off(l, path, k) \in Layer(k) /\ Off(l, path, k) # On(l, path, k)
           /\ Parent(On(l, path, k)) = On(l, path, k - 1)
           /\ \A i \in Layer(k) :
                 Parent(i) = On(l, path, k - 1) <=> i \in {On(l, path, k), Off(l, path, k)}
<1> DEFINE up == On(l, path, k - 1)
           turn == Turn(l, path, k)
           q == 2^(k - 1)
<1>1. k - 1 \in 0 .. l /\ k \in 0 .. 8 /\ (k - 1) + 1 = k /\ k - 1 \in 0 .. 8
    OBVIOUS
<1>2. up \in Layer(k - 1) /\ turn \in {0, 1} /\ On(l, path, k) = 2 * up + 1 + turn
    BY <1>1, PathDown
<1>3. Off(l, path, k) = 2 * up + 1 + (1 - turn)
    BY DEF Off
<1>4. q \in Nat /\ Layer(k - 1) = q - 1 .. 2 * q - 2 /\ Layer(k) = 2 * q - 1 .. 4 * q - 2
    <2>1. q \in Nat \ {0} /\ 2^((k - 1) + 1) = 2 * q
        <3>1. k - 1 \in 0 .. 30 /\ k - 1 \in 0 .. 29
            OBVIOUS
        <3> QED BY <3>1, PowersDouble
    <2>2. 2^(k + 1) = 2 * 2^k
        <3>1. k \in 0 .. 29
            OBVIOUS
        <3> QED BY <3>1, PowersDouble
    <2>3. 2^k = 2 * q
        BY <1>1, <2>1
    <2> HIDE DEF q
    <2>4. Layer(k - 1) = q - 1 .. 2 * q - 2
        BY <1>1, <2>3 DEF Layer, q
    <2>5. Layer(k) = 2 * q - 1 .. 4 * q - 2
        BY <2>1, <2>2, <2>3 DEF Layer
    <2> QED BY <2>1, <2>4, <2>5
<1> HIDE DEF up, turn, q
<1>5. up \in Nat
    BY <1>2, <1>4
<1>6. Off(l, path, k) \in Layer(k) /\ Off(l, path, k) # On(l, path, k)
    BY <1>2, <1>3, <1>4
<1>7. ASSUME NEW i \in Layer(k)
      PROVE  Parent(i) = up <=> i \in {On(l, path, k), Off(l, path, k)}
    <2>1. i \in Nat /\ i >= 1
        BY <1>1, LayerOrder
    <2>2. /\ Parent(i) \in 0 .. i - 1 /\ (i - 1) % 2 \in {0, 1}
          /\ i = 2 * Parent(i) + 1 + ((i - 1) % 2)
        BY <2>1, ParentIs
    <2>3. i \in {On(l, path, k), Off(l, path, k)} <=> i = 2 * up + 1 \/ i = 2 * up + 2
        BY <1>2, <1>3, <1>5
    <2> DEFINE over == Parent(i)
               e == (i - 1) % 2
    <2>4. over \in Nat /\ e \in {0, 1} /\ i = 2 * over + 1 + e
        BY <2>1, <2>2
    <2> HIDE DEF over, e
    <2>5. over = up <=> i = 2 * up + 1 \/ i = 2 * up + 2
        BY <2>4, <1>5
    <2> QED BY <2>3, <2>5 DEF over
<1>8. On(l, path, k) \in Layer(k)
    <2>1. k \in 0 .. l
        OBVIOUS
    <2> QED BY <2>1, PathDown
<1> QED BY <1>6, <1>7, <1>8 DEF up

(* In a layer, what is off the path is below a node beside it.             *)
LEMMA OffThePath ==
    ASSUME NEW l \in 0 .. 8, NEW path \in 0 .. 2^l - 1, NEW k \in 0 .. l, NEW i \in Layer(k)
    PROVE  (\E j \in 1 .. k : Under(Off(l, path, j), i)) <=> i # On(l, path, k)
<1> DEFINE Below(n, x) == \E j \in 1 .. n : Under(Off(l, path, j), x)
           S == {n \in 0 .. l : \A x \in Layer(n) : Below(n, x) <=> x # On(l, path, n)}
<1>1. 0 \in S
    <2>1. Layer(0) = {0}
        <3>1. 2^0 = 1 /\ 2^(0 + 1) = 2
            OBVIOUS
        <3>2. Layer(0) = 0 .. 0
            BY <3>1 DEF Layer
        <3> QED BY <3>2
    <2>2. \A x : ~ Below(0, x)
        OBVIOUS
    <2>3. On(l, path, 0) = 0
        BY PathDown
    <2> HIDE DEF Below
    <2> QED BY <2>1, <2>2, <2>3
<1>2. ASSUME NEW n \in 0 .. l - 1, n \in S PROVE n + 1 \in S
    <2> DEFINE m == n + 1
    <2>1. m \in 1 .. l /\ m \in 0 .. l /\ m - 1 = n /\ n \in 0 .. 8 /\ m \in 0 .. 8 /\ n < m
          /\ n \in 0 .. l /\ m \in 1 .. 8
        OBVIOUS
    <2>2. \A x \in Layer(n) : Below(n, x) <=> x # On(l, path, n)
        BY <1>2
    <2> HIDE DEF m
    <2>3. ASSUME NEW x \in Layer(m)
          PROVE  Below(m, x) <=> x # On(l, path, m)
        <3>1. x \in Node /\ x # 0 /\ Parent(x) \in Layer(n) /\ Parent(x) \in Node
            BY <2>1, LayerOrder
        <3>2. \A j \in 1 .. m : /\ Off(l, path, j) \in Layer(j) /\ Off(l, path, j) \in Nat
                                /\ j \in 0 .. 8
            <4> TAKE j \in 1 .. m
            <4>1. j \in 1 .. l /\ j \in 0 .. 8
                BY <2>1
            <4>2. Off(l, path, j) \in Layer(j)
                BY <4>1, BesidePath
            <4>3. Off(l, path, j) \in Nat
                BY <4>1, <4>2, LayerOrder DEF Node
            <4> QED BY <4>1, <4>2, <4>3
        <3>3. \A j \in 1 .. m : Under(Off(l, path, j), x)
                                  <=> x = Off(l, path, j) \/ Under(Off(l, path, j), Parent(x))
            BY <3>1, <3>2, UnderParent
        <3>4. \A j \in 1 .. n : x # Off(l, path, j)
            <4> TAKE j \in 1 .. n
            <4>1. j \in 1 .. m /\ j < m
                BY <2>1
            <4>2. Off(l, path, j) < x
                BY <2>1, <3>2, <4>1, LayerOrder
            <4> QED BY <3>2, <4>1, <4>2
        <3>5. ~ Under(Off(l, path, m), Parent(x))
            <4>1. m \in 1 .. m
                BY <2>1
            <4>2. Parent(x) < Off(l, path, m)
                BY <2>1, <3>1, <3>2, <4>1, LayerOrder
            <4>3. Under(Off(l, path, m), Parent(x)) => Off(l, path, m) <= Parent(x)
                BY <3>1, <3>2, <4>1, UnderParent
            <4> QED BY <3>1, <3>2, <4>1, <4>2, <4>3 DEF Node
        <3>6. Below(m, x) <=> x = Off(l, path, m) \/ Below(n, Parent(x))
            <4>1. \A j : j \in 1 .. m <=> j \in 1 .. n \/ j = m
                BY <2>1
            <4> QED BY <3>3, <3>4, <3>5, <4>1
        <3>7. Below(n, Parent(x)) <=> Parent(x) # On(l, path, n)
            BY <2>2, <3>1
        <3>8. /\ Off(l, path, m) # On(l, path, m)
              /\ Parent(x) = On(l, path, n) <=> x \in {On(l, path, m), Off(l, path, m)}
            BY <2>1, BesidePath
        <3> HIDE DEF Below
        <3> QED BY <3>6, <3>7, <3>8
    <2>4. m \in S
        <3> HIDE DEF Below
        <3> QED BY <2>1, <2>3
    <2> QED BY <2>4 DEF m
<1>3. \A n \in 0 .. l : n \in S
    <2> HIDE DEF S
    <2> QED BY <1>1, <1>2, InductionUpTo
<1>4. k \in S
    BY <1>3
<1> QED BY <1>4

(* What is on the path is above its leaf.                                  *)
LEMMA AboveTheLeaf ==
    ASSUME NEW l \in 0 .. 8, NEW path \in 0 .. 2^l - 1, NEW k \in 0 .. l, NEW i \in Layer(k)
    PROVE  Under(i, (2^l - 1) + path) <=> i = On(l, path, k)
<1> DEFINE S == {n \in 0 .. l : n >= k => (Under(i, On(l, path, n)) <=> i = On(l, path, k))}
<1>1. k \in 0 .. 8 /\ i \in Node /\ i \in Nat
    BY LayerOrder DEF Node
<1>2. \A n \in 0 .. l : On(l, path, n) \in Layer(n) /\ On(l, path, n) \in Node /\ n \in 0 .. 8
    <2> TAKE n \in 0 .. l
    <2>1. n \in 0 .. 8
        OBVIOUS
    <2>2. On(l, path, n) \in Layer(n)
        BY PathDown
    <2> QED BY <2>1, <2>2, LayerOrder
<1>3. \A n \in 1 .. l : Under(i, On(l, path, n))
                           <=> On(l, path, n) = i \/ Under(i, On(l, path, n - 1))
    <2> TAKE n \in 1 .. l
    <2>1. n \in 0 .. l /\ n \in 1 .. 8
        OBVIOUS
    <2>2. On(l, path, n) # 0
        BY <1>2, <2>1, LayerOrder
    <2>3. Parent(On(l, path, n)) = On(l, path, n - 1)
        BY BesidePath
    <2> QED BY <1>1, <1>2, <2>1, <2>2, <2>3, UnderParent
<1>4. \A n \in 0 .. l : n < k => ~ Under(i, On(l, path, n))
    <2> TAKE n \in 0 .. l
    <2> HAVE n < k
    <2>1. On(l, path, n) < i
        BY <1>1, <1>2, LayerOrder
    <2>2. Under(i, On(l, path, n)) => i <= On(l, path, n)
        BY <1>1, <1>2, UnderParent
    <2> QED BY <1>1, <1>2, <2>1, <2>2 DEF Node
<1>5. k = 0 => (Under(i, On(l, path, 0)) <=> i = On(l, path, 0))
    <2> HAVE k = 0
    <2>1. On(l, path, 0) = 0
        BY PathDown
    <2>2. 0 \in Node
        BY DEF Node
    <2> QED BY <1>1, <2>1, <2>2, UnderParent
<1>6. 0 \in S
    BY <1>5
<1>7. ASSUME NEW n \in 0 .. l - 1, n \in S PROVE n + 1 \in S
    <2> DEFINE m == n + 1
    <2>1. m \in 1 .. l /\ m \in 0 .. l /\ m - 1 = n /\ n \in 0 .. l /\ n < m
        OBVIOUS
    <2> HIDE DEF m
    <2>2. Under(i, On(l, path, m)) <=> On(l, path, m) = i \/ Under(i, On(l, path, n))
        BY <1>3, <2>1
    <2>3. CASE m < k
        BY <2>1, <2>3, <1>1 DEF m
    <2>4. CASE m = k
        <3>1. ~ Under(i, On(l, path, n))
            BY <1>4, <2>1, <2>4
        <3> QED BY <2>1, <2>2, <2>4, <3>1 DEF m
    <2>5. CASE k < m
        <3>1. n >= k
            BY <2>5 DEF m
        <3>2. i < On(l, path, m)
            BY <1>1, <1>2, <2>1, <2>5, LayerOrder
        <3>3. On(l, path, m) # i
            BY <1>1, <3>2
        <3> QED BY <1>7, <2>1, <2>2, <3>1, <3>3 DEF m
    <2> QED BY <2>1, <2>3, <2>4, <2>5
<1>8. \A n \in 0 .. l : n \in S
    <2> HIDE DEF S
    <2> QED BY <1>6, <1>7, InductionUpTo
<1>9. l \in S /\ l >= k
    BY <1>8
<1>10. On(l, path, l) = (2^l - 1) + path
    BY PathDown
<1> QED BY <1>9, <1>10

\* The loop of calculateIndex but for its last step.
PathIndex(s) == FoldLeft(LAMBDA index, c : ((2 * index) + 1) + (1 - c), 0, s)

(* It goes down a path, step by step.                                      *)
LEMMA PathIndexIs ==
    ASSUME NEW n \in Nat, NEW s, DOMAIN s = 1 .. n
    PROVE  \E P : /\ P[0] = 0
                  /\ \A k \in 0 .. n - 1 : P[k + 1] = ((2 * P[k]) + 1) + (1 - s[k + 1])
                  /\ PathIndex(s) = P[n]
<1> DEFINE Folds(D, iter) == iter = [x \in SUBSET D |->
                          IF x = {} THEN 0
                          ELSE ((2 * iter[x \ {Max(x)}]) + 1) + (1 - s[Max(x)])]
           S == {k \in 0 .. n : \E iter : Folds(1 .. k, iter)}
<1>1. PathIndex(s) = (CHOOSE iter : Folds(1 .. n, iter))[1 .. n]
    BY DEF PathIndex, FoldLeft, MapThenFoldSet
<1>2. 0 \in S
    <2> DEFINE none == [x \in SUBSET (1 .. 0) |-> 0]
    <2>1. \A x \in SUBSET (1 .. 0) : x = {}
        OBVIOUS
    <2>2. Folds(1 .. 0, none)
        BY <2>1
    <2> HIDE DEF Folds, none
    <2> QED BY <2>2
<1>3. ASSUME NEW k \in 0 .. n - 1, k \in S
      PROVE  k + 1 \in S
    <2>1. PICK iter : Folds(1 .. k, iter)
        BY <1>3
    <2> DEFINE more == [x \in SUBSET (1 .. k + 1) |->
                          IF k + 1 \in x
                          THEN ((2 * iter[x \ {k + 1}]) + 1) + (1 - s[k + 1]) ELSE iter[x]]
    <2>2. ASSUME NEW x \in SUBSET (1 .. k + 1)
          PROVE  more[x] = IF x = {} THEN 0
                           ELSE ((2 * more[x \ {Max(x)}]) + 1) + (1 - s[Max(x)])
        <3>1. CASE k + 1 \in x
            <4>1. Max(x) = k + 1 /\ x \ {k + 1} \in SUBSET (1 .. k)
                <5>1. k \in Nat
                    OBVIOUS
                <5> QED BY <3>1, <5>1, LastOfAnyPrefix
            <4>2. more[x \ {k + 1}] = iter[x \ {k + 1}]
                OBVIOUS
            <4> QED BY <3>1, <4>1, <4>2
        <3>2. CASE k + 1 \notin x
            <4>1. x \in SUBSET (1 .. k)
                BY <3>2
            <4>2. more[x] = iter[x]
                BY <3>2
            <4>3. x \ {Max(x)} \in SUBSET (1 .. k) /\ more[x \ {Max(x)}] = iter[x \ {Max(x)}]
                BY <3>2, <4>1
            <4>4. iter[x] = IF x = {} THEN 0
                            ELSE ((2 * iter[x \ {Max(x)}]) + 1) + (1 - s[Max(x)])
                BY <2>1, <4>1
            <4> QED BY <4>2, <4>3, <4>4
        <3> QED BY <3>1, <3>2
    <2>3. Folds(1 .. k + 1, more)
        BY <2>2
    <2>4. k + 1 \in 0 .. n
        OBVIOUS
    <2> QED BY <2>3, <2>4
<1>4. n \in S
    <2> HIDE DEF S
    <2>1. \A k \in 0 .. n - 1 : k \in S => k + 1 \in S
        BY <1>3
    <2>2. \A k \in 0 .. n : k \in S
        BY <1>2, <2>1, InductionUpTo
    <2> QED BY <2>2
<1>5. PICK iter : Folds(1 .. n, iter) /\ PathIndex(s) = iter[1 .. n]
    BY <1>1, <1>4
<1> DEFINE P == [k \in 0 .. n |-> iter[1 .. k]]
<1>6. P[0] = 0
    BY <1>5
<1>7. ASSUME NEW k \in 0 .. n - 1
      PROVE  P[k + 1] = ((2 * P[k]) + 1) + (1 - s[k + 1])
    <2>1. k \in Nat /\ k + 1 \in 1 .. k + 1 /\ \A x \in 1 .. k + 1 : x \in 1 .. n
        OBVIOUS
    <2>2. Max(1 .. k + 1) = k + 1 /\ (1 .. k + 1) \ {k + 1} = 1 .. k
        BY <2>1, LastOfAnyPrefix
    <2>3. iter[1 .. k + 1] = ((2 * iter[1 .. k]) + 1) + (1 - s[k + 1])
        BY <1>5, <2>1, <2>2
    <2> QED BY <2>3
<1> HIDE DEF Folds
<1>8. PathIndex(s) = P[n]
    BY <1>5
<1> HIDE DEF P
<1> QED BY <1>6, <1>7, <1>8

(* calculateIndex of the chosen bits up to layer k: the node beside the    *)
(* path.                                                                   *)
LEMMA IndexIsOff ==
    ASSUME NEW l \in 0 .. 8, NEW path \in 0 .. 2^l - 1, NEW k \in 1 .. l
    PROVE  CalculateIndex(SubSeq(ChosenBits(path, l), 1, k)) = Off(l, path, k)
<1> DEFINE bits == ChosenBits(path, l)
           part == SubSeq(bits, 1, k)
           front == Front(part)
<1>1. \A i \in 1 .. l : bits[i] = 1 - Turn(l, path, i) /\ Turn(l, path, i) \in {0, 1}
    BY PathDown DEF ChosenBits, Turn
<1>2. bits \in Seq(Int) /\ Len(bits) = l
    <2>1. DOMAIN bits = 1 .. l /\ bits = [i \in 1 .. l |-> bits[i]]
        BY DEF ChosenBits
    <2> HIDE DEF bits
    <2>2. \A i \in 1 .. l : bits[i] \in Int
        BY <1>1
    <2>3. l \in Nat
        OBVIOUS
    <2>4. [i \in 1 .. l |-> bits[i]] \in [1 .. l -> Int]
        BY <2>2
    <2> QED BY <2>1, <2>3, <2>4
<1> HIDE DEF bits
<1>3. part \in Seq(Int) /\ Len(part) = k /\ \A i \in 1 .. k : part[i] = bits[i]
    BY <1>2, SubSeqProperties
<1> HIDE DEF part
<1>4. Last(part) = bits[k]
    BY <1>3 DEF Last
<1>5. front \in Seq(Int) /\ Len(front) = k - 1 /\ \A i \in 1 .. k - 1 : front[i] = bits[i]
    <2>1. front = SubSeq(part, 1, k - 1)
        BY <1>3 DEF Front
    <2> QED BY <1>3, <2>1, SubSeqProperties
<1>6. CalculateIndex(part) = ((2 * PathIndex(front)) + 1) + Last(part)
    BY DEF CalculateIndex, PathIndex
<1>7. DOMAIN front = 1 .. k - 1 /\ k - 1 \in Nat
    BY <1>5
<1> HIDE DEF front
<1>8. PICK P : /\ P[0] = 0
               /\ \A j \in 0 .. (k - 1) - 1 : P[j + 1] = ((2 * P[j]) + 1) + (1 - front[j + 1])
               /\ PathIndex(front) = P[k - 1]
    BY <1>7, PathIndexIs
<1> DEFINE S == {j \in 0 .. k - 1 : P[j] = On(l, path, j)}
<1>9. 0 \in S
    <2>1. On(l, path, 0) = 0
        BY PathDown
    <2>2. 0 \in 0 .. k - 1
        OBVIOUS
    <2> QED BY <1>8, <2>1, <2>2
<1>10. ASSUME NEW j \in 0 .. (k - 1) - 1, j \in S PROVE j + 1 \in S
    <2>1. j + 1 \in 1 .. k - 1 /\ j + 1 \in 1 .. l /\ (j + 1) - 1 = j
        OBVIOUS
    <2>2. front[j + 1] = 1 - Turn(l, path, j + 1) /\ Turn(l, path, j + 1) \in {0, 1}
        BY <1>1, <1>5, <2>1
    <2>3. P[j + 1] = ((2 * On(l, path, j)) + 1) + (1 - front[j + 1])
        BY <1>8, <1>10
    <2>4. On(l, path, j + 1) = (2 * On(l, path, (j + 1) - 1)) + 1 + Turn(l, path, j + 1)
        BY <2>1, PathDown
    <2>5. P[j + 1] = On(l, path, j + 1)
        BY <2>1, <2>2, <2>3, <2>4
    <2> QED BY <2>1, <2>5
<1>11. \A j \in 0 .. k - 1 : j \in S
    <2> HIDE DEF S
    <2> QED BY <1>7, <1>9, <1>10, InductionUpTo
<1>12. PathIndex(front) = On(l, path, k - 1)
    <2>1. k - 1 \in S
        BY <1>7, <1>11
    <2> QED BY <1>8, <2>1
<1> QED BY <1>1, <1>4, <1>6, <1>12 DEF Off, part, bits

(* The receiver's tree, layer by layer.                                    *)
LEMMA RebuiltIs ==
    ASSUME NEW high \in Heights, NEW received, NEW bits
    PROVE  \E G : /\ G[0] = [i \in Nodes(high) |-> Zero]
                  /\ \A k \in 0 .. (high - 1) - 1 :
                        G[k + 1] = Set(G[k], CalculateIndex(SubSeq(bits, 1, k + 1)),
                                       Xor(received[k + 1], XorSide(G[k], k + 1, bits[k + 1])))
                  /\ Rebuilt(high, received, bits) = G[high - 1]
<1> DEFINE n == high - 1
           blank == [i \in Nodes(high) |-> Zero]
           s == [i \in 1 .. high - 1 |-> i]
           Layered(node, i) == Set(node, CalculateIndex(SubSeq(bits, 1, i)),
                                Xor(received[i], XorSide(node, i, bits[i])))
           Folds(D, iter) == iter = [x \in SUBSET D |->
                          IF x = {} THEN blank
                          ELSE Layered(iter[x \ {Max(x)}], s[Max(x)])]
           S == {k \in 0 .. n : \E iter : Folds(1 .. k, iter)}
<1>0. n \in Nat /\ DOMAIN s = 1 .. n /\ \A i \in 1 .. n : s[i] = i
    BY DEF Heights
<1>1. Rebuilt(high, received, bits) = (CHOOSE iter : Folds(1 .. n, iter))[1 .. n]
    <2>1. Rebuilt(high, received, bits) = (CHOOSE iter : Folds(DOMAIN s, iter))[DOMAIN s]
        BY DEF Rebuilt, FoldLeft, MapThenFoldSet
    <2> HIDE DEF Folds, s, n
    <2> QED BY <2>1, <1>0
<1> HIDE DEF n, blank, s, Layered
<1>2. 0 \in S
    <2> DEFINE none == [x \in SUBSET (1 .. 0) |-> blank]
    <2>1. \A x \in SUBSET (1 .. 0) : x = {}
        OBVIOUS
    <2>2. Folds(1 .. 0, none)
        BY <2>1
    <2> HIDE DEF Folds, none
    <2> QED BY <2>2, <1>0
<1>3. ASSUME NEW k \in 0 .. n - 1, k \in S
      PROVE  k + 1 \in S
    <2>1. PICK iter : Folds(1 .. k, iter)
        BY <1>3
    <2> DEFINE more == [x \in SUBSET (1 .. k + 1) |->
                          IF k + 1 \in x THEN Layered(iter[x \ {k + 1}], s[k + 1]) ELSE iter[x]]
    <2>0. k \in Nat /\ k + 1 \in 0 .. n
        BY <1>0
    <2>2. ASSUME NEW x \in SUBSET (1 .. k + 1)
          PROVE  more[x] = IF x = {} THEN blank ELSE Layered(more[x \ {Max(x)}], s[Max(x)])
        <3>1. CASE k + 1 \in x
            <4>1. Max(x) = k + 1 /\ x \ {k + 1} \in SUBSET (1 .. k)
                BY <3>1, <2>0, LastOfAnyPrefix
            <4>2. more[x \ {k + 1}] = iter[x \ {k + 1}]
                BY <4>1, <2>0
            <4> QED BY <3>1, <4>1, <4>2
        <3>2. CASE k + 1 \notin x
            <4>1. x \in SUBSET (1 .. k)
                BY <3>2, <2>0
            <4>2. more[x] = iter[x]
                BY <3>2
            <4>3. x \ {Max(x)} \in SUBSET (1 .. k) /\ more[x \ {Max(x)}] = iter[x \ {Max(x)}]
                BY <3>2, <4>1
            <4>4. iter[x] = IF x = {} THEN blank ELSE Layered(iter[x \ {Max(x)}], s[Max(x)])
                BY <2>1, <4>1
            <4> QED BY <4>2, <4>3, <4>4
        <3> QED BY <3>1, <3>2
    <2>3. Folds(1 .. k + 1, more)
        BY <2>2
    <2> QED BY <2>0, <2>3
<1>4. n \in S
    <2> HIDE DEF S
    <2>1. \A k \in 0 .. n - 1 : k \in S => k + 1 \in S
        BY <1>3
    <2>2. \A k \in 0 .. n : k \in S
        BY <1>0, <1>2, <2>1, InductionUpTo
    <2> QED BY <1>0, <2>2
<1>5. PICK iter : Folds(1 .. n, iter) /\ Rebuilt(high, received, bits) = iter[1 .. n]
    BY <1>1, <1>4
<1> DEFINE G == [k \in 0 .. n |-> iter[1 .. k]]
<1>6. G[0] = blank
    BY <1>0, <1>5
<1>7. ASSUME NEW k \in 0 .. n - 1
      PROVE  G[k + 1] = Layered(G[k], k + 1)
    <2>1. k \in Nat /\ k + 1 \in 1 .. k + 1 /\ \A x \in 1 .. k + 1 : x \in 1 .. n
        BY <1>0
    <2>2. Max(1 .. k + 1) = k + 1 /\ (1 .. k + 1) \ {k + 1} = 1 .. k
        BY <2>1, LastOfAnyPrefix
    <2>3. iter[1 .. k + 1] = Layered(iter[1 .. k], s[k + 1])
        BY <1>5, <2>1, <2>2
    <2>4. s[k + 1] = k + 1
        BY <1>0, <2>1
    <2> QED BY <2>1, <2>3, <2>4, <1>0
<1> HIDE DEF Folds
<1>8. Rebuilt(high, received, bits) = G[n]
    BY <1>0, <1>5
<1> HIDE DEF G
<1> QED BY <1>6, <1>7, <1>8 DEF n, blank, Layered

\* What the receiver knows once it has the sums of the first k layers.
Known(T, l, path, k) ==
    [i \in Nodes(l + 1) |->
        IF \E j \in 1 .. k : Under(Off(l, path, j), i) THEN T[i] ELSE Zero]

(* A node of the next layer is known already unless its parent is on the   *)
(* path.                                                                   *)
LEMMA KnownNext ==
    ASSUME NEW l \in 0 .. 8, NEW path \in 0 .. 2^l - 1, NEW k \in 1 .. l, NEW i \in Layer(k)
    PROVE  (\E j \in 1 .. k - 1 : Under(Off(l, path, j), i))
              <=> i \notin {On(l, path, k), Off(l, path, k)}
<1>1. k - 1 \in 0 .. l /\ k \in 0 .. 8 /\ k - 1 \in 0 .. 8 /\ k \in 1 .. 8
    OBVIOUS
<1>2. i \in Node /\ i # 0 /\ Parent(i) \in Layer(k - 1)
    BY <1>1, LayerOrder
<1>3. \A j \in 1 .. k - 1 : Under(Off(l, path, j), i) <=> Under(Off(l, path, j), Parent(i))
    <2> TAKE j \in 1 .. k - 1
    <2>1. j \in 1 .. l /\ j \in 0 .. 8 /\ j < k
        OBVIOUS
    <2>2. Off(l, path, j) \in Layer(j)
        BY <2>1, BesidePath
    <2>3. Off(l, path, j) < i
        BY <1>1, <2>1, <2>2, LayerOrder
    <2>4. Off(l, path, j) \in Nat
        BY <2>1, <2>2, LayerOrder DEF Node
    <2>5. Off(l, path, j) # i
        BY <2>3, <2>4
    <2> QED BY <1>2, <2>4, <2>5, UnderParent
<1>4. (\E j \in 1 .. k - 1 : Under(Off(l, path, j), Parent(i))) <=> Parent(i) # On(l, path, k - 1)
    BY <1>1, <1>2, OffThePath
<1>5. Parent(i) = On(l, path, k - 1) <=> i \in {On(l, path, k), Off(l, path, k)}
    BY BesidePath
<1> QED BY <1>3, <1>4, <1>5

(* The layers are nodes.                                                   *)
LEMMA LayerInTree ==
    ASSUME NEW l \in 0 .. 8, NEW k \in 0 .. l
    PROVE  Layer(k) \subseteq Nodes(l + 1)
<1>1. l + 1 \in Heights /\ k + 1 \in 0 .. 9 /\ l + 1 \in 0 .. 9 /\ k + 1 <= l + 1 /\ k \in 0 .. 30
      /\ k + 1 \in 0 .. 30
    BY DEF Heights
<1>2. Nodes(l + 1) = 0 .. 2^(l + 1) - 2
    BY <1>1, NodesAre
<1>3. 2^(l + 1) \in Nat /\ 2^k \in Nat \ {0} /\ 2^(k + 1) \in Nat
    BY <1>1, NodesAre, PowersDouble
<1>4. 2^(k + 1) <= 2^(l + 1)
    BY <1>1, PowersRise
<1> QED BY <1>2, <1>3, <1>4 DEF Layer

(* What is missing in the sum of a side of the next layer is the node      *)
(* beside the path.                                                        *)
LEMMA MissingIsOff ==
    ASSUME NEW l \in 0 .. 8, NEW path \in 0 .. 2^l - 1, NEW k \in 1 .. l, NEW T,
           NEW side, side = 1 - Turn(l, path, k)
    PROVE  Xor(XorSide(T, k, side), XorSide(Known(T, l, path, k - 1), k, side))
             = T[Off(l, path, k)]
<1> DEFINE n == 2^(k - 1)
           K == Known(T, l, path, k - 1)
           up == On(l, path, k - 1)
           at == up + 2 - n
           Place1(j) == (2 * n - 1) + side + (2 * (j - 1))
           s == [j \in 1 .. n |-> T[Place1(j)]]
           r == [j \in 1 .. n |-> K[Place1(j)]]
<1>1. k - 1 \in 0 .. l /\ k \in 0 .. 8 /\ (k - 1) + 1 = k /\ k - 1 \in 0 .. 8 /\ k \in 0 .. l
    OBVIOUS
<1>2. n \in Nat /\ n >= 1 /\ 2^k = 2 * n /\ Layer(k - 1) = n - 1 .. 2 * n - 2
      /\ Layer(k) = 2 * n - 1 .. 4 * n - 2
    <2>1. n \in Nat \ {0} /\ 2^((k - 1) + 1) = 2 * n
        <3>1. k - 1 \in 0 .. 30 /\ k - 1 \in 0 .. 29
            OBVIOUS
        <3> QED BY <3>1, PowersDouble
    <2>2. 2^(k + 1) = 2 * 2^k
        <3>1. k \in 0 .. 29
            OBVIOUS
        <3> QED BY <3>1, PowersDouble
    <2>3. 2^k = 2 * n
        BY <1>1, <2>1
    <2> HIDE DEF n
    <2>4. Layer(k - 1) = n - 1 .. 2 * n - 2
        BY <1>1, <2>3 DEF Layer, n
    <2>5. Layer(k) = 2 * n - 1 .. 4 * n - 2
        BY <2>1, <2>2, <2>3 DEF Layer
    <2> QED BY <2>1, <2>3, <2>4, <2>5
<1>3. XorSide(T, k, side) = Total(s) /\ XorSide(K, k, side) = Total(r)
    BY <1>2 DEF XorSide
<1>4. side \in {0, 1} /\ Off(l, path, k) = 2 * up + 1 + side /\ up \in n - 1 .. 2 * n - 2
      /\ On(l, path, k) = 2 * up + 1 + (1 - side)
    <2>1. Turn(l, path, k) \in {0, 1}
          /\ On(l, path, k) = (2 * On(l, path, k - 1)) + 1 + Turn(l, path, k)
        BY PathDown
    <2>2. On(l, path, k - 1) \in Layer(k - 1)
        BY <1>1, PathDown
    <2> QED BY <1>2, <2>1, <2>2 DEF Off
<1>5. \A i \in Layer(k) : K[i] = IF i \in {On(l, path, k), Off(l, path, k)} THEN Zero ELSE T[i]
    <2> TAKE i \in Layer(k)
    <2>1. i \in Nodes(l + 1)
        BY <1>1, LayerInTree
    <2>2. K[i] = IF \E j \in 1 .. k - 1 : Under(Off(l, path, j), i) THEN T[i] ELSE Zero
        BY <2>1 DEF Known
    <2> HIDE DEF K
    <2> QED BY <2>2, KnownNext
<1> HIDE DEF K, n, up
<1>6. at \in 1 .. n /\ Place1(at) = Off(l, path, k) /\ n \in Nat
    <2>1. n \in Nat /\ up \in n - 1 .. 2 * n - 2 /\ side \in {0, 1}
        BY <1>2, <1>4
    <2>2. at \in 1 .. n
        BY <2>1
    <2>3. Place1(at) = 2 * up + 1 + side
        BY <2>1
    <2> QED BY <1>4, <2>1, <2>2, <2>3
<1>7. \A j \in 1 .. n : Place1(j) \in Layer(k) /\ Place1(j) # On(l, path, k)
    <2> TAKE j \in 1 .. n
    <2>1. j \in Int /\ 1 <= j /\ j <= n /\ n \in Nat
        BY <1>6
    <2>2. CASE side = 0
        BY <1>2, <1>4, <2>1, <2>2
    <2>3. CASE side = 1
        BY <1>2, <1>4, <2>1, <2>3
    <2> QED BY <1>4, <2>2, <2>3
<1>8. \A j \in 1 .. n : j # at => Place1(j) # Off(l, path, k)
    BY <1>2, <1>4
<1> HIDE DEF Place1, at
<1>9. \A j \in 1 .. n : j # at => s[j] = r[j]
    BY <1>5, <1>7, <1>8
<1>10. s[at] = T[Off(l, path, k)] /\ r[at] = Zero
    BY <1>5, <1>6, <1>7
<1>11. DOMAIN s = 1 .. n /\ DOMAIN r = 1 .. n
    OBVIOUS
<1> HIDE DEF s, r
<1>12. Xor(Total(s), Total(r)) = Xor(s[at], r[at])
    <2>1. n \in Nat /\ at \in 1 .. n
        BY <1>6
    <2> QED BY <2>1, <1>9, <1>11, DifferInOne
<1> QED BY <1>3, <1>10, <1>12, XorFacts DEF K

\* A tree without the path to a leaf.
Lacking(T, l, path) == [i \in Nodes(l + 1) |-> IF Under(i, (2^l - 1) + path) THEN Zero ELSE T[i]]

(* What a receiver rebuilds from the chosen sums is the tree but for the   *)
(* path.                                                                   *)
LEMMA RebuiltPunctured ==
    ASSUME NEW l \in 0 .. 8, NEW path \in 0 .. 2^l - 1, NEW key
    PROVE  GgmRecv(l + 1, path, Eval(l + 1, GGMTree(l + 1, key)))
             = Lacking(GGMTree(l + 1, key), l, path)
<1> DEFINE high == l + 1
           T == GGMTree(high, key)
           bits == ChosenBits(path, l)
           messages == Eval(high, T)
           received == [i \in 1 .. high - 1 |-> messages[i][bits[i]]]
<1>1. high \in Heights /\ high - 1 = l /\ l \in Nat
    BY DEF Heights
<1>2. /\ DOMAIN T = Nodes(high)
      /\ \A i \in Nodes(high) : i # 0 => T[i] = Prg(T[Parent(i)], (i - 1) % 2)
    BY <1>1, TreeIs
<1>3. \A k \in 1 .. l : bits[k] = 1 - Turn(l, path, k) /\ bits[k] \in {0, 1}
    BY PathDown DEF ChosenBits, Turn
<1>4. \A k \in 1 .. l : received[k] = XorSide(T, k, bits[k])
    <2> HIDE DEF T, bits
    <2> QED BY <1>1, <1>3 DEF Eval
<1>5. GgmRecv(high, path, messages) = Rebuilt(high, received, bits)
    BY <1>1 DEF GgmRecv
<1> HIDE DEF T, bits, received, messages, high
<1>6. PICK G : /\ G[0] = [i \in Nodes(high) |-> Zero]
               /\ \A k \in 0 .. (high - 1) - 1 :
                     G[k + 1] = Set(G[k], CalculateIndex(SubSeq(bits, 1, k + 1)),
                                    Xor(received[k + 1], XorSide(G[k], k + 1, bits[k + 1])))
               /\ Rebuilt(high, received, bits) = G[high - 1]
    BY <1>1, RebuiltIs
<1> DEFINE S == {k \in 0 .. l : G[k] = Known(T, l, path, k)}
<1>7. 0 \in S
    <2>1. \A i : ~ \E j \in 1 .. 0 : Under(Off(l, path, j), i)
        OBVIOUS
    <2> QED BY <1>6, <2>1 DEF Known, high
<1>8. ASSUME NEW k \in 0 .. l - 1, k \in S PROVE k + 1 \in S
    <2> DEFINE m == k + 1
               off == Off(l, path, m)
               K == Known(T, l, path, k)
               v == G[m]
    <2>1. m \in 1 .. l /\ m - 1 = k /\ m \in 0 .. 8
        OBVIOUS
    <2>2. G[k] = K
        BY <1>8
    <2>3. CalculateIndex(SubSeq(bits, 1, m)) = off
        BY <2>1, IndexIsOff DEF bits
    <2>4. Xor(received[m], XorSide(K, m, bits[m])) = T[off]
        <3>1. received[m] = XorSide(T, m, bits[m]) /\ bits[m] = 1 - Turn(l, path, m)
            BY <2>1, <1>3, <1>4
        <3> HIDE DEF m
        <3>2. Xor(XorSide(T, m, bits[m]), XorSide(Known(T, l, path, m - 1), m, bits[m])) = T[off]
            BY <2>1, <3>1, MissingIsOff
        <3> QED BY <2>1, <3>1, <3>2
    <2>5. v = Set(K, off, T[off])
        BY <1>1, <1>6, <2>2, <2>3, <2>4
    <2>6. off \in Layer(m) /\ off \in Nodes(high) /\ off \in Nat
        <3> HIDE DEF m
        <3>1. off \in Layer(m)
            BY <2>1, BesidePath
        <3>2. m \in 0 .. l
            BY <2>1
        <3>3. off \in Nodes(high)
            BY <3>1, <3>2, LayerInTree DEF high
        <3>4. off \in Nat
            BY <2>1, <3>1, LayerOrder DEF Node
        <3> QED BY <3>1, <3>3, <3>4
    <2> DEFINE size == 2^high - 1
    <2>7. size \in Nat /\ size <= 511 /\ Nodes(high) = 0 .. size - 1 /\ Nodes(high) \subseteq Node
        BY <1>1, NodesAre
    <2>8. K = [i \in Nodes(high) |->
                  IF \E j \in 1 .. k : Under(Off(l, path, j), i) THEN T[i] ELSE Zero]
        BY DEF Known, high
    <2> HIDE DEF m, off, K, v, size
    <2>9. v = [i \in 0 .. size - 1 |->
                  IF i = off THEN T[off]
                  ELSE IF Under(off, i) THEN Prg(v[Parent(i)], (i - 1) % 2) ELSE K[i]]
        <3>1. DOMAIN K = 0 .. size - 1
            BY <2>7, <2>8
        <3> QED BY <2>5, <2>6, <2>7, <3>1, SetIs
    <2>10. \A i \in Nodes(high) : Under(off, i) => v[i] = T[i]
        <3> DEFINE top == size - 1
                   R == {n \in 0 .. top : \A i \in 0 .. n : Under(off, i) => v[i] = T[i]}
        <3>1. top \in Nat /\ Nodes(high) = 0 .. top
            <4>1. size >= 1
                BY <2>6, <2>7
            <4> QED BY <2>7, <4>1
        <3> HIDE DEF top
        <3>2. 0 \in R
            <4>1. off # 0
                <5>1. m \in 1 .. 8
                    BY <2>1
                <5> QED BY <2>6, <5>1, LayerOrder
            <4>2. ~ Under(off, 0)
                BY <2>6, <4>1, UnderParent DEF Node
            <4> QED BY <3>1, <4>2
        <3>3. ASSUME NEW n \in 0 .. top - 1, n \in R PROVE n + 1 \in R
            <4> DEFINE x == n + 1
            <4>1. x \in 0 .. top /\ x \in Nat /\ x >= 1
                BY <3>1
            <4>2. x \in Nodes(high) /\ x \in Node /\ x # 0
                BY <3>1, <4>1, <2>7
            <4>3. Parent(x) \in 0 .. n
                BY <4>1, ParentIs
            <4>4. Under(off, x) <=> x = off \/ Under(off, Parent(x))
                BY <4>2, <2>6, UnderParent
            <4>5. Under(off, Parent(x)) => v[Parent(x)] = T[Parent(x)]
                BY <3>3, <4>3
            <4>6. v[x] = IF x = off THEN T[off]
                         ELSE IF Under(off, x) THEN Prg(v[Parent(x)], (x - 1) % 2) ELSE K[x]
                BY <2>7, <2>9, <4>2
            <4>7. T[x] = Prg(T[Parent(x)], (x - 1) % 2)
                BY <1>2, <4>2
            <4> HIDE DEF x
            <4>8. Under(off, x) => v[x] = T[x]
                BY <4>4, <4>5, <4>6, <4>7
            <4>9. \A i \in 0 .. x : i \in 0 .. n \/ i = x
                BY <4>1 DEF x
            <4>10. x \in R
                BY <3>3, <4>1, <4>8, <4>9
            <4> QED BY <4>10 DEF x
        <3>4. \A n \in 0 .. top : n \in R
            <4> HIDE DEF R
            <4> QED BY <3>1, <3>2, <3>3, InductionUpTo
        <3>5. top \in R
            BY <3>1, <3>4
        <3> QED BY <3>1, <3>5
    <2>11. ASSUME NEW i \in Nodes(high)
           PROVE  v[i] = IF \E j \in 1 .. m : Under(Off(l, path, j), i) THEN T[i] ELSE Zero
        <3>1. (\E j \in 1 .. m : Under(Off(l, path, j), i))
                 <=> Under(off, i) \/ \E j \in 1 .. k : Under(Off(l, path, j), i)
            <4>1. \A j : j \in 1 .. m <=> j \in 1 .. k \/ j = m
                BY <2>1 DEF m
            <4> QED BY <4>1 DEF off
        <3>2. Under(off, off)
            BY <2>6, <2>7, UnderParent
        <3>3. ~ Under(off, i) => v[i] = K[i]
            BY <2>7, <2>9, <3>2
        <3>4. K[i] = IF \E j \in 1 .. k : Under(Off(l, path, j), i) THEN T[i] ELSE Zero
            BY <2>8
        <3> QED BY <2>10, <3>1, <3>3, <3>4
    <2>12. v = Known(T, l, path, m)
        <3>1. v = [i \in Nodes(high) |-> v[i]]
            BY <2>7, <2>9
        <3> QED BY <2>11, <3>1 DEF Known, high
    <2> QED BY <2>1, <2>12 DEF v, m
<1>9. \A k \in 0 .. l : k \in S
    <2> HIDE DEF S
    <2> QED BY <1>1, <1>7, <1>8, InductionUpTo
<1>10. G[l] = Known(T, l, path, l)
    BY <1>1, <1>9
<1>11. ASSUME NEW i \in Nodes(high)
       PROVE  (\E j \in 1 .. l : Under(Off(l, path, j), i)) <=> ~ Under(i, (2^l - 1) + path)
    <2>1. PICK k \in 0 .. l : i \in Layer(k)
        BY NodeInLayer DEF high
    <2>2. (\E j \in 1 .. k : Under(Off(l, path, j), i)) <=> i # On(l, path, k)
        BY <2>1, OffThePath
    <2>3. Under(i, (2^l - 1) + path) <=> i = On(l, path, k)
        BY <2>1, AboveTheLeaf
    <2>4. \A j \in 1 .. l : j > k => ~ Under(Off(l, path, j), i)
        <3> TAKE j \in 1 .. l
        <3> HAVE j > k
        <3>1. j \in 0 .. 8 /\ k \in 0 .. 8 /\ k < j
            OBVIOUS
        <3>2. Off(l, path, j) \in Layer(j)
            BY BesidePath
        <3>3. i < Off(l, path, j)
            BY <2>1, <3>1, <3>2, LayerOrder
        <3>4. Off(l, path, j) \in Nat /\ i \in Node
            BY <2>1, <3>1, <3>2, LayerOrder DEF Node
        <3>5. Under(Off(l, path, j), i) => Off(l, path, j) <= i
            BY <3>4, UnderParent
        <3> QED BY <3>3, <3>4, <3>5 DEF Node
    <2>5. \A j \in 1 .. l : j \in 1 .. k \/ j > k
        OBVIOUS
    <2>6. \A j \in 1 .. k : j \in 1 .. l
        OBVIOUS
    <2> QED BY <2>2, <2>3, <2>4, <2>5, <2>6
<1>12. Known(T, l, path, l)
         = [i \in Nodes(high) |-> IF Under(i, (2^l - 1) + path) THEN Zero ELSE T[i]]
    BY <1>11 DEF Known, high
<1> QED BY <1>1, <1>5, <1>6, <1>10, <1>12 DEF T, messages, high, Lacking

-----------------------------------------------------------------------------
\* A call makes at most as many trees as the eight bits of incrementPort have
\* ports.
FewTasks == \A s \in Shapes : s.height <= 9

\* The arguments and the random permutations of a run.
ShapeOK ==
    /\ shape \in Shapes
    /\ sbox \in [1 .. ((shape.layers + 1) \div 2) * Pairs -> {s \in Swaps : DOMAIN s = 0 .. t - 1}]
    /\ pbox \in [0 .. (shape.layers \div 2) - 1 -> {s \in Boxes : DOMAIN s = Rows}]

LEMMA ShapeFacts ==
    ASSUME FewTasks, ShapeOK
    PROVE  /\ h \in Heights /\ h - 1 \in 0 .. 8 /\ (h - 1) + 1 = h
           /\ t \in Nat \ {0} /\ t = 2^(h - 1) /\ t <= 256
           /\ shape.nums \in Nat \ {0} /\ shape.layers \in Nat
           /\ Pairs \in Nat \ {0} /\ shape.nums = t * Pairs
<1>1. h \in 1 .. 9 /\ shape.nums \in Nat \ {0} /\ shape.layers \in Nat /\ shape.nums % t = 0
    <2>1. shape \in Shapes
        BY DEF ShapeOK
    <2>2. /\ shape.height \in Nat \ {0} /\ shape.nums \in Nat \ {0} /\ shape.layers \in Nat
          /\ shape.nums % 2^(shape.height - 1) = 0
        BY <2>1, ShuffleAssumption
    <2>3. shape.height <= 9
        BY <2>1 DEF FewTasks
    <2>4. h \in 1 .. 9
        BY <2>2, <2>3 DEF h
    <2> QED BY <2>2, <2>4 DEF h, t
<1>2. h - 1 \in 0 .. 8 /\ h \in Heights
    BY <1>1 DEF Heights
<1>3. t \in Nat \ {0} /\ t <= 256
    <2>1. h - 1 \in 0 .. 30 /\ h - 1 \in 0 .. 9 /\ 8 \in 0 .. 9 /\ h - 1 <= 8
        BY <1>2
    <2>2. 2^8 = 256
        OBVIOUS
    <2>3. 2^(h - 1) <= 2^8
        BY <2>1, PowersRise
    <2>4. 2^(h - 1) \in Nat \ {0}
        BY <2>1, PowersDouble
    <2> QED BY <2>2, <2>3, <2>4 DEF t
<1>4. Pairs \in Nat \ {0} /\ shape.nums = t * Pairs
    <2>1. shape.nums = t * (shape.nums \div t) + (shape.nums % t) /\ shape.nums \div t \in Int
        <3>1. shape.nums \in Int
            BY <1>1
        <3> QED BY <1>3, <3>1, DivMod
    <2> DEFINE m == t
               n == shape.nums
    <2>2. n = m * Pairs + 0 /\ Pairs \in Int /\ m \in Nat \ {0} /\ n \in Nat \ {0}
        BY <1>1, <1>3, <2>1 DEF Pairs
    <2> HIDE DEF m, n
    <2>3. Pairs >= 1
        <3> SUFFICES ASSUME Pairs <= 0 PROVE FALSE
            BY <2>2
        <3>1. m * Pairs <= 0
            BY <2>2
        <3> QED BY <2>2, <3>1
    <2>4. n = m * Pairs
        BY <2>2
    <2> QED BY <2>2, <2>3, <2>4 DEF m, n
<1>5. (h - 1) + 1 = h /\ t = 2^(h - 1)
    BY <1>1 DEF t
<1> QED BY <1>1, <1>2, <1>3, <1>4, <1>5

\* A tree as a receiver makes it that leaves out the path to a leaf.
Without(T, leaf) == [i \in Nodes(h) |-> IF OnPath(i, leaf) THEN Zero ELSE T[i]]

(* The leaves of a tree, and which of them a receiver misses.              *)
LEMMA LeafIs ==
    ASSUME FewTasks, ShapeOK, NEW T
    PROVE  /\ DOMAIN Leaf(h, T) = 0 .. t - 1
           /\ \A j \in 0 .. t - 1 : Leaf(h, T)[j] = T[(t - 1) + j]
           /\ XorLayer(T, h - 1) = Total([k \in 1 .. t |-> T[(t - 2) + k]])
<1>1. t = 2^(h - 1)
    BY ShapeFacts
<1> QED BY <1>1 DEF Leaf, XorLayer

LEMMA MissesOne ==
    ASSUME FewTasks, ShapeOK, NEW T, NEW leaf \in 0 .. t - 1, NEW j \in 0 .. t - 1
    PROVE  Without(T, leaf)[(t - 1) + j] = IF j = leaf THEN Zero ELSE T[(t - 1) + j]
<1> DEFINE l == h - 1
<1>1. l \in 0 .. 8 /\ l + 1 = h /\ t = 2^l /\ t \in Nat \ {0}
    BY ShapeFacts
<1> HIDE DEF l
<1>2. leaf \in 0 .. 2^l - 1 /\ j \in 0 .. 2^l - 1 /\ l \in 0 .. l
    BY <1>1
<1>3. On(l, j, l) = (t - 1) + j /\ On(l, leaf, l) = (t - 1) + leaf
    BY <1>1, <1>2, PathDown
<1>4. (t - 1) + j \in Layer(l)
    <2>1. \A k \in 0 .. l : On(l, j, k) \in Layer(k)
        BY <1>1, <1>2, PathDown
    <2> QED BY <1>2, <1>3, <2>1
<1>5. (t - 1) + j \in Nodes(h)
    BY <1>1, <1>2, <1>4, LayerInTree
<1>6. Under((t - 1) + j, (2^l - 1) + leaf) <=> (t - 1) + j = On(l, leaf, l)
    BY <1>1, <1>2, <1>4, AboveTheLeaf
<1>7. OnPath((t - 1) + j, leaf) <=> j = leaf
    BY <1>1, <1>3, <1>6 DEF OnPath
<1> QED BY <1>5, <1>7 DEF Without

\* The leaves of all trees of a call at one position.
TaskSum(j) == Total([i \in 1 .. t |-> Leaf(h, TaskTree(i))[j]])
LocalSum(j) == Total([i \in 1 .. t |-> Leaf(h, LocalTree(i))[j]])

(* What the sender adds to a is the leaves of both loops.                  *)
LEMMA LeavesSplit ==
    ASSUME FewTasks, ShapeOK, NEW j \in 0 .. t - 1
    PROVE  Leaves[j] = Xor(LocalSum(j), TaskSum(j))
<1> DEFINE s == [i \in 1 .. t |-> Leaf(h, LocalTree(i))[j]]
           r == [i \in 1 .. t |-> Leaf(h, TaskTree(i))[j]]
<1>1. t \in Nat
    BY ShapeFacts
<1>2. Leaves[j] = Total([i \in 1 .. t |-> Xor(s[i], r[i])])
    BY DEF Leaves
<1>3. DOMAIN s = 1 .. t /\ DOMAIN r = 1 .. t /\ LocalSum(j) = Total(s) /\ TaskSum(j) = Total(r)
    BY DEF LocalSum, TaskSum
<1> HIDE DEF s, r
<1> QED BY <1>1, <1>2, <1>3, TotalXor

(* The first loop's leaves are all that its sum has.                       *)
LEMMA LocalSumWithin ==
    ASSUME FewTasks, ShapeOK, NEW j \in 0 .. t - 1
    PROVE  LocalSum(j) \subseteq UNION LocalLeaves
<1> DEFINE s == [i \in 1 .. t |-> Leaf(h, LocalTree(i))[j]]
<1>1. t \in Nat
    BY ShapeFacts
<1>2. \A i \in 1 .. t : s[i] \subseteq UNION LocalLeaves
    <2> TAKE i \in 1 .. t
    <2>1. DOMAIN Leaf(h, LocalTree(i)) = 0 .. t - 1
        BY LeafIs
    <2>2. Leaf(h, LocalTree(i))[j] \in Range(Leaf(h, LocalTree(i)))
        BY <2>1 DEF Range
    <2>3. Leaf(h, LocalTree(i))[j] \in LocalLeaves
        BY <2>2 DEF LocalLeaves
    <2> QED BY <2>3
<1>3. DOMAIN s = 1 .. t /\ LocalSum(j) = Total(s)
    BY DEF LocalSum
<1> HIDE DEF s
<1> QED BY <1>1, <1>2, <1>3, TotalWithin

(* What the receiver adds up, with a path missing in each of its trees.    *)
LEMMA ReceiverSum ==
    ASSUME FewTasks, ShapeOK, NEW perm, NEW tr, NEW k \in 0 .. t - 1,
           \A x \in 0 .. t - 1 : perm[x] \in 0 .. t - 1,
           \A x, y \in 0 .. t - 1 : perm[x] = perm[y] => x = y,
           \A i \in 1 .. t : tr[i] = Without(TaskTree(i), perm[i - 1])
    PROVE  Xor(Total([i \in 1 .. t |-> Leaf(h, tr[i])[perm[k]]]), XorLayer(tr[k + 1], h - 1))
             = Xor(TaskSum(perm[k]), Layers[k])
<1> DEFINE q == perm[k]
           T == TaskTree(k + 1)
           s == [i \in 1 .. t |-> Leaf(h, tr[i])[q]]
           r == [i \in 1 .. t |-> Leaf(h, TaskTree(i))[q]]
           u == [i \in 1 .. t |-> tr[k + 1][(t - 2) + i]]
           v == [i \in 1 .. t |-> T[(t - 2) + i]]
<1>1. t \in Nat \ {0}
    BY ShapeFacts
<1>2. q \in 0 .. t - 1 /\ k + 1 \in 1 .. t /\ q + 1 \in 1 .. t /\ (k + 1) - 1 = k
    BY <1>1
<1>3. Xor(Total(s), Total(r)) = T[(t - 1) + q]
    <2>1. ASSUME NEW i \in 1 .. t
          PROVE  s[i] = IF i = k + 1 THEN Zero ELSE r[i]
        <3>1. i - 1 \in 0 .. t - 1 /\ perm[i - 1] \in 0 .. t - 1
            BY <1>1
        <3>2. q = perm[i - 1] <=> i = k + 1
            BY <1>1, <3>1
        <3>3. Leaf(h, tr[i])[q] = tr[i][(t - 1) + q] /\ r[i] = TaskTree(i)[(t - 1) + q]
            BY <1>2, LeafIs
        <3>4. Without(TaskTree(i), perm[i - 1])[(t - 1) + q]
                = IF q = perm[i - 1] THEN Zero ELSE TaskTree(i)[(t - 1) + q]
            BY <1>2, <3>1, MissesOne
        <3> QED BY <3>2, <3>3, <3>4
    <2>2. r[k + 1] = T[(t - 1) + q]
        BY <1>2, LeafIs
    <2>3. DOMAIN s = 1 .. t /\ DOMAIN r = 1 .. t
        OBVIOUS
    <2> HIDE DEF s, r, q, T
    <2>4. Xor(Total(s), Total(r)) = Xor(s[k + 1], r[k + 1])
        <3>1. t \in Nat /\ \A i \in 1 .. t : i # k + 1 => s[i] = r[i]
            BY <1>1, <2>1
        <3> QED BY <1>2, <2>3, <3>1, DifferInOne
    <2> QED BY <1>2, <2>1, <2>2, <2>4, XorFacts
<1>4. Xor(Total(u), Total(v)) = T[(t - 1) + q]
    <2>1. ASSUME NEW i \in 1 .. t
          PROVE  u[i] = IF i = q + 1 THEN Zero ELSE v[i]
        <3>1. i - 1 \in 0 .. t - 1 /\ (t - 2) + i = (t - 1) + (i - 1) /\ (i - 1 = q <=> i = q + 1)
            BY <1>1, <1>2
        <3>2. Without(T, q)[(t - 1) + (i - 1)] = IF i - 1 = q THEN Zero ELSE T[(t - 1) + (i - 1)]
            BY <1>2, <3>1, MissesOne
        <3>3. tr[k + 1] = Without(T, q)
            BY <1>2
        <3> HIDE DEF T, q
        <3> QED BY <3>1, <3>2, <3>3
    <2>2. v[q + 1] = T[(t - 1) + q]
        <3>1. (t - 2) + (q + 1) = (t - 1) + q
            BY <1>1, <1>2
        <3> HIDE DEF T, q
        <3> QED BY <1>2, <3>1
    <2>3. DOMAIN u = 1 .. t /\ DOMAIN v = 1 .. t
        OBVIOUS
    <2> HIDE DEF u, v, q, T
    <2>4. Xor(Total(u), Total(v)) = Xor(u[q + 1], v[q + 1])
        <3>1. t \in Nat /\ \A i \in 1 .. t : i # q + 1 => u[i] = v[i]
            BY <1>1, <2>1
        <3> DEFINE at == q + 1
        <3>2. at \in 1 .. t
            BY <1>2
        <3>3. \A i \in 1 .. t : i # at => u[i] = v[i]
            BY <3>1
        <3> HIDE DEF at
        <3>4. Xor(Total(u), Total(v)) = Xor(u[at], v[at])
            BY <2>3, <3>1, <3>2, <3>3, DifferInOne
        <3> QED BY <3>4 DEF at
    <2> QED BY <1>2, <2>1, <2>2, <2>4, XorFacts
<1>5. XorLayer(tr[k + 1], h - 1) = Total(u) /\ Layers[k] = Total(v)
    BY LeafIs DEF Layers
<1>6. TaskSum(q) = Total(r)
    BY DEF TaskSum
<1> HIDE DEF q, s, r, u, v, T
<1>7. Xor(Total(s), Total(u)) = Xor(Total(r), Total(v))
    BY <1>3, <1>4 DEF Xor
<1> QED BY <1>5, <1>6, <1>7 DEF q, s

-----------------------------------------------------------------------------
InCall == {"enqueue", "collect", "main", "send", "recv"}

\* The number of the mShuffle call that comes next, or is being made.
NextCall(layer, pair) == ((layer + 1) \div 2) * Pairs + pair + 1

\* A process that has met the other one for the last message is past its call.
CallsMade(step, layer, pair) == NextCall(layer, pair) + (IF step \in {"send", "recv"} THEN 1 ELSE 0)

\* Either process: its step, its loops, its pool, its tasks that have met.
Side(step, layer, pair, taken, started, ended, met) ==
    /\ step \in {"connect", "layer", "done"} \cup InCall
    /\ layer \in Nat /\ pair \in Nat
    /\ taken \in 0 .. t /\ started \in 0 .. taken
    /\ ended \subseteq 1 .. started /\ met \subseteq 1 .. started
    /\ step = "enqueue" => taken < t
    /\ step \in {"collect", "main", "send", "recv"} => taken = t
    /\ step \notin {"enqueue", "collect"} => started = taken /\ ended = 1 .. taken
    /\ step \in InCall => layer % 2 = 0 /\ ended \subseteq met
    /\ step \notin InCall => met = {}

SSide == Side(sPc, sLayer, sPair, sTaken, sStarted, sEnded, sMet)
RSide == Side(rPc, rLayer, rPair, rTaken, rStarted, rEnded, DOMAIN trees)

(* The two processes are at the same call or just past it, and a task that *)
(* has met has met the task of its number.                                 *)
Sync ==
    /\ sPc # "recv" /\ rPc # "send"
    /\ CallsMade(sPc, sLayer, sPair) = CallsMade(rPc, rLayer, rPair)
    /\ sPc = "send" /\ rPc # "recv" => DOMAIN trees = {}
    /\ rPc = "recv" /\ sPc # "send" => sMet = {}
    /\ sPc # "send" /\ rPc # "recv" => sMet = DOMAIN trees

ShapeInv == t \in 1 .. 256 /\ Pairs \in Int

CallInv == ShapeInv /\ SSide /\ RSide /\ Sync

-----------------------------------------------------------------------------
(* Ports of the tasks of a call differ.                                    *)
LEMMA PortsDiffer ==
    ASSUME ShapeInv, NEW i \in 1 .. t, NEW k \in 1 .. t, Port(i) = Port(k)
    PROVE  i = k
<1>1. /\ i - 1 \in 0 .. 256 - 1 /\ k - 1 \in 0 .. 256 - 1
      /\ 256 \in Nat \ {0}
    BY DEF ShapeInv
<1>2. (i - 1) % 256 = i - 1 /\ (k - 1) % 256 = k - 1
    BY <1>1, ModOfSmall
<1> QED BY <1>1, <1>2 DEF Port

(* A task that runs and has not met is one of a call whose tasks are being *)
(* started or awaited.                                                     *)
LEMMA RunningInside ==
    ASSUME ShapeInv, NEW step, NEW layer, NEW pair, NEW taken, NEW started, NEW ended, NEW met,
           Side(step, layer, pair, taken, started, ended, met), NEW i \in (1 .. started) \ ended
    PROVE  step \in {"enqueue", "collect"} /\ i \in 1 .. t
BY DEF Side, ShapeInv

(* CallsMade are numbered.                                                     *)
LEMMA NextCallInt ==
    ASSUME ShapeInv, NEW layer \in Nat, NEW pair \in Nat
    PROVE  NextCall(layer, pair) \in Int
<1>1. (layer + 1) \div 2 \in Int /\ Pairs \in Int
    BY DEF ShapeInv
<1> QED BY <1>1 DEF NextCall

(* The next call after a pair's and after a layer of permutations.         *)
LEMMA NextCallSteps ==
    ASSUME ShapeInv, NEW layer \in Nat, NEW pair \in Nat
    PROVE  /\ layer % 2 = 0 =>
                /\ NextCall(layer, pair) = CallOf(layer, pair)
                /\ NextCall(NextLayer(layer, pair), NextPair(pair)) = NextCall(layer, pair) + 1
           /\ layer % 2 = 1 => NextCall(layer + 1, pair) = NextCall(layer, pair)
<1>1. /\ (layer + 1) \div 2 = IF layer % 2 = 1 THEN (layer \div 2) + 1 ELSE layer \div 2
      /\ (layer + 2) \div 2 = (layer \div 2) + 1
      /\ layer \div 2 \in Nat
    BY DivMod
<1>2. Pairs \in Int
    BY DEF ShapeInv
<1>3. ASSUME layer % 2 = 0
      PROVE  NextCall(layer, pair) = CallOf(layer, pair)
    BY <1>1, <1>3 DEF NextCall, CallOf
<1>4. ASSUME layer % 2 = 0
      PROVE  NextCall(NextLayer(layer, pair), NextPair(pair)) = NextCall(layer, pair) + 1
    <2> HIDE DEF Pairs
    <2>1. NextCall(layer, pair) = (layer \div 2) * Pairs + pair + 1
        BY <1>1, <1>4 DEF NextCall
    <2>2. CASE pair + 1 = Pairs
        <3>1. NextPair(pair) = 0 /\ NextLayer(layer, pair) = layer + 1
            BY <2>2 DEF NextPair, NextLayer
        <3>2. NextCall(layer + 1, 0) = ((layer \div 2) + 1) * Pairs + 1
            <4>1. (layer + 1) + 1 = layer + 2
                OBVIOUS
            <4>2. ((layer \div 2) + 1) * Pairs \in Int
                BY <1>1, <1>2
            <4> QED BY <1>1, <4>1, <4>2 DEF NextCall
        <3>3. ((layer \div 2) + 1) * Pairs = (layer \div 2) * Pairs + Pairs
            BY <1>1, <1>2
        <3> QED BY <1>1, <1>2, <2>1, <2>2, <3>1, <3>2, <3>3
    <2>3. CASE pair + 1 # Pairs
        <3>1. NextPair(pair) = pair + 1 /\ NextLayer(layer, pair) = layer
            BY <2>3 DEF NextPair, NextLayer
        <3>2. NextCall(layer, pair + 1) = (layer \div 2) * Pairs + (pair + 1) + 1
            BY <1>1, <1>4 DEF NextCall
        <3>3. (layer \div 2) * Pairs \in Int
            BY <1>1, <1>2
        <3> QED BY <2>1, <3>1, <3>2, <3>3
    <2> QED BY <2>2, <2>3
<1>5. ASSUME layer % 2 = 1
      PROVE  NextCall(layer + 1, pair) = NextCall(layer, pair)
    BY <1>1, <1>5 DEF NextCall
<1> QED BY <1>3, <1>4, <1>5

-----------------------------------------------------------------------------
(* What the steps of one process keep of it.  A pool starts and ends its   *)
(* tasks, the loop enqueues them and takes their results, and the process  *)
(* goes from call to call.                                                 *)

(* A call begins with an empty pool.                                       *)
LEMMA SideBegins ==
    ASSUME ShapeInv, NEW layer \in Nat, NEW pair \in Nat, layer % 2 = 0
    PROVE  Side("enqueue", layer, pair, 0, 0, {}, {})
BY DEF Side, InCall, ShapeInv

(* The loop over the tasks enqueues one.                                   *)
LEMMA SideEnqueues ==
    ASSUME ShapeInv, NEW layer, NEW pair, NEW taken, NEW started, NEW ended, NEW met,
           Side("enqueue", layer, pair, taken, started, ended, met)
    PROVE  Side(IF taken + 1 = t THEN "collect" ELSE "enqueue",
                layer, pair, taken + 1, started, ended, met)
<1> DEFINE step == IF taken + 1 = t THEN "collect" ELSE "enqueue"
<1>1. taken + 1 \in 0 .. t /\ started \in 0 .. (taken + 1)
    BY DEF Side, ShapeInv
<1>2. step \in {"enqueue", "collect"} /\ (step = "enqueue" => taken + 1 < t)
    BY <1>1 DEF ShapeInv
<1>3. step = "collect" => taken + 1 = t
    OBVIOUS
<1> HIDE DEF step
<1>4. step \in InCall
    BY <1>2 DEF InCall
<1>5. Side(step, layer, pair, taken + 1, started, ended, met)
    BY <1>1, <1>2, <1>3, <1>4 DEF Side, InCall
<1> QED BY <1>5 DEF step

(* The pool starts a task.                                                 *)
LEMMA SideStarts ==
    ASSUME ShapeInv, NEW step, NEW layer, NEW pair, NEW taken, NEW started, NEW ended, NEW met,
           Side(step, layer, pair, taken, started, ended, met), started < taken
    PROVE  Side(step, layer, pair, taken, started + 1, ended, met)
BY DEF Side, ShapeInv

(* A task that has met ends.                                               *)
LEMMA SideEnds ==
    ASSUME ShapeInv, NEW step, NEW layer, NEW pair, NEW taken, NEW started, NEW ended, NEW met,
           Side(step, layer, pair, taken, started, ended, met),
           NEW i \in (1 .. started) \ ended, i \in met
    PROVE  Side(step, layer, pair, taken, started, ended \cup {i}, met)
<1>1. step \in {"enqueue", "collect"}
    BY RunningInside
<1> QED BY <1>1 DEF Side, InCall

(* A task meets.                                                           *)
LEMMA SideMeets ==
    ASSUME ShapeInv, NEW step, NEW layer, NEW pair, NEW taken, NEW started, NEW ended, NEW met,
           Side(step, layer, pair, taken, started, ended, met), NEW i \in (1 .. started) \ ended
    PROVE  Side(step, layer, pair, taken, started, ended, met \cup {i})
<1>1. step \in {"enqueue", "collect"}
    BY RunningInside
<1> QED BY <1>1 DEF Side, InCall

(* All results are in: all tasks were started and have ended.              *)
LEMMA SideCollects ==
    ASSUME ShapeInv, NEW layer, NEW pair, NEW taken, NEW started, NEW ended, NEW met,
           Side("collect", layer, pair, taken, started, ended, met), ended = 1 .. t
    PROVE  /\ Side("main", layer, pair, taken, started, ended, met)
           /\ met = 1 .. t
<1>1. t \in 1 .. t
    BY DEF ShapeInv
<1>2. taken = t /\ started \in 0 .. taken /\ ended \subseteq 1 .. started
    BY DEF Side
<1>3. started = t
    BY <1>1, <1>2 DEF ShapeInv
<1> QED BY <1>2, <1>3 DEF Side, InCall

(* The process returns from a call to its loops.                           *)
LEMMA SideReturns ==
    ASSUME ShapeInv, NEW step \in {"send", "recv"}, NEW layer, NEW pair, NEW taken, NEW started,
           NEW ended, NEW met, Side(step, layer, pair, taken, started, ended, met)
    PROVE  /\ Side("layer", NextLayer(layer, pair), NextPair(pair), taken, started, ended, {})
           /\ NextCall(NextLayer(layer, pair), NextPair(pair)) = NextCall(layer, pair) + 1
<1>1. layer \in Nat /\ pair \in Nat /\ layer % 2 = 0
    BY DEF Side, InCall
<1>2. NextPair(pair) \in Nat /\ NextLayer(layer, pair) \in Nat
    BY <1>1 DEF NextPair, NextLayer
<1> QED BY <1>1, <1>2, NextCallSteps DEF Side, InCall

-----------------------------------------------------------------------------
(* Every step keeps both processes at the same call.                       *)
LEMMA CallStep == CallInv /\ [Next]_vars => CallInv'
<1> SUFFICES ASSUME CallInv, [Next]_vars PROVE CallInv'
    OBVIOUS
<1> USE DEF CallInv
<1>1. UNCHANGED arguments
    BY DEF Next, Connect, SBegin, SEnqueue, SStart, SEnd, SCollect, SReturn, SRecvBox, SDone,
           RBegin, REnqueue, RStart, REnd, RCollect, RReturn, RSendBox, RDone,
           MeetTasks, MeetMain, vars, arguments
<1>2. /\ t' = t /\ Pairs' = Pairs /\ ShapeInv'
      /\ \A layer, pair : NextCall(layer, pair)' = NextCall(layer, pair)
    <2>1. shape' = shape
        BY <1>1 DEF arguments
    <2>2. t' = t /\ Pairs' = Pairs
        BY <2>1 DEF t, h, Pairs
    <2> QED BY <2>2 DEF ShapeInv, NextCall
<1>3. /\ SSide' <=> Side(sPc', sLayer', sPair', sTaken', sStarted', sEnded', sMet')
      /\ RSide' <=> Side(rPc', rLayer', rPair', rTaken', rStarted', rEnded', DOMAIN trees')
    BY <1>2 DEF SSide, RSide, Side
<1>4. /\ CallsMade(sPc, sLayer, sPair)'
         = NextCall(sLayer', sPair') + (IF sPc' \in {"send", "recv"} THEN 1 ELSE 0)
      /\ CallsMade(rPc, rLayer, rPair)'
         = NextCall(rLayer', rPair') + (IF rPc' \in {"send", "recv"} THEN 1 ELSE 0)
    BY <1>2 DEF CallsMade, NextCall
<1> DEFINE sNext == NextCall(sLayer, sPair)
           rNext == NextCall(rLayer, rPair)
<1>4a. sNext \in Int /\ rNext \in Int
    BY NextCallInt DEF SSide, RSide, Side
<1>5. ASSUME UNCHANGED <<sPc, sLayer, sPair, sTaken, sStarted, sEnded, sMet>> PROVE SSide'
    BY <1>3, <1>5 DEF SSide
<1>6. ASSUME UNCHANGED <<rPc, rLayer, rPair, rTaken, rStarted, rEnded, trees>> PROVE RSide'
    BY <1>3, <1>6 DEF RSide
<1>7. ASSUME UNCHANGED <<sLayer, sPair, sMet, rLayer, rPair, trees>>,
             sPc' \in {"send", "recv"} <=> sPc \in {"send", "recv"},
             rPc' \in {"send", "recv"} <=> rPc \in {"send", "recv"},
             sPc' # "recv", rPc' # "send"
      PROVE  Sync'
    BY <1>4, <1>7 DEF Sync, CallsMade
<1>8. CASE Connect
    <2>1. /\ sPc = "connect" /\ rPc = "connect" /\ sPc' = "layer" /\ rPc' = "layer"
          /\ UNCHANGED <<sLayer, sPair, sTaken, sStarted, sEnded, sMet,
                         rLayer, rPair, rTaken, rStarted, rEnded, trees>>
        BY <1>8 DEF Connect, sPool, rPool
    <2>2. Sync'
        BY <1>7, <2>1
    <2>3. SSide'
        BY <1>3, <2>1 DEF SSide, Side, InCall
    <2>4. RSide'
        BY <1>3, <2>1 DEF RSide, Side, InCall
    <2> QED BY <1>2, <2>2, <2>3, <2>4
<1>9. CASE SBegin
    <2>1. /\ sPc = "layer" /\ sLayer % 2 = 0 /\ sPc' = "enqueue"
          /\ sTaken' = 0 /\ sStarted' = 0 /\ sEnded' = {}
          /\ UNCHANGED <<sLayer, sPair, sMet, rPc, rLayer, rPair, rTaken, rStarted, rEnded, trees>>
        BY <1>9 DEF SBegin, SwapLayer, receiver, rPool
    <2>2. sMet = {} /\ sLayer \in Nat /\ sPair \in Nat
        BY <2>1 DEF SSide, Side, InCall
    <2>3. SSide'
        BY <1>3, <2>1, <2>2, SideBegins
    <2>4. Sync'
        BY <1>7, <2>1 DEF Sync
    <2> QED BY <1>2, <1>6, <2>1, <2>3, <2>4
<1>10. CASE SEnqueue
    <2>1. /\ sPc = "enqueue" /\ sPc' = (IF sTaken + 1 = t THEN "collect" ELSE "enqueue")
          /\ sTaken' = sTaken + 1
          /\ UNCHANGED <<sStarted, sEnded, sLayer, sPair, sMet,
                         rPc, rLayer, rPair, rTaken, rStarted, rEnded, trees>>
        BY <1>10 DEF SEnqueue, SPool!Take, receiver, rPool
    <2>2. SSide'
        BY <1>3, <2>1, SideEnqueues DEF SSide
    <2>3. Sync'
        BY <1>7, <2>1 DEF Sync
    <2> QED BY <1>2, <1>6, <2>1, <2>2, <2>3
<1>11. CASE SStart
    <2>1. /\ sStarted < sTaken /\ sStarted' = sStarted + 1
          /\ UNCHANGED <<sPc, sTaken, sEnded, sLayer, sPair, sMet,
                         rPc, rLayer, rPair, rTaken, rStarted, rEnded, trees>>
        BY <1>11 DEF SStart, SPool!Start, sender, receiver, rPool
    <2>2. SSide'
        BY <1>3, <2>1, SideStarts DEF SSide
    <2>3. Sync'
        BY <1>7, <2>1 DEF Sync
    <2> QED BY <1>2, <1>6, <2>1, <2>2, <2>3
<1>12. ASSUME NEW i \in SPool!Running, SEnd(i) PROVE CallInv'
    <2>1. /\ i \in sMet /\ i \in (1 .. sStarted) \ sEnded /\ sEnded' = sEnded \cup {i}
          /\ UNCHANGED <<sPc, sTaken, sStarted, sLayer, sPair, sMet,
                         rPc, rLayer, rPair, rTaken, rStarted, rEnded, trees>>
        BY <1>12 DEF SEnd, SPool!End, SPool!Running, sender, receiver, rPool
    <2>2. SSide'
        BY <1>3, <2>1, SideEnds DEF SSide
    <2>3. Sync'
        BY <1>7, <2>1 DEF Sync
    <2> QED BY <1>2, <1>6, <2>1, <2>2, <2>3
<1>13. CASE SCollect
    <2>1. /\ sPc = "collect" /\ sPc' = "main" /\ sEnded = 1 .. t
          /\ UNCHANGED <<sTaken, sStarted, sEnded, sLayer, sPair, sMet,
                         rPc, rLayer, rPair, rTaken, rStarted, rEnded, trees>>
        BY <1>13 DEF SCollect, sPool, receiver, rPool
    <2>2. SSide'
        BY <1>3, <2>1, SideCollects DEF SSide
    <2>3. Sync'
        BY <1>7, <2>1 DEF Sync
    <2> QED BY <1>2, <1>6, <2>1, <2>2, <2>3
<1>14. CASE SReturn
    <2>1. /\ sPc = "send" /\ sPc' = "layer" /\ sMet' = {}
          /\ sPair' = NextPair(sPair) /\ sLayer' = NextLayer(sLayer, sPair)
          /\ UNCHANGED <<sTaken, sStarted, sEnded,
                         rPc, rLayer, rPair, rTaken, rStarted, rEnded, trees>>
        BY <1>14 DEF SReturn, SPool!Close, receiver, rPool
    <2>2. /\ Side("layer", NextLayer(sLayer, sPair), NextPair(sPair), sTaken, sStarted, sEnded, {})
          /\ NextCall(NextLayer(sLayer, sPair), NextPair(sPair)) = NextCall(sLayer, sPair) + 1
        BY <2>1, SideReturns DEF SSide
    <2>3. SSide'
        BY <1>3, <2>1, <2>2
    <2>4. Sync'
        BY <1>4a, <1>4, <2>1, <2>2 DEF Sync, CallsMade
    <2> QED BY <1>2, <1>6, <2>1, <2>3, <2>4
<1>15. CASE SRecvBox
    <2>1. /\ sPc = "layer" /\ sLayer % 2 = 1 /\ sLayer' = sLayer + 1
          /\ UNCHANGED <<sPc, sTaken, sStarted, sEnded, sPair, sMet,
                         rPc, rLayer, rPair, rTaken, rStarted, rEnded, trees>>
        BY <1>15 DEF SRecvBox, BoxLayer, sPool, receiver, rPool
    <2>2. sLayer \in Nat /\ sPair \in Nat
        BY DEF SSide, Side
    <2>3. NextCall(sLayer', sPair') = NextCall(sLayer, sPair)
        BY <2>1, <2>2, NextCallSteps
    <2>4. SSide'
        BY <1>3, <2>1, <2>2 DEF SSide, Side, InCall
    <2>5. Sync'
        BY <1>4, <2>1, <2>3 DEF Sync, CallsMade
    <2> QED BY <1>2, <1>6, <2>1, <2>4, <2>5
<1>16. CASE SDone
    <2>1. /\ sPc = "layer" /\ sPc' = "done"
          /\ UNCHANGED <<sTaken, sStarted, sEnded, sLayer, sPair, sMet,
                         rPc, rLayer, rPair, rTaken, rStarted, rEnded, trees>>
        BY <1>16 DEF SDone, sPool, receiver, rPool
    <2>2. SSide'
        BY <1>3, <2>1 DEF SSide, Side, InCall
    <2>3. Sync'
        BY <1>7, <2>1 DEF Sync
    <2> QED BY <1>2, <1>6, <2>1, <2>2, <2>3
<1>17. CASE RBegin
    <2>1. /\ rPc = "layer" /\ rLayer % 2 = 0 /\ rPc' = "enqueue"
          /\ rTaken' = 0 /\ rStarted' = 0 /\ rEnded' = {}
          /\ UNCHANGED <<rLayer, rPair, trees, sPc, sLayer, sPair, sTaken, sStarted, sEnded, sMet>>
        BY <1>17 DEF RBegin, SwapLayer, sender, sPool
    <2>2. DOMAIN trees = {} /\ rLayer \in Nat /\ rPair \in Nat
        BY <2>1 DEF RSide, Side, InCall
    <2>3. RSide'
        BY <1>3, <2>1, <2>2, SideBegins
    <2>4. Sync'
        BY <1>7, <2>1 DEF Sync
    <2> QED BY <1>2, <1>5, <2>1, <2>3, <2>4
<1>18. CASE REnqueue
    <2>1. /\ rPc = "enqueue" /\ rPc' = (IF rTaken + 1 = t THEN "collect" ELSE "enqueue")
          /\ rTaken' = rTaken + 1
          /\ UNCHANGED <<rStarted, rEnded, rLayer, rPair, trees,
                         sPc, sLayer, sPair, sTaken, sStarted, sEnded, sMet>>
        BY <1>18 DEF REnqueue, RPool!Take, sender, sPool
    <2>2. RSide'
        BY <1>3, <2>1, SideEnqueues DEF RSide
    <2>3. Sync'
        BY <1>7, <2>1 DEF Sync
    <2> QED BY <1>2, <1>5, <2>1, <2>2, <2>3
<1>19. CASE RStart
    <2>1. /\ rStarted < rTaken /\ rStarted' = rStarted + 1
          /\ UNCHANGED <<rPc, rTaken, rEnded, rLayer, rPair, trees,
                         sPc, sLayer, sPair, sTaken, sStarted, sEnded, sMet>>
        BY <1>19 DEF RStart, RPool!Start, sender, receiver, sPool
    <2>2. RSide'
        BY <1>3, <2>1, SideStarts DEF RSide
    <2>3. Sync'
        BY <1>7, <2>1 DEF Sync
    <2> QED BY <1>2, <1>5, <2>1, <2>2, <2>3
<1>20. ASSUME NEW i \in RPool!Running, REnd(i) PROVE CallInv'
    <2>1. /\ i \in DOMAIN trees /\ i \in (1 .. rStarted) \ rEnded /\ rEnded' = rEnded \cup {i}
          /\ UNCHANGED <<rPc, rTaken, rStarted, rLayer, rPair, trees,
                         sPc, sLayer, sPair, sTaken, sStarted, sEnded, sMet>>
        BY <1>20 DEF REnd, RPool!End, RPool!Running, sender, receiver, sPool
    <2>2. RSide'
        BY <1>3, <2>1, SideEnds DEF RSide
    <2>3. Sync'
        BY <1>7, <2>1 DEF Sync
    <2> QED BY <1>2, <1>5, <2>1, <2>2, <2>3
<1>21. CASE RCollect
    <2>1. /\ rPc = "collect" /\ rPc' = "main" /\ rEnded = 1 .. t
          /\ UNCHANGED <<rTaken, rStarted, rEnded, rLayer, rPair, trees,
                         sPc, sLayer, sPair, sTaken, sStarted, sEnded, sMet>>
        BY <1>21 DEF RCollect, rPool, sender, sPool
    <2>2. RSide'
        BY <1>3, <2>1, SideCollects DEF RSide
    <2>3. Sync'
        BY <1>7, <2>1 DEF Sync
    <2> QED BY <1>2, <1>5, <2>1, <2>2, <2>3
<1>22. CASE RReturn
    <2>1. /\ rPc = "recv" /\ rPc' = "layer" /\ DOMAIN trees' = {}
          /\ rPair' = NextPair(rPair) /\ rLayer' = NextLayer(rLayer, rPair)
          /\ UNCHANGED <<rTaken, rStarted, rEnded,
                         sPc, sLayer, sPair, sTaken, sStarted, sEnded, sMet>>
        BY <1>22 DEF RReturn, RPool!Close, sender, sPool
    <2>2. /\ Side("layer", NextLayer(rLayer, rPair), NextPair(rPair), rTaken, rStarted, rEnded, {})
          /\ NextCall(NextLayer(rLayer, rPair), NextPair(rPair)) = NextCall(rLayer, rPair) + 1
        BY <2>1, SideReturns DEF RSide
    <2>3. RSide'
        BY <1>3, <2>1, <2>2
    <2>4. Sync'
        BY <1>4a, <1>4, <2>1, <2>2 DEF Sync, CallsMade
    <2> QED BY <1>2, <1>5, <2>1, <2>3, <2>4
<1>23. CASE RSendBox
    <2>1. /\ rPc = "layer" /\ rLayer % 2 = 1 /\ rLayer' = rLayer + 1
          /\ UNCHANGED <<rPc, rTaken, rStarted, rEnded, rPair, trees,
                         sPc, sLayer, sPair, sTaken, sStarted, sEnded, sMet>>
        BY <1>23 DEF RSendBox, BoxLayer, rPool, sender, sPool
    <2>2. rLayer \in Nat /\ rPair \in Nat
        BY DEF RSide, Side
    <2>3. NextCall(rLayer', rPair') = NextCall(rLayer, rPair)
        BY <2>1, <2>2, NextCallSteps
    <2>4. RSide'
        BY <1>3, <2>1, <2>2 DEF RSide, Side, InCall
    <2>5. Sync'
        BY <1>4, <2>1, <2>3 DEF Sync, CallsMade
    <2> QED BY <1>2, <1>5, <2>1, <2>4, <2>5
<1>24. CASE RDone
    <2>1. /\ rPc = "layer" /\ rPc' = "done"
          /\ UNCHANGED <<rTaken, rStarted, rEnded, rLayer, rPair, trees,
                         sPc, sLayer, sPair, sTaken, sStarted, sEnded, sMet>>
        BY <1>24 DEF RDone, rPool, sender, sPool
    <2>2. RSide'
        BY <1>3, <2>1 DEF RSide, Side, InCall
    <2>3. Sync'
        BY <1>7, <2>1 DEF Sync
    <2> QED BY <1>2, <1>5, <2>1, <2>2, <2>3
<1>25. ASSUME NEW i \in SPool!Running, NEW k \in RPool!Running, MeetTasks(i, k) PROVE CallInv'
    <2>1. /\ i \in (1 .. sStarted) \ sEnded /\ k \in (1 .. rStarted) \ rEnded
          /\ Port(i) = Port(k)
          /\ sMet' = sMet \cup {i} /\ DOMAIN trees' = DOMAIN trees \cup {k}
          /\ UNCHANGED <<sPc, sTaken, sStarted, sEnded, sLayer, sPair,
                         rPc, rLayer, rPair, rTaken, rStarted, rEnded>>
        BY <1>25 DEF MeetTasks, SPool!Running, RPool!Running, sPool, rPool
    <2>2. /\ sPc \in {"enqueue", "collect"} /\ i \in 1 .. t
          /\ rPc \in {"enqueue", "collect"} /\ k \in 1 .. t
        BY <2>1, RunningInside DEF SSide, RSide
    <2>3. i = k
        BY <2>1, <2>2, PortsDiffer
    <2>4. SSide'
        BY <1>3, <2>1, SideMeets DEF SSide
    <2>5. RSide'
        BY <1>3, <2>1, SideMeets DEF RSide
    <2>6. Sync'
        BY <1>4, <2>1, <2>2, <2>3 DEF Sync, CallsMade
    <2> QED BY <1>2, <2>4, <2>5, <2>6
<1>26. CASE MeetMain
    <2>1. /\ sPc = "main" /\ rPc = "main" /\ sPc' = "send" /\ rPc' = "recv"
          /\ UNCHANGED <<sLayer, sPair, sTaken, sStarted, sEnded, sMet,
                         rLayer, rPair, rTaken, rStarted, rEnded, trees>>
        BY <1>26 DEF MeetMain, sPool, rPool
    <2>2. SSide'
        BY <1>3, <2>1 DEF SSide, Side, InCall
    <2>3. RSide'
        BY <1>3, <2>1 DEF RSide, Side, InCall
    <2>4. Sync'
        BY <1>4a, <1>4, <2>1 DEF Sync, CallsMade
    <2> QED BY <1>2, <2>2, <2>3, <2>4
<1>27. CASE UNCHANGED vars
    <2>1. UNCHANGED <<sPc, sLayer, sPair, sTaken, sStarted, sEnded, sMet,
                      rPc, rLayer, rPair, rTaken, rStarted, rEnded, trees>>
        BY <1>27 DEF vars, sender, receiver, sPool, rPool
    <2>2. Sync'
        BY <1>7, <2>1 DEF Sync
    <2> QED BY <1>2, <1>5, <1>6, <2>1, <2>2
<1> QED BY <1>8, <1>9, <1>10, <1>11, <1>12, <1>13, <1>14, <1>15, <1>16, <1>17, <1>18, <1>19,
           <1>20, <1>21, <1>22, <1>23, <1>24, <1>25, <1>26, <1>27 DEF Next

(* The invariant gives the property: who listens and who connects are in   *)
(* the same call, and the tasks that have not met are those of the call.   *)
LEMMA CallsMeet == CallInv => MeetRight
<1> SUFFICES ASSUME CallInv PROVE MeetRight
    OBVIOUS
<1> USE DEF CallInv
<1> DEFINE STasks == ((1 .. sStarted) \ sEnded) \ sMet
           RTasks == ((1 .. rStarted) \ rEnded) \ DOMAIN trees
<1>1. /\ Listening = {[port |-> Port(i), call |-> sCall, what |-> i] : i \in STasks}
                       \cup (IF sPc = "main" THEN {[port |-> 1, call |-> sCall, what |-> 0]}
                                           ELSE {})
      /\ Connecting = {[port |-> Port(i), call |-> rCall, what |-> i] : i \in RTasks}
                       \cup (IF rPc = "main" THEN {[port |-> 1, call |-> rCall, what |-> 0]}
                                           ELSE {})
    BY DEF Listening, Connecting, SPool!Running, RPool!Running
<1>2. /\ \A i \in STasks : sPc \in {"enqueue", "collect"} /\ i \in 1 .. t
      /\ \A i \in RTasks : rPc \in {"enqueue", "collect"} /\ i \in 1 .. t
    BY RunningInside DEF SSide, RSide
<1>3. /\ sPc = "main" => sMet = 1 .. t
      /\ rPc = "main" => DOMAIN trees = 1 .. t
    <2>1. sPc = "main" => sEnded = 1 .. t /\ sEnded \subseteq sMet /\ sMet \subseteq 1 .. t
        BY DEF SSide, Side, InCall
    <2>2. rPc = "main" => /\ rEnded = 1 .. t /\ rEnded \subseteq DOMAIN trees
                          /\ DOMAIN trees \subseteq 1 .. t
        BY DEF RSide, Side, InCall
    <2> QED BY <2>1, <2>2
<1>4. 1 \in 1 .. t
    BY DEF ShapeInv
<1>5. sPc = "main" => RTasks = {}
    <2>1. ASSUME NEW i \in RTasks, sPc = "main" PROVE FALSE
        <3>1. rPc # "recv" /\ sPc # "send"
            BY <1>2, <2>1
        <3>2. sMet = DOMAIN trees
            BY <3>1 DEF Sync
        <3> QED BY <1>2, <1>3, <2>1, <3>2
    <2> QED BY <2>1
<1>6. rPc = "main" => STasks = {}
    <2>1. ASSUME NEW i \in STasks, rPc = "main" PROVE FALSE
        <3>1. rPc # "recv" /\ sPc # "send"
            BY <1>2, <2>1
        <3>2. sMet = DOMAIN trees
            BY <3>1 DEF Sync
        <3> QED BY <1>2, <1>3, <2>1, <3>2
    <2> QED BY <2>1
<1>7. ASSUME sPc \in {"enqueue", "collect", "main"}, rPc \in {"enqueue", "collect", "main"}
      PROVE  sCall = rCall
    <2>1. /\ sLayer \in Nat /\ sPair \in Nat /\ sLayer % 2 = 0
          /\ rLayer \in Nat /\ rPair \in Nat /\ rLayer % 2 = 0
        BY <1>7 DEF SSide, RSide, Side, InCall
    <2>2. NextCall(sLayer, sPair) = sCall /\ NextCall(rLayer, rPair) = rCall
        BY <2>1, NextCallSteps DEF sCall, rCall
    <2>3. NextCall(sLayer, sPair) \in Int /\ NextCall(rLayer, rPair) \in Int
        BY <2>1, NextCallInt
    <2> QED BY <1>7, <2>2, <2>3 DEF Sync, CallsMade
<1>8. \A i, k \in 1 .. t : Port(i) = Port(k) => i = k
    BY PortsDiffer
<1> HIDE DEF STasks, RTasks
<1>9. ASSUME NEW e \in Listening, NEW f \in Listening, e.port = f.port PROVE e = f
    <2>1. CASE sPc = "main"
        <3>1. STasks = {}
            BY <1>2, <2>1
        <3> QED BY <1>1, <1>9, <2>1, <3>1
    <2>2. CASE sPc # "main"
        <3>1. PICK i \in STasks : e = [port |-> Port(i), call |-> sCall, what |-> i]
            BY <1>1, <2>2
        <3>2. PICK k \in STasks : f = [port |-> Port(k), call |-> sCall, what |-> k]
            BY <1>1, <2>2
        <3>3. Port(i) = Port(k)
            BY <1>9, <3>1, <3>2
        <3>4. i = k
            BY <1>2, <1>8, <3>3
        <3> QED BY <3>1, <3>2, <3>4
    <2> QED BY <2>1, <2>2
<1>10. ASSUME NEW e \in Listening, NEW f \in Connecting, e.port = f.port PROVE e = f
    <2>1. CASE sPc = "main"
        <3>1. RTasks = {} /\ STasks = {}
            BY <1>2, <1>5, <2>1
        <3>2. rPc = "main"
            BY <1>1, <3>1
        <3>3. sCall = rCall
            BY <1>7, <2>1, <3>2
        <3> QED BY <1>1, <2>1, <3>1, <3>2, <3>3
    <2>2. CASE sPc # "main"
        <3>1. PICK i \in STasks : e = [port |-> Port(i), call |-> sCall, what |-> i]
            BY <1>1, <2>2
        <3>2. rPc # "main"
            BY <1>6, <3>1
        <3>3. PICK k \in RTasks : f = [port |-> Port(k), call |-> rCall, what |-> k]
            BY <1>1, <3>2
        <3>4. Port(i) = Port(k)
            BY <1>10, <3>1, <3>3
        <3>5. i = k
            BY <1>2, <1>8, <3>4
        <3>6. sCall = rCall
            BY <1>2, <1>7
        <3> QED BY <3>1, <3>3, <3>5, <3>6
    <2> QED BY <2>1, <2>2
<1> QED BY <1>9, <1>10 DEF MeetRight

-----------------------------------------------------------------------------
(* Where the loops of the two processes are and what is in flight.         *)

\* Only a layer of pairs makes calls, and only there a pair is not the first.
Loops ==
    /\ sLayer \in 0 .. shape.layers /\ sPair \in 0 .. Pairs - 1
    /\ rLayer \in 0 .. shape.layers /\ rPair \in 0 .. Pairs - 1
    /\ sPc \in InCall \/ sPair # 0 => SwapLayer(sLayer)
    /\ rPc \in InCall \/ rPair # 0 => SwapLayer(rLayer)
    /\ sPc = "done" => sLayer = shape.layers
    /\ rPc = "done" => rLayer = shape.layers

\* The message of a call is in flight until the receiver has it, the one of an
\* odd layer until the sender has come to it.
Messages ==
    /\ sPc = "send" => rPc = "recv"
    /\ wire # << >> <=> rPc = "recv" /\ sPc # "send"
    /\ wire # << >> => chl = << >> /\ wire = <<Head(wire)>>
    /\ sLayer \div 2 <= rLayer \div 2 /\ rLayer \div 2 <= (sLayer \div 2) + 1
    /\ chl = IF sLayer \div 2 = rLayer \div 2 THEN << >> ELSE <<pbox[sLayer \div 2]>>

\* What the receiver's tasks have rebuilt.
Rebuilds == \A l \in DOMAIN trees : trees[l] = Without(TaskTree(l), pi[l - 1])

\* The sender's message and the receiver's sums, made of the trees of the call,
\* and what the sender has put into its vector when its message is in flight.
Message ==
    sPc \in {"main", "send"} =>
        /\ b = Layers /\ DOMAIN a = 0 .. t - 1
        /\ \A j \in 0 .. t - 1 : a[j] = Xor(Leaves[j], inputs[(t * sPair) + j])
Collected ==
    rPc \in {"main", "recv"} =>
        /\ DOMAIN apb = 0 .. t - 1
        /\ \A k \in 0 .. t - 1 : apb[k] = Xor(TaskSum(pi[k]), Layers[k])
Replaced == wire # << >> => \A r \in Rows : r \div t = rPair => inputs[r] = Layers[r % t]

Sums == Message /\ Collected /\ Replaced

Vectors ==
    /\ DOMAIN inputs = Rows /\ DOMAIN temp = Rows
    /\ \A r \in Rows : Block(inputs[r])
    /\ sPhase \in {"open", "closed"} /\ rPhase \in {"open", "closed"}

\* The permutation of the layers up to every one, and of all of them.
Orders(order) ==
    /\ order[0] = [r \in Rows |-> r]
    /\ \A i \in 0 .. shape.layers - 1 :
          order[i + 1] = IF i % 2 = 0 THEN Swapped(order[i], i) ELSE Permuted(order[i], i)
    /\ order[shape.layers] = Permutation

\* The sender's vector as the receiver has met it: before the message in flight.
Seen(r) ==
    IF wire # << >> /\ r \div t = rPair THEN Xor(Leaves[r % t], Head(wire)[r % t])
    ELSE IF chl # << >> THEN inputs[Head(chl)[r]]
    ELSE inputs[r]

\* The receiver permutes its vector before the first call of a layer, the
\* sender's is permuted pair by pair.
InLayer == rPc \in InCall \/ rPair # 0
SwappedRow(r) == (t * (r \div t)) + sbox[CallOf(rLayer, r \div t)][r % t]
From(r) == IF InLayer THEN SwappedRow(r) ELSE r
Source(r) == IF InLayer /\ r \div t >= rPair THEN SwappedRow(r) ELSE r

Shares(order) ==
    \A r \in Rows :
        Xor(Xor(temp[r], Seen(Source(r))), Input(order[rLayer][From(r)])) \subseteq UNION LocalLeaves

SharesInv == \E order : Orders(order) /\ Shares(order)

DataInv == ShapeOK /\ CallInv /\ Loops /\ Messages /\ Rebuilds /\ Sums /\ Vectors /\ SharesInv

(* What the arguments determine stays.                                     *)
LEMMA Fixed ==
    ASSUME UNCHANGED arguments
    PROVE  /\ h' = h /\ t' = t /\ Pairs' = Pairs /\ Rows' = Rows
           /\ shape' = shape /\ sbox' = sbox /\ pbox' = pbox
           /\ Layers' = Layers /\ Leaves' = Leaves /\ LocalLeaves' = LocalLeaves
           /\ \A i : TaskTree(i)' = TaskTree(i)
           /\ \A j : TaskSum(j)' = TaskSum(j)
           /\ ShapeOK <=> ShapeOK'
<1>1. shape' = shape /\ sbox' = sbox /\ pbox' = pbox
    BY DEF arguments
<1>2. h' = h
    BY <1>1 DEF h
<1>3. t' = t
    BY <1>2 DEF t
<1>4. Pairs' = Pairs /\ Rows' = Rows
    BY <1>1, <1>3 DEF Pairs, Rows
<1>5. ShapeOK <=> ShapeOK'
    BY <1>1, <1>3, <1>4 DEF ShapeOK
<1>6. \A i : TaskTree(i)' = TaskTree(i) /\ LocalTree(i)' = LocalTree(i)
    BY <1>2 DEF TaskTree, LocalTree
<1>7. Layers' = Layers
    BY <1>2, <1>3, <1>6 DEF Layers
<1>8. Leaves' = Leaves
    BY <1>2, <1>3, <1>6 DEF Leaves
<1>9. LocalLeaves' = LocalLeaves
    BY <1>2, <1>3, <1>6 DEF LocalLeaves
<1>10. \A j : TaskSum(j)' = TaskSum(j)
    BY <1>2, <1>3, <1>6 DEF TaskSum
<1> QED BY <1>1, <1>2, <1>3, <1>4, <1>5, <1>6, <1>7, <1>8, <1>9, <1>10

(* Most steps leave the vectors, the loops and the messages alone.         *)
Quiet ==
    /\ UNCHANGED <<arguments, sLayer, sPair, inputs, b, a, rLayer, rPair, temp, trees, apb, chl, wire>>
    /\ sPhase' \in {sPhase, "open"} /\ rPhase' \in {rPhase, "open"}
    /\ \/ sPc' = sPc
       \/ /\ sPc' \in {"layer", "enqueue", "collect", "done"}
          /\ sPc \in {"connect", "layer", "enqueue"}
    /\ \/ rPc' = rPc
       \/ rPc \in {"connect", "layer"} /\ rPc' \in {"layer", "done"}
       \/ rPc = "enqueue" /\ rPc' = "collect"
    /\ sPc' \in InCall => sPc \in InCall \/ SwapLayer(sLayer)
    /\ rPc' \in InCall => rPc \in InCall
    /\ sPc' = "done" => sPc = "done" \/ sLayer = shape.layers
    /\ rPc' = "done" => rPc = "done" \/ rLayer = shape.layers

LEMMA StepsAre ==
    ASSUME [Next]_vars
    PROVE  \/ Quiet \/ SCollect \/ SReturn \/ SRecvBox \/ RBegin \/ RCollect \/ RReturn
           \/ RSendBox \/ MeetMain
           \/ \E i \in SPool!Running, k \in RPool!Running : MeetTasks(i, k)
<1>1. CASE Connect
    <2>1. Quiet
        BY <1>1 DEF Connect, Quiet, sPool, rPool, InCall
    <2> QED BY <2>1
<1>2. CASE SBegin
    <2>1. Quiet
        BY <1>2 DEF SBegin, Quiet, rPool, receiver, InCall
    <2> QED BY <2>1
<1>3. CASE SEnqueue
    <2>1. Quiet
        BY <1>3 DEF SEnqueue, Quiet, SPool!Take, rPool, receiver, InCall
    <2> QED BY <2>1
<1>4. CASE SStart
    <2>1. Quiet
        BY <1>4 DEF SStart, Quiet, SPool!Start, rPool, sender, receiver
    <2> QED BY <2>1
<1>5. ASSUME NEW i \in SPool!Running, SEnd(i) PROVE Quiet
    BY <1>5 DEF SEnd, Quiet, SPool!End, rPool, sender, receiver
<1>6. CASE SDone
    <2>1. Quiet
        BY <1>6 DEF SDone, Quiet, sPool, rPool, receiver, InCall
    <2> QED BY <2>1
<1>7. CASE REnqueue
    <2>1. Quiet
        BY <1>7 DEF REnqueue, Quiet, RPool!Take, sPool, sender, InCall
    <2> QED BY <2>1
<1>8. CASE RStart
    <2>1. Quiet
        BY <1>8 DEF RStart, Quiet, RPool!Start, sPool, sender, receiver
    <2> QED BY <2>1
<1>9. ASSUME NEW i \in RPool!Running, REnd(i) PROVE Quiet
    BY <1>9 DEF REnd, Quiet, RPool!End, sPool, sender, receiver
<1>10. CASE RDone
    <2>1. Quiet
        BY <1>10 DEF RDone, Quiet, sPool, rPool, sender, InCall
    <2> QED BY <2>1
<1>11. CASE UNCHANGED vars
    <2>1. Quiet
        BY <1>11 DEF vars, Quiet, sPool, rPool, sender, receiver
    <2> QED BY <2>1
<1> QED BY <1>1, <1>2, <1>3, <1>4, <1>5, <1>6, <1>7, <1>8, <1>9, <1>10, <1>11 DEF Next

(* The arguments stay.                                                     *)
LEMMA ArgumentsStay ==
    ASSUME [Next]_vars
    PROVE  UNCHANGED arguments
<1>1. ASSUME NEW i, NEW k, MeetTasks(i, k) PROVE UNCHANGED arguments
    BY <1>1 DEF MeetTasks
<1>2. Quiet \/ SCollect \/ SReturn \/ SRecvBox => UNCHANGED arguments
    BY DEF Quiet, SCollect, SReturn, SRecvBox
<1>3. RBegin \/ RCollect \/ RReturn \/ RSendBox \/ MeetMain => UNCHANGED arguments
    BY DEF RBegin, RCollect, RReturn, RSendBox, MeetMain
<1> QED BY <1>1, <1>2, <1>3, StepsAre

\* Either process in its loops.
At(step, layer, pair) ==
    /\ layer \in 0 .. shape.layers /\ pair \in 0 .. Pairs - 1
    /\ step \in InCall \/ pair # 0 => SwapLayer(layer)
    /\ step = "done" => layer = shape.layers

LEMMA LoopsAre == Loops <=> At(sPc, sLayer, sPair) /\ At(rPc, rLayer, rPair)
BY DEF Loops, At

(* From a call to the next pair, or behind the last one to the next layer. *)
LEMMA AtReturns ==
    ASSUME FewTasks, ShapeOK, NEW step \in {"send", "recv"}, NEW layer, NEW pair,
           At(step, layer, pair)
    PROVE  At("layer", NextLayer(layer, pair), NextPair(pair))
<1>1. Pairs \in Nat \ {0} /\ shape.layers \in Nat
    BY ShapeFacts
<1>2. layer \in Nat /\ layer < shape.layers /\ SwapLayer(layer) /\ pair \in 0 .. Pairs - 1
    BY <1>1 DEF At, InCall, SwapLayer
<1>3. CASE pair + 1 = Pairs
    <2>1. NextPair(pair) = 0 /\ NextLayer(layer, pair) = layer + 1
        BY <1>3 DEF NextPair, NextLayer
    <2>2. layer + 1 \in 0 .. shape.layers /\ 0 \in 0 .. Pairs - 1
        BY <1>1, <1>2
    <2> QED BY <2>1, <2>2 DEF At, InCall
<1>4. CASE pair + 1 # Pairs
    <2>1. NextPair(pair) = pair + 1 /\ NextLayer(layer, pair) = layer
        BY <1>2, <1>4 DEF NextPair, NextLayer
    <2>2. layer \in 0 .. shape.layers /\ pair + 1 \in 0 .. Pairs - 1
        BY <1>1, <1>2, <1>4
    <2> QED BY <1>2, <2>1, <2>2 DEF At, InCall
<1> QED BY <1>3, <1>4

(* Behind a layer of its own, a process is at the first pair.              *)
LEMMA AtBoxReturns ==
    ASSUME FewTasks, ShapeOK, NEW layer, NEW pair, At("layer", layer, pair), BoxLayer(layer)
    PROVE  At("layer", layer + 1, pair) /\ pair = 0 /\ layer \in Nat
<1>1. shape.layers \in Nat
    BY ShapeFacts
<1>2. layer \in Nat /\ layer < shape.layers /\ layer % 2 = 1
    BY <1>1 DEF At, BoxLayer
<1>3. pair = 0
    BY <1>2 DEF At, SwapLayer
<1>4. layer + 1 \in 0 .. shape.layers
    BY <1>1, <1>2
<1> QED BY <1>2, <1>3, <1>4 DEF At, InCall

LEMMA LoopsStep ==
    ASSUME FewTasks, ShapeOK, Loops, [Next]_vars
    PROVE  Loops'
<1>1. /\ UNCHANGED arguments
      /\ shape' = shape /\ Pairs' = Pairs
    BY ArgumentsStay, Fixed
<1>2. At(sPc, sLayer, sPair) /\ At(rPc, rLayer, rPair)
    BY LoopsAre
<1> DEFINE Stays(step, layer, pair) ==
               /\ layer \in 0 .. shape.layers /\ pair \in 0 .. Pairs - 1
               /\ step \in InCall \/ pair # 0 => SwapLayer(layer)
               /\ step = "done" => layer = shape.layers
<1>3. Stays(sPc', sLayer', sPair') /\ Stays(rPc', rLayer', rPair') => Loops'
    BY <1>1 DEF Loops, SwapLayer
<1>4. ASSUME sPc' = sPc, sLayer' = sLayer, sPair' = sPair PROVE Stays(sPc', sLayer', sPair')
    BY <1>2, <1>4 DEF At
<1>5. ASSUME rPc' = rPc, rLayer' = rLayer, rPair' = rPair PROVE Stays(rPc', rLayer', rPair')
    BY <1>2, <1>5 DEF At
<1>6. CASE Quiet
    <2>1. Stays(sPc', sLayer', sPair')
        BY <1>2, <1>6 DEF Quiet, At
    <2>2. Stays(rPc', rLayer', rPair')
        BY <1>2, <1>6 DEF Quiet, At
    <2> HIDE DEF Stays
    <2> QED BY <1>3, <2>1, <2>2
<1>7. CASE SCollect
    <2>1. sPc = "collect" /\ sPc' = "main" /\ sLayer' = sLayer /\ sPair' = sPair
          /\ rPc' = rPc /\ rLayer' = rLayer /\ rPair' = rPair
        BY <1>7 DEF SCollect, receiver
    <2>2. Stays(sPc', sLayer', sPair')
        BY <1>2, <2>1 DEF At, InCall
    <2> HIDE DEF Stays
    <2> QED BY <1>3, <1>5, <2>1, <2>2
<1>8. CASE SReturn
    <2>1. sPc = "send" /\ sPc' = "layer" /\ rPc' = rPc /\ rLayer' = rLayer /\ rPair' = rPair
          /\ sLayer' = NextLayer(sLayer, sPair) /\ sPair' = NextPair(sPair)
        BY <1>8 DEF SReturn, receiver
    <2>2. At("layer", sLayer', sPair')
        BY <1>2, <2>1, AtReturns
    <2>3. Stays(sPc', sLayer', sPair')
        BY <2>1, <2>2 DEF At
    <2> HIDE DEF Stays
    <2> QED BY <1>3, <1>5, <2>1, <2>3
<1>9. CASE SRecvBox
    <2>1. sPc = "layer" /\ sPc' = "layer" /\ rPc' = rPc /\ rLayer' = rLayer /\ rPair' = rPair
          /\ sLayer' = sLayer + 1 /\ sPair' = sPair /\ BoxLayer(sLayer)
        BY <1>9 DEF SRecvBox, receiver
    <2>2. At("layer", sLayer', sPair')
        BY <1>2, <2>1, AtBoxReturns
    <2>3. Stays(sPc', sLayer', sPair')
        BY <2>1, <2>2 DEF At
    <2> HIDE DEF Stays
    <2> QED BY <1>3, <1>5, <2>1, <2>3
<1>10. CASE RBegin
    <2>1. rPc' = "enqueue" /\ SwapLayer(rLayer) /\ rLayer' = rLayer /\ rPair' = rPair
          /\ sPc' = sPc /\ sLayer' = sLayer /\ sPair' = sPair
        BY <1>10 DEF RBegin, sender
    <2>2. Stays(rPc', rLayer', rPair')
        BY <1>2, <2>1 DEF At
    <2> HIDE DEF Stays
    <2> QED BY <1>3, <1>4, <2>1, <2>2
<1>11. CASE RCollect
    <2>1. rPc = "collect" /\ rPc' = "main" /\ rLayer' = rLayer /\ rPair' = rPair
          /\ sPc' = sPc /\ sLayer' = sLayer /\ sPair' = sPair
        BY <1>11 DEF RCollect, sender
    <2>2. Stays(rPc', rLayer', rPair')
        BY <1>2, <2>1 DEF At, InCall
    <2> HIDE DEF Stays
    <2> QED BY <1>3, <1>4, <2>1, <2>2
<1>12. CASE RReturn
    <2>1. rPc = "recv" /\ rPc' = "layer" /\ sPc' = sPc /\ sLayer' = sLayer /\ sPair' = sPair
          /\ rLayer' = NextLayer(rLayer, rPair) /\ rPair' = NextPair(rPair)
        BY <1>12 DEF RReturn, sender
    <2>2. At("layer", rLayer', rPair')
        BY <1>2, <2>1, AtReturns
    <2>3. Stays(rPc', rLayer', rPair')
        BY <2>1, <2>2 DEF At
    <2> HIDE DEF Stays
    <2> QED BY <1>3, <1>4, <2>1, <2>3
<1>13. CASE RSendBox
    <2>1. rPc = "layer" /\ rPc' = "layer" /\ sPc' = sPc /\ sLayer' = sLayer /\ sPair' = sPair
          /\ rLayer' = rLayer + 1 /\ rPair' = rPair /\ BoxLayer(rLayer)
        BY <1>13 DEF RSendBox, sender
    <2>2. At("layer", rLayer', rPair')
        BY <1>2, <2>1, AtBoxReturns
    <2>3. Stays(rPc', rLayer', rPair')
        BY <2>1, <2>2 DEF At
    <2> HIDE DEF Stays
    <2> QED BY <1>3, <1>4, <2>1, <2>3
<1>14. CASE MeetMain
    <2>1. sPc = "main" /\ rPc = "main" /\ sPc' = "send" /\ rPc' = "recv"
          /\ UNCHANGED <<sLayer, sPair, rLayer, rPair>>
        BY <1>14 DEF MeetMain
    <2>2. Stays(sPc', sLayer', sPair')
        BY <1>2, <2>1 DEF At, InCall
    <2>3. Stays(rPc', rLayer', rPair')
        BY <1>2, <2>1 DEF At, InCall
    <2> HIDE DEF Stays
    <2> QED BY <1>3, <2>2, <2>3
<1>15. ASSUME NEW i, NEW k, MeetTasks(i, k) PROVE Loops'
    <2>1. UNCHANGED <<sPc, sLayer, sPair, rPc, rLayer, rPair>>
        BY <1>15 DEF MeetTasks
    <2> HIDE DEF Stays
    <2> QED BY <1>3, <1>4, <1>5, <2>1
<1> HIDE DEF Stays
<1> QED BY <1>6, <1>7, <1>8, <1>9, <1>10, <1>11, <1>12, <1>13, <1>14, <1>15, StepsAre

(* As long as no message of a call is in flight both are at the same call. *)
LEMMA SameCall ==
    ASSUME FewTasks, ShapeOK, CallInv, Loops, sPc = "send" <=> rPc = "recv"
    PROVE  sPair = rPair /\ (sLayer + 1) \div 2 = (rLayer + 1) \div 2
<1>1. Pairs \in Nat \ {0} /\ shape.layers \in Nat
    BY ShapeFacts
<1>2. sLayer \in Nat /\ rLayer \in Nat /\ sPair \in 0 .. Pairs - 1 /\ rPair \in 0 .. Pairs - 1
    BY <1>1 DEF Loops
<1>3. NextCall(sLayer, sPair) = NextCall(rLayer, rPair)
    <2>1. CallsMade(sPc, sLayer, sPair) = CallsMade(rPc, rLayer, rPair) /\ sPc # "recv" /\ rPc # "send"
        BY DEF CallInv, Sync
    <2>2. NextCall(sLayer, sPair) \in Int /\ NextCall(rLayer, rPair) \in Int
        BY <1>2, NextCallInt DEF CallInv
    <2> QED BY <2>1, <2>2 DEF CallsMade
<1> DEFINE x == (sLayer + 1) \div 2
           y == (rLayer + 1) \div 2
           m == Pairs
<1>4. x \in Int /\ y \in Int
    BY <1>2
<1>5. x * m + sPair + 1 = y * m + rPair + 1
    BY <1>3 DEF NextCall
<1>6. m \in Nat \ {0} /\ sPair \in 0 .. m - 1 /\ rPair \in 0 .. m - 1
    BY <1>1, <1>2
<1> HIDE DEF x, y, m
<1> DEFINE z == m * x + sPair
<1>7. z = m * x + sPair /\ z = m * y + rPair /\ z \in Int
    BY <1>4, <1>5, <1>6
<1> HIDE DEF z
<1>8. z % m = sPair /\ z % m = rPair
    BY <1>4, <1>6, <1>7, ModUnique
<1>9. z \div m = x /\ z \div m = y
    BY <1>4, <1>6, <1>7, DivUnique
<1> QED BY <1>8, <1>9 DEF x, y

(* Both calls of a connection are of one pair and one layer.               *)
LEMMA SameLayer ==
    ASSUME FewTasks, ShapeOK, CallInv, Loops, sPc = "send", rPc = "recv"
    PROVE  sPair = rPair /\ sLayer = rLayer /\ sLayer \in Nat /\ SwapLayer(sLayer)
<1>1. shape.layers \in Nat
    BY ShapeFacts
<1>2. sLayer \in Nat /\ rLayer \in Nat /\ SwapLayer(sLayer) /\ SwapLayer(rLayer)
    BY <1>1 DEF Loops, InCall
<1>3. sLayer % 2 = 0 /\ rLayer % 2 = 0
    BY <1>2 DEF SwapLayer
<1>4. sPair = rPair /\ (sLayer + 1) \div 2 = (rLayer + 1) \div 2
    BY SameCall
<1>5. sLayer = rLayer
    BY <1>2, <1>3, <1>4, HalvesOf
<1> QED BY <1>2, <1>4, <1>5

(* The receiver sends a permutation when the sender is there or on its way *)
(* to the same layer.                                                      *)
LEMMA SameBox ==
    ASSUME FewTasks, ShapeOK, CallInv, Loops, Messages, rPc = "layer", BoxLayer(rLayer)
    PROVE  sLayer = rLayer /\ rLayer \in Nat /\ rLayer % 2 = 1 /\ chl = << >> /\ wire = << >>
<1>1. shape.layers \in Nat
    BY ShapeFacts
<1>2. sLayer \in Nat /\ rLayer \in Nat /\ rLayer % 2 = 1
    BY <1>1 DEF Loops, BoxLayer
<1>3. sPc # "send" /\ wire = << >>
    BY DEF Messages
<1>4. (sLayer + 1) \div 2 = (rLayer + 1) \div 2
    BY <1>3, SameCall
<1>5. sLayer \div 2 <= rLayer \div 2
    BY DEF Messages
<1>6. sLayer = rLayer
    <2>1. (rLayer + 1) \div 2 = (rLayer \div 2) + 1
        BY <1>2, HalvesOf
    <2>2. sLayer % 2 = 1
        BY <1>2, <1>4, <1>5, <2>1, HalvesOf
    <2> QED BY <1>2, <1>4, <2>2, HalvesOf
<1>7. chl = << >>
    BY <1>6 DEF Messages
<1> QED BY <1>2, <1>3, <1>6, <1>7

LEMMA MessagesStep ==
    ASSUME FewTasks, ShapeOK, CallInv, Loops, Messages, [Next]_vars
    PROVE  Messages'
<1>1. shape' = shape /\ pbox' = pbox /\ Pairs' = Pairs /\ t' = t
    BY ArgumentsStay, Fixed
<1>2. shape.layers \in Nat
    BY ShapeFacts
<1>3. sLayer \in Nat /\ rLayer \in Nat
    BY <1>2 DEF Loops
<1>4. ASSUME UNCHANGED <<sLayer, rLayer, chl, wire>>,
             sPc' = "send" <=> sPc = "send", rPc' = "recv" <=> rPc = "recv"
      PROVE  Messages'
    BY <1>1, <1>4 DEF Messages
<1>5. CASE Quiet
    BY <1>4, <1>5 DEF Quiet
<1>6. CASE SCollect
    BY <1>4, <1>6 DEF SCollect, receiver
<1>7. CASE RBegin
    BY <1>4, <1>7 DEF RBegin, sender
<1>8. CASE RCollect
    BY <1>4, <1>8 DEF RCollect, sender
<1>9. ASSUME NEW i, NEW k, MeetTasks(i, k) PROVE Messages'
    BY <1>4, <1>9 DEF MeetTasks
<1>10. CASE MeetMain
    <2>1. sPc = "main" /\ rPc = "main" /\ sPc' = "send" /\ rPc' = "recv"
          /\ UNCHANGED <<sLayer, rLayer, chl, wire>>
        BY <1>10 DEF MeetMain
    <2>2. wire = << >>
        BY <2>1 DEF Messages
    <2> QED BY <1>1, <2>1, <2>2 DEF Messages
<1>11. CASE SReturn
    <2>1. /\ sPc = "send" /\ sPc' = "layer" /\ rPc' = rPc /\ wire' = Append(wire, a)
          /\ sLayer' = NextLayer(sLayer, sPair) /\ rLayer' = rLayer /\ chl' = chl
        BY <1>11 DEF SReturn, receiver
    <2>2. rPc = "recv" /\ wire = << >>
        BY <2>1 DEF Messages
    <2>3. sLayer = rLayer /\ sLayer % 2 = 0
        BY <2>1, <2>2, SameLayer DEF SwapLayer
    <2>4. chl = << >> /\ sLayer' \div 2 = sLayer \div 2
        <3>1. sLayer' = sLayer \/ sLayer' = sLayer + 1
            BY <2>1 DEF NextLayer
        <3> QED BY <1>3, <2>3, <3>1, HalvesOf DEF Messages
    <2>5. wire' = <<a>>
        BY <2>1, <2>2
    <2>6. wire' # << >> /\ wire' = <<Head(wire')>>
        BY <2>5
    <2>7. rLayer' \div 2 <= sLayer' \div 2 + 1 /\ sLayer' \div 2 = rLayer' \div 2
          /\ sLayer' \div 2 <= rLayer' \div 2
        BY <1>3, <2>1, <2>3, <2>4
    <2> QED BY <2>1, <2>2, <2>4, <2>6, <2>7 DEF Messages
<1>12. CASE RReturn
    <2>1. /\ rPc = "recv" /\ rPc' = "layer" /\ sPc' = sPc /\ wire # << >> /\ wire' = Tail(wire)
          /\ rLayer' = NextLayer(rLayer, rPair) /\ sLayer' = sLayer /\ chl' = chl
        BY <1>12 DEF RReturn, sender
    <2>2. rLayer % 2 = 0
        BY <2>1 DEF Loops, InCall, SwapLayer
    <2>3. rLayer' \div 2 = rLayer \div 2
        <3>1. rLayer' = rLayer \/ rLayer' = rLayer + 1
            BY <2>1 DEF NextLayer
        <3> QED BY <1>3, <2>2, <3>1, HalvesOf
    <2>4. sPc # "send" /\ wire = <<Head(wire)>>
        BY <2>1 DEF Messages
    <2>5. wire' = << >>
        <3> DEFINE m == Head(wire)
        <3>1. wire = <<m>>
            BY <2>4
        <3> HIDE DEF m
        <3> QED BY <2>1, <3>1
    <2> QED BY <1>1, <2>1, <2>3, <2>4, <2>5 DEF Messages
<1>13. CASE SRecvBox
    <2>1. /\ sPc = "layer" /\ sPc' = sPc /\ rPc' = rPc /\ wire' = wire /\ chl # << >>
          /\ chl' = Tail(chl) /\ sLayer' = sLayer + 1 /\ rLayer' = rLayer /\ sLayer % 2 = 1
        BY <1>13 DEF SRecvBox, receiver, BoxLayer
    <2>2. rLayer \div 2 = (sLayer \div 2) + 1 /\ chl = <<pbox[sLayer \div 2]>> /\ wire = << >>
        BY <1>3, <2>1, HalvesOf DEF Messages
    <2>3. chl' = << >>
        BY <2>1, <2>2
    <2>4. sLayer' \div 2 = rLayer' \div 2
        BY <1>3, <2>1, <2>2, HalvesOf
    <2>5. sLayer' \div 2 <= rLayer' \div 2 /\ rLayer' \div 2 <= (sLayer' \div 2) + 1
        BY <1>3, <2>1, <2>4, HalvesOf
    <2> QED BY <2>1, <2>2, <2>3, <2>4, <2>5 DEF Messages
<1>14. CASE RSendBox
    <2>1. /\ rPc = "layer" /\ rPc' = rPc /\ sPc' = sPc /\ wire' = wire
          /\ chl' = Append(chl, pbox[rLayer \div 2]) /\ rLayer' = rLayer + 1 /\ sLayer' = sLayer
          /\ BoxLayer(rLayer)
        BY <1>14 DEF RSendBox, WithBox, sender
    <2>2. sLayer = rLayer /\ rLayer % 2 = 1 /\ chl = << >> /\ wire = << >>
        BY <2>1, SameBox
    <2>3. chl' = <<pbox[sLayer \div 2]>>
        BY <2>1, <2>2
    <2>4. rLayer' \div 2 = (sLayer' \div 2) + 1 /\ sLayer' \div 2 \in Nat
        BY <1>3, <2>1, <2>2, HalvesOf
    <2>5. chl' = <<pbox'[sLayer' \div 2]>>
        BY <1>1, <2>1, <2>3
    <2>6. sLayer' \div 2 # rLayer' \div 2 /\ sLayer' \div 2 <= rLayer' \div 2
          /\ rLayer' \div 2 <= (sLayer' \div 2) + 1
        BY <2>4
    <2>7. wire' = << >> /\ sPc' # "send" /\ rPc' # "recv"
        BY <2>1, <2>2 DEF Messages
    <2> QED BY <2>5, <2>6, <2>7 DEF Messages
<1> QED BY <1>5, <1>6, <1>7, <1>8, <1>9, <1>10, <1>11, <1>12, <1>13, <1>14, StepsAre

(* The permutations of the calls and of the odd layers.                    *)
LEMMA SwapIs ==
    ASSUME FewTasks, ShapeOK, NEW layer \in Nat, SwapLayer(layer), NEW pair \in 0 .. Pairs - 1
    PROVE  /\ \A x \in 0 .. t - 1 : sbox[CallOf(layer, pair)][x] \in 0 .. t - 1
           /\ \A x, y \in 0 .. t - 1 :
                 sbox[CallOf(layer, pair)][x] = sbox[CallOf(layer, pair)][y] => x = y
<1> DEFINE n == shape.layers
           m == Pairs
           d == layer \div 2
           e == (n + 1) \div 2
           c == CallOf(layer, pair)
<1>1. n \in Nat /\ m \in Nat \ {0} /\ layer < n /\ layer % 2 = 0
    BY ShapeFacts DEF SwapLayer
<1>2. d \in Nat /\ e \in Nat /\ d + 1 <= e
    <2>1. layer = 2 * d /\ d \in Nat
        BY <1>1, HalvesOf
    <2>2. n = 2 * (n \div 2) + (n % 2) /\ n \div 2 \in Nat /\ n % 2 \in {0, 1}
        BY <1>1, HalvesOf
    <2>3. e = IF n % 2 = 0 THEN n \div 2 ELSE (n \div 2) + 1
        BY <1>1, HalvesOf
    <2> HIDE DEF d, e
    <2> QED BY <1>1, <2>1, <2>2, <2>3
<1>3. c = d * m + pair + 1 /\ pair \in 0 .. m - 1
    BY DEF CallOf
<1> HIDE DEF n, m, d, e
<1>4. c \in 1 .. e * m
    <2> HIDE DEF c
    <2>1. d * m \in Nat /\ (d + 1) * m = d * m + m
        BY <1>1, <1>2
    <2>2. (d + 1) * m <= e * m /\ e * m \in Nat
        <3> DEFINE f == e - (d + 1)
        <3>1. f \in Nat /\ e = (d + 1) + f
            BY <1>2
        <3> HIDE DEF f
        <3>2. f * m \in Nat /\ e * m = (d + 1) * m + f * m
            BY <1>1, <1>2, <3>1
        <3>3. (d + 1) * m \in Nat
            BY <1>1, <1>2
        <3> QED BY <3>2, <3>3
    <2> DEFINE x == d * m
               y == e * m
               z == (d + 1) * m
    <2>3. x \in Nat /\ z = x + m /\ z <= y /\ y \in Nat /\ c = x + pair + 1
        BY <1>3, <2>1, <2>2
    <2> HIDE DEF x, y, z
    <2>4. c \in 1 .. y
        BY <1>1, <1>3, <2>3
    <2> QED BY <2>4 DEF y
<1>5. sbox[c] \in Swaps /\ DOMAIN sbox[c] = 0 .. t - 1
    <2>1. sbox[c] \in {s \in Swaps : DOMAIN s = 0 .. t - 1}
        BY <1>4 DEF ShapeOK, n, m, e
    <2> QED BY <2>1
<1> HIDE DEF c
<1> DEFINE s == sbox[c]
<1>6. s \in Swaps \cup Boxes /\ DOMAIN s = 0 .. t - 1
    BY <1>5
<1> HIDE DEF s
<1>7. \A x, y \in DOMAIN s : s[x] \in DOMAIN s /\ (s[x] = s[y] => x = y)
    BY <1>6, ShuffleAssumption
<1>8. /\ \A x \in 0 .. t - 1 : s[x] \in 0 .. t - 1
      /\ \A x, y \in 0 .. t - 1 : s[x] = s[y] => x = y
    BY <1>6, <1>7
<1> QED BY <1>8 DEF s, c

LEMMA BoxIs ==
    ASSUME FewTasks, ShapeOK, NEW layer \in Nat, BoxLayer(layer)
    PROVE  \A r \in Rows : pbox[layer \div 2][r] \in Rows
<1> DEFINE n == shape.layers
           d == layer \div 2
           s == pbox[d]
<1>1. n \in Nat /\ layer < n /\ layer % 2 = 1
    BY ShapeFacts DEF BoxLayer
<1>2. d \in 0 .. (n \div 2) - 1
    <2>1. layer = 2 * d + 1 /\ d \in Nat
        BY <1>1, HalvesOf
    <2>2. n = 2 * (n \div 2) + (n % 2) /\ n \div 2 \in Nat /\ n % 2 \in {0, 1}
        BY <1>1, HalvesOf
    <2> HIDE DEF d
    <2> QED BY <1>1, <2>1, <2>2
<1>3. s \in Boxes /\ DOMAIN s = Rows
    <2>1. s \in {x \in Boxes : DOMAIN x = Rows}
        BY <1>2 DEF ShapeOK
    <2> QED BY <2>1
<1> HIDE DEF s
<1>4. s \in Swaps \cup Boxes
    BY <1>3
<1>5. \A x, y \in DOMAIN s : s[x] \in DOMAIN s /\ (s[x] = s[y] => x = y)
    BY <1>4, ShuffleAssumption
<1>6. \A r \in Rows : s[r] \in Rows
    BY <1>3, <1>5
<1> QED BY <1>6 DEF s, d

\* The permutation of the receiver's call.
LEMMA PiIs ==
    ASSUME FewTasks, ShapeOK, Loops, rPc \in InCall
    PROVE  /\ \A x \in 0 .. t - 1 : pi[x] \in 0 .. t - 1
           /\ \A x, y \in 0 .. t - 1 : pi[x] = pi[y] => x = y
<1>1. shape.layers \in Nat
    BY ShapeFacts
<1>2. rLayer \in Nat /\ SwapLayer(rLayer) /\ rPair \in 0 .. Pairs - 1
    BY <1>1 DEF Loops
<1> QED BY <1>2, SwapIs DEF pi, rCall

(* A task of mShuffleReceiver rebuilds the sender's tree of its number but *)
(* for the path to its row.                                                *)
LEMMA RebuildsStep ==
    ASSUME FewTasks, ShapeOK, CallInv, Loops, Rebuilds, [Next]_vars
    PROVE  Rebuilds'
<1>1. /\ UNCHANGED arguments
      /\ shape' = shape /\ sbox' = sbox /\ h' = h /\ t' = t /\ Pairs' = Pairs
      /\ \A i : TaskTree(i)' = TaskTree(i)
    BY ArgumentsStay, Fixed
<1>2. ASSUME trees' = trees, rLayer' = rLayer, rPair' = rPair PROVE Rebuilds'
    <2>1. pi' = pi
        BY <1>1, <1>2 DEF pi, rCall, CallOf
    <2>2. \A l : TaskTree(l)' = TaskTree(l)
        BY <1>1
    <2> QED BY <1>1, <1>2, <2>1, <2>2 DEF Rebuilds, Without, OnPath
<1>3. ASSUME DOMAIN trees' = {} PROVE Rebuilds'
    BY <1>3 DEF Rebuilds
<1>4. CASE Quiet \/ SCollect \/ SReturn \/ SRecvBox \/ RBegin \/ RCollect \/ MeetMain
    <2>1. trees' = trees /\ rLayer' = rLayer /\ rPair' = rPair
        BY <1>4 DEF Quiet, SCollect, SReturn, SRecvBox, RBegin, RCollect, MeetMain, receiver
    <2> QED BY <1>2, <2>1
<1>5. CASE RReturn
    <2>1. trees' = << >>
        BY <1>5 DEF RReturn
    <2> QED BY <1>3, <2>1
<1>6. CASE RSendBox
    <2>1. rPc = "layer" /\ trees' = trees
        BY <1>6 DEF RSendBox
    <2>2. DOMAIN trees = {}
        BY <2>1 DEF CallInv, RSide, Side, InCall
    <2> QED BY <1>3, <2>1, <2>2
<1>7. ASSUME NEW i \in SPool!Running, NEW k \in RPool!Running, MeetTasks(i, k)
      PROVE  Rebuilds'
    <2>1. /\ Port(i) = Port(k) /\ k \in (1 .. rStarted) \ rEnded /\ i \in (1 .. sStarted) \ sEnded
          /\ rPc' = rPc /\ rLayer' = rLayer /\ rPair' = rPair
          /\ trees' = [l \in DOMAIN trees \cup {k} |->
                          IF l = k THEN GgmRecv(h, pi[k - 1], Eval(h, TaskTree(i))) ELSE trees[l]]
        BY <1>7 DEF MeetTasks, SPool!Running, RPool!Running
    <2>2. rPc \in {"enqueue", "collect"} /\ k \in 1 .. t
        BY <2>1, RunningInside DEF CallInv, RSide
    <2>3. i \in 1 .. t
        BY <2>1, RunningInside DEF CallInv, SSide
    <2>4. i = k
        BY <2>1, <2>2, <2>3, PortsDiffer DEF CallInv
    <2>5. pi[k - 1] \in 0 .. t - 1
        <3>1. k - 1 \in 0 .. t - 1 /\ rPc \in InCall
            BY <2>2, ShapeFacts DEF InCall
        <3> QED BY <3>1, PiIs
    <2>6. GgmRecv(h, pi[k - 1], Eval(h, TaskTree(k))) = Without(TaskTree(k), pi[k - 1])
        <3> DEFINE l == h - 1
                   path == pi[k - 1]
                   key == Key((2 * k) + 1)
        <3>1. l \in 0 .. 8 /\ l + 1 = h /\ t = 2^l
            BY ShapeFacts
        <3>2. TaskTree(k) = GGMTree(h, key)
            BY DEF TaskTree
        <3> HIDE DEF key, path, l
        <3>3. path \in 0 .. 2^l - 1
            BY <2>5, <3>1 DEF path
        <3>4. GgmRecv(l + 1, path, Eval(l + 1, GGMTree(l + 1, key)))
                = Lacking(GGMTree(l + 1, key), l, path)
            BY <3>1, <3>3, RebuiltPunctured
        <3>5. Lacking(TaskTree(k), l, path) = Without(TaskTree(k), path)
            BY <3>1 DEF Lacking, Without, OnPath
        <3> QED BY <3>1, <3>2, <3>4, <3>5 DEF path
    <2>7. pi' = pi
        BY <1>1, <2>1 DEF pi, rCall, CallOf
    <2>8. \A l \in DOMAIN trees' : trees'[l] = Without(TaskTree(l), pi[l - 1])
        <3> HIDE DEF Rebuilds
        <3> TAKE l \in DOMAIN trees'
        <3>1. CASE l = k
            BY <2>1, <2>4, <2>6, <3>1
        <3>2. CASE l # k
            <4>1. l \in DOMAIN trees /\ trees'[l] = trees[l]
                BY <2>1, <3>2
            <4> QED BY <4>1 DEF Rebuilds
        <3> QED BY <3>1, <3>2
    <2>9. \A l : TaskTree(l)' = TaskTree(l)
        BY <1>1
    <2> QED BY <1>1, <2>7, <2>8, <2>9 DEF Rebuilds, Without, OnPath
<1> QED BY <1>4, <1>5, <1>6, <1>7, StepsAre

(* The blocks of one layer of a tree differ.                               *)
LEMMA BlocksDiffer ==
    ASSUME NEW l \in 0 .. 8, NEW key, NEW x \in Layer(l), NEW y \in Layer(l),
           GGMTree(l + 1, key)[x] = GGMTree(l + 1, key)[y]
    PROVE  x = y
<1> DEFINE T == GGMTree(l + 1, key)
           Differ(k) == \A i, j \in Layer(k) : T[i] = T[j] => i = j
           S == {k \in 0 .. l : Differ(k)}
<1>1. \A i \in Nodes(l + 1) : i # 0 => T[i] = Prg(T[Parent(i)], (i - 1) % 2)
    <2>1. l + 1 \in Heights
        BY DEF Heights
    <2> QED BY <2>1, TreeIs
<1> HIDE DEF T
<1>2. 0 \in S
    <2>1. Layer(0) = {0}
        BY DEF Layer
    <2>2. Differ(0)
        BY <2>1
    <2> HIDE DEF Differ
    <2> QED BY <2>2
<1>3. ASSUME NEW k \in 0 .. l - 1, k \in S PROVE k + 1 \in S
    <2>1. k + 1 \in 1 .. 8 /\ k + 1 \in 0 .. l /\ (k + 1) - 1 = k
        OBVIOUS
    <2>2. ASSUME NEW i \in Layer(k + 1)
          PROVE  /\ i \in Nat /\ i >= 1 /\ Parent(i) \in Layer(k)
                 /\ (i - 1) % 2 \in {0, 1} /\ i = 2 * Parent(i) + 1 + ((i - 1) % 2)
                 /\ T[i] = Prg(T[Parent(i)], (i - 1) % 2)
        <3>1. i \in Nat /\ i >= 1 /\ Parent(i) \in Layer(k)
            BY <2>1, LayerOrder
        <3>2. i \in Nodes(l + 1) /\ i # 0
            BY <2>1, <3>1, LayerInTree
        <3>3. (i - 1) % 2 \in {0, 1} /\ i = 2 * Parent(i) + 1 + ((i - 1) % 2)
            BY <3>1, ParentIs
        <3> QED BY <1>1, <3>1, <3>2, <3>3
    <2>3. ASSUME NEW i \in Layer(k + 1), NEW j \in Layer(k + 1), T[i] = T[j]
          PROVE  i = j
        <3> DEFINE c == (i - 1) % 2
                   d == (j - 1) % 2
                   v == T[Parent(i)]
                   w == T[Parent(j)]
        <3>1. {<<v, c>>} = {<<w, d>>}
            BY <2>2, <2>3 DEF Prg
        <3>2. v = w /\ c = d
            <4> HIDE DEF v, w, c, d
            <4>1. <<v, c>> = <<w, d>>
                BY <3>1
            <4> QED BY <4>1
        <3>3. Parent(i) = Parent(j)
            <4>1. Parent(i) \in Layer(k) /\ Parent(j) \in Layer(k)
                BY <2>2
            <4> QED BY <1>3, <3>2, <4>1
        <3>4. i = 2 * Parent(i) + 1 + c /\ j = 2 * Parent(j) + 1 + d
            BY <2>2
        <3> HIDE DEF c, d
        <3> QED BY <3>2, <3>3, <3>4
    <2>4. Differ(k + 1)
        BY <2>3
    <2> HIDE DEF Differ
    <2> QED BY <2>1, <2>4
<1>4. l \in S
    <2> HIDE DEF S
    <2>1. l \in Nat /\ l \in 0 .. l /\ \A k \in 0 .. l - 1 : k \in S => k + 1 \in S
        BY <1>3
    <2>2. \A k \in 0 .. l : k \in S
        BY <1>2, <2>1, InductionUpTo
    <2> QED BY <2>1, <2>2
<1> QED BY <1>4 DEF T

(* A block of a tree is one atom.                                          *)
LEMMA BlockIsAtom ==
    ASSUME NEW l \in 0 .. 8, NEW n \in Int, NEW x \in Nodes(l + 1)
    PROVE  \E e : e[2] \in Int /\ GGMTree(l + 1, Key(n))[x] = {e}
<1> DEFINE T == GGMTree(l + 1, Key(n))
<1>1. /\ T[0] = Key(n)
      /\ x # 0 => T[x] = Prg(T[Parent(x)], (x - 1) % 2)
    <2>1. l + 1 \in Heights
        BY DEF Heights
    <2> QED BY <2>1, TreeIs
<1> HIDE DEF T
<1>2. CASE x = 0
    <2> DEFINE e == <<Zero, n>>
    <2>1. e[2] = n
        OBVIOUS
    <2>2. T[x] = {e}
        BY <1>1, <1>2 DEF Key
    <2> HIDE DEF e
    <2> QED BY <2>1, <2>2 DEF T
<1>3. CASE x # 0
    <2> DEFINE c == (x - 1) % 2
               v == T[Parent(x)]
               e == <<v, c>>
    <2>1. c \in Int
        <3>1. l + 1 \in Heights
            BY DEF Heights
        <3>2. x \in Nat
            BY <3>1, NodesAre DEF Node
        <3> QED BY <3>2
    <2>2. e[2] = c
        <3> HIDE DEF c, v
        <3> QED OBVIOUS
    <2>3. T[x] = {e}
        BY <1>1, <1>3 DEF Prg
    <2> HIDE DEF e, c
    <2> QED BY <2>1, <2>2, <2>3 DEF T
<1> QED BY <1>2, <1>3

(* The sum of the leaves of a tree is a block.                             *)
LEMMA LeavesMakeBlock ==
    ASSUME NEW l \in 0 .. 8, NEW n \in Int
    PROVE  Block(XorLayer(GGMTree(l + 1, Key(n)), l))
<1> DEFINE T == GGMTree(l + 1, Key(n))
           q == 2^l
           at(k) == (q - 2) + k
           s == [k \in 1 .. q |-> T[at(k)]]
           U == UNION {s[k] : k \in 1 .. q}
<1>1. q \in Nat \ {0} /\ Layer(l) = q - 1 .. 2 * q - 2
    <2>1. l \in 0 .. 30 /\ l \in 0 .. 29
        OBVIOUS
    <2>2. q \in Nat \ {0} /\ 2^(l + 1) = 2 * q
        BY <2>1, PowersDouble
    <2> QED BY <2>2 DEF Layer
<1>2. XorLayer(T, l) = Total(s)
    BY DEF XorLayer
<1> HIDE DEF T, q
<1>3. \A k \in 1 .. q : at(k) \in Layer(l)
    BY <1>1
<1>4. \A j, k \in 1 .. q : at(j) = at(k) => j = k
    BY <1>1
<1> HIDE DEF at
<1>5. ASSUME NEW k \in 1 .. q PROVE \E e : e[2] \in Int /\ s[k] = {e}
    <2>1. l \in 0 .. l
        OBVIOUS
    <2>2. at(k) \in Nodes(l + 1)
        BY <1>3, <2>1, LayerInTree
    <2>3. \E e : e[2] \in Int /\ T[at(k)] = {e}
        BY <2>2, BlockIsAtom DEF T
    <2> QED BY <2>3
<1>6. ASSUME NEW j \in 1 .. q, NEW k \in 1 .. q, s[j] = s[k] PROVE j = k
    <2>1. T[at(j)] = T[at(k)] /\ at(j) \in Layer(l) /\ at(k) \in Layer(l)
        BY <1>3, <1>6
    <2>2. at(j) = at(k)
        BY <2>1, BlocksDiffer DEF T
    <2> QED BY <1>4, <2>2
<1>7. DOMAIN s = 1 .. q /\ q \in Nat
    BY <1>1
<1> HIDE DEF s
<1>8. \A x \in Total(s) : x[2] \in Int
    <2>1. \A k \in 1 .. q : s[k] \subseteq U
        OBVIOUS
    <2> DEFINE W == U
    <2>2. \A k \in 1 .. q : s[k] \subseteq W
        BY <2>1
    <2>3. \A x \in W : x[2] \in Int
        BY <1>5
    <2> HIDE DEF W, U
    <2>4. Total(s) \subseteq W
        BY <1>7, <2>2, TotalWithin
    <2> QED BY <2>3, <2>4
<1>9. Total(s) # Zero
    <2>1. 1 \in 1 .. q
        BY <1>1
    <2>2. PICK e : s[1] = {e}
        BY <1>5, <2>1
    <2>3. \A k \in 1 .. q : k # 1 => e \notin s[k]
        <3> TAKE k \in 1 .. q
        <3> HAVE k # 1
        <3>1. PICK f : s[k] = {f}
            BY <1>5
        <3>2. s[k] # s[1]
            BY <1>6, <2>1
        <3> QED BY <2>2, <3>1, <3>2
    <2>4. e \in s[1]
        BY <2>2
    <2>5. e \in Total(s)
        BY <1>7, <2>1, <2>3, <2>4, OnlyIn
    <2> QED BY <2>5 DEF Zero
<1> QED BY <1>2, <1>8, <1>9 DEF Block, T

LEMMA LayersAreBlocks ==
    ASSUME FewTasks, ShapeOK, NEW j \in 0 .. t - 1
    PROVE  Block(Layers[j])
<1> DEFINE l == h - 1
           n == (2 * (j + 1)) + 1
<1>1. l \in 0 .. 8 /\ l + 1 = h /\ t \in Nat
    BY ShapeFacts
<1>2. n \in Int
    BY <1>1
<1>3. Layers[j] = XorLayer(GGMTree(h, Key(n)), l)
    BY DEF Layers, TaskTree
<1> HIDE DEF l, n
<1> QED BY <1>1, <1>2, <1>3, LeavesMakeBlock

(* Rows and their pairs.                                                   *)
LEMMA RowIs ==
    ASSUME FewTasks, ShapeOK, NEW r \in Rows
    PROVE  r \div t \in 0 .. Pairs - 1 /\ r % t \in 0 .. t - 1 /\ r = (t * (r \div t)) + (r % t)
<1> DEFINE m == t
           n == Pairs
           q == r \div m
           x == r % m
<1>1. m \in Nat \ {0} /\ n \in Nat \ {0} /\ r \in 0 .. (m * n) - 1
    BY ShapeFacts DEF Rows
<1> HIDE DEF m, n
<1>2. r = m * q + x /\ x \in 0 .. m - 1 /\ q \in Int
    BY <1>1, DivMod
<1> HIDE DEF q, x
<1>3. q >= 0
    <2> SUFFICES ASSUME q <= -1 PROVE FALSE
        BY <1>2
    <2>1. m * q <= -m
        BY <1>1, <1>2
    <2> QED BY <1>1, <1>2, <2>1
<1>4. q <= n - 1
    <2> SUFFICES ASSUME q >= n PROVE FALSE
        BY <1>1, <1>2
    <2>1. m * q >= m * n
        <3> DEFINE f == q - n
        <3>1. f \in Nat /\ q = n + f
            BY <1>1, <1>2
        <3> HIDE DEF f
        <3>2. m * q = m * n + m * f /\ m * f \in Nat /\ m * n \in Nat
            BY <1>1, <3>1
        <3> QED BY <3>2
    <2>2. m * n \in Nat /\ m * q \in Int
        BY <1>1, <1>2
    <2> QED BY <1>1, <1>2, <2>1, <2>2
<1>5. q \in 0 .. n - 1
    BY <1>1, <1>2, <1>3, <1>4
<1> QED BY <1>2, <1>5 DEF q, x, m, n

LEMMA RowOf ==
    ASSUME FewTasks, ShapeOK, NEW pr \in 0 .. Pairs - 1, NEW j \in 0 .. t - 1
    PROVE  (t * pr) + j \in Rows /\ ((t * pr) + j) \div t = pr /\ ((t * pr) + j) % t = j
<1> DEFINE m == t
           n == Pairs
           z == (m * pr) + j
<1>1. m \in Nat \ {0} /\ n \in Nat \ {0} /\ shape.nums = m * n /\ pr \in 0 .. n - 1 /\ j \in 0 .. m - 1
    BY ShapeFacts
<1> HIDE DEF m, n
<1>2. z \in Nat /\ z = m * pr + j
    <2>1. m * pr \in Nat
        BY <1>1
    <2> QED BY <1>1, <2>1
<1>3. z <= (m * n) - 1
    <2> DEFINE f == n - 1 - pr
    <2>1. f \in Nat /\ n = pr + 1 + f
        BY <1>1
    <2> HIDE DEF f
    <2>2. m * n = m * pr + m + m * f /\ m * f \in Nat /\ m * pr \in Nat
        BY <1>1, <2>1
    <2> QED BY <1>1, <1>2, <2>2
<1> HIDE DEF z
<1>4. z \div m = pr /\ z % m = j
    <2>1. z \in Int /\ pr \in Int
        BY <1>1, <1>2
    <2> QED BY <1>1, <1>2, <2>1, DivUnique, ModUnique
<1>5. z \in 0 .. shape.nums - 1
    <2>1. m * n \in Nat
        BY <1>1
    <2> QED BY <1>1, <1>2, <1>3, <2>1
<1> QED BY <1>4, <1>5 DEF z, m, Rows

(* The message of the sender.                                              *)
LEMMA MessageStep ==
    ASSUME FewTasks, ShapeOK, Loops, Message, [Next]_vars
    PROVE  Message'
<1>1. t' = t /\ Layers' = Layers /\ Leaves' = Leaves
    BY ArgumentsStay, Fixed
<1>2. ASSUME UNCHANGED <<sPair, inputs, b, a>>, sPc' \in {"main", "send"} => sPc \in {"main", "send"}
      PROVE  Message'
    BY <1>1, <1>2 DEF Message
<1>3. CASE Quiet
    BY <1>2, <1>3 DEF Quiet
<1>4. CASE SReturn \/ SRecvBox
    <2>1. sPc' = "layer"
        BY <1>4 DEF SReturn, SRecvBox
    <2> QED BY <2>1 DEF Message
<1>5. CASE RBegin \/ RCollect \/ RReturn \/ RSendBox
    BY <1>2, <1>5 DEF RBegin, RCollect, RReturn, RSendBox, sender
<1>6. CASE MeetMain
    BY <1>2, <1>6 DEF MeetMain
<1>7. ASSUME NEW i, NEW k, MeetTasks(i, k) PROVE Message'
    BY <1>2, <1>7 DEF MeetTasks
<1>8. CASE SCollect
    <2>1. /\ b' = Layers /\ inputs' = inputs /\ sPair' = sPair
          /\ a' = XorVectors(Leaves, [j \in 0 .. t - 1 |-> inputs[(t * sPair) + j]])
        BY <1>8 DEF SCollect
    <2>2. DOMAIN Leaves = 0 .. t - 1
        BY DEF Leaves
    <2>3. /\ DOMAIN a' = 0 .. t - 1
          /\ \A j \in 0 .. t - 1 : a'[j] = Xor(Leaves[j], inputs[(t * sPair) + j])
        BY <2>1, <2>2 DEF XorVectors
    <2> QED BY <1>1, <2>1, <2>3 DEF Message
<1> QED BY <1>3, <1>4, <1>5, <1>6, <1>7, <1>8, StepsAre

(* What the receiver adds up.                                              *)
LEMMA CollectedStep ==
    ASSUME FewTasks, ShapeOK, CallInv, Loops, Rebuilds, Collected, [Next]_vars
    PROVE  Collected'
<1>1. /\ sbox' = sbox /\ t' = t /\ Pairs' = Pairs /\ Layers' = Layers
      /\ \A j : TaskSum(j)' = TaskSum(j)
    BY ArgumentsStay, Fixed
<1>2. ASSUME rLayer' = rLayer, rPair' = rPair PROVE pi' = pi
    BY <1>1, <1>2 DEF pi, rCall, CallOf
<1>3. ASSUME UNCHANGED <<rLayer, rPair, apb>>, rPc' \in {"main", "recv"} => rPc \in {"main", "recv"}
      PROVE  Collected'
    <2>1. pi' = pi
        BY <1>2, <1>3
    <2> QED BY <1>1, <1>3, <2>1 DEF Collected
<1>4. CASE Quiet
    BY <1>3, <1>4 DEF Quiet
<1>5. CASE RReturn \/ RSendBox \/ RBegin
    <2>1. rPc' \in {"layer", "enqueue"}
        BY <1>5 DEF RReturn, RSendBox, RBegin
    <2> QED BY <2>1 DEF Collected
<1>6. CASE SCollect \/ SReturn \/ SRecvBox
    BY <1>3, <1>6 DEF SCollect, SReturn, SRecvBox, receiver
<1>7. CASE MeetMain
    BY <1>3, <1>7 DEF MeetMain
<1>8. ASSUME NEW i, NEW k, MeetTasks(i, k) PROVE Collected'
    BY <1>3, <1>8 DEF MeetTasks
<1>9. CASE RCollect
    <2> DEFINE second == [i \in 0 .. t - 1 |-> XorLayer(trees[i + 1], h - 1)]
    <2>1. /\ rPc = "collect" /\ rEnded = 1 .. t /\ rLayer' = rLayer /\ rPair' = rPair
          /\ apb' = XorVectors(LeavesWithPi(trees), second)
        BY <1>9 DEF RCollect
    <2>2. DOMAIN trees = 1 .. t
        BY <2>1, SideCollects DEF CallInv, RSide
    <2>3. rPc \in InCall
        BY <2>1 DEF InCall
    <2>4. \A i \in 1 .. t : trees[i] = Without(TaskTree(i), pi[i - 1])
        BY <2>2 DEF Rebuilds
    <2>5. \A x \in 0 .. t - 1 : pi[x] \in 0 .. t - 1
        BY <2>3, PiIs
    <2>6. \A x, y \in 0 .. t - 1 : pi[x] = pi[y] => x = y
        BY <2>3, PiIs
    <2>7. DOMAIN LeavesWithPi(trees) = 0 .. t - 1
        BY DEF LeavesWithPi
    <2>8. ASSUME NEW k \in 0 .. t - 1
          PROVE  Xor(LeavesWithPi(trees)[k], second[k]) = Xor(TaskSum(pi[k]), Layers[k])
        <3> DEFINE perm == pi
        <3>1. Xor(Total([i \in 1 .. t |-> Leaf(h, trees[i])[perm[k]]]), XorLayer(trees[k + 1], h - 1))
                = Xor(TaskSum(perm[k]), Layers[k])
            <4>1. \A x \in 0 .. t - 1 : perm[x] \in 0 .. t - 1
                BY <2>5
            <4>2. \A x, y \in 0 .. t - 1 : perm[x] = perm[y] => x = y
                BY <2>6
            <4>3. \A i \in 1 .. t : trees[i] = Without(TaskTree(i), perm[i - 1])
                BY <2>4
            <4> HIDE DEF perm
            <4> QED BY <4>1, <4>2, <4>3, ReceiverSum
        <3>2. LeavesWithPi(trees)[k] = Total([i \in 1 .. t |-> Leaf(h, trees[i])[pi[k]]])
            BY DEF LeavesWithPi
        <3>3. second[k] = XorLayer(trees[k + 1], h - 1)
            OBVIOUS
        <3> QED BY <3>1, <3>2, <3>3
    <2> HIDE DEF second
    <2>9. /\ DOMAIN apb' = 0 .. t - 1
          /\ \A k \in 0 .. t - 1 : apb'[k] = Xor(TaskSum(pi[k]), Layers[k])
        BY <2>1, <2>7, <2>8 DEF XorVectors
    <2>10. pi' = pi
        BY <1>2, <2>1
    <2> QED BY <1>1, <2>9, <2>10 DEF Collected
<1> QED BY <1>4, <1>5, <1>6, <1>7, <1>8, <1>9, StepsAre

(* The sender's new block.                                                 *)
LEMMA ReplacedStep ==
    ASSUME FewTasks, ShapeOK, CallInv, Loops, Messages, Message, Replaced, [Next]_vars
    PROVE  Replaced'
<1>1. t' = t /\ Rows' = Rows /\ Layers' = Layers
    BY ArgumentsStay, Fixed
<1>2. ASSUME UNCHANGED <<rPair, inputs, wire>> PROVE Replaced'
    BY <1>1, <1>2 DEF Replaced
<1>3. ASSUME wire' = << >> PROVE Replaced'
    BY <1>3 DEF Replaced
<1>4. CASE Quiet \/ SCollect \/ RBegin \/ RCollect \/ MeetMain
    BY <1>2, <1>4 DEF Quiet, SCollect, RBegin, RCollect, MeetMain, sender, receiver
<1>5. ASSUME NEW i, NEW k, MeetTasks(i, k) PROVE Replaced'
    BY <1>2, <1>5 DEF MeetTasks
<1>6. CASE SRecvBox
    <2>1. chl # << >> /\ wire' = wire
        BY <1>6 DEF SRecvBox
    <2> QED BY <1>3, <2>1 DEF Messages
<1>7. CASE RSendBox
    <2>1. rPc = "layer" /\ wire' = wire
        BY <1>7 DEF RSendBox
    <2> QED BY <1>3, <2>1 DEF Messages
<1>8. CASE RReturn
    <2>1. wire # << >> /\ wire' = Tail(wire)
        BY <1>8 DEF RReturn
    <2>2. wire = <<Head(wire)>>
        BY <2>1 DEF Messages
    <2>3. wire' = << >>
        <3> DEFINE m == Head(wire)
        <3>1. wire = <<m>>
            BY <2>2
        <3> HIDE DEF m
        <3> QED BY <2>1, <3>1
    <2> QED BY <1>3, <2>3
<1>9. CASE SReturn
    <2>1. /\ sPc = "send" /\ rPair' = rPair
          /\ inputs' = [r \in Rows |-> IF r \div t = sPair THEN b[r % t] ELSE inputs[r]]
        BY <1>9 DEF SReturn, receiver
    <2>2. rPc = "recv"
        BY <2>1 DEF Messages
    <2>3. sPair = rPair
        BY <2>1, <2>2, SameLayer
    <2>4. b = Layers
        BY <2>1 DEF Message
    <2>5. \A r \in Rows : r \div t = rPair => inputs'[r] = Layers[r % t]
        BY <2>1, <2>3, <2>4
    <2> QED BY <1>1, <2>1, <2>5 DEF Replaced
<1> QED BY <1>4, <1>5, <1>6, <1>7, <1>8, <1>9, StepsAre

(* The vectors have all rows, and the sender's is made of blocks.          *)
LEMMA VectorsStep ==
    ASSUME FewTasks, ShapeOK, CallInv, Loops, Messages, Message, Vectors, [Next]_vars
    PROVE  Vectors'
<1>1. Rows' = Rows
    BY ArgumentsStay, Fixed
<1>2. /\ DOMAIN inputs = Rows /\ DOMAIN temp = Rows /\ \A r \in Rows : Block(inputs[r])
      /\ sPhase \in {"open", "closed"} /\ rPhase \in {"open", "closed"}
    BY DEF Vectors
<1>3. sPhase' \in {"open", "closed"} /\ rPhase' \in {"open", "closed"}
    <2>1. CASE Quiet
        BY <1>2, <2>1 DEF Quiet
    <2>2. CASE SCollect \/ SReturn \/ SRecvBox
        BY <1>2, <2>2 DEF SCollect, SReturn, SRecvBox, SPool!Close, sPool, rPool
    <2>3. CASE RBegin \/ RCollect \/ RReturn \/ RSendBox \/ MeetMain
        BY <1>2, <2>3 DEF RBegin, RCollect, RReturn, RSendBox, MeetMain, RPool!Close, sPool, rPool
    <2>4. ASSUME NEW i, NEW k, MeetTasks(i, k)
          PROVE  sPhase' \in {"open", "closed"} /\ rPhase' \in {"open", "closed"}
        BY <1>2, <2>4 DEF MeetTasks, sPool, rPool
    <2> QED BY <2>1, <2>2, <2>3, <2>4, StepsAre
<1>4. DOMAIN temp' = Rows
    <2>1. CASE Quiet \/ SCollect \/ SReturn \/ SRecvBox \/ RCollect \/ MeetMain
        BY <1>2, <2>1 DEF Quiet, SCollect, SReturn, SRecvBox, RCollect, MeetMain, receiver
    <2>2. CASE RBegin \/ RReturn \/ RSendBox
        BY <1>2, <2>2 DEF RBegin, RReturn, RSendBox, Swapped, Permuted
    <2>3. ASSUME NEW i, NEW k, MeetTasks(i, k) PROVE DOMAIN temp' = Rows
        BY <1>2, <2>3 DEF MeetTasks
    <2> QED BY <2>1, <2>2, <2>3, StepsAre
<1>5. DOMAIN inputs' = Rows /\ \A r \in Rows : Block(inputs'[r])
    <2>1. CASE Quiet \/ SCollect \/ RBegin \/ RCollect \/ RReturn \/ RSendBox \/ MeetMain
        BY <1>2, <2>1 DEF Quiet, SCollect, RBegin, RCollect, RReturn, RSendBox, MeetMain, sender
    <2>2. ASSUME NEW i, NEW k, MeetTasks(i, k)
          PROVE  DOMAIN inputs' = Rows /\ \A r \in Rows : Block(inputs'[r])
        BY <1>2, <2>2 DEF MeetTasks
    <2>3. CASE SReturn
        <3>1. /\ sPc = "send"
              /\ inputs' = [r \in Rows |-> IF r \div t = sPair THEN b[r % t] ELSE inputs[r]]
            BY <2>3 DEF SReturn
        <3>2. b = Layers
            BY <3>1 DEF Message
        <3>3. \A r \in Rows : r % t \in 0 .. t - 1
            BY RowIs
        <3>4. \A j \in 0 .. t - 1 : Block(b[j])
            BY <3>2, LayersAreBlocks
        <3> QED BY <1>2, <3>1, <3>3, <3>4
    <2>4. CASE SRecvBox
        <3>1. chl # << >> /\ inputs' = [r \in Rows |-> inputs[Head(chl)[r]]] /\ BoxLayer(sLayer)
            BY <2>4 DEF SRecvBox
        <3>2. Head(chl) = pbox[sLayer \div 2]
            BY <3>1 DEF Messages
        <3>3. sLayer \in Nat
            BY ShapeFacts DEF Loops
        <3>4. \A r \in Rows : Head(chl)[r] \in Rows
            BY <3>1, <3>2, <3>3, BoxIs
        <3> QED BY <1>2, <3>1, <3>4
    <2> QED BY <2>1, <2>2, <2>3, <2>4, StepsAre
<1>6. \A v : Block(v)' <=> Block(v)
    BY DEF Block
<1> QED BY <1>1, <1>3, <1>4, <1>5, <1>6 DEF Vectors

(* The permutations up to every layer, and the one of them all.            *)
LEMMA OrdersAre ==
    ASSUME FewTasks, ShapeOK
    PROVE  \E order : Orders(order)
<1> DEFINE n == shape.layers
           start == [r \in Rows |-> r]
           After(k, f) == f = [i \in 0 .. k |->
                IF i = 0 THEN start
                ELSE IF (i - 1) % 2 = 0 THEN Swapped(f[i - 1], i - 1)
                ELSE Permuted(f[i - 1], i - 1)]
           S == {k \in 0 .. n : \E f : After(k, f)}
<1>1. n \in Nat
    BY ShapeFacts
<1>2. Permutation = (CHOOSE f : After(n, f))[n]
    BY DEF Permutation
<1> HIDE DEF n, start
<1>3. 0 \in S
    <2> DEFINE first == [i \in 0 .. 0 |-> start]
    <2>1. \A i \in 0 .. 0 : i = 0
        OBVIOUS
    <2>2. After(0, first)
        BY <2>1
    <2> HIDE DEF After, first
    <2> QED BY <1>1, <2>2
<1>4. ASSUME NEW k \in 0 .. n - 1, k \in S PROVE k + 1 \in S
    <2>1. PICK f : After(k, f)
        BY <1>4
    <2> DEFINE last == IF k % 2 = 0 THEN Swapped(f[k], k) ELSE Permuted(f[k], k)
               more == [i \in 0 .. k + 1 |-> IF i = k + 1 THEN last ELSE f[i]]
    <2>2. ASSUME NEW i \in 0 .. k + 1
          PROVE  more[i] = IF i = 0 THEN start
                           ELSE IF (i - 1) % 2 = 0 THEN Swapped(more[i - 1], i - 1)
                           ELSE Permuted(more[i - 1], i - 1)
        <3>1. CASE i = k + 1
            <4>1. more[i] = last /\ i # 0 /\ i - 1 = k /\ k \in 0 .. k + 1 /\ k # k + 1
                BY <3>1
            <4>2. more[k] = f[k]
                BY <4>1
            <4> HIDE DEF more
            <4> QED BY <4>1, <4>2
        <3>2. CASE i # k + 1
            <4>1. i \in 0 .. k
                BY <3>2
            <4>2. more[i] = f[i]
                BY <3>2
            <4>3. i # 0 => i - 1 \in 0 .. k + 1 /\ i - 1 # k + 1
                BY <4>1
            <4>4. i # 0 => more[i - 1] = f[i - 1]
                BY <4>3
            <4>5. f[i] = IF i = 0 THEN start
                         ELSE IF (i - 1) % 2 = 0 THEN Swapped(f[i - 1], i - 1)
                         ELSE Permuted(f[i - 1], i - 1)
                BY <2>1, <4>1
            <4> HIDE DEF more
            <4> QED BY <4>2, <4>4, <4>5
        <3> QED BY <3>1, <3>2
    <2>3. After(k + 1, more)
        <3> HIDE DEF last
        <3> QED BY <2>2
    <2>4. k + 1 \in 0 .. n
        BY <1>1
    <2> HIDE DEF After, more
    <2> QED BY <2>3, <2>4
<1>5. n \in S
    <2> HIDE DEF S
    <2>1. n \in 0 .. n /\ \A k \in 0 .. n - 1 : k \in S => k + 1 \in S
        BY <1>1, <1>4
    <2>2. \A k \in 0 .. n : k \in S
        BY <1>1, <1>3, <2>1, InductionUpTo
    <2> QED BY <2>1, <2>2
<1> DEFINE order == CHOOSE f : After(n, f)
<1>6. After(n, order)
    <2> HIDE DEF After
    <2> QED BY <1>5
<1> HIDE DEF order
<1>7. order[0] = start
    <2>1. 0 \in 0 .. n
        BY <1>1
    <2> QED BY <1>6, <2>1
<1>8. ASSUME NEW i \in 0 .. n - 1
      PROVE  order[i + 1] = IF i % 2 = 0 THEN Swapped(order[i], i) ELSE Permuted(order[i], i)
    <2>1. i + 1 \in 0 .. n /\ i + 1 # 0 /\ (i + 1) - 1 = i
        BY <1>1
    <2> QED BY <1>6, <2>1
<1>9. Permutation = order[n]
    BY <1>2 DEF order
<1> QED BY <1>7, <1>8, <1>9 DEF Orders, n, start

(* They stay with the arguments.                                           *)
LEMMA OrdersStay ==
    ASSUME UNCHANGED arguments
    PROVE  \A order : Orders(order) <=> Orders(order)'
<1>1. shape' = shape /\ sbox' = sbox /\ pbox' = pbox /\ t' = t /\ Rows' = Rows /\ Pairs' = Pairs
    BY Fixed
<1>2. Permutation' = Permutation
    BY <1>1 DEF Permutation, Swapped, Permuted, CallOf
<1> QED BY <1>1, <1>2 DEF Orders, Swapped, Permuted, CallOf

(* A permutation of a pair stays in its rows.                              *)
LEMMA SwappedRowIs ==
    ASSUME FewTasks, ShapeOK, Loops, SwapLayer(rLayer), NEW r \in Rows
    PROVE  /\ SwappedRow(r) \in Rows /\ SwappedRow(r) \div t = r \div t
           /\ SwappedRow(r) % t = sbox[CallOf(rLayer, r \div t)][r % t]
<1>1. rLayer \in Nat
    BY ShapeFacts DEF Loops
<1>2. r \div t \in 0 .. Pairs - 1 /\ r % t \in 0 .. t - 1
    BY RowIs
<1>3. sbox[CallOf(rLayer, r \div t)][r % t] \in 0 .. t - 1
    BY <1>1, <1>2, SwapIs
<1> QED BY <1>2, <1>3, RowOf DEF SwappedRow

(* What the invariant says after a step.                                   *)
LEMMA SharesNext ==
    ASSUME UNCHANGED arguments, NEW order,
           \A r \in Rows : \E q : /\ q = Source(r)'
                                 /\ Xor(Xor(temp'[r], Seen(q)'), Input(order[rLayer'][From(r)']))
                                      \subseteq UNION LocalLeaves
    PROVE  Shares(order)'
<1>1. Rows' = Rows /\ LocalLeaves' = LocalLeaves
    BY Fixed
<1>2. \A r \in Rows : Xor(Xor(temp'[r], Seen(Source(r))'), Input(order[rLayer'][From(r)']))
                         \subseteq UNION LocalLeaves
    <2> TAKE r \in Rows
    <2>1. PICK q : /\ q = Source(r)'
                   /\ Xor(Xor(temp'[r], Seen(q)'), Input(order[rLayer'][From(r)']))
                        \subseteq UNION LocalLeaves
        OBVIOUS
    <2>2. Seen(Source(r))' = Seen(q)'
        BY <2>1 DEF Seen
    <2> QED BY <2>1, <2>2
<1> QED BY <1>1, <1>2 DEF Shares

(* Steps that leave the vectors and messages alone.                        *)
LEMMA SharesKept ==
    ASSUME UNCHANGED <<arguments, temp, inputs, chl, wire, rLayer, rPair>>, InLayer' <=> InLayer,
           NEW order, Shares(order)
    PROVE  Shares(order)'
<1>1. t' = t /\ Rows' = Rows /\ Pairs' = Pairs /\ sbox' = sbox /\ Leaves' = Leaves
    BY Fixed
<1>2. \A r : SwappedRow(r)' = SwappedRow(r)
    BY <1>1 DEF SwappedRow, CallOf
<1>3. \A r : Source(r)' = Source(r) /\ From(r)' = From(r)
    BY <1>1, <1>2 DEF Source, From
<1>4. \A q : Seen(q)' = Seen(q)
    BY <1>1 DEF Seen
<1>5. ASSUME NEW r \in Rows
      PROVE  \E q : /\ q = Source(r)'
                    /\ Xor(Xor(temp'[r], Seen(q)'), Input(order[rLayer'][From(r)']))
                         \subseteq UNION LocalLeaves
    <2>1. Xor(Xor(temp[r], Seen(Source(r))), Input(order[rLayer][From(r)])) \subseteq UNION LocalLeaves
        BY DEF Shares
    <2>2. Seen(Source(r))' = Seen(Source(r))
        BY <1>1, <1>3 DEF Seen
    <2> QED BY <1>3, <1>4, <2>1, <2>2
<1> QED BY <1>5, SharesNext

(* A source is a row.                                                      *)
LEMMA SourceIs ==
    ASSUME FewTasks, ShapeOK, Loops, NEW r \in Rows
    PROVE  Source(r) \in Rows /\ (InLayer => SwapLayer(rLayer))
<1>1. InLayer => SwapLayer(rLayer)
    BY DEF InLayer, Loops
<1> QED BY <1>1, SwappedRowIs DEF Source

(* The sender sends its message and takes the new block, or takes its      *)
(* vector in the order it has received.                                    *)
LEMMA SharesSent ==
    ASSUME FewTasks, ShapeOK, CallInv, Loops, Messages, Message, SReturn \/ SRecvBox,
           NEW order, Shares(order)
    PROVE  Shares(order)'
<1>1. UNCHANGED arguments /\ UNCHANGED <<rPc, rLayer, rPair, temp>>
    BY DEF SReturn, SRecvBox, receiver
<1>2. t' = t /\ Rows' = Rows /\ Pairs' = Pairs /\ sbox' = sbox /\ Leaves' = Leaves
    BY <1>1, Fixed
<1>3. \A r : SwappedRow(r)' = SwappedRow(r)
    BY <1>1, <1>2 DEF SwappedRow, CallOf
<1>4. \A r : Source(r)' = Source(r) /\ From(r)' = From(r)
    BY <1>1, <1>2, <1>3 DEF Source, From, InLayer
<1>5. CASE SReturn
    <2>1. /\ sPc = "send" /\ wire' = Append(wire, a) /\ chl' = chl
          /\ inputs' = [r \in Rows |-> IF r \div t = sPair THEN b[r % t] ELSE inputs[r]]
        BY <1>5 DEF SReturn
    <2>2. rPc = "recv" /\ wire = << >>
        BY <2>1 DEF Messages
    <2>3. sPair = rPair /\ sLayer = rLayer
        BY <2>1, <2>2, SameLayer
    <2>4. chl = << >>
        BY <2>3 DEF Messages
    <2>5. wire' # << >> /\ Head(wire') = a
        BY <2>1, <2>2
    <2>6. \A j \in 0 .. t - 1 : a[j] = Xor(Leaves[j], inputs[(t * sPair) + j])
        BY <2>1 DEF Message
    <2>7. ASSUME NEW q \in Rows PROVE Seen(q)' = Seen(q)
        <3>1. Seen(q) = inputs[q]
            BY <2>2, <2>4 DEF Seen
        <3>2. CASE q \div t = rPair
            <4>1. Seen(q)' = Xor(Leaves[q % t], a[q % t])
                BY <1>1, <1>2, <2>5, <3>2 DEF Seen
            <4>2. q % t \in 0 .. t - 1 /\ q = (t * sPair) + (q % t)
                BY <2>3, <3>2, RowIs
            <4>3. a[q % t] = Xor(Leaves[q % t], inputs[q])
                BY <2>6, <4>2
            <4>4. \A u, v : Xor(u, Xor(u, v)) = v
                BY DEF Xor
            <4> QED BY <3>1, <4>1, <4>3, <4>4
        <3>3. CASE q \div t # rPair
            <4>1. Seen(q)' = inputs'[q]
                BY <1>1, <1>2, <2>1, <2>4, <3>3 DEF Seen
            <4>2. inputs'[q] = inputs[q]
                BY <2>1, <2>3, <3>3
            <4> QED BY <3>1, <4>1, <4>2
        <3> QED BY <3>2, <3>3
    <2>8. ASSUME NEW r \in Rows
          PROVE  \E q : /\ q = Source(r)'
                        /\ Xor(Xor(temp'[r], Seen(q)'), Input(order[rLayer'][From(r)']))
                             \subseteq UNION LocalLeaves
        <3> DEFINE q == Source(r)
        <3>1. q \in Rows
            BY SourceIs
        <3>2. Xor(Xor(temp[r], Seen(q)), Input(order[rLayer][From(r)])) \subseteq UNION LocalLeaves
            BY DEF Shares
        <3>3. q = Source(r)'
            BY <1>4
        <3>4. \A x \in Rows : Seen(x)' = Seen(x)
            BY <2>7
        <3>5. \E x \in Rows : x = q
            BY <3>1
        <3> HIDE DEF q
        <3> QED BY <1>1, <1>4, <3>2, <3>3, <3>4, <3>5
    <2> QED BY <1>1, <2>8, SharesNext
<1>6. CASE SRecvBox
    <2>1. /\ chl # << >> /\ chl' = Tail(chl) /\ wire' = wire
          /\ inputs' = [r \in Rows |-> inputs[Head(chl)[r]]]
        BY <1>6 DEF SRecvBox
    <2>2. wire = << >> /\ chl = <<pbox[sLayer \div 2]>>
        BY <2>1 DEF Messages
    <2>3. chl' = << >>
        BY <2>1, <2>2
    <2>4. ASSUME NEW q \in Rows PROVE Seen(q)' = Seen(q)
        <3>1. Seen(q) = inputs[Head(chl)[q]]
            BY <2>1, <2>2 DEF Seen
        <3>2. Seen(q)' = inputs'[q]
            BY <2>1, <2>2, <2>3 DEF Seen
        <3> QED BY <2>1, <3>1, <3>2
    <2>5. ASSUME NEW r \in Rows
          PROVE  \E q : /\ q = Source(r)'
                        /\ Xor(Xor(temp'[r], Seen(q)'), Input(order[rLayer'][From(r)']))
                             \subseteq UNION LocalLeaves
        <3> DEFINE q == Source(r)
        <3>1. q \in Rows
            BY SourceIs
        <3>2. Xor(Xor(temp[r], Seen(q)), Input(order[rLayer][From(r)])) \subseteq UNION LocalLeaves
            BY DEF Shares
        <3>3. q = Source(r)'
            BY <1>4
        <3>4. \A x \in Rows : Seen(x)' = Seen(x)
            BY <2>4
        <3>5. \E x \in Rows : x = q
            BY <3>1
        <3> HIDE DEF q
        <3> QED BY <1>1, <1>4, <3>2, <3>3, <3>4, <3>5
    <2> QED BY <1>1, <2>5, SharesNext
<1> QED BY <1>5, <1>6

(* The receiver permutes its vector: pair by pair when a layer begins, or  *)
(* in the order it sends.                                                  *)
LEMMA SharesPermuted ==
    ASSUME FewTasks, ShapeOK, CallInv, Loops, Messages, RBegin \/ RSendBox,
           NEW order, Orders(order), Shares(order)
    PROVE  Shares(order)'
<1>1. UNCHANGED arguments /\ UNCHANGED <<rPair, inputs, wire>>
    BY DEF RBegin, RSendBox, sender
<1>2. t' = t /\ Rows' = Rows /\ Pairs' = Pairs /\ sbox' = sbox /\ Leaves' = Leaves
    BY <1>1, Fixed
<1>3. CASE RBegin /\ rPair # 0
    <2>1. UNCHANGED <<chl, rLayer, temp>> /\ (InLayer' <=> InLayer)
        BY <1>3 DEF RBegin, InLayer
    <2> QED BY <1>1, <2>1, SharesKept
<1>4. CASE RBegin /\ rPair = 0
    <2>1. /\ ~ InLayer /\ InLayer' /\ UNCHANGED <<chl, rLayer>> /\ SwapLayer(rLayer)
          /\ temp' = Swapped(temp, rLayer)
        BY <1>4 DEF RBegin, InLayer, InCall
    <2>2. \A q : Seen(q)' = Seen(q)
        BY <1>1, <1>2, <2>1 DEF Seen
    <2>3. ASSUME NEW r \in Rows
          PROVE  \E q : /\ q = Source(r)'
                        /\ Xor(Xor(temp'[r], Seen(q)'), Input(order[rLayer'][From(r)']))
                             \subseteq UNION LocalLeaves
        <3> DEFINE q == SwappedRow(r)
        <3>1. q \in Rows
            BY <2>1, SwappedRowIs
        <3>2. Source(q) = q /\ From(q) = q
            BY <2>1 DEF Source, From
        <3>3. Xor(Xor(temp[q], Seen(q)), Input(order[rLayer][q])) \subseteq UNION LocalLeaves
            BY <3>1, <3>2 DEF Shares
        <3>4. q = SwappedRow(r)'
            BY <1>2, <2>1 DEF SwappedRow, CallOf
        <3>5. r \div t >= 0
            BY RowIs
        <3>6. q = Source(r)' /\ q = From(r)'
            BY <1>1, <1>2, <1>4, <2>1, <3>4, <3>5 DEF Source, From
        <3>7. temp'[r] = temp[q]
            BY <2>1 DEF Swapped, SwappedRow
        <3>8. \E x : x = q
            OBVIOUS
        <3> HIDE DEF q
        <3> QED BY <2>1, <2>2, <3>3, <3>6, <3>7, <3>8
    <2> QED BY <1>1, <2>3, SharesNext
<1>5. CASE RSendBox
    <2> DEFINE box == pbox[rLayer \div 2]
    <2>1. /\ rPc = "layer" /\ rPc' = rPc /\ BoxLayer(rLayer) /\ rLayer' = rLayer + 1
          /\ chl' = Append(chl, box) /\ temp' = Permuted(temp, rLayer)
        BY <1>5 DEF RSendBox, WithBox
    <2>2. rLayer \in Nat /\ rLayer % 2 = 1 /\ chl = << >> /\ wire = << >>
        BY <2>1, SameBox
    <2>3. rPair = 0
        <3>1. rLayer % 2 # 0
            BY <2>2
        <3>2. rPair # 0 => rLayer % 2 = 0
            BY DEF Loops, SwapLayer
        <3> QED BY <3>1, <3>2
    <2>4. ~ InLayer /\ ~ InLayer'
        BY <1>1, <2>1, <2>3 DEF InLayer, InCall
    <2>5. \A r \in Rows : box[r] \in Rows
        BY <2>1, <2>2, BoxIs
    <2>6. chl' # << >> /\ Head(chl') = box
        BY <2>1, <2>2
    <2>7. order[rLayer + 1] = Permuted(order[rLayer], rLayer)
        <3>1. rLayer \in 0 .. shape.layers - 1 /\ rLayer % 2 # 0
            <4>1. shape.layers \in Nat
                BY ShapeFacts
            <4>2. rLayer < shape.layers
                BY <2>1 DEF BoxLayer
            <4> QED BY <2>2, <4>1, <4>2
        <3>2. order[rLayer + 1] = IF rLayer % 2 = 0 THEN Swapped(order[rLayer], rLayer)
                                  ELSE Permuted(order[rLayer], rLayer)
            BY <3>1 DEF Orders
        <3> QED BY <3>1, <3>2
    <2>8. ASSUME NEW r \in Rows
          PROVE  \E q : /\ q = Source(r)'
                        /\ Xor(Xor(temp'[r], Seen(q)'), Input(order[rLayer'][From(r)']))
                             \subseteq UNION LocalLeaves
        <3> DEFINE x == box[r]
        <3>1. x \in Rows /\ Source(x) = x /\ From(x) = x
            BY <2>4, <2>5 DEF Source, From
        <3>2. Xor(Xor(temp[x], Seen(x)), Input(order[rLayer][x])) \subseteq UNION LocalLeaves
            BY <3>1 DEF Shares
        <3>3. Seen(x) = inputs[x]
            BY <2>2 DEF Seen
        <3>4. r = Source(r)' /\ r = From(r)'
            BY <2>4 DEF Source, From
        <3>5. Seen(r)' = inputs[x]
            BY <1>1, <2>2, <2>6 DEF Seen
        <3>6. temp'[r] = temp[x] /\ order[rLayer'][r] = order[rLayer][x]
            BY <2>1, <2>7 DEF Permuted
        <3> HIDE DEF x
        <3> QED BY <3>2, <3>3, <3>4, <3>5, <3>6
    <2> QED BY <1>1, <2>8, SharesNext
<1> QED BY <1>3, <1>4, <1>5

(* What a row of the receiver becomes when a call ends: its sums take the  *)
(* leaves off that the message has, but for those of the first loop.       *)
LEMMA SumsCancel ==
    ASSUME NEW v, NEW w, NEW local, NEW tsum, NEW new, NEW input, NEW U,
           Xor(Xor(v, Xor(Xor(local, tsum), w)), input) \subseteq U, local \subseteq U
    PROVE  Xor(Xor(Xor(v, Xor(Xor(tsum, new), w)), new), input) \subseteq U
BY DEF Xor

LEMMA SharesReturned ==
    ASSUME FewTasks, ShapeOK, CallInv, Loops, Messages, Collected, Replaced, RReturn,
           NEW order, Orders(order), Shares(order)
    PROVE  Shares(order)'
<1> DEFINE m == Head(wire)
<1>1. /\ rPc = "recv" /\ rPc' = "layer" /\ wire # << >> /\ wire' = Tail(wire)
      /\ UNCHANGED <<arguments, inputs, chl>>
      /\ rPair' = NextPair(rPair) /\ rLayer' = NextLayer(rLayer, rPair)
    BY DEF RReturn, sender
<1>2. t' = t /\ Rows' = Rows /\ Pairs' = Pairs /\ sbox' = sbox /\ Leaves' = Leaves
    BY <1>1, Fixed
<1>3. chl = << >> /\ wire = <<m>>
    BY <1>1 DEF Messages
<1>4. wire' = << >>
    <2> HIDE DEF m
    <2> QED BY <1>1, <1>3
<1>5. InLayer /\ SwapLayer(rLayer) /\ rPc \in InCall
    BY <1>1 DEF InLayer, InCall, Loops
<1>6. shape.layers \in Nat /\ Pairs \in Nat \ {0} /\ rLayer \in 0 .. shape.layers - 1
      /\ rPair \in 0 .. Pairs - 1 /\ rLayer % 2 = 0
    <2>1. shape.layers \in Nat /\ Pairs \in Nat \ {0}
        BY ShapeFacts
    <2>2. rLayer \in Nat /\ rPair \in 0 .. Pairs - 1
        BY <2>1 DEF Loops
    <2>3. rLayer < shape.layers /\ rLayer % 2 = 0
        BY <1>5 DEF SwapLayer
    <2> QED BY <2>1, <2>2, <2>3
<1>7. temp' = [r \in Rows |-> IF r \div t = rPair
                              THEN Xor(temp[r], XorVectors(apb, [k \in 0 .. t - 1 |-> m[pi[k]]])[r % t])
                              ELSE temp[r]]
    BY DEF RReturn
<1>8. /\ DOMAIN apb = 0 .. t - 1
      /\ \A k \in 0 .. t - 1 : apb[k] = Xor(TaskSum(pi[k]), Layers[k])
    BY <1>1 DEF Collected
<1> HIDE DEF m
<1>9. ASSUME NEW k \in 0 .. t - 1
      PROVE  XorVectors(apb, [j \in 0 .. t - 1 |-> m[pi[j]]])[k]
               = Xor(Xor(TaskSum(pi[k]), Layers[k]), m[pi[k]])
    BY <1>8 DEF XorVectors
<1>10. ASSUME NEW r \in Rows
       PROVE  \E q : /\ q = Source(r)'
                     /\ Xor(Xor(temp'[r], Seen(q)'), Input(order[rLayer'][From(r)']))
                          \subseteq UNION LocalLeaves
    <2> DEFINE s == SwappedRow(r)
               d == r \div t
               j == r % t
               o == order[rLayer][s]
               U == UNION LocalLeaves
    <2>1. s \in Rows /\ s \div t = d /\ s % t = sbox[CallOf(rLayer, d)][j]
        BY <1>5, SwappedRowIs
    <2>2. d \in 0 .. Pairs - 1 /\ j \in 0 .. t - 1
        BY RowIs
    <2>3. order[rLayer'][From(r)'] = o /\ Source(r)' = IF d > rPair THEN s ELSE r
        <3>1. CASE rPair + 1 # Pairs
            <4>1. rPair' = rPair + 1 /\ rPair' # 0 /\ rLayer' = rLayer
                BY <1>1, <1>6, <3>1 DEF NextPair, NextLayer
            <4>2. InLayer'
                BY <4>1 DEF InLayer
            <4>3. SwappedRow(r)' = s
                BY <1>2, <4>1 DEF SwappedRow, CallOf
            <4>4. From(r)' = s
                BY <4>2, <4>3 DEF From
            <4>5. Source(r)' = IF d >= rPair + 1 THEN s ELSE r
                BY <1>2, <4>1, <4>2, <4>3 DEF Source
            <4>6. d >= rPair + 1 <=> d > rPair
                BY <1>6, <2>2
            <4> HIDE DEF s, d
            <4> QED BY <4>1, <4>4, <4>5, <4>6
        <3>2. CASE rPair + 1 = Pairs
            <4>1. rPair' = 0 /\ rLayer' = rLayer + 1
                BY <1>1, <3>2 DEF NextPair, NextLayer
            <4>2. ~ InLayer'
                BY <1>1, <4>1 DEF InLayer, InCall
            <4>3. From(r)' = r /\ Source(r)' = r
                BY <4>2 DEF From, Source
            <4>4. ~ (d > rPair)
                BY <1>6, <2>2, <3>2
            <4>5. order[rLayer + 1] = Swapped(order[rLayer], rLayer)
                <5>1. order[rLayer + 1] = IF rLayer % 2 = 0 THEN Swapped(order[rLayer], rLayer)
                                          ELSE Permuted(order[rLayer], rLayer)
                    BY <1>6 DEF Orders
                <5> QED BY <1>6, <5>1
            <4>6. Swapped(order[rLayer], rLayer)[r] = o
                BY DEF Swapped, SwappedRow
            <4> HIDE DEF s, d, o
            <4> QED BY <4>1, <4>3, <4>4, <4>5, <4>6
        <3> QED BY <3>1, <3>2
    <2>4. From(r) = s /\ Source(r) = IF d >= rPair THEN s ELSE r
        BY <1>5 DEF From, Source
    <2>5. Xor(Xor(temp[r], Seen(Source(r))), Input(o)) \subseteq U
        BY <2>4 DEF Shares
    <2>6. ASSUME NEW q, q \div t # rPair PROVE Seen(q)' = Seen(q)
        <3>1. Seen(q) = inputs[q]
            BY <1>3, <2>6 DEF Seen
        <3>2. Seen(q)' = inputs'[q]
            BY <1>1, <1>3, <1>4 DEF Seen
        <3> QED BY <1>1, <3>1, <3>2
    <2>7. CASE d # rPair
        <3>1. temp'[r] = temp[r]
            BY <1>7, <2>7
        <3>2. Source(r)' = Source(r)
            <4>1. d > rPair <=> d >= rPair
                BY <1>6, <2>2, <2>7
            <4> HIDE DEF d, s
            <4> QED BY <2>3, <2>4, <4>1
        <3>3. Source(r) \div t # rPair
            BY <2>1, <2>4, <2>7
        <3>4. \A x : x \div t # rPair => Seen(x)' = Seen(x)
            BY <2>6
        <3>5. PICK q : q = Source(r)
            OBVIOUS
        <3>6. Seen(q)' = Seen(q) /\ q = Source(r)'
            BY <3>2, <3>3, <3>4, <3>5
        <3>7. Xor(Xor(temp[r], Seen(q)), Input(o)) \subseteq U
            BY <2>5, <3>5
        <3> HIDE DEF o
        <3> QED BY <2>3, <3>1, <3>6, <3>7
    <2>8. CASE d = rPair
        <3> DEFINE x == pi[j]
        <3>1. s % t = x /\ x \in 0 .. t - 1
            <4>1. s % t = x
                BY <2>1, <2>8 DEF pi, rCall
            <4>2. x \in 0 .. t - 1
                BY <1>5, <2>2, PiIs
            <4> QED BY <4>1, <4>2
        <3>2. Source(r) = s
            BY <1>6, <2>4, <2>8
        <3>3. Seen(s) = Xor(Leaves[x], m[x])
            BY <1>1, <2>1, <2>8, <3>1 DEF Seen, m
        <3>4. Leaves[x] = Xor(LocalSum(x), TaskSum(x)) /\ LocalSum(x) \subseteq U
            BY <3>1, LeavesSplit, LocalSumWithin
        <3>5. Xor(Xor(temp[r], Xor(Xor(LocalSum(x), TaskSum(x)), m[x])), Input(o)) \subseteq U
            BY <2>5, <3>2, <3>3, <3>4
        <3>6. temp'[r] = Xor(temp[r], Xor(Xor(TaskSum(x), Layers[j]), m[x]))
            BY <1>7, <1>9, <2>2, <2>8
        <3>7. Source(r)' = r
            BY <1>6, <2>2, <2>3, <2>8
        <3>8. Seen(r)' = Layers[j]
            <4>1. Seen(r)' = inputs'[r]
                BY <1>1, <1>3, <1>4 DEF Seen
            <4>2. inputs[r] = Layers[j]
                BY <1>1, <2>8 DEF Replaced
            <4> QED BY <1>1, <4>1, <4>2
        <3> DEFINE local == LocalSum(x)
                   tsum == TaskSum(x)
                   w == m[x]
                   new == Layers[j]
                   input == Input(o)
                   v == temp[r]
        <3>9. Xor(Xor(v, Xor(Xor(local, tsum), w)), input) \subseteq U /\ local \subseteq U
            BY <3>4, <3>5
        <3>10. Xor(Xor(Xor(v, Xor(Xor(tsum, new), w)), new), input) \subseteq U
            <4> HIDE DEF local, tsum, w, new, input, v, U
            <4> QED BY <3>9, SumsCancel
        <3>11. Xor(Xor(temp'[r], Seen(r)'), Input(order[rLayer'][From(r)'])) \subseteq U
            <4> HIDE DEF x, o, U, s, j
            <4> QED BY <2>3, <3>6, <3>8, <3>10 DEF local, tsum, w, new, input, v
        <3> HIDE DEF o, x, j
        <3> QED BY <3>7, <3>11
    <2> QED BY <2>7, <2>8
<1> QED BY <1>1, <1>10, SharesNext

-----------------------------------------------------------------------------
(* The first states.                                                       *)
LEMMA CallInvInit == FewTasks /\ Init => CallInv
<1> SUFFICES ASSUME FewTasks, Init PROVE CallInv
    OBVIOUS
<1>1. t \in 1 .. 256 /\ Pairs \in Int
    <2>1. ShapeOK
        BY DEF Init, ShapeOK
    <2>2. t \in Nat \ {0} /\ t <= 256 /\ Pairs \in Nat \ {0}
        BY <2>1, ShapeFacts
    <2> QED BY <2>2
<1>2. /\ sPc \in {"connect", "layer"} /\ rPc = sPc
      /\ sLayer = 0 /\ sPair = 0 /\ rLayer = 0 /\ rPair = 0
      /\ sTaken = 0 /\ sStarted = 0 /\ sEnded = {} /\ sMet = {}
      /\ rTaken = 0 /\ rStarted = 0 /\ rEnded = {} /\ trees = << >>
    BY DEF Init, SPool!PoolInit, RPool!PoolInit
<1>3. DOMAIN trees = {}
    BY <1>2
<1>4. SSide
    BY <1>1, <1>2 DEF SSide, Side, InCall
<1>5. RSide
    BY <1>1, <1>2, <1>3 DEF RSide, Side, InCall
<1>6. Sync
    BY <1>2, <1>3 DEF Sync
<1> QED BY <1>1, <1>4, <1>5, <1>6 DEF CallInv, ShapeInv

(* Two acceptors never share a port and who connects meets the same task   *)
(* of the same call, as long as a call's trees have at most 256 leaves.    *)
THEOREM TasksMeet == FewTasks => (Spec => []MeetRight)
<1> SUFFICES ASSUME FewTasks PROVE Spec => []MeetRight
    OBVIOUS
<1>1. Init => CallInv
    BY CallInvInit
<1> QED BY <1>1, CallStep, CallsMeet, PTL DEF Spec

LEMMA DataInvInit == FewTasks /\ Init => DataInv
<1> SUFFICES ASSUME FewTasks, Init PROVE DataInv
    OBVIOUS
<1>1. ShapeOK
    BY DEF Init, ShapeOK
<1>2. CallInv
    BY CallInvInit
<1>3. shape.layers \in Nat /\ Pairs \in Nat \ {0}
    BY <1>1, ShapeFacts
<1>4. /\ sPc \in {"connect", "layer"} /\ rPc \in {"connect", "layer"}
      /\ sLayer = 0 /\ sPair = 0 /\ rLayer = 0 /\ rPair = 0
      /\ chl = << >> /\ wire = << >> /\ trees = << >>
      /\ inputs = [r \in Rows |-> Input(r)] /\ temp = [r \in Rows |-> Zero]
      /\ sPhase = "open" /\ rPhase = "open"
    BY DEF Init, SPool!PoolInit, RPool!PoolInit
<1>5. Loops
    BY <1>3, <1>4 DEF Loops, InCall
<1>6. Messages
    BY <1>4 DEF Messages
<1>7. Rebuilds
    <2>1. DOMAIN trees = {}
        BY <1>4
    <2> QED BY <2>1 DEF Rebuilds
<1>8. Sums
    BY <1>4 DEF Sums, Message, Collected, Replaced
<1>9. Vectors
    <2>1. ASSUME NEW r \in Rows PROVE Block(Input(r))
        <3> DEFINE n == - (r + 1)
                   e == <<Zero, n>>
        <3>1. n \in Int
            <4>1. r \in Int
                BY DEF Rows
            <4> QED BY <4>1
        <3>2. Input(r) = {e} /\ e[2] = n
            BY DEF Input
        <3> HIDE DEF e, n
        <3> QED BY <3>1, <3>2 DEF Block, Zero
    <2> QED BY <1>4, <2>1 DEF Vectors
<1>10. SharesInv
    <2>1. PICK order : Orders(order)
        BY <1>1, OrdersAre
    <2>2. ~ InLayer
        BY <1>4 DEF InLayer, InCall
    <2>3. ASSUME NEW r \in Rows
          PROVE  Xor(Xor(temp[r], Seen(Source(r))), Input(order[rLayer][From(r)])) \subseteq UNION LocalLeaves
        <3>1. Source(r) = r /\ From(r) = r
            BY <2>2 DEF Source, From
        <3>2. Seen(r) = Input(r) /\ temp[r] = Zero
            BY <1>4 DEF Seen
        <3>3. order[rLayer][r] = r
            BY <1>4, <2>1 DEF Orders
        <3>4. \A v : Xor(Xor(Zero, v), v) = {}
            BY DEF Xor, Zero
        <3> QED BY <3>1, <3>2, <3>3, <3>4
    <2> QED BY <2>1, <2>3 DEF SharesInv, Shares
<1> QED BY <1>1, <1>2, <1>5, <1>6, <1>7, <1>8, <1>9, <1>10 DEF DataInv

(* Every step keeps both processes' data.                                  *)
LEMMA DataInvStep == FewTasks /\ DataInv /\ [Next]_vars => DataInv'
<1> SUFFICES ASSUME FewTasks, DataInv, [Next]_vars PROVE DataInv'
    OBVIOUS
<1>1. /\ ShapeOK /\ CallInv /\ Loops /\ Messages /\ Rebuilds /\ Message /\ Collected /\ Replaced
      /\ Vectors /\ SharesInv
    BY DEF DataInv, Sums
<1>2. UNCHANGED arguments /\ ShapeOK'
    BY <1>1, ArgumentsStay, Fixed
<1>3. CallInv'
    BY <1>1, CallStep
<1>4. Loops'
    BY <1>1, LoopsStep
<1>5. Messages'
    BY <1>1, MessagesStep
<1>6. Rebuilds'
    BY <1>1, RebuildsStep
<1>7. Message'
    BY <1>1, MessageStep
<1>8. Collected'
    BY <1>1, CollectedStep
<1>9. Replaced'
    BY <1>1, ReplacedStep
<1>10. Vectors'
    BY <1>1, VectorsStep
<1>11. SharesInv'
    <2>1. PICK order : Orders(order) /\ Shares(order)
        BY <1>1 DEF SharesInv
    <2>2. Orders(order)'
        BY <1>2, <2>1, OrdersStay
    <2>3. ASSUME UNCHANGED <<temp, inputs, chl, wire, rLayer, rPair>>, rPc' \in InCall <=> rPc \in InCall
          PROVE  Shares(order)'
        <3>1. InLayer' <=> InLayer
            BY <2>3 DEF InLayer
        <3> QED BY <1>2, <2>1, <2>3, <3>1, SharesKept
    <2>4. Shares(order)'
        <3>1. CASE Quiet
            BY <2>3, <3>1 DEF Quiet, InCall
        <3>2. CASE SCollect
            BY <2>3, <3>2 DEF SCollect, receiver
        <3>3. CASE RCollect \/ MeetMain
            BY <2>3, <3>3 DEF RCollect, MeetMain, sender, InCall
        <3>4. ASSUME NEW i, NEW k, MeetTasks(i, k) PROVE Shares(order)'
            BY <2>3, <3>4 DEF MeetTasks
        <3>5. CASE SReturn \/ SRecvBox
            BY <1>1, <2>1, <3>5, SharesSent
        <3>6. CASE RBegin \/ RSendBox
            BY <1>1, <2>1, <3>6, SharesPermuted
        <3>7. CASE RReturn
            BY <1>1, <2>1, <3>7, SharesReturned
        <3> QED BY <3>1, <3>2, <3>3, <3>4, <3>5, <3>6, <3>7, StepsAre
    <2> QED BY <2>2, <2>4 DEF SharesInv
<1> QED BY <1>2, <1>3, <1>4, <1>5, <1>6, <1>7, <1>8, <1>9, <1>10, <1>11 DEF DataInv, Sums

LEMMA DataInvariance == FewTasks => (Spec => []DataInv)
<1> SUFFICES ASSUME FewTasks PROVE Spec => []DataInv
    OBVIOUS
<1>1. Init => DataInv
    BY DataInvInit
<1>2. DataInv /\ [Next]_vars => DataInv'
    BY DataInvStep
<1> QED BY <1>1, <1>2, PTL DEF Spec

(* Both processes' steps, loops and vectors.                               *)
THEOREM ShuffleTyped == FewTasks => (Spec => []TypeOK)
<1> SUFFICES ASSUME FewTasks PROVE Spec => []TypeOK
    OBVIOUS
<1>1. DataInv => TypeOK
    <2> SUFFICES ASSUME DataInv PROVE TypeOK
        OBVIOUS
    <2>1. ShapeOK /\ CallInv /\ Loops /\ Messages /\ Vectors
        BY DEF DataInv
    <2>2. shape.layers \in Nat /\ Pairs \in Nat \ {0} /\ t \in Nat
        BY <2>1, ShapeFacts
    <2>3. /\ sPc \in {"connect", "layer", "enqueue", "collect", "main", "send", "done"}
          /\ sMet \subseteq 1 .. t
        BY <2>1, <2>2 DEF CallInv, SSide, Side, InCall, Sync
    <2>4. /\ rPc \in {"connect", "layer", "enqueue", "collect", "main", "recv", "done"}
          /\ DOMAIN trees \subseteq 1 .. t
        BY <2>1, <2>2 DEF CallInv, RSide, Side, InCall, Sync
    <2>5. /\ sLayer \in 0 .. shape.layers /\ sPair \in 0 .. Pairs - 1
          /\ rLayer \in 0 .. shape.layers /\ rPair \in 0 .. Pairs - 1
        BY <2>1 DEF Loops
    <2>6. Len(wire) <= 1
        <3>1. wire = << >> \/ wire = <<Head(wire)>>
            BY <2>1 DEF Messages
        <3>2. CASE wire = << >>
            <4>1. Len(wire) = 0
                BY <3>2
            <4> QED BY <4>1
        <3>3. CASE wire = <<Head(wire)>>
            <4> DEFINE m == Head(wire)
            <4>1. wire = <<m>>
                BY <3>3
            <4> HIDE DEF m
            <4>2. Len(wire) = 1
                BY <4>1
            <4> QED BY <4>2
        <3> QED BY <3>1, <3>2, <3>3
    <2>7. Len(chl) <= (shape.layers + 1) \div 2
        <3>1. CASE sLayer \div 2 = rLayer \div 2
            <4>1. chl = << >>
                BY <2>1, <3>1 DEF Messages
            <4>2. Len(chl) = 0
                BY <4>1
            <4> QED BY <2>2, <4>2
        <3>2. CASE sLayer \div 2 # rLayer \div 2
            <4> DEFINE m == pbox[sLayer \div 2]
            <4>1. chl = <<m>>
                BY <2>1, <3>2 DEF Messages
            <4> HIDE DEF m
            <4>2. Len(chl) = 1
                BY <4>1
            <4>3. sLayer \div 2 <= rLayer \div 2
                BY <2>1 DEF Messages
            <4>4. sLayer \in Nat /\ rLayer \in Nat /\ rLayer <= shape.layers
                BY <2>2, <2>5
            <4>5. rLayer \div 2 >= 1
                BY <3>2, <4>3, <4>4
            <4>6. rLayer >= 2
                BY <4>4, <4>5
            <4> QED BY <2>2, <4>2, <4>4, <4>6
        <3> QED BY <3>1, <3>2
    <2> QED BY <2>1, <2>3, <2>4, <2>5, <2>6, <2>7 DEF TypeOK, Vectors
<1> QED BY <1>1, DataInvariance, PTL

(* What the receiver's tasks rebuild is the sender's tree of their number  *)
(* but for the path to the leaf of their row.                              *)
THEOREM TreesPunctured == FewTasks => (Spec => []Punctured)
<1> SUFFICES ASSUME FewTasks PROVE Spec => []Punctured
    OBVIOUS
<1>1. DataInv => Punctured
    BY DEF DataInv, Rebuilds, Punctured, Without
<1> QED BY <1>1, DataInvariance, PTL

(* When both processes are done their vectors together are the permuted    *)
(* input, but for leaves of the trees of the sender's first loop.          *)
THEOREM SharesOfShuffle == FewTasks => (Spec => []SharesUpToLocal)
<1> SUFFICES ASSUME FewTasks PROVE Spec => []SharesUpToLocal
    OBVIOUS
<1>1. DataInv => SharesUpToLocal
    <2> SUFFICES ASSUME DataInv, sPc = "done", rPc = "done", NEW r \in Rows
                 PROVE  Xor(Xor(temp[r], inputs[r]), Input(Permutation[r])) \subseteq UNION LocalLeaves
        BY DEF SharesUpToLocal
    <2>1. PICK order : Orders(order) /\ Shares(order)
        BY DEF DataInv, SharesInv
    <2>2. sLayer = shape.layers /\ rLayer = shape.layers
        BY DEF DataInv, Loops
    <2>3. wire = << >> /\ chl = << >>
        BY <2>2 DEF DataInv, Messages
    <2>4. rPair = 0
        <3>1. shape.layers \in Nat
            BY ShapeFacts DEF DataInv
        <3> QED BY <2>2, <3>1 DEF DataInv, Loops, SwapLayer
    <2>5. Source(r) = r /\ From(r) = r
        BY <2>4 DEF Source, From, InLayer, InCall
    <2>6. Seen(r) = inputs[r]
        BY <2>3 DEF Seen
    <2>7. order[rLayer] = Permutation
        BY <2>1, <2>2 DEF Orders
    <2> QED BY <2>1, <2>5, <2>6, <2>7 DEF Shares
<1> QED BY <1>1, DataInvariance, PTL

-----------------------------------------------------------------------------
(* Pirana: the parameters.                                                 *)

(* The powers of two up to the largest degree of SEAL's polynomials.       *)
LEMMA PowersAre ==
    Powers = {1, 2, 4, 8, 16, 32, 64, 128, 256, 512, 1024, 2048, 4096, 8192, 16384, 32768}
<1>1. \A i \in 0 .. 15 : i \in {0, 1, 2, 3, 4, 5, 6, 7, 8, 9, 10, 11, 12, 13, 14, 15}
    OBVIOUS
<1>2. /\ 2^0 = 1 /\ 2^1 = 2 /\ 2^2 = 4 /\ 2^3 = 8 /\ 2^4 = 16 /\ 2^5 = 32 /\ 2^6 = 64
      /\ 2^7 = 128 /\ 2^8 = 256 /\ 2^9 = 512 /\ 2^10 = 1024 /\ 2^11 = 2048 /\ 2^12 = 4096
      /\ 2^13 = 8192 /\ 2^14 = 16384 /\ 2^15 = 32768
    OBVIOUS
<1> QED BY <1>1, <1>2 DEF Powers

(* Of two powers of two the smaller divides the larger, into a power of    *)
(* two.                                                                    *)
LEMMA PowersDivide ==
    ASSUME NEW x \in Powers, NEW y \in Powers, x <= y
    PROVE  y % x = 0 /\ y \div x \in Powers
BY PowersAre

(* The degree is an even power of two.                                     *)
LEMMA DegreeIs == N \in Powers /\ N \in Nat /\ N >= 2 /\ N = 2 * Half /\ Half \in Nat
<1>1. N \in Powers
    BY DegreeAssumption DEF Powers
<1>2. N # 1
    <2>1. /\ 2^1 # 1 /\ 2^2 # 1 /\ 2^3 # 1 /\ 2^4 # 1 /\ 2^5 # 1 /\ 2^6 # 1 /\ 2^7 # 1 /\ 2^8 # 1
          /\ 2^9 # 1 /\ 2^10 # 1 /\ 2^11 # 1 /\ 2^12 # 1 /\ 2^13 # 1 /\ 2^14 # 1 /\ 2^15 # 1
        OBVIOUS
    <2>2. \A i \in 1 .. 15 : i \in {1, 2, 3, 4, 5, 6, 7, 8, 9, 10, 11, 12, 13, 14, 15}
        OBVIOUS
    <2> QED BY <2>1, <2>2, DegreeAssumption
<1> QED BY <1>1, <1>2, PowersAre DEF Half

(* What Max and Min choose in a set of powers.                             *)
LEMMA MaxPower ==
    ASSUME NEW S \in SUBSET Powers, S # {}
    PROVE  Max(S) \in S /\ \A x \in S : Max(S) >= x
<1> DEFINE top == 32768
<1>1. top \in Int /\ \A x \in Powers : x \in Nat /\ x \in 1 .. top
    BY PowersAre
<1> HIDE DEF top
<1>2. IsFiniteSet(S)
    <2>1. IsFiniteSet(1 .. top)
        BY <1>1, FS_Interval
    <2>2. S \subseteq 1 .. top
        BY <1>1
    <2> QED BY <2>1, <2>2, FS_Subset
<1>3. S \in SUBSET Nat
    BY <1>1
<1>4. PICK k \in S : \A g \in S : g <= k
    BY <1>2, <1>3, LargestElement
<1>5. \A g \in S : k >= g
    BY <1>3, <1>4
<1> QED BY <1>5 DEF Max

(* The powers of two of a word go on beyond the degrees.                   *)
LEMMA WordPowersAre ==
    /\ WordPowers \in SUBSET Nat /\ Powers \subseteq WordPowers
    /\ \A y \in WordPowers : y \in Powers \/ y > 32768
    /\ 2^30 \in WordPowers
<1> DEFINE power(i) == 2^i
           Beyond(y) == y \in Nat /\ y > 32768
<1>1. \A i \in 0 .. 30 : i \in 0 .. 15 \/ i \in {16, 17, 18, 19, 20, 21, 22, 23, 24, 25, 26, 27, 28, 29, 30}
    OBVIOUS
<1>2. /\ Beyond(power(16)) /\ Beyond(power(17)) /\ Beyond(power(18)) /\ Beyond(power(19))
      /\ Beyond(power(20)) /\ Beyond(power(21)) /\ Beyond(power(22)) /\ Beyond(power(23))
      /\ Beyond(power(24)) /\ Beyond(power(25)) /\ Beyond(power(26)) /\ Beyond(power(27))
      /\ Beyond(power(28)) /\ Beyond(power(29)) /\ Beyond(power(30))
    BY SMT
<1>3. \A i \in 0 .. 30 : power(i) \in Powers \/ Beyond(power(i))
    <2>1. ASSUME NEW i \in 0 .. 15
          PROVE  power(i) \in Powers
        BY DEF Powers
    <2> HIDE DEF power, Beyond
    <2>2. ASSUME NEW i \in {16, 17, 18, 19, 20, 21, 22, 23, 24, 25, 26, 27, 28, 29, 30}
          PROVE  Beyond(power(i))
        BY <1>2
    <2> QED BY <1>1, <2>1, <2>2
<1>4. Powers \in SUBSET Nat
    BY PowersAre
<1>5. \A y \in WordPowers : y \in Nat /\ (y \in Powers \/ y > 32768)
    BY <1>3, <1>4 DEF WordPowers, power
<1>6. Powers \subseteq WordPowers
    <2>1. \A i \in 0 .. 15 : i \in 0 .. 30
        OBVIOUS
    <2> QED BY <2>1 DEF Powers, WordPowers
<1>7. 2^30 \in WordPowers
    <2> DEFINE top == 30
    <2>1. top \in 0 .. 30
        OBVIOUS
    <2> HIDE DEF top
    <2>2. 2^top \in WordPowers
        BY <2>1 DEF WordPowers
    <2> QED BY <2>2 DEF top
<1> QED BY <1>5, <1>6, <1>7

(* What NextPowerOf2 returns.                                              *)
LEMMA NextPowerIs ==
    ASSUME NEW x \in 1 .. 2^30
    PROVE  /\ NextPowerOf2(x) \in WordPowers /\ NextPowerOf2(x) >= x
           /\ \A y \in WordPowers : y >= x => NextPowerOf2(x) <= y
<1> DEFINE S == {y \in WordPowers : y >= x}
           top == 2^30
<1>1. top \in WordPowers /\ WordPowers \in SUBSET Nat
    BY WordPowersAre
<1>2. top \in Nat /\ x \in 1 .. top
    BY <1>1
<1> HIDE DEF top
<1>3. S \in SUBSET Nat /\ S # {}
    <2>1. top >= x
        BY <1>2
    <2>2. top \in S
        BY <1>1, <2>1
    <2> QED BY <1>1, <2>2
<1>4. Min(S) \in S /\ \A y \in S : Min(S) <= y
    <2> HIDE DEF S
    <2> QED BY <1>3, MinIs
<1>5. NextPowerOf2(x) = Min(S)
    BY DEF NextPowerOf2
<1> QED BY <1>4, <1>5

(* A power of two is its own NextPowerOf2.                                 *)
LEMMA PowerStays ==
    ASSUME NEW x \in Powers
    PROVE  NextPowerOf2(x) = x
<1> DEFINE S == {y \in WordPowers : y >= x}
<1>1. x \in WordPowers /\ \A y \in WordPowers : y \in Nat
    BY WordPowersAre
<1>2. x \in S /\ \A y \in S : x <= y
    BY <1>1
<1>3. \A y \in S : (\A z \in S : y <= z) => y = x
    BY <1>1
<1> HIDE DEF S
<1>4. Min(S) = x
    BY <1>2, <1>3 DEF Min
<1> QED BY <1>4 DEF NextPowerOf2, S

(* The doubling ends at a power of two no larger than the degree, and does *)
(* not end at 1 where the first doubling lowers the cost.                  *)
LEMMA RotatesChosen ==
    ASSUME NEW slots, NEW columns
    PROVE  LET r == ChooseRotateParms(slots, columns)
           IN  /\ r \in Powers /\ r <= N
               /\ RotationCost(slots, columns, 2) < RotationCost(slots, columns, 1) => r >= 2
<1> DEFINE Falls(q) == RotationCost(slots, columns, 2 * q) < RotationCost(slots, columns, q)
           S == {r \in Powers : r <= N /\ \A q \in Powers : q < r => Falls(q)}
<1>0. ChooseRotateParms(slots, columns) = Max(S)
    BY DEF ChooseRotateParms
<1>1. 1 \in S
    <2>1. \A q \in Powers : ~ (q < 1)
        BY PowersAre
    <2>2. 1 \in Powers /\ 1 <= N
        BY PowersAre, DegreeIs
    <2> HIDE DEF Falls
    <2> QED BY <2>1, <2>2
<1>2. Falls(1) => 2 \in S
    <2>1. \A q \in Powers : q < 2 => q = 1
        BY PowersAre
    <2>2. 2 \in Powers /\ 2 <= N
        BY PowersAre, DegreeIs
    <2> HIDE DEF Falls
    <2> QED BY <2>1, <2>2
<1>3. Falls(1) <=> RotationCost(slots, columns, 2) < RotationCost(slots, columns, 1)
    OBVIOUS
<1>4. S \in SUBSET Powers
    OBVIOUS
<1>5. \A r \in S : r <= N
    OBVIOUS
<1> HIDE DEF S, Falls
<1>6. Max(S) \in S /\ \A x \in S : Max(S) >= x
    BY <1>1, <1>4, MaxPower
<1> QED BY <1>0, <1>2, <1>3, <1>4, <1>5, <1>6

(* The first doubling lowers the cost where a rotation pays.               *)
LEMMA RotationSaves ==
    ASSUME NEW slots \in Int, NEW columns \in Int,
           (Least(N, slots) \div 2) * CeilDiv(slots, N) > columns
    PROVE  RotationCost(slots, columns, 2) < RotationCost(slots, columns, 1)
<1> DEFINE l == Least(N, slots)
           c == CeilDiv(slots, N)
<1>1. l \in Int /\ c \in Int
    BY DegreeIs DEF Least, CeilDiv
<1>2. CeilDiv(l, 1) = l /\ CeilDiv(l, 2) = l - (l \div 2) /\ l \div 2 \in Int
    BY <1>1 DEF CeilDiv
<1> DEFINE d == l \div 2
<1>3. /\ RotationCost(slots, columns, 1) = (l - 1) * c
      /\ RotationCost(slots, columns, 2) = columns + ((l - d) - 1) * c
    <2> HIDE DEF c, l, d
    <2>1. 0 * columns = 0 /\ 1 * columns = columns
        OBVIOUS
    <2>2. /\ RotationCost(slots, columns, 1) = ((1 - 1) * columns) + ((CeilDiv(l, 1) - 1) * c)
          /\ RotationCost(slots, columns, 2) = ((2 - 1) * columns) + ((CeilDiv(l, 2) - 1) * c)
        BY DEF RotationCost, c, l
    <2>3. CeilDiv(l, 1) = l /\ CeilDiv(l, 2) = l - d
        BY <1>2 DEF d
    <2>4. 1 - 1 = 0 /\ 2 - 1 = 1
        OBVIOUS
    <2>5. 0 + ((l - 1) * c) = (l - 1) * c
        BY <1>1
    <2> QED BY <2>1, <2>2, <2>3, <2>4, <2>5
<1>4. d * c > columns /\ d \in Int
    BY <1>2
<1> HIDE DEF d, c, l
<1>5. (l - 1) * c = ((l - d) - 1) * c + d * c
    BY <1>1, <1>4
<1>6. (l - 1) * c \in Int /\ ((l - d) - 1) * c \in Int /\ d * c \in Int
    BY <1>1, <1>4
<1> QED BY <1>3, <1>4, <1>5, <1>6

(* The parameters of one query for a database of a power of two below the  *)
(* degree: the rotations divide it and the database is repeated.           *)
LEMMA SmallDatabase ==
    ASSUME NEW payloads \in Powers, NEW bytes \in Nat, payloads <= Half
    PROVE  LET q == SingleParms(payloads, bytes)
           IN  N % q.preRotate = 0 /\ RepeatTime(q) # 1
<1> DEFINE q == SingleParms(payloads, bytes)
           slots == PayloadSlots(bytes, 31)
           columns == Columns(payloads)
           chosen == ChooseRotateParms(slots, columns)
           S == {chosen, N \div payloads}
<1>1. q.preRotate = Max(S) /\ q.n = NextPowerOf2(payloads)
    BY DEF SingleParms
<1>2. chosen \in Powers /\ chosen <= N
    BY RotatesChosen
<1>3. payloads \in Nat \ {0} /\ payloads <= N
    BY PowersAre, DegreeIs
<1>4. N \div payloads \in Powers
    BY <1>3, DegreeIs, PowersDivide
<1>5. N \div payloads <= N /\ N \div payloads >= 2
    <2>0. N \in Int
        BY DegreeIs
    <2>1. /\ N = payloads * (N \div payloads) + (N % payloads)
          /\ N % payloads \in 0 .. payloads - 1
          /\ N \div payloads \in Int
        BY <1>3, <2>0, DivMod
    <2>2. N \div payloads \in 0 .. N
        BY <1>3, DegreeIs, QuotientBound
    <2>3. CASE N \div payloads = 0
        BY <2>1, <2>3, <1>3, DegreeIs
    <2>4. CASE N \div payloads = 1
        BY <2>1, <2>4, <1>3, DegreeIs
    <2> QED BY <2>1, <2>2, <2>3, <2>4, DegreeIs
<1> HIDE DEF q, chosen
<1>6. S \in SUBSET Powers /\ S # {} /\ \A x \in S : x <= N
    BY <1>2, <1>4, <1>5
<1>7. Max(S) \in Powers /\ Max(S) <= N
    <2> HIDE DEF S
    <2> QED BY <1>6, MaxPower
<1>8. N % q.preRotate = 0
    BY <1>1, <1>7, DegreeIs, PowersDivide
<1>9. RepeatTime(q) # 1
    <2>1. q.n = payloads
        BY <1>1, PowerStays
    <2> QED BY <1>3, <1>5, <2>1, DegreeIs DEF RepeatTime
<1> QED BY <1>8, <1>9 DEF q

(* And for a larger one where a rotation pays: there is more than one.     *)
LEMMA LargeDatabase ==
    ASSUME NEW payloads \in Nat \ {0}, NEW bytes \in Nat, payloads > Half,
           (Least(N, PayloadSlots(bytes, 31)) \div 2) * CeilDiv(PayloadSlots(bytes, 31), N)
             > CeilDiv(payloads, N)
    PROVE  LET q == SingleParms(payloads, bytes)
           IN  N % q.preRotate = 0 /\ q.preRotate # 1
<1> DEFINE q == SingleParms(payloads, bytes)
           slots == PayloadSlots(bytes, 31)
           columns == Columns(payloads)
           chosen == ChooseRotateParms(slots, columns)
           S == {chosen, N \div payloads}
<1>1. q.preRotate = Max(S)
    BY DEF SingleParms
<1>2. slots \in Int /\ columns \in Int
    BY DegreeIs DEF PayloadSlots, Columns, CeilDiv
<1>3. RotationCost(slots, columns, 2) < RotationCost(slots, columns, 1)
    <2> HIDE DEF slots, columns
    <2>1. (Least(N, slots) \div 2) * CeilDiv(slots, N) > columns
        BY DEF slots, columns, Columns
    <2> QED BY <1>2, <2>1, RotationSaves
<1>4. chosen \in Powers /\ chosen <= N /\ chosen >= 2
    BY <1>3, RotatesChosen
<1>5. N \div payloads \in {0, 1}
    <2>0. N \in Int
        BY DegreeIs
    <2>1. /\ N = payloads * (N \div payloads) + (N % payloads)
          /\ N % payloads \in 0 .. payloads - 1
        BY <2>0, DivMod
    <2>2. N \div payloads \in 0 .. N
        BY DegreeIs, QuotientBound
    <2> DEFINE d == N \div payloads
    <2>3. CASE d >= 2
        <3>1. payloads * d >= payloads * 2
            <4> HIDE DEF d
            <4> QED BY <2>2, <2>3 DEF d
        <3> QED BY <2>1, <3>1, DegreeIs
    <2> QED BY <2>2, <2>3, DegreeIs
<1> HIDE DEF q, chosen
<1>6. Max(S) = chosen
    <2>1. \A x \in S : chosen >= x
        BY <1>4, <1>5, PowersAre
    <2>2. \A z \in S : (\A x \in S : z >= x) => z = chosen
        BY <1>4, <1>5, PowersAre
    <2>3. chosen \in S
        OBVIOUS
    <2> HIDE DEF S
    <2> QED BY <2>1, <2>2, <2>3 DEF Max
<1>7. N % q.preRotate = 0 /\ q.preRotate # 1
    BY <1>1, <1>4, <1>6, DegreeIs, PowersDivide, PowersAre
<1> QED BY <1>7 DEF q

-----------------------------------------------------------------------------
(* Pirana: the cuckoo table.                                               *)

(* A client of batches asks for items of the database, and one at a time   *)
(* is on its way into the table.                                           *)
ItemsKnown ==
    /\ job.payloads \in Nat
    /\ todo \in Seq(Nat) /\ \A k \in 1 .. Len(todo) : todo[k] < job.payloads
    /\ \A x \in homeless : x \in Nat /\ x < job.payloads
    /\ \A x, y \in homeless : x = y

\* The part of the type that the cuckoo table is about.
TableRight ==
    \A l \in DOMAIN table :
        /\ table[l] \in Nat /\ table[l] < job.payloads
        /\ l \in Locations[table[l]]
        /\ table[l] \notin homeless
        /\ \A x \in DOMAIN table : table[x] = table[l] => x = l

Bits == \A i \in DOMAIN query : \A pos \in Slots : query[i][pos] \in {0, 1}

TableInv ==
    /\ pc \in {"start", "ready", "fault", "insert", "asked", "answered"}
    /\ probes \in 0 .. MaxProbe
    /\ ItemsKnown /\ TableRight /\ Bits

(* Queries are zeros and ones.                                             *)
LEMMA QueryBits ==
    /\ \A q, index : \A i \in DOMAIN GenQuery(q, index) :
          \A pos \in Slots : GenQuery(q, index)[i][pos] \in {0, 1}
    /\ \A q, locations, keys : \A i \in DOMAIN GenBatchQuery(q, locations, keys) :
          \A pos \in Slots : GenBatchQuery(q, locations, keys)[i][pos] \in {0, 1}
<1>1. ASSUME NEW q, NEW index, NEW i \in DOMAIN GenQuery(q, index), NEW pos \in Slots
      PROVE  GenQuery(q, index)[i][pos] \in {0, 1}
    <2>1. CASE q.n < N
        BY <2>1 DEF GenQuery
    <2>2. CASE ~ (q.n < N)
        BY <2>2 DEF GenQuery
    <2> QED BY <2>1, <2>2
<1>2. ASSUME NEW q, NEW locations, NEW keys, NEW i \in DOMAIN GenBatchQuery(q, locations, keys),
             NEW pos \in Slots
      PROVE  GenBatchQuery(q, locations, keys)[i][pos] \in {0, 1}
    BY DEF GenBatchQuery
<1> QED BY <1>1, <1>2

(* What happens to the table when an item takes a place.                   *)
LEMMA TakesPlace ==
    ASSUME TableInv, NEW q \in homeless, NEW l \in Locations[q],
           table' = With(l, q), UNCHANGED <<job, p, hash>>,
           \/ l \notin DOMAIN table /\ homeless' = {}
           \/ l \in DOMAIN table /\ homeless' = {table[l]}
    PROVE  TableRight'
<1>1. /\ DOMAIN table' = DOMAIN table \cup {l} /\ table'[l] = q
      /\ \A x \in DOMAIN table : x # l => table'[x] = table[x]
    BY DEF With
<1>2. Locations' = Locations
    BY DEF Locations
<1>3. \A x \in DOMAIN table : table[x] # q
    BY DEF TableInv, TableRight
<1>4. q \in Nat /\ q < job.payloads
    BY DEF TableInv, ItemsKnown
<1>5. ASSUME NEW x \in DOMAIN table'
      PROVE  /\ table'[x] \in Nat /\ table'[x] < job'.payloads
             /\ x \in Locations'[table'[x]]
             /\ table'[x] \notin homeless'
             /\ \A y \in DOMAIN table' : table'[y] = table'[x] => y = x
    <2>1. CASE x = l
        BY <2>1, <1>1, <1>2, <1>3, <1>4
    <2>2. CASE x # l
        <3>1. x \in DOMAIN table /\ table'[x] = table[x]
            BY <2>2, <1>1
        <3>2. \A y \in DOMAIN table : table[y] = table[x] => y = x
            BY <3>1 DEF TableInv, TableRight
        <3>3. table'[x] \notin homeless'
            BY <2>2, <3>1, <3>2
        <3>4. \A y \in DOMAIN table' : table'[y] = table'[x] => y = x
            BY <1>1, <1>3, <3>1, <3>2
        <3> QED BY <1>2, <3>1, <3>3, <3>4 DEF TableInv, TableRight
    <2> QED BY <2>1, <2>2
<1> QED BY <1>5 DEF TableRight

(* The table is empty at first.                                            *)
LEMMA TableInvInit == PiranaInit => TableInv
<1> SUFFICES ASSUME PiranaInit PROVE TableInv
    OBVIOUS
<1>1. job.payloads \in Nat
    BY PiranaAssumption DEF PiranaInit
<1>2. ItemsKnown
    BY <1>1 DEF PiranaInit, ItemsKnown
<1>3. DOMAIN table = {} /\ DOMAIN query = {}
    BY DEF PiranaInit
<1> QED BY <1>2, <1>3, PiranaAssumption DEF PiranaInit, TableInv, TableRight, Bits

(* Every step keeps the table sound.                                       *)
LEMMA TableInvStep == TableInv /\ [PiranaNext]_piranaVars => TableInv'
<1> SUFFICES ASSUME TableInv, [PiranaNext]_piranaVars PROVE TableInv'
    OBVIOUS
<1> USE DEF TableInv
<1>c. UNCHANGED <<job, p, hash>> => Locations' = Locations
    BY DEF Locations
<1>t. ASSUME UNCHANGED <<job, p, hash, table, homeless>>
      PROVE  TableRight'
    BY <1>t, <1>c DEF TableRight
<1>i. ASSUME UNCHANGED <<job, todo, homeless>>
      PROVE  ItemsKnown'
    BY <1>i DEF ItemsKnown
<1>b. ASSUME UNCHANGED query
      PROVE  Bits'
    BY <1>b DEF Bits
<1>1. CASE Server \/ SingleResponse \/ BatchResponse
    BY <1>1, <1>t, <1>i, <1>b DEF Server, SingleResponse, BatchResponse, cuckoo
<1>2. ASSUME NEW index, SingleQuery(index)
      PROVE  TableInv'
    <2>1. Bits'
        BY <1>2, QueryBits DEF SingleQuery, Bits
    <2> QED BY <1>2, <2>1, <1>t, <1>i DEF SingleQuery, cuckoo
<1>3. ASSUME NEW items \in Batches, BeginBatch(items)
      PROVE  TableInv'
    <2>1. items \in Seq(Nat) /\ todo' = items /\ DOMAIN items = 1 .. Len(items)
        BY <1>3, PiranaAssumption DEF BeginBatch
    <2>2. ItemsKnown'
        BY <1>3, <2>1 DEF BeginBatch, ItemsKnown
    <2> QED BY <1>3, <2>2, <1>t, <1>b DEF BeginBatch
<1>4. CASE Insert
    <2>1. todo # << >> /\ todo \in Seq(Nat) /\ homeless = {}
        BY <1>4 DEF Insert, ItemsKnown
    <2>2. /\ Head(todo) = todo[1] /\ 1 \in 1 .. Len(todo) /\ Head(todo) \in Nat
          /\ Tail(todo) \in Seq(Nat) /\ Len(Tail(todo)) = Len(todo) - 1 /\ Len(todo) \in Nat
          /\ \A k \in 1 .. Len(Tail(todo)) : Tail(todo)[k] = todo[k + 1]
        BY <2>1, HeadTailProperties, LenProperties
    <2>3. homeless' \subseteq {Head(todo)} /\ \A x \in homeless' : ~ InTable(x)
        BY <1>4 DEF Insert, New
    <2>4. ItemsKnown'
        <3>1. /\ todo' = Tail(todo) /\ job' = job
            BY <1>4 DEF Insert
        <3>2. \A k \in 1 .. Len(Tail(todo)) : k + 1 \in 1 .. Len(todo)
            BY <2>2
        <3>3. \A k \in 1 .. Len(Tail(todo)) : Tail(todo)[k] < job.payloads
            BY <2>2, <3>2 DEF ItemsKnown
        <3> QED BY <2>2, <2>3, <3>1, <3>3 DEF ItemsKnown
    <2>5. TableRight'
        BY <1>4, <1>c, <2>3 DEF Insert, TableRight, InTable
    <2>6. probes' = 0 /\ pc' = pc /\ query' = query
        BY <1>4 DEF Insert
    <2> QED BY <2>4, <2>5, <2>6, <1>b, PiranaAssumption
<1>5. ASSUME NEW l, Settle(l)
      PROVE  TableInv'
    <2>1. PICK q \in homeless : l \in FreePlaces(q) /\ table' = With(l, q)
        BY <1>5 DEF Settle
    <2>2. TableRight'
        BY <1>5, <2>1, TakesPlace DEF Settle, FreePlaces
    <2>3. ItemsKnown'
        BY <1>5 DEF Settle, ItemsKnown
    <2> QED BY <1>5, <2>2, <2>3, <1>b DEF Settle
<1>6. ASSUME NEW l, Kick(l)
      PROVE  TableInv'
    <2>1. PICK q \in homeless : FreePlaces(q) = {} /\ l \in Locations[q] /\ table' = With(l, q)
        BY <1>6 DEF Kick
    <2>2. l \in DOMAIN table
        BY <2>1 DEF FreePlaces
    <2>3. TableRight'
        BY <1>6, <2>1, <2>2, TakesPlace DEF Kick
    <2>4. ItemsKnown'
        BY <1>6, <2>2 DEF Kick, ItemsKnown, TableRight
    <2>5. probes' \in 0 .. MaxProbe
        BY <1>6, PiranaAssumption DEF Kick
    <2> QED BY <1>6, <2>3, <2>4, <2>5, <1>b DEF Kick
<1>7. CASE LeaveOut
    <2>1. TableRight' /\ ItemsKnown'
        BY <1>7, <1>c DEF LeaveOut, TableRight, ItemsKnown
    <2> QED BY <1>7, <2>1, <1>b DEF LeaveOut
<1>8. CASE BatchQuery
    <2>1. Bits'
        BY <1>8, QueryBits DEF BatchQuery, Bits
    <2> QED BY <1>8, <2>1, <1>t, <1>i DEF BatchQuery, cuckoo
<1>9. CASE Again
    <2>1. Bits'
        BY <1>9 DEF Again, Bits
    <2> QED BY <1>9, <2>1, <1>t, <1>i DEF Again, cuckoo
<1>10. CASE UNCHANGED piranaVars
    BY <1>10, <1>t, <1>i, <1>b DEF piranaVars, cuckoo
<1> QED BY <1>1, <1>2, <1>3, <1>4, <1>5, <1>6, <1>7, <1>8, <1>9, <1>10 DEF PiranaNext

(* The table of every client and server is sound, whatever is asked for    *)
(* and however often an item is turned out of its place.                   *)
THEOREM PiranaTyped == PiranaSpec => []PiranaTypeOK
<1>1. TableInv => PiranaTypeOK
    <2> SUFFICES ASSUME TableInv PROVE PiranaTypeOK
        OBVIOUS
    <2>1. Cardinality(homeless) <= 1
        <3>1. CASE homeless = {}
            BY <3>1, FS_EmptySet
        <3>2. ASSUME NEW x \in homeless
              PROVE  Cardinality(homeless) = 1
            <4>1. homeless = {x}
                BY DEF TableInv, ItemsKnown
            <4> QED BY <4>1, FS_Singleton
        <3> QED BY <3>1, <3>2
    <2>2. \A l \in DOMAIN table : table[l] \in 0 .. job.payloads - 1
        BY DEF TableInv, TableRight, ItemsKnown
    <2> QED BY <2>1, <2>2 DEF TableInv, TableRight, Bits, PiranaTypeOK
<1> QED BY <1>1, TableInvInit, TableInvStep, PTL DEF PiranaSpec

(* A fault is one of the two the parameters of a single query can cause.   *)
FaultInv ==
    /\ pc = "fault" => Faulty
    /\ job.kind = "single" =>
          \E s \in Singles : job.payloads = s.payloads /\ p = SingleParms(s.payloads, s.bytes)

(* No step changes the parameters, and only the constructors fault.        *)
LEMMA FaultInvStep == FaultInv /\ [PiranaNext]_piranaVars => FaultInv'
<1> SUFFICES ASSUME FaultInv, [PiranaNext]_piranaVars PROVE FaultInv'
    OBVIOUS
<1>1. job' = job /\ p' = p
    BY DEF PiranaNext, Server, SingleQuery, SingleResponse, BeginBatch, Insert, LeaveOut,
           BatchQuery, BatchResponse, Again, Settle, Kick, piranaVars, cuckoo
<1>2. pc' = "fault" => pc = "fault" \/ Faulty
    BY DEF PiranaNext, Server, SingleQuery, SingleResponse, BeginBatch, Insert, LeaveOut,
           BatchQuery, BatchResponse, Again, Settle, Kick, piranaVars, cuckoo
<1>3. Faulty' = Faulty
    BY <1>1 DEF Faulty, RepeatTime
<1> QED BY <1>1, <1>2, <1>3 DEF FaultInv

(* PirParms and Server are constructed for every supported database.       *)
THEOREM SupportedAreServed == PiranaSpec => []SupportedNeverFaults
<1>1. PiranaInit => FaultInv
    BY DEF PiranaInit, FaultInv
<1>2. FaultInv => SupportedNeverFaults
    <2> SUFFICES ASSUME FaultInv, job.kind = "single",
                        job.payloads <= Half => job.payloads \in Powers,
                        job.payloads > Half => RotationsPay
                 PROVE  ~ Faulty
        BY DEF SupportedNeverFaults, FaultInv
    <2>1. PICK s \in Singles : job.payloads = s.payloads /\ p = SingleParms(s.payloads, s.bytes)
        BY DEF FaultInv
    <2>2. s.payloads \in Nat \ {0} /\ s.bytes \in Nat
        BY PiranaAssumption
    <2>3. CASE s.payloads <= Half
        <3>1. N % p.preRotate = 0 /\ RepeatTime(p) # 1
            BY <2>1, <2>2, <2>3, SmallDatabase
        <3> QED BY <3>1 DEF Faulty
    <2>4. CASE s.payloads > Half
        <3>1. p.slots = PayloadSlots(s.bytes, 31)
            BY <2>1 DEF SingleParms
        <3>2. N % p.preRotate = 0 /\ p.preRotate # 1
            BY <2>1, <2>2, <2>4, <3>1, LargeDatabase DEF RotationsPay
        <3> QED BY <3>2 DEF Faulty
    <2> QED BY <2>2, <2>3, <2>4, DegreeIs
<1> QED BY <1>1, <1>2, FaultInvStep, PTL DEF PiranaSpec

-----------------------------------------------------------------------------
(* Pirana: pairs of code positions.                                        *)

(* The number of pairs below a position.                                   *)
LEMMA ChooseIs ==
    /\ \A n \in Nat : Choose(n, 1) = n
    /\ Choose(0, 2) = 0
    /\ \A n \in Nat : Choose(n, 2) \in Nat /\ Choose(n + 1, 2) = Choose(n, 2) + n
<1> DEFINE Rec(n, k, r) == r = [d \in 0 .. k |-> IF d = 0 THEN 1
                                                 ELSE (r[d - 1] * ((n - d) + 1)) \div d]
<1>1. \A n, k : Choose(n, k) = IF k > n THEN 0 ELSE (CHOOSE r : Rec(n, k, r))[k]
    BY DEF Choose
<1>2. ASSUME NEW n \in Nat, NEW k \in Nat, NEW w, Rec(n, k, w)
      PROVE  Rec(n, k, CHOOSE r : Rec(n, k, r))
    BY <1>2
<1>3. ASSUME NEW n \in Nat
      PROVE  Choose(n, 1) = n
    <2> DEFINE w == [d \in 0 .. 1 |-> IF d = 0 THEN 1 ELSE n]
               c == CHOOSE r : Rec(n, 1, r)
    <2>0. n \div 1 = n
        <3>1. n = 1 * n + 0
            OBVIOUS
        <3> QED BY <3>1, DivUnique
    <2>1. Rec(n, 1, w)
        <3>1. 0 .. 1 = {0, 1}
            OBVIOUS
        <3>2. 1 * ((n - 1) + 1) = n
            OBVIOUS
        <3>3. (w[1 - 1] * ((n - 1) + 1)) \div 1 = n
            BY <2>0, <3>2
        <3> QED BY <3>1, <3>3
    <2>2. Rec(n, 1, c)
        BY <2>1, <1>2
    <2> HIDE DEF c
    <2>3. c[0] = 1 /\ c[1] = (c[1 - 1] * ((n - 1) + 1)) \div 1
        <3>1. 0 \in 0 .. 1 /\ 1 \in 0 .. 1 /\ 1 # 0
            OBVIOUS
        <3> QED BY <2>2, <3>1
    <2>4. c[1] = n
        <3>1. c[1 - 1] * ((n - 1) + 1) = n
            BY <2>3
        <3> QED BY <2>0, <2>3, <3>1
    <2>5. ~ (1 > n) \/ n = 0
        OBVIOUS
    <2>6. Choose(n, 1) = IF 1 > n THEN 0 ELSE c[1]
        BY <1>1 DEF c
    <2> QED BY <2>4, <2>5, <2>6
<1>4. ASSUME NEW n \in Nat
      PROVE  Choose(n, 2) = IF 2 > n THEN 0 ELSE (n * (n - 1)) \div 2
    <2> DEFINE w == [d \in 0 .. 2 |-> IF d = 0 THEN 1 ELSE IF d = 1 THEN n ELSE (n * (n - 1)) \div 2]
               c == CHOOSE r : Rec(n, 2, r)
    <2>0. n \div 1 = n
        <3>1. n = 1 * n + 0
            OBVIOUS
        <3> QED BY <3>1, DivUnique
    <2>1. Rec(n, 2, w)
        <3>1. 0 .. 2 = {0, 1, 2}
            OBVIOUS
        <3>2. 1 * ((n - 1) + 1) = n /\ (n - 2) + 1 = n - 1
            OBVIOUS
        <3>3. (w[1 - 1] * ((n - 1) + 1)) \div 1 = n
            BY <2>0, <3>2
        <3>4. (w[2 - 1] * ((n - 2) + 1)) \div 2 = (n * (n - 1)) \div 2
            BY <3>2
        <3> QED BY <3>1, <3>3, <3>4
    <2>2. Rec(n, 2, c)
        BY <2>1, <1>2
    <2> HIDE DEF c
    <2>3. /\ c[0] = 1 /\ c[1] = (c[1 - 1] * ((n - 1) + 1)) \div 1
          /\ c[2] = (c[2 - 1] * ((n - 2) + 1)) \div 2
        <3>1. 0 \in 0 .. 2 /\ 1 \in 0 .. 2 /\ 2 \in 0 .. 2 /\ 1 # 0 /\ 2 # 0
            OBVIOUS
        <3> QED BY <2>2, <3>1
    <2>4. c[1] = n
        <3>1. c[1 - 1] * ((n - 1) + 1) = n
            BY <2>3
        <3> QED BY <2>0, <2>3, <3>1
    <2>5. c[2] = (n * (n - 1)) \div 2
        <3>1. c[2 - 1] = n /\ (n - 2) + 1 = n - 1
            BY <2>4
        <3> QED BY <2>3, <3>1
    <2> QED BY <1>1, <2>5 DEF c
<1>5. \A n \in Nat : \E top \in Nat : n * (n - 1) = 2 * top
    <2> SUFFICES ASSUME NEW n \in Nat PROVE \E top \in Nat : n * (n - 1) = 2 * top
        OBVIOUS
    <2> DEFINE S == {k \in Nat : \E top \in Nat : k * (k - 1) = 2 * top}
    <2>1. 0 \in S
        OBVIOUS
    <2>2. ASSUME NEW k \in 0 .. n - 1, k \in S PROVE k + 1 \in S
        <3>1. PICK top \in Nat : k * (k - 1) = 2 * top
            BY <2>2
        <3>2. (k + 1) * ((k + 1) - 1) = 2 * (top + k)
            BY <3>1
        <3>3. top + k \in Nat /\ k + 1 \in Nat
            OBVIOUS
        <3>4. \E u \in Nat : (k + 1) * ((k + 1) - 1) = 2 * u
            BY <3>2, <3>3
        <3> QED BY <3>3, <3>4
    <2> HIDE DEF S
    <2>3. \A k \in 0 .. n : k \in S
        BY <2>1, <2>2, InductionUpTo
    <2> QED BY <2>3 DEF S
<1>6. ASSUME NEW n \in Nat, NEW top \in Nat, n * (n - 1) = 2 * top
      PROVE  Choose(n, 2) = top
    <2>1. (n * (n - 1)) \div 2 = top
        <3>1. n * (n - 1) = 2 * top + 0 /\ n * (n - 1) \in Int
            BY <1>6
        <3> QED BY <3>1, DivUnique
    <2>2. CASE 2 > n
        <3>1. n \in {0, 1}
            BY <2>2
        <3>2. top = 0
            BY <3>1, <1>6
        <3> QED BY <3>2, <2>2, <1>4
    <2> QED BY <2>1, <2>2, <1>4
<1>7. ASSUME NEW n \in Nat
      PROVE  Choose(n, 2) \in Nat /\ Choose(n + 1, 2) = Choose(n, 2) + n
    <2>1. PICK top \in Nat : n * (n - 1) = 2 * top
        BY <1>5
    <2>2. (n + 1) * ((n + 1) - 1) = 2 * (top + n)
        BY <2>1
    <2>3. Choose(n, 2) = top
        BY <2>1, <1>6
    <2>4. Choose(n + 1, 2) = top + n
        BY <2>2, <1>6
    <2> QED BY <2>3, <2>4
<1>8. Choose(0, 2) = 0
    BY <1>6
<1> QED BY <1>3, <1>7, <1>8

(* More positions have more pairs below them.                              *)
LEMMA ChooseGrows ==
    ASSUME NEW m \in Nat, NEW n \in Nat, m <= n
    PROVE  Choose(m, 2) <= Choose(n, 2)
<1> DEFINE S == {k \in Nat : Choose(m, 2) <= Choose(m + k, 2)}
<1>1. 0 \in S
    BY ChooseIs
<1>2. ASSUME NEW k \in 0 .. (n - m) - 1, k \in S PROVE k + 1 \in S
    <2>1. /\ Choose(m, 2) \in Nat /\ Choose(m + k, 2) \in Nat
          /\ Choose((m + k) + 1, 2) = Choose(m + k, 2) + (m + k)
        BY ChooseIs
    <2>2. (m + k) + 1 = m + (k + 1)
        OBVIOUS
    <2> QED BY <1>2, <2>1, <2>2
<1> HIDE DEF S
<1>3. n - m \in Nat
    OBVIOUS
<1>4. n - m \in S
    BY <1>1, <1>2, <1>3, InductionUpTo
<1>5. m + (n - m) = n
    OBVIOUS
<1> QED BY <1>4, <1>5 DEF S

\* b is below a and the pair of them is number c.
Numbers(c, hi, lo) == hi \in Nat /\ lo \in 0 .. hi - 1 /\ c = Choose(hi, 2) + lo

(* Every number has a pair.                                                *)
LEMMA PairExists ==
    ASSUME NEW c \in Nat
    PROVE  \E hi \in 1 .. c + 1 : \E lo \in 0 .. hi - 1 : Numbers(c, hi, lo)
<1> DEFINE S == {k \in Nat : \E hi \in 1 .. k + 1 : \E lo \in 0 .. hi - 1 : Numbers(k, hi, lo)}
<1>1. 0 \in S
    <2>1. Choose(0 + 1, 2) = 0 + 0
        BY ChooseIs
    <2>2. Numbers(0, 1, 0)
        BY <2>1 DEF Numbers
    <2> QED BY <2>2
<1>2. ASSUME NEW k \in 0 .. c - 1, k \in S PROVE k + 1 \in S
    <2>1. PICK hi \in 1 .. k + 1 : \E lo \in 0 .. hi - 1 : Numbers(k, hi, lo)
        BY <1>2
    <2>0. PICK lo \in 0 .. hi - 1 : Numbers(k, hi, lo)
        BY <2>1
    <2>2. /\ hi \in Nat /\ k = Choose(hi, 2) + lo /\ Choose(hi, 2) \in Nat
          /\ Choose(hi + 1, 2) = Choose(hi, 2) + hi
        BY <2>0, ChooseIs DEF Numbers
    <2>3. CASE lo < hi - 1
        <3>1. Numbers(k + 1, hi, lo + 1) /\ hi \in 1 .. (k + 1) + 1 /\ lo + 1 \in 0 .. hi - 1
            BY <2>2, <2>3 DEF Numbers
        <3> QED BY <3>1
    <2>4. CASE ~ (lo < hi - 1)
        <3>1. Numbers(k + 1, hi + 1, 0) /\ hi + 1 \in 1 .. (k + 1) + 1 /\ 0 \in 0 .. (hi + 1) - 1
            BY <2>2, <2>4 DEF Numbers
        <3> QED BY <3>1
    <2> QED BY <2>3, <2>4
<1> HIDE DEF S
<1>3. c \in S
    BY <1>1, <1>2, InductionUpTo
<1> QED BY <1>3 DEF S

(* And one only.                                                           *)
LEMMA PairUnique ==
    ASSUME NEW c, NEW hi, NEW lo, NEW x, NEW y, Numbers(c, hi, lo), Numbers(c, x, y)
    PROVE  hi = x /\ lo = y
<1>1. ASSUME NEW u, NEW v, NEW s, NEW top, Numbers(c, u, v), Numbers(c, s, top), u < s
      PROVE  FALSE
    <2>1. u \in Nat /\ s \in Nat /\ v \in 0 .. u - 1 /\ top \in 0 .. s - 1
          /\ c = Choose(u, 2) + v /\ c = Choose(s, 2) + top
        BY <1>1 DEF Numbers
    <2>2. Choose(u + 1, 2) = Choose(u, 2) + u /\ Choose(u, 2) \in Nat /\ Choose(s, 2) \in Nat
        BY <2>1, ChooseIs
    <2>3. Choose(u + 1, 2) <= Choose(s, 2)
        <3>1. u + 1 \in Nat /\ u + 1 <= s
            BY <2>1, <1>1
        <3> QED BY <2>1, <3>1, ChooseGrows
    <2> QED BY <2>1, <2>2, <2>3
<1>2. hi \in Nat /\ x \in Nat
    BY DEF Numbers
<1>3. hi = x
    BY <1>1, <1>2
<1>4. lo \in Int /\ y \in Int /\ Choose(hi, 2) \in Nat /\ c = Choose(hi, 2) + lo /\ c = Choose(hi, 2) + y
    BY <1>2, <1>3, ChooseIs DEF Numbers
<1> QED BY <1>3, <1>4

\* The pairs that come before one in the order of the two loops.
Before(hi, lo, c) ==
    {x \in (0 .. hi) \X (0 .. c) : x[2] < x[1] /\ (x[1] = hi => x[2] < lo)}

(* As many as its number says.                                             *)
LEMMA BeforeCount ==
    ASSUME NEW c \in Nat, NEW hi \in 0 .. c + 1, NEW lo \in 0 .. hi, lo <= c
    PROVE  IsFiniteSet(Before(hi, lo, c)) /\ Cardinality(Before(hi, lo, c)) = Choose(hi, 2) + lo
<1> DEFINE Good(k, j) == /\ IsFiniteSet(Before(k, j, c))
                         /\ Cardinality(Before(k, j, c)) = Choose(k, 2) + j
<1>1. Good(0, 0)
    <2>1. Before(0, 0, c) = {}
        BY DEF Before
    <2>2. IsFiniteSet({}) /\ Cardinality({}) = 0
        BY FS_EmptySet
    <2>3. Choose(0, 2) = 0
        BY ChooseIs
    <2> QED BY <2>1, <2>2, <2>3
<1>2. ASSUME NEW k \in Nat, NEW j \in Nat, j < k, j <= c, Good(k, j)
      PROVE  Good(k, j + 1)
    <2> DEFINE top == <<k, j>>
    <2>1. top \in (0 .. k) \X (0 .. c) /\ top[1] = k /\ top[2] = j
        BY <1>2
    <2>2. \A x \in (0 .. k) \X (0 .. c) : x[1] = k /\ x[2] = j => x = top
        OBVIOUS
    <2>3. \A x \in (0 .. k) \X (0 .. c) : x[1] \in Int /\ x[2] \in Int
        OBVIOUS
    <2> HIDE DEF top
    <2>4. Before(k, j + 1, c) = Before(k, j, c) \cup {top}
        BY <1>2, <2>1, <2>2, <2>3 DEF Before
    <2>5. top \notin Before(k, j, c)
        BY <2>1 DEF Before
    <2>6. /\ IsFiniteSet(Before(k, j, c) \cup {top})
          /\ Cardinality(Before(k, j, c) \cup {top}) = Cardinality(Before(k, j, c)) + 1
        BY <1>2, <2>5, FS_AddElement
    <2>7. Choose(k, 2) \in Nat
        BY ChooseIs
    <2> QED BY <1>2, <2>4, <2>6, <2>7
<1>3. ASSUME NEW k \in Nat, NEW j \in 0 .. k, j <= c + 1, Good(k, 0)
      PROVE  Good(k, j)
    <2> DEFINE S == {i \in Nat : Good(k, i)}
    <2>1. 0 \in S
        BY <1>3
    <2>2. ASSUME NEW i \in 0 .. j - 1, i \in S PROVE i + 1 \in S
        BY <2>2, <1>2, <1>3
    <2> HIDE DEF S
    <2>3. j \in S
        BY <2>1, <2>2, InductionUpTo
    <2> QED BY <2>3 DEF S
<1>4. ASSUME NEW k \in Nat, k <= c, Good(k, 0)
      PROVE  Good(k + 1, 0)
    <2>1. Good(k, k)
        BY <1>3, <1>4
    <2>2. Before(k + 1, 0, c) = Before(k, k, c)
        <3>1. \A x \in (0 .. k) \X (0 .. c) : /\ x \in (0 .. k + 1) \X (0 .. c) /\ x[1] # k + 1
                                             /\ x[1] \in Int /\ x[2] \in Int
            OBVIOUS
        <3>2. \A x \in (0 .. k + 1) \X (0 .. c) : /\ x[1] # k + 1 => x \in (0 .. k) \X (0 .. c)
                                                 /\ x[1] \in Int /\ x[2] \in 0 .. c
            OBVIOUS
        <3> QED BY <3>1, <3>2 DEF Before
    <2>3. Choose(k + 1, 2) = Choose(k, 2) + k /\ Choose(k, 2) \in Nat
        BY ChooseIs
    <2> QED BY <2>1, <2>2, <2>3
<1>5. Good(hi, 0)
    <2> DEFINE S == {k \in Nat : Good(k, 0)}
    <2>1. 0 \in S
        BY <1>1
    <2>2. ASSUME NEW k \in 0 .. hi - 1, k \in S PROVE k + 1 \in S
        BY <2>2, <1>4
    <2> HIDE DEF S
    <2>3. hi \in S
        BY <2>1, <2>2, InductionUpTo
    <2> QED BY <2>3 DEF S
<1> HIDE DEF Good
<1>6. Good(hi, lo)
    BY <1>3, <1>5
<1> QED BY <1>6 DEF Good

(* What the server multiplies for a column.                                *)
LEMMA PairIs ==
    ASSUME NEW c \in Nat, NEW hi, NEW lo, Numbers(c, hi, lo)
    PROVE  Pair(c) = <<hi, lo>>
<1> DEFINE S == {x \in (0 .. c + 1) \X (0 .. c) : x[2] < x[1]}
           Right(pair) == c = Cardinality({x \in (0 .. pair[1]) \X (0 .. c) :
                                 x[2] < x[1] /\ (x[1] = pair[1] => x[2] < pair[2])})
<1>1. \A pair : Right(pair) <=> c = Cardinality(Before(pair[1], pair[2], c))
    BY DEF Before
<1>2. Pair(c) = CHOOSE pair \in S : Right(pair)
    BY DEF Pair
<1>3. \A pair \in S : pair = <<pair[1], pair[2]>> /\ pair[1] \in 0 .. c + 1 /\ pair[2] \in 0 .. c
                      /\ pair[2] < pair[1]
    OBVIOUS
<1>4. ASSUME NEW pair \in S, Right(pair) PROVE pair = <<hi, lo>>
    <2> DEFINE u == pair[1]
               v == pair[2]
    <2>1. pair = <<u, v>> /\ u \in 0 .. c + 1 /\ v \in 0 .. c /\ v < u
        BY <1>3
    <2>2. c = Cardinality(Before(u, v, c))
        BY <1>4, <1>1
    <2> HIDE DEF u, v
    <2>3. v \in 0 .. u /\ v <= c
        BY <2>1
    <2>4. c = Choose(u, 2) + v
        BY <2>1, <2>2, <2>3, BeforeCount
    <2>5. Numbers(c, u, v)
        BY <2>1, <2>4 DEF Numbers
    <2>6. u = hi /\ v = lo
        BY <2>5, PairUnique
    <2> QED BY <2>1, <2>6
<1>5. hi \in 0 .. c + 1 /\ lo \in 0 .. c /\ lo < hi
    <2>1. PICK x \in 1 .. c + 1 : \E y \in 0 .. x - 1 : Numbers(c, x, y)
        BY PairExists
    <2>0. PICK y \in 0 .. x - 1 : Numbers(c, x, y)
        BY <2>1
    <2>2. x = hi /\ y = lo
        BY <2>0, PairUnique
    <2> QED BY <2>2
<1> DEFINE top == <<hi, lo>>
<1>6. top \in S /\ top[1] = hi /\ top[2] = lo
    BY <1>5
<1>7. Right(top)
    <2>1. c = Choose(hi, 2) + lo
        BY DEF Numbers
    <2>2. lo \in 0 .. hi /\ lo <= c
        BY <1>5
    <2>3. Cardinality(Before(hi, lo, c)) = c
        BY <1>5, <2>1, <2>2, BeforeCount
    <2> QED BY <2>3, <1>6, <1>1
<1> HIDE DEF S, Right, top
<1>8. Pair(c) = top
    BY <1>2, <1>4, <1>6, <1>7 DEF top
<1> QED BY <1>8 DEF top

(* The codeword the client sends is that pair.                             *)
LEMMA CodewordIs ==
    ASSUME NEW c \in Nat, NEW size \in Nat, c < Choose(size, 2), NEW hi, NEW lo, Numbers(c, hi, lo)
    PROVE  hi < size /\ Codeword(c, size) = {hi, lo}
<1>1. hi \in Nat /\ lo \in 0 .. hi - 1 /\ c = Choose(hi, 2) + lo /\ Choose(hi, 2) \in Nat
    BY ChooseIs DEF Numbers
<1>2. hi < size
    <2>1. CASE size <= hi
        <3>1. Choose(size, 2) <= Choose(hi, 2) /\ Choose(size, 2) \in Nat
            BY <1>1, <2>1, ChooseGrows, ChooseIs
        <3> QED BY <1>1, <3>1
    <2> QED BY <2>1, <1>1
<1> DEFINE F == {x \in 0 .. size - 1 : Choose(x, 2) <= c}
           first == Max(F)
           G == {x \in 0 .. first - 1 : Choose(x, 1) <= c - Choose(first, 2)}
<1>3. Codeword(c, size) = {first, Max(G)}
    BY DEF Codeword
<1>4. hi \in F
    BY <1>1, <1>2
<1>5. ASSUME NEW x \in F PROVE hi >= x
    <2>1. CASE x > hi
        <3>1. x \in Nat /\ hi + 1 \in Nat /\ hi + 1 <= x
            BY <1>1, <2>1
        <3>2. Choose(hi + 1, 2) <= Choose(x, 2) /\ Choose(x, 2) \in Nat /\ Choose(x, 2) <= c
              /\ Choose(hi + 1, 2) = Choose(hi, 2) + hi
            BY <1>1, <3>1, ChooseGrows, ChooseIs
        <3> QED BY <1>1, <3>2
    <2> QED BY <2>1, <1>1
<1>6. \A x \in F : x \in Int
    OBVIOUS
<1> HIDE DEF F
<1>7. first = hi
    <2>1. \A z \in F : (\A x \in F : z >= x) => z = hi
        <3> TAKE z \in F
        <3> HAVE \A x \in F : z >= x
        <3>1. z >= hi /\ hi >= z /\ z \in Int
            BY <1>4, <1>5, <1>6
        <3> QED BY <3>1, <1>1
    <2> QED BY <1>4, <1>5, <2>1 DEF Max
<1> HIDE DEF first
<1>8. G = 0 .. lo
    <2>1. \A x \in Nat : Choose(x, 1) = x
        BY ChooseIs
    <2>2. c - Choose(first, 2) = lo
        BY <1>1, <1>7
    <2> QED BY <1>1, <1>7, <2>1, <2>2
<1> HIDE DEF G
<1>9. Max(G) = lo
    <2>1. lo \in 0 .. lo /\ \A x \in 0 .. lo : lo >= x
        BY <1>1
    <2>2. \A z \in 0 .. lo : (\A x \in 0 .. lo : z >= x) => z = lo
        BY <1>1
    <2> QED BY <1>8, <2>1, <2>2 DEF Max
<1> QED BY <1>2, <1>3, <1>7, <1>9

(* There are enough positions for the columns.                             *)
LEMMA EncodingIs ==
    ASSUME NEW columns \in Nat \ {0}
    PROVE  /\ CalculateEncodingSize(columns) \in Nat
           /\ Choose(CalculateEncodingSize(columns), 2) >= columns
<1> DEFINE S == {e \in 2 .. columns + 1 : Choose(e, 2) >= columns}
           R == {g \in 0 .. columns + 1 : (columns + 1) - g \in S}
<1>1. columns + 1 \in S
    <2>1. ASSUME NEW k \in Nat PROVE Choose(k + 1, 2) >= k
        BY ChooseIs
    <2> QED BY <2>1
<1>2. R \in SUBSET Nat /\ IsFiniteSet(R) /\ R # {}
    <2>1. 0 \in Int /\ columns + 1 \in Int
        OBVIOUS
    <2>2. IsFiniteSet(0 .. columns + 1)
        BY <2>1, FS_Interval
    <2>3. R \subseteq 0 .. columns + 1
        OBVIOUS
    <2>4. IsFiniteSet(R)
        BY <2>2, <2>3, FS_Subset
    <2>5. 0 \in R
        <3>1. (columns + 1) - 0 = columns + 1 /\ 0 \in 0 .. columns + 1
            OBVIOUS
        <3> HIDE DEF S
        <3> QED BY <1>1, <3>1
    <2> HIDE DEF R
    <2>6. R \in SUBSET Nat
        BY <2>3
    <2> QED BY <2>4, <2>5, <2>6
<1> HIDE DEF R
<1>3. PICK most \in R : \A g \in R : g <= most
    BY <1>2, LargestElement
<1> DEFINE e == (columns + 1) - most
<1>4. e \in S /\ \A x \in S : e <= x
    <2>1. \A x \in S : (columns + 1) - x \in R
        BY DEF R
    <2>2. most \in Nat /\ e \in S
        BY DEF R
    <2> QED BY <1>3, <2>1, <2>2
<1>5. \A x \in S : x \in Nat /\ Choose(x, 2) >= columns
    OBVIOUS
<1> HIDE DEF S, e
<1>6. Min(S) \in S
    BY <1>4 DEF Min
<1>7. CalculateEncodingSize(columns) = Min(S)
    BY DEF CalculateEncodingSize, S
<1> QED BY <1>5, <1>6, <1>7

(* Both positions of a column are in the codeword of one column only.      *)
LEMMA CodewordsMeet ==
    ASSUME NEW size \in Nat, NEW c \in Nat, NEW col \in Nat,
           c < Choose(size, 2), col < Choose(size, 2)
    PROVE  /\ Pair(c)[1] \in 0 .. size - 1 /\ Pair(c)[2] \in 0 .. size - 1
           /\ Pair(c)[1] \in Codeword(col, size) /\ Pair(c)[2] \in Codeword(col, size) <=> c = col
<1>1. PICK hi \in 1 .. c + 1 : \E lo \in 0 .. hi - 1 : Numbers(c, hi, lo)
    BY PairExists
<1>2. PICK lo \in 0 .. hi - 1 : Numbers(c, hi, lo)
    BY <1>1
<1>3. PICK x \in 1 .. col + 1 : \E y \in 0 .. x - 1 : Numbers(col, x, y)
    BY PairExists
<1>4. PICK y \in 0 .. x - 1 : Numbers(col, x, y)
    BY <1>3
<1>5. Pair(c) = <<hi, lo>>
    BY <1>2, PairIs
<1>6. Codeword(col, size) = {x, y}
    BY <1>4, CodewordIs
<1>7. hi \in 0 .. size - 1 /\ lo \in 0 .. size - 1
    <2>1. hi < size
        BY <1>2, CodewordIs
    <2> QED BY <2>1
<1>8. hi \in {x, y} /\ lo \in {x, y} <=> c = col
    <2>1. CASE c = col
        <3>1. hi = x /\ lo = y
            BY <1>2, <1>4, <2>1, PairUnique
        <3> QED BY <2>1, <3>1
    <2>2. ASSUME hi \in {x, y}, lo \in {x, y} PROVE c = col
        <3>1. x \in Nat /\ y \in Nat /\ y < x /\ lo < hi
            OBVIOUS
        <3>2. hi = x /\ lo = y
            BY <2>2, <3>1
        <3>3. Numbers(c, x, y) /\ Numbers(col, x, y)
            BY <3>2, <1>2, <1>4
        <3> QED BY <3>3 DEF Numbers
    <2> QED BY <2>1, <2>2
<1> DEFINE pair == Pair(c)
           word == Codeword(col, size)
<1>9. pair[1] = hi /\ pair[2] = lo /\ word = {x, y}
    BY <1>5, <1>6
<1> HIDE DEF pair, word
<1>10. /\ pair[1] \in 0 .. size - 1 /\ pair[2] \in 0 .. size - 1
       /\ pair[1] \in word /\ pair[2] \in word <=> c = col
    BY <1>7, <1>8, <1>9
<1> QED BY <1>10 DEF pair, word

-----------------------------------------------------------------------------
(* Pirana: the places of a batch.                                          *)

(* Rounded up, a quotient has room for everything below.                   *)
LEMMA CeilDivIs ==
    ASSUME NEW x \in Nat, NEW y \in Nat \ {0}
    PROVE  /\ CeilDiv(x, y) \in Nat /\ y * CeilDiv(x, y) >= x
           /\ \A i \in 0 .. x - 1 : i \div y \in 0 .. CeilDiv(x, y) - 1
<1> DEFINE z == (x + y) - 1
           c == z \div y
           r == z % y
<1>1. CeilDiv(x, y) = c
    BY DEF CeilDiv
<1>2. z \in Nat
    OBVIOUS
<1>3. z = y * c + r /\ r \in 0 .. y - 1 /\ c \in Int /\ c \in 0 .. z
    <2>1. z = y * c + r /\ r \in 0 .. y - 1 /\ c \in Int
        BY <1>2, DivMod
    <2>2. c \in 0 .. z
        BY <1>2, QuotientBound
    <2> QED BY <2>1, <2>2
<1> HIDE DEF c, r
<1>4. c \in Nat /\ y * c \in Int /\ y * c >= x
    BY <1>2, <1>3
<1>5. ASSUME NEW i \in 0 .. x - 1 PROVE i \div y \in 0 .. c - 1
    <2> DEFINE d == i \div y
    <2>0. i \in Nat
        OBVIOUS
    <2>a. i = y * d + (i % y) /\ i % y \in 0 .. y - 1
        BY <2>0, DivMod
    <2>b. d \in 0 .. i
        BY <2>0, QuotientBound
    <2>1. i = y * d + (i % y) /\ i % y \in 0 .. y - 1 /\ d \in 0 .. i
        BY <2>a, <2>b
    <2> HIDE DEF d
    <2>2. d < c
        <3>1. CASE d >= c
            <4>1. y * d >= y * c
                BY <1>4, <2>1, <3>1
            <4> QED BY <1>4, <2>1, <4>1
        <3> QED BY <3>1, <2>1, <1>4
    <2>3. d \in 0 .. c - 1
        BY <2>1, <2>2, <1>4
    <2> QED BY <2>3 DEF d
<1> QED BY <1>1, <1>4, <1>5

\* What the parameters of batches have in common.
BatchShape ==
    /\ p.n \in Nat /\ p.slots \in Nat /\ p.compressSlots \in Nat
    /\ p.numSlot \in Nat \ {0} /\ p.bundles \in Nat \ {0} /\ p.tableSize \in Nat \ {0}
    /\ \A i \in 0 .. p.slots - 1 : i \div p.numSlot \in 0 .. p.compressSlots - 1
    /\ \A l \in 0 .. p.tableSize - 1 :
          /\ l \div N \in 0 .. p.bundles - 1
          /\ \A j \in 0 .. p.numSlot - 1 : j + ((l % N) * p.numSlot) \in Slots
    /\ \A i \in 0 .. p.n - 1 : hash[i] \subseteq Nat

(* Its parameters make it so.                                              *)
LEMMA BatchShapes ==
    ASSUME NEW s \in Batched, p = BatchParms(s.payloads, s.bytes, s.queries, s.compress),
           hash \in Hashes
    PROVE  BatchShape
<1> DEFINE wanted == (3 * s.queries) \div 2
           compress == s.compress /\ wanted < N
           width == IF s.compress THEN 18 ELSE 17
<1>1. /\ p.n = s.payloads
      /\ p.slots = PayloadSlots(s.bytes, width)
      /\ p.compress = compress
      /\ p.bundles = IF compress THEN 1 ELSE CeilDiv(wanted, N)
      /\ p.numSlot = IF compress THEN N \div wanted ELSE 1
      /\ p.tableSize = IF compress THEN N \div p.numSlot ELSE p.bundles * N
      /\ p.compressSlots = CeilDiv(p.slots, p.numSlot)
    BY DEF BatchParms
<1>2. /\ s.payloads \in Nat /\ s.bytes \in Nat /\ s.queries \in Nat \ {0} /\ s.compress \in BOOLEAN
      /\ \A hashing \in Hashes : \A i \in 0 .. s.payloads - 1 : hashing[i] \subseteq Nat
    BY PiranaAssumption
<1>3. wanted \in Nat \ {0}
    BY <1>2
<1>4. p.slots \in Nat
    <2>1. 8 * s.bytes \in Nat /\ width - 1 \in Nat \ {0}
        BY <1>2
    <2> QED BY <1>1, <2>1, CeilDivIs DEF PayloadSlots
<1>5. N \in Nat \ {0}
    BY DegreeIs
<1> HIDE DEF wanted, width
<1>6. /\ p.numSlot \in Nat \ {0} /\ p.bundles \in Nat \ {0} /\ p.tableSize \in Nat \ {0}
      /\ \A l \in 0 .. p.tableSize - 1 :
          /\ l \div N \in 0 .. p.bundles - 1
          /\ \A j \in 0 .. p.numSlot - 1 : j + ((l % N) * p.numSlot) \in Slots
    <2>1. CASE compress
        <3> DEFINE u == N \div wanted
                   m == N \div u
        <3>a. N = wanted * u + (N % wanted) /\ N % wanted \in 0 .. wanted - 1
            BY <1>3, <1>5, DivMod
        <3>b. u \in 0 .. N
            BY <1>3, <1>5, QuotientBound
        <3>1. N = wanted * u + (N % wanted) /\ N % wanted \in 0 .. wanted - 1 /\ u \in 0 .. N
            BY <3>a, <3>b
        <3>2. u # 0
            BY <3>1, <2>1, <1>3, <1>5
        <3>3. u \in Nat \ {0}
            BY <3>1, <3>2, <1>5
        <3> HIDE DEF u
        <3>c. N = u * m + (N % u) /\ N % u \in 0 .. u - 1
            BY <3>3, <1>5, DivMod
        <3>d. m \in 0 .. N
            BY <3>3, <1>5, QuotientBound
        <3>4. N = u * m + (N % u) /\ N % u \in 0 .. u - 1 /\ m \in 0 .. N
            BY <3>c, <3>d
        <3>5. m # 0
            BY <3>1, <3>3, <3>4, <1>3, <1>5
        <3>6. m \in Nat \ {0}
            BY <3>4, <3>5, <1>5
        <3> HIDE DEF m
        <3>7. p.numSlot = u /\ p.bundles = 1 /\ p.tableSize = m
            BY <1>1, <2>1 DEF u, m
        <3>8. ASSUME NEW l \in 0 .. m - 1
              PROVE  /\ l \div N \in 0 .. 1 - 1
                     /\ \A j \in 0 .. u - 1 : j + ((l % N) * u) \in Slots
            <4>1. l \in 0 .. N - 1 /\ l = N * 0 + l
                BY <3>4, <1>5
            <4>2. l \div N = 0 /\ l % N = l
                BY <4>1, <1>5, DivUnique, ModUnique
            <4>3. ASSUME NEW j \in 0 .. u - 1 PROVE j + (l * u) \in Slots
                <5>1. l + 1 <= m /\ u \in Nat /\ l \in Nat /\ m \in Nat
                    BY <3>3, <3>6
                <5>2. u * (l + 1) <= u * m
                    BY <5>1
                <5>3. u * (l + 1) = (l * u) + u /\ l * u \in Nat /\ u * m \in Nat
                    BY <5>1
                <5>4. u * m <= N
                    BY <3>4, <5>3, <1>5
                <5> DEFINE v == l * u
                           w == u * m
                           z == u * (l + 1)
                <5>5. v \in Nat /\ v + u <= N
                    <6>1. z <= w /\ z = v + u /\ v \in Nat /\ w \in Nat /\ w <= N
                        BY <5>2, <5>3, <5>4
                    <6> HIDE DEF v, w, z
                    <6> QED BY <6>1, <3>3, <1>5
                <5> HIDE DEF v
                <5>6. j + v \in 0 .. N - 1
                    BY <5>5, <3>3, <1>5
                <5> QED BY <5>6 DEF Slots, v
            <4> QED BY <4>2, <4>3
        <3> QED BY <3>3, <3>6, <3>7, <3>8
    <2>2. CASE ~ compress
        <3> DEFINE many == CeilDiv(wanted, N)
        <3>1. many \in Nat /\ N * many >= wanted
            BY <1>3, <1>5, CeilDivIs
        <3>2. many \in Nat \ {0}
            BY <3>1, <1>3, <1>5
        <3> HIDE DEF many
        <3>3. p.numSlot = 1 /\ p.bundles = many /\ p.tableSize = many * N
            BY <1>1, <2>2 DEF many
        <3>4. many * N \in Nat \ {0}
            BY <3>2, <1>5
        <3>5. ASSUME NEW l \in 0 .. (many * N) - 1
              PROVE  /\ l \div N \in 0 .. many - 1
                     /\ \A j \in 0 .. 1 - 1 : j + ((l % N) * 1) \in Slots
            <4> DEFINE d == l \div N
                       r == l % N
            <4>0. l \in Nat
                BY <3>4
            <4>1. l = N * d + r /\ r \in 0 .. N - 1 /\ d \in 0 .. l
                BY <4>0, <1>5, DivMod, QuotientBound
            <4> HIDE DEF d, r
            <4>2. ASSUME d >= many PROVE FALSE
                <5>1. N * d >= N * many /\ N * many = many * N
                    BY <4>2, <4>1, <4>0, <3>2, <1>5
                <5>2. N * d \in Int /\ many * N \in Int
                    BY <4>1, <4>0, <3>2, <1>5
                <5> QED BY <5>1, <5>2, <4>1, <3>4, <1>5
            <4>3. d \in 0 .. many - 1
                BY <4>2, <4>1, <4>0, <3>2
            <4>4. \A j \in 0 .. 1 - 1 : j + (r * 1) \in Slots
                <5>1. \A j \in 0 .. 1 - 1 : j = 0
                    OBVIOUS
                <5>2. 0 + (r * 1) = r
                    BY <4>1, <1>5
                <5> QED BY <5>1, <5>2, <4>1 DEF Slots
            <4> QED BY <4>3, <4>4 DEF d, r
        <3> QED BY <3>2, <3>3, <3>4, <3>5
    <2> QED BY <2>1, <2>2
<1>7. p.compressSlots \in Nat /\ \A i \in 0 .. p.slots - 1 : i \div p.numSlot \in 0 .. p.compressSlots - 1
    BY <1>1, <1>4, <1>6, CeilDivIs
<1>8. p.n \in Nat /\ \A i \in 0 .. p.n - 1 : hash[i] \subseteq Nat
    BY <1>1, <1>2
<1> QED BY <1>4, <1>6, <1>7, <1>8 DEF BatchShape

-----------------------------------------------------------------------------
(* Pirana: the answer to a batch.                                          *)

\* What the table of a client says of the items in it.
PlacesRight ==
    \A l \in DOMAIN table : table[l] \in 0 .. p.n - 1 /\ l \in Locations[table[l]]

(* The hashes name places.                                                 *)
LEMMA LocationsAre ==
    ASSUME BatchShape
    PROVE  \A i \in 0 .. p.n - 1 : Locations[i] \subseteq 0 .. p.tableSize - 1
<1> SUFFICES ASSUME NEW i \in 0 .. p.n - 1, NEW x \in hash[i]
             PROVE  x % p.tableSize \in 0 .. p.tableSize - 1
    BY DEF Locations
<1>1. x \in Int /\ p.tableSize \in Nat \ {0}
    BY DEF BatchShape
<1> QED BY <1>1, DivMod

(* No bucket has more items than there are columns.                        *)
LEMMA BucketsFit ==
    ASSUME BatchShape
    PROVE  /\ ColSize(p, Locations) \in Nat
           /\ \A l : Bucket(p, Locations, l) \in SUBSET (0 .. p.n - 1)
           /\ \A l \in 0 .. p.tableSize - 1 :
                 Cardinality(Bucket(p, Locations, l)) <= ColSize(p, Locations)
<1> DEFINE Size(l) == Cardinality(Bucket(p, Locations, l))
           S == {Size(l) : l \in 0 .. p.tableSize - 1}
<1>1. \A l : Bucket(p, Locations, l) \in SUBSET (0 .. p.n - 1)
    BY DEF Bucket
<1>2. p.n \in Nat /\ p.tableSize \in Nat \ {0}
    BY DEF BatchShape
<1>3. \A l : Size(l) \in 0 .. p.n
    BY <1>1, <1>2, RanksAre
<1> HIDE DEF Size
<1>4. S \in SUBSET Nat /\ IsFiniteSet(S) /\ S # {}
    <2> DEFINE zero == 0
    <2>1. zero \in Int /\ p.n \in Int
        BY <1>2
    <2>2. S \subseteq zero .. p.n
        BY <1>3
    <2> HIDE DEF zero
    <2>3. IsFiniteSet(zero .. p.n)
        BY <2>1, FS_Interval
    <2>4. IsFiniteSet(S)
        <3> HIDE DEF S
        <3> QED BY <2>2, <2>3, FS_Subset
    <2>5. Size(0) \in S
        BY <1>2
    <2>6. S \in SUBSET Nat
        BY <1>3
    <2> HIDE DEF S
    <2> QED BY <2>4, <2>5, <2>6
<1>5. PICK most \in S : \A g \in S : g <= most
    <2> HIDE DEF S
    <2> QED BY <1>4, LargestElement
<1>6. ColSize(p, Locations) = Max(S)
    BY DEF ColSize, Size
<1>7. \A l \in 0 .. p.tableSize - 1 : Size(l) \in S
    OBVIOUS
<1> HIDE DEF S
<1>8. Max(S) \in S /\ \A x \in S : x <= Max(S)
    <2>1. \A x \in S : most >= x
        BY <1>4, <1>5
    <2>2. Max(S) \in S /\ \A x \in S : Max(S) >= x
        BY <2>1 DEF Max
    <2> QED BY <2>2, <1>4
<1> QED BY <1>1, <1>4, <1>6, <1>7, <1>8 DEF Size

\* The column of an item in the bucket of its place.
ColumnAt(q) == Rank(Bucket(p, Locations, Place(q)), q)

(* The place of an item in the table is one of its own.                    *)
LEMMA PlaceIs ==
    ASSUME BatchShape, PlacesRight, NEW q, InTable(q)
    PROVE  /\ Place(q) \in DOMAIN table /\ table[Place(q)] = q
           /\ q \in 0 .. p.n - 1 /\ Place(q) \in 0 .. p.tableSize - 1
           /\ q \in Bucket(p, Locations, Place(q))
<1> DEFINE l == Place(q)
<1>1. l \in DOMAIN table /\ table[l] = q
    BY DEF InTable, Place
<1> HIDE DEF l
<1>2. q \in 0 .. p.n - 1 /\ l \in Locations[q]
    BY <1>1 DEF PlacesRight
<1>3. l \in 0 .. p.tableSize - 1
    BY <1>2, LocationsAre
<1>4. q \in Bucket(p, Locations, l)
    BY <1>2 DEF Bucket
<1> QED BY <1>1, <1>2, <1>3, <1>4 DEF l

(* From the key of a sound query both sides find that column.              *)
LEMMA KeyIs ==
    ASSUME BatchShape, PlacesRight, NEW q, InTable(q), Word \in Nat \ {0},
           p.compress => (q * p.tableSize) + Place(q) < Word
    PROVE  HashIndex(p, Locations, QueryKey(q)) = ColumnAt(q)
<1> DEFINE l == Place(q)
           m == p.tableSize
           key == (q * m) + l
<1>1. q \in 0 .. p.n - 1 /\ l \in 0 .. m - 1 /\ q \in Bucket(p, Locations, l)
    BY PlaceIs
<1>2. p.n \in Nat /\ m \in Nat \ {0}
    BY DEF BatchShape
<1> HIDE DEF l, m
<1>3. key = m * q + l
    BY <1>1, <1>2
<1>4. key \in Nat
    <2>1. q \in Nat /\ l \in Nat /\ m \in Nat
        BY <1>1, <1>2
    <2>2. q * m \in Nat
        BY <2>1
    <2> QED BY <2>1, <2>2
<1>5. key \div m = q /\ key % m = l
    <2> HIDE DEF key
    <2>1. key \in Int /\ q \in Int
        BY <1>1, <1>2, <1>4
    <2> QED BY <2>1, <1>1, <1>2, <1>3, DivUnique, ModUnique
<1>6. QueryKey(q) = key
    <2>1. CASE p.compress
        <3>1. key \in 0 .. Word - 1
            BY <2>1, <1>4 DEF l, m
        <3> HIDE DEF key
        <3>2. key % Word = key
            BY <3>1, ModOfSmall
        <3> QED BY <2>1, <3>2 DEF QueryKey, key, l, m
    <2>2. CASE ~ p.compress
        BY <2>2 DEF QueryKey, l, m
    <2> QED BY <2>1, <2>2
<1> HIDE DEF key
<1>7. q < p.n /\ l \in Locations[q]
    BY <1>1, <1>2 DEF Bucket
<1>8. HashIndex(p, Locations, key) = Cardinality({x \in Bucket(p, Locations, l) : x < q})
    BY <1>5, <1>7 DEF HashIndex, m
<1> QED BY <1>6, <1>8 DEF ColumnAt, Rank, l

\* The query and what it was made from.
BatchAsked ==
    /\ asked = {[place |-> Place(q), key |-> QueryKey(q)] : q \in Range(batch)}
    /\ query = GenBatchQuery(p, Locations, asked)

(* At the place of a sound query the ciphertexts have its codeword.        *)
LEMMA CodewordSent ==
    ASSUME BatchShape, PlacesRight, BatchAsked, Word \in Nat \ {0},
           NEW q \in Range(batch), Sound(q), NEW size, size = BatchEncodingSize(p, Locations),
           NEW hi \in 0 .. size - 1, size \in Nat,
           NEW pos \in Slots, pos \div p.numSlot = Place(q) % N,
           NEW k \in 0 .. (size * p.bundles) - 1,
           k \div p.bundles = hi, k % p.bundles = Place(q) \div N
    PROVE  query[k][pos] = IF hi \in Codeword(ColumnAt(q), size) THEN 1 ELSE 0
<1> DEFINE l == Place(q)
           Asks(x) == /\ k \div p.bundles \in Codeword(HashIndex(p, Locations, x.key), size)
                      /\ k % p.bundles = x.place \div N
                      /\ pos \div p.numSlot = x.place % N
<1>0. InTable(q) /\ (p.compress => (q * p.tableSize) + Place(q) < Word)
      /\ (Place(q) = 0 => \A x \in Range(batch) : InTable(x))
    BY DEF Sound
<1>1. /\ l \in DOMAIN table /\ table[l] = q /\ q \in 0 .. p.n - 1 /\ l \in 0 .. p.tableSize - 1
    BY <1>0, PlaceIs
<1>2. /\ p.bundles \in Nat \ {0} /\ p.tableSize \in Nat \ {0}
      /\ l \div N \in 0 .. p.bundles - 1
    BY <1>1 DEF BatchShape
<1>3. k \in 0 .. (size * p.bundles) - 1 /\ k \div p.bundles = hi /\ k % p.bundles = l \div N
    OBVIOUS
<1>4. N \in Nat \ {0}
    BY DegreeIs
<1> HIDE DEF l
<1>5. query[k][pos] = IF \E x \in asked : Asks(x) THEN 1 ELSE 0
    BY <1>3 DEF BatchAsked, GenBatchQuery
<1>6. ASSUME NEW x \in Range(batch), Place(x) \div N = l \div N, Place(x) % N = l % N
      PROVE  x = q
    <2>1. CASE InTable(x)
        <3>1. Place(x) \in 0 .. p.tableSize - 1 /\ table[Place(x)] = x
            BY <2>1, PlaceIs
        <3>2. Place(x) \in Int /\ l \in Int
            BY <3>1, <1>1, <1>2
        <3>3. /\ Place(x) = N * (Place(x) \div N) + (Place(x) % N)
              /\ l = N * (l \div N) + (l % N)
            BY <3>2, <1>4, DivMod
        <3>4. Place(x) = l
            BY <3>3, <1>6
        <3> QED BY <3>1, <3>4, <1>1
    <2>2. CASE ~ InTable(x)
        <3>1. Place(x) = 0
            BY <2>2 DEF Place
        <3>2. l = 0
            <4> DEFINE d == l \div N
                       r == l % N
            <4>1. 0 = N * 0 + 0 /\ 0 \in 0 .. N - 1
                BY <1>4
            <4>2. 0 \div N = 0 /\ 0 % N = 0
                BY <1>4, <4>1, DivUnique, ModUnique
            <4>3. d = 0 /\ r = 0
                BY <3>1, <4>2, <1>6
            <4>4. l = N * d + r
                <5>1. l \in Int
                    BY <1>1, <1>2
                <5> QED BY <5>1, <1>4, DivMod
            <4> HIDE DEF d, r
            <4> QED BY <4>3, <4>4, <1>4
        <3> QED BY <3>2, <2>2, <1>0 DEF l
    <2> QED BY <2>1, <2>2
<1> DEFINE Asked(x) == [place |-> Place(x), key |-> QueryKey(x)]
<1>7. \A x : Asked(x).place = Place(x) /\ Asked(x).key = QueryKey(x)
    OBVIOUS
<1>8. asked = {Asked(x) : x \in Range(batch)}
    BY DEF BatchAsked
<1>9. HashIndex(p, Locations, QueryKey(q)) = ColumnAt(q)
    BY <1>0, KeyIs
<1> HIDE DEF Asked
<1>10. (\E x \in asked : Asks(x)) <=> hi \in Codeword(ColumnAt(q), size)
    <2>1. ASSUME NEW x \in asked, Asks(x) PROVE hi \in Codeword(ColumnAt(q), size)
        <3>1. PICK y \in Range(batch) : x = Asked(y)
            BY <1>8
        <3>2. Place(y) \div N = l \div N /\ Place(y) % N = l % N
            BY <2>1, <3>1, <1>3, <1>7 DEF l
        <3>3. y = q
            BY <3>2, <1>6
        <3> QED BY <2>1, <3>1, <3>3, <1>3, <1>7, <1>9
    <2>2. ASSUME hi \in Codeword(ColumnAt(q), size) PROVE \E x \in asked : Asks(x)
        <3>1. Asked(q) \in asked
            BY <1>8
        <3>2. Asks(Asked(q))
            BY <2>2, <1>3, <1>7, <1>9 DEF l
        <3> QED BY <3>1, <3>2
    <2> QED BY <2>1, <2>2
<1> QED BY <1>5, <1>10

(* The slots that a code position's ciphertext keeps for the place of an    *)
(* item are 1 exactly when the codeword of its column has that position.    *)
InPlace(q, pos) == pos \div p.numSlot = Place(q) % N

LEMMA CodewordSeen ==
    ASSUME BatchShape, PlacesRight, BatchAsked, Word \in Nat \ {0},
           NEW q \in Range(batch), Sound(q), NEW pos \in Slots, InPlace(q, pos),
           BatchEncodingSize(p, Locations) \in Nat
    PROVE  \A hi \in 0 .. BatchEncodingSize(p, Locations) - 1 :
             query[(hi * p.bundles) + (Place(q) \div N)][pos]
               = IF hi \in Codeword(ColumnAt(q), BatchEncodingSize(p, Locations)) THEN 1 ELSE 0
<1> DEFINE size == BatchEncodingSize(p, Locations)
           d == Place(q) \div N
<1>1. Place(q) \in 0 .. p.tableSize - 1
    <2>1. InTable(q)
        BY DEF Sound
    <2> QED BY <2>1, PlaceIs
<1>2. p.bundles \in Nat \ {0} /\ d \in 0 .. p.bundles - 1
    BY <1>1 DEF BatchShape
<1> SUFFICES ASSUME NEW hi \in 0 .. size - 1
             PROVE  query[(hi * p.bundles) + d][pos] = IF hi \in Codeword(ColumnAt(q), size) THEN 1 ELSE 0
    OBVIOUS
<1>3. size \in Nat
    OBVIOUS
<1> DEFINE y == (hi * p.bundles) + d
<1>4. y \in 0 .. (size * p.bundles) - 1 /\ y \div p.bundles = hi /\ y % p.bundles = d
    <2> HIDE DEF size, d
    <2> QED BY <1>2, <1>3, DigitsOf
<1>5. pos \div p.numSlot = Place(q) % N
    BY DEF InPlace
<1> HIDE DEF size, d, y
<1>6. y % p.bundles = Place(q) \div N /\ size = BatchEncodingSize(p, Locations)
    BY <1>4 DEF d, size
<1>7. query[y][pos] = IF hi \in Codeword(ColumnAt(q), size) THEN 1 ELSE 0
    BY <1>3, <1>4, <1>5, <1>6, CodewordSent
<1> QED BY <1>7 DEF y

(* The selection vector of a column is 1 at the places whose items are     *)
(* asked for in that column.                                               *)
LEMMA ColumnSelected ==
    ASSUME BatchShape, PlacesRight, BatchAsked, Word \in Nat \ {0},
           NEW q \in Range(batch), Sound(q),
           NEW pos \in Slots, pos \div p.numSlot = Place(q) % N,
           NEW c \in 0 .. ColSize(p, Locations) - 1, NEW k,
           k = (Place(q) \div N) + (p.bundles * c)
    PROVE  /\ ColumnAt(q) \in 0 .. ColSize(p, Locations) - 1
           /\ GenSelectionVectorBatch(p, Locations, query)[k][pos] = IF c = ColumnAt(q) THEN 1 ELSE 0
<1> DEFINE columns == ColSize(p, Locations)
           size == BatchEncodingSize(p, Locations)
           d == Place(q) \div N
           col == ColumnAt(q)
           B == Bucket(p, Locations, Place(q))
<1>0. InTable(q)
    BY DEF Sound
<1>1. /\ q \in B /\ Place(q) \in 0 .. p.tableSize - 1
    BY <1>0, PlaceIs
<1>2. p.bundles \in Nat \ {0} /\ d \in 0 .. p.bundles - 1 /\ p.n \in Nat
    BY <1>1 DEF BatchShape
<1>3. columns \in Nat /\ B \in SUBSET (0 .. p.n - 1) /\ Cardinality(B) <= columns
    BY <1>1, BucketsFit
<1>4. col \in 0 .. columns - 1
    <2>1. Cardinality(B) \in 0 .. p.n /\ Rank(B, q) \in 0 .. Cardinality(B) - 1
        <3> HIDE DEF B
        <3> QED BY <1>1, <1>2, <1>3, RanksAre
    <2> HIDE DEF B, columns
    <2>2. col = Rank(B, q)
        BY DEF ColumnAt, B
    <2> HIDE DEF col
    <2> QED BY <2>1, <2>2, <1>2, <1>3
<1>5. size \in Nat /\ Choose(size, 2) >= columns /\ Choose(size, 2) \in Nat
    <2>1. columns \in Nat \ {0}
        <3> HIDE DEF columns, col
        <3> QED BY <1>3, <1>4
    <2>2. size = CalculateEncodingSize(columns)
        BY DEF BatchEncodingSize
    <2> HIDE DEF columns, size
    <2>3. size \in Nat /\ Choose(size, 2) >= columns
        BY <2>1, <2>2, EncodingIs
    <2> QED BY <2>3, ChooseIs
<1>6. k \in 0 .. (columns * p.bundles) - 1 /\ k \div p.bundles = c /\ k % p.bundles = d
    <2>1. k = d + (p.bundles * c) /\ c \in 0 .. columns - 1
        OBVIOUS
    <2> HIDE DEF d, columns
    <2>2. k = p.bundles * c + d
        BY <2>1, <1>2, <1>3
    <2>3. columns \in Nat /\ p.bundles \in Nat \ {0} /\ c \in 0 .. columns - 1
          /\ d \in 0 .. p.bundles - 1
        BY <2>1, <1>2, <1>3
    <2>4. k \in 0 .. (columns * p.bundles) - 1
        BY <2>2, <2>3, Digits
    <2>5. k \div p.bundles = c /\ k % p.bundles = d
        BY <2>2, <2>3, <2>4, DivUnique, ModUnique
    <2> QED BY <2>4, <2>5
<1>7. \A e \in 0 .. columns - 1 : e \in Nat /\ e < Choose(size, 2)
    <2> HIDE DEF columns, size
    <2> QED BY <1>3, <1>5
<1>8. \A hi \in 0 .. size - 1 :
         query[(hi * p.bundles) + d][pos] = IF hi \in Codeword(col, size) THEN 1 ELSE 0
    <2>1. InPlace(q, pos)
        BY DEF InPlace
    <2> QED BY <2>1, <1>5, CodewordSeen
<1> HIDE DEF columns, size, d, col, B
<1>9. c \in Nat /\ col \in Nat /\ c < Choose(size, 2) /\ col < Choose(size, 2)
    BY <1>4, <1>7 DEF columns
<1> DEFINE pair == Pair(c)
           word == Codeword(col, size)
<1>10. /\ pair[1] \in 0 .. size - 1 /\ pair[2] \in 0 .. size - 1
       /\ pair[1] \in word /\ pair[2] \in word <=> c = col
    BY <1>5, <1>9, CodewordsMeet
<1> DEFINE u == query[(pair[1] * p.bundles) + d][pos]
           v == query[(pair[2] * p.bundles) + d][pos]
<1>11. GenSelectionVectorBatch(p, Locations, query)[k][pos] = u * v
    <2>1. GenSelectionVectorBatch(p, Locations, query)[k]
            = Times(query[(pair[1] * p.bundles) + d], query[(pair[2] * p.bundles) + d])
        BY <1>6 DEF GenSelectionVectorBatch, columns
    <2> HIDE DEF pair
    <2> QED BY <2>1 DEF Times
<1>12. u = (IF pair[1] \in word THEN 1 ELSE 0) /\ v = (IF pair[2] \in word THEN 1 ELSE 0)
    BY <1>8, <1>10
<1> HIDE DEF u, v, pair, word
<1>13. u * v = IF c = col THEN 1 ELSE 0
    <2>1. u \in {0, 1} /\ v \in {0, 1} /\ (u = 1 /\ v = 1 <=> c = col)
        BY <1>10, <1>12
    <2>2. u * v = IF u = 1 /\ v = 1 THEN 1 ELSE 0
        BY <2>1
    <2> QED BY <2>1, <2>2
<1> QED BY <1>4, <1>11, <1>13 DEF columns, col

(* What the server holds for a slot of the payload in a column.            *)
LEMMA ColumnEncoded ==
    ASSUME BatchShape, PlacesRight, NEW q, InTable(q), NEW i \in 0 .. p.slots - 1,
           NEW pos \in Slots, pos \div p.numSlot = Place(q) % N, pos % p.numSlot = i % p.numSlot,
           NEW c \in 0 .. ColSize(p, Locations) - 1, NEW k,
           k = ((i \div p.numSlot) * p.bundles * ColSize(p, Locations)) + (Place(q) \div N)
                  + (c * p.bundles)
    PROVE  /\ BatchEncode(p, Locations)[k][pos] \in Int
           /\ c = ColumnAt(q) => BatchEncode(p, Locations)[k][pos] = Raw(q, i)
<1> DEFINE columns == ColSize(p, Locations)
           l == Place(q)
           d == l \div N
           ct == i \div p.numSlot
           B == Bucket(p, Locations, l)
           g == columns * ct + c
<1>1. /\ q \in B /\ l \in 0 .. p.tableSize - 1
    BY PlaceIs
<1>2. /\ p.bundles \in Nat \ {0} /\ p.numSlot \in Nat \ {0} /\ p.tableSize \in Nat /\ p.slots \in Nat
      /\ d \in 0 .. p.bundles - 1 /\ ct \in 0 .. p.compressSlots - 1 /\ p.compressSlots \in Nat
      /\ p.n \in Nat
    BY <1>1 DEF BatchShape
<1>3. columns \in Nat \ {0} /\ c \in 0 .. columns - 1 /\ B \in SUBSET (0 .. p.n - 1)
    <2>1. columns \in Nat /\ c \in 0 .. columns - 1 /\ B \in SUBSET (0 .. p.n - 1)
        BY BucketsFit
    <2> HIDE DEF columns
    <2> QED BY <2>1
<1>4. N \in Nat \ {0} /\ l = N * d + (l % N) /\ l \in Int
    <2>1. N \in Nat \ {0} /\ l \in Int
        BY <1>1, <1>2, DegreeIs
    <2> HIDE DEF l
    <2> QED BY <2>1, DivMod DEF d
<1>5. k = (ct * p.bundles * columns) + d + (c * p.bundles)
    OBVIOUS
<1> HIDE DEF columns, d, ct, B, l
<1>6. g \in 0 .. (p.compressSlots * columns) - 1 /\ g \div columns = ct /\ g % columns = c
    <2>1. /\ columns \in Nat \ {0} /\ p.compressSlots \in Nat
          /\ ct \in 0 .. p.compressSlots - 1 /\ c \in 0 .. columns - 1 /\ g = columns * ct + c
        BY <1>2, <1>3
    <2> HIDE DEF g
    <2>2. g \in 0 .. (p.compressSlots * columns) - 1
        BY <2>1, Digits
    <2>3. g \div columns = ct /\ g % columns = c
        BY <2>1, <2>2, DivUnique, ModUnique
    <2> QED BY <2>2, <2>3
<1> DEFINE total == p.compressSlots * columns
<1>7. total \in Nat
    BY <1>2, <1>3
<1>8. k = p.bundles * g + d
    <2> DEFINE w == p.bundles
    <2>1. w \in Nat /\ ct \in Nat /\ c \in Nat /\ d \in Nat /\ columns \in Nat
        BY <1>2, <1>3
    <2>2. k = (ct * w * columns) + d + (c * w)
        BY <1>5
    <2> HIDE DEF w
    <2>3. w * (columns * ct + c) = (ct * w * columns) + (c * w)
        BY <2>1
    <2>4. (ct * w * columns) \in Nat /\ c * w \in Nat
        <3>1. ct * w \in Nat
            BY <2>1
        <3> QED BY <3>1, <2>1
    <2>5. w * (columns * ct + c) + d = (ct * w * columns) + d + (c * w)
        BY <2>1, <2>3, <2>4
    <2> QED BY <2>2, <2>5 DEF w
<1> HIDE DEF g, total
<1>9. k \in 0 .. (total * p.bundles) - 1 /\ k \div p.bundles = g /\ k % p.bundles = d
    <2>1. /\ p.bundles \in Nat \ {0} /\ total \in Nat
          /\ g \in 0 .. total - 1 /\ d \in 0 .. p.bundles - 1 /\ k = p.bundles * g + d
        BY <1>2, <1>6, <1>7, <1>8 DEF total
    <2>2. k \in 0 .. (total * p.bundles) - 1
        BY <2>1, Digits
    <2>3. k \div p.bundles = g /\ k % p.bundles = d
        <3>1. k \in Int /\ g \in Int
            BY <2>1, <2>2
        <3> QED BY <2>1, <3>1, DivUnique, ModUnique
    <2> QED BY <2>2, <2>3
<1>10. k \div (p.bundles * columns) = ct
    <2> DEFINE w == p.bundles
               m == w * columns
               r == w * c + d
    <2>1. w \in Nat \ {0} /\ ct \in Nat /\ c \in Nat /\ d \in 0 .. w - 1 /\ columns \in Nat \ {0}
        BY <1>2, <1>3
    <2> HIDE DEF w
    <2>2. r \in 0 .. (columns * w) - 1
        BY <2>1, <1>3, Digits
    <2>3. m \in Nat \ {0} /\ m = columns * w
        BY <2>1
    <2>4. k = m * ct + r
        <3>1. k = w * (columns * ct + c) + d
            BY <1>8 DEF w, g
        <3>2. w * (columns * ct + c) = (w * columns) * ct + w * c
            BY <2>1
        <3>3. (w * columns) * ct \in Nat /\ w * c \in Nat
            <4>1. w * columns \in Nat
                BY <2>1
            <4> QED BY <4>1, <2>1
        <3> QED BY <3>1, <3>2, <3>3, <2>1
    <2> HIDE DEF m, r
    <2>5. k \in Int
        BY <1>9
    <2>6. k \div m = ct
        <3>1. r \in 0 .. m - 1 /\ ct \in Int
            BY <2>1, <2>2, <2>3
        <3> QED BY <2>3, <2>4, <2>5, <3>1, DivUnique
    <2> QED BY <2>6 DEF m, w
<1>11. BatchEncode(p, Locations)[k][pos] =
          IF l >= p.tableSize THEN 0
          ELSE IF c < Cardinality(B) /\ i < p.slots THEN Raw(Item(p, Locations, l, c), i)
          ELSE 1
    <2> DEFINE place == ((k % p.bundles) * N) + (pos \div p.numSlot)
               slot == ((k \div (p.bundles * columns)) * p.numSlot) + (pos % p.numSlot)
               column == (k \div p.bundles) % columns
    <2>1. column = c
        BY <1>6, <1>9
    <2>2. place = l
        <3>1. pos \div p.numSlot = l % N
            BY DEF l
        <3>2. l % N \in Int /\ d \in Int
            BY <1>2, <1>4
        <3>3. d * N = N * d /\ N * d \in Int
            BY <1>4, <3>2
        <3>4. (d * N) + (l % N) = l
            BY <1>4, <3>2, <3>3
        <3> QED BY <3>1, <3>4, <1>9
    <2>3. slot = i
        <3>0. i \in Int
            OBVIOUS
        <3>1. i = p.numSlot * ct + (i % p.numSlot) /\ i % p.numSlot \in Int /\ ct \in Int
            <4>1. p.numSlot \in Nat \ {0}
                BY <1>2
            <4>2. /\ i = p.numSlot * (i \div p.numSlot) + (i % p.numSlot)
                  /\ i % p.numSlot \in 0 .. p.numSlot - 1 /\ i \div p.numSlot \in Int
                BY <4>1, <3>0, DivMod
            <4> QED BY <4>1, <4>2 DEF ct
        <3>2. ct * p.numSlot = p.numSlot * ct /\ p.numSlot * ct \in Int
            BY <1>2, <3>1
        <3>3. (ct * p.numSlot) + (i % p.numSlot) = i
            BY <3>1, <3>2
        <3> QED BY <3>3, <1>10
    <2>4. k \in 0 .. (p.compressSlots * columns * p.bundles) - 1
        BY <1>9 DEF total
    <2>5. BatchEncode(p, Locations)[k][pos] =
            IF place >= p.tableSize THEN 0
            ELSE IF column < Cardinality(Bucket(p, Locations, place)) /\ slot < p.slots
            THEN Raw(Item(p, Locations, place, column), slot)
            ELSE 1
        BY <2>4 DEF BatchEncode, columns
    <2> HIDE DEF place, slot, column
    <2> QED BY <2>1, <2>2, <2>3, <2>5 DEF B
<1>12. l < p.tableSize /\ i < p.slots
    BY <1>1, <1>2
<1>13. /\ IsFiniteSet(B) /\ Cardinality(B) \in 0 .. p.n
       /\ \A x \in B : Rank(B, x) \in 0 .. Cardinality(B) - 1
       /\ \A x, y \in B : Rank(B, x) = Rank(B, y) => x = y
       /\ \A e \in 0 .. Cardinality(B) - 1 : \E x \in B : Rank(B, x) = e
    BY <1>2, <1>3, RanksAre
<1>14. Item(p, Locations, l, c) = CHOOSE x \in B : c = Rank(B, x)
    BY DEF Item, Rank, B
<1>15. ASSUME c < Cardinality(B)
       PROVE  Item(p, Locations, l, c) \in B /\ Rank(B, Item(p, Locations, l, c)) = c
    <2>1. c \in 0 .. Cardinality(B) - 1
        BY <1>15, <1>3, <1>13
    <2>2. \E x \in B : c = Rank(B, x)
        BY <2>1, <1>13
    <2> QED BY <2>2, <1>14
<1>16. \A x \in B : Raw(x, i) \in Int
    <2> TAKE x \in B
    <2>1. x \in Int /\ i \in Int
        BY <1>3
    <2> QED BY <2>1 DEF Raw
<1>17. BatchEncode(p, Locations)[k][pos] \in Int
    BY <1>11, <1>12, <1>15, <1>16
<1>18. ASSUME c = ColumnAt(q)
       PROVE  BatchEncode(p, Locations)[k][pos] = Raw(q, i)
    <2>1. c = Rank(B, q)
        BY <1>18 DEF ColumnAt, B, l
    <2>2. c < Cardinality(B)
        BY <2>1, <1>1, <1>13 DEF B
    <2>3. Item(p, Locations, l, c) = q
        BY <2>1, <2>2, <1>1, <1>13, <1>15 DEF B
    <2>4. ~ (l >= p.tableSize)
        BY <1>1, <1>2 DEF l
    <2> QED BY <2>2, <2>3, <2>4, <1>11, <1>12
<1> QED BY <1>17, <1>18

(* Where the test reads a slot of the payload, the answer has it.          *)
LEMMA BatchAnswered ==
    ASSUME BatchShape, PlacesRight, BatchAsked, Word \in Nat \ {0},
           NEW q \in Range(batch), Sound(q), NEW i \in 0 .. p.slots - 1
    PROVE  BatchSlot(p, Place(q), GenBatchResponse(p, Locations, query), i) = Raw(q, i)
<1> DEFINE columns == ColSize(p, Locations)
           l == Place(q)
           d == l \div N
           ct == i \div p.numSlot
           s == i % p.numSlot
           k == (p.bundles * ct) + d
           pos == s + ((l % N) * p.numSlot)
           sel == GenSelectionVectorBatch(p, Locations, query)
           db == BatchEncode(p, Locations)
           F == [c \in 0 .. columns - 1 |->
                   sel[d + (p.bundles * c)][pos]
                     * db[(ct * p.bundles * columns) + d + (c * p.bundles)][pos]]
           col == ColumnAt(q)
<1>0. InTable(q)
    BY DEF Sound
<1>1. l \in 0 .. p.tableSize - 1
    BY <1>0, PlaceIs
<1>2. /\ p.bundles \in Nat \ {0} /\ p.numSlot \in Nat \ {0} /\ p.tableSize \in Nat /\ p.slots \in Nat
      /\ d \in 0 .. p.bundles - 1 /\ ct \in 0 .. p.compressSlots - 1 /\ p.compressSlots \in Nat
      /\ \A j \in 0 .. p.numSlot - 1 : j + ((l % N) * p.numSlot) \in Slots
    BY <1>1 DEF BatchShape
<1>3. N \in Nat \ {0} /\ s \in 0 .. p.numSlot - 1 /\ l % N \in 0 .. N - 1
    <2>1. N \in Nat \ {0} /\ l \in Int /\ i \in Int
        BY <1>1, <1>2, DegreeIs
    <2> HIDE DEF l
    <2> QED BY <2>1, <1>2, DivMod
<1>4. pos \in Slots
    BY <1>2, <1>3
<1>5. pos \div p.numSlot = l % N /\ pos % p.numSlot = s
    <2> DEFINE y == l % N
    <2>1. y \in 0 .. N - 1 /\ pos = s + (y * p.numSlot)
        BY <1>3
    <2> HIDE DEF y, s, pos
    <2>2. y \in Int /\ y * p.numSlot = p.numSlot * y /\ p.numSlot * y \in Int
        BY <2>1, <1>2, <1>3
    <2>3. pos = p.numSlot * y + s /\ pos \in Int
        BY <2>1, <2>2, <1>3, <1>2
    <2>4. pos \div p.numSlot = y /\ pos % p.numSlot = s
        <3>1. p.numSlot \in Nat \ {0} /\ s \in 0 .. p.numSlot - 1
            BY <1>2, <1>3
        <3>2. pos \div p.numSlot = y
            BY <2>2, <2>3, <3>1, DivUnique
        <3>3. pos % p.numSlot = s
            BY <2>2, <2>3, <3>1, ModUnique
        <3> QED BY <3>2, <3>3
    <2> QED BY <2>4 DEF y
<1>6. k \in 0 .. (p.compressSlots * p.bundles) - 1 /\ k \div p.bundles = ct /\ k % p.bundles = d
    <2> HIDE DEF ct, d
    <2> QED BY <1>2, Digits
<1>7. ASSUME NEW c \in 0 .. columns - 1
      PROVE  /\ col \in 0 .. columns - 1
             /\ sel[d + (p.bundles * c)][pos] = IF c = col THEN 1 ELSE 0
    <2> HIDE DEF pos
    <2> QED BY <1>4, <1>5, ColumnSelected
<1>8. ASSUME NEW c \in 0 .. columns - 1
      PROVE  /\ db[(ct * p.bundles * columns) + d + (c * p.bundles)][pos] \in Int
             /\ c = col => db[(ct * p.bundles * columns) + d + (c * p.bundles)][pos] = Raw(q, i)
    <2> HIDE DEF pos
    <2> QED BY <1>0, <1>4, <1>5, ColumnEncoded DEF s
<1>9. col \in 0 .. columns - 1
    <2>1. col \in 0 .. Cardinality(Bucket(p, Locations, l)) - 1 /\ q \in Bucket(p, Locations, l)
          /\ Cardinality(Bucket(p, Locations, l)) \in Nat
        <3>1. p.n \in Nat /\ Bucket(p, Locations, l) \in SUBSET (0 .. p.n - 1)
            BY BucketsFit DEF BatchShape
        <3>2. q \in Bucket(p, Locations, l)
            BY <1>0, PlaceIs
        <3> DEFINE B == Bucket(p, Locations, l)
        <3>3. B \in SUBSET (0 .. p.n - 1) /\ q \in B
            BY <3>1, <3>2
        <3> HIDE DEF B
        <3>4. Rank(B, q) \in 0 .. Cardinality(B) - 1 /\ Cardinality(B) \in 0 .. p.n
            BY <3>1, <3>3, RanksAre
        <3>5. Rank(B, q) \in 0 .. Cardinality(B) - 1 /\ Cardinality(B) \in Nat
            BY <3>1, <3>4
        <3> QED BY <3>2, <3>5 DEF ColumnAt, B
    <2>2. columns \in Nat /\ Cardinality(Bucket(p, Locations, l)) <= columns
        BY <1>1, BucketsFit
    <2> HIDE DEF columns, col
    <2> QED BY <2>1, <2>2
<1> HIDE DEF pos, k, sel, db, ct, d
<1>10. BatchSlot(p, l, GenBatchResponse(p, Locations, query), i) = SumFunction(F)
    <2>1. BatchSlot(p, l, GenBatchResponse(p, Locations, query), i)
            = GenBatchResponse(p, Locations, query)[k][pos]
        BY DEF BatchSlot, k, pos, ct, d
    <2>2. GenBatchResponse(p, Locations, query) = InnerProduct(p, Locations, sel, db)
        BY DEF GenBatchResponse, sel, db
    <2>3. InnerProduct(p, Locations, sel, db)[k][pos] =
            SumFunction([c \in 0 .. columns - 1 |->
                   sel[(k % p.bundles) + (p.bundles * c)][pos]
                     * db[((k \div p.bundles) * p.bundles * columns) + (k % p.bundles) + (c * p.bundles)][pos]])
        BY <1>4, <1>6 DEF InnerProduct
    <2> QED BY <2>1, <2>2, <2>3, <1>6
<1> HIDE DEF columns, col
<1>11. \A c \in 0 .. columns - 1 : F[c] \in Int /\ (c # col => F[c] = 0) /\ (c = col => F[c] = Raw(q, i))
    <2> TAKE c \in 0 .. columns - 1
    <2> DEFINE u == sel[d + (p.bundles * c)][pos]
               v == db[(ct * p.bundles * columns) + d + (c * p.bundles)][pos]
    <2>1. F[c] = u * v
        OBVIOUS
    <2>2. u = (IF c = col THEN 1 ELSE 0) /\ v \in Int /\ (c = col => v = Raw(q, i))
        BY <1>7, <1>8
    <2> HIDE DEF F, u, v
    <2>3. c = col => u * v = v
        BY <2>2
    <2>4. c # col => u * v = 0
        BY <2>2
    <2> QED BY <2>1, <2>2, <2>3, <2>4
<1>12. SumFunction(F) = SumOn(0 .. columns - 1, F)
    <2>1. F = [c \in 0 .. columns - 1 |-> F[c]]
        OBVIOUS
    <2> HIDE DEF F
    <2> QED BY <2>1 DEF SumOn
<1> HIDE DEF F
<1>13. IsFiniteSet(0 .. columns - 1)
    <2> DEFINE zero == 0
    <2>1. zero \in Int /\ columns - 1 \in Int
        BY BucketsFit DEF columns
    <2> HIDE DEF zero
    <2>2. IsFiniteSet(zero .. columns - 1)
        BY <2>1, FS_Interval
    <2> QED BY <2>2 DEF zero
<1>14. SumOn(0 .. columns - 1, F) = F[col]
    BY <1>9, <1>11, <1>13, SumOne
<1> QED BY <1>9, <1>10, <1>11, <1>12, <1>14

(* The query and the answer of a batch are what the messages say, and the  *)
(* parameters those of a batch.                                            *)
BatchInv ==
    job.kind = "batch" =>
        /\ p.n = job.payloads /\ BatchShape
        /\ homeless # {} => pc = "insert"
        /\ pc \in {"asked", "answered"} => BatchAsked
        /\ pc = "answered" => answer = GenBatchResponse(p, Locations, query)

(* A batch's client and server start with such parameters.                 *)
LEMMA BatchInvInit == PiranaInit => BatchInv
<1> SUFFICES ASSUME PiranaInit, job.kind = "batch" PROVE BatchInv
    BY DEF BatchInv
<1>1. PICK s \in Batched :
        /\ job = [kind |-> "batch", payloads |-> s.payloads, queries |-> s.queries]
        /\ p = BatchParms(s.payloads, s.bytes, s.queries, s.compress) /\ hash \in Hashes
    <2>1. \A s : job # [kind |-> "single", payloads |-> s]
        BY DEF PiranaInit
    <2> QED BY <2>1 DEF PiranaInit
<1>2. BatchShape
    BY <1>1, BatchShapes
<1>3. p.n = s.payloads
    BY <1>1 DEF BatchParms
<1> QED BY <1>1, <1>2, <1>3 DEF BatchInv, PiranaInit

(* Nothing changes the table between a query and its answer.               *)
LEMMA BatchInvStep == BatchInv /\ [PiranaNext]_piranaVars => BatchInv'
<1> SUFFICES ASSUME BatchInv, [PiranaNext]_piranaVars, job'.kind = "batch" PROVE BatchInv'
    BY DEF BatchInv
<1>1. job' = job /\ p' = p /\ hash' = hash
    BY DEF PiranaNext, Server, SingleQuery, SingleResponse, BeginBatch, Insert, LeaveOut,
           BatchQuery, BatchResponse, Again, Settle, Kick, piranaVars, cuckoo
<1>2. Locations' = Locations /\ BatchShape' /\ p'.n = job'.payloads
    BY <1>1 DEF Locations, BatchInv, BatchShape
<1>3. ASSUME UNCHANGED <<table, batch, asked, query>>, BatchAsked PROVE BatchAsked'
    <2>1. \A q : Place(q)' = Place(q)
        BY <1>3 DEF Place, InTable
    <2>2. \A q : QueryKey(q)' = QueryKey(q)
        BY <1>1, <2>1 DEF QueryKey
    <2> QED BY <1>1, <1>2, <1>3, <2>1, <2>2 DEF BatchAsked
<1>4. ASSUME UNCHANGED <<table, homeless, batch, asked, query, answer, pc>>
      PROVE  BatchInv'
    BY <1>1, <1>2, <1>3, <1>4 DEF BatchInv
<1>5. ASSUME pc' \in {"ready", "insert", "fault"}, homeless' # {} => pc' = "insert"
      PROVE  BatchInv'
    BY <1>2, <1>5 DEF BatchInv
<1>6. CASE Server \/ Again
    <2>1. homeless = {}
        BY <1>1, <1>6 DEF Server, Again, BatchInv
    <2> QED BY <1>5, <1>6, <2>1 DEF Server, Again, cuckoo
<1>7. ASSUME NEW items, BeginBatch(items)
      PROVE  BatchInv'
    BY <1>5, <1>7 DEF BeginBatch
<1>8. CASE Insert
    BY <1>5, <1>8 DEF Insert
<1>9. ASSUME homeless # {}, pc' = pc
      PROVE  BatchInv'
    <2>1. pc = "insert"
        BY <1>1, <1>9 DEF BatchInv
    <2> QED BY <2>1, <1>5, <1>9
<1>10. ASSUME NEW l, Settle(l) \/ Kick(l)
       PROVE  BatchInv'
    BY <1>9, <1>10 DEF Settle, Kick
<1>11. CASE LeaveOut
    BY <1>9, <1>11 DEF LeaveOut
<1>12. CASE BatchQuery
    <2>1. /\ table' = table /\ batch' = batch /\ homeless' = {} /\ pc' = "asked"
          /\ asked' = {[place |-> Place(q), key |-> QueryKey(q)] : q \in Range(batch)}
          /\ query' = GenBatchQuery(p, Locations, asked')
        BY <1>12 DEF BatchQuery, cuckoo
    <2>2. \A q : Place(q)' = Place(q)
        BY <2>1 DEF Place, InTable
    <2>3. \A q : QueryKey(q)' = QueryKey(q)
        BY <1>1, <2>2 DEF QueryKey
    <2>4. BatchAsked'
        BY <1>1, <1>2, <2>1, <2>2, <2>3 DEF BatchAsked
    <2> QED BY <1>2, <2>1, <2>4 DEF BatchInv
<1>13. CASE BatchResponse
    <2>1. /\ pc = "asked" /\ pc' = "answered" /\ UNCHANGED <<table, homeless, batch, asked, query>>
          /\ answer' = GenBatchResponse(p, Locations, query)
        BY <1>13 DEF BatchResponse, cuckoo
    <2>2. BatchAsked /\ homeless = {}
        BY <1>1, <2>1 DEF BatchInv
    <2>3. BatchAsked'
        BY <1>3, <2>1, <2>2
    <2> QED BY <1>1, <1>2, <2>1, <2>2, <2>3 DEF BatchInv
<1>14. CASE SingleResponse \/ \E index : SingleQuery(index)
    BY <1>1, <1>14 DEF SingleResponse, SingleQuery
<1>15. CASE UNCHANGED piranaVars
    BY <1>4, <1>15 DEF piranaVars, cuckoo
<1> QED BY <1>6, <1>7, <1>8, <1>10, <1>11, <1>12, <1>13, <1>14, <1>15 DEF PiranaNext

(* Every sound query of every batch reads its payload.                     *)
THEOREM BatchesAreRight == PiranaSpec => []BatchRight
<1>1. TableInv /\ BatchInv => BatchRight
    <2> SUFFICES ASSUME TableInv, BatchInv, pc = "answered", job.kind = "batch",
                        NEW q \in Range(batch), Sound(q), NEW i \in 0 .. p.slots - 1
                 PROVE  BatchSlot(p, Place(q), answer, i) = Raw(q, i)
        BY DEF BatchRight
    <2>1. /\ p.n = job.payloads /\ BatchShape /\ BatchAsked
          /\ answer = GenBatchResponse(p, Locations, query)
        BY DEF BatchInv
    <2>2. PlacesRight
        BY <2>1 DEF PlacesRight, BatchShape, TableInv, TableRight
    <2>3. Word \in Nat \ {0}
        BY PiranaAssumption
    <2> QED BY <2>1, <2>2, <2>3, BatchAnswered
<1> QED BY <1>1, TableInvInit, TableInvStep, BatchInvInit, BatchInvStep, PTL DEF PiranaSpec

-----------------------------------------------------------------------------
(* Pirana: the parameters of one query.                                    *)

\* Half of the turns keep the rows of a ciphertext, half change them, and the
\* steps of one half fill a row.
TurnsRight ==
    /\ p.slots \in Nat /\ p.rotateStep \in Nat \ {0}
    /\ p.preRotate \div 2 \in Nat \ {0} /\ p.preRotate = 2 * (p.preRotate \div 2)
    /\ Half = (p.preRotate \div 2) * p.rotateStep

\* A database of at least N rows, in columns of N.
WideShape(payloads) ==
    /\ TurnsRight
    /\ RepeatTime(p) = 1 /\ p.n \in Nat /\ p.n >= N
    /\ p.columns \in Nat \ {0} /\ p.columns * N >= payloads
    /\ p.encodingSize = CalculateEncodingSize(p.columns)

\* A smaller one: p.n rows are repeated so often that both rows of a ciphertext
\* are full, and so many of the turns are left.
NarrowShape(payloads) ==
    /\ TurnsRight
    /\ RepeatTime(p) # 1 /\ p.columns = 1 /\ p.encodingSize = 1
    /\ p.n \in Nat \ {0} /\ p.n < N /\ p.n >= payloads
    /\ RealRotate(p) \in Nat \ {0} /\ p.n = RealRotate(p) * p.rotateStep
    /\ \E copies \in Nat \ {0} : /\ Half = copies * p.n
                                 /\ p.preRotate \div 2 = RealRotate(p) * copies

(* Twice a power of two has no other divisors than powers of two.          *)
LEMMA DivisorStep ==
    ASSUME NEW z \in Nat \ {0}, NEW y \in Nat, y = 2 * z, y \in Powers,
           \A u, v \in Nat : u * v = z => u \in Powers
    PROVE  \A u, v \in Nat : u * v = y => u \in Powers
<1> SUFFICES ASSUME NEW u \in Nat, NEW v \in Nat, u * v = y PROVE u \in Powers
    OBVIOUS
<1> DEFINE hu == u \div 2
           hv == v \div 2
<1>1. /\ hu \in Nat /\ hv \in Nat
      /\ u = 2 * hu \/ u = 2 * hu + 1
      /\ v = 2 * hv \/ v = 2 * hv + 1
    OBVIOUS
<1> HIDE DEF hu, hv
<1>2. CASE u = 2 * hu
    <2>1. u * v = 2 * (hu * v) /\ hu * v \in Nat
        BY <1>1, <1>2
    <2>2. hu * v = z
        BY <2>1
    <2>3. hu \in Powers
        BY <1>1, <2>2
    <2>4. v >= 1 /\ u <= y
        <3>1. v # 0
            BY <2>1
        <3>2. v >= 1
            BY <3>1
        <3>3. u * v >= u
            BY <3>2
        <3> QED BY <3>2, <3>3
    <2>5. y <= 32768
        BY PowersAre
    <2>6. u <= 32768
        BY <2>4, <2>5
    <2> QED BY <1>2, <2>3, <2>6, PowersAre
<1>3. CASE v = 2 * hv
    <2>1. u * v = 2 * (u * hv) /\ u * hv \in Nat
        BY <1>1, <1>3
    <2>2. u * hv = z
        BY <2>1
    <2> QED BY <1>1, <2>2
<1>4. CASE u = 2 * hu + 1 /\ v = 2 * hv + 1
    <2>1. u * v = 2 * (hu * v) + v /\ hu * v \in Nat
        BY <1>1, <1>4
    <2> DEFINE m == hu * v
    <2> HIDE DEF m
    <2>2. y = 2 * m + (2 * hv + 1) /\ m \in Nat
        BY <1>4, <2>1 DEF m
    <2> QED BY <1>1, <2>2
<1> QED BY <1>1, <1>2, <1>3, <1>4

(* Nor has any power of two.                                               *)
LEMMA DivisorsArePowers ==
    ASSUME NEW y \in Powers, NEW u \in Nat, NEW v \in Nat, u * v = y
    PROVE  u \in Powers
<1> DEFINE Good(z) == \A w, x \in Nat : w * x = z => w \in Powers
<1>1. Good(1)
    <2> SUFFICES ASSUME NEW w \in Nat, NEW x \in Nat, w * x = 1 PROVE w \in Powers
        OBVIOUS
    <2>1. w >= 1 /\ x >= 1
        <3>1. w # 0 /\ x # 0
            OBVIOUS
        <3> QED BY <3>1
    <2>2. w * x >= w
        BY <2>1
    <2>3. w = 1
        BY <2>1, <2>2
    <2> QED BY <2>3, PowersAre
<1>2. ASSUME NEW z \in Nat \ {0}, NEW x \in Nat, x = 2 * z, x \in Powers, Good(z)
      PROVE  Good(x)
    BY <1>2, DivisorStep
<1> HIDE DEF Good
<1>3. \A x \in Powers : x \in Nat
    BY PowersAre
<1>4. Good(2) /\ Good(4) /\ Good(8) /\ Good(16) /\ Good(32)
    <2>1. Good(2)
        BY <1>1, <1>2, PowersAre
    <2>2. Good(4)
        BY <2>1, <1>2, PowersAre
    <2>3. Good(8)
        BY <2>2, <1>2, PowersAre
    <2>4. Good(16)
        BY <2>3, <1>2, PowersAre
    <2>5. Good(32)
        BY <2>4, <1>2, PowersAre
    <2> QED BY <2>1, <2>2, <2>3, <2>4, <2>5
<1>5. Good(64) /\ Good(128) /\ Good(256) /\ Good(512) /\ Good(1024)
    <2>1. Good(64)
        BY <1>4, <1>2, PowersAre
    <2>2. Good(128)
        BY <2>1, <1>2, PowersAre
    <2>3. Good(256)
        BY <2>2, <1>2, PowersAre
    <2>4. Good(512)
        BY <2>3, <1>2, PowersAre
    <2>5. Good(1024)
        BY <2>4, <1>2, PowersAre
    <2> QED BY <2>1, <2>2, <2>3, <2>4, <2>5
<1>6. Good(2048) /\ Good(4096) /\ Good(8192) /\ Good(16384) /\ Good(32768)
    <2>1. Good(2048)
        BY <1>5, <1>2, PowersAre
    <2>2. Good(4096)
        BY <2>1, <1>2, PowersAre
    <2>3. Good(8192)
        BY <2>2, <1>2, PowersAre
    <2>4. Good(16384)
        BY <2>3, <1>2, PowersAre
    <2>5. Good(32768)
        BY <2>4, <1>2, PowersAre
    <2> QED BY <2>1, <2>2, <2>3, <2>4, <2>5
<1>7. Good(y)
    BY <1>1, <1>4, <1>5, <1>6, PowersAre
<1> QED BY <1>7 DEF Good

(* The rotations of a query are no fewer than the times that a database    *)
(* fits into the slots, and no fewer than 1.                               *)
LEMMA RotationsAre ==
    ASSUME NEW payloads \in Nat \ {0}, NEW bytes
    PROVE  LET q == SingleParms(payloads, bytes)
           IN  /\ q.preRotate \in Nat \ {0} /\ q.preRotate >= N \div payloads
               /\ q.preRotate \in Powers \/ q.preRotate = N \div payloads
               /\ N \div payloads \in {0, 1} => q.preRotate \in Powers
               /\ N \div payloads \in 0 .. N
<1> DEFINE slots == PayloadSlots(bytes, 31)
           columns == Columns(payloads)
           chosen == ChooseRotateParms(slots, columns)
           times == N \div payloads
           S == {chosen, times}
           q == SingleParms(payloads, bytes)
<1>1. q.preRotate = Max(S)
    BY DEF SingleParms
<1>2. chosen \in Powers
    BY RotatesChosen
<1>3. times \in 0 .. N
    BY DegreeIs, QuotientBound
<1>4. chosen \in Nat \ {0}
    BY <1>2, PowersAre
<1> HIDE DEF chosen, times, q
<1>5. S \in SUBSET Nat /\ S # {} /\ IsFiniteSet(S)
    <2>1. IsFiniteSet({chosen}) /\ S = {chosen} \cup {times}
        BY FS_Singleton
    <2>2. IsFiniteSet(S)
        BY <2>1, FS_AddElement
    <2> QED BY <1>3, <1>4, <2>2, DegreeIs
<1>6. Max(S) \in S /\ \A x \in S : x <= Max(S)
    <2> HIDE DEF S
    <2> QED BY <1>5, MaxIs
<1>7. chosen <= Max(S) /\ times <= Max(S) /\ Max(S) \in {chosen, times}
    BY <1>6
<1>8. Max(S) \in Nat \ {0}
    BY <1>3, <1>4, <1>7
<1>9. times \in {0, 1} => Max(S) \in Powers
    BY <1>2, <1>3, <1>4, <1>7, PowersAre
<1> QED BY <1>1, <1>2, <1>3, <1>7, <1>8, <1>9 DEF q, times

(* What a number of rotations that divides the degree makes of the rows.   *)
LEMMA TurnsAre ==
    ASSUME NEW rotate \in Powers, rotate # 1, N % rotate = 0
    PROVE  LET hf == rotate \div 2
               step == N \div rotate
           IN  /\ hf \in Nat \ {0} /\ rotate = 2 * hf
               /\ step \in Nat \ {0} /\ Half = hf * step /\ N = rotate * step
<1> DEFINE hf == rotate \div 2
           step == N \div rotate
<1>1. hf \in Nat \ {0} /\ rotate = 2 * hf /\ rotate \in Nat \ {0}
    BY PowersAre
<1>2. N = rotate * step /\ step \in 0 .. N
    <2>1. N = rotate * step + (N % rotate) /\ step \in Int
        BY <1>1, DegreeIs, DivMod
    <2>2. step \in 0 .. N
        BY <1>1, DegreeIs, QuotientBound
    <2> HIDE DEF step
    <2>3. rotate * step \in Int
        BY <1>1, <2>1
    <2> QED BY <2>1, <2>2, <2>3
<1> HIDE DEF hf, step
<1>3. step # 0
    BY <1>1, <1>2, DegreeIs
<1>4. rotate * step = 2 * (hf * step) /\ hf * step \in Int
    BY <1>1, <1>2
<1>5. Half = hf * step
    BY <1>2, <1>4, DegreeIs
<1> QED BY <1>1, <1>2, <1>3, <1>5, DegreeIs DEF hf, step

(* The slots of a payload are a number.                                    *)
LEMMA PayloadSlotsAre ==
    ASSUME NEW bytes \in Nat
    PROVE  PayloadSlots(bytes, 31) \in Nat
BY DEF PayloadSlots, CeilDiv

(* The parameters of a database of more than half of the degree.           *)
LEMMA WideShapes ==
    ASSUME NEW payloads \in 1 .. 2^30, NEW bytes \in Nat, p = SingleParms(payloads, bytes),
           N % p.preRotate = 0, ~ (RepeatTime(p) = 1 /\ p.preRotate = 1), payloads > Half
    PROVE  WideShape(payloads)
<1>0. payloads \in Nat \ {0}
    <2> DEFINE top == 2^30
    <2>1. top \in Nat
        BY WordPowersAre
    <2>2. payloads \in 1 .. top
        OBVIOUS
    <2> HIDE DEF top
    <2> QED BY <2>1, <2>2
<1>1. /\ p.n = NextPowerOf2(payloads) /\ p.slots = PayloadSlots(bytes, 31)
      /\ p.columns = CeilDiv(payloads, N) /\ p.rotateStep = N \div p.preRotate
      /\ p.encodingSize = IF p.n < N THEN 1 ELSE CalculateEncodingSize(p.columns)
    BY DEF SingleParms, Columns
<1>2. p.n \in Nat /\ p.n >= payloads /\ (p.n \in Powers \/ p.n > 32768)
    <2>1. p.n \in WordPowers /\ p.n >= payloads
        BY <1>1, NextPowerIs
    <2>2. \A y \in WordPowers : y \in Nat /\ (y \in Powers \/ y > 32768)
        BY WordPowersAre
    <2> QED BY <2>1, <2>2
<1>3. p.n >= N /\ p.n \in Nat
    <2>1. p.n > Half /\ p.n \in Nat
        BY <1>0, <1>2, DegreeIs
    <2>2. CASE p.n \in Powers
        <3>1. 2 * p.n > N
            BY <2>1, DegreeIs
        <3>2. \A x, y \in Powers : 2 * x > y => x >= y
            BY PowersAre
        <3> QED BY <2>1, <2>2, <3>1, <3>2, DegreeIs
    <2>3. CASE p.n > 32768
        BY <2>1, <2>3, DegreeIs, PowersAre
    <2> QED BY <1>2, <2>2, <2>3
<1>4. RepeatTime(p) = 1
    <2>1. CASE N < p.n
        BY <2>1 DEF RepeatTime
    <2>2. CASE ~ (N < p.n)
        <3>1. p.n = N /\ N \div N = 1
            BY <1>3, <2>2, DegreeIs
        <3> QED BY <2>2, <3>1 DEF RepeatTime
    <2> QED BY <2>1, <2>2
<1>5. N \div payloads \in {0, 1}
    <2> DEFINE d == N \div payloads
    <2>1. N = payloads * d + (N % payloads) /\ N % payloads \in 0 .. payloads - 1
        BY <1>0, DegreeIs, DivMod
    <2>2. d \in 0 .. N
        BY <1>0, DegreeIs, QuotientBound
    <2> HIDE DEF d
    <2>3. ASSUME d >= 2 PROVE FALSE
        <3>1. payloads * d >= payloads * 2 /\ payloads * d \in Int
            BY <1>0, <2>2, <2>3, DegreeIs
        <3> QED BY <1>0, <2>1, <3>1, DegreeIs
    <2>4. d \in {0, 1}
        BY <2>2, <2>3, DegreeIs
    <2> QED BY <2>4 DEF d
<1>6. p.preRotate \in Powers /\ p.preRotate # 1
    <2>1. p.preRotate \in Powers
        BY <1>0, <1>5, RotationsAre
    <2> QED BY <1>4, <2>1
<1>7. TurnsRight
    <2>1. p.slots \in Nat
        BY <1>1, PayloadSlotsAre
    <2> QED BY <1>1, <1>6, <2>1, TurnsAre DEF TurnsRight
<1>8. p.columns \in Nat \ {0} /\ p.columns * N >= payloads
    <2>1. p.columns \in Nat /\ N * p.columns >= payloads
        BY <1>0, <1>1, DegreeIs, CeilDivIs
    <2>2. p.columns # 0
        BY <1>0, <2>1, DegreeIs
    <2>3. N * p.columns = p.columns * N
        BY <2>1, DegreeIs
    <2> QED BY <2>1, <2>2, <2>3
<1>9. p.encodingSize = CalculateEncodingSize(p.columns)
    BY <1>1, <1>3, DegreeIs
<1> QED BY <1>3, <1>4, <1>7, <1>8, <1>9 DEF WideShape

(* Powers of two that divide one another: how often the smaller fits.      *)
LEMMA PowersFit ==
    ASSUME NEW x \in Powers, NEW y \in Powers, x <= y
    PROVE  /\ x \in Nat \ {0} /\ y \in Nat \ {0} /\ y \div x \in Powers
           /\ y \div x \in Nat \ {0} /\ y = x * (y \div x)
<1> DEFINE d == y \div x
<1>1. x \in Nat \ {0} /\ y \in Nat \ {0}
    BY PowersAre
<1>2. y % x = 0 /\ d \in Powers
    BY PowersDivide
<1>3. y = x * d + (y % x) /\ d \in Int
    BY <1>1, DivMod
<1>4. d \in Nat \ {0}
    BY <1>2, PowersAre
<1> HIDE DEF d
<1>5. y = x * d
    <2>1. x * d \in Int
        BY <1>1, <1>4
    <2> QED BY <1>2, <1>3, <2>1
<1> QED BY <1>1, <1>2, <1>4, <1>5 DEF d

(* The parameters of a database of at most half of the degree.             *)
LEMMA NarrowShapes ==
    ASSUME NEW payloads \in 1 .. 2^30, NEW bytes \in Nat, p = SingleParms(payloads, bytes),
           N % p.preRotate = 0, payloads <= Half
    PROVE  NarrowShape(payloads)
<1> DEFINE n == p.n
           rotate == p.preRotate
           times == N \div n
           real == rotate \div times
           copies == times \div 2
           step == p.rotateStep
           hf == rotate \div 2
<1>0. payloads \in Nat \ {0}
    <2> DEFINE top == 2^30
    <2>1. top \in Nat
        BY WordPowersAre
    <2>2. payloads \in 1 .. top
        OBVIOUS
    <2> HIDE DEF top
    <2> QED BY <2>1, <2>2
<1>1. /\ n = NextPowerOf2(payloads) /\ p.slots = PayloadSlots(bytes, 31)
      /\ p.columns = CeilDiv(payloads, N) /\ step = N \div rotate
      /\ p.encodingSize = IF n < N THEN 1 ELSE CalculateEncodingSize(p.columns)
    BY DEF SingleParms, Columns
<1>2. Half \in Powers /\ Half \in WordPowers
    <2>1. \A x \in Powers : x >= 2 => x \div 2 \in Powers
        BY PowersAre
    <2>2. Half \in Powers
        BY <2>1, DegreeIs DEF Half
    <2> QED BY <2>2, WordPowersAre
<1>3. n \in Powers /\ n \in Nat \ {0} /\ n >= payloads /\ n <= Half
    <2>1. n \in WordPowers /\ n >= payloads /\ n <= Half
        BY <1>1, <1>2, NextPowerIs
    <2>0. \A y \in WordPowers : y \in Nat /\ (y \in Powers \/ y > 32768)
        BY WordPowersAre
    <2>2. n \in Nat /\ (n \in Powers \/ n > 32768)
        BY <2>0, <2>1
    <2>3. Half <= 32768 /\ Half \in Nat
        BY <1>2, PowersAre
    <2> QED BY <1>0, <2>1, <2>2, <2>3
<1>4. n < N /\ n <= N
    BY <1>3, DegreeIs
<1>5. times \in Powers /\ times \in Nat \ {0} /\ N = n * times
    BY <1>3, <1>4, DegreeIs, PowersFit
<1>6. times >= 2 /\ times = 2 * copies /\ copies \in Nat \ {0}
    <2> HIDE DEF times
    <2>1. ASSUME times = 1 PROVE FALSE
        <3>1. N = n
            BY <1>3, <1>5, <2>1
        <3> QED BY <1>4, <3>1, DegreeIs
    <2>2. times >= 2
        BY <1>5, <2>1
    <2> QED BY <1>5, <2>2, PowersAre
<1>7. rotate \in Nat \ {0} /\ rotate >= N \div payloads /\ N \div payloads \in 0 .. N
    BY <1>0, RotationsAre
<1>8. N = rotate * step /\ step \in Nat
    <2> HIDE DEF rotate, step
    <2>0. N \in Nat /\ N \in Int /\ rotate \in Nat \ {0}
        BY <1>7, DegreeIs
    <2>1. N = rotate * (N \div rotate) + (N % rotate)
        BY <2>0, DivMod
    <2>2. step \in 0 .. N
        BY <1>1, <2>0, QuotientBound
    <2>3. rotate * step \in Int
        BY <1>7, <2>2
    <2>4. N % rotate = 0
        BY DEF rotate
    <2> QED BY <1>1, <2>1, <2>2, <2>3, <2>4, DegreeIs
<1>9. rotate \in Powers
    BY <1>7, <1>8, DegreeIs, DivisorsArePowers
<1>10. rotate >= times
    <2>1. times <= N \div payloads
        BY <1>0, <1>3, DegreeIs, QuotientOfLess
    <2> HIDE DEF times, rotate
    <2> QED BY <1>5, <1>7, <2>1, DegreeIs
<1>11. real \in Nat \ {0} /\ rotate = times * real
    BY <1>5, <1>9, <1>10, PowersFit
<1>12. TurnsRight
    <2>1. rotate # 1
        BY <1>6, <1>10, <1>5, <1>7
    <2>2. p.slots \in Nat
        BY <1>1, PayloadSlotsAre
    <2> QED BY <1>1, <1>9, <2>1, <2>2, TurnsAre DEF TurnsRight
<1>13. RepeatTime(p) = times
    BY <1>4, <1>3, DegreeIs DEF RepeatTime
<1>14. RealRotate(p) = real
    BY <1>13 DEF RealRotate
<1>15. p.columns = 1
    <2>1. (payloads + N) - 1 = N * 1 + (payloads - 1) /\ payloads - 1 \in 0 .. N - 1
        BY <1>0, DegreeIs
    <2>2. ((payloads + N) - 1) \div N = 1
        BY <1>0, <2>1, DegreeIs, DivUnique
    <2>3. CeilDiv(payloads, N) = ((payloads + N) - 1) \div N
        BY DEF CeilDiv
    <2>4. p.columns = CeilDiv(payloads, N)
        BY <1>1
    <2> QED BY <2>2, <2>3, <2>4
<1>16. Half = copies * n /\ hf = real * copies /\ n = real * step
    <2> HIDE DEF n, rotate, times, real, copies, step
    <2>1. N = 2 * (copies * n) /\ copies * n \in Nat
        <3>1. n * times = n * (2 * copies)
            BY <1>6
        <3>2. n * (2 * copies) = 2 * (copies * n)
            BY <1>3, <1>6
        <3> QED BY <1>3, <1>5, <1>6, <3>1, <3>2
    <2>2. Half = copies * n
        BY <2>1, DegreeIs
    <2>3. rotate = 2 * (real * copies) /\ real * copies \in Nat
        BY <1>6, <1>11
    <2>4. hf = real * copies
        BY <2>3
    <2>5. n = real * step
        <3>1. times * (real * step) = N
            BY <1>5, <1>8, <1>11
        <3>2. n * times = times * n
            BY <1>3, <1>5
        <3>3. times * (real * step - n) = 0
            <4>1. times * (real * step - n) = times * (real * step) - times * n
                BY <1>3, <1>5, <1>8, <1>11
            <4>2. times * (real * step) = times * n /\ times * n \in Int
                BY <1>3, <1>5, <3>1, <3>2
            <4> QED BY <4>1, <4>2
        <3>4. real * step - n \in Int
            BY <1>3, <1>8, <1>11
        <3>5. real * step - n = 0
            BY <1>5, <3>3, <3>4, SmallMultiple
        <3> QED BY <1>3, <1>8, <1>11, <3>5
    <2> QED BY <2>2, <2>4, <2>5
<1>17. p.encodingSize = 1
    BY <1>1, <1>4
<1>18. times # 1
    <2> HIDE DEF times
    <2> QED BY <1>5, <1>6
<1> HIDE DEF n, rotate, times, real, copies, step, hf
<1>19. /\ RepeatTime(p) # 1 /\ n = RealRotate(p) * step /\ RealRotate(p) \in Nat \ {0}
       /\ hf = RealRotate(p) * copies
    BY <1>11, <1>13, <1>14, <1>16, <1>18
<1> QED BY <1>3, <1>4, <1>6, <1>12, <1>15, <1>16, <1>17, <1>19 DEF NarrowShape, n, step, hf, rotate

-----------------------------------------------------------------------------
(* Pirana: turning the two rows of a ciphertext.                           *)

(* A slot is known by its row and its place in it.                         *)
LEMMA SlotIs ==
    ASSUME NEW r \in {0, 1}, NEW o \in 0 .. Half - 1, NEW q, q = (r * Half) + o
    PROVE  q \in Slots /\ q \div Half = r /\ q % Half = o
<1>1. Half \in Nat \ {0} /\ N = 2 * Half
    BY DegreeIs
<1>2. q = Half * r + o /\ q \in Nat
    <2>1. CASE r = 0
        BY <1>1, <2>1
    <2>2. CASE r = 1
        BY <1>1, <2>2
    <2> QED BY <2>1, <2>2
<1>3. q \div Half = r
    BY <1>1, <1>2, DivUnique
<1>4. q % Half = o
    BY <1>1, <1>2, ModUnique
<1>5. q < N
    <2>1. CASE r = 0
        BY <1>1, <2>1
    <2>2. CASE r = 1
        BY <1>1, <2>2
    <2> QED BY <2>1, <2>2
<1> QED BY <1>1, <1>2, <1>3, <1>4, <1>5 DEF Slots

(* And the other way about.                                                *)
LEMMA SlotHas ==
    ASSUME NEW q \in Slots
    PROVE  /\ q \div Half \in {0, 1} /\ q % Half \in 0 .. Half - 1
           /\ q = ((q \div Half) * Half) + (q % Half) /\ q \in Nat
           /\ Half \in Nat \ {0}
<1> DEFINE r == q \div Half
           o == q % Half
<1>1. Half \in Nat \ {0} /\ N = 2 * Half /\ q \in Nat /\ q < N
    BY DegreeIs DEF Slots
<1>2. q = Half * r + o /\ o \in 0 .. Half - 1 /\ r \in Int
    BY <1>1, DivMod
<1>3. r \in 0 .. q
    BY <1>1, QuotientBound
<1> HIDE DEF r, o
<1>4. ASSUME r >= 2 PROVE FALSE
    <2>1. Half * r >= Half * 2
        BY <1>1, <1>2, <1>4
    <2>2. Half * r \in Int
        BY <1>1, <1>2
    <2> QED BY <1>1, <1>2, <2>1, <2>2
<1>5. r \in {0, 1}
    BY <1>1, <1>3, <1>4
<1>6. Half * r = r * Half
    BY <1>1, <1>2
<1> QED BY <1>1, <1>2, <1>5, <1>6 DEF r, o

\* Where the slot comes from that is at q after d turns to the left.
RowTurned(q, d) == ((q \div Half) * Half) + ((q + d) % Half)

(* A turn keeps the row.                                                   *)
LEMMA TurnIs ==
    ASSUME NEW q \in Slots, NEW d \in Int
    PROVE  /\ RowTurned(q, d) \in Slots /\ RowTurned(q, d) \div Half = q \div Half
           /\ RowTurned(q, d) % Half = (q + d) % Half
<1>1. q \div Half \in {0, 1} /\ Half \in Nat \ {0} /\ q \in Nat
    BY SlotHas
<1>2. (q + d) % Half \in 0 .. Half - 1
    <2>1. q + d \in Int
        BY <1>1
    <2> QED BY <1>1, <2>1, DivMod
<1>3. RowTurned(q, d) = ((q \div Half) * Half) + ((q + d) % Half)
    BY DEF RowTurned
<1> QED BY <1>1, <1>2, <1>3, SlotIs

(* Turns add up.                                                           *)
LEMMA TurnsAddUp ==
    ASSUME NEW q \in Slots, NEW d \in Int
    PROVE  RowTurned(q, 0) = q /\ RowTurned(RowTurned(q, d), 1) = RowTurned(q, d + 1)
<1>1. /\ Half \in Nat \ {0} /\ q \in Nat /\ q = ((q \div Half) * Half) + (q % Half)
    BY SlotHas
<1>2. RowTurned(q, 0) = q
    <2>1. q + 0 = q
        BY <1>1
    <2> QED BY <1>1, <2>1 DEF RowTurned
<1> DEFINE u == RowTurned(q, d)
<1>3. u \in Slots /\ u \div Half = q \div Half /\ u % Half = (q + d) % Half /\ u \in Nat
    BY TurnIs, SlotHas
<1> HIDE DEF u
<1>4. (u + 1) % Half = (q + (d + 1)) % Half
    <2> DEFINE y == q + d
               z == q + (d + 1)
    <2>1. y \in Int /\ z \in Int /\ z = y + 1 /\ u \in Int /\ u + 1 \in Int
        BY <1>1, <1>3
    <2>2. u % Half = y % Half
        BY <1>3
    <2> HIDE DEF y, z
    <2>0. Half \in Nat \ {0} /\ u \in Int /\ y \in Int
        BY <1>1, <2>1
    <2>3. PICK k \in Int : u = y + Half * k
        BY <2>0, <2>2, SameRemainder
    <2> DEFINE x == Half * k
    <2>4. x \in Int /\ x = Half * k
        BY <1>1
    <2> HIDE DEF x
    <2>5. u + 1 = z + x
        BY <2>1, <2>3, <2>4
    <2>6. (u + 1) % Half = z % Half
        <3>1. u + 1 \in Int /\ z \in Int
            BY <2>1
        <3> QED BY <2>0, <2>4, <2>5, <3>1, SameRemainder
    <2> QED BY <2>6 DEF z
<1>5. RowTurned(u, 1) = ((u \div Half) * Half) + ((u + 1) % Half)
    BY DEF RowTurned
<1>6. RowTurned(q, d + 1) = ((q \div Half) * Half) + ((q + (d + 1)) % Half)
    BY DEF RowTurned
<1>7. RowTurned(u, 1) = RowTurned(q, d + 1)
    BY <1>3, <1>4, <1>5, <1>6
<1> QED BY <1>2, <1>7 DEF u

(* RotateRows reads where RowTurned says.                                       *)
LEMMA RotateRowsIs ==
    ASSUME NEW v, NEW d \in Int, NEW pos \in Slots
    PROVE  RotateRows(v, d)[pos] = v[RowTurned(pos, d)]
BY DEF RotateRows, RowTurned

-----------------------------------------------------------------------------
(* Pirana: the response to one query.                                      *)

\* A sum of the response, of this ciphertext.
Summand(rotated, db, out, m) ==
    SumOfProducts(p, rotated, db, (out * (N \div p.preRotate)) + m)

TurnsOf(out) == Least(N \div p.preRotate, TotalRot(p) - (out * (N \div p.preRotate)))

(* After all turns a slot holds what the sums had there, each turned by    *)
(* the turns that came after it: where one of them only has something.     *)
LEMMA TurnedSum ==
    ASSUME NEW rotated, NEW db, NEW out, TurnsOf(out) \in Nat,
           NEW q \in Slots, NEW j \in 0 .. TurnsOf(out) - 1, NEW value \in Int,
           \A m \in 0 .. TurnsOf(out) - 1 :
               Summand(rotated, db, out, m)[RowTurned(q, TurnsOf(out) - m)] = IF m = j THEN value ELSE 0
    PROVE  Response(p, rotated, db, out)[q] = value
<1> DEFINE R == TurnsOf(out)
           G(m) == Summand(rotated, db, out, m)
           F(w) == [s \in 0 .. R |->
                       IF s = 0 THEN Filled(0) ELSE RotateRows(Plus(w[s - 1], G(s - 1)), 1)]
           acc == CHOOSE w : w = F(w)
<1>0. R \in Nat /\ j \in 0 .. R - 1
    OBVIOUS
<1>1. Response(p, rotated, db, out) = acc[R]
    BY DEF Response, TurnsOf, Summand
<1>2. \E w : w = F(w)
    <2> DEFINE Part(k, w) == \A s \in 0 .. k :
                   w[s] = IF s = 0 THEN Filled(0) ELSE RotateRows(Plus(w[s - 1], G(s - 1)), 1)
               K == {k \in 0 .. R : \E w : Part(k, w)}
    <2> HIDE DEF R, G
    <2>1. 0 \in K
        <3> DEFINE w == [s \in {0} |-> Filled(0)]
        <3>1. Part(0, w)
            OBVIOUS
        <3> HIDE DEF w, Part
        <3> QED BY <1>0, <3>1
    <2>2. ASSUME NEW k \in 0 .. R - 1, k \in K PROVE k + 1 \in K
        <3>1. PICK w : Part(k, w)
            BY <2>2
        <3> DEFINE x == [s \in 0 .. k + 1 |->
                            IF s = k + 1 THEN RotateRows(Plus(w[k], G(k)), 1) ELSE w[s]]
        <3>2. ASSUME NEW s \in 0 .. k + 1
              PROVE  x[s] = IF s = 0 THEN Filled(0) ELSE RotateRows(Plus(x[s - 1], G(s - 1)), 1)
            <4>1. CASE s = k + 1
                <5>1. s # 0 /\ s - 1 = k /\ x[s] = RotateRows(Plus(w[k], G(k)), 1) /\ x[k] = w[k]
                    BY <1>0, <4>1
                <5> QED BY <5>1
            <4>2. CASE s # k + 1
                <5>1. s \in 0 .. k /\ x[s] = w[s] /\ (s # 0 => x[s - 1] = w[s - 1])
                    BY <1>0, <4>2
                <5> QED BY <3>1, <5>1
            <4> QED BY <4>1, <4>2
        <3>3. Part(k + 1, x)
            BY <3>2
        <3> HIDE DEF x, Part
        <3> QED BY <1>0, <3>3
    <2> HIDE DEF K
    <2>3. R \in K
        BY <1>0, <2>1, <2>2, InductionUpTo
    <2>4. PICK w : Part(R, w)
        BY <2>3 DEF K
    <2> DEFINE x == [s \in 0 .. R |-> w[s]]
    <2>5. x = F(x)
        <3>1. ASSUME NEW s \in 0 .. R
              PROVE  x[s] = IF s = 0 THEN Filled(0) ELSE RotateRows(Plus(x[s - 1], G(s - 1)), 1)
            <4>1. x[s] = w[s] /\ (s # 0 => x[s - 1] = w[s - 1])
                BY <1>0
            <4> QED BY <2>4, <4>1
        <3>2. x = [s \in 0 .. R |-> x[s]]
            OBVIOUS
        <3> HIDE DEF x
        <3> QED BY <3>1, <3>2
    <2> QED BY <2>5
<1>3. acc = F(acc)
    BY <1>2
<1> HIDE DEF acc, F
<1>4. ASSUME NEW s \in 0 .. R
      PROVE  acc[s] = IF s = 0 THEN Filled(0) ELSE RotateRows(Plus(acc[s - 1], G(s - 1)), 1)
    BY <1>3 DEF F
<1> DEFINE K == {s \in 0 .. R : acc[s][RowTurned(q, R - s)] = IF s > j THEN value ELSE 0}
<1> HIDE DEF R, G
<1>5. 0 \in K
    <2>1. RowTurned(q, R - 0) \in Slots
        BY <1>0, TurnIs
    <2>2. acc[0] = Filled(0)
        BY <1>0, <1>4
    <2>3. acc[0][RowTurned(q, R - 0)] = 0
        BY <2>1, <2>2 DEF Filled
    <2> QED BY <1>0, <2>3
<1>6. ASSUME NEW s \in 0 .. R - 1, s \in K PROVE s + 1 \in K
    <2> DEFINE pos == RowTurned(q, R - (s + 1))
               from == RowTurned(q, R - s)
    <2>1. pos \in Slots /\ from \in Slots
        <3>1. R - (s + 1) \in Int /\ R - s \in Int
            BY <1>0
        <3> QED BY <3>1, TurnIs
    <2>2. RowTurned(pos, 1) = from
        <3>1. R - (s + 1) \in Int /\ (R - (s + 1)) + 1 = R - s
            BY <1>0
        <3>2. RowTurned(RowTurned(q, R - (s + 1)), 1) = RowTurned(q, (R - (s + 1)) + 1)
            BY <3>1, TurnsAddUp
        <3> QED BY <3>1, <3>2
    <2>3. acc[s + 1] = RotateRows(Plus(acc[s], G(s)), 1)
        <3>1. s + 1 \in 0 .. R /\ s + 1 # 0 /\ (s + 1) - 1 = s
            BY <1>0
        <3> QED BY <1>4, <3>1
    <2>4. G(s)[from] = IF s = j THEN value ELSE 0
        BY DEF R, G
    <2>5. acc[s][from] = IF s > j THEN value ELSE 0
        BY <1>6 DEF K
    <2> HIDE DEF pos, from
    <2>6. acc[s + 1][pos] = Plus(acc[s], G(s))[from]
        BY <2>1, <2>2, <2>3, RotateRowsIs
    <2>7. Plus(acc[s], G(s))[from] = acc[s][from] + G(s)[from]
        BY <2>1 DEF Plus
    <2>8. acc[s + 1][pos] = IF s + 1 > j THEN value ELSE 0
        <3> DEFINE u == acc[s][from]
                   v == G(s)[from]
        <3>1. acc[s + 1][pos] = u + v
            BY <2>6, <2>7
        <3>2. u = (IF s > j THEN value ELSE 0) /\ v = (IF s = j THEN value ELSE 0)
            BY <2>4, <2>5
        <3> HIDE DEF u, v
        <3>3. u + v = IF s + 1 > j THEN value ELSE 0
            BY <1>0, <3>2
        <3> QED BY <3>1, <3>3
    <2> QED BY <1>0, <2>8 DEF K, pos
<1>7. R \in K
    <2> HIDE DEF K
    <2> QED BY <1>0, <1>5, <1>6, InductionUpTo
<1>8. acc[R][RowTurned(q, R - R)] = value
    BY <1>0, <1>7 DEF K
<1>9. RowTurned(q, R - R) = q
    BY <1>0, TurnsAddUp
<1> QED BY <1>1, <1>8, <1>9 DEF R

(* Where a slot of the payload is: its ciphertext, its turn of the sums,   *)
(* and its turn of the query.                                              *)
LEMMA CountIs ==
    ASSUME TurnsRight, NEW count \in 0 .. p.slots - 1
    PROVE  LET step == p.rotateStep
               hf == p.preRotate \div 2
               out == count \div N
               j == (count % N) \div p.preRotate
               k == count % p.preRotate
           IN  /\ N \div p.preRotate = step /\ out \in Nat
               /\ out \in 0 .. CeilDiv(p.slots, N) - 1
               /\ TurnsOf(out) \in 1 .. step /\ j \in 0 .. TurnsOf(out) - 1
               /\ TurnsOf(out) = Least(TotalRot(p) - (out * step), step)
               /\ k \in 0 .. p.preRotate - 1 /\ k \div hf \in {0, 1} /\ k % hf \in 0 .. hf - 1
               /\ k = ((k \div hf) * hf) + (k % hf)
               /\ count = (((out * step) + j) * p.preRotate) + k
               /\ (out * step) + TurnsOf(out) <= TotalRot(p)
<1> DEFINE step == p.rotateStep
           rotate == p.preRotate
           hf == rotate \div 2
           out == count \div N
           rest == count % N
           j == rest \div rotate
           k == count % rotate
<1>1. /\ step \in Nat \ {0} /\ hf \in Nat \ {0} /\ rotate = 2 * hf /\ rotate \in Nat \ {0}
      /\ count \in Nat /\ p.slots \in Nat /\ count < p.slots
    BY DEF TurnsRight
<1>2. N = rotate * step /\ N \in Nat \ {0}
    <2>1. Half = hf * step /\ N = 2 * Half /\ N \in Nat \ {0}
        BY DegreeIs DEF TurnsRight
    <2> HIDE DEF rotate, step, hf
    <2>2. (2 * hf) * step = 2 * (hf * step)
        BY <1>1
    <2> QED BY <1>1, <2>1, <2>2
<1>3. count = N * out + rest /\ rest \in 0 .. N - 1 /\ out \in Nat
    <2>0. N \in Nat \ {0} /\ count \in Int
        BY <1>1, <1>2
    <2>1. count = N * out + rest /\ rest \in 0 .. N - 1
        BY <2>0, DivMod
    <2>2. out \in 0 .. count
        BY <1>1, <1>2, QuotientBound
    <2> QED BY <2>1, <2>2
<1>0. out \in 0 .. CeilDiv(p.slots, N) - 1
    BY <1>1, <1>2, CeilDivIs
<1> DEFINE kk == rest % rotate
<1>4. rest = rotate * j + kk /\ kk \in 0 .. rotate - 1 /\ j \in Nat
    <2> HIDE DEF rest, rotate
    <2>0. rotate \in Nat \ {0} /\ rest \in Int
        BY <1>1, <1>2, <1>3
    <2>1. rest = rotate * j + kk /\ kk \in 0 .. rotate - 1
        BY <2>0, DivMod
    <2>2. j \in 0 .. rest
        BY <1>1, <1>3, QuotientBound
    <2> QED BY <1>3, <2>1, <2>2
<1>h. CeilDiv(p.slots, rotate) = TotalRot(p)
    BY DEF TotalRot
<1>k. k = count % rotate
    OBVIOUS
<1>q. k = count % rotate /\ hf = rotate \div 2
    OBVIOUS
<1> HIDE DEF step, rotate, hf, out, rest, j, kk, k
<1> DEFINE s == (out * step) + j
<1>5. count = rotate * s + kk /\ s \in Nat
    <2>1. N * out = rotate * (out * step) /\ out * step \in Nat
        BY <1>1, <1>2, <1>3
    <2>2. rotate * s = rotate * (out * step) + rotate * j
        BY <1>1, <1>3, <1>4
    <2>3. rotate * (out * step) \in Int /\ rotate * j \in Int
        BY <1>1, <1>4, <2>1
    <2> QED BY <1>3, <1>4, <2>1, <2>2, <2>3
<1>6. count % rotate = kk /\ count \div rotate = s
    <2> HIDE DEF s
    <2>0. /\ rotate \in Nat \ {0} /\ count \in Int /\ s \in Int /\ kk \in 0 .. rotate - 1
          /\ count = rotate * s + kk
        BY <1>1, <1>4, <1>5
    <2>1. count % rotate = kk
        BY <2>0, ModUnique
    <2>2. count \div rotate = s
        BY <2>0, DivUnique
    <2> QED BY <2>1, <2>2
<1>7. k = kk
    BY <1>6, <1>q
<1>8. j < step
    <2>1. ASSUME j >= step PROVE FALSE
        <3>1. rotate * j >= rotate * step
            BY <1>1, <1>4, <2>1
        <3>2. rotate * j \in Int /\ rotate * step \in Int
            BY <1>1, <1>4
        <3> QED BY <1>2, <1>3, <1>4, <3>1, <3>2
    <2> QED BY <1>1, <1>4, <2>1
<1>9. TotalRot(p) \in Nat /\ s < TotalRot(p)
    <2>1. CeilDiv(p.slots, rotate) \in Nat
          /\ count \div rotate \in 0 .. CeilDiv(p.slots, rotate) - 1
        BY <1>1, CeilDivIs
    <2> QED BY <2>1, <1>h, <1>6
<1>10. N \div rotate = step
    <2>1. N = rotate * step + 0 /\ 0 \in 0 .. rotate - 1
        BY <1>1, <1>2
    <2> QED BY <1>1, <1>2, <2>1, DivUnique
<1>11. TurnsOf(out) = Least(step, TotalRot(p) - (out * step))
    BY <1>10 DEF TurnsOf, rotate
<1> DEFINE os == out * step
           R == TurnsOf(out)
<1>12. os \in Nat /\ s = os + j
    BY <1>1, <1>3
<1> HIDE DEF os
<1>13. R = Least(step, TotalRot(p) - os)
    BY <1>11 DEF os
<1> HIDE DEF R, s
<1>14. R \in 1 .. step /\ j \in 0 .. R - 1 /\ os + R <= TotalRot(p)
    BY <1>1, <1>4, <1>8, <1>9, <1>12, <1>13 DEF Least
<1>15. Least(TotalRot(p) - os, step) = R
    BY <1>1, <1>9, <1>12, <1>13 DEF Least
<1> DEFINE kd == k \div hf
           km == k % hf
<1>16. kd \in {0, 1} /\ km \in 0 .. hf - 1 /\ k = (kd * hf) + km
    <2>1. k \in 0 .. rotate - 1
        BY <1>4, <1>7
    <2>2. k = hf * kd + km /\ km \in 0 .. hf - 1 /\ kd \in Int
        BY <1>1, <2>1, DivMod
    <2>3. kd \in 0 .. k
        BY <1>1, <2>1, QuotientBound
    <2> HIDE DEF kd, km
    <2>4. ASSUME kd >= 2 PROVE FALSE
        <3>1. hf * kd >= hf * 2 /\ hf * kd \in Int
            BY <1>1, <2>2, <2>4
        <3> QED BY <1>1, <2>1, <2>2, <3>1
    <2>5. kd \in {0, 1} /\ hf * kd = kd * hf
        BY <1>1, <2>1, <2>3, <2>4
    <2> QED BY <2>2, <2>5
<1>17. count = (s * rotate) + k
    <2>1. rotate * s = s * rotate
        BY <1>1, <1>5
    <2> QED BY <1>5, <1>7, <2>1
<1>18. k \in 0 .. rotate - 1
    BY <1>4, <1>7
<1>19. (((out * step) + j) * rotate) + k = count
    BY <1>17 DEF s
<1>20. (out * step) + TurnsOf(out) <= TotalRot(p)
    BY <1>14 DEF R, os
<1>21. TurnsOf(out) = Least(TotalRot(p) - (out * step), step) /\ TurnsOf(out) \in 1 .. step
       /\ j \in 0 .. TurnsOf(out) - 1
    BY <1>14, <1>15 DEF R, os
<1>22. k \div hf \in {0, 1} /\ k % hf \in 0 .. hf - 1 /\ k = ((k \div hf) * hf) + (k % hf)
    BY <1>16
<1> QED BY <1>0, <1>3, <1>10, <1>18, <1>19, <1>20, <1>21, <1>22 DEF step, rotate, hf, out, rest, j, k

\* The slot of the response in which the test reads this slot of the payload.
OutOf(count) == count \div N
TurnOf(count) == (count % N) \div p.preRotate
CopyOf(count) == count % p.preRotate

ReadFrom(index, count) ==
    (((index \div Half) + (CopyOf(count) \div (p.preRotate \div 2))) * Half
       + ((((CopyOf(count) % (p.preRotate \div 2)) * p.rotateStep) + TurnOf(count)
             + ((index - Least(TotalRot(p) - (OutOf(count) * p.rotateStep), p.rotateStep)) % Half)) % Half)) % N

(* What row it is in, and how far it is, over whole rows, from where the   *)
(* sums of one of the turns were.                                          *)
LEMMA ReadFromIs ==
    ASSUME TurnsRight, NEW count \in 0 .. p.slots - 1, NEW index \in Nat
    PROVE  /\ ReadFrom(index, count) \in Slots
           /\ ReadFrom(index, count) \div Half
                = ((index \div Half) + (CopyOf(count) \div (p.preRotate \div 2))) % 2
           /\ \A m \in Int : \E c \in Int :
                ReadFrom(index, count) + (TurnsOf(OutOf(count)) - m)
                  = (((CopyOf(count) % (p.preRotate \div 2)) * p.rotateStep)
                       + (TurnOf(count) - m)) + (index + (Half * c))
           /\ \A reply : SingleSlot(p, index, reply, count) = reply[OutOf(count)][ReadFrom(index, count)]
<1> DEFINE hf == p.preRotate \div 2
           R == TurnsOf(OutOf(count))
           j == TurnOf(count)
           e == (CopyOf(count) % hf) * p.rotateStep
           row == (index \div Half) + (CopyOf(count) \div hf)
           offset == (index - R) % Half
           w == (e + j) + offset
           o == w % Half
           q == ReadFrom(index, count)
<1>1. /\ R \in Nat /\ j \in Nat /\ R = Least(TotalRot(p) - (OutOf(count) * p.rotateStep), p.rotateStep)
      /\ CopyOf(count) \div hf \in Nat /\ CopyOf(count) % hf \in Nat
    BY CountIs DEF OutOf, TurnOf, CopyOf
<1>2. Half \in Nat \ {0} /\ N = 2 * Half /\ N \in Nat
    BY DegreeIs
<1>3. e \in Int
    BY <1>1 DEF TurnsRight
<1>4. row \in Nat
    <2>1. index \div Half \in Nat
        BY <1>2, QuotientBound
    <2> QED BY <1>1, <2>1
<1>5. q = ((row * Half) + o) % N
    BY <1>1 DEF ReadFrom
<1>6. \A reply : SingleSlot(p, index, reply, count) = reply[OutOf(count)][q]
    BY DEF SingleSlot, ReadFrom, OutOf, TurnOf, CopyOf
<1>r. row = (index \div Half) + (CopyOf(count) \div hf)
    OBVIOUS
<1>e. e = (CopyOf(count) % hf) * p.rotateStep
    OBVIOUS
<1> HIDE DEF q, R, j, e, row
<1>7. PICK d \in Int : index - R = Half * d + offset
    <2>1. index - R \in Int
        BY <1>1
    <2> QED BY <1>2, <2>1, DivMod
<1>8. offset \in 0 .. Half - 1
    <2>1. index - R \in Int
        BY <1>1
    <2> QED BY <1>2, <2>1, DivMod
<1> HIDE DEF offset
<1>9. PICK f \in Int : w = Half * f + o
    <2>1. w \in Int
        BY <1>1, <1>3, <1>8
    <2> HIDE DEF w
    <2> QED BY <1>2, <2>1, DivMod
<1>10. o \in 0 .. Half - 1
    <2>1. w \in Int
        BY <1>1, <1>3, <1>8
    <2> HIDE DEF w
    <2> QED BY <1>2, <2>1, DivMod
<1> DEFINE side == row % 2
           g == row \div 2
<1>11. row = 2 * g + side /\ side \in {0, 1} /\ g \in Int
    BY <1>4
<1>w. w = (e + j) + offset
    OBVIOUS
<1> HIDE DEF o, w, side, g
<1> DEFINE x == (side * Half) + o
<1>12. x \in 0 .. N - 1 /\ x \in Slots /\ x \div Half = side
    <2>1. x \in Slots /\ x \div Half = side
        BY <1>10, <1>11, SlotIs
    <2> QED BY <2>1 DEF Slots
<1>13. (row * Half) + o = N * g + x
    <2>1. row * Half = (2 * g) * Half + side * Half
        BY <1>2, <1>11
    <2>2. (2 * g) * Half = N * g /\ N * g \in Int /\ side * Half \in Int
        BY <1>2, <1>11
    <2> QED BY <1>2, <1>10, <2>1, <2>2
<1> HIDE DEF x
<1>14. q = x
    <2> DEFINE z == (row * Half) + o
    <2>1. z = N * g + x /\ z \in Int /\ N \in Nat \ {0}
        BY <1>2, <1>4, <1>10, <1>13
    <2> HIDE DEF z
    <2>2. z % N = x
        BY <1>11, <1>12, <2>1, ModUnique
    <2> QED BY <1>5, <2>2 DEF z
<1>15. ASSUME NEW m \in Int
       PROVE  \E c \in Int : q + (R - m) = (e + (j - m)) + (index + (Half * c))
    <2>1. side - (d + f) \in Int
        BY <1>11
    <2> DEFINE hd == Half * d
               hfm == Half * f
               hs == side * Half
               c == side - (d + f)
    <2>2. Half * c = (hs - hd) - hfm
        BY <1>2, <1>11
    <2>3. hd \in Int /\ hfm \in Int /\ hs \in Int
        BY <1>2, <1>11
    <2>4. index - R = hd + offset /\ (e + j) + offset = hfm + o /\ q = hs + o
        BY <1>7, <1>9, <1>w, <1>14 DEF x
    <2>5. c \in Int
        BY <2>1
    <2> HIDE DEF hd, hfm, hs, c
    <2> DEFINE hc == Half * c
    <2>6. hc = (hs - hd) - hfm
        BY <2>2
    <2> HIDE DEF hc
    <2>7. q + (R - m) = (e + (j - m)) + (index + hc)
        <3>1. /\ R \in Int /\ j \in Int /\ e \in Int /\ offset \in Int /\ o \in Int /\ m \in Int
              /\ index \in Int /\ q \in Int /\ hc \in Int
            BY <1>1, <1>2, <1>3, <1>8, <1>10, <2>3, <2>4, <2>6
        <3>2. q + (R - m) = (hs + o) + (R - m)
            BY <2>3, <2>4, <3>1
        <3>3. (e + (j - m)) + (index + hc) = (((hfm + o) - offset) - m) + (((hd + offset) + R) + ((hs - hd) - hfm))
            BY <2>3, <2>4, <2>6, <3>1
        <3> QED BY <2>3, <3>1, <3>2, <3>3
    <2> QED BY <2>5, <2>7 DEF hc
<1> QED BY <1>6, <1>12, <1>14, <1>15, <1>r DEF q, R, j, e, side, row

\* The slots of the payload that one sum has.
Counts(s) ==
    {count \in s * RealRotate(p) .. ((s + 1) * RealRotate(p)) - 1 :
        count < IF RepeatTime(p) = 1 THEN p.slots ELSE TotalRot(p) * p.preRotate}

\* The sum of one of the turns of the ciphertext that has this slot.
SumAt(count, m) == (OutOf(count) * p.rotateStep) + m

(* The test reads what the products have at one slot of the payload, where *)
(* they have nothing at any other.                                         *)
LEMMA ReadRight ==
    ASSUME TurnsRight, RealRotate(p) \in Nat, NEW count \in 0 .. p.slots - 1, NEW index \in Nat,
           NEW rotated, NEW db, NEW value \in Int,
           NEW found \in Counts(SumAt(count, TurnOf(count))),
           \A m \in 0 .. TurnsOf(OutOf(count)) - 1 : \A other \in Counts(SumAt(count, m)) :
               Product(p, rotated, db, other, RowTurned(ReadFrom(index, count), TurnsOf(OutOf(count)) - m))
                 = IF m = TurnOf(count) /\ other = found THEN value ELSE 0
    PROVE  SingleSlot(p, index, MulDatabase(p, rotated, db), count) = value
<1> DEFINE out == OutOf(count)
           q == ReadFrom(index, count)
           R == TurnsOf(out)
           j == TurnOf(count)
<1>1. /\ N \div p.preRotate = p.rotateStep /\ out \in Nat /\ out \in 0 .. CeilDiv(p.slots, N) - 1
      /\ R \in Nat /\ j \in 0 .. R - 1 /\ p.rotateStep \in Nat
    BY CountIs DEF OutOf, TurnOf, CopyOf, TurnsRight
<1>2. q \in Slots
    BY ReadFromIs
<1>3. ASSUME NEW m \in 0 .. R - 1
      PROVE  Summand(rotated, db, out, m)[RowTurned(q, R - m)] = IF m = j THEN value ELSE 0
    <2> DEFINE pos == RowTurned(q, R - m)
               s == SumAt(count, m)
               F == [other \in Counts(s) |-> Product(p, rotated, db, other, pos)]
    <2>1. pos \in Slots
        <3>1. R - m \in Int
            BY <1>1
        <3> QED BY <1>2, <3>1, TurnIs
    <2>2. Summand(rotated, db, out, m) = SumOfProducts(p, rotated, db, s)
        BY <1>1 DEF Summand, SumAt
    <2>3. SumOfProducts(p, rotated, db, s)[pos] = SumFunction(F)
        BY <2>1 DEF SumOfProducts, Counts
    <2>4. \A other \in Counts(s) : F[other] = IF m = j /\ other = found THEN value ELSE 0
        OBVIOUS
    <2>5. m = j => found \in Counts(s)
        OBVIOUS
    <2>6. IsFiniteSet(Counts(s))
        <3>1. s \in Nat
            BY <1>1 DEF SumAt
        <3> HIDE DEF s
        <3> DEFINE lo == s * RealRotate(p)
                   hi == ((s + 1) * RealRotate(p)) - 1
        <3>2. lo \in Int /\ hi \in Int
            BY <3>1
        <3>3. Counts(s) \subseteq lo .. hi
            BY DEF Counts
        <3> HIDE DEF lo, hi
        <3>4. IsFiniteSet(lo .. hi)
            BY <3>2, FS_Interval
        <3> QED BY <3>3, <3>4, FS_Subset
    <2>7. SumFunction(F) = SumOn(Counts(s), F)
        <3>1. F = [other \in Counts(s) |-> F[other]]
            OBVIOUS
        <3> HIDE DEF F
        <3> QED BY <3>1 DEF SumOn
    <2> HIDE DEF F, s, pos
    <2>8. CASE m = j
        <3>1. \A other \in Counts(s) : F[other] \in Int /\ (other # found => F[other] = 0)
            BY <2>4, <2>8
        <3>2. SumOn(Counts(s), F) = F[found]
            BY <2>5, <2>6, <2>8, <3>1, SumOne
        <3> QED BY <2>2, <2>3, <2>4, <2>5, <2>7, <2>8, <3>2 DEF pos
    <2>9. CASE m # j
        <3>1. \A other \in Counts(s) : F[other] = 0
            BY <2>4, <2>9
        <3>2. SumOn(Counts(s), F) = 0
            BY <2>6, <3>1, SumZero
        <3> QED BY <2>2, <2>3, <2>7, <2>9, <3>2 DEF pos
    <2> QED BY <2>8, <2>9
<1> HIDE DEF out, q, j
<1>4. Response(p, rotated, db, out)[q] = value
    BY <1>1, <1>2, <1>3, TurnedSum
<1>5. MulDatabase(p, rotated, db)[out] = Response(p, rotated, db, out)
    BY <1>1 DEF MulDatabase
<1>6. SingleSlot(p, index, MulDatabase(p, rotated, db), count) = MulDatabase(p, rotated, db)[out][q]
    BY ReadFromIs DEF out, q
<1> QED BY <1>4, <1>5, <1>6

-----------------------------------------------------------------------------
(* Pirana: a query of a database of at least N rows.                       *)

(* The column and the slot of a row of the database.                       *)
LEMMA RowFits ==
    ASSUME NEW payloads \in Nat, WideShape(payloads), NEW index \in 0 .. payloads - 1
    PROVE  /\ index \div N \in 0 .. p.columns - 1 /\ index % N \in Slots
           /\ index = ((index \div N) * N) + (index % N)
<1> DEFINE d == index \div N
           r == index % N
           all == p.columns * N
<1>1. N \in Nat \ {0} /\ p.columns \in Nat \ {0} /\ all >= payloads
    BY DegreeIs DEF WideShape
<1>2. index = N * d + r /\ r \in 0 .. N - 1 /\ d \in Nat
    <2>1. index = N * d + r /\ r \in 0 .. N - 1
        <3>1. N \in Nat \ {0} /\ index \in Int
            BY <1>1
        <3> QED BY <3>1, DivMod
    <2>2. d \in 0 .. index
        BY <1>1, QuotientBound
    <2> QED BY <2>1, <2>2
<1> HIDE DEF d, r
<1>3. d < p.columns
    <2>1. ASSUME d >= p.columns PROVE FALSE
        <3>1. N * d >= N * p.columns
            BY <1>1, <1>2, <2>1
        <3>2. N * p.columns = all /\ N * d \in Int /\ all \in Int
            BY <1>1, <1>2
        <3> HIDE DEF all
        <3> QED BY <1>1, <1>2, <3>1, <3>2
    <2> QED BY <1>1, <1>2, <2>1
<1>4. index = (d * N) + r
    <2>1. N * d = d * N
        BY <1>1, <1>2
    <2> QED BY <1>2, <2>1
<1> QED BY <1>1, <1>2, <1>3, <1>4 DEF d, r, Slots

(* The selection vectors are 1 in the column and the slot of the row.      *)
LEMMA SelectionIs ==
    ASSUME NEW payloads \in Nat, WideShape(payloads), NEW index \in 0 .. payloads - 1,
           NEW c \in 0 .. p.columns - 1, NEW x \in Slots
    PROVE  GenSelectionVector(p, GenQuery(p, index))[c][x]
             = IF c = index \div N /\ x = index % N THEN 1 ELSE 0
<1> DEFINE size == p.encodingSize
           col == index \div N
           asks == GenQuery(p, index)
<1>1. p.n >= N /\ p.columns \in Nat \ {0} /\ size = CalculateEncodingSize(p.columns) /\ N \in Nat
    BY DegreeIs DEF WideShape
<1>2. size \in Nat /\ Choose(size, 2) >= p.columns
    BY <1>1, EncodingIs
<1>3. size # 1
    <2>1. Choose(0 + 1, 2) = 0 + 0
        BY ChooseIs
    <2>2. size = 0 + 1 => FALSE
        BY <1>1, <1>2, <2>1
    <2> QED BY <2>2
<1>4. col \in 0 .. p.columns - 1
    BY RowFits
<1> HIDE DEF size
<1>5. asks = [i \in 0 .. size - 1 |-> [pos \in Slots |->
                IF pos = index % N /\ i \in Codeword(col, size) THEN 1 ELSE 0]]
    <2>1. ~ (p.n < N)
        <3>1. p.n \in Nat
            BY DEF WideShape
        <3> QED BY <1>1, <3>1
    <2> QED BY <2>1 DEF GenQuery, size
<1>6. /\ Pair(c)[1] \in 0 .. size - 1 /\ Pair(c)[2] \in 0 .. size - 1
      /\ Pair(c)[1] \in Codeword(col, size) /\ Pair(c)[2] \in Codeword(col, size) <=> c = col
    <2> HIDE DEF col
    <2>1. /\ c \in Nat /\ col \in Nat /\ Choose(size, 2) \in Nat
        BY <1>1, <1>2, <1>4, ChooseIs
    <2>2. c < Choose(size, 2) /\ col < Choose(size, 2)
        BY <1>1, <1>2, <1>4, <2>1
    <2> QED BY <1>2, <2>1, <2>2, CodewordsMeet
<1>7. GenSelectionVector(p, asks)[c] = Times(asks[Pair(c)[1]], asks[Pair(c)[2]])
    BY <1>3 DEF GenSelectionVector, size
<1> DEFINE u == asks[Pair(c)[1]][x]
           v == asks[Pair(c)[2]][x]
<1>8. GenSelectionVector(p, asks)[c][x] = u * v
    BY <1>7 DEF Times
<1>9. /\ u = IF x = index % N /\ Pair(c)[1] \in Codeword(col, size) THEN 1 ELSE 0
      /\ v = IF x = index % N /\ Pair(c)[2] \in Codeword(col, size) THEN 1 ELSE 0
    BY <1>5, <1>6
<1> HIDE DEF u, v, asks, col
<1>10. u * v = IF c = col /\ x = index % N THEN 1 ELSE 0
    <2>1. u \in {0, 1} /\ v \in {0, 1} /\ (u = 1 /\ v = 1 <=> c = col /\ x = index % N)
        BY <1>6, <1>9
    <2>2. u * v = IF u = 1 /\ v = 1 THEN 1 ELSE 0
        BY <2>1
    <2> QED BY <2>1, <2>2
<1> QED BY <1>8, <1>10 DEF asks, col

\* The slot that a turn of the query brings to pos, and of which the database
\* has the row there.
FromSlot(pos, turn) ==
    ((((pos \div Half) + (turn \div (p.preRotate \div 2))) % 2) * Half)
      + ((pos - (turn * p.rotateStep)) % Half)

LEMMA FromSlotIs ==
    ASSUME TurnsRight, NEW pos \in Slots, NEW turn \in Nat
    PROVE  /\ FromSlot(pos, turn) \in Slots
           /\ FromSlot(pos, turn) \div Half = ((pos \div Half) + (turn \div (p.preRotate \div 2))) % 2
           /\ FromSlot(pos, turn) % Half = (pos - (turn * p.rotateStep)) % Half
<1> DEFINE hf == p.preRotate \div 2
           side == ((pos \div Half) + (turn \div hf)) % 2
           o == (pos - (turn * p.rotateStep)) % Half
<1>1. Half \in Nat \ {0} /\ pos \div Half \in Nat /\ pos \in Nat
    BY SlotHas
<1>2. hf \in Nat \ {0} /\ turn * p.rotateStep \in Int
    BY DEF TurnsRight
<1>3. turn \div hf \in Nat
    <2> HIDE DEF hf
    <2> QED BY <1>2, QuotientBound
<1>4. side \in {0, 1}
    <2> DEFINE x == (pos \div Half) + (turn \div hf)
    <2>1. x \in Nat
        BY <1>1, <1>3
    <2> HIDE DEF x
    <2>2. x % 2 \in {0, 1}
        BY <2>1
    <2> QED BY <2>2 DEF x
<1>5. o \in 0 .. Half - 1
    <2> DEFINE x == pos - (turn * p.rotateStep)
    <2>1. x \in Int
        BY <1>1, <1>2
    <2> HIDE DEF x
    <2>2. x % Half \in 0 .. Half - 1
        BY <1>1, <2>1, DivMod
    <2> QED BY <2>2 DEF x
<1>6. FromSlot(pos, turn) = (side * Half) + o
    BY DEF FromSlot
<1> HIDE DEF side, o
<1>7. FromSlot(pos, turn) \in Slots /\ FromSlot(pos, turn) \div Half = side /\ FromSlot(pos, turn) % Half = o
    BY <1>4, <1>5, <1>6, SlotIs
<1> QED BY <1>7 DEF side, o

(* After all turns it starts again.                                        *)
LEMMA FromSlotRepeats ==
    ASSUME TurnsRight, NEW pos \in Slots, NEW s \in Nat, NEW k \in Nat
    PROVE  FromSlot(pos, (s * p.preRotate) + k) = FromSlot(pos, k)
<1> DEFINE hf == p.preRotate \div 2
           step == p.rotateStep
           turn == (s * p.preRotate) + k
           d == k \div hf
           r == k % hf
<1>1. /\ Half \in Nat \ {0} /\ pos \in Nat /\ pos \div Half \in Nat
      /\ hf \in Nat \ {0} /\ step \in Nat \ {0} /\ p.preRotate = 2 * hf /\ Half = hf * step
    <2>1. Half \in Nat \ {0} /\ pos \in Nat /\ pos \div Half \in Nat
        BY SlotHas
    <2>2. hf \in Nat \ {0} /\ step \in Nat \ {0} /\ p.preRotate = 2 * hf /\ Half = hf * step
        BY DEF TurnsRight
    <2> QED BY <2>1, <2>2
<1> HIDE DEF hf, step
<1>2. k = hf * d + r /\ r \in 0 .. hf - 1 /\ d \in Int
    <2>1. hf \in Nat \ {0} /\ k \in Int
        BY <1>1
    <2> QED BY <2>1, DivMod
<1>d. k \div hf = d
    OBVIOUS
<1> HIDE DEF d, r
<1>3. turn \div hf = (2 * s) + d
    <2>1. s * p.preRotate = hf * (2 * s)
        BY <1>1
    <2>2. hf * ((2 * s) + d) = hf * (2 * s) + hf * d /\ hf * (2 * s) \in Int /\ hf * d \in Int
        BY <1>1, <1>2
    <2>3. turn = hf * ((2 * s) + d) + r
        BY <1>2, <2>1, <2>2
    <2>4. turn \in Int /\ (2 * s) + d \in Int
        BY <1>1, <1>2
    <2> DEFINE e == (2 * s) + d
    <2>5. turn = hf * e + r /\ turn \in Int /\ e \in Int
        BY <2>3, <2>4
    <2> HIDE DEF turn, e
    <2>6. turn \div hf = e
        BY <1>1, <1>2, <2>5, DivUnique
    <2> QED BY <2>6 DEF e
<1>4. ((pos \div Half) + (turn \div hf)) % 2 = ((pos \div Half) + d) % 2
    <2> DEFINE u == (pos \div Half) + d
    <2>1. u \in Int
        BY <1>1, <1>2
    <2>2. (pos \div Half) + ((2 * s) + d) = u + 2 * s
        <3> DEFINE y == pos \div Half
        <3>1. y \in Int /\ u = y + d
            BY <1>1
        <3> HIDE DEF y, u
        <3>2. y + ((2 * s) + d) = u + 2 * s
            BY <1>2, <3>1
        <3> QED BY <3>2 DEF y
    <2> HIDE DEF u, turn
    <2>3. (u + 2 * s) % 2 = u % 2
        <3>1. 2 \in Nat \ {0} /\ s \in Int
            OBVIOUS
        <3> QED BY <2>1, <3>1, MultipleMore
    <2> QED BY <1>3, <2>2, <2>3 DEF u
<1>5. (pos - (turn * step)) % Half = (pos - (k * step)) % Half
    <2> DEFINE u == pos - (k * step)
               v == - (2 * s)
    <2>1. u \in Int /\ v \in Int
        BY <1>1
    <2>2. turn * step = ((2 * hf) * s) * step + k * step
        BY <1>1
    <2>3. ((2 * hf) * s) * step = (hf * step) * (2 * s)
        BY <1>1
    <2>4. Half * v = - (Half * (2 * s)) /\ v \in Int
        BY <1>1
    <2>5. /\ k * step \in Int /\ Half * (2 * s) \in Int
        BY <1>1
    <2>6. pos - (turn * step) = u + Half * v
        BY <1>1, <2>2, <2>3, <2>4, <2>5
    <2> HIDE DEF u, v, turn
    <2>7. (u + Half * v) % Half = u % Half
        BY <1>1, <2>1, MultipleMore
    <2> QED BY <2>6, <2>7 DEF u
<1> QED BY <1>d, <1>4, <1>5 DEF FromSlot, hf, step

(* The turned selection vectors have at a slot what the untouched one has  *)
(* at its source.                                                          *)
LEMMA RotatedWide ==
    ASSUME NEW payloads \in Nat, WideShape(payloads), NEW sel, NEW c \in 0 .. p.columns - 1,
           NEW j \in 0 .. p.preRotate - 1, NEW pos \in Slots
    PROVE  RotateSelectionVector(p, sel)[(c * p.preRotate) + j][pos] = sel[c][FromSlot(pos, j)]
<1> DEFINE hf == p.preRotate \div 2
           step == p.rotateStep
           k == (c * p.preRotate) + j
           Turned(v, i) == RotateRows(v, - (i * step))
<1>1. /\ Half \in Nat \ {0} /\ N = 2 * Half /\ pos \in Nat /\ pos \div Half \in {0, 1}
      /\ hf \in Nat \ {0} /\ step \in Nat \ {0} /\ p.preRotate = 2 * hf /\ Half = hf * step
      /\ RepeatTime(p) = 1 /\ p.columns \in Nat
    BY SlotHas, DegreeIs DEF WideShape, TurnsRight
<1>2. k \in 0 .. (p.columns * p.preRotate) - 1 /\ k \div p.preRotate = c /\ k % p.preRotate = j
    <2>1. p.preRotate \in Nat \ {0} /\ p.columns \in Nat
        BY <1>1
    <2> HIDE DEF hf, step
    <2> QED BY <2>1, DigitsOf
<1> HIDE DEF k
<1>3. RotateSelectionVector(p, sel)[k]
        = IF j < hf THEN Turned(sel[c], j) ELSE Turned(RotateColumns(sel[c]), j - hf)
    BY <1>1, <1>2 DEF RotateSelectionVector
<1> HIDE DEF hf, step
<1>4. j \in Nat
    BY <1>1
<1>5. CASE j < hf
    <2>1. - (j * step) \in Int /\ pos + (- (j * step)) = pos - (j * step)
        BY <1>1, <1>4
    <2>2. RotateSelectionVector(p, sel)[k][pos] = sel[c][RowTurned(pos, - (j * step))]
        BY <1>3, <1>5, <2>1, RotateRowsIs
    <2>3. j \div hf = 0
        <3>1. j = hf * 0 + j /\ j \in 0 .. hf - 1 /\ j \in Int
            BY <1>1, <1>4, <1>5
        <3> QED BY <1>1, <3>1, DivUnique
    <2>4. ((pos \div Half) + (j \div hf)) % 2 = pos \div Half
        BY <1>1, <2>3
    <2>5. RowTurned(pos, - (j * step)) = FromSlot(pos, j)
        BY <2>1, <2>4 DEF RowTurned, FromSlot, hf, step
    <2> QED BY <2>2, <2>5 DEF k
<1>6. CASE ~ (j < hf)
    <2> DEFINE i == j - hf
               d == - (i * step)
               from == RowTurned(pos, d)
    <2>1. i \in Nat /\ d \in Int
        BY <1>1, <1>4, <1>6
    <2>2. RotateSelectionVector(p, sel)[k][pos] = RotateColumns(sel[c])[from]
        BY <1>3, <1>6, <2>1, RotateRowsIs
    <2>3. from \in Slots /\ from \div Half = pos \div Half /\ from % Half = (pos + d) % Half
        BY <2>1, TurnIs
    <2>4. RotateColumns(sel[c])[from] = sel[c][(from + Half) % N]
        BY <2>3 DEF RotateColumns
    <2>5. (pos + d) % Half = (pos - (j * step)) % Half
        <3> DEFINE u == pos - (j * step)
        <3>1. i * step = (j * step) - (hf * step)
            BY <1>1, <1>4
        <3>2. j * step \in Int /\ hf * step \in Int /\ Half * 1 = Half
            BY <1>1, <1>4
        <3>3. pos + d = u + Half * 1 /\ u \in Int
            BY <1>1, <3>1, <3>2
        <3> HIDE DEF u, d
        <3>4. (u + Half * 1) % Half = u % Half
            <4>1. 1 \in Int
                OBVIOUS
            <4> QED BY <1>1, <3>3, <4>1, MultipleMore
        <3> QED BY <3>3, <3>4 DEF u
    <2>6. j \div hf = 1
        <3>1. j = hf * 1 + i /\ i \in 0 .. hf - 1 /\ j \in Int
            BY <1>1, <1>4, <1>6
        <3> HIDE DEF i
        <3>2. 1 \in Int
            OBVIOUS
        <3> QED BY <1>1, <3>1, <3>2, DivUnique
    <2> DEFINE o == (pos - (j * step)) % Half
               row == pos \div Half
    <2> HIDE DEF from, d, i
    <2>7. from = (row * Half) + o /\ from % Half = o /\ o \in 0 .. Half - 1
        BY <2>3, <2>5, SlotHas
    <2>8. row \in {0, 1}
        BY <1>1
    <2>9. FromSlot(pos, j) = (((row + 1) % 2) * Half) + o
        BY <2>6 DEF FromSlot, hf, step
    <2> HIDE DEF o, row
    <2>10. (from + Half) % N = (((row + 1) % 2) * Half) + o
        <3>1. CASE row = 0
            <4>1. from + Half = N * 0 + (Half + o) /\ Half + o \in 0 .. N - 1
                BY <1>1, <2>7, <3>1
            <4> DEFINE x == from + Half
            <4>2. x = N * 0 + (Half + o) /\ x \in Int /\ N \in Nat \ {0}
                BY <1>1, <4>1
            <4> HIDE DEF x
            <4>3. x % N = Half + o
                <5>1. 0 \in Int
                    OBVIOUS
                <5> QED BY <4>1, <4>2, <5>1, ModUnique
            <4>4. (((row + 1) % 2) * Half) + o = Half + o
                BY <1>1, <2>7, <3>1
            <4> QED BY <4>3, <4>4 DEF x
        <3>2. CASE row = 1
            <4>1. from + Half = N * 1 + o /\ o \in 0 .. N - 1
                BY <1>1, <2>7, <3>2
            <4> DEFINE x == from + Half
            <4>2. x = N * 1 + o /\ x \in Int /\ N \in Nat \ {0}
                BY <1>1, <2>7, <4>1
            <4> HIDE DEF x
            <4>3. x % N = o
                <5>1. 1 \in Int
                    OBVIOUS
                <5> QED BY <4>1, <4>2, <5>1, ModUnique
            <4>4. (((row + 1) % 2) * Half) + o = o
                BY <1>1, <2>7, <3>2
            <4> QED BY <4>3, <4>4 DEF x
        <3> QED BY <2>8, <3>1, <3>2
    <2> QED BY <2>2, <2>4, <2>9, <2>10 DEF k
<1> QED BY <1>5, <1>6

(* The database has at a slot the row of its source.                       *)
LEMMA EncodedWide ==
    ASSUME NEW payloads \in Nat, WideShape(payloads), NEW count \in 0 .. p.slots - 1,
           NEW c \in 0 .. p.columns - 1, NEW pos \in Slots
    PROVE  EncodeToNttDb(p)[(count * p.columns) + c][pos] = Raw((c * N) + FromSlot(pos, count), count)
<1> DEFINE k == (count * p.columns) + c
           hf == p.preRotate \div 2
           x == (((pos \div Half) + (count \div hf)) % 2) * Half
           y == (pos - (count * p.rotateStep)) % Half
<1>1. RepeatTime(p) = 1 /\ p.columns \in Nat \ {0} /\ p.slots \in Nat
    BY DEF WideShape, TurnsRight
<1>2. k \in 0 .. (p.slots * p.columns) - 1 /\ k \div p.columns = count /\ k % p.columns = c
    BY <1>1, DigitsOf
<1> HIDE DEF k
<1>3. EncodeToNttDb(p)[k] = Wide(p, count, c)
    BY <1>1, <1>2 DEF EncodeToNttDb
<1>4. Wide(p, count, c)[pos] = Raw((c * N) + x + y, count)
    BY DEF Wide
<1>5. FromSlot(pos, count) = x + y
    BY DEF FromSlot
<1>6. x \in Int /\ y \in Int
    <2> DEFINE u == ((pos \div Half) + (count \div hf)) % 2
    <2>1. TurnsRight /\ count \in Nat
        BY <1>1 DEF WideShape
    <2>2. /\ FromSlot(pos, count) \in Slots /\ FromSlot(pos, count) \div Half = u
          /\ FromSlot(pos, count) % Half = y
        BY <2>1, FromSlotIs
    <2>3. u \in Int /\ y \in Int /\ Half \in Int
        BY <2>2, SlotHas
    <2> HIDE DEF u, y
    <2>4. u * Half \in Int
        BY <2>3
    <2> QED BY <2>3, <2>4 DEF u
<1> HIDE DEF x, y
<1>7. (c * N) + x + y = (c * N) + (x + y)
    <2> DEFINE z == c * N
    <2>1. z \in Int
        BY DegreeIs
    <2> HIDE DEF z
    <2>2. z + x + y = z + (x + y)
        BY <1>6, <2>1
    <2> QED BY <2>2 DEF z
<1>8. (c * N) + x + y = (c * N) + FromSlot(pos, count)
    BY <1>5, <1>7
<1> QED BY <1>3, <1>4, <1>8 DEF k

(* So a product is the row asked for, where its slot is the source.        *)
LEMMA ProductWide ==
    ASSUME NEW payloads \in Nat, WideShape(payloads), NEW index \in 0 .. payloads - 1,
           NEW count \in 0 .. p.slots - 1, NEW pos \in Slots
    PROVE  Product(p, RotateSelectionVector(p, GenSelectionVector(p, GenQuery(p, index))),
                   EncodeToNttDb(p), count, pos)
             = IF FromSlot(pos, count % p.preRotate) = index % N THEN Raw(index, count) ELSE 0
<1> DEFINE sel == GenSelectionVector(p, GenQuery(p, index))
           rotated == RotateSelectionVector(p, sel)
           db == EncodeToNttDb(p)
           k == count % p.preRotate
           s == count \div p.preRotate
           col == index \div N
           from == FromSlot(pos, k)
           F == [c \in 0 .. p.columns - 1 |->
                    rotated[(c * RealRotate(p)) + (count % RealRotate(p))][pos]
                      * db[(count * p.columns) + c][pos]]
<1>1. /\ TurnsRight /\ p.columns \in Nat /\ p.preRotate \in Nat \ {0} /\ count \in Nat
      /\ RealRotate(p) = p.preRotate
    <2>1. TurnsRight /\ p.columns \in Nat /\ RepeatTime(p) = 1
        BY DEF WideShape
    <2>2. p.preRotate \in Nat \ {0} /\ count \in Nat
        BY <2>1 DEF TurnsRight
    <2>3. RealRotate(p) = p.preRotate
        BY <2>1, <2>2 DEF RealRotate
    <2> QED BY <2>1, <2>2, <2>3
<1>2. k \in 0 .. p.preRotate - 1 /\ s \in Nat /\ count = (s * p.preRotate) + k
    <2>1. count = p.preRotate * s + k /\ k \in 0 .. p.preRotate - 1 /\ s \in Int
        <3>1. count \in Int /\ p.preRotate \in Nat \ {0}
            BY <1>1
        <3> QED BY <3>1, DivMod
    <2>2. s \in 0 .. count
        BY <1>1, QuotientBound
    <2> HIDE DEF s, k
    <2>3. p.preRotate * s = s * p.preRotate
        BY <1>1, <2>1
    <2> QED BY <2>1, <2>2, <2>3
<1>k. k = count % p.preRotate
    OBVIOUS
<1> HIDE DEF k, s
<1>3. FromSlot(pos, count) = from /\ from \in Slots
    <2>1. k \in Nat
        BY <1>1, <1>2
    <2>2. FromSlot(pos, (s * p.preRotate) + k) = from
        BY <1>1, <1>2, <2>1, FromSlotRepeats
    <2>3. from \in Slots
        BY <1>1, <2>1, FromSlotIs
    <2> QED BY <1>2, <2>2, <2>3
<1> HIDE DEF from
<1>4. col \in 0 .. p.columns - 1 /\ index = (col * N) + (index % N)
    BY RowFits
<1>5. ASSUME NEW c \in 0 .. p.columns - 1
      PROVE  F[c] = IF c = col /\ from = index % N THEN Raw(index, count) ELSE 0
    <2>1. rotated[(c * p.preRotate) + k][pos] = sel[c][from]
        BY <1>2, RotatedWide DEF from
    <2>2. sel[c][from] = IF c = col /\ from = index % N THEN 1 ELSE 0
        BY <1>3, SelectionIs
    <2>3. db[(count * p.columns) + c][pos] = Raw((c * N) + from, count)
        BY <1>3, EncodedWide
    <2> DEFINE u == rotated[(c * p.preRotate) + k][pos]
               v == db[(count * p.columns) + c][pos]
    <2>4. F[c] = u * v
        BY <1>1, <1>k
    <2>5. u = IF c = col /\ from = index % N THEN 1 ELSE 0
        BY <2>1, <2>2
    <2>6. v \in Int
        <3>1. from \in Int /\ c \in Int /\ N \in Int
            BY <1>1, <1>3, SlotHas, DegreeIs
        <3> HIDE DEF v
        <3>2. c * N \in Int
            BY <3>1
        <3>3. Raw((c * N) + from, count) \in Int
            BY <1>1, <3>1, <3>2 DEF Raw
        <3> QED BY <2>3, <3>3 DEF v
    <2>7. c = col /\ from = index % N => v = Raw(index, count)
        BY <1>4, <2>3
    <2> HIDE DEF u, v, F
    <2>8. CASE c = col /\ from = index % N
        <3>1. u * v = v
            BY <2>5, <2>6, <2>8
        <3> QED BY <2>4, <2>7, <2>8, <3>1
    <2>9. CASE ~ (c = col /\ from = index % N)
        <3>1. u * v = 0
            BY <2>5, <2>6, <2>9
        <3> QED BY <2>4, <2>9, <3>1
    <2> QED BY <2>8, <2>9
<1>6. Product(p, rotated, db, count, pos) = SumFunction(F)
    BY DEF Product
<1>7. SumFunction(F) = SumOn(0 .. p.columns - 1, F)
    <2>1. F = [c \in 0 .. p.columns - 1 |-> F[c]]
        OBVIOUS
    <2> HIDE DEF F
    <2> QED BY <2>1 DEF SumOn
<1> HIDE DEF F, rotated, db, col
<1>8. IsFiniteSet(0 .. p.columns - 1)
    <2> DEFINE last == p.columns - 1
               zero == 0
    <2>1. last \in Int /\ zero \in Int
        BY <1>1
    <2> HIDE DEF last, zero
    <2>2. IsFiniteSet(zero .. last)
        BY <2>1, FS_Interval
    <2> QED BY <2>2 DEF last, zero
<1>9. SumOn(0 .. p.columns - 1, F) = IF from = index % N THEN Raw(index, count) ELSE 0
    <2>0. Raw(index, count) \in Int
        BY <1>1 DEF Raw
    <2>1. \A c \in 0 .. p.columns - 1 : F[c] \in Int /\ (c # col => F[c] = 0)
        BY <1>5, <2>0
    <2>2. SumOn(0 .. p.columns - 1, F) = F[col]
        BY <1>4, <1>8, <2>1, SumOne
    <2> QED BY <1>4, <1>5, <2>2
<1> QED BY <1>6, <1>7, <1>9 DEF rotated, db, from, k

(* The row and the place in it of the slot of a row of the database.       *)
LEMMA IndexSlot ==
    ASSUME NEW index \in Nat
    PROVE  /\ index % N \in Slots /\ (index % N) \div Half = (index \div Half) % 2
           /\ (index % N) % Half = index % Half
<1> DEFINE g == index \div Half
           o == index % Half
           side == g % 2
           e == g \div 2
<1>1. Half \in Nat \ {0} /\ N = 2 * Half /\ N \in Nat \ {0}
    BY DegreeIs
<1>2. index = Half * g + o /\ o \in 0 .. Half - 1 /\ g \in Nat
    <2>1. Half \in Nat \ {0} /\ index \in Int
        BY <1>1
    <2>2. index = Half * g + o /\ o \in 0 .. Half - 1
        BY <2>1, DivMod
    <2>3. g \in 0 .. index
        BY <1>1, QuotientBound
    <2> QED BY <2>2, <2>3
<1> HIDE DEF g, o
<1>3. g = 2 * e + side /\ side \in {0, 1} /\ e \in Int
    BY <1>2
<1> HIDE DEF side, e
<1> DEFINE x == (side * Half) + o
<1>4. x \in Slots /\ x \div Half = side /\ x % Half = o
    BY <1>2, <1>3, SlotIs
<1>5. index = N * e + x
    <2>1. Half * g = Half * (2 * e) + Half * side
        BY <1>1, <1>2, <1>3
    <2>2. Half * (2 * e) = N * e /\ N * e \in Int /\ Half * side = side * Half /\ side * Half \in Int
        BY <1>1, <1>3
    <2> QED BY <1>1, <1>2, <2>1, <2>2
<1> HIDE DEF x
<1>6. index % N = x
    <2>1. x \in 0 .. N - 1
        BY <1>4 DEF Slots
    <2> QED BY <1>1, <1>3, <1>5, <2>1, ModUnique
<1> QED BY <1>4, <1>6 DEF side, o, g

(* Of all turns of the query only the one of a slot of the payload, and of *)
(* all turns of the sums only its own, bring the row asked for to where    *)
(* the test reads it.                                                      *)
LEMMA WideMeets ==
    ASSUME TurnsRight, NEW count \in 0 .. p.slots - 1, NEW index \in Nat,
           NEW m \in 0 .. TurnsOf(OutOf(count)) - 1, NEW copy \in 0 .. p.preRotate - 1
    PROVE  FromSlot(RowTurned(ReadFrom(index, count), TurnsOf(OutOf(count)) - m), copy) = index % N
             <=> m = TurnOf(count) /\ copy = CopyOf(count)
<1> DEFINE hf == p.preRotate \div 2
           step == p.rotateStep
           R == TurnsOf(OutOf(count))
           j == TurnOf(count)
           k == CopyOf(count)
           kd == k \div hf
           kl == k % hf
           cd == copy \div hf
           cl == copy % hf
           ih == index \div Half
           q == ReadFrom(index, count)
           pos == RowTurned(q, R - m)
           from == FromSlot(pos, copy)
           x == pos - (copy * step)
<1>1. /\ step \in Nat \ {0} /\ hf \in Nat \ {0} /\ p.preRotate = 2 * hf /\ Half = hf * step
      /\ copy \in Nat
    BY DEF TurnsRight
<1>2. /\ R \in 1 .. step /\ j \in 0 .. R - 1 /\ kd \in {0, 1} /\ kl \in 0 .. hf - 1
      /\ k = (kd * hf) + kl
    BY CountIs DEF OutOf, TurnOf, CopyOf
<1>3. Half \in Nat \ {0} /\ ih \in Nat
    <2>1. Half \in Nat \ {0}
        BY DegreeIs
    <2>2. ih \in 0 .. index
        BY <2>1, QuotientBound
    <2> QED BY <2>1, <2>2
<1>4. /\ q \in Slots /\ q \div Half = (ih + kd) % 2
      /\ \A i \in Int : \E c \in Int :
            q + (R - i) = ((kl * step) + (j - i)) + (index + (Half * c))
    BY ReadFromIs
<1>k. k = CopyOf(count) /\ j = TurnOf(count)
    OBVIOUS
<1>m. m \in 0 .. R - 1
    OBVIOUS
<1>5. copy = (cd * hf) + cl /\ cd \in {0, 1} /\ cl \in 0 .. hf - 1
    <2>1. hf \in Nat \ {0} /\ copy \in Int
        BY <1>1
    <2>2. copy = hf * cd + cl /\ cl \in 0 .. hf - 1
        BY <2>1, DivMod
    <2>3. cd \in 0 .. copy
        BY <1>1, QuotientBound
    <2> HIDE DEF hf, cd, cl
    <2>4. ASSUME cd >= 2 PROVE FALSE
        <3>1. hf * cd >= hf * 2 /\ hf * cd \in Int
            BY <1>1, <2>3, <2>4
        <3> QED BY <1>1, <2>2, <3>1
    <2>5. cd \in {0, 1} /\ hf * cd = cd * hf
        BY <1>1, <2>3, <2>4
    <2> QED BY <2>2, <2>5
<1>6. pos \in Slots /\ pos \div Half = q \div Half /\ pos % Half = (q + (R - m)) % Half
      /\ pos \in Int /\ q \in Int /\ R - m \in Int /\ q + (R - m) \in Int
    <2>1. R - m \in Int
        BY <1>2
    <2>2. pos \in Slots /\ pos \div Half = q \div Half /\ pos % Half = (q + (R - m)) % Half
        BY <1>4, <2>1, TurnIs
    <2>3. pos \in Int /\ q \in Int
        BY <1>4, <2>2, SlotHas
    <2> HIDE DEF pos, q, R
    <2>4. q + (R - m) \in Int
        BY <2>1, <2>3
    <2> QED BY <2>1, <2>2, <2>3, <2>4
<1> HIDE DEF pos, q
<1>7. from \in Slots /\ from \div Half = ((pos \div Half) + cd) % 2 /\ from % Half = x % Half
    BY <1>1, <1>6, FromSlotIs
<1> HIDE DEF from
<1>8. /\ index % N \in Slots /\ (index % N) \div Half = ih % 2
      /\ (index % N) % Half = index % Half
    BY IndexSlot
<1> HIDE DEF hf, step, R, j, k, kd, kl, cd, cl, ih, x
<1>9. from = index % N <=> from \div Half = ih % 2 /\ from % Half = index % Half
    <2> DEFINE y == index % N
    <2>1. /\ from = ((from \div Half) * Half) + (from % Half)
          /\ y = ((y \div Half) * Half) + (y % Half)
        BY <1>7, <1>8, SlotHas
    <2> HIDE DEF y
    <2>2. y \div Half = ih % 2 /\ y % Half = index % Half
        BY <1>8 DEF y
    <2>3. from = y <=> from \div Half = ih % 2 /\ from % Half = index % Half
        BY <2>1, <2>2
    <2> QED BY <2>3 DEF y
<1>10. from \div Half = ih % 2 <=> cd = kd
    <2>1. from \div Half = (((ih + kd) % 2) + cd) % 2
        BY <1>4, <1>6, <1>7
    <2> DEFINE z == from \div Half
    <2>2. z = (((ih + kd) % 2) + cd) % 2
        BY <2>1
    <2> HIDE DEF z
    <2>3. z = ih % 2 <=> cd = kd
        BY <1>2, <1>3, <1>5, <2>2
    <2> QED BY <2>3 DEF z
<1>11. from % Half = index % Half <=> m = j /\ cl = kl
    <2>1. PICK c \in Int : q + (R - m) = ((kl * step) + (j - m)) + (index + (Half * c))
        <3>1. m \in Int
            BY <1>2
        <3> QED BY <1>4, <3>1
    <2>2. PICK d \in Int : pos = (q + (R - m)) + Half * d
        BY <1>3, <1>6, SameRemainder
    <2> DEFINE far == c + d
               turned == (kl - copy) * step
    <2>3. x = ((turned + (j - m)) + index) + (Half * far)
        <3> DEFINE ks == kl * step
                   cs == copy * step
                   hc == Half * c
                   hd == Half * d
                   hh == Half * far
        <3>1. turned = ks - cs /\ hh = hc + hd
            BY <1>1, <1>2, <1>3
        <3>2. ks \in Int /\ cs \in Int /\ hc \in Int /\ hd \in Int
            BY <1>1, <1>2, <1>3
        <3>3. x = pos - cs /\ q + (R - m) = (ks + (j - m)) + (index + hc)
              /\ pos = (q + (R - m)) + hd
            BY <2>1, <2>2 DEF x
        <3> HIDE DEF ks, cs, hc, hd, hh, turned
        <3>4. j - m \in Int
            BY <1>2
        <3>5. x = ((turned + (j - m)) + index) + hh
            BY <3>1, <3>2, <3>3, <3>4
        <3> QED BY <3>5 DEF hh
    <2> DEFINE e == j - m
    <2>4. e \in Int /\ -step < e /\ e < step /\ (e = 0 <=> m = j)
        BY <1>1, <1>2, <1>m
    <2>5. x = ((((kl - copy) * step) + e) + index) + (Half * far)
        BY <2>3
    <2>6. /\ far \in Int /\ copy \in Int /\ kl \in Int /\ index \in Int
        BY <1>1, <1>2
    <2> HIDE DEF e, far, turned
    <2>7. x % Half = index % Half <=> Meets(kl, copy, step, hf, e, index, far)
        BY <1>1, <2>5 DEF Meets
    <2>8. Meets(kl, copy, step, hf, e, index, far) <=> (e = 0 /\ SameTurn(hf, copy, kl))
        <3>1. step \in Nat \ {0} /\ hf \in Nat \ {0}
            BY <1>1
        <3>2. e \in Int /\ Within(step, e)
            BY <2>4 DEF Within
        <3> QED BY <3>1, <3>2, <2>6, TurnsMeet, Zenon
    <2>9. kl % hf = kl
        BY <1>1, <1>2, ModOfSmall
    <2> QED BY <1>7, <2>4, <2>7, <2>8, <2>9 DEF cl, SameTurn
<1>12. cd = kd /\ cl = kl <=> copy = k
    <2>1. cd = kd /\ cl = kl => copy = k
        BY <1>2, <1>5
    <2>2. copy = k => cd = kd /\ cl = kl
        BY DEF cd, kd, cl, kl
    <2> QED BY <2>1, <2>2
<1> QED BY <1>9, <1>10, <1>11, <1>12, <1>k DEF from, pos, q, R, j, k

(* Every slot of the payload of every row is where the test reads it.      *)
LEMMA WideAnswered ==
    ASSUME NEW payloads \in Nat, WideShape(payloads), NEW index \in 0 .. payloads - 1,
           NEW count \in 0 .. p.slots - 1
    PROVE  SingleSlot(p, index, GenResponse(p, GenQuery(p, index)), count) = Raw(index, count)
<1> DEFINE rotated == RotateSelectionVector(p, GenSelectionVector(p, GenQuery(p, index)))
           db == EncodeToNttDb(p)
           rotate == p.preRotate
           R == TurnsOf(OutOf(count))
           j == TurnOf(count)
           k == CopyOf(count)
           value == Raw(index, count)
<1>1. /\ TurnsRight /\ RepeatTime(p) = 1 /\ RealRotate(p) = rotate /\ rotate \in Nat \ {0}
      /\ index \in Nat /\ count \in Nat /\ p.slots \in Nat
    <2>1. TurnsRight /\ RepeatTime(p) = 1
        BY DEF WideShape
    <2>2. rotate \in Nat \ {0} /\ p.slots \in Nat /\ count \in Nat
        BY <2>1 DEF TurnsRight
    <2>3. RealRotate(p) = rotate
        BY <2>1, <2>2 DEF RealRotate
    <2> QED BY <2>1, <2>2, <2>3
<1>2. /\ OutOf(count) \in Nat /\ p.rotateStep \in Nat /\ k \in 0 .. rotate - 1
      /\ R \in Nat /\ j \in 0 .. R - 1
      /\ count = (SumAt(count, j) * rotate) + k
    <2>1. p.rotateStep \in Nat
        BY <1>1 DEF TurnsRight
    <2> QED BY <1>1, <2>1, CountIs DEF OutOf, TurnOf, CopyOf, SumAt
<1>3. value \in Int
    BY <1>1 DEF Raw
<1>4. Counts(SumAt(count, j)) = {x \in SumAt(count, j) * rotate .. ((SumAt(count, j) + 1) * rotate) - 1 : x < p.slots}
    BY <1>1 DEF Counts
<1>5. count \in Counts(SumAt(count, j))
    <2> DEFINE s == SumAt(count, j)
               lo == s * rotate
               hi == (s + 1) * rotate
    <2>1. s \in Nat
        BY <1>2 DEF SumAt
    <2> HIDE DEF s, rotate, k
    <2>2. lo \in Int /\ hi = lo + rotate /\ hi \in Int
        BY <1>1, <2>1
    <2>3. count = lo + k
        BY <1>2 DEF s
    <2> HIDE DEF lo, hi
    <2>4. count \in lo .. hi - 1 /\ count < p.slots
        BY <1>1, <1>2, <2>2, <2>3
    <2> QED BY <1>4, <2>4 DEF s, lo, hi
<1>6. ASSUME NEW m \in 0 .. R - 1, NEW other \in Counts(SumAt(count, m))
      PROVE  Product(p, rotated, db, other, RowTurned(ReadFrom(index, count), R - m))
               = IF m = j /\ other = count THEN value ELSE 0
    <2> DEFINE s == SumAt(count, m)
               lo == s * rotate
               copy == other % rotate
               pos == RowTurned(ReadFrom(index, count), R - m)
    <2>1. s \in Nat
        BY <1>2 DEF SumAt
    <2>2. other \in lo .. ((s + 1) * rotate) - 1 /\ other < p.slots
        BY <1>1 DEF Counts
    <2>3. lo \in Nat /\ ((s + 1) * rotate) - 1 = (lo + rotate) - 1
        <3> HIDE DEF s, rotate
        <3> QED BY <1>1, <2>1
    <2>4. other \in 0 .. p.slots - 1 /\ other \in lo .. (lo + rotate) - 1
        <3> HIDE DEF lo, rotate
        <3>1. other \in lo .. (lo + rotate) - 1
            BY <2>2, <2>3
        <3> QED BY <1>1, <2>2, <2>3, <3>1
    <2>5. other = lo + copy /\ copy \in 0 .. rotate - 1
        <3> DEFINE r == other - lo
        <3> HIDE DEF rotate, s
        <3>1. lo = rotate * s
            BY <1>1, <2>1
        <3> HIDE DEF lo
        <3>2. r \in 0 .. rotate - 1 /\ other = rotate * s + r /\ other \in Int /\ s \in Int
            BY <1>1, <2>1, <2>3, <2>4, <3>1
        <3> HIDE DEF r
        <3>3. copy = r
            BY <1>1, <3>2, ModUnique
        <3> QED BY <3>2, <3>3, <1>1, <2>3 DEF r
    <2>6. pos \in Slots
        <3>1. R - m \in Int
            BY <1>2
        <3>2. ReadFrom(index, count) \in Slots
            BY <1>1, ReadFromIs
        <3> QED BY <3>1, <3>2, TurnIs
    <2>7. Product(p, rotated, db, other, pos)
            = IF FromSlot(pos, copy) = index % N THEN Raw(index, other) ELSE 0
        BY <2>4, <2>6, ProductWide
    <2>8. FromSlot(pos, copy) = index % N <=> m = j /\ copy = k
        BY <1>1, <2>5, WideMeets
    <2>9. m = j => (copy = k <=> other = count)
        <3> SUFFICES ASSUME m = j PROVE copy = k <=> other = count
            OBVIOUS
        <3>1. count = lo + k
            BY <1>2
        <3> HIDE DEF lo, copy, rotate, k
        <3>2. lo \in Int /\ copy \in Int /\ k \in Int
            BY <1>1, <1>2, <2>3, <2>5
        <3> QED BY <2>5, <3>1, <3>2
    <2> HIDE DEF pos, copy, k, j, rotated, db
    <2> QED BY <2>7, <2>8, <2>9 DEF pos
<1> HIDE DEF rotated, db, value
<1>7. RealRotate(p) \in Nat
    BY <1>1
<1>8. SingleSlot(p, index, MulDatabase(p, rotated, db), count) = value
    BY <1>1, <1>3, <1>5, <1>6, <1>7, ReadRight
<1> QED BY <1>8 DEF GenResponse, rotated, db, value

-----------------------------------------------------------------------------
(* Pirana: a query of a smaller database.                                  *)

(* A turned query is 1 where it is so many turns behind the row.           *)
LEMMA RotatedNarrow ==
    ASSUME NEW payloads \in Nat, NarrowShape(payloads), NEW index \in 0 .. payloads - 1,
           NEW copy \in 0 .. RealRotate(p) - 1, NEW pos \in Slots
    PROVE  RotateSelectionVector(p, GenSelectionVector(p, GenQuery(p, index)))[copy][pos]
             = IF (pos - (copy * p.rotateStep)) % p.n = index THEN 1 ELSE 0
<1> DEFINE d == - (copy * p.rotateStep)
           from == RowTurned(pos, d)
           v == GenQuery(p, index)
<1>1. /\ RepeatTime(p) # 1 /\ p.encodingSize = 1 /\ p.n \in Nat \ {0} /\ p.n < N
      /\ RealRotate(p) \in Nat \ {0} /\ p.rotateStep \in Nat
    BY DEF NarrowShape, TurnsRight
<1>2. d \in Int /\ copy \in Nat /\ copy * p.rotateStep \in Int
    BY <1>1
<1>3. RotateSelectionVector(p, GenSelectionVector(p, v))[copy] = RotateRows(v[0], d)
    BY <1>1 DEF RotateSelectionVector, GenSelectionVector
<1>4. from \in Slots /\ from % Half = (pos + d) % Half /\ RotateRows(v[0], d)[pos] = v[0][from]
    BY <1>2, TurnIs, RotateRowsIs
<1>5. v[0][from] = IF from % p.n = index THEN 1 ELSE 0
    BY <1>1, <1>4 DEF GenQuery
<1>6. from % p.n = (pos + d) % p.n
    <2>1. PICK copies \in Nat \ {0} : Half = copies * p.n
        BY DEF NarrowShape
    <2>2. Half \in Nat \ {0} /\ from \in Int /\ pos \in Int
        BY <1>4, SlotHas
    <2> HIDE DEF from, d
    <2>3. pos + d \in Int
        BY <1>2, <2>2
    <2> DEFINE y == pos + d
    <2>4. y \in Int /\ from % Half = y % Half
        BY <1>4, <2>3
    <2> HIDE DEF y
    <2>5. from % p.n = y % p.n
        BY <1>1, <2>1, <2>2, <2>4, FinerRemainder
    <2> QED BY <2>5 DEF y
<1>7. pos + d = pos - (copy * p.rotateStep)
    <2>1. pos \in Int
        BY SlotHas
    <2> QED BY <1>2, <2>1
<1> QED BY <1>3, <1>4, <1>5, <1>6, <1>7

\* The row of the database, over all its repetitions, and the slot of the
\* payload that the vector k has at pos.
NarrowPlace(k, pos) == (pos - ((k % RealRotate(p)) * p.rotateStep)) % Half

NarrowCount(k, pos) ==
    ((k \div RealRotate(p)) * p.preRotate) + (k % RealRotate(p))
      + (RealRotate(p) * (NarrowPlace(k, pos) \div p.n)) + ((pos \div Half) * (p.preRotate \div 2))

\* Where the payload has no such slot, the first row keeps what it had.
Entry(w, k, pos) ==
    IF NarrowCount(k, pos) < p.slots THEN Raw(NarrowPlace(k, pos) % p.n, NarrowCount(k, pos))
    ELSE IF pos \div Half = 1 \/ k = 0 THEN 0 ELSE w[k - 1][pos]

(* The encoding fills the vectors one after the other.                     *)
LEMMA NarrowIs ==
    ASSUME NEW last \in Nat, last = (CeilDiv(p.columns * p.slots, p.preRotate) * RealRotate(p)) - 1
    PROVE  \A k \in 0 .. last : \A pos \in Slots : Narrow(p)[k][pos] = Entry(Narrow(p), k, pos)
<1> DEFINE F(w) == [k \in 0 .. last |-> [pos \in Slots |-> Entry(w, k, pos)]]
           plain == CHOOSE w : w = F(w)
<1>1. Narrow(p) = plain
    BY DEF Narrow, Entry, NarrowCount, NarrowPlace
<1>2. \E w : w = F(w)
    <2> DEFINE Part(k, w) == \A s \in 0 .. k : w[s] = [pos \in Slots |-> Entry(w, s, pos)]
               K == {k \in 0 .. last : \E w : Part(k, w)}
    <2>1. 0 \in K
        <3> DEFINE zero == [pos \in Slots |-> Entry(<< >>, 0, pos)]
                   w == [s \in {0} |-> zero]
        <3>1. Part(0, w)
            <4>1. \A pos : Entry(w, 0, pos) = Entry(<< >>, 0, pos)
                BY DEF Entry
            <4> QED BY <4>1
        <3> HIDE DEF w, Part
        <3> QED BY <3>1
    <2>2. ASSUME NEW k \in 0 .. last - 1, k \in K PROVE k + 1 \in K
        <3>1. PICK w : Part(k, w)
            BY <2>2
        <3> DEFINE x == [s \in 0 .. k + 1 |-> IF s = k + 1 THEN [pos \in Slots |-> Entry(w, k + 1, pos)]
                                              ELSE w[s]]
        <3>2. ASSUME NEW s \in 0 .. k + 1
              PROVE  x[s] = [pos \in Slots |-> Entry(x, s, pos)]
            <4>1. s # 0 => x[s - 1] = w[s - 1]
                OBVIOUS
            <4>2. \A pos : Entry(x, s, pos) = Entry(w, s, pos)
                <5> HIDE DEF x
                <5> QED BY <4>1 DEF Entry
            <4>3. CASE s = k + 1
                BY <4>2, <4>3
            <4>4. CASE s # k + 1
                <5>1. s \in 0 .. k /\ x[s] = w[s]
                    BY <4>4
                <5> HIDE DEF x
                <5> QED BY <3>1, <4>2, <5>1
            <4> QED BY <4>3, <4>4
        <3>3. Part(k + 1, x)
            <4> HIDE DEF x
            <4> QED BY <3>2
        <3> HIDE DEF x, Part
        <3>4. k + 1 \in 0 .. last
            OBVIOUS
        <3> QED BY <3>3, <3>4
    <2> HIDE DEF K
    <2>3. last \in K
        BY <2>1, <2>2, InductionUpTo
    <2>4. PICK w : Part(last, w)
        BY <2>3 DEF K
    <2> DEFINE x == [s \in 0 .. last |-> w[s]]
    <2>5. ASSUME NEW s \in 0 .. last
          PROVE  x[s] = [pos \in Slots |-> Entry(x, s, pos)]
        <3>1. x[s] = w[s] /\ (s # 0 => x[s - 1] = w[s - 1])
            OBVIOUS
        <3>2. \A pos : Entry(x, s, pos) = Entry(w, s, pos)
            <4> HIDE DEF x
            <4> QED BY <3>1 DEF Entry
        <3> HIDE DEF x
        <3> QED BY <2>4, <3>1, <3>2
    <2>6. x = [s \in 0 .. last |-> x[s]]
        OBVIOUS
    <2> HIDE DEF x
    <2>7. x = F(x)
        BY <2>5, <2>6
    <2> QED BY <2>7
<1>3. plain = F(plain)
    BY <1>2
<1> HIDE DEF plain
<1>4. \A k \in 0 .. last : \A pos \in Slots : plain[k][pos] = Entry(plain, k, pos)
    <2> TAKE k \in 0 .. last
    <2> TAKE pos \in Slots
    <2>1. F(plain)[k][pos] = Entry(plain, k, pos)
        OBVIOUS
    <2> HIDE DEF F
    <2> QED BY <1>3, <2>1
<1> QED BY <1>1, <1>4

(* A vector and a slot of it name a row and a slot of the payload.         *)
LEMMA NarrowPlaces ==
    ASSUME NEW payloads, NarrowShape(payloads), NEW k \in Nat, NEW pos \in Slots
    PROVE  /\ NarrowPlace(k, pos) \in 0 .. Half - 1
           /\ Raw(NarrowPlace(k, pos) % p.n, NarrowCount(k, pos)) \in Int
<1> DEFINE real == RealRotate(p)
           kd == k \div real
           km == k % real
           i == NarrowPlace(k, pos)
           id == i \div p.n
           im == i % p.n
           row == pos \div Half
           hf == p.preRotate \div 2
<1>1. /\ real \in Nat \ {0} /\ p.n \in Nat \ {0} /\ hf \in Nat /\ p.preRotate \in Nat
      /\ p.rotateStep \in Nat /\ Half \in Nat \ {0} /\ row \in Nat /\ pos \in Int
    <2>1. Half \in Nat \ {0} /\ row \in Nat /\ pos \in Int
        BY SlotHas
    <2>2. /\ real \in Nat \ {0} /\ p.n \in Nat \ {0} /\ hf \in Nat /\ p.preRotate \in Nat
          /\ p.rotateStep \in Nat
        BY DEF NarrowShape, TurnsRight
    <2> QED BY <2>1, <2>2
<1>2. kd \in Int /\ km \in Int
    <2> HIDE DEF real
    <2>1. real \in Nat \ {0} /\ k \in Int
        BY <1>1
    <2> QED BY <2>1, DivMod
<1>3. i \in 0 .. Half - 1
    <2> DEFINE x == pos - (km * p.rotateStep)
    <2>1. i = x % Half
        BY DEF NarrowPlace
    <2> HIDE DEF km
    <2>2. x \in Int
        BY <1>1, <1>2
    <2> HIDE DEF x, i
    <2>3. x % Half \in 0 .. Half - 1
        BY <1>1, <2>2, DivMod
    <2> QED BY <2>1, <2>3
<1>4. id \in Int /\ im \in Int
    <2> HIDE DEF i
    <2>1. i \in Int /\ p.n \in Nat \ {0}
        BY <1>1, <1>3
    <2> QED BY <2>1, DivMod
<1>5. NarrowCount(k, pos) = (kd * p.preRotate) + km + (real * id) + (row * hf)
    BY DEF NarrowCount
<1> HIDE DEF real, kd, km, id, im, row, hf, i
<1>6. kd * p.preRotate \in Int /\ real * id \in Int /\ row * hf \in Int
    BY <1>1, <1>2, <1>4
<1>7. NarrowCount(k, pos) \in Int
    BY <1>2, <1>5, <1>6
<1>8. Raw(im, NarrowCount(k, pos)) \in Int
    BY <1>4, <1>7 DEF Raw
<1> QED BY <1>3, <1>8 DEF i, im

(* The database is integers.                                               *)
LEMMA NarrowTyped ==
    ASSUME NEW payloads, NarrowShape(payloads),
           NEW last \in Nat, last = (CeilDiv(p.columns * p.slots, p.preRotate) * RealRotate(p)) - 1
    PROVE  \A k \in 0 .. last : \A pos \in Slots : Narrow(p)[k][pos] \in Int
<1> DEFINE w == Narrow(p)
           K == {k \in 0 .. last : \A pos \in Slots : w[k][pos] \in Int}
<1>1. ASSUME NEW k \in 0 .. last PROVE \A pos \in Slots : w[k][pos] = Entry(w, k, pos)
    BY <1>1, NarrowIs
<1>2. ASSUME NEW k \in 0 .. last, NEW pos \in Slots
      PROVE  Raw(NarrowPlace(k, pos) % p.n, NarrowCount(k, pos)) \in Int
    <2>1. k \in Nat
        OBVIOUS
    <2> QED BY <2>1, NarrowPlaces
<1> HIDE DEF w
<1>3. 0 \in K
    <2>1. 0 \in 0 .. last
        OBVIOUS
    <2>2. ASSUME NEW pos \in Slots PROVE w[0][pos] \in Int
        <3>1. w[0][pos] = Entry(w, 0, pos)
            BY <1>1, <2>1
        <3>2. Entry(w, 0, pos) \in Int
            BY <1>2, <2>1 DEF Entry
        <3> QED BY <3>1, <3>2
    <2> QED BY <2>1, <2>2
<1>4. ASSUME NEW k \in 0 .. last - 1, k \in K PROVE k + 1 \in K
    <2>1. k + 1 \in 0 .. last /\ (k + 1) - 1 = k
        OBVIOUS
    <2>2. ASSUME NEW pos \in Slots PROVE w[k + 1][pos] \in Int
        <3>1. w[k + 1][pos] = Entry(w, k + 1, pos)
            BY <1>1, <2>1
        <3>2. w[(k + 1) - 1][pos] \in Int
            BY <1>4, <2>1
        <3>3. Raw(NarrowPlace(k + 1, pos) % p.n, NarrowCount(k + 1, pos)) \in Int
            BY <1>2, <2>1
        <3>4. Entry(w, k + 1, pos) \in Int
            BY <3>2, <3>3 DEF Entry
        <3> QED BY <3>1, <3>4
    <2> QED BY <2>1, <2>2
<1> HIDE DEF K
<1>5. \A k \in 0 .. last : k \in K
    BY <1>3, <1>4, InductionUpTo
<1> QED BY <1>5 DEF K, w

(* Only the turn of a slot of the payload, among the turns left, brings    *)
(* the query's ones to where the test reads it.                            *)
LEMMA NarrowMeets ==
    ASSUME NEW payloads \in Nat, NarrowShape(payloads), NEW index \in 0 .. payloads - 1,
           NEW count \in 0 .. p.slots - 1, NEW m \in 0 .. TurnsOf(OutOf(count)) - 1,
           NEW copy \in 0 .. RealRotate(p) - 1
    PROVE  (RowTurned(ReadFrom(index, count), TurnsOf(OutOf(count)) - m) - (copy * p.rotateStep)) % p.n = index
             <=> m = TurnOf(count)
                 /\ copy = (CopyOf(count) % (p.preRotate \div 2)) % RealRotate(p)
<1> DEFINE hf == p.preRotate \div 2
           step == p.rotateStep
           real == RealRotate(p)
           n == p.n
           R == TurnsOf(OutOf(count))
           j == TurnOf(count)
           kl == CopyOf(count) % hf
           q == ReadFrom(index, count)
           pos == RowTurned(q, R - m)
           x == pos - (copy * step)
           e == j - m
<1>1. /\ TurnsRight /\ step \in Nat \ {0} /\ real \in Nat \ {0} /\ n \in Nat \ {0} /\ n = real * step
      /\ copy \in Nat /\ index \in 0 .. n - 1
    <2>1. TurnsRight /\ real \in Nat \ {0} /\ n \in Nat \ {0} /\ n = real * step /\ n >= payloads
        BY DEF NarrowShape
    <2>2. step \in Nat \ {0}
        BY <2>1 DEF TurnsRight
    <2>3. copy \in Nat /\ index \in 0 .. n - 1
        BY <2>1
    <2> QED BY <2>1, <2>2, <2>3
<1>2. R \in 1 .. step /\ j \in 0 .. R - 1 /\ kl \in Nat
    BY <1>1, CountIs DEF OutOf, TurnOf, CopyOf
<1>m. m \in 0 .. R - 1
    OBVIOUS
<1>3. PICK copies \in Nat \ {0} : Half = copies * n
    BY DEF NarrowShape
<1>4. q \in Slots /\ \E c \in Int : q + (R - m) = ((kl * step) + (j - m)) + (index + (Half * c))
    <2>1. index \in Nat /\ m \in Int
        BY <1>2
    <2> QED BY <1>1, <2>1, ReadFromIs
<1>5. PICK c \in Int : q + (R - m) = ((kl * step) + (j - m)) + (index + (Half * c))
    BY <1>4
<1>6. /\ pos \in Slots /\ pos % Half = (q + (R - m)) % Half
      /\ pos \in Int /\ q \in Int /\ R - m \in Int /\ Half \in Nat \ {0}
    <2>1. R - m \in Int
        BY <1>2
    <2>2. pos \in Slots /\ pos % Half = (q + (R - m)) % Half
        BY <1>4, <2>1, TurnIs
    <2>3. pos \in Int /\ q \in Int /\ Half \in Nat \ {0}
        BY <1>4, <2>2, SlotHas
    <2> QED BY <2>1, <2>2, <2>3
<1> HIDE DEF pos, q, R, j, kl, real, n, step, hf
<1>7. PICK d \in Int : pos = (q + (R - m)) + Half * d
    <2>1. q + (R - m) \in Int
        BY <1>6
    <2> QED BY <1>6, <2>1, SameRemainder
<1> DEFINE far == copies * (c + d)
           turned == (kl - copy) * step
<1>8. far \in Int /\ n * far = (Half * c) + (Half * d)
    <2>1. far \in Int
        BY <1>3
    <2>2. n * far = (copies * n) * (c + d)
        BY <1>1, <1>3
    <2>3. Half * (c + d) = (Half * c) + (Half * d)
        BY <1>6
    <2> QED BY <1>3, <2>1, <2>2, <2>3
<1>9. x = ((turned + e) + index) + (n * far) /\ x \in Int
    <2> DEFINE ks == kl * step
               cs == copy * step
               hc == Half * c
               hd == Half * d
               nf == n * far
    <2>1. turned = ks - cs /\ nf = hc + hd
        BY <1>1, <1>2, <1>8
    <2>2. ks \in Int /\ cs \in Int /\ hc \in Int /\ hd \in Int
        BY <1>1, <1>2, <1>6
    <2>3. /\ x = pos - cs /\ q + (R - m) = (ks + e) + (index + hc) /\ pos = (q + (R - m)) + hd
          /\ e \in Int /\ index \in Int
        BY <1>2, <1>m, <1>5, <1>7
    <2> HIDE DEF ks, cs, hc, hd, nf, turned, x, e
    <2>4. x = ((turned + e) + index) + nf /\ x \in Int
        BY <1>6, <2>1, <2>2, <2>3
    <2> QED BY <2>4 DEF nf
<1>10. e \in Int /\ Within(step, e) /\ (e = 0 <=> m = j)
    BY <1>1, <1>2, <1>m DEF Within
<1>11. kl \in Int /\ copy \in Int /\ index \in Int /\ far \in Int
    BY <1>1, <1>2, <1>8
<1>12. x % n = index % n <=> Meets(kl, copy, step, real, e, index, far)
    <2> HIDE DEF x, e, far
    <2> QED BY <1>1, <1>9 DEF Meets
<1> HIDE DEF x, e, far
<1>13. Meets(kl, copy, step, real, e, index, far) <=> (e = 0 /\ SameTurn(real, copy, kl))
    <2>1. step \in Nat \ {0} /\ real \in Nat \ {0}
        BY <1>1
    <2>2. e \in Int /\ Within(step, e)
        BY <1>10
    <2> QED BY <2>1, <2>2, <1>11, TurnsMeet, Zenon
<1>14. index % n = index /\ copy % real = copy
    <2>1. copy \in 0 .. real - 1
        BY DEF real
    <2> QED BY <1>1, <2>1, ModOfSmall
<1>15. x % n = index <=> m = j /\ copy = kl % real
    BY <1>10, <1>12, <1>13, <1>14 DEF SameTurn
<1> QED BY <1>15 DEF x, pos, q, R, j, kl, real, n, step, hf

\* The vector that has a slot of the payload.
VectorOf(count) ==
    (SumAt(count, TurnOf(count)) * RealRotate(p))
      + ((CopyOf(count) % (p.preRotate \div 2)) % RealRotate(p))

(* And there it is, in the row asked for.                                  *)
LEMMA NarrowHas ==
    ASSUME NEW payloads \in Nat, NarrowShape(payloads), NEW index \in 0 .. payloads - 1,
           NEW count \in 0 .. p.slots - 1, NEW pos,
           pos = RowTurned(ReadFrom(index, count), TurnsOf(OutOf(count)) - TurnOf(count))
    PROVE  /\ NarrowPlace(VectorOf(count), pos) % p.n = index
           /\ NarrowCount(VectorOf(count), pos) = count
<1> DEFINE rotate == p.preRotate
           hf == rotate \div 2
           step == p.rotateStep
           real == RealRotate(p)
           n == p.n
           R == TurnsOf(OutOf(count))
           j == TurnOf(count)
           k == CopyOf(count)
           kd == k \div hf
           kl == k % hf
           e == kl \div real
           j0 == kl % real
           s == SumAt(count, j)
           found == VectorOf(count)
           q == ReadFrom(index, count)
           ih == index \div Half
           x == pos - (j0 * step)
           y == (n * e) + index
<1>1. /\ TurnsRight /\ step \in Nat \ {0} /\ real \in Nat \ {0} /\ n \in Nat \ {0} /\ n = real * step
      /\ hf \in Nat \ {0} /\ index \in 0 .. n - 1 /\ rotate \in Nat
    <2>1. TurnsRight /\ real \in Nat \ {0} /\ n \in Nat \ {0} /\ n = real * step /\ n >= payloads
        BY DEF NarrowShape
    <2>2. step \in Nat \ {0} /\ hf \in Nat \ {0} /\ rotate \in Nat
        BY <2>1 DEF TurnsRight
    <2>3. index \in 0 .. n - 1
        BY <2>1
    <2> QED BY <2>1, <2>2, <2>3
<1>2. /\ R \in 1 .. step /\ j \in 0 .. R - 1 /\ kd \in {0, 1} /\ kl \in 0 .. hf - 1
      /\ k = (kd * hf) + kl /\ OutOf(count) \in Nat /\ count = (s * rotate) + k
    BY <1>1, CountIs DEF OutOf, TurnOf, CopyOf, SumAt
<1>3. PICK copies \in Nat \ {0} : Half = copies * n /\ hf = real * copies
    BY DEF NarrowShape
<1>4. /\ q \in Slots /\ q \div Half = (ih + kd) % 2
      /\ \E c \in Int : q + (R - j) = ((kl * step) + (j - j)) + (index + (Half * c))
    <2>1. index \in Nat /\ j \in Int
        BY <1>2
    <2> QED BY <1>1, <2>1, ReadFromIs
<1>5. PICK c \in Int : q + (R - j) = ((kl * step) + (j - j)) + (index + (Half * c))
    BY <1>4
<1>6. /\ pos \in Slots /\ pos \div Half = q \div Half /\ pos % Half = (q + (R - j)) % Half
      /\ pos \in Int /\ q \in Int /\ R - j \in Int /\ Half \in Nat \ {0}
    <2>1. R - j \in Int
        BY <1>2
    <2>2. pos \in Slots /\ pos \div Half = q \div Half /\ pos % Half = (q + (R - j)) % Half
        BY <1>4, <2>1, TurnIs
    <2>3. pos \in Int /\ q \in Int /\ Half \in Nat \ {0}
        BY <1>4, <2>2, SlotHas
    <2> QED BY <2>1, <2>2, <2>3
<1>7. kl = real * e + j0 /\ j0 \in 0 .. real - 1 /\ e \in Nat
    <2> HIDE DEF real, kl
    <2>1. real \in Nat \ {0} /\ kl \in Int /\ kl \in Nat
        BY <1>1, <1>2
    <2>2. kl = real * e + j0 /\ j0 \in 0 .. real - 1
        BY <2>1, DivMod
    <2>3. e \in 0 .. kl
        BY <2>1, QuotientBound
    <2> QED BY <2>2, <2>3
<1>8. s \in Nat
    <2>1. s = (OutOf(count) * step) + j
        BY DEF SumAt
    <2> HIDE DEF s, step, j, R
    <2>2. OutOf(count) * step \in Nat /\ j \in Nat
        BY <1>1, <1>2
    <2> QED BY <2>1, <2>2
<1>f. found = (s * real) + j0
    BY DEF VectorOf
<1>i. NarrowPlace(found, pos) = (pos - ((found % real) * step)) % Half
    BY DEF NarrowPlace
<1>n. NarrowCount(found, pos)
        = ((found \div real) * rotate) + (found % real) + (real * (NarrowPlace(found, pos) \div n))
            + ((pos \div Half) * hf)
    BY DEF NarrowCount
<1> HIDE DEF q, R, j, k, kd, kl, real, n, step, hf, rotate, e, j0, s, found, ih
<1>9. found % real = j0 /\ found \div real = s
    <2>1. s * real = real * s
        BY <1>1, <1>8
    <2>2. found = real * s + j0 /\ found \in Int /\ s \in Int
        BY <1>f, <1>1, <1>7, <1>8, <2>1
    <2>3. found % real = j0
        BY <1>1, <1>7, <2>2, ModUnique
    <2>4. found \div real = s
        BY <1>1, <1>7, <2>2, DivUnique
    <2> QED BY <2>3, <2>4
<1>10. PICK d \in Int : pos = (q + (R - j)) + Half * d
    <2>1. q + (R - j) \in Int
        BY <1>6
    <2> QED BY <1>6, <2>1, SameRemainder
<1>11. x = Half * (c + d) + y /\ x \in Int /\ y \in Int
    <2> DEFINE ks == kl * step
               cs == j0 * step
               hc == Half * c
               hd == Half * d
               hh == Half * (c + d)
               ne == n * e
    <2>1. hh = hc + hd /\ hh \in Int
        BY <1>6
    <2>2. ks \in Int /\ cs \in Int /\ hc \in Int /\ hd \in Int /\ ne \in Int
        BY <1>1, <1>2, <1>6, <1>7
    <2>3. ks = ne + cs
        <3>1. kl * step = (real * e) * step + j0 * step
            BY <1>1, <1>7
        <3>2. (real * e) * step = (real * step) * e
            BY <1>1, <1>7
        <3> QED BY <1>1, <3>1, <3>2
    <2>4. /\ x = pos - cs /\ q + (R - j) = (ks + (j - j)) + (index + hc) /\ pos = (q + (R - j)) + hd
          /\ j - j = 0 /\ index \in Int /\ y = ne + index
        BY <1>2, <1>5, <1>10
    <2> HIDE DEF ks, cs, hc, hd, hh, ne, x, y
    <2>5. x = hh + y /\ x \in Int /\ y \in Int
        BY <1>6, <2>1, <2>2, <2>3, <2>4
    <2> QED BY <2>5 DEF hh
<1>12. y \in 0 .. Half - 1
    <2>1. ASSUME e >= copies PROVE FALSE
        <3>1. real * e >= real * copies
            BY <1>1, <1>3, <1>7, <2>1
        <3>2. real * e \in Int
            BY <1>1, <1>7
        <3> QED BY <1>1, <1>2, <1>3, <1>7, <3>1, <3>2
    <2>2. e + 1 <= copies
        BY <1>3, <1>7, <2>1
    <2>3. n * (e + 1) <= n * copies
        BY <1>1, <1>3, <1>7, <2>2
    <2>4. n * (e + 1) = (n * e) + n /\ n * e \in Nat /\ n * copies = copies * n
        BY <1>1, <1>3, <1>7
    <2> DEFINE ne == n * e
               nc == n * copies
    <2>5. ne + n <= nc /\ ne \in Nat /\ nc = Half /\ y = ne + index
        BY <1>3, <2>3, <2>4
    <2> HIDE DEF ne, nc, y
    <2> QED BY <1>1, <1>6, <2>5
<1>13. NarrowPlace(found, pos) = y
    <2>1. NarrowPlace(found, pos) = x % Half
        BY <1>i, <1>9
    <2> DEFINE f == c + d
    <2>2. f \in Int /\ x = Half * f + y
        BY <1>11
    <2> HIDE DEF x, y, f
    <2>3. x % Half = y
        BY <1>6, <1>11, <1>12, <2>2, ModUnique
    <2> QED BY <2>1, <2>3
<1>14. y % n = index /\ y \div n = e
    <2>1. y = n * e + index /\ e \in Int
        BY <1>7
    <2> HIDE DEF y
    <2>2. y % n = index
        BY <1>1, <1>11, <2>1, ModUnique
    <2>3. y \div n = e
        BY <1>1, <1>11, <2>1, DivUnique
    <2> QED BY <2>2, <2>3
<1>15. pos \div Half = kd
    <2>1. ih = 0
        <3>1. n <= Half
            <4>1. n * copies >= n * 1 /\ n * copies = copies * n
                BY <1>1, <1>3
            <4> QED BY <1>1, <1>3, <4>1
        <3>2. index = Half * 0 + index /\ index \in 0 .. Half - 1 /\ index \in Int /\ 0 \in Int
            BY <1>1, <1>6, <3>1
        <3>3. index \div Half = 0
            BY <1>6, <3>2, DivUnique
        <3> QED BY <3>3 DEF ih
    <2>2. (ih + kd) % 2 = kd
        BY <1>2, <2>1
    <2> QED BY <1>4, <1>6, <2>2
<1>16. NarrowCount(found, pos) = count
    <2> HIDE DEF y
    <2>1. NarrowCount(found, pos) = (s * rotate) + j0 + (real * e) + (kd * hf)
        BY <1>n, <1>9, <1>13, <1>14, <1>15
    <2> DEFINE sr == s * rotate
               re == real * e
               kh == kd * hf
    <2>2. sr \in Int /\ re \in Int /\ kh \in Int
        BY <1>1, <1>2, <1>7, <1>8
    <2>3. NarrowCount(found, pos) = sr + j0 + re + kh /\ count = sr + k /\ k = kh + kl /\ kl = re + j0
        BY <2>1, <1>2, <1>7
    <2> HIDE DEF sr, re, kh
    <2>4. NarrowCount(found, pos) = count
        BY <1>7, <2>2, <2>3
    <2> QED BY <2>4
<1> QED BY <1>13, <1>14, <1>16 DEF found, n

(* Every slot of the payload of every row is where the test reads it.      *)
LEMMA NarrowAnswered ==
    ASSUME NEW payloads \in Nat, NarrowShape(payloads), NEW index \in 0 .. payloads - 1,
           NEW count \in 0 .. p.slots - 1
    PROVE  SingleSlot(p, index, GenResponse(p, GenQuery(p, index)), count) = Raw(index, count)
<1> DEFINE rotated == RotateSelectionVector(p, GenSelectionVector(p, GenQuery(p, index)))
           db == Narrow(p)
           rotate == p.preRotate
           real == RealRotate(p)
           R == TurnsOf(OutOf(count))
           j == TurnOf(count)
           kept == (CopyOf(count) % (rotate \div 2)) % real
           found == VectorOf(count)
           value == Raw(index, count)
           all == TotalRot(p)
           last == (all * real) - 1
<1>1. /\ TurnsRight /\ RepeatTime(p) # 1 /\ real \in Nat \ {0} /\ rotate \in Nat \ {0}
      /\ real <= rotate /\ p.columns = 1 /\ index \in Nat /\ count \in Nat /\ p.slots \in Nat
    <2>1. TurnsRight /\ RepeatTime(p) # 1 /\ real \in Nat \ {0} /\ p.columns = 1
        BY DEF NarrowShape
    <2>2. rotate \in Nat \ {0} /\ p.slots \in Nat /\ count \in Nat /\ rotate = 2 * (rotate \div 2)
          /\ rotate \div 2 \in Nat
        BY <2>1 DEF TurnsRight
    <2>3. PICK copies \in Nat \ {0} : rotate \div 2 = real * copies
        BY DEF NarrowShape
    <2> DEFINE hf == rotate \div 2
    <2> HIDE DEF hf, rotate, real
    <2>4. real * copies >= real * 1 /\ hf = real * copies
        BY <2>1, <2>3 DEF hf
    <2>5. real <= hf
        BY <2>1, <2>2, <2>4 DEF hf
    <2>6. real <= rotate
        BY <2>1, <2>2, <2>5 DEF hf
    <2> QED BY <2>1, <2>2, <2>6
<1>2. /\ OutOf(count) \in Nat /\ p.rotateStep \in Nat /\ all \in Nat
      /\ R \in Nat /\ j \in 0 .. R - 1 /\ (OutOf(count) * p.rotateStep) + R <= all
      /\ CopyOf(count) % (rotate \div 2) \in Nat
    <2>1. p.rotateStep \in Nat
        BY <1>1 DEF TurnsRight
    <2>2. all \in Nat
        <3>1. CeilDiv(p.slots, rotate) \in Nat
            <4> HIDE DEF rotate
            <4> QED BY <1>1, CeilDivIs
        <3> QED BY <3>1 DEF TotalRot
    <2> QED BY <1>1, <2>1, <2>2, CountIs DEF OutOf, TurnOf, CopyOf
<1>3. value \in Int
    BY <1>1 DEF Raw
<1>4. EncodeToNttDb(p) = db
    BY <1>1 DEF EncodeToNttDb
<1>5. last = (CeilDiv(p.columns * p.slots, p.preRotate) * RealRotate(p)) - 1
    <2>1. p.columns * p.slots = p.slots
        BY <1>1
    <2> QED BY <2>1 DEF TotalRot
<1>6. kept \in 0 .. real - 1
    <2> DEFINE kl == CopyOf(count) % (rotate \div 2)
    <2>1. kl \in Int /\ real \in Nat \ {0}
        BY <1>1, <1>2
    <2> HIDE DEF kl, real
    <2>2. kl % real \in 0 .. real - 1
        BY <2>1, DivMod
    <2> QED BY <2>2 DEF kl
<1>k. found = (SumAt(count, j) * real) + kept
    BY DEF VectorOf
<1> HIDE DEF kept, all, found
<1>7. ASSUME NEW m \in 0 .. R - 1, NEW copy \in 0 .. real - 1
      PROVE  /\ (SumAt(count, m) * real) + copy \in Counts(SumAt(count, m))
             /\ (SumAt(count, m) * real) + copy \in 0 .. last
             /\ last \in Nat
    <2> DEFINE s == SumAt(count, m)
               lo == s * real
               hi == (s + 1) * real
    <2>1. s \in Nat /\ s + 1 <= all
        <3> DEFINE os == OutOf(count) * p.rotateStep
        <3>1. os \in Nat /\ s = os + m /\ os + R <= all
            BY <1>2 DEF SumAt
        <3> HIDE DEF os, s, R
        <3> QED BY <1>2, <3>1
    <2> HIDE DEF s, rotate, real, R, last
    <2>2. lo \in Nat /\ hi = lo + real
        BY <1>1, <2>1
    <2>3. hi <= all * real /\ all * real <= all * rotate /\ all * real \in Int /\ all * rotate \in Int
        BY <1>1, <1>2, <2>1
    <2> DEFINE ar == all * real
               at == all * rotate
    <2>4. hi <= ar /\ ar <= at /\ ar \in Int /\ at \in Int /\ last = ar - 1
        BY <2>3 DEF last
    <2>5. Counts(s) = {x \in lo .. hi - 1 : x < at}
        BY <1>1 DEF Counts, all, real, rotate
    <2> HIDE DEF lo, hi, ar, at
    <2>6. lo + copy \in lo .. hi - 1 /\ lo + copy < at /\ lo + copy \in 0 .. last /\ last \in Nat
        BY <1>1, <2>2, <2>4
    <2> QED BY <2>5, <2>6 DEF s, lo
<1>8. ASSUME NEW m \in 0 .. R - 1, NEW other \in Counts(SumAt(count, m))
      PROVE  \E copy \in 0 .. real - 1 : other = (SumAt(count, m) * real) + copy
    <2> DEFINE s == SumAt(count, m)
               lo == s * real
               hi == (s + 1) * real
    <2>1. s \in Nat
        <3>1. OutOf(count) * p.rotateStep \in Nat
            BY <1>2
        <3> QED BY <1>2, <3>1 DEF SumAt
    <2>2. other \in lo .. hi - 1
        BY DEF Counts
    <2> HIDE DEF s, real
    <2>3. lo \in Nat /\ hi = lo + real
        BY <1>1, <2>1
    <2> HIDE DEF lo, hi
    <2>4. other - lo \in 0 .. real - 1 /\ other = lo + (other - lo)
        BY <1>1, <2>2, <2>3
    <2> QED BY <2>4 DEF lo, s
<1>9. ASSUME NEW m \in 0 .. R - 1, NEW copy \in 0 .. real - 1
      PROVE  Product(p, rotated, db, (SumAt(count, m) * real) + copy, RowTurned(ReadFrom(index, count), R - m))
               = IF m = j /\ copy = kept THEN value ELSE 0
    <2> DEFINE s == SumAt(count, m)
               other == (s * real) + copy
               pos == RowTurned(ReadFrom(index, count), R - m)
               F == [c \in 0 .. 0 |-> rotated[(c * real) + copy][pos] * db[(other * 1) + c][pos]]
               u == rotated[copy][pos]
               v == db[other][pos]
    <2>1. other \in 0 .. last /\ last \in Nat
        BY <1>7
    <2>2. pos \in Slots
        <3>1. R - m \in Int
            BY <1>2
        <3>2. ReadFrom(index, count) \in Slots
            BY <1>1, ReadFromIs
        <3> QED BY <3>1, <3>2, TurnIs
    <2>3. other % real = copy
        <3>1. s \in Nat
            <4>1. OutOf(count) * p.rotateStep \in Nat
                BY <1>2
            <4> QED BY <1>2, <4>1 DEF SumAt
        <3> HIDE DEF s, real
        <3>2. s * real = real * s
            BY <1>1, <3>1
        <3>3. other = real * s + copy /\ other \in Int /\ s \in Int
            BY <1>1, <3>1, <3>2
        <3> HIDE DEF other
        <3> QED BY <1>1, <3>3, ModUnique
    <2>4. u = IF m = j /\ copy = kept THEN 1 ELSE 0
        <3>1. u = IF (pos - (copy * p.rotateStep)) % p.n = index THEN 1 ELSE 0
            BY <2>2, RotatedNarrow
        <3>2. (pos - (copy * p.rotateStep)) % p.n = index <=> m = j /\ copy = kept
            BY NarrowMeets DEF kept
        <3> QED BY <3>1, <3>2
    <2>5. v \in Int
        <3> HIDE DEF other, pos, db, last
        <3>1. \A x \in 0 .. last : \A y \in Slots : Narrow(p)[x][y] \in Int
            BY <1>5, <2>1, NarrowTyped
        <3> QED BY <2>1, <2>2, <3>1 DEF db
    <2>6. ASSUME m = j, copy = kept PROVE v = value
        <3>1. other = found
            BY <1>k, <2>6
        <3>2. NarrowPlace(found, pos) % p.n = index /\ NarrowCount(found, pos) = count
            BY <2>6, NarrowHas DEF found
        <3> HIDE DEF other, pos, db, last
        <3>3. \A x \in 0 .. last : \A y \in Slots : Narrow(p)[x][y] = Entry(Narrow(p), x, y)
            BY <1>5, <2>1, NarrowIs
        <3>4. v = Entry(db, found, pos)
            BY <2>1, <2>2, <3>1, <3>3 DEF db
        <3>5. count < p.slots
            BY <1>1
        <3> QED BY <3>2, <3>4, <3>5 DEF Entry
    <2>7. Product(p, rotated, db, other, pos) = SumFunction(F)
        <3>1. 1 - 1 = 0
            OBVIOUS
        <3> HIDE DEF rotated, db, pos, other
        <3> QED BY <1>1, <2>3, <3>1 DEF Product
    <2>8. F[0] = u * v
        <3>1. (0 * real) + copy = copy /\ (other * 1) + 0 = other
            BY <1>1, <2>1
        <3> HIDE DEF rotated, db, pos, other, real
        <3> QED BY <3>1
    <2>9. F = [c \in {0} |-> F[c]]
        <3>1. 0 .. 0 = {0}
            OBVIOUS
        <3> QED BY <3>1
    <2> HIDE DEF F, u, v, pos, other, rotated, db
    <2>10. SumFunction(F) = SumOn({0}, F)
        BY <2>9 DEF SumOn
    <2>11. u * v \in Int /\ u * v = IF m = j /\ copy = kept THEN value ELSE 0
        <3>1. CASE m = j /\ copy = kept
            <4>1. u = 1 /\ v = value
                BY <2>4, <2>6, <3>1
            <4> QED BY <1>3, <3>1, <4>1
        <3>2. CASE ~ (m = j /\ copy = kept)
            <4>1. u = 0
                BY <2>4, <3>2
            <4> QED BY <2>5, <3>2, <4>1
        <3> QED BY <3>1, <3>2
    <2>12. SumOn({0}, F) = F[0]
        <3>1. IsFiniteSet({0})
            BY FS_Singleton
        <3>2. \A x \in {0} : F[x] \in Int
            BY <2>8, <2>11
        <3>3. 0 \in {0} /\ \A x \in {0} : x # 0 => F[x] = 0
            OBVIOUS
        <3> QED BY <3>1, <3>2, <3>3, SumOne
    <2> QED BY <2>7, <2>8, <2>10, <2>11, <2>12 DEF other, pos, rotated, db
<1>10. found \in Counts(SumAt(count, j))
    BY <1>2, <1>6, <1>7, <1>k
<1>11. ASSUME NEW m \in 0 .. R - 1, NEW other \in Counts(SumAt(count, m))
       PROVE  Product(p, rotated, db, other, RowTurned(ReadFrom(index, count), R - m))
                = IF m = j /\ other = found THEN value ELSE 0
    <2>1. PICK copy \in 0 .. real - 1 : other = (SumAt(count, m) * real) + copy
        BY <1>8
    <2>2. m = j => (copy = kept <=> other = found)
        <3> SUFFICES ASSUME m = j PROVE copy = kept <=> other = found
            OBVIOUS
        <3> DEFINE lo == SumAt(count, j) * real
        <3>1. other = lo + copy /\ found = lo + kept
            BY <1>k, <2>1
        <3>2. lo \in Int
            <4> DEFINE os == OutOf(count) * p.rotateStep
            <4>1. os \in Nat /\ SumAt(count, j) = os + j
                BY <1>2 DEF SumAt
            <4> HIDE DEF os, real
            <4>2. SumAt(count, j) \in Nat
                BY <1>2, <4>1
            <4> QED BY <1>1, <4>2
        <3> HIDE DEF lo, real
        <3>3. copy \in Int /\ kept \in Int
            BY <1>1, <1>6
        <3> QED BY <3>1, <3>2, <3>3
    <2>3. Product(p, rotated, db, other, RowTurned(ReadFrom(index, count), R - m))
            = IF m = j /\ copy = kept THEN value ELSE 0
        BY <1>9, <2>1
    <2> HIDE DEF rotated, db
    <2> QED BY <2>2, <2>3
<1> HIDE DEF rotated, db, value
<1>12. RealRotate(p) \in Nat
    BY <1>1
<1>13. SingleSlot(p, index, MulDatabase(p, rotated, db), count) = value
    BY <1>1, <1>3, <1>10, <1>11, <1>12, ReadRight
<1> QED BY <1>4, <1>13 DEF GenResponse, rotated, value

(* The query and the answer of one query are what the messages say, and    *)
(* its parameters are not those of a fault.                                *)
SingleInv ==
    job.kind = "single" =>
        /\ pc \in {"start", "fault", "ready", "asked", "answered"}
        /\ pc \in {"ready", "asked", "answered"} => ~ Faulty
        /\ pc \in {"asked", "answered"} => /\ batch[1] \in 0 .. job.payloads - 1
                                           /\ query = GenQuery(p, batch[1])
        /\ pc = "answered" => answer = GenResponse(p, query)

LEMMA SingleInvStep == SingleInv /\ [PiranaNext]_piranaVars => SingleInv'
<1> SUFFICES ASSUME SingleInv, [PiranaNext]_piranaVars, job'.kind = "single" PROVE SingleInv'
    BY DEF SingleInv
<1>1. job' = job /\ p' = p
    BY DEF PiranaNext, Server, SingleQuery, SingleResponse, BeginBatch, Insert, LeaveOut,
           BatchQuery, BatchResponse, Again, Settle, Kick, piranaVars, cuckoo
<1>2. Faulty' = Faulty
    BY <1>1 DEF Faulty, RepeatTime
<1>3. ASSUME UNCHANGED <<pc, batch, query, answer>> PROVE SingleInv'
    BY <1>1, <1>2, <1>3 DEF SingleInv
<1>4. CASE Server
    <2>1. pc' = IF Faulty THEN "fault" ELSE "ready"
        BY <1>4 DEF Server
    <2> QED BY <1>2, <2>1 DEF SingleInv
<1>5. ASSUME NEW index \in 0 .. job.payloads - 1, SingleQuery(index)
      PROVE  SingleInv'
    <2>1. /\ pc = "ready" /\ pc' = "asked" /\ batch' = <<index>> /\ query' = GenQuery(p, index)
        BY <1>5 DEF SingleQuery
    <2>2. batch'[1] = index
        BY <2>1
    <2>3. ~ Faulty
        BY <1>1, <2>1 DEF SingleInv
    <2> QED BY <1>1, <1>2, <1>5, <2>1, <2>2, <2>3 DEF SingleInv
<1>6. CASE SingleResponse
    <2>1. /\ pc = "asked" /\ pc' = "answered" /\ UNCHANGED <<batch, query>>
          /\ answer' = GenResponse(p, query)
        BY <1>6 DEF SingleResponse
    <2> QED BY <1>1, <1>2, <2>1 DEF SingleInv
<1>7. CASE LeaveOut
    BY <1>3, <1>7 DEF LeaveOut
<1>8. CASE Insert \/ BatchQuery
    <2>1. pc # "insert"
        BY <1>1 DEF SingleInv
    <2> QED BY <1>8, <2>1 DEF Insert, BatchQuery
<1>9. CASE BatchResponse \/ Again \/ \E items \in Batches : BeginBatch(items)
    BY <1>1, <1>9 DEF BatchResponse, Again, BeginBatch
<1>10. CASE UNCHANGED piranaVars
    BY <1>3, <1>10 DEF piranaVars, cuckoo
<1> QED BY <1>1, <1>4, <1>5, <1>6, <1>7, <1>8, <1>9, <1>10 DEF PiranaNext

(* Every slot of the payload of every query is where the test reads it.    *)
THEOREM SinglesAreRight == PiranaSpec => []SingleRight
<1>1. PiranaInit => FaultInv /\ SingleInv
    BY DEF PiranaInit, FaultInv, SingleInv
<1>2. FaultInv /\ SingleInv => SingleRight
    <2> SUFFICES ASSUME FaultInv, SingleInv, pc = "answered", job.kind = "single",
                        NEW count \in 0 .. p.slots - 1
                 PROVE  SingleSlot(p, batch[1], answer, count) = Raw(batch[1], count)
        BY DEF SingleRight
    <2> DEFINE index == batch[1]
    <2>1. PICK s \in Singles : job.payloads = s.payloads /\ p = SingleParms(s.payloads, s.bytes)
        BY DEF FaultInv
    <2> DEFINE payloads == s.payloads
    <2>2. /\ N % p.preRotate = 0 /\ ~ (RepeatTime(p) = 1 /\ p.preRotate = 1)
          /\ index \in 0 .. payloads - 1 /\ answer = GenResponse(p, GenQuery(p, index))
        BY <2>1 DEF SingleInv, Faulty
    <2>3. payloads \in 1 .. 2^30 /\ s.bytes \in Nat
        BY PiranaAssumption
    <2>4. payloads \in Nat
        <3>1. index \in Int
            BY <2>2
        <3> DEFINE top == 2^30
        <3>2. payloads \in 1 .. top
            BY <2>3
        <3> HIDE DEF top
        <3> QED BY <3>2
    <2> HIDE DEF index, payloads
    <2>5. CASE payloads <= Half
        <3>1. NarrowShape(payloads)
            BY <2>1, <2>2, <2>3, <2>5, NarrowShapes DEF payloads
        <3>2. SingleSlot(p, index, GenResponse(p, GenQuery(p, index)), count) = Raw(index, count)
            BY <2>2, <2>4, <3>1, NarrowAnswered
        <3> QED BY <2>2, <3>2 DEF index
    <2>6. CASE ~ (payloads <= Half)
        <3>1. payloads > Half
            BY <2>4, <2>6, DegreeIs
        <3>2. WideShape(payloads)
            BY <2>1, <2>2, <2>3, <3>1, WideShapes DEF payloads
        <3>3. SingleSlot(p, index, GenResponse(p, GenQuery(p, index)), count) = Raw(index, count)
            BY <2>2, <2>4, <3>2, WideAnswered
        <3> QED BY <2>2, <3>3 DEF index
    <2> QED BY <2>5, <2>6
<1> QED BY <1>1, <1>2, FaultInvStep, SingleInvStep, PTL DEF PiranaSpec
=============================================================================
