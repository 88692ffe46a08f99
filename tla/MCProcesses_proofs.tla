--------------------------- MODULE MCProcesses_proofs ---------------------------
(***************************************************************************)
(* Theorems about MCProcesses: what the theorems about its parts say of    *)
(* the behaviours that the run checks, and the things that the threads of  *)
(* the two processes find (ServerLife, ClientLife), for any sets of        *)
(* threads and blocks.                                                     *)
(***************************************************************************)
EXTENDS MCProcesses, Sequences, FiniteSetTheorems, TLAPS

-----------------------------------------------------------------------------
(* A step of the whole is one of the pool, or leaves the pool alone. *)
LEMMA PoolStep == [Next]_vars => [Pool!Next]_(Pool!vars)
<1>1. [Next]_vars => UNCHANGED poolVars \/ Pool!Next
  BY DEF Next, QueuesNext, LifeNext, NetNext, vars
<1>2. UNCHANGED poolVars => UNCHANGED Pool!vars
  BY DEF poolVars, Pool!vars
<1> QED
  BY <1>1, <1>2

(* Where a thread can be.                                                     *)
PoolPcs == {"unborn", "ready", "asleep", "run", "ended", "idle", "notify",
            "notify_all", "join", "joined", "left"}

(* poolPc is a function, which TypeOK does not say. *)
PoolTypes == Pool!TypeOK /\ poolPc \in [Pool!Everybody -> PoolPcs]

(* The types hold at the start.                                               *)
LEMMA PoolTypesStart ==
  ASSUME Pool!ThreadPoolAssumption, Pool!Init
  PROVE  PoolTypes
<1>1. poolPc \in [Pool!Everybody -> PoolPcs] /\ \A t \in Threads : poolPc[t] = "unborn"
  BY DEF Pool!Init, Pool!Everybody, PoolPcs
<1>2. \A t \in Posters \cup Closers : poolPc[t] = "idle"
  BY DEF Pool!ThreadPoolAssumption, Pool!Init, Pool!Everybody
<1>3. tasks \in Seq(1..PoolTasks) /\ done \in Seq(1..PoolTasks)
  BY DEF Pool!Init
<1>4. PoolTasks \in Nat
  BY DEF Pool!ThreadPoolAssumption
<1>5. /\ job \in [Threads -> 0..PoolTasks] /\ \A t \in Threads : job[t] = Pool!NoTask
      /\ posted \in 0..PoolTasks
  BY <1>4 DEF Pool!Init, Pool!NoTask
<1>6. poolStop \in BOOLEAN
  BY DEF Pool!Init
<1> QED
  BY <1>1, <1>2, <1>3, <1>5, <1>6 DEF PoolTypes, Pool!TypeOK, Pool!Everybody

(* Every step keeps the types.                                                *)
LEMMA PoolTypesStep ==
  ASSUME Pool!ThreadPoolAssumption, PoolTypes, [Pool!Next]_(Pool!vars)
  PROVE  PoolTypes'
<1> USE DEF PoolTypes, Pool!TypeOK, Pool!Everybody, Pool!Goto, Pool!NoTask, PoolPcs
<1> /\ Threads \cap Posters = {} /\ Threads \cap Closers = {} /\ Posters \cap Closers = {}
    /\ PoolTasks \in Nat
  BY DEF Pool!ThreadPoolAssumption
<1>1. CASE UNCHANGED Pool!vars
  BY <1>1 DEF Pool!vars
<1>2. CASE Pool!Start
  BY <1>2 DEF Pool!Start
<1>3. ASSUME NEW p \in Posters, Pool!PostTask(p) PROVE PoolTypes'
  <2>1. posted' \in 0..PoolTasks /\ tasks' \in Seq(1..PoolTasks)
    BY <1>3 DEF Pool!PostTask
  <2> QED
    BY <1>3, <2>1 DEF Pool!PostTask
<1>4. ASSUME NEW p \in Posters, Pool!PostRefused(p) PROVE PoolTypes'
  BY <1>4 DEF Pool!PostRefused, Pool!vars
<1>5. ASSUME NEW p \in Posters, Pool!NotifyOne(p) PROVE PoolTypes'
  BY <1>5 DEF Pool!NotifyOne, Pool!Asleep
<1>6. ASSUME NEW c \in Closers, Pool!Shutdown(c) PROVE PoolTypes'
  BY <1>6 DEF Pool!Shutdown
<1>7. ASSUME NEW c \in Closers, Pool!NotifyAll(c) PROVE PoolTypes'
  BY <1>7 DEF Pool!NotifyAll, Pool!Asleep
<1>8. ASSUME NEW c \in Closers, Pool!Join(c) PROVE PoolTypes'
  BY <1>8 DEF Pool!Join
<1>9. ASSUME NEW t \in Threads, Pool!Take(t) PROVE PoolTypes'
  <2>1. /\ Head(tasks) \in 1..PoolTasks /\ tasks' \in Seq(1..PoolTasks)
        /\ job' = [job EXCEPT ![t] = Head(tasks)]
    BY <1>9 DEF Pool!Take, Pool!Popped
  <2>2. /\ job' \in [Threads -> 0..PoolTasks]
        /\ \A u \in Threads : job'[u] = Pool!NoTask <=> poolPc'[u] # "run"
    BY <1>9, <2>1 DEF Pool!Take
  <2> QED
    BY <1>9, <2>1, <2>2 DEF Pool!Take
<1>10. ASSUME NEW t \in Threads, Pool!Wait(t) PROVE PoolTypes'
  BY <1>10 DEF Pool!Wait
<1>11. ASSUME NEW t \in Threads, Pool!WakeUp(t) PROVE PoolTypes'
  BY <1>11 DEF Pool!WakeUp
<1>12. ASSUME NEW t \in Threads, Pool!End(t) PROVE PoolTypes'
  BY <1>12 DEF Pool!End
<1>13. ASSUME NEW t \in Threads, Pool!Run(t) PROVE PoolTypes'
  <2>1. done' \in Seq(1..PoolTasks)
    BY <1>13 DEF Pool!Run
  <2> QED
    BY <1>13, <2>1 DEF Pool!Run
<1> QED
  BY <1>1, <1>2, <1>3, <1>4, <1>5, <1>6, <1>7, <1>8, <1>9, <1>10, <1>11, <1>12, <1>13
     DEF Pool!Next

(* The types always hold.                                                     *)
LEMMA PoolTypesKept == Spec => []PoolTypes
<1>1. Init => PoolTypes
  BY ProcessesAssumption, PoolTypesStart DEF Init
<1>2. PoolTypes /\ [Next]_vars => PoolTypes'
  BY ProcessesAssumption, PoolTypesStep, PoolStep
<1> QED
  BY <1>1, <1>2, PTL DEF Spec

-----------------------------------------------------------------------------
(* The tasks that have left the queue. *)
TakenTasks == 1..(posted - Len(tasks))

(* The queue holds the youngest tasks in order; every older one has run or  *)
(* runs, and never twice.                                                   *)
TasksInv ==
  /\ Len(tasks) <= posted
  /\ \A i \in DOMAIN tasks : tasks[i] = posted - Len(tasks) + i
  /\ \A i \in DOMAIN done : done[i] \in TakenTasks
  /\ \A t \in Threads : job[t] # Pool!NoTask => job[t] \in TakenTasks
  /\ \A k \in TakenTasks :
       (\E i \in DOMAIN done : done[i] = k) \/ (\E t \in Threads : job[t] = k)
  /\ \A i, j \in DOMAIN done : done[i] = done[j] => i = j
  /\ \A t, u \in Threads : job[t] = job[u] /\ job[t] # Pool!NoTask => t = u
  /\ \A t \in Threads, i \in DOMAIN done : done[i] # job[t]

(* What arithmetic and sequences need of the types. *)
LEMMA PoolTypeFacts ==
  ASSUME PoolTypes, PoolTasks \in Nat
  PROVE  /\ posted \in Nat
         /\ Len(tasks) \in Nat /\ DOMAIN tasks = 1..Len(tasks)
         /\ Len(done) \in Nat /\ DOMAIN done = 1..Len(done)
         /\ \A i \in DOMAIN done : done[i] \in Nat
         /\ \A t \in Threads : job[t] \in Nat
BY DEF PoolTypes, Pool!TypeOK

(* Every step keeps TasksInv.                                                 *)
LEMMA TasksStep ==
  ASSUME Pool!ThreadPoolAssumption, PoolTypes, TasksInv, [Pool!Next]_(Pool!vars)
  PROVE  TasksInv'
<1> DEFINE base == posted - Len(tasks)
<1>1. UNCHANGED <<tasks, job, posted, done>> => TasksInv'
  BY DEF TasksInv, TakenTasks
<1>2. /\ posted \in Nat
      /\ Len(tasks) \in Nat /\ DOMAIN tasks = 1..Len(tasks)
      /\ Len(done) \in Nat /\ DOMAIN done = 1..Len(done)
      /\ \A i \in DOMAIN done : done[i] \in Nat
      /\ \A t \in Threads : job[t] \in Nat
  BY PoolTypeFacts DEF Pool!ThreadPoolAssumption
<1>3. base \in Nat /\ TakenTasks = 1..base
  BY <1>2 DEF TasksInv, TakenTasks
<1>4. /\ tasks \in Seq(1..PoolTasks) /\ done \in Seq(1..PoolTasks)
      /\ job \in [Threads -> 0..PoolTasks]
  BY DEF PoolTypes, Pool!TypeOK
<1> USE DEF Pool!NoTask
<1>5. ASSUME NEW p \in Posters, Pool!PostTask(p) PROVE TasksInv'
  <2>1. posted' = posted + 1 /\ tasks' = Append(tasks, posted + 1) /\ job' = job /\ done' = done
    BY <1>5 DEF Pool!PostTask
  <2>2. /\ Len(tasks') = Len(tasks) + 1 /\ DOMAIN tasks' = 1..(Len(tasks) + 1)
        /\ \A i \in DOMAIN tasks : tasks'[i] = tasks[i]
        /\ tasks'[Len(tasks) + 1] = posted + 1
    BY <1>2, <1>4, <2>1
  <2>3. posted' - Len(tasks') = base /\ Len(tasks') <= posted' /\ TakenTasks' = TakenTasks
    BY <1>2, <2>1, <2>2 DEF TasksInv, TakenTasks
  <2>4. \A i \in DOMAIN tasks' : tasks'[i] = base + i
    BY <1>2, <2>1, <2>2 DEF TasksInv
  <2> QED
    BY <2>1, <2>3, <2>4 DEF TasksInv
<1>6. ASSUME NEW t \in Threads, Pool!Take(t) PROVE TasksInv'
  <2> DEFINE k == Head(tasks)
  <2>1. /\ tasks # <<>> /\ tasks' = Tail(tasks) /\ job' = [job EXCEPT ![t] = k]
        /\ posted' = posted /\ done' = done
    BY <1>6 DEF Pool!Take, Pool!Popped
  <2>2. /\ Len(tasks) # 0 /\ Len(tasks') = Len(tasks) - 1 /\ DOMAIN tasks' = 1..(Len(tasks) - 1)
        /\ \A i \in DOMAIN tasks' : tasks'[i] = tasks[i + 1]
        /\ k = tasks[1] /\ 1 \in DOMAIN tasks
    BY <1>2, <1>4, <2>1
  <2>3. k = base + 1
    BY <1>2, <2>2 DEF TasksInv
  <2>4. /\ posted' - Len(tasks') = base + 1 /\ Len(tasks') <= posted'
        /\ TakenTasks' = 1..(base + 1)
    BY <1>2, <2>1, <2>2 DEF TasksInv, TakenTasks
  <2>5. k \in Nat /\ k # Pool!NoTask /\ k \notin TakenTasks /\ TakenTasks' = TakenTasks \cup {k}
    BY <1>3, <2>3, <2>4
  <2>6. ASSUME NEW i \in DOMAIN tasks' PROVE tasks'[i] = posted' - Len(tasks') + i
    <3>1. i \in Nat /\ i + 1 \in DOMAIN tasks /\ tasks'[i] = tasks[i + 1]
      BY <1>2, <2>2
    <3> QED
      BY <1>2, <2>4, <3>1 DEF TasksInv
  <2> HIDE DEF k, base
  <2>7. /\ job'[t] = k
        /\ \A u \in Threads \ {t} : job'[u] = job[u]
        /\ job[t] = Pool!NoTask
    BY <1>4, <1>6, <2>1 DEF Pool!Take, PoolTypes, Pool!TypeOK
  <2>8. \A j \in TakenTasks' :
          (\E i \in DOMAIN done' : done'[i] = j) \/ (\E u \in Threads : job'[u] = j)
    <3>1. ASSUME NEW j \in TakenTasks
          PROVE  (\E i \in DOMAIN done : done[i] = j) \/ (\E u \in Threads \ {t} : job[u] = j)
      BY <1>3, <2>7 DEF TasksInv
    <3> QED
      BY <2>1, <2>5, <2>7, <3>1
  <2>9. /\ \A i \in DOMAIN done' : done'[i] \in TakenTasks'
        /\ \A u \in Threads : job'[u] # Pool!NoTask => job'[u] \in TakenTasks'
        /\ \A i, j \in DOMAIN done' : done'[i] = done'[j] => i = j
    BY <2>1, <2>5, <2>7 DEF TasksInv
  <2>10. /\ \A u, v \in Threads : job'[u] = job'[v] /\ job'[u] # Pool!NoTask => u = v
         /\ \A u \in Threads, i \in DOMAIN done' : done'[i] # job'[u]
    BY <2>1, <2>5, <2>7 DEF TasksInv
  <2> QED
    BY <2>4, <2>6, <2>8, <2>9, <2>10 DEF TasksInv
<1>7. ASSUME NEW t \in Threads, Pool!Run(t) PROVE TasksInv'
  <2>1. /\ done' = Append(done, job[t]) /\ job' = [job EXCEPT ![t] = Pool!NoTask]
        /\ tasks' = tasks /\ posted' = posted
    BY <1>7 DEF Pool!Run
  <2>2. job[t] # Pool!NoTask
    BY <1>7 DEF Pool!Run, PoolTypes, Pool!TypeOK
  <2>3. /\ DOMAIN done' = 1..(Len(done) + 1)
        /\ \A i \in DOMAIN done : done'[i] = done[i]
        /\ done'[Len(done) + 1] = job[t]
    <3>1. job[t] \in 1..PoolTasks
      BY <1>4, <2>2 DEF Pool!ThreadPoolAssumption
    <3> QED
      BY <1>2, <1>4, <2>1, <3>1
  <2>4. DOMAIN done' = DOMAIN done \cup {Len(done) + 1} /\ Len(done) + 1 \notin DOMAIN done
    BY <1>2, <2>3
  <2>5. job'[t] = Pool!NoTask /\ \A u \in Threads \ {t} : job'[u] = job[u]
    BY <1>4, <2>1
  <2>6. TakenTasks' = TakenTasks /\ job[t] \in TakenTasks /\ Pool!NoTask \notin TakenTasks
    BY <1>3, <2>1, <2>2 DEF TasksInv, TakenTasks
  <2>7. \A k \in TakenTasks' :
          (\E i \in DOMAIN done' : done'[i] = k) \/ (\E u \in Threads : job'[u] = k)
    <3>1. ASSUME NEW k \in TakenTasks, k # job[t]
          PROVE  (\E i \in DOMAIN done : done[i] = k) \/ (\E u \in Threads \ {t} : job[u] = k)
      BY <3>1 DEF TasksInv
    <3>2. \E i \in DOMAIN done' : done'[i] = job[t]
      BY <2>3, <2>4
    <3>3. ASSUME NEW k \in TakenTasks, k # job[t], \E i \in DOMAIN done : done[i] = k
          PROVE  \E i \in DOMAIN done' : done'[i] = k
      BY <2>3, <2>4, <3>3
    <3>4. ASSUME NEW k \in TakenTasks, k # job[t], \E u \in Threads \ {t} : job[u] = k
          PROVE  \E u \in Threads : job'[u] = k
      BY <2>5, <3>4
    <3> QED
      BY <2>6, <3>1, <3>2, <3>3, <3>4
  <2>8. /\ \A i \in DOMAIN done' : done'[i] \in TakenTasks'
        /\ \A u \in Threads : job'[u] # Pool!NoTask => job'[u] \in TakenTasks'
    BY <2>3, <2>4, <2>5, <2>6 DEF TasksInv
  <2>9. \A i, j \in DOMAIN done' : done'[i] = done'[j] => i = j
    <3>1. \A i \in DOMAIN done : done[i] # job[t]
      BY DEF TasksInv
    <3>2. \A i, j \in DOMAIN done : done[i] = done[j] => i = j
      BY DEF TasksInv
    <3> QED
      BY <2>3, <2>4, <3>1, <3>2
  <2>10. /\ \A u, v \in Threads : job'[u] = job'[v] /\ job'[u] # Pool!NoTask => u = v
         /\ \A u \in Threads, i \in DOMAIN done' : done'[i] # job'[u]
    <3>1. /\ \A u, v \in Threads : job[u] = job[v] /\ job[u] # Pool!NoTask => u = v
          /\ \A u \in Threads, i \in DOMAIN done : done[i] # job[u]
      BY DEF TasksInv
    <3>2. \A i \in DOMAIN done' : done'[i] # Pool!NoTask
      BY <2>6, <2>8
    <3> QED
      BY <2>2, <2>3, <2>4, <2>5, <3>1, <3>2
  <2> QED
    BY <2>1, <2>7, <2>8, <2>9, <2>10 DEF TasksInv
<1>8. CASE UNCHANGED Pool!vars
  BY <1>1, <1>8 DEF Pool!vars
<1>9. CASE Pool!Start
  BY <1>1, <1>9 DEF Pool!Start
<1>10. ASSUME NEW p \in Posters, Pool!PostRefused(p) \/ Pool!NotifyOne(p) PROVE TasksInv'
  BY <1>1, <1>10 DEF Pool!PostRefused, Pool!NotifyOne, Pool!vars
<1>11. ASSUME NEW c \in Closers, Pool!Shutdown(c) \/ Pool!NotifyAll(c) \/ Pool!Join(c)
       PROVE  TasksInv'
  BY <1>1, <1>11 DEF Pool!Shutdown, Pool!NotifyAll, Pool!Join
<1>12. ASSUME NEW t \in Threads, Pool!Wait(t) \/ Pool!WakeUp(t) \/ Pool!End(t) PROVE TasksInv'
  BY <1>1, <1>12 DEF Pool!Wait, Pool!WakeUp, Pool!End
<1> QED
  BY <1>5, <1>6, <1>7, <1>8, <1>9, <1>10, <1>11, <1>12 DEF Pool!Next

(* What TasksInv says of the places of a task, said with numbers.           *)
LEMMA TasksCount ==
  ASSUME PoolTypes, TasksInv, PoolTasks \in Nat
  PROVE  Pool!EachTaskOnce
<1> USE DEF Pool!NoTask
<1> DEFINE InTasks(k) == {i \in DOMAIN tasks : tasks[i] = k}
           InDone(k)  == {i \in DOMAIN done : done[i] = k}
           InJob(k)   == {t \in Threads : job[t] = k}
           base       == posted - Len(tasks)
<1>1. posted \in Nat /\ Len(tasks) \in Nat /\ base \in Nat /\ DOMAIN tasks = 1..Len(tasks)
  BY PoolTypeFacts DEF TasksInv
<1>2. ASSUME NEW k \in 1..posted, k > base
      PROVE  Cardinality(InTasks(k)) = 1 /\ InDone(k) = {} /\ InJob(k) = {}
  <2>1. InTasks(k) = {k - base}
    BY <1>1, <1>2 DEF TasksInv
  <2>2. InDone(k) = {} /\ InJob(k) = {}
    BY <1>1, <1>2 DEF TasksInv, TakenTasks
  <2> QED
    BY <2>1, <2>2, FS_Singleton
<1>3. ASSUME NEW k \in 1..posted, k <= base
      PROVE  /\ InTasks(k) = {}
             /\ \/ Cardinality(InDone(k)) = 1 /\ InJob(k) = {}
                \/ InDone(k) = {} /\ Cardinality(InJob(k)) = 1
  <2>1. InTasks(k) = {}
    BY <1>1, <1>3 DEF TasksInv
  <2>2. k \in TakenTasks
    BY <1>1, <1>3 DEF TakenTasks
  <2>3. CASE \E i \in DOMAIN done : done[i] = k
    <3>1. PICK i \in DOMAIN done : done[i] = k
      BY <2>3
    <3>2. InDone(k) = {i} /\ InJob(k) = {}
      BY <3>1 DEF TasksInv
    <3> QED
      BY <2>1, <3>2, FS_Singleton
  <2>4. CASE ~ \E i \in DOMAIN done : done[i] = k
    <3>1. PICK t \in Threads : job[t] = k
      BY <2>2, <2>4 DEF TasksInv
    <3>2. InJob(k) = {t} /\ InDone(k) = {}
      BY <2>4, <3>1 DEF TasksInv
    <3> QED
      BY <2>1, <3>2, FS_Singleton
  <2> QED
    BY <2>3, <2>4
<1>4. ASSUME NEW k \in 1..posted
      PROVE  Cardinality(InTasks(k)) + Cardinality(InDone(k)) + Cardinality(InJob(k)) = 1
  <2>1. k > base \/ k <= base
    BY <1>1
  <2> HIDE DEF InTasks, InDone, InJob, base
  <2>2. Cardinality({}) = 0
    BY FS_EmptySet
  <2> QED
    BY <1>2, <1>3, <2>1, <2>2
<1>5. \A i \in DOMAIN tasks : tasks[i] = posted - Len(tasks) + i
  BY DEF TasksInv
<1>6. \A S : Pool!Cardinality(S) = Cardinality(S)
  BY DEF Pool!Cardinality, Cardinality
<1> HIDE DEF Pool!NoTask
<1> QED
  BY <1>4, <1>5, <1>6 DEF Pool!EachTaskOnce

(* An accepted task is queued, run by one thread or done, and the queue     *)
(* holds the youngest in order, with any number of threads that run, that   *)
(* post and that shut down (src/wlib/wthread_pool.cpp).                     *)
THEOREM TasksOnce == Spec => []EachTaskOnce
<1>1. Init => TasksInv
  BY DEF Init, Pool!Init, TasksInv, TakenTasks, Pool!NoTask
<1>2. PoolTypes /\ TasksInv /\ [Next]_vars => TasksInv'
  BY ProcessesAssumption, TasksStep, PoolStep
<1>3. PoolTypes /\ TasksInv => EachTaskOnce
  BY ProcessesAssumption, TasksCount DEF Pool!ThreadPoolAssumption, EachTaskOnce
<1> QED
  BY <1>1, <1>2, <1>3, PoolTypesKept, PTL DEF Spec

-----------------------------------------------------------------------------
(* Shutdown. A thread of the pool ends only when nothing is queued, and      *)
(* nothing is queued after a shutdown.                                       *)
StopInv ==
  /\ \A c \in Closers : poolPc[c] # "idle" => poolStop
  /\ \A t \in Threads : poolPc[t] = "ended" => poolStop /\ tasks = <<>>
  /\ \A c \in Closers :
       poolPc[c] = "joined" => \A t \in Threads : poolPc[t] \in {"unborn", "ended"}

(* When the shutdown that joins the threads returns, a pool that had been   *)
(* started has no task left (wthread_pool.h: close after the tasks have     *)
(* run). Of the calls that return at once this is not true.                 *)
JoinedIsDone == \A c \in Closers : poolPc[c] = "joined" /\ Pool!Started => Pool!AllDone

(* Every step keeps StopInv.                                                  *)
LEMMA StopStep ==
  ASSUME Pool!ThreadPoolAssumption, PoolTypes, StopInv, [Pool!Next]_(Pool!vars)
  PROVE  StopInv'
<1> USE DEF Pool!Everybody, Pool!Goto
<1> /\ Threads \cap Posters = {} /\ Threads \cap Closers = {} /\ Posters \cap Closers = {}
    /\ poolPc \in [Pool!Everybody -> PoolPcs]
  BY DEF Pool!ThreadPoolAssumption, PoolTypes
<1>1. CASE UNCHANGED Pool!vars
  BY <1>1 DEF Pool!vars, StopInv
<1>2. CASE Pool!Start
  BY <1>2 DEF Pool!Start, StopInv
<1>3. ASSUME NEW p \in Posters, Pool!PostTask(p) PROVE StopInv'
  BY <1>3 DEF Pool!PostTask, StopInv
<1>4. ASSUME NEW p \in Posters, Pool!PostRefused(p) PROVE StopInv'
  BY <1>4 DEF Pool!PostRefused, StopInv, Pool!vars
<1>5. ASSUME NEW p \in Posters, Pool!NotifyOne(p) PROVE StopInv'
  BY <1>5 DEF Pool!NotifyOne, StopInv, Pool!Asleep
<1>6. ASSUME NEW c \in Closers, Pool!Shutdown(c) PROVE StopInv'
  BY <1>6 DEF Pool!Shutdown, StopInv
<1>7. ASSUME NEW c \in Closers, Pool!NotifyAll(c) PROVE StopInv'
  BY <1>7 DEF Pool!NotifyAll, StopInv, Pool!Asleep
<1>8. ASSUME NEW c \in Closers, Pool!Join(c) PROVE StopInv'
  BY <1>8 DEF Pool!Join, StopInv
<1>9. ASSUME NEW t \in Threads, Pool!Take(t) PROVE StopInv'
  BY <1>9 DEF Pool!Take, StopInv
<1>10. ASSUME NEW t \in Threads, Pool!Wait(t) PROVE StopInv'
  BY <1>10 DEF Pool!Wait, StopInv
<1>11. ASSUME NEW t \in Threads, Pool!WakeUp(t) PROVE StopInv'
  BY <1>11 DEF Pool!WakeUp, StopInv
<1>12. ASSUME NEW t \in Threads, Pool!End(t) PROVE StopInv'
  BY <1>12 DEF Pool!End, StopInv, Pool!MayEnd
<1>13. ASSUME NEW t \in Threads, Pool!Run(t) PROVE StopInv'
  BY <1>13 DEF Pool!Run, StopInv
<1> QED
  BY <1>1, <1>2, <1>3, <1>4, <1>5, <1>6, <1>7, <1>8, <1>9, <1>10, <1>11, <1>12, <1>13
     DEF Pool!Next

(* The shutdown that joins returns only when every accepted task has run    *)
(* (src/wlib/wthread_pool.cpp).                                             *)
THEOREM JoinedShutdownIsDone == Spec => []JoinedIsDone
<1>1. Init => StopInv
  BY ProcessesAssumption DEF Pool!ThreadPoolAssumption, Init, Pool!Init, StopInv,
     Pool!Everybody
<1>2. PoolTypes /\ StopInv /\ [Next]_vars => StopInv'
  BY ProcessesAssumption, StopStep, PoolStep
<1>3. PoolTypes /\ StopInv => JoinedIsDone
  BY ProcessesAssumption
     DEF Pool!ThreadPoolAssumption, PoolTypes, Pool!TypeOK, StopInv, JoinedIsDone, Pool!Started,
         Pool!AllDone
<1> QED
  BY <1>1, <1>2, <1>3, PoolTypesKept, PTL DEF Spec

-----------------------------------------------------------------------------
(* The same of the queue of messages. *)
LEMMA QueueStep == [Next]_vars => [Queue!Next]_(Queue!vars)
<1>1. [Next]_vars => UNCHANGED queueVars \/ Queue!Next
  BY DEF Next, QueuesNext, LifeNext, NetNext, vars
<1>2. UNCHANGED queueVars => UNCHANGED Queue!vars
  BY DEF queueVars, Queue!vars, Queue!queueVars, Queue!mainVars
<1> QED
  BY <1>1, <1>2

(* Messages are handled once, in the order they were queued, all of them    *)
(* (src/wlib/wnet_msg_queue.cpp, _process_msg of wwan_server.cpp).          *)
THEOREM MessagesInOrder == Spec => []HandledInOrder
<1>1. Queue!Spec => []Queue!HandledInOrder
  BY ProcessesAssumption, Queue!MessagesHandledInOrder
<1>2. Init => Queue!Init
  BY DEF Init
<1> QED
  BY <1>1, <1>2, QueueStep, PTL DEF Spec, Queue!Spec, HandledInOrder

-----------------------------------------------------------------------------
(* The two processes. The stages of their main threads in which everything  *)
(* is there, those after the io threads were joined, and those in which the *)
(* update thread of the client runs.                                        *)
Working == {"start", "spawn", "work", "update", "prompt", "getline", "send", "join_update"}
Gone    == {"destroy_pool", "destroy_sessions", "destroy_table", "clear_queue",
            "destroy_rest", "ended"}
Reading == {"prompt", "getline", "send", "join_update"}

Everything == {"log", "cfg", "net", "pool", "sessions", "table", "queue", "handlers"}

(* What is built before which stage. *)
BuiltInv ==
  /\ main = "init_cfg"      => {"log"} \subseteq built
  /\ main = "init_net"      => {"log", "cfg"} \subseteq built
  /\ main = "init_handlers" => Everything \ {"handlers"} \subseteq built
  /\ main \in Working       => Everything \subseteq built

(* An io thread that runs finds everything, and nothing is taken apart.     *)
IoInv ==
  /\ ioThread \in [Workers -> {"connect", "read", "disconnect", "none", "run", "ended"}]
  /\ \A w \in Workers : ioThread[w] \notin {"none", "ended"} =>
       Everything \subseteq built /\ main \notin Gone

(* The update thread runs between its start and its join.                   *)
UpdateInv ==
  /\ part # "client" => updater = "none"
  /\ updater \in {"loop", "update", "leave"} => main \in Reading

FoundInv == \A m \in missed : m[1] = "main"

LifeInv == BuiltInv /\ IoInv /\ UpdateInv /\ FoundInv

(* What is in its place is not missed. *)
LEMMA UseFinds ==
  ASSUME FoundInv, NEW user, NEW things,
         user = "main" \/ things \subseteq built,
         missed' = missed \cup {<<user, t>> : t \in things \ built}
  PROVE  FoundInv'
BY DEF FoundInv

(* The io threads of both processes. *)
LEMMA IoThreadStep ==
  ASSUME LifeInv, UNCHANGED <<part, updater>>, NEW w \in Workers, Server!IoThread(w)
  PROVE  LifeInv'
<1> USE DEF Server!ioVars
<1>1. ASSUME NEW h \in Server!Handlers, Server!BeginHandler(w, h) PROVE LifeInv'
  <2>1. UNCHANGED <<main, built, missed>>
    BY <1>1 DEF Server!BeginHandler
  <2>2. IoInv'
    BY <1>1, <2>1 DEF Server!BeginHandler, Server!Handlers, LifeInv, IoInv
  <2> QED
    BY <2>1, <2>2 DEF LifeInv, BuiltInv, UpdateInv, FoundInv
<1>2. CASE Server!EndHandler(w)
  <2>1. UNCHANGED <<main, built>>
    BY <1>2 DEF Server!EndHandler
  <2>2. IoInv'
    BY <1>2, <2>1 DEF Server!EndHandler, Server!Handlers, LifeInv, IoInv
  <2>3. Everything \subseteq built
    BY <1>2 DEF Server!EndHandler, Server!Handlers, LifeInv, IoInv
  <2>4. Server!HandlerUses[ioThread[w]] \subseteq Everything
    BY <1>2 DEF Server!EndHandler, Server!Handlers, Server!HandlerUses, Everything
  <2>5. FoundInv'
    BY <1>2, <2>3, <2>4, UseFinds DEF Server!EndHandler, Server!Use, LifeInv
  <2> QED
    BY <2>1, <2>2, <2>5 DEF LifeInv, BuiltInv, UpdateInv
<1>3. CASE Server!WorkerEnds(w)
  <2>1. UNCHANGED <<main, built>>
    BY <1>3 DEF Server!WorkerEnds
  <2>2. IoInv' /\ "log" \in built
    BY <1>3, <2>1 DEF Server!WorkerEnds, LifeInv, IoInv, Everything
  <2>3. FoundInv'
    BY <1>3, <2>2, UseFinds DEF Server!WorkerEnds, Server!Use, LifeInv
  <2> QED
    BY <2>1, <2>2, <2>3 DEF LifeInv, BuiltInv, UpdateInv
<1> QED
  BY <1>1, <1>2, <1>3 DEF Server!IoThread

(* The end of the session manager and of the queue. *)
LEMMA ServerEnds ==
  ASSUME LifeInv, UNCHANGED <<part, updater>>, Server!ManagerEnds
  PROVE  LifeInv'
<1> USE DEF Server!ioVars, LifeInv, UpdateInv, Working, Gone, Reading
<1>1. CASE Server!StopIo
  BY <1>1 DEF Server!StopIo, BuiltInv, IoInv, FoundInv
<1>2. CASE Server!Join
  BY <1>2 DEF Server!Join, BuiltInv, IoInv, FoundInv
<1>3. CASE Server!DestroyPool
  BY <1>3 DEF Server!DestroyPool, Server!TakesApart, BuiltInv, IoInv, FoundInv
<1>4. ASSUME NEW from \in Gone, NEW to \in Gone, NEW blocks, NEW things,
             Server!GivesBack(from, blocks, things, to)
      PROVE  LifeInv'
  <2>1. /\ main = from /\ main' \in Gone \cup {"crashed"}
        /\ UNCHANGED ioThread
    BY <1>4 DEF Server!GivesBack
  <2>2. FoundInv'
    BY <1>4, UseFinds DEF Server!GivesBack, Server!Use, FoundInv
  <2> QED
    BY <2>1, <2>2 DEF BuiltInv, IoInv
<1>5. CASE Server!DestroySessions
  BY <1>4, <1>5 DEF Server!DestroySessions
<1>6. CASE Server!ClearQueue
  BY <1>4, <1>6 DEF Server!ClearQueue
<1> QED
  BY <1>1, <1>2, <1>3, <1>5, <1>6 DEF Server!ManagerEnds

(* The end of the session manager and of the queue. *)
LEMMA ClientEnds ==
  ASSUME LifeInv, UNCHANGED <<part, updater>>, Client!ManagerEnds
  PROVE  LifeInv'
<1> USE DEF Client!ioVars, LifeInv, UpdateInv, Working, Gone, Reading
<1>1. CASE Client!StopIo
  BY <1>1 DEF Client!StopIo, BuiltInv, IoInv, FoundInv
<1>2. CASE Client!Join
  BY <1>2 DEF Client!Join, BuiltInv, IoInv, FoundInv
<1>3. CASE Client!DestroyPool
  BY <1>3 DEF Client!DestroyPool, Client!TakesApart, BuiltInv, IoInv, FoundInv
<1>4. ASSUME NEW from \in Gone, NEW to \in Gone, NEW blocks, NEW things,
             Client!GivesBack(from, blocks, things, to)
      PROVE  LifeInv'
  <2>1. /\ main = from /\ main' \in Gone \cup {"crashed"}
        /\ UNCHANGED ioThread
    BY <1>4 DEF Client!GivesBack
  <2>2. FoundInv'
    BY <1>4, UseFinds DEF Client!GivesBack, Client!Use, FoundInv
  <2> QED
    BY <2>1, <2>2 DEF BuiltInv, IoInv
<1>5. CASE Client!DestroySessions
  BY <1>4, <1>5 DEF Client!DestroySessions
<1>6. CASE Client!ClearQueue
  BY <1>4, <1>6 DEF Client!ClearQueue
<1> QED
  BY <1>1, <1>2, <1>3, <1>5, <1>6 DEF Client!ManagerEnds

(* A step of the server. *)
LEMMA ServerStep ==
  ASSUME part = "server", LifeInv, UNCHANGED <<part, updater>>, Server!Next
  PROVE  LifeInv'
<1>1. CASE Server!StopMain
  BY <1>1 DEF Server!StopMain, Server!ioVars, BuiltInv, IoInv, UpdateInv, FoundInv,
     LifeInv, Working, Gone, Reading, Everything
<1>2. CASE Server!InitLog
  BY <1>2 DEF Server!InitLog, Server!Builds, Server!ioVars, BuiltInv, IoInv, UpdateInv,
     FoundInv, LifeInv, Working, Gone, Reading, Everything
<1>3. CASE Server!InitCfg
  BY <1>3 DEF Server!InitCfg, Server!Builds, Server!ioVars, BuiltInv, IoInv, UpdateInv,
     FoundInv, LifeInv, Working, Gone, Reading, Everything
<1>4. CASE Server!InitServer
  BY <1>4 DEF Server!InitServer, Server!Builds, Server!ioVars, BuiltInv, IoInv, UpdateInv,
     FoundInv, LifeInv, Working, Gone, Reading, Everything
<1>5. CASE Server!InitHandlers
  BY <1>5 DEF Server!InitHandlers, Server!Builds, Server!ioVars, BuiltInv, IoInv,
     UpdateInv, FoundInv, LifeInv, Working, Gone, Reading, Everything
<1>6. CASE Server!Start
  BY <1>6 DEF Server!Start, Server!ioVars, BuiltInv, IoInv, UpdateInv, FoundInv, LifeInv,
     Working, Gone, Reading, Everything
<1>7. CASE Server!Update
  <2>1. Everything \subseteq built /\ {"queue"} \subseteq Everything
    BY <1>7 DEF Server!Update, LifeInv, BuiltInv, UpdateInv, Working, Reading, Everything
  <2>2. FoundInv'
    BY <1>7, <2>1, UseFinds DEF Server!Update, Server!TakeQueue, Server!Use,
       Server!ioVars, LifeInv
  <2> QED
    BY <1>7, <2>2 DEF Server!Update, Server!TakeQueue, Server!Use, Server!ioVars,
       BuiltInv, IoInv, UpdateInv, LifeInv, Working, Gone, Reading, Everything
<1>8. CASE Server!HandleNext
  <2>1. PICK b \in LifeBlocks : main = "update" /\ Server!HandleMsg(b, TRUE)
    BY <1>8 DEF Server!HandleNext
  <2>2. Everything \subseteq built
    BY <2>1 DEF LifeInv, BuiltInv, Working
  <2>3. FoundInv'
    BY <2>1, <2>2, UseFinds DEF Server!HandleMsg, Server!Use, LifeInv, Everything
  <2> QED
    BY <2>1, <2>3 DEF Server!HandleMsg, Server!ioVars, LifeInv, BuiltInv, IoInv, UpdateInv
<1>9. CASE Server!UpdateEnds
  BY <1>9 DEF Server!UpdateEnds, Server!Builds, Server!ioVars, BuiltInv, IoInv, UpdateInv,
     FoundInv, LifeInv, Working, Gone, Reading, Everything
<1>10. CASE Server!LeaveLoop
  BY <1>10 DEF Server!LeaveLoop, Server!Builds, Server!ioVars, BuiltInv, IoInv, UpdateInv,
     FoundInv, LifeInv, Working, Gone, Reading, Everything
<1>11. CASE Server!Shutdown
  <2>1. FoundInv'
    BY <1>11, UseFinds DEF Server!Shutdown, Server!Use, LifeInv
  <2> QED
    BY <1>11, <2>1 DEF Server!Shutdown, Server!ioVars, BuiltInv, IoInv, UpdateInv,
       LifeInv, Working, Gone,
       Reading, Everything
<1>12. CASE Server!DestroyTable
  BY <1>12 DEF Server!DestroyTable, Server!TakesApart, Server!ioVars, BuiltInv, IoInv,
     UpdateInv, FoundInv, LifeInv, Working, Gone, Reading, Everything
<1>13. CASE Server!DestroyRest
  BY <1>13 DEF Server!DestroyRest, Server!TakesApart, Server!ioVars, BuiltInv, IoInv,
     UpdateInv, FoundInv, LifeInv, Working, Gone, Reading, Everything
<1> QED
  BY <1>1, <1>2, <1>3, <1>4, <1>5, <1>6, <1>7, <1>8, <1>9, <1>10, <1>11, <1>12, <1>13,
     ServerEnds, IoThreadStep DEF Server!Next, Server!MainThread

(* A step of the client. Its io threads are those of the server. *)
LEMMA ClientStep ==
  ASSUME part = "client", LifeInv, UNCHANGED part, Client!Next
  PROVE  LifeInv'
<1>1. CASE Client!Spawn
  BY <1>1 DEF Client!Spawn, Client!Builds, Client!ioVars, BuiltInv, IoInv, UpdateInv,
     FoundInv, LifeInv, Working, Gone, Reading, Everything
<1>2. CASE Client!LeaveInput
  BY <1>2 DEF Client!LeaveInput, Client!Builds, Client!ioVars, BuiltInv, IoInv, UpdateInv,
     FoundInv, LifeInv, Working, Gone, Reading, Everything
<1>3. ASSUME UNCHANGED <<updateStop, updater>>,
             \/ Client!InitLog \/ Client!InitCfg \/ Client!InitClient \/ Client!InitHandlers
             \/ Client!Start \/ Client!Prompt \/ Client!Send \/ Client!JoinUpdate
             \/ Client!Shutdown \/ Client!ManagerEnds
             \/ Client!DestroyTable \/ Client!DestroyRest
      PROVE  LifeInv'
  <2>1. CASE Client!InitLog
    BY <1>3, <2>1 DEF Client!InitLog, Client!Builds, Client!ioVars, BuiltInv, IoInv,
       UpdateInv, FoundInv, LifeInv, Working, Gone, Reading, Everything
  <2>2. CASE Client!InitCfg
    BY <1>3, <2>2 DEF Client!InitCfg, Client!Builds, Client!ioVars, BuiltInv, IoInv,
       UpdateInv, FoundInv, LifeInv, Working, Gone, Reading, Everything
  <2>3. CASE Client!InitClient
    BY <1>3, <2>3 DEF Client!InitClient, Client!Builds, Client!ioVars, BuiltInv, IoInv,
       UpdateInv, FoundInv, LifeInv, Working, Gone, Reading, Everything
  <2>4. CASE Client!InitHandlers
    BY <1>3, <2>4 DEF Client!InitHandlers, Client!Builds, Client!ioVars, BuiltInv, IoInv,
       UpdateInv, FoundInv, LifeInv, Working, Gone, Reading, Everything
  <2>5. CASE Client!Start
    BY <1>3, <2>5 DEF Client!Start, Client!ioVars, BuiltInv, IoInv, UpdateInv, FoundInv,
       LifeInv, Working, Gone, Reading, Everything
  <2>6. CASE Client!Prompt
    BY <1>3, <2>6 DEF Client!Prompt, Client!Builds, Client!ioVars, BuiltInv, IoInv,
       UpdateInv, FoundInv, LifeInv, Working, Gone, Reading, Everything
  <2>7. CASE Client!Send
    <3>1. FoundInv'
      BY <2>7, UseFinds DEF Client!Send, Client!Use, LifeInv
    <3> QED
      BY <1>3, <2>7, <3>1 DEF Client!Send, Client!ioVars, LifeInv, BuiltInv, IoInv,
         UpdateInv, Working, Gone,
         Reading
  <2>8. CASE Client!JoinUpdate
    BY <1>3, <2>8 DEF Client!JoinUpdate, Client!Builds, Client!ioVars, BuiltInv, IoInv,
       UpdateInv, FoundInv, LifeInv, Working, Gone, Reading, Everything
  <2>9. CASE Client!Shutdown
    <3>1. FoundInv'
      BY <2>9, UseFinds DEF Client!Shutdown, Client!Use, LifeInv
    <3> QED
      BY <1>3, <2>9, <3>1 DEF Client!Shutdown, Client!ioVars, LifeInv, BuiltInv, IoInv,
         UpdateInv, Working, Gone,
         Reading, Everything
  <2>10. CASE Client!DestroyTable
    BY <1>3, <2>10 DEF Client!DestroyTable, Client!TakesApart, Client!ioVars, BuiltInv,
       IoInv, UpdateInv, FoundInv, LifeInv, Working, Gone, Reading, Everything
  <2>11. CASE Client!DestroyRest
    BY <1>3, <2>11 DEF Client!DestroyRest, Client!TakesApart, Client!ioVars, BuiltInv,
       IoInv, UpdateInv, FoundInv, LifeInv, Working, Gone, Reading, Everything
  <2> QED
    BY <1>3, <2>1, <2>2, <2>3, <2>4, <2>5, <2>6, <2>7, <2>8, <2>9, <2>10, <2>11, ClientEnds
<1>4. CASE Client!Update /\ Client!UpdateThread
  <2>1. Everything \subseteq built
    BY <1>4 DEF Client!Update, LifeInv, BuiltInv, UpdateInv, Working, Reading
  <2>2. FoundInv'
    BY <1>4, <2>1, UseFinds DEF Client!Update, Client!TakeQueue, Client!Use, LifeInv,
       Everything
  <2> QED
    BY <1>4, <2>2 DEF Client!Update, Client!TakeQueue, Client!ioVars, LifeInv, BuiltInv,
       IoInv, UpdateInv
<1>5. CASE Client!HandleNext
  <2>1. PICK b \in LifeBlocks : updater = "update" /\ Client!HandleMsg(b, FALSE)
    BY <1>5 DEF Client!HandleNext
  <2>2. Everything \subseteq built
    BY <2>1 DEF LifeInv, BuiltInv, UpdateInv, Working, Reading
  <2>3. FoundInv'
    BY <2>1, <2>2, UseFinds DEF Client!HandleMsg, Client!Use, LifeInv, Everything
  <2> QED
    BY <1>5, <2>1, <2>3 DEF Client!HandleNext, Client!HandleMsg, Client!ioVars, LifeInv,
       BuiltInv, IoInv, UpdateInv
<1>6. CASE Client!UpdateEnds
  BY <1>6 DEF Client!UpdateEnds, Client!ioVars, BuiltInv, IoInv, UpdateInv, FoundInv,
     LifeInv, Working, Gone, Reading, Everything
<1>7. CASE Client!UpdaterLeaves
  <2>1. "log" \in built
    BY <1>7 DEF Client!UpdaterLeaves, LifeInv, BuiltInv, UpdateInv, Working, Reading,
       Everything
  <2>2. FoundInv'
    BY <1>7, <2>1, UseFinds DEF Client!UpdaterLeaves, Client!Use, LifeInv
  <2> QED
    BY <1>7, <2>2 DEF Client!UpdaterLeaves, Client!ioVars, LifeInv, BuiltInv, IoInv,
       UpdateInv
<1>8. ASSUME UNCHANGED <<updateStop, updater>>, Client!StopMain PROVE LifeInv'
  BY <1>8 DEF Client!StopMain, Client!ioVars, BuiltInv, IoInv, UpdateInv, FoundInv,
     LifeInv, Working, Gone, Reading, Everything
<1>9. ASSUME UNCHANGED <<updateStop, updater>>, Client!Line PROVE LifeInv'
  BY <1>9 DEF Client!Line, Client!ioVars, BuiltInv, IoInv, UpdateInv, FoundInv, LifeInv,
     Working, Gone, Reading, Everything
<1>10. ASSUME UNCHANGED <<updateStop, updater>>, NEW w \in Workers, Client!IoThread(w)
       PROVE  LifeInv'
  <2>1. Server!IoThread(w)
    BY <1>10 DEF Client!IoThread, Server!IoThread, Client!BeginHandler,
       Server!BeginHandler, Client!EndHandler, Server!EndHandler, Client!WorkerEnds,
       Server!WorkerEnds, Client!HandlerUses, Server!HandlerUses, Client!Handlers,
       Server!Handlers, Client!Use, Server!Use, Client!Effect, Server!Effect, Client!Move,
       Server!Move, Client!In, Server!In, Client!ioVars, Server!ioVars
  <2> QED
    BY <1>10, <2>1, IoThreadStep
<1> QED
  BY <1>1, <1>2, <1>3, <1>4, <1>5, <1>6, <1>7, <1>8, <1>9, <1>10 DEF Client!Next,
     Client!MainThread, Client!UpdateThread

(* The same with the steps of the other parts. *)
LEMMA LifeStep ==
  ASSUME LifeInv, [Next]_vars
  PROVE  LifeInv'
<1>1. CASE UNCHANGED <<part, lifeVars>>
  BY <1>1 DEF lifeVars, LifeInv, BuiltInv, IoInv, UpdateInv, FoundInv
<1>2. CASE part = "server" /\ UNCHANGED part /\ Server!Next /\ UNCHANGED <<updateStop, updater>>
  BY <1>2, ServerStep
<1>3. CASE part = "client" /\ UNCHANGED part /\ Client!Next
  BY <1>3, ClientStep
<1> QED
  BY <1>1, <1>2, <1>3 DEF Next, QueuesNext, LifeNext, NetNext, vars

(* Nothing is there, and nobody looks for it. *)
LEMMA LifeStarts ==
  ASSUME Init
  PROVE  LifeInv
BY DEF Init, Client!Init, Client!Beginning, LifeInv, BuiltInv, IoInv, UpdateInv, FoundInv,
   Working, Gone, Reading

(* No handler of an io thread and no update() meets a thing that is not     *)
(* there, in the server or the client, whichever step of init has failed    *)
(* (wmain_thread.cpp, wwan_server.cpp, wwan_client.cpp): everything is      *)
(* built before the first of these threads starts, and nothing goes before  *)
(* the last is joined.                                                      *)
THEOREM HandlersFindEverything == Spec => []HandlersFindAll
<1>1. LifeInv => HandlersFindAll
  BY DEF LifeInv, FoundInv, HandlersFindAll, Server!HandlersFindAll
<1> QED
  BY <1>1, LifeStarts, LifeStep, PTL DEF Spec
=============================================================================
