------------------------------ MODULE ThreadPool ------------------------------
(***************************************************************************)
(* wthread_pool: tasks posted from any thread, a condition variable, and a *)
(* shutdown that lets the threads finish what is queued                    *)
(* (src/wlib/wthread_pool.cpp).                                            *)
(*                                                                         *)
(* A critical section of m_lock is one step; so is a notification, which   *)
(* the code gives after it has left the section. Waiting gives up m_lock   *)
(* and may end spuriously. Tasks are numbered in the order of m_tasks.     *)
(***************************************************************************)
EXTENDS Naturals, Sequences, FiniteSets

CONSTANTS
  Threads,  (* m_threads, as many as start() was asked for    *)
  Posters,  (* threads that call post_task                    *)
  Closers,  (* threads that call shutdown, the destructor too *)
  MaxTasks  (* bound: tasks accepted                          *)

ThreadPoolAssumption ==
  /\ IsFiniteSet(Threads) /\ Threads # {}
  /\ Threads \cap Posters = {} /\ Threads \cap Closers = {} /\ Posters \cap Closers = {}
  /\ MaxTasks \in Nat

VARIABLES
  tasks,   (* m_tasks                                             *)
  stop,    (* m_stop                                              *)
  pc,      (* where each thread is                                *)
  job,     (* task: the one a thread of the pool runs, or NoTask  *)
  posted,  (* tasks accepted so far                               *)
  done     (* tasks that have run, in the order they ended        *)

vars == <<tasks, stop, pc, job, posted, done>>

NoTask == 0
Everybody == Threads \cup Posters \cup Closers
Asleep == {t \in Threads : pc[t] = "asleep"}
Goto(t, where) == pc' = [pc EXCEPT ![t] = where]

Init ==
  /\ tasks = <<>> /\ stop = FALSE
  /\ pc = [t \in Everybody |-> IF t \in Threads THEN "unborn" ELSE "idle"]
  /\ job = [t \in Threads |-> NoTask]
  /\ posted = 0 /\ done = <<>>

-----------------------------------------------------------------------------
(* start(), once, and not after a shutdown. *)
Start ==
  /\ ~stop
  /\ \A t \in Threads : pc[t] = "unborn"
  /\ pc' = [t \in Everybody |-> IF t \in Threads THEN "ready" ELSE pc[t]]
  /\ UNCHANGED <<tasks, stop, job, posted, done>>

PostTask(p) ==
  /\ pc[p] = "idle"
  /\ ~stop
  /\ posted < MaxTasks
  /\ posted' = posted + 1
  /\ tasks'  = Append(tasks, posted + 1)
  /\ Goto(p, "notify")
  /\ UNCHANGED <<stop, job, done>>

(* post_task of a pool that is shutting down does nothing. *)
PostRefused(p) ==
  /\ pc[p] = "idle"
  /\ stop
  /\ UNCHANGED vars

(* Mutant: nobody is woken. *)
NotifyNobody(p) ==
  /\ pc[p] = "notify"
  /\ Goto(p, "idle")
  /\ UNCHANGED <<tasks, stop, job, posted, done>>

NotifyOne(p) ==
  /\ pc[p] = "notify"
  /\ \/ Asleep = {} /\ Goto(p, "idle")
     \/ \E t \in Asleep : pc' = [pc EXCEPT ![p] = "idle", ![t] = "ready"]
  /\ UNCHANGED <<tasks, stop, job, posted, done>>

(* Of several calls of shutdown the first does the work, the others return. *)
Shutdown(c) ==
  /\ pc[c] = "idle"
  /\ stop' = TRUE
  /\ Goto(c, IF stop THEN "left" ELSE "notify_all")
  /\ UNCHANGED <<tasks, job, posted, done>>

(* Mutant: one thread of those that wait is woken. *)
NotifyAllOfOne(c) ==
  /\ pc[c] = "notify_all"
  /\ \/ Asleep = {} /\ Goto(c, "join")
     \/ \E t \in Asleep : pc' = [pc EXCEPT ![c] = "join", ![t] = "ready"]
  /\ UNCHANGED <<tasks, stop, job, posted, done>>

NotifyAll(c) ==
  /\ pc[c] = "notify_all"
  /\ pc' = [t \in Everybody |-> IF t \in Asleep THEN "ready"
                                ELSE IF t = c THEN "join" ELSE pc[t]]
  /\ UNCHANGED <<tasks, stop, job, posted, done>>

Join(c) ==
  /\ pc[c] = "join"
  /\ \A t \in Threads : pc[t] \in {"unborn", "ended"}
  /\ Goto(c, "joined")
  /\ UNCHANGED <<tasks, stop, job, posted, done>>

-----------------------------------------------------------------------------
(* schedual(): m_lock is taken, or taken again when the wait ends.          *)

(* Mutant: the front of the queue is not popped. *)
Unpopped(q) == q

Popped(q) == Tail(q)
MayEnd    == stop /\ tasks = <<>>

Take(t) ==
  /\ pc[t] = "ready"
  /\ tasks # <<>> /\ ~MayEnd
  /\ job'   = [job EXCEPT ![t] = Head(tasks)]
  /\ tasks' = Popped(tasks)
  /\ Goto(t, "run")
  /\ UNCHANGED <<stop, posted, done>>

Wait(t) ==
  /\ pc[t] = "ready"
  /\ tasks = <<>> /\ ~stop
  /\ Goto(t, "asleep")
  /\ UNCHANGED <<tasks, stop, job, posted, done>>

WakeUp(t) ==
  /\ pc[t] = "asleep"
  /\ Goto(t, "ready")
  /\ UNCHANGED <<tasks, stop, job, posted, done>>

End(t) ==
  /\ pc[t] = "ready"
  /\ MayEnd
  /\ Goto(t, "ended")
  /\ UNCHANGED <<tasks, stop, job, posted, done>>

Run(t) ==
  /\ pc[t] = "run"
  /\ done' = Append(done, job[t])
  /\ job'  = [job EXCEPT ![t] = NoTask]
  /\ Goto(t, "ready")
  /\ UNCHANGED <<tasks, stop, posted>>

-----------------------------------------------------------------------------
Next ==
  \/ Start
  \/ \E p \in Posters : PostTask(p) \/ PostRefused(p) \/ NotifyOne(p)
  \/ \E c \in Closers : Shutdown(c) \/ NotifyAll(c) \/ Join(c)
  \/ \E t \in Threads : Take(t) \/ Wait(t) \/ WakeUp(t) \/ End(t) \/ Run(t)

Spec == Init /\ [][Next]_vars

-----------------------------------------------------------------------------
(* The type of every variable; a thread has a task exactly while it runs.   *)
TypeOK ==
  /\ tasks \in Seq(1..MaxTasks)
  /\ stop \in BOOLEAN
  /\ DOMAIN pc = Everybody
  /\ \A t \in Threads : pc[t] \in {"unborn", "ready", "asleep", "run", "ended"}
  /\ \A p \in Posters : pc[p] \in {"idle", "notify"}
  /\ \A c \in Closers : pc[c] \in {"idle", "notify_all", "join", "joined", "left"}
  /\ job \in [Threads -> 0..MaxTasks]
  /\ \A t \in Threads : job[t] = NoTask <=> pc[t] # "run"
  /\ posted \in 0..MaxTasks
  /\ done \in Seq(1..MaxTasks)

(* A task that was accepted is in one place: queued, run by one thread, or  *)
(* done, once; the queue holds the youngest of them in order.               *)
EachTaskOnce ==
  LET Times(k, q) == Cardinality({i \in DOMAIN q : q[i] = k}) IN
  /\ \A k \in 1..posted :
       Times(k, tasks) + Times(k, done) + Cardinality({t \in Threads : job[t] = k}) = 1
  /\ \A i \in DOMAIN tasks : tasks[i] = posted - Len(tasks) + i

Started == \A t \in Threads : pc[t] # "unborn"
AllDone == tasks = <<>> /\ \A t \in Threads : job[t] = NoTask

(* "Close after the tasks have run", of every call of shutdown on a started *)
(* pool: no accepted task is left when it returns.                          *)
ShutdownIsDone ==
  (\E c \in Closers : pc[c] \in {"joined", "left"}) /\ Started => AllDone

(* A task posted to a started pool runs, with no help from a spurious        *)
(* wake-up: no notification is lost.                                        *)
EveryTaskRuns ==
  \A k \in 1..MaxTasks : posted >= k /\ Started ~> \E i \in DOMAIN done : done[i] = k

(* The first shutdown returns, since every thread that sleeps is woken; and *)
(* when it has joined a started pool, no accepted task is left.             *)
ShutdownReturns ==
  \A c \in Closers : pc[c] = "notify_all" ~> pc[c] = "joined" /\ (Started => AllDone)
=============================================================================
