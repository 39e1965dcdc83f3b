----------------------------- MODULE TaskSystem -----------------------------
(***************************************************************************)
(* The worker pool: the job queue, tasks with their continuations, the      *)
(* main-thread queue, RunParallel (from the main thread and from a job),    *)
(* ForEachWorker, WaitForAll and the destructor.                            *)
(*                                                                         *)
(* One action per critical section.  A notification is part of the section  *)
(* it follows: one that comes later can only wake a thread once too often.  *)
(* m_WorkAvailable is notified one waiter at a time, so who sleeps on it is  *)
(* state ("asleep"); every other wait is notified of every change of its    *)
(* predicate, and is a guard.  No thread wakes up spuriously.               *)
(***************************************************************************)
EXTENDS Integers, Sequences, FiniteSets

CONSTANTS Main,         \* the thread that owns the pool
          WorkerCount,  \* m_WorkerCount
          Tasks,        \* the jobs that Main may submit, each once
          Nested,       \* those whose callable calls RunParallel
          Ranges,       \* the ranges of a RunParallel
          Plans         \* which of "parallel" and "each" Main calls, in one life of the pool

Workers == 0 .. WorkerCount - 1
Threads == Workers \cup {Main}
Callers == Nested \cup {Main}

\* Where a thread may be, in the pool's own code.
Places == {"main", "loop", "asleep", "exited", "run", "finish", "count", "help", "claim", "body",
           "leave", "await", "barrier", "each", "pump", "drain", "join", "gone"}

ASSUME PoolAssumption == /\ WorkerCount \in Nat \ {0} /\ Ranges \in Nat \ {0, 1}
                         /\ Plans \subseteq SUBSET {"parallel", "each"}
                         /\ Nested \subseteq Tasks
                         /\ Main \notin Tasks \cup Workers /\ Tasks \cap Places = {}

VARIABLES
  plan,       \* a member of Plans, chosen at the start
  queue,      \* m_Queue
  active,     \* m_ActiveJobs
  stopping,   \* m_Stopping
  pc, job,    \* where each thread is; the job each worker runs
  submitted, done, stored,      \* tasks: TaskState's Done and Continuation
  asked,                        \* those that were given a continuation
  mainQueue, pending, ran,      \* m_MainThreadQueue, the pump's copy, runs per task
  dispatch,   \* RunParallel's claim-state, one per caller
  part,       \* the range or index that a thread has in its hands
  each        \* ForEachWorker's locals: jobs to submit, arrived, who ran which index

poolVars == <<plan, queue, active, stopping, job>>
taskVars == <<submitted, done, stored, asked>>
pumpVars == <<mainQueue, pending, ran>>
callVars == <<dispatch, part, each>>
vars == <<plan, queue, active, stopping, pc, job, submitted, done, stored, asked,
          mainQueue, pending, ran, dispatch, part, each>>

NoJob == [kind |-> "none", of |-> Main]
TaskJob(t) == [kind |-> "task", of |-> t]
HelpJob(d) == [kind |-> "help", of |-> d]
EachJob    == [kind |-> "each", of |-> Main]

Helpers == IF Ranges - 1 < WorkerCount THEN Ranges - 1 ELSE WorkerCount

Init ==
  /\ plan \in Plans
  /\ queue = <<>> /\ active = 0 /\ stopping = FALSE
  /\ pc = [th \in Threads |-> IF th = Main THEN "main" ELSE "loop"]
  /\ job = [w \in Workers |-> NoJob]
  /\ submitted = {} /\ done = {} /\ stored = {} /\ asked = {}
  /\ mainQueue = <<>> /\ pending = <<>> /\ ran = [t \in Tasks |-> 0]
  /\ dispatch = [d \in Callers |-> [left |-> Helpers, cursor |-> 0, members |-> 0,
                                    covered |-> [r \in 0 .. Ranges - 1 |-> 0],
                                    returned |-> FALSE]]
  /\ part = [th \in Threads |-> 0]
  /\ each = [left |-> WorkerCount, arrived |-> 0, served |-> {}, finished |-> 0]

Goes(th, to) == pc' = [pc EXCEPT ![th] = to]

(* Queue and workers *)

Sleepers == {w \in Workers : pc[w] = "asleep"}
NotifyNone(at) == {at}
NotifyOne(at) == IF Sleepers = {} THEN {at}
                 ELSE {[at EXCEPT ![w] = "loop"] : w \in Sleepers}
Enqueue(j, at) == /\ queue' = Append(queue, j)
                  /\ active' = active + 1
                  /\ pc' \in NotifyOne(at)

Take(w) ==
  /\ pc[w] = "loop" /\ queue # <<>>
  /\ job' = [job EXCEPT ![w] = Head(queue)]
  /\ queue' = Tail(queue)
  /\ Goes(w, "run")
  /\ UNCHANGED <<plan, active, stopping, taskVars, pumpVars, callVars>>

Sleep(w) ==
  /\ pc[w] = "loop" /\ queue = <<>>
  /\ Goes(w, IF stopping THEN "exited" ELSE "asleep")
  /\ UNCHANGED <<poolVars, taskVars, pumpVars, callVars>>

RunPlain(w) ==
  /\ pc[w] = "run" /\ job[w].kind = "task" /\ job[w].of \notin Nested
  /\ Goes(w, "finish")
  /\ UNCHANGED <<poolVars, taskVars, pumpVars, callVars>>

\* The result lands, and a continuation stored before it is queued under the same lock.
Landed(t) == /\ done' = done \cup {t}
             /\ stored' = stored \ {t}
             /\ mainQueue' = IF t \in stored THEN Append(mainQueue, t) ELSE mainQueue

Finish(w) ==
  /\ pc[w] = "finish"
  /\ IF job[w].kind = "task" THEN Landed(job[w].of)
                             ELSE UNCHANGED <<done, stored, mainQueue>>
  /\ each' = IF job[w].kind = "each" THEN [each EXCEPT !.finished = @ + 1] ELSE each
  /\ Goes(w, "count")
  /\ UNCHANGED <<poolVars, submitted, asked, pending, ran, dispatch, part>>

Count(w) ==
  /\ pc[w] = "count"
  /\ active' = active - 1
  /\ job' = [job EXCEPT ![w] = NoJob]
  /\ Goes(w, "loop")
  /\ UNCHANGED <<plan, queue, stopping, taskVars, pumpVars, callVars>>

(* RunParallel *)

Of(th) == IF th = Main THEN Main ELSE job[th].of
IsCaller(th) == th = Main \/ job[th].kind = "task"

\* Main's own RunParallel, once, or that of a nested task.
BeginParallel(th) ==
  /\ IF th = Main THEN pc[th] = "main" /\ "parallel" \in plan /\ ~dispatch[Main].returned
                  ELSE pc[th] = "run" /\ job[th].kind = "task" /\ job[th].of \in Nested
  /\ dispatch' = [dispatch EXCEPT ![Of(th)].members = 1]
  /\ Goes(th, "help")
  /\ UNCHANGED <<poolVars, taskVars, pumpVars, part, each>>

SubmitHelper(th) ==
  LET d == Of(th) IN
  /\ pc[th] = "help" /\ dispatch[d].left > 0
  /\ dispatch' = [dispatch EXCEPT ![d].left = @ - 1]
  /\ Enqueue(HelpJob(d), [pc EXCEPT ![th] = IF dispatch[d].left = 1 THEN "claim" ELSE "help"])
  /\ UNCHANGED <<plan, stopping, job, taskVars, pumpVars, part, each>>

Register(w) ==
  /\ pc[w] = "run" /\ job[w].kind = "help"
  /\ dispatch' = [dispatch EXCEPT ![Of(w)].members = @ + 1]
  /\ Goes(w, "claim")
  /\ UNCHANGED <<poolVars, taskVars, pumpVars, part, each>>

Exhausted(d) == dispatch[d].cursor >= Ranges

Claim(th) ==
  LET d == Of(th) IN
  /\ pc[th] = "claim"
  /\ dispatch' = [dispatch EXCEPT ![d].cursor = @ + 1]
  /\ IF Exhausted(d) THEN Goes(th, "leave") /\ UNCHANGED part
                     ELSE Goes(th, "body") /\ part' = [part EXCEPT ![th] = dispatch[d].cursor]
  /\ UNCHANGED <<poolVars, taskVars, pumpVars, each>>

Body(th) ==
  /\ pc[th] = "body"
  /\ dispatch' = [dispatch EXCEPT ![Of(th)].covered[part[th]] = @ + 1]
  /\ part' = [part EXCEPT ![th] = 0]
  /\ Goes(th, "claim")
  /\ UNCHANGED <<poolVars, taskVars, pumpVars, each>>

Leave(th) ==
  /\ pc[th] = "leave"
  /\ dispatch' = [dispatch EXCEPT ![Of(th)].members = @ - 1]
  /\ Goes(th, IF IsCaller(th) THEN "await" ELSE "finish")
  /\ UNCHANGED <<poolVars, taskVars, pumpVars, part, each>>

DrainedByCursor(d) == Exhausted(d)
Drained(d) == dispatch[d].members = 0

EndParallel(th) ==
  /\ pc[th] = "await" /\ Drained(Of(th))
  /\ dispatch' = [dispatch EXCEPT ![Of(th)].returned = TRUE]
  /\ Goes(th, IF th = Main THEN "main" ELSE "finish")
  /\ UNCHANGED <<poolVars, taskVars, pumpVars, part, each>>

(* ForEachWorker *)

SubmitEach ==
  /\ "each" \in plan /\ pc[Main] \in {"main", "each"} /\ each.left > 0
  /\ each' = [each EXCEPT !.left = @ - 1]
  /\ Enqueue(EachJob, [pc EXCEPT ![Main] = "each"])
  /\ UNCHANGED <<plan, stopping, job, taskVars, pumpVars, dispatch, part>>

Arrive(w) ==
  /\ pc[w] = "run" /\ job[w].kind = "each"
  /\ part' = [part EXCEPT ![w] = each.arrived]
  /\ each' = [each EXCEPT !.arrived = @ + 1]
  /\ Goes(w, "barrier")
  /\ UNCHANGED <<poolVars, taskVars, pumpVars, dispatch>>

AllHere == each.arrived = WorkerCount

PassBarrier(w) ==
  /\ pc[w] = "barrier" /\ AllHere
  /\ each' = [each EXCEPT !.served = @ \cup {<<w, part[w]>>}]
  /\ part' = [part EXCEPT ![w] = 0]
  /\ Goes(w, "finish")
  /\ UNCHANGED <<poolVars, taskVars, pumpVars, dispatch>>

EndEach ==
  /\ pc[Main] = "each" /\ each.left = 0 /\ each.finished = WorkerCount
  /\ Goes(Main, "main")
  /\ UNCHANGED <<poolVars, taskVars, pumpVars, callVars>>

(* What Main may call; a continuation, too, may submit and register ("pump"). *)

Submit(t) ==
  /\ pc[Main] \in {"main", "pump"} /\ t \in Tasks \ submitted
  /\ submitted' = submitted \cup {t}
  /\ Enqueue(TaskJob(t), pc)
  /\ UNCHANGED <<plan, stopping, job, done, stored, asked, pumpVars, callVars>>

ThenUnchecked(t) ==
  /\ pc[Main] \in {"main", "pump"} /\ t \in submitted \ asked
  /\ asked' = asked \cup {t} /\ stored' = stored \cup {t}
  /\ UNCHANGED <<poolVars, pc, submitted, done, pumpVars, callVars>>

Then(t) ==
  /\ pc[Main] \in {"main", "pump"} /\ t \in submitted \ asked
  /\ asked' = asked \cup {t}
  /\ IF t \in done THEN mainQueue' = Append(mainQueue, t) /\ UNCHANGED stored
                   ELSE stored' = stored \cup {t} /\ UNCHANGED mainQueue
  /\ UNCHANGED <<poolVars, pc, submitted, done, pending, ran, callVars>>

\* Get() on a task that is not done yet; on another it returns at once and changes nothing.
Get(t) ==
  /\ pc[Main] = "main" /\ t \in submitted \ done
  /\ Goes(Main, t)
  /\ UNCHANGED <<poolVars, taskVars, pumpVars, callVars>>

GetReturns ==
  /\ pc[Main] \in done
  /\ Goes(Main, "main")
  /\ UNCHANGED <<poolVars, taskVars, pumpVars, callVars>>

PumpMainThread ==
  /\ pc[Main] = "main" /\ mainQueue # <<>>
  /\ pending' = mainQueue /\ mainQueue' = <<>>
  /\ Goes(Main, "pump")
  /\ UNCHANGED <<poolVars, taskVars, ran, callVars>>

RunContinuation ==
  /\ pc[Main] = "pump"
  /\ ran' = [ran EXCEPT ![Head(pending)] = @ + 1]
  /\ pending' = Tail(pending)
  /\ Goes(Main, IF Len(pending) = 1 THEN "main" ELSE "pump")
  /\ UNCHANGED <<poolVars, taskVars, mainQueue, callVars>>

WaitForAll ==
  /\ pc[Main] = "main" /\ active > 0
  /\ Goes(Main, "drain")
  /\ UNCHANGED <<poolVars, taskVars, pumpVars, callVars>>

IdleQueue == queue = <<>>
Idle == queue = <<>> /\ active = 0

WaitReturns ==
  /\ pc[Main] = "drain" /\ Idle
  /\ Goes(Main, "main")
  /\ UNCHANGED <<poolVars, taskVars, pumpVars, callVars>>

\* The destructor: it wakes every sleeper and joins.
Woken == [th \in Threads |-> IF th \in Sleepers THEN "loop" ELSE pc[th]]

Stop ==
  /\ pc[Main] = "main"
  /\ stopping' = TRUE
  /\ pc' = [Woken EXCEPT ![Main] = "join"]
  /\ UNCHANGED <<plan, queue, active, job, taskVars, pumpVars, callVars>>

Joined ==
  /\ pc[Main] = "join" /\ \A w \in Workers : pc[w] = "exited"
  /\ Goes(Main, "gone")
  /\ UNCHANGED <<poolVars, taskVars, pumpVars, callVars>>

Participate(th) == \/ SubmitHelper(th) \/ Claim(th) \/ Body(th) \/ Leave(th) \/ EndParallel(th)
Work(w) == \/ Take(w) \/ Sleep(w) \/ RunPlain(w) \/ Finish(w) \/ Count(w)
           \/ BeginParallel(w) \/ Register(w) \/ Participate(w) \/ Arrive(w) \/ PassBarrier(w)
\* The rest of a call that Main is in, and the calls it may begin.
GoOn == \/ Participate(Main) \/ (pc[Main] = "each" /\ SubmitEach) \/ EndEach
        \/ GetReturns \/ RunContinuation \/ WaitReturns \/ Joined
Call == \/ \E t \in Tasks : Submit(t) \/ Then(t) \/ Get(t)
        \/ PumpMainThread \/ WaitForAll \/ BeginParallel(Main) \/ SubmitEach \/ Stop

Next == (\E w \in Workers : Work(w)) \/ GoOn \/ Call
Spec == Init /\ [][Next]_vars
FairSpec == /\ Spec /\ WF_vars(GoOn)
            /\ \A w \in Workers : WF_vars(Work(w))

(* What the pool promises *)

Count1(q, t) == Cardinality({i \in DOMAIN q : q[i] = t})

\* A continuation is never lost and never run twice.  Until its result lands it is stored; from
\* the moment Get() can return it is on the pump's queue, in the pump's hands, or has run, which
\* is what lets a caller wait for the result and then pump once (TaskSystem.h:103-105).
ContinuationKept ==
  \A t \in Tasks :
    (IF t \in stored THEN 1 ELSE 0) + Count1(mainQueue, t) + Count1(pending, t) + ran[t]
      = (IF t \in asked THEN 1 ELSE 0)
    /\ ~(t \in stored /\ t \in done)

\* Once RunParallel has returned, every range has run exactly once and no thread is in the body or
\* will enter it again, helpers that start late included: the body is the caller's, on its stack
\* (TaskSystem.cpp:29-33).  And once the jobs of ForEachWorker are done, every worker has run its
\* function once, each with an index of its own (tests/unit/task_system.cpp:146-165).
ParallelDone ==
  /\ \A d \in Callers : dispatch[d].returned =>
       /\ \A r \in DOMAIN dispatch[d].covered : dispatch[d].covered[r] = 1
       /\ \A th \in Threads : Of(th) = d => pc[th] # "body"
  /\ each.finished = WorkerCount =>
       \A i \in Workers : /\ Cardinality({w \in Workers : <<w, i>> \in each.served}) = 1
                          /\ Cardinality({n \in Workers : <<i, n>> \in each.served}) = 1

\* WaitForAll, and the destructor's join, return only when every job has finished: its result has
\* landed, and no worker is anywhere in a callable (TaskSystem.h:250-252, 340).
WaitMeansDone ==
  [][pc[Main] \in {"drain", "join"} /\ pc'[Main] \in {"main", "gone"} =>
       submitted \subseteq done /\ queue = <<>> /\ \A w \in Workers : job[w] = NoJob]_vars

\* Every call returns, and every wait ends: no wakeup is lost, RunParallel on a full pool or from
\* a worker runs on without its helpers, and the destructor joins workers that are asleep.
CallsReturn == pc[Main] \notin {"main", "gone"} ~> pc[Main] \in {"main", "gone"}
=============================================================================
