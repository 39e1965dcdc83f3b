-------------------------- MODULE TaskSystemProofs --------------------------
(***************************************************************************)
(* Proofs about TaskSystem, for any number of workers, tasks and ranges:    *)
(* a wait that returns means that every job has finished; a continuation is *)
(* kept, and run once; RunParallel and ForEachWorker return when, and only  *)
(* when, their work is done.                                                *)
(***************************************************************************)
EXTENDS TaskSystem, FiniteSetTheorems, FunctionTheorems, TLAPS

Job == [kind : {"task"}, of : Tasks] \cup [kind : {"help"}, of : Tasks \cup {Main}] \cup {EachJob}
Resting == {"loop", "asleep", "exited"}
Running == {w \in Workers : job[w] # NoJob}

Shape == /\ queue \in Seq(Job) /\ active \in Int /\ stopping \in BOOLEAN
         /\ pc \in [Threads -> Places \cup Tasks]
         /\ job \in [Workers -> Job \cup {NoJob}]
         /\ submitted \subseteq Tasks /\ done \subseteq Tasks
\* m_ActiveJobs is what its comment says (TaskSystem.h): jobs in flight and queued.
Counted == active = Len(queue) + Cardinality(Running)
\* A worker has a job exactly when it is neither waiting for one nor gone.
AtWork == \A w \in Workers : job[w] = NoJob <=> pc[w] \in Resting
\* A task that has not landed is queued, or with a worker that will land it.
Queued(t) == \E i \in 1 .. Len(queue) : queue[i] = TaskJob(t)
InHand(t) == \E w \in Workers : job[w] = TaskJob(t) /\ pc[w] # "count"
Pursued == \A t \in submitted \ done : Queued(t) \/ InHand(t)
\* The last worker leaves no job behind, and none leaves before the destructor.
Manned == (\A w \in Workers : pc[w] = "exited") => queue = <<>>
Stopped == /\ \A w \in Workers : pc[w] = "exited" => stopping
           /\ stopping => pc[Main] \in {"join", "gone"}

PoolInv == Shape /\ Counted /\ AtWork /\ Pursued /\ Manned /\ Stopped

\* Two places that the invariant cannot tell apart.
Alike(a, b) == /\ a \in Resting <=> b \in Resting
               /\ a = "exited" <=> b = "exited"
               /\ a = "count" <=> b = "count"

\* There is a worker, Main is none, and there are finitely many.
LEMMA WorkersFacts ==
  /\ 0 \in Workers /\ Main \notin Workers /\ Main \in Threads
  /\ Workers \subseteq Threads /\ IsFiniteSet(Workers)
<1>1. WorkerCount \in Nat \ {0}
  BY PoolAssumption
<1>2. IsFiniteSet(Workers)
  BY <1>1, FS_Interval DEF Workers
<1> QED
  BY <1>1, <1>2, PoolAssumption DEF Workers, Threads

\* The running workers are finitely many, and are counted one by one.
LEMMA RunningFacts ==
  ASSUME NEW S \in SUBSET Workers
  PROVE  /\ IsFiniteSet(S) /\ Cardinality(S) \in Nat
         /\ Cardinality(S) = 0 => S = {}
         /\ \A w \in Workers \ S : Cardinality(S \cup {w}) = Cardinality(S) + 1
         /\ \A w \in S : Cardinality(S \ {w}) = Cardinality(S) - 1
<1>1. IsFiniteSet(S)
  BY WorkersFacts, FS_Subset
<1> QED
  BY <1>1, FS_CardinalityType, FS_EmptySet, FS_AddElement, FS_RemoveElement

\* A step that only moves threads between like places keeps the invariant.
LEMMA Moving ==
  ASSUME PoolInv, pc' \in [Threads -> Places \cup Tasks],
         \A w \in Workers : Alike(pc'[w], pc[w]),
         stopping => pc'[Main] \in {"join", "gone"},
         UNCHANGED <<queue, active, stopping, job, submitted, done>>
  PROVE  PoolInv'
<1>1. Shape'
  BY DEF PoolInv, Shape
<1>2. Counted'
  BY DEF PoolInv, Counted, Running
<1>3. AtWork'
  BY DEF PoolInv, AtWork, Alike
<1>4. Pursued'
  BY DEF PoolInv, Pursued, Queued, InHand, Alike
<1>5. Manned' /\ Stopped'
  BY DEF PoolInv, Manned, Stopped, Alike
<1> QED
  BY <1>1, <1>2, <1>3, <1>4, <1>5 DEF PoolInv

\* A submission keeps it, if the thread that makes it keeps the last worker from leaving.
LEMMA Enqueuing ==
  ASSUME PoolInv, NEW j \in Job, NEW at \in [Threads -> Places \cup Tasks], Enqueue(j, at),
         \A w \in Workers : Alike(at[w], pc[w]),
         \A w \in Sleepers : at[w] = pc[w],
         \E w \in Workers : pc[w] # "exited",
         stopping => at[Main] \in {"join", "gone"},
         UNCHANGED <<stopping, job, done>>,
         submitted' \subseteq Tasks,
         \A t \in submitted' \ submitted : j = TaskJob(t)
  PROVE  PoolInv'
<1>1. /\ queue \in Seq(Job) /\ queue' = Append(queue, j) /\ active' = active + 1
      /\ pc' = at \/ \E w \in Sleepers : pc' = [at EXCEPT ![w] = "loop"]
  BY DEF PoolInv, Shape, Enqueue, NotifyOne
<1>2. /\ pc' \in [Threads -> Places \cup Tasks] /\ pc'[Main] = at[Main]
      /\ \A w \in Workers : Alike(pc'[w], pc[w])
  <2>1. CASE pc' = at
    BY <2>1
  <2>2. ASSUME NEW w \in Sleepers, pc' = [at EXCEPT ![w] = "loop"]
        PROVE  <1>2!:
    <3>1. w \in Workers /\ w # Main /\ pc[w] = "asleep"
      BY WorkersFacts DEF Sleepers
    <3>2. "loop" \in Places
      BY DEF Places
    <3> QED
      BY <2>2, <3>1, <3>2, WorkersFacts DEF Alike, Resting
  <2> QED
    BY <1>1, <2>1, <2>2
<1>3. /\ Len(queue') = Len(queue) + 1 /\ queue' \in Seq(Job) /\ Len(queue) \in Nat
      /\ \A i \in 1 .. Len(queue) : i \in 1 .. Len(queue') /\ queue'[i] = queue[i]
      /\ Len(queue') \in 1 .. Len(queue') /\ queue'[Len(queue')] = j
  BY <1>1
<1>4. Shape'
  BY <1>1, <1>2, <1>3 DEF PoolInv, Shape
<1>5. Counted'
  <2>1. Running' = Running /\ Cardinality(Running) \in Nat /\ active \in Int
    BY RunningFacts DEF Running, PoolInv, Shape
  <2> QED
    BY <1>1, <1>3, <2>1 DEF PoolInv, Counted
<1>6. AtWork'
  BY <1>2 DEF PoolInv, AtWork, Alike
<1>7. Pursued'
  <2> SUFFICES ASSUME NEW t \in submitted', t \notin done
               PROVE  Queued(t)' \/ InHand(t)'
    BY DEF Pursued
  <2>1. CASE t \in submitted
    <3>1. Queued(t) \/ InHand(t)
      BY <2>1 DEF PoolInv, Pursued
    <3> QED
      BY <1>2, <1>3, <3>1 DEF Queued, InHand, Alike
  <2>2. CASE t \notin submitted
    BY <1>3, <2>2 DEF Queued
  <2> QED
    BY <2>1, <2>2
<1>8. Manned' /\ Stopped'
  BY <1>2 DEF PoolInv, Manned, Stopped, Alike
<1> QED
  BY <1>4, <1>5, <1>6, <1>7, <1>8 DEF PoolInv

Still == Resting \cup {"count"}

\* One thread goes on within what it does.
LEMMA Going ==
  ASSUME PoolInv, NEW th \in Threads, NEW to \in Places \cup Tasks, Goes(th, to),
         th \in Workers => pc[th] \notin Still /\ to \notin Still,
         th = Main => ~stopping \/ to = "gone",
         UNCHANGED <<queue, active, stopping, job, submitted, done>>
  PROVE  PoolInv'
<1>1. pc \in [Threads -> Places \cup Tasks] /\ pc' = [pc EXCEPT ![th] = to]
  BY DEF PoolInv, Shape, Goes
<1>2. pc' \in [Threads -> Places \cup Tasks]
  BY <1>1
<1>3. \A w \in Workers : Alike(pc'[w], pc[w])
  BY <1>1, WorkersFacts DEF Alike, Still, Resting
<1>4. stopping => pc'[Main] \in {"join", "gone"}
  BY <1>1, WorkersFacts DEF PoolInv, Stopped
<1> QED
  BY <1>2, <1>3, <1>4, Moving

\* A worker takes the job at the head of the queue.
LEMMA Taking ==
  ASSUME PoolInv, NEW w \in Workers, Take(w)
  PROVE  PoolInv'
<1>1. /\ pc[w] = "loop" /\ queue # <<>> /\ queue \in Seq(Job) /\ job \in [Workers -> Job \cup {NoJob}]
      /\ job' = [job EXCEPT ![w] = Head(queue)] /\ queue' = Tail(queue)
      /\ pc \in [Threads -> Places \cup Tasks] /\ pc' = [pc EXCEPT ![w] = "run"]
      /\ UNCHANGED <<active, stopping, submitted, done>>
  BY DEF PoolInv, Shape, Take, Goes, taskVars
<1>2. /\ Head(queue) \in Job /\ Head(queue) # NoJob /\ queue' \in Seq(Job)
      /\ Len(queue) \in Nat \ {0} /\ Len(queue') = Len(queue) - 1 /\ Head(queue) = queue[1]
      /\ \A i \in 1 .. Len(queue) : i = 1 \/ (i - 1 \in 1 .. Len(queue') /\ queue'[i - 1] = queue[i])
  <2>1. \A j \in Job : j # NoJob
    BY DEF Job, NoJob, EachJob
  <2>2. /\ Head(queue) \in Job /\ queue' \in Seq(Job)
        /\ Len(queue) \in Nat \ {0} /\ Len(queue') = Len(queue) - 1 /\ Head(queue) = queue[1]
    BY <1>1
  <2>3. \A i \in 1 .. Len(queue') : queue'[i] = queue[i + 1]
    BY <1>1
  <2> QED
    BY <2>1, <2>2, <2>3
<1>3. /\ pc'[w] = "run" /\ job'[w] = Head(queue) /\ job[w] = NoJob
      /\ \A x \in Workers \ {w} : pc'[x] = pc[x] /\ job'[x] = job[x]
      /\ pc'[Main] = pc[Main]
  BY <1>1, WorkersFacts DEF PoolInv, AtWork, Resting
<1>4. Shape'
  BY <1>1, <1>2 DEF PoolInv, Shape, Places
<1>5. Counted'
  <2>1. Running' = Running \cup {w} /\ w \notin Running /\ Running \in SUBSET Workers
    BY <1>2, <1>3 DEF Running
  <2>2. Cardinality(Running') = Cardinality(Running) + 1 /\ Cardinality(Running) \in Nat
    BY <2>1, RunningFacts
  <2> QED
    BY <1>1, <1>2, <2>2 DEF PoolInv, Shape, Counted
<1>6. AtWork'
  BY <1>2, <1>3 DEF PoolInv, AtWork, Resting
<1>7. Pursued'
  <2> SUFFICES ASSUME NEW t \in submitted, t \notin done
               PROVE  Queued(t)' \/ InHand(t)'
    BY <1>1 DEF Pursued
  <2>1. CASE InHand(t)
    <3>1. PICK x \in Workers : job[x] = TaskJob(t) /\ pc[x] # "count"
      BY <2>1 DEF InHand
    <3>2. x # w
      BY <1>3, <3>1 DEF TaskJob, NoJob
    <3> QED
      BY <1>3, <3>1, <3>2 DEF InHand
  <2>2. CASE Queued(t)
    <3>1. PICK i \in 1 .. Len(queue) : queue[i] = TaskJob(t)
      BY <2>2 DEF Queued
    <3>2. CASE i = 1
      BY <1>2, <1>3, <3>1, <3>2 DEF InHand
    <3>3. CASE i # 1
      BY <1>2, <3>1, <3>3 DEF Queued
    <3> QED
      BY <3>2, <3>3
  <2> QED
    BY <2>1, <2>2 DEF PoolInv, Pursued
<1>8. Manned' /\ Stopped'
  BY <1>1, <1>3 DEF PoolInv, Manned, Stopped
<1> QED
  BY <1>4, <1>5, <1>6, <1>7, <1>8 DEF PoolInv

\* A worker with nothing to take sleeps, or leaves.
LEMMA Idling ==
  ASSUME PoolInv, NEW w \in Workers, Sleep(w)
  PROVE  PoolInv'
<1>1. /\ pc[w] = "loop" /\ queue = <<>>
      /\ pc \in [Threads -> Places \cup Tasks]
      /\ pc' = [pc EXCEPT ![w] = IF stopping THEN "exited" ELSE "asleep"]
      /\ UNCHANGED <<queue, active, stopping, job, submitted, done>>
  BY DEF PoolInv, Shape, Sleep, Goes, taskVars, poolVars
<1>2. /\ pc'[w] = IF stopping THEN "exited" ELSE "asleep"
      /\ \A x \in Workers \ {w} : pc'[x] = pc[x]
      /\ pc'[Main] = pc[Main]
      /\ pc' \in [Threads -> Places \cup Tasks]
  BY <1>1, WorkersFacts DEF Places
<1>3. Shape' /\ Counted'
  BY <1>1, <1>2 DEF PoolInv, Shape, Counted, Running
<1>4. AtWork' /\ Manned' /\ Stopped'
  BY <1>1, <1>2 DEF PoolInv, AtWork, Manned, Stopped, Resting
<1>5. Pursued'
  BY <1>1, <1>2 DEF PoolInv, Pursued, Queued, InHand
<1> QED
  BY <1>3, <1>4, <1>5 DEF PoolInv

\* A worker lands the result of its job.
LEMMA Finishing ==
  ASSUME PoolInv, NEW w \in Workers, Finish(w)
  PROVE  PoolInv'
<1>1. /\ pc[w] = "finish" /\ pc \in [Threads -> Places \cup Tasks]
      /\ pc' = [pc EXCEPT ![w] = "count"]
      /\ done' = IF job[w].kind = "task" THEN done \cup {job[w].of} ELSE done
      /\ UNCHANGED <<queue, active, stopping, job, submitted>>
  BY DEF PoolInv, Shape, Finish, Landed, Goes, poolVars
<1>2. /\ pc'[w] = "count" /\ pc'[Main] = pc[Main]
      /\ \A x \in Workers \ {w} : pc'[x] = pc[x]
      /\ pc' \in [Threads -> Places \cup Tasks]
  BY <1>1, WorkersFacts DEF Places
<1>3. Pursued'
  <2> SUFFICES ASSUME NEW t \in submitted, t \notin done'
               PROVE  Queued(t)' \/ InHand(t)'
    BY <1>1 DEF Pursued
  <2>1. t \notin done /\ job[w] # TaskJob(t)
    BY <1>1 DEF TaskJob
  <2> QED
    BY <1>1, <1>2, <2>1 DEF PoolInv, Pursued, Queued, InHand
<1>4. Shape'
  <2>1. CASE job[w].kind = "task"
    <3>1. job[w].of \in Tasks
      BY <2>1 DEF PoolInv, Shape, NoJob, Job, EachJob
    <3> QED
      BY <1>1, <1>2, <2>1, <3>1 DEF PoolInv, Shape
  <2>2. CASE job[w].kind # "task"
    BY <1>1, <1>2, <2>2 DEF PoolInv, Shape
  <2> QED
    BY <2>1, <2>2
<1>5. Counted' /\ AtWork' /\ Manned' /\ Stopped'
  BY <1>1, <1>2 DEF PoolInv, Counted, Running, AtWork, Manned, Stopped, Resting
<1> QED
  BY <1>3, <1>4, <1>5 DEF PoolInv

\* ... and gives up its place in the count.
LEMMA Counting ==
  ASSUME PoolInv, NEW w \in Workers, Count(w)
  PROVE  PoolInv'
<1>1. /\ pc[w] = "count" /\ pc \in [Threads -> Places \cup Tasks]
      /\ pc' = [pc EXCEPT ![w] = "loop"]
      /\ active \in Int /\ active' = active - 1
      /\ job \in [Workers -> Job \cup {NoJob}] /\ job' = [job EXCEPT ![w] = NoJob]
      /\ UNCHANGED <<queue, stopping, submitted, done>>
  BY DEF PoolInv, Shape, Count, Goes, taskVars
<1>2. /\ pc'[w] = "loop" /\ pc'[Main] = pc[Main] /\ job'[w] = NoJob /\ job[w] # NoJob
      /\ \A x \in Workers \ {w} : pc'[x] = pc[x] /\ job'[x] = job[x]
      /\ pc' \in [Threads -> Places \cup Tasks]
  BY <1>1, WorkersFacts DEF Places, PoolInv, AtWork, Resting
<1>3. Shape'
  BY <1>1, <1>2 DEF PoolInv, Shape
<1>4. Counted'
  <2>1. Running' = Running \ {w} /\ w \in Running /\ Running \in SUBSET Workers
    BY <1>2 DEF Running
  <2>2. Cardinality(Running') = Cardinality(Running) - 1 /\ Cardinality(Running) \in Nat
    BY <2>1, RunningFacts
  <2>3. Len(queue) \in Nat
    BY DEF PoolInv, Shape
  <2> QED
    BY <1>1, <2>2, <2>3 DEF PoolInv, Counted
<1>5. AtWork' /\ Manned' /\ Stopped'
  BY <1>1, <1>2 DEF PoolInv, AtWork, Manned, Stopped, Resting
<1>6. Pursued'
  BY <1>1, <1>2 DEF PoolInv, Pursued, Queued, InHand
<1> QED
  BY <1>3, <1>4, <1>5, <1>6 DEF PoolInv

\* The destructor wakes every sleeper.
LEMMA Stopping ==
  ASSUME PoolInv, Stop
  PROVE  PoolInv'
<1>1. /\ stopping' = TRUE /\ pc \in [Threads -> Places \cup Tasks]
      /\ pc' = [Woken EXCEPT ![Main] = "join"]
      /\ UNCHANGED <<queue, active, job, submitted, done>>
  BY DEF PoolInv, Shape, Stop, taskVars
<1>2. /\ pc'[Main] = "join"
      /\ \A w \in Workers : Alike(pc'[w], pc[w])
      /\ pc' \in [Threads -> Places \cup Tasks]
  BY <1>1, WorkersFacts DEF Woken, Sleepers, Alike, Resting, Places
<1>3. Shape' /\ Counted'
  BY <1>1, <1>2 DEF PoolInv, Shape, Counted, Running
<1>4. AtWork' /\ Manned' /\ Stopped'
  BY <1>1, <1>2 DEF PoolInv, AtWork, Manned, Stopped, Alike
<1>5. Pursued'
  BY <1>1, <1>2 DEF PoolInv, Pursued, Queued, InHand, Alike
<1> QED
  BY <1>3, <1>4, <1>5 DEF PoolInv

\* A thread in RunParallel.
LEMMA Participating ==
  ASSUME PoolInv, NEW th \in Threads, Participate(th)
  PROVE  PoolInv'
<1>1. th = Main => pc[th] \in {"join", "gone"} \/ ~stopping
  BY DEF PoolInv, Stopped
<1> USE DEF poolVars, taskVars
<1>2. CASE SubmitHelper(th)
  <2> DEFINE at == [pc EXCEPT ![th] = IF dispatch[Of(th)].left = 1 THEN "claim" ELSE "help"]
  <2>1. /\ pc[th] = "help" /\ Enqueue(HelpJob(Of(th)), at)
        /\ UNCHANGED <<stopping, job, submitted, done>>
    BY <1>2 DEF SubmitHelper
  <2>2. HelpJob(Of(th)) \in Job
    <3>1. CASE th = Main
      BY <3>1 DEF HelpJob, Of, Job, EachJob
    <3>2. CASE th # Main
      <4>1. th \in Workers /\ job[th] # NoJob /\ job[th] \in Job \cup {NoJob}
        BY <2>1, <3>2 DEF Threads, PoolInv, Shape, AtWork, Resting
      <4> QED
        BY <3>2, <4>1 DEF HelpJob, Of, Job, EachJob
    <3> QED
      BY <3>1, <3>2
  <2>3. pc \in [Threads -> Places \cup Tasks]
    BY DEF PoolInv, Shape
  <2>4. at \in [Threads -> Places \cup Tasks]
    BY <2>3 DEF Places
  <2>5. /\ \A w \in Workers : Alike(at[w], pc[w])
        /\ \A w \in Sleepers : at[w] = pc[w]
    BY <2>1, <2>3, WorkersFacts DEF Sleepers, Alike, Resting
  <2>6. \E w \in Workers : pc[w] # "exited"
    <3>1. CASE th = Main
      BY <1>1, <2>1, <3>1, WorkersFacts DEF PoolInv, Stopped
    <3>2. CASE th # Main
      BY <2>1, <3>2 DEF Threads
    <3> QED
      BY <3>1, <3>2
  <2>7. stopping => at[Main] \in {"join", "gone"}
    BY <1>1, <2>1, <2>3, WorkersFacts DEF PoolInv, Stopped
  <2> HIDE DEF at
  <2>8. submitted' \subseteq Tasks /\ \A t \in submitted' \ submitted : HelpJob(Of(th)) = TaskJob(t)
    BY <2>1 DEF PoolInv, Shape
  <2> QED
    BY <2>1, <2>2, <2>4, <2>5, <2>6, <2>7, <2>8, Enqueuing
<1>3. CASE Claim(th)
  BY <1>1, <1>3, Going DEF Claim, Goes, Places, Still, Resting
<1>4. CASE Body(th)
  BY <1>1, <1>4, Going DEF Body, Goes, Places, Still, Resting
<1>5. CASE Leave(th)
  BY <1>1, <1>5, Going DEF Leave, Goes, Places, Still, Resting
<1>6. CASE EndParallel(th)
  BY <1>1, <1>6, Going DEF EndParallel, Goes, Places, Still, Resting
<1> QED
  BY <1>2, <1>3, <1>4, <1>5, <1>6 DEF Participate

\* Every step of a worker.
LEMMA Working ==
  ASSUME PoolInv, NEW w \in Workers, Work(w)
  PROVE  PoolInv'
<1>1. w \in Threads /\ w # Main
  BY WorkersFacts
<1>2. CASE Take(w) \/ Sleep(w) \/ Finish(w) \/ Count(w)
  BY <1>2, Taking, Idling, Finishing, Counting
<1>3. CASE Participate(w)
  BY <1>1, <1>3, Participating
<1> USE DEF poolVars, taskVars
<1>4. CASE RunPlain(w)
  BY <1>1, <1>4, Going DEF RunPlain, Goes, Places, Still, Resting
<1>5. CASE BeginParallel(w)
  BY <1>1, <1>5, Going DEF BeginParallel, Goes, Places, Still, Resting
<1>6. CASE Register(w)
  BY <1>1, <1>6, Going DEF Register, Goes, Places, Still, Resting
<1>7. CASE Arrive(w)
  BY <1>1, <1>7, Going DEF Arrive, Goes, Places, Still, Resting
<1>8. CASE PassBarrier(w)
  BY <1>1, <1>8, Going DEF PassBarrier, Goes, Places, Still, Resting
<1> QED
  BY <1>2, <1>3, <1>4, <1>5, <1>6, <1>7, <1>8 DEF Work

\* A submission by Main, whose calls come before the destructor's.
LEMMA Submitting ==
  ASSUME PoolInv, NEW j \in Job, NEW to \in Places \cup Tasks,
         pc[Main] \notin {"join", "gone"}, Enqueue(j, [pc EXCEPT ![Main] = to]),
         UNCHANGED <<stopping, job, done>>, submitted' \subseteq Tasks,
         \A t \in submitted' \ submitted : j = TaskJob(t)
  PROVE  PoolInv'
<1> DEFINE at == [pc EXCEPT ![Main] = to]
<1>1. pc \in [Threads -> Places \cup Tasks] /\ ~stopping
  BY DEF PoolInv, Shape, Stopped
<1>2. at \in [Threads -> Places \cup Tasks]
  BY <1>1
<1>3. /\ \A w \in Workers : at[w] = pc[w] /\ Alike(at[w], pc[w])
      /\ \A w \in Sleepers : at[w] = pc[w]
  BY <1>1, WorkersFacts DEF Alike, Sleepers
<1>4. \E w \in Workers : pc[w] # "exited"
  BY <1>1, WorkersFacts DEF PoolInv, Stopped
<1> HIDE DEF at
<1>5. Enqueue(j, at)
  BY DEF at
<1> QED
  BY <1>1, <1>2, <1>3, <1>4, <1>5, Enqueuing

\* ForEachWorker's submission is one of them.
LEMMA SubmittingEach ==
  ASSUME PoolInv, SubmitEach
  PROVE  PoolInv'
<1>1. /\ pc[Main] \notin {"join", "gone"} /\ EachJob \in Job /\ "each" \in Places \cup Tasks
      /\ submitted' \subseteq Tasks /\ submitted' = submitted
  BY DEF SubmitEach, EachJob, Job, Places, PoolInv, Shape, taskVars
<1>2. /\ Enqueue(EachJob, [pc EXCEPT ![Main] = "each"])
      /\ UNCHANGED <<stopping, job, done>>
  BY DEF SubmitEach, taskVars
<1> QED
  BY <1>1, <1>2, Submitting

\* What Main does.
LEMMA Owning ==
  ASSUME PoolInv, GoOn \/ Call
  PROVE  PoolInv'
<1>1. Main \in Threads /\ Main \notin Workers
  BY WorkersFacts
<1>2. stopping => pc[Main] \in {"join", "gone"}
  BY DEF PoolInv, Stopped
<1>3. CASE Participate(Main)
  BY <1>1, <1>3, Participating
<1>4. CASE SubmitEach
  BY <1>4, SubmittingEach
<1>5. CASE Stop
  BY <1>5, Stopping
<1>6. ASSUME NEW t \in Tasks, Submit(t)
      PROVE  PoolInv'
  <2>1. pc = [pc EXCEPT ![Main] = pc[Main]] /\ pc[Main] \in Places \cup Tasks
    BY <1>1 DEF PoolInv, Shape
  <2>2. /\ Enqueue(TaskJob(t), [pc EXCEPT ![Main] = pc[Main]])
        /\ pc[Main] \notin {"join", "gone"} /\ TaskJob(t) \in Job
        /\ submitted' \subseteq Tasks /\ \A u \in submitted' \ submitted : u = t
        /\ UNCHANGED <<stopping, job, done>>
    BY <1>6, <2>1 DEF Submit, TaskJob, Job, PoolInv, Shape
  <2> QED
    BY <2>1, <2>2, Submitting
<1> USE DEF poolVars, taskVars
<1>7. ASSUME NEW t \in Tasks, Then(t)
      PROVE  PoolInv'
  <2>1. UNCHANGED <<queue, active, stopping, job, submitted, done, pc>>
    BY <1>7 DEF Then
  <2>2. pc' \in [Threads -> Places \cup Tasks] /\ \A w \in Workers : Alike(pc'[w], pc[w])
    BY <2>1 DEF PoolInv, Shape, Alike
  <2> QED
    BY <1>2, <2>1, <2>2, Moving
<1>8. ASSUME NEW t \in Tasks, Get(t)
      PROVE  PoolInv'
  BY <1>1, <1>2, <1>8, Going DEF Get, Goes
<1>9. CASE GetReturns
  <2>1. pc[Main] \notin {"join", "gone"}
    BY <1>9, PoolAssumption DEF GetReturns, PoolInv, Shape, Places
  <2> QED
    BY <1>1, <1>2, <1>9, <2>1, Going DEF GetReturns, Goes, Places
<1>10. CASE EndEach
  BY <1>1, <1>2, <1>10, Going DEF EndEach, Goes, Places
<1>11. CASE RunContinuation
  BY <1>1, <1>2, <1>11, Going DEF RunContinuation, Goes, Places
<1>12. CASE WaitReturns
  BY <1>1, <1>2, <1>12, Going DEF WaitReturns, Goes, Places
<1>13. CASE Joined
  BY <1>1, <1>2, <1>13, Going DEF Joined, Goes, Places
<1>14. CASE PumpMainThread
  BY <1>1, <1>2, <1>14, Going DEF PumpMainThread, Goes, Places
<1>15. CASE WaitForAll
  BY <1>1, <1>2, <1>15, Going DEF WaitForAll, Goes, Places
<1>16. CASE BeginParallel(Main)
  BY <1>1, <1>2, <1>16, Going DEF BeginParallel, Goes, Places
<1> QED
  BY <1>3, <1>4, <1>5, <1>6, <1>7, <1>8, <1>9, <1>10, <1>11, <1>12, <1>13, <1>14, <1>15, <1>16
  DEF GoOn, Call

\* The pool starts with nobody at work.
LEMMA Starting == Init => PoolInv
<1> SUFFICES ASSUME Init PROVE PoolInv
  OBVIOUS
<1>1. /\ queue = <<>> /\ active = 0 /\ stopping = FALSE /\ submitted = {} /\ done = {}
      /\ pc = [th \in Threads |-> IF th = Main THEN "main" ELSE "loop"]
      /\ job = [w \in Workers |-> NoJob]
  BY DEF Init
<1>2. Shape
  <2>1. pc \in [Threads -> Places \cup Tasks]
    BY <1>1 DEF Places
  <2>2. job \in [Workers -> Job \cup {NoJob}]
    BY <1>1
  <2>3. queue \in Seq(Job) /\ active \in Int
    BY <1>1
  <2>4. stopping \in BOOLEAN /\ submitted \subseteq Tasks /\ done \subseteq Tasks
    BY <1>1
  <2> QED
    BY <2>1, <2>2, <2>3, <2>4 DEF Shape
<1>3. Counted
  BY <1>1, FS_EmptySet DEF Counted, Running
<1>4. \A w \in Workers : pc[w] = "loop" /\ job[w] = NoJob
  BY <1>1, WorkersFacts
<1>5. AtWork /\ Pursued /\ Manned /\ Stopped
  BY <1>1, <1>4 DEF AtWork, Pursued, Manned, Stopped, Resting
<1> QED
  BY <1>2, <1>3, <1>5 DEF PoolInv

\* Every step keeps the invariant.
LEMMA Stepping == PoolInv /\ [Next]_vars => PoolInv'
<1> SUFFICES ASSUME PoolInv, [Next]_vars PROVE PoolInv'
  OBVIOUS
<1>1. CASE Next
  BY <1>1, Working, Owning DEF Next
<1>2. CASE UNCHANGED vars
  <2>1. /\ pc' \in [Threads -> Places \cup Tasks] /\ \A w \in Workers : Alike(pc'[w], pc[w])
        /\ stopping => pc'[Main] \in {"join", "gone"}
        /\ UNCHANGED <<queue, active, stopping, job, submitted, done>>
    BY <1>2 DEF vars, PoolInv, Shape, Stopped, Alike
  <2> QED
    BY <2>1, Moving
<1> QED
  BY <1>1, <1>2

\* The inductive invariant: m_ActiveJobs counts the queued and the running jobs, every task that has
\* not landed is queued or in a worker's hands, and the last worker leaves an empty queue behind.
THEOREM PoolHolds == Spec => []PoolInv
<1>1. Init => PoolInv
  BY Starting
<1>2. PoolInv /\ [Next]_vars => PoolInv'
  BY Stepping
<1> QED
  BY <1>1, <1>2, PTL DEF Spec

Waits == /\ pc[Main] \in {"drain", "join"} /\ pc'[Main] \in {"main", "gone"}

\* With nothing queued and nobody at work, every submitted task has landed.
LEMMA Settled ==
  ASSUME PoolInv, queue = <<>>, \A w \in Workers : job[w] = NoJob
  PROVE  submitted \subseteq done
<1>1. \A t \in Tasks : ~Queued(t) /\ ~InHand(t)
  BY DEF Queued, InHand, TaskJob, NoJob
<1> QED
  BY <1>1 DEF PoolInv, Shape, Pursued

\* A worker's step leaves Main where it is.
LEMMA MainStays ==
  ASSUME PoolInv, NEW w \in Workers, Work(w)
  PROVE  pc'[Main] = pc[Main]
<1>1. pc \in [Threads -> Places \cup Tasks] /\ w # Main /\ Main \in Threads
  BY WorkersFacts DEF PoolInv, Shape
<1>2. CASE SubmitHelper(w)
  <2> DEFINE at == [pc EXCEPT ![w] = IF dispatch[Of(w)].left = 1 THEN "claim" ELSE "help"]
  <2>1. pc' = at \/ \E x \in Sleepers : pc' = [at EXCEPT ![x] = "loop"]
    BY <1>2 DEF SubmitHelper, Enqueue, NotifyOne
  <2>2. at[Main] = pc[Main] /\ \A x \in Sleepers : x # Main
    BY <1>1, WorkersFacts DEF Sleepers
  <2> QED
    BY <1>1, <2>1, <2>2
<1>3. CASE ~SubmitHelper(w)
  <2>1. \E to : Goes(w, to)
    BY <1>3 DEF Work, Participate, Take, Sleep, RunPlain, Finish, Count, BeginParallel, Register,
                Claim, Body, Leave, EndParallel, Arrive, PassBarrier
  <2> QED
    BY <1>1, <2>1 DEF Goes
<1> QED
  BY <1>2, <1>3

\* Only the end of a wait ends a wait.
LEMMA EndsOfWaits ==
  ASSUME PoolInv, [Next]_vars, Waits
  PROVE  WaitReturns \/ Joined
<1>1. pc'[Main] # pc[Main] /\ pc[Main] \in {"drain", "join"} /\ pc[Main] \notin done
  BY PoolAssumption DEF Waits, Places, PoolInv, Shape
<1>2. GoOn \/ Call
  BY <1>1, MainStays DEF Next, vars
<1>3. ~Call
  <2>1. \A t \in Tasks : ~Submit(t) /\ ~Then(t) /\ ~Get(t)
    BY <1>1 DEF Submit, Then, Get
  <2>2. ~PumpMainThread /\ ~WaitForAll /\ ~BeginParallel(Main) /\ ~SubmitEach /\ ~Stop
    BY <1>1 DEF PumpMainThread, WaitForAll, BeginParallel, SubmitEach, Stop
  <2> QED
    BY <2>1, <2>2 DEF Call
<1>4. ~Participate(Main) /\ ~EndEach /\ ~GetReturns /\ ~RunContinuation /\ ~SubmitEach
  BY <1>1 DEF Participate, SubmitHelper, Claim, Body, Leave, EndParallel, EndEach, GetReturns,
              RunContinuation, SubmitEach
<1> QED
  BY <1>2, <1>3, <1>4 DEF GoOn

\* What the end of a wait finds.
LEMMA WaitedFor ==
  ASSUME PoolInv, [Next]_vars, Waits
  PROVE  submitted \subseteq done /\ queue = <<>> /\ \A w \in Workers : job[w] = NoJob
<1>1. CASE WaitReturns
  <2>1. queue = <<>> /\ active = 0 /\ Running \in SUBSET Workers
    BY <1>1 DEF WaitReturns, Idle, Running
  <2>2. Cardinality(Running) \in Nat /\ (Cardinality(Running) = 0 => Running = {})
    BY <2>1, RunningFacts
  <2>3. Running = {}
    BY <2>1, <2>2 DEF PoolInv, Counted
  <2> QED
    BY <2>1, <2>3, Settled DEF Running
<1>2. CASE Joined
  <2>1. queue = <<>> /\ \A w \in Workers : job[w] = NoJob
    BY <1>2 DEF Joined, PoolInv, Manned, AtWork, Resting
  <2> QED
    BY <2>1, Settled
<1> QED
  BY <1>1, <1>2, EndsOfWaits

\* WaitForAll and the destructor return only when every submitted task has landed, nothing is queued
\* and no worker is in a callable.
THEOREM WaitsAreDone == Spec => WaitMeansDone
<1>1. PoolInv /\ [Next]_vars =>
        [Waits => submitted \subseteq done /\ queue = <<>> /\ \A w \in Workers : job[w] = NoJob]_vars
  BY WaitedFor
<1> QED
  BY <1>1, PoolHolds, PTL DEF Spec, WaitMeansDone, Waits

-----------------------------------------------------------------------------
(* How often a value is in a queue *)

Positions(q, x) == {i \in 1 .. Len(q) : q[i] = x}

\* A count is a natural number, and zero when the value is not in the queue.
LEMMA CountType ==
  ASSUME NEW S, NEW q \in Seq(S), NEW x
  PROVE  /\ Count1(q, x) = Cardinality(Positions(q, x))
         /\ IsFiniteSet(Positions(q, x))
         /\ Count1(q, x) \in Nat
         /\ (Count1(q, x) = 0 <=> \A i \in 1 .. Len(q) : q[i] # x)
<1>1. DOMAIN q = 1 .. Len(q) /\ Len(q) \in Nat
  OBVIOUS
<1>2. Count1(q, x) = Cardinality(Positions(q, x))
  BY <1>1 DEF Count1, Positions
<1>3. IsFiniteSet(1 .. Len(q)) /\ Positions(q, x) \in SUBSET (1 .. Len(q))
  BY <1>1, FS_Interval DEF Positions
<1>4. IsFiniteSet(Positions(q, x))
  BY <1>3, FS_Subset
<1>5. Cardinality(Positions(q, x)) = 0 <=> Positions(q, x) = {}
  BY <1>4, FS_EmptySet
<1>6. Cardinality(Positions(q, x)) \in Nat
  BY <1>4, FS_CardinalityType
<1>7. Positions(q, x) = {} <=> \A i \in 1 .. Len(q) : q[i] # x
  BY DEF Positions
<1> QED
  BY <1>2, <1>4, <1>5, <1>6, <1>7

\* Nothing is in the empty queue.
LEMMA CountEmpty == \A x : Count1(<<>>, x) = 0
<1> SUFFICES ASSUME NEW x PROVE Count1(<<>>, x) = 0
  OBVIOUS
<1>1. <<>> \in Seq({}) /\ Len(<<>>) = 0
  OBVIOUS
<1>2. \A i \in 1 .. Len(<<>>) : <<>>[i] # x
  BY <1>1
<1>3. Count1(<<>>, x) = 0 <=> \A i \in 1 .. Len(<<>>) : <<>>[i] # x
  BY <1>1, CountType
<1> QED
  BY <1>2, <1>3

\* Appending a value adds one to its count ...
LEMMA CountAppend ==
  ASSUME NEW S, NEW q \in Seq(S), NEW y \in S, NEW x
  PROVE  Count1(Append(q, y), x) = Count1(q, x) + (IF y = x THEN 1 ELSE 0)
<1> DEFINE r == Append(q, y)
           n == Len(q) + 1
<1>1. /\ r \in Seq(S) /\ Len(q) \in Nat /\ Len(r) = n
      /\ r[n] = y /\ \A i \in 1 .. Len(q) : r[i] = q[i]
  OBVIOUS
<1> HIDE DEF r
<1>2. Positions(r, x) = IF y = x THEN Positions(q, x) \cup {n} ELSE Positions(q, x)
  BY <1>1 DEF Positions
<1>3. n \notin Positions(q, x)
  BY <1>1 DEF Positions
<1> HIDE DEF n
<1>4. IsFiniteSet(Positions(q, x)) /\ Count1(q, x) = Cardinality(Positions(q, x)) /\ Count1(q, x) \in Nat
  BY CountType
<1>5. Cardinality(Positions(r, x)) = Count1(q, x) + (IF y = x THEN 1 ELSE 0)
  <2>1. CASE y = x
    <3>1. Cardinality(Positions(q, x) \cup {n}) = Cardinality(Positions(q, x)) + 1
      BY <1>3, <1>4, FS_AddElement
    <3> QED
      BY <1>2, <1>4, <2>1, <3>1
  <2>2. CASE y # x
    BY <1>2, <1>4, <2>2
  <2> QED
    BY <2>1, <2>2
<1>6. Count1(r, x) = Cardinality(Positions(r, x))
  BY <1>1, CountType
<1> QED
  BY <1>5, <1>6 DEF r

\* ... and taking the head takes one from that of the head.
LEMMA CountTail ==
  ASSUME NEW S, NEW q \in Seq(S), q # <<>>, NEW x
  PROVE  Count1(q, x) = Count1(Tail(q), x) + (IF Head(q) = x THEN 1 ELSE 0)
<1> DEFINE r == Tail(q)
           J == Positions(r, x)
           K == Positions(q, x) \ {1}
           f == [j \in J |-> j + 1]
<1>1. /\ Len(q) \in Nat \ {0} /\ Head(q) = q[1] /\ r \in Seq(S)
      /\ Len(r) = Len(q) - 1 /\ \A i \in 1 .. Len(r) : r[i] = q[i + 1]
  OBVIOUS
<1> HIDE DEF r
<1>2. \A j \in J : j \in Int /\ j + 1 \in K
  BY <1>1 DEF Positions
<1>3. \A k \in K : k \in Int /\ k - 1 \in J
  BY <1>1 DEF Positions
<1> HIDE DEF J, K
<1>4. f \in [J -> K] /\ (\A a, b \in J : f[a] = f[b] => a = b) /\ (\A k \in K : \E j \in J : f[j] = k)
  BY <1>2, <1>3
<1> HIDE DEF f
<1>5. f \in Bijection(J, K)
  BY <1>4, Fun_IsBij
<1>6. IsFiniteSet(J) /\ Cardinality(J) \in Nat /\ Count1(r, x) = Cardinality(J)
  BY <1>1, CountType DEF J
<1>7. Cardinality(K) = Cardinality(J)
  BY <1>5, <1>6, FS_Bijection DEF ExistsBijection
<1>8. 1 \in Positions(q, x) <=> Head(q) = x
  BY <1>1 DEF Positions
<1>9. IsFiniteSet(Positions(q, x)) /\ Count1(q, x) = Cardinality(Positions(q, x)) /\ Count1(q, x) \in Nat
  BY CountType
<1>10. Cardinality(K) = IF Head(q) = x THEN Count1(q, x) - 1 ELSE Count1(q, x)
  BY <1>8, <1>9, FS_RemoveElement DEF K
<1> QED
  BY <1>6, <1>7, <1>9, <1>10 DEF r

-----------------------------------------------------------------------------
(* Continuations *)

\* Main runs continuations as long as the pump has some in its hands.
Pumping == /\ mainQueue \in Seq(Tasks) /\ pending \in Seq(Tasks) /\ ran \in [Tasks -> Nat]
           /\ stored \subseteq Tasks /\ asked \subseteq Tasks
           /\ pc[Main] = "pump" <=> pending # <<>>

PumpInv == PoolInv /\ Pumping /\ ContinuationKept

\* A submission moves, besides the one that makes it, only a sleeper.
LEMMA SubmitterMoves ==
  ASSUME NEW at \in [Threads -> Places \cup Tasks], NEW j, Enqueue(j, at)
  PROVE  pc'[Main] = at[Main]
<1>1. pc' = at \/ \E w \in Sleepers : pc' = [at EXCEPT ![w] = "loop"]
  BY DEF Enqueue, NotifyOne
<1>2. Main \notin Sleepers
  BY WorkersFacts DEF Sleepers
<1> QED
  BY <1>1, <1>2, WorkersFacts

\* A step that leaves the continuations alone.
LEMMA PumpUntouched ==
  ASSUME Pumping, ContinuationKept, UNCHANGED <<stored, asked, done, pumpVars>>,
         pc'[Main] = "pump" <=> pc[Main] = "pump"
  PROVE  Pumping' /\ ContinuationKept'
BY DEF Pumping, ContinuationKept, pumpVars

\* What has to be shown of each task in the next state.
LEMMA KeptStep ==
  ASSUME \A t \in Tasks :
           /\ (IF t \in stored' THEN 1 ELSE 0) + Count1(mainQueue', t) + Count1(pending', t) + ran'[t]
                = (IF t \in asked' THEN 1 ELSE 0)
           /\ ~(t \in stored' /\ t \in done')
  PROVE  ContinuationKept'
PROOF BY DEF ContinuationKept

\* A result lands, and takes its continuation to the pump's queue.
LEMMA LandedKeeps ==
  ASSUME PumpInv, NEW w \in Workers, Finish(w)
  PROVE  Pumping' /\ ContinuationKept'
<1>1. pc'[Main] = pc[Main]
  BY MainStays DEF PumpInv, Work
<1>2. CASE job[w].kind # "task"
  BY <1>1, <1>2, PumpUntouched DEF Finish, PumpInv, pumpVars
<1>3. CASE job[w].kind = "task"
  <2> DEFINE u == job[w].of
  <2>1. u \in Tasks
    BY <1>3 DEF PumpInv, PoolInv, Shape, NoJob, Job, EachJob
  <2>2. /\ done' = done \cup {u} /\ stored' = stored \ {u}
        /\ mainQueue' = (IF u \in stored THEN Append(mainQueue, u) ELSE mainQueue)
        /\ UNCHANGED <<asked, pending, ran>>
    BY <1>3 DEF Finish, Landed
  <2> HIDE DEF u
  <2>3. Pumping'
    BY <1>1, <2>1, <2>2 DEF PumpInv, Pumping
  <2>4. ASSUME NEW t \in Tasks
        PROVE  Count1(mainQueue', t) = Count1(mainQueue, t) + (IF u \in stored /\ u = t THEN 1 ELSE 0)
    <3>1. mainQueue \in Seq(Tasks)
      BY DEF PumpInv, Pumping
    <3>2. Count1(mainQueue, t) \in Nat
      BY <3>1, CountType
    <3>3. Count1(Append(mainQueue, u), t) = Count1(mainQueue, t) + (IF u = t THEN 1 ELSE 0)
      BY <2>1, <3>1, CountAppend
    <3> QED
      BY <2>2, <3>2, <3>3
  <2>5. ASSUME NEW t \in Tasks
        PROVE  Count1(mainQueue, t) \in Nat /\ Count1(pending, t) \in Nat /\ ran[t] \in Nat
    BY CountType DEF PumpInv, Pumping
  <2>6. ContinuationKept'
    <3> SUFFICES ASSUME NEW t \in Tasks
        PROVE  /\ (IF t \in stored' THEN 1 ELSE 0) + Count1(mainQueue', t) + Count1(pending', t) + ran'[t]
                    = (IF t \in asked' THEN 1 ELSE 0)
               /\ ~(t \in stored' /\ t \in done')
      BY KeptStep
    <3>1. /\ (IF t \in stored THEN 1 ELSE 0) + Count1(mainQueue, t) + Count1(pending, t) + ran[t]
              = (IF t \in asked THEN 1 ELSE 0)
          /\ ~(t \in stored /\ t \in done)
      BY DEF PumpInv, ContinuationKept
    <3> QED
      BY <3>1, <2>2, <2>4, <2>5
  <2> QED
    BY <2>3, <2>6
<1> QED
  BY <1>2, <1>3

\* Main asks for a continuation, before the result lands or after.
LEMMA ThenKeeps ==
  ASSUME PumpInv, NEW u \in Tasks, Then(u)
  PROVE  Pumping' /\ ContinuationKept'
<1>1. /\ u \notin asked /\ asked' = asked \cup {u}
      /\ stored' = (IF u \in done THEN stored ELSE stored \cup {u})
      /\ mainQueue' = (IF u \in done THEN Append(mainQueue, u) ELSE mainQueue)
      /\ UNCHANGED <<pc, done, pending, ran>>
  BY DEF Then
<1>2. Pumping'
  BY <1>1 DEF PumpInv, Pumping
<1>3. ASSUME NEW t \in Tasks
      PROVE  Count1(mainQueue', t) = Count1(mainQueue, t) + (IF u \in done /\ u = t THEN 1 ELSE 0)
  <2>1. mainQueue \in Seq(Tasks)
    BY DEF PumpInv, Pumping
  <2>2. Count1(mainQueue, t) \in Nat
    BY <2>1, CountType
  <2>3. Count1(Append(mainQueue, u), t) = Count1(mainQueue, t) + (IF u = t THEN 1 ELSE 0)
    BY <2>1, CountAppend
  <2> QED
    BY <1>1, <2>2, <2>3
<1>4. ASSUME NEW t \in Tasks
      PROVE  Count1(mainQueue, t) \in Nat /\ Count1(pending, t) \in Nat /\ ran[t] \in Nat
  BY CountType DEF PumpInv, Pumping
<1>5. ContinuationKept'
  <2> SUFFICES ASSUME NEW t \in Tasks
      PROVE  /\ (IF t \in stored' THEN 1 ELSE 0) + Count1(mainQueue', t) + Count1(pending', t) + ran'[t]
                  = (IF t \in asked' THEN 1 ELSE 0)
             /\ ~(t \in stored' /\ t \in done')
    BY KeptStep
  <2>1. /\ (IF t \in stored THEN 1 ELSE 0) + Count1(mainQueue, t) + Count1(pending, t) + ran[t]
            = (IF t \in asked THEN 1 ELSE 0)
        /\ ~(t \in stored /\ t \in done)
    BY DEF PumpInv, ContinuationKept
  <2> QED
    BY <2>1, <1>1, <1>3, <1>4
<1> QED
  BY <1>2, <1>5

\* The pump takes the whole queue.
LEMMA PumpKeeps ==
  ASSUME PumpInv, PumpMainThread
  PROVE  Pumping' /\ ContinuationKept'
<1>1. /\ pc[Main] = "main" /\ mainQueue # <<>> /\ pc' = [pc EXCEPT ![Main] = "pump"]
      /\ pending' = mainQueue /\ mainQueue' = <<>>
      /\ UNCHANGED <<stored, asked, done, ran>>
  BY DEF PumpMainThread, Goes, taskVars
<1>2. pending = <<>> /\ pc'[Main] = "pump"
  BY <1>1, WorkersFacts DEF PumpInv, PoolInv, Shape, Pumping
<1>3. Pumping'
  BY <1>1, <1>2 DEF PumpInv, Pumping
<1>4. ContinuationKept'
  <2> SUFFICES ASSUME NEW t \in Tasks
      PROVE  /\ (IF t \in stored' THEN 1 ELSE 0) + Count1(mainQueue', t) + Count1(pending', t) + ran'[t]
                  = (IF t \in asked' THEN 1 ELSE 0)
             /\ ~(t \in stored' /\ t \in done')
    BY KeptStep
  <2>1. /\ (IF t \in stored THEN 1 ELSE 0) + Count1(mainQueue, t) + Count1(pending, t) + ran[t]
            = (IF t \in asked THEN 1 ELSE 0)
        /\ ~(t \in stored /\ t \in done)
    BY DEF PumpInv, ContinuationKept
  <2>2. /\ Count1(mainQueue, t) \in Nat /\ ran[t] \in Nat
        /\ Count1(pending, t) = 0 /\ Count1(mainQueue', t) = 0 /\ Count1(pending', t) = Count1(mainQueue, t)
    BY <1>1, <1>2, CountEmpty, CountType DEF PumpInv, Pumping
  <2> QED
    BY <2>1, <2>2, <1>1
<1> QED
  BY <1>3, <1>4

\* ... and runs what it took, the oldest first.
LEMMA RunKeeps ==
  ASSUME PumpInv, RunContinuation
  PROVE  Pumping' /\ ContinuationKept'
<1> DEFINE u == Head(pending)
<1>1. /\ pc[Main] = "pump" /\ pending \in Seq(Tasks) /\ pending # <<>>
      /\ pc' = [pc EXCEPT ![Main] = IF Len(pending) = 1 THEN "main" ELSE "pump"]
      /\ ran' = [ran EXCEPT ![u] = @ + 1] /\ ran \in [Tasks -> Nat]
      /\ pending' = Tail(pending)
      /\ UNCHANGED <<stored, asked, done, mainQueue>>
  BY DEF RunContinuation, Goes, taskVars, PumpInv, Pumping
<1>2. /\ u \in Tasks /\ pending' \in Seq(Tasks)
      /\ (pending' # <<>> <=> Len(pending) # 1)
  <2>1. pending' \in Seq(Tasks) /\ Len(pending') = Len(pending) - 1 /\ u \in Tasks
    BY <1>1
  <2>2. pending' = <<>> <=> Len(pending') = 0
    BY <2>1
  <2> QED
    BY <1>1, <2>1, <2>2
<1>3. pc'[Main] = "pump" <=> Len(pending) # 1
  BY <1>1, WorkersFacts DEF PumpInv, PoolInv, Shape
<1>4. \A t \in Tasks : Count1(pending, t) = Count1(pending', t) + (IF u = t THEN 1 ELSE 0)
  BY <1>1, CountTail
<1>5. ASSUME NEW t \in Tasks
      PROVE  Count1(mainQueue, t) \in Nat /\ Count1(pending', t) \in Nat /\ ran[t] \in Nat
  BY <1>2, CountType DEF PumpInv, Pumping
<1> HIDE DEF u
<1>6. ran' \in [Tasks -> Nat] /\ \A t \in Tasks : ran'[t] = ran[t] + (IF u = t THEN 1 ELSE 0)
  BY <1>1, <1>2
<1>7. Pumping'
  BY <1>1, <1>2, <1>3, <1>6 DEF PumpInv, Pumping
<1>8. ContinuationKept'
  <2> SUFFICES ASSUME NEW t \in Tasks
      PROVE  /\ (IF t \in stored' THEN 1 ELSE 0) + Count1(mainQueue', t) + Count1(pending', t) + ran'[t]
                  = (IF t \in asked' THEN 1 ELSE 0)
             /\ ~(t \in stored' /\ t \in done')
    BY KeptStep
  <2>1. /\ (IF t \in stored THEN 1 ELSE 0) + Count1(mainQueue, t) + Count1(pending, t) + ran[t]
            = (IF t \in asked THEN 1 ELSE 0)
        /\ ~(t \in stored /\ t \in done)
    BY DEF PumpInv, ContinuationKept
  <2>2. UNCHANGED <<stored, asked, done, mainQueue>>
    BY <1>1
  <2>3. /\ Count1(pending, t) = Count1(pending', t) + (IF u = t THEN 1 ELSE 0)
        /\ ran'[t] = ran[t] + (IF u = t THEN 1 ELSE 0)
    BY <1>4, <1>6
  <2> QED
    BY <2>1, <2>2, <2>3, <1>5
<1> QED
  BY <1>7, <1>8

\* A worker touches the continuations only where a result lands.
LEMMA WorkerKeeps ==
  ASSUME PumpInv, NEW w \in Workers, Work(w)
  PROVE  Pumping' /\ ContinuationKept'
<1>1. CASE Finish(w)
  BY <1>1, LandedKeeps
<1>2. CASE ~Finish(w)
  <2>1. pc'[Main] = pc[Main]
    BY MainStays DEF PumpInv
  <2>2. UNCHANGED <<stored, asked, done, pumpVars>>
    BY <1>2 DEF Work, Participate, Take, Sleep, RunPlain, Count, BeginParallel, Register, SubmitHelper,
                Claim, Body, Leave, EndParallel, Arrive, PassBarrier, taskVars
  <2> QED
    BY <2>1, <2>2, PumpUntouched DEF PumpInv
<1> QED
  BY <1>1, <1>2

\* Of Main's steps, three are about continuations.
LEMMA OwnerKeeps ==
  ASSUME PumpInv, GoOn \/ Call
  PROVE  Pumping' /\ ContinuationKept'
<1>1. pc \in [Threads -> Places \cup Tasks] /\ Main \in Threads
  BY WorkersFacts DEF PumpInv, PoolInv, Shape
<1> DEFINE Free == /\ UNCHANGED <<stored, asked, done, pumpVars>>
                   /\ pc'[Main] = "pump" <=> pc[Main] = "pump"
<1>2. CASE RunContinuation
  BY <1>2, RunKeeps
<1>3. CASE PumpMainThread
  BY <1>3, PumpKeeps
<1>4. ASSUME NEW t \in Tasks, Then(t)
      PROVE  Pumping' /\ ContinuationKept'
  BY <1>4, ThenKeeps
<1>5. ASSUME NEW t \in Tasks, Submit(t)
      PROVE  Free
  BY <1>1, <1>5, SubmitterMoves DEF Submit
<1>6. ASSUME SubmitEach
      PROVE  Free
  <2> DEFINE at == [pc EXCEPT ![Main] = "each"]
  <2>1. at \in [Threads -> Places \cup Tasks] /\ at[Main] = "each"
    BY <1>1 DEF Places
  <2> HIDE DEF at
  <2>2. Enqueue(EachJob, at) /\ pc[Main] # "pump" /\ UNCHANGED <<stored, asked, done, pumpVars>>
    BY <1>6 DEF SubmitEach, at, taskVars
  <2>3. pc'[Main] = "each"
    BY <2>1, <2>2, SubmitterMoves
  <2> QED
    BY <2>2, <2>3
<1>7. ASSUME SubmitHelper(Main)
      PROVE  Free
  <2> DEFINE at == [pc EXCEPT ![Main] = IF dispatch[Of(Main)].left = 1 THEN "claim" ELSE "help"]
  <2>1. at \in [Threads -> Places \cup Tasks] /\ at[Main] # "pump"
    BY <1>1 DEF Places
  <2> HIDE DEF at
  <2>2. /\ Enqueue(HelpJob(Of(Main)), at) /\ pc[Main] # "pump"
        /\ UNCHANGED <<stored, asked, done, pumpVars>>
    BY <1>7 DEF SubmitHelper, at, taskVars
  <2>3. pc'[Main] # "pump"
    BY <2>1, <2>2, SubmitterMoves
  <2> QED
    BY <2>2, <2>3
<1>8. ASSUME Claim(Main) \/ Body(Main) \/ Leave(Main) \/ EndParallel(Main) \/ BeginParallel(Main)
      PROVE  Free
  BY <1>1, <1>8 DEF Claim, Body, Leave, EndParallel, BeginParallel, Goes, taskVars
<1>9. ASSUME EndEach \/ WaitReturns \/ Joined \/ WaitForAll
      PROVE  Free
  BY <1>1, <1>9 DEF EndEach, WaitReturns, Joined, WaitForAll, Goes, taskVars
<1>10. ASSUME Stop
       PROVE  Free
  <2>1. Woken \in [Threads -> Places \cup Tasks]
    BY <1>1 DEF Woken, Places
  <2>2. pc' = [Woken EXCEPT ![Main] = "join"] /\ pc[Main] = "main" /\ UNCHANGED <<stored, asked, done, pumpVars>>
    BY <1>10 DEF Stop, taskVars
  <2> QED
    BY <1>1, <2>1, <2>2
<1>11. \A t \in Tasks : t # "pump"
  BY PoolAssumption DEF Places
<1>12. ASSUME NEW t \in Tasks, Get(t)
       PROVE  Free
  BY <1>1, <1>11, <1>12 DEF Get, Goes, taskVars
<1>13. ASSUME GetReturns
       PROVE  Free
  <2>1. pc[Main] # "pump"
    BY <1>11, <1>13 DEF GetReturns, PumpInv, PoolInv, Shape
  <2> QED
    BY <1>1, <1>13, <2>1 DEF GetReturns, Goes, taskVars
<1>14. Free => Pumping' /\ ContinuationKept'
  BY PumpUntouched DEF PumpInv
<1> HIDE DEF Free
<1>15. CASE Participate(Main)
  BY <1>7, <1>8, <1>14, <1>15 DEF Participate, Free
<1> QED
  BY <1>2, <1>3, <1>4, <1>5, <1>6, <1>8, <1>9, <1>10, <1>12, <1>13, <1>14, <1>15 DEF GoOn, Call, Free

\* No continuation, to begin with.
LEMMA PumpStarts == Init => Pumping /\ ContinuationKept
<1> SUFFICES ASSUME Init PROVE Pumping /\ ContinuationKept
  OBVIOUS
<1>1. /\ stored = {} /\ asked = {} /\ done = {} /\ mainQueue = <<>> /\ pending = <<>>
      /\ ran = [t \in Tasks |-> 0] /\ pc[Main] = "main"
  BY WorkersFacts DEF Init
<1>2. Pumping
  BY <1>1 DEF Pumping
<1>3. ContinuationKept
  BY <1>1, CountEmpty DEF ContinuationKept
<1> QED
  BY <1>2, <1>3

\* A continuation is in one place: stored until the result lands, then on the pump's queue, in its
\* hands, or run; so it is never lost and never run twice.
THEOREM ContinuationsKept == Spec => []ContinuationKept
<1>1. Init => PumpInv
  BY Starting, PumpStarts DEF PumpInv
<1>2. PumpInv /\ [Next]_vars => PumpInv'
  <2>1. ASSUME PumpInv, Next
        PROVE  Pumping' /\ ContinuationKept'
    BY <2>1, WorkerKeeps, OwnerKeeps DEF Next
  <2>2. ASSUME PumpInv, UNCHANGED vars
        PROVE  Pumping' /\ ContinuationKept'
    BY <2>2, PumpUntouched DEF vars, pumpVars, PumpInv
  <2> QED
    BY <2>1, <2>2, Stepping DEF PumpInv
<1>3. PumpInv => ContinuationKept
  BY DEF PumpInv
<1> QED
  BY <1>1, <1>2, <1>3, PTL DEF Spec

-----------------------------------------------------------------------------
(* A task is run once, and its helpers come after it has begun *)

Holders(j) == {w \in Workers : job[w] = j}
\* A job is queued, or with a worker, and nowhere twice.
Copies(j) == Count1(queue, j) + Cardinality(Holders(j))
Once == \A t \in Tasks : Copies(TaskJob(t)) <= (IF t \in submitted THEN 1 ELSE 0)

\* The two numbers, and when each of them is zero.
LEMMA CopiesType ==
  ASSUME PoolInv, NEW j \in Job
  PROVE  /\ Count1(queue, j) \in Nat /\ Cardinality(Holders(j)) \in Nat /\ Copies(j) \in Nat
         /\ Holders(j) \in SUBSET Workers /\ IsFiniteSet(Holders(j))
         /\ Count1(queue, j) = 0 <=> \A i \in 1 .. Len(queue) : queue[i] # j
         /\ Cardinality(Holders(j)) = 0 <=> \A w \in Workers : job[w] # j
<1>1. queue \in Seq(Job)
  BY DEF PoolInv, Shape
<1>2. Holders(j) \in SUBSET Workers
  BY DEF Holders
<1>3. IsFiniteSet(Holders(j))
  BY <1>2, RunningFacts
<1>4. Holders(j) = {} <=> \A w \in Workers : job[w] # j
  BY DEF Holders
<1>5. Count1(queue, j) \in Nat /\ (Count1(queue, j) = 0 <=> \A i \in 1 .. Len(queue) : queue[i] # j)
  BY <1>1, CountType
<1>6. Cardinality(Holders(j)) \in Nat /\ (Cardinality(Holders(j)) = 0 <=> Holders(j) = {})
  BY <1>3, FS_CardinalityType, FS_EmptySet
<1> QED
  BY <1>2, <1>3, <1>4, <1>5, <1>6 DEF Copies

\* Two workers with the same job are two copies of it.
LEMMA OneHolder ==
  ASSUME PoolInv, NEW j \in Job, Copies(j) <= 1, NEW w \in Workers, job[w] = j
  PROVE  /\ Count1(queue, j) = 0
         /\ \A v \in Workers : job[v] = j => v = w
<1>1. /\ Count1(queue, j) \in Nat /\ Cardinality(Holders(j)) \in Nat
      /\ IsFiniteSet(Holders(j)) /\ w \in Holders(j)
  BY CopiesType DEF Holders
<1>2. Cardinality(Holders(j) \ {w}) = Cardinality(Holders(j)) - 1 /\ IsFiniteSet(Holders(j) \ {w})
  BY <1>1, FS_RemoveElement
<1>3. Cardinality(Holders(j) \ {w}) \in Nat
  BY <1>2, FS_CardinalityType
<1>4. Count1(queue, j) = 0 /\ Cardinality(Holders(j) \ {w}) = 0
  BY <1>1, <1>2, <1>3 DEF Copies
<1>5. Holders(j) \ {w} = {}
  BY <1>2, <1>4, FS_EmptySet
<1> QED
  BY <1>4, <1>5 DEF Holders

\* A worker's taking a job changes no count.
LEMMA TakeCopies ==
  ASSUME PoolInv, NEW w \in Workers, Take(w), NEW j \in Job
  PROVE  Copies(j)' = Copies(j)
<1>1. /\ queue \in Seq(Job) /\ queue # <<>> /\ job[w] = NoJob /\ NoJob # j
      /\ job \in [Workers -> Job \cup {NoJob}]
      /\ job' = [job EXCEPT ![w] = Head(queue)] /\ queue' = Tail(queue)
  BY DEF PoolInv, Shape, AtWork, Resting, Take, Job, NoJob, EachJob
<1>2. Holders(j)' = IF Head(queue) = j THEN Holders(j) \cup {w} ELSE Holders(j)
  BY <1>1 DEF Holders
<1>3. w \notin Holders(j)
  BY <1>1 DEF Holders
<1>4. /\ IsFiniteSet(Holders(j)) /\ Cardinality(Holders(j)) \in Nat /\ Count1(queue, j) \in Nat
  BY CopiesType
<1>5. Cardinality(Holders(j)') = Cardinality(Holders(j)) + (IF Head(queue) = j THEN 1 ELSE 0)
  <2>1. CASE Head(queue) = j
    <3>1. Cardinality(Holders(j) \cup {w}) = Cardinality(Holders(j)) + 1
      BY <1>3, <1>4, FS_AddElement
    <3> QED
      BY <1>2, <2>1, <3>1
  <2>2. CASE Head(queue) # j
    BY <1>2, <1>4, <2>2
  <2> QED
    BY <2>1, <2>2
<1>6. /\ Count1(queue, j) = Count1(queue', j) + (IF Head(queue) = j THEN 1 ELSE 0)
      /\ Count1(queue', j) \in Nat
  <2>1. queue' \in Seq(Job)
    BY <1>1
  <2> QED
    BY <1>1, <2>1, CountTail, CountType
<1>7. Copies(j)' = Count1(queue', j) + Cardinality(Holders(j)')
  BY DEF Copies, Count1
<1> QED
  BY <1>4, <1>5, <1>6, <1>7 DEF Copies

\* Its giving a job up takes one away.
LEMMA CountCopies ==
  ASSUME PoolInv, NEW w \in Workers, Count(w), NEW j \in Job
  PROVE  Copies(j)' = Copies(j) - (IF job[w] = j THEN 1 ELSE 0)
<1>1. /\ NoJob # j /\ job \in [Workers -> Job \cup {NoJob}]
      /\ job' = [job EXCEPT ![w] = NoJob] /\ queue' = queue
  BY DEF PoolInv, Shape, Count, Job, NoJob, EachJob
<1>2. Holders(j)' = Holders(j) \ {w}
  BY <1>1 DEF Holders
<1>3. w \in Holders(j) <=> job[w] = j
  BY <1>1 DEF Holders
<1>4. /\ IsFiniteSet(Holders(j)) /\ Cardinality(Holders(j)) \in Nat /\ Count1(queue, j) \in Nat
  BY CopiesType
<1>5. Cardinality(Holders(j) \ {w}) = Cardinality(Holders(j)) - (IF job[w] = j THEN 1 ELSE 0)
  <2>1. CASE job[w] = j
    BY <1>3, <1>4, <2>1, FS_RemoveElement
  <2>2. CASE job[w] # j
    <3>1. Holders(j) \ {w} = Holders(j)
      BY <1>3, <2>2
    <3> QED
      BY <1>4, <2>2, <3>1
  <2> QED
    BY <2>1, <2>2
<1>6. Copies(j)' = Count1(queue', j) + Cardinality(Holders(j)')
  BY DEF Copies, Count1
<1> QED
  BY <1>1, <1>2, <1>4, <1>5, <1>6 DEF Copies

\* A submission adds one.
LEMMA EnqueueCopies ==
  ASSUME PoolInv, NEW k \in Job, NEW at, Enqueue(k, at), job' = job, NEW j \in Job
  PROVE  Copies(j)' = Copies(j) + (IF k = j THEN 1 ELSE 0)
<1>1. queue \in Seq(Job) /\ queue' = Append(queue, k)
  BY DEF PoolInv, Shape, Enqueue
<1>2. Count1(queue', j) = Count1(queue, j) + (IF k = j THEN 1 ELSE 0)
  BY <1>1, CountAppend
<1>3. Holders(j)' = Holders(j)
  BY DEF Holders
<1>4. Copies(j)' = Count1(queue', j) + Cardinality(Holders(j)')
  BY DEF Copies, Count1
<1>5. Count1(queue, j) \in Nat /\ Cardinality(Holders(j)) \in Nat
  BY CopiesType
<1> QED
  BY <1>2, <1>3, <1>4, <1>5 DEF Copies

\* Where a thread is in a RunParallel: still counted in members, or waiting for the others.
Inside == {"help", "claim", "body", "leave"}
Calling == Inside \cup {"await"}
Split == 0 .. Ranges - 1

Dispatch == [left : Int, cursor : Nat, members : Int, covered : [Split -> Int], returned : BOOLEAN]
CallTypes == /\ dispatch \in [Callers -> Dispatch] /\ part \in [Threads -> Nat]
             /\ each \in [left : Int, arrived : Nat, served : SUBSET (Workers \X Nat), finished : Int]

\* RunParallel by d has begun: d is past the point where it can begin.
Begun(d) == IF d = Main THEN pc[Main] \in Calling \/ dispatch[Main].returned
            ELSE /\ d \in submitted /\ ~Queued(d)
                 /\ \A w \in Workers : job[w] = TaskJob(d) => pc[w] # "run"
HelpAfter == \A d \in Tasks \cup {Main} : Copies(HelpJob(d)) # 0 => d \in Callers /\ Begun(d)

\* What a worker may be doing with the job that it has.
Role(j, p) == /\ p \in {"help", "await"} => j.kind = "task" /\ j.of \in Nested
              /\ p \in Inside => j.kind \in {"task", "help"} /\ j.of \in Callers
              /\ p = "barrier" => j = EachJob
Roles == \A w \in Workers : Role(job[w], pc[w])

CallInv == PoolInv /\ CallTypes /\ Once /\ HelpAfter /\ Roles

\* A step that leaves the queue and the workers' jobs as they are.
Settling == /\ UNCHANGED <<queue, job, submitted>>
            /\ \A w \in Workers : pc'[w] = "run" => pc[w] = "run"

\* The steps that change the queue, the workers' jobs or what is submitted.
LEMMA QueueSteps ==
  ASSUME PoolInv, Next
  PROVE  \/ \E w \in Workers : Take(w) \/ Count(w)
         \/ \E t \in Tasks : Submit(t)
         \/ SubmitEach
         \/ \E th \in Threads : SubmitHelper(th)
         \/ Settling
<1>1. /\ pc \in [Threads -> Places \cup Tasks] /\ Main \in Threads /\ Main \notin Workers
      /\ \A w \in Workers : w \in Threads
  BY WorkersFacts DEF PoolInv, Shape
<1> USE DEF poolVars, taskVars
<1>2. ASSUME NEW w \in Workers,
             Sleep(w) \/ RunPlain(w) \/ Finish(w) \/ BeginParallel(w) \/ Register(w) \/ Arrive(w) \/ PassBarrier(w)
      PROVE  Settling
  <2>1. \E to : to # "run" /\ Goes(w, to)
    BY <1>1, <1>2 DEF Sleep, RunPlain, Finish, BeginParallel, Register, Arrive, PassBarrier
  <2>2. UNCHANGED <<queue, job, submitted>>
    BY <1>2 DEF Sleep, RunPlain, Finish, BeginParallel, Register, Arrive, PassBarrier
  <2> QED
    BY <1>1, <2>1, <2>2 DEF Settling, Goes
<1>3. ASSUME NEW th \in Threads, Claim(th) \/ Body(th) \/ Leave(th) \/ EndParallel(th)
      PROVE  Settling
  <2>1. \E to : to # "run" /\ Goes(th, to)
    BY <1>1, <1>3 DEF Claim, Body, Leave, EndParallel
  <2>2. UNCHANGED <<queue, job, submitted>>
    BY <1>3 DEF Claim, Body, Leave, EndParallel
  <2> QED
    BY <1>1, <2>1, <2>2 DEF Settling, Goes
<1>4. ASSUME NEW t \in Tasks, Then(t) \/ Get(t)
      PROVE  Settling
  BY <1>1, <1>4 DEF Then, Get, Settling, Goes
<1>5. ASSUME \/ EndEach \/ GetReturns \/ RunContinuation \/ WaitReturns \/ Joined \/ PumpMainThread
             \/ WaitForAll \/ BeginParallel(Main)
      PROVE  Settling
  <2>1. \E to : Goes(Main, to)
    BY <1>5 DEF EndEach, GetReturns, RunContinuation, WaitReturns, Joined, PumpMainThread, WaitForAll,
                BeginParallel
  <2>2. UNCHANGED <<queue, job, submitted>>
    BY <1>5 DEF EndEach, GetReturns, RunContinuation, WaitReturns, Joined, PumpMainThread, WaitForAll,
                BeginParallel
  <2> QED
    BY <1>1, <2>1, <2>2 DEF Settling, Goes
<1>6. ASSUME Stop
      PROVE  Settling
  BY <1>1, <1>6 DEF Stop, Woken, Settling
<1> QED
  BY <1>1, <1>2, <1>3, <1>4, <1>5, <1>6 DEF Next, Work, GoOn, Call, Participate

\* The kinds of job are told apart.
LEMMA Jobs ==
  /\ \A t \in Tasks : TaskJob(t) \in Job
  /\ \A d \in Tasks \cup {Main} : HelpJob(d) \in Job
  /\ EachJob \in Job /\ NoJob \notin Job
  /\ \A t, u \in Tasks : TaskJob(t) = TaskJob(u) => t = u
  /\ \A d, e \in Tasks \cup {Main} : HelpJob(d) = HelpJob(e) => d = e
  /\ \A t \in Tasks, d \in Tasks \cup {Main} : TaskJob(t) # HelpJob(d)
  /\ \A t \in Tasks : TaskJob(t) # EachJob
  /\ \A d \in Tasks \cup {Main} : HelpJob(d) # EachJob
BY DEF TaskJob, HelpJob, EachJob, NoJob, Job

\* The one whose RunParallel a thread is in, by the job that it has.
LEMMA OfType ==
  ASSUME CallInv, NEW th \in Threads, pc[th] \in Calling
  PROVE  /\ Of(th) \in Callers /\ Of(th) \in Tasks \cup {Main}
         /\ th # Main /\ IsCaller(th) => Of(th) \in Tasks /\ job[th] = TaskJob(Of(th))
         /\ pc[th] \in {"help", "await"} => IsCaller(th)
         /\ ~IsCaller(th) => job[th] = HelpJob(Of(th))
<1>1. Nested \subseteq Tasks /\ Callers \subseteq Tasks \cup {Main}
  BY PoolAssumption DEF Callers
<1>2. CASE th = Main
  BY <1>2 DEF Of, IsCaller, Callers
<1>3. CASE th # Main
  <2>1. th \in Workers /\ job[th] \in Job \cup {NoJob} /\ Role(job[th], pc[th])
    BY <1>3 DEF Threads, CallInv, PoolInv, Shape, Roles
  <2>2. job[th].kind \in {"task", "help"} /\ job[th].of \in Callers
    BY <2>1, <1>1 DEF Role, Calling, Inside, Callers
  <2>3. job[th].kind = "task" => job[th] = TaskJob(job[th].of)
    BY <2>1 DEF Job, NoJob, EachJob, TaskJob
  <2>4. job[th].kind = "help" => job[th] = HelpJob(job[th].of)
    BY <2>1 DEF Job, NoJob, EachJob, HelpJob
  <2>5. job[th].kind = "task" => job[th].of \in Tasks
    BY <2>1 DEF Job, NoJob, EachJob
  <2>6. pc[th] \in {"help", "await"} => job[th].kind = "task"
    BY <2>1 DEF Role
  <2> QED
    BY <1>1, <1>3, <2>2, <2>3, <2>4, <2>5, <2>6 DEF Of, IsCaller
<1> QED
  BY <1>2, <1>3

\* The counts after any step.
LEMMA OnceStep ==
  ASSUME CallInv, Next
  PROVE  Once'
<1> SUFFICES ASSUME NEW t \in Tasks
             PROVE  Copies(TaskJob(t))' <= (IF t \in submitted' THEN 1 ELSE 0)
  BY DEF Once
<1>1. /\ Copies(TaskJob(t)) <= (IF t \in submitted THEN 1 ELSE 0) /\ TaskJob(t) \in Job /\ PoolInv
      /\ Copies(TaskJob(t)) \in Nat
  BY Jobs, CopiesType DEF CallInv, Once
<1>2. ASSUME NEW w \in Workers, Take(w)
      PROVE  Copies(TaskJob(t))' = Copies(TaskJob(t)) /\ submitted' = submitted
  BY <1>1, <1>2, TakeCopies DEF Take, taskVars
<1>3. ASSUME NEW w \in Workers, Count(w)
      PROVE  Copies(TaskJob(t))' \in {Copies(TaskJob(t)), Copies(TaskJob(t)) - 1} /\ submitted' = submitted
  <2>1. Copies(TaskJob(t))' = Copies(TaskJob(t)) - (IF job[w] = TaskJob(t) THEN 1 ELSE 0)
    BY <1>1, <1>3, CountCopies
  <2> QED
    BY <1>1, <1>3, <2>1 DEF Count, taskVars
<1>4. ASSUME NEW u \in Tasks, Submit(u)
      PROVE  Copies(TaskJob(t))' <= (IF t \in submitted' THEN 1 ELSE 0)
  <2>1. u \notin submitted /\ submitted' = submitted \cup {u} /\ Enqueue(TaskJob(u), pc) /\ job' = job
    BY <1>4 DEF Submit
  <2>2. Copies(TaskJob(t))' = Copies(TaskJob(t)) + (IF TaskJob(u) = TaskJob(t) THEN 1 ELSE 0)
    BY <1>1, <2>1, Jobs, EnqueueCopies
  <2>3. TaskJob(u) = TaskJob(t) <=> u = t
    BY Jobs
  <2> QED
    BY <1>1, <2>1, <2>2, <2>3
<1>5. ASSUME SubmitEach
      PROVE  Copies(TaskJob(t))' = Copies(TaskJob(t)) /\ submitted' = submitted
  <2>1. Copies(TaskJob(t))' = Copies(TaskJob(t)) + (IF EachJob = TaskJob(t) THEN 1 ELSE 0)
    BY <1>1, <1>5, Jobs, EnqueueCopies DEF SubmitEach
  <2> QED
    BY <1>1, <1>5, <2>1, Jobs DEF SubmitEach, taskVars
<1>6. ASSUME NEW th \in Threads, SubmitHelper(th)
      PROVE  Copies(TaskJob(t))' = Copies(TaskJob(t)) /\ submitted' = submitted
  <2>1. Of(th) \in Tasks \cup {Main}
    BY <1>6, OfType DEF SubmitHelper, Calling, Inside
  <2>2. Copies(TaskJob(t))' = Copies(TaskJob(t)) + (IF HelpJob(Of(th)) = TaskJob(t) THEN 1 ELSE 0)
    BY <1>1, <1>6, <2>1, Jobs, EnqueueCopies DEF SubmitHelper
  <2> QED
    BY <1>1, <1>6, <2>1, <2>2, Jobs DEF SubmitHelper, taskVars
<1>7. ASSUME Settling
      PROVE  Copies(TaskJob(t))' = Copies(TaskJob(t)) /\ submitted' = submitted
  BY <1>7 DEF Settling, Copies, Holders, Count1
<1> QED
  BY <1>1, <1>2, <1>3, <1>4, <1>5, <1>6, <1>7, QueueSteps

\* The claim-state of d's RunParallel after a step that touches no other's.
Becomes(d, l, c, m, v, r) ==
  /\ dispatch' \in [Callers -> Dispatch]
  /\ dispatch'[d].left = l /\ dispatch'[d].cursor = c /\ dispatch'[d].members = m
  /\ dispatch'[d].covered = v /\ dispatch'[d].returned = r
  /\ \A e \in Callers \ {d} : dispatch'[e] = dispatch[e]

\* What each step of a RunParallel does to its caller's claim-state.
LEMMA CallEffects ==
  ASSUME CallTypes, NEW th \in Threads, NEW d \in Callers, Of(th) = d
  PROVE  LET s == dispatch[d] IN
         /\ BeginParallel(th) => Becomes(d, s.left, s.cursor, 1, s.covered, s.returned)
         /\ SubmitHelper(th) => Becomes(d, s.left - 1, s.cursor, s.members, s.covered, s.returned)
         /\ Register(th) => Becomes(d, s.left, s.cursor, s.members + 1, s.covered, s.returned)
         /\ Claim(th) => Becomes(d, s.left, s.cursor + 1, s.members, s.covered, s.returned)
         /\ Body(th) => Becomes(d, s.left, s.cursor, s.members,
                                [s.covered EXCEPT ![part[th]] = @ + 1], s.returned)
         /\ Leave(th) => Becomes(d, s.left, s.cursor, s.members - 1, s.covered, s.returned)
         /\ EndParallel(th) => Becomes(d, s.left, s.cursor, s.members, s.covered, TRUE)
<1> DEFINE s == dispatch[d]
<1>0. dispatch \in [Callers -> Dispatch]
  BY DEF CallTypes
<1>1. ASSUME BeginParallel(th) PROVE Becomes(d, s.left, s.cursor, 1, s.covered, s.returned)
  BY <1>0, <1>1 DEF BeginParallel, Becomes, Dispatch
<1>2. ASSUME SubmitHelper(th) PROVE Becomes(d, s.left - 1, s.cursor, s.members, s.covered, s.returned)
  BY <1>0, <1>2 DEF SubmitHelper, Becomes, Dispatch
<1>3. ASSUME Register(th) PROVE Becomes(d, s.left, s.cursor, s.members + 1, s.covered, s.returned)
  BY <1>0, <1>3 DEF Register, Becomes, Dispatch
<1>4. ASSUME Claim(th) PROVE Becomes(d, s.left, s.cursor + 1, s.members, s.covered, s.returned)
  <2>1. dispatch' = [dispatch EXCEPT ![d].cursor = @ + 1]
    BY <1>4 DEF Claim
  <2> QED
    BY <1>0, <2>1 DEF Becomes, Dispatch
<1>5. ASSUME Body(th)
      PROVE  Becomes(d, s.left, s.cursor, s.members, [s.covered EXCEPT ![part[th]] = @ + 1], s.returned)
  <2>1. dispatch' = [dispatch EXCEPT ![d].covered[part[th]] = @ + 1]
    BY <1>5 DEF Body
  <2> QED
    BY <1>0, <2>1 DEF Becomes, Dispatch
<1>6. ASSUME Leave(th) PROVE Becomes(d, s.left, s.cursor, s.members - 1, s.covered, s.returned)
  BY <1>0, <1>6 DEF Leave, Becomes, Dispatch
<1>7. ASSUME EndParallel(th) PROVE Becomes(d, s.left, s.cursor, s.members, s.covered, TRUE)
  <2>1. dispatch' = [dispatch EXCEPT ![d].returned = TRUE]
    BY <1>7 DEF EndParallel
  <2> QED
    BY <1>0, <2>1 DEF Becomes, Dispatch
<1> QED
  BY <1>1, <1>2, <1>3, <1>4, <1>5, <1>6, <1>7

\* Whoever takes part in a RunParallel, or is about to, does so for a caller.
LEMMA OfCaller ==
  ASSUME CallInv, NEW th \in Threads,
         Participate(th) \/ BeginParallel(th) \/ (th \in Workers /\ Register(th))
  PROVE  Of(th) \in Callers
<1>1. CASE Participate(th)
  BY <1>1, OfType DEF Participate, SubmitHelper, Claim, Body, Leave, EndParallel, Calling, Inside
<1>2. CASE BeginParallel(th)
  BY <1>2 DEF BeginParallel, Of, Callers
<1>3. CASE th \in Workers /\ Register(th)
  <2>1. th # Main /\ job[th].kind = "help" /\ job[th] \in Job \cup {NoJob}
    BY <1>3, WorkersFacts DEF Register, CallInv, PoolInv, Shape
  <2>2. job[th].of \in Tasks \cup {Main} /\ job[th] = HelpJob(job[th].of)
    BY <2>1 DEF Job, NoJob, EachJob, HelpJob
  <2>3. Copies(job[th]) # 0
    BY <1>3, <2>2, Jobs, CopiesType DEF Copies, CallInv
  <2> QED
    BY <2>1, <2>2, <2>3 DEF CallInv, HelpAfter, Of
<1> QED
  BY <1>1, <1>2, <1>3

\* Only steps of a RunParallel touch its claim-state.
LEMMA OtherSteps ==
  ASSUME Next
  PROVE  \/ UNCHANGED dispatch
         \/ \E th \in Threads : Participate(th) \/ BeginParallel(th) \/ (th \in Workers /\ Register(th))
<1>1. ASSUME NEW w \in Workers, Work(w),
             ~(Participate(w) \/ BeginParallel(w) \/ Register(w))
      PROVE  UNCHANGED dispatch
  BY <1>1 DEF Work, Take, Sleep, RunPlain, Finish, Count, Arrive, PassBarrier, callVars
<1>2. ASSUME GoOn \/ Call, ~Participate(Main), ~BeginParallel(Main)
      PROVE  UNCHANGED dispatch
  BY <1>2 DEF GoOn, Call, SubmitEach, EndEach, GetReturns, RunContinuation, WaitReturns, Joined,
              Submit, Then, Get, PumpMainThread, WaitForAll, Stop, callVars
<1> QED
  BY <1>1, <1>2, WorkersFacts DEF Next

\* A claim-state keeps its type, and what has returned stays returned.
LEMMA TypesStep ==
  ASSUME CallInv, Next
  PROVE  /\ dispatch' \in [Callers -> Dispatch]
         /\ \A d \in Callers : dispatch[d].returned => dispatch'[d].returned
<1>1. dispatch \in [Callers -> Dispatch]
  BY DEF CallInv, CallTypes
<1>2. CASE UNCHANGED dispatch
  BY <1>1, <1>2
<1>3. ASSUME NEW th \in Threads,
             Participate(th) \/ BeginParallel(th) \/ (th \in Workers /\ Register(th))
      PROVE  \E d \in Callers : \E l, c, m, v, r :
               Becomes(d, l, c, m, v, r) /\ (r = dispatch[d].returned \/ r = TRUE)
  <2>1. CallTypes /\ Of(th) \in Callers
    BY <1>3, OfCaller DEF CallInv
  <2> DEFINE s == dispatch[Of(th)]
  <2>2. CASE BeginParallel(th)
    BY <2>1, <2>2, CallEffects
  <2>3. CASE SubmitHelper(th)
    BY <2>1, <2>3, CallEffects
  <2>4. CASE Register(th)
    BY <2>1, <2>4, CallEffects
  <2>5. CASE Claim(th)
    BY <2>1, <2>5, CallEffects
  <2>6. CASE Body(th)
    BY <2>1, <2>6, CallEffects
  <2>7. CASE Leave(th)
    BY <2>1, <2>7, CallEffects
  <2>8. CASE EndParallel(th)
    BY <2>1, <2>8, CallEffects
  <2> QED
    BY <1>3, <2>2, <2>3, <2>4, <2>5, <2>6, <2>7, <2>8 DEF Participate
<1> QED
  BY <1>2, <1>3, OtherSteps DEF Becomes

\* A submission moves the one that makes it, and wakes at most one sleeper.
LEMMA Notified ==
  ASSUME NEW at \in [Threads -> Places \cup Tasks], NEW j, Enqueue(j, at),
         \A w \in Sleepers : at[w] = pc[w]
  PROVE  \A u \in Threads : pc'[u] = at[u] \/ (pc[u] = "asleep" /\ pc'[u] = "loop")
<1>1. pc' = at \/ \E w \in Sleepers : pc' = [at EXCEPT ![w] = "loop"]
  BY DEF Enqueue, NotifyOne
<1>2. \A w \in Sleepers : pc[w] = "asleep"
  BY DEF Sleepers
<1> QED
  BY <1>1, <1>2

\* A thread keeps its part in a RunParallel, or stays out of any.
Kept(u) == IF pc[u] \in Calling
             THEN /\ pc'[u] = pc[u] /\ part'[u] = part[u] /\ Of(u)' = Of(u)
                  /\ u \in Workers => job'[u] = job[u]
             ELSE pc'[u] \notin Calling
\* ... stays where it is, but that it may be woken.
Undisturbed(u) == pc'[u] = pc[u] \/ (pc[u] = "asleep" /\ pc'[u] = "loop")
Acts(th) == Participate(th) \/ BeginParallel(th) \/ (th \in Workers /\ Register(th))

\* A thread that acts in a RunParallel leaves the others as they are.
LEMMA Acting ==
  ASSUME CallInv, NEW th \in Threads, Acts(th)
  PROVE  /\ job' = job /\ each' = each
         /\ \A u \in Threads \ {th} : Kept(u) /\ part'[u] = part[u] /\ Undisturbed(u)
         /\ SubmitHelper(th) => pc'[th] \in {"help", "claim"}
<1>1. pc \in [Threads -> Places \cup Tasks] /\ part \in [Threads -> Nat] /\ Main \in Threads
  BY WorkersFacts DEF CallInv, PoolInv, Shape, CallTypes
<1>2. job' = job /\ each' = each /\ \A u \in Threads \ {th} : part'[u] = part[u]
  BY <1>1 DEF Acts, Participate, BeginParallel, SubmitHelper, Register, Claim, Body, Leave, EndParallel,
              poolVars
<1>3. \A u \in Threads : Of(u)' = Of(u)
  BY <1>2 DEF Of
<1>4. CASE SubmitHelper(th)
  <2> DEFINE at == [pc EXCEPT ![th] = IF dispatch[Of(th)].left = 1 THEN "claim" ELSE "help"]
  <2>1. /\ at \in [Threads -> Places \cup Tasks] /\ \A u \in Threads \ {th} : at[u] = pc[u]
        /\ at[th] \in {"help", "claim"}
    BY <1>1 DEF Places
  <2> HIDE DEF at
  <2>2. Enqueue(HelpJob(Of(th)), at) /\ pc[th] = "help"
    BY <1>4 DEF SubmitHelper, at
  <2>3. \A w \in Sleepers : at[w] = pc[w]
    BY <2>1, <2>2, WorkersFacts DEF Sleepers
  <2>4. \A u \in Threads : pc'[u] = at[u] \/ (pc[u] = "asleep" /\ pc'[u] = "loop")
    BY <2>1, <2>2, <2>3, Notified
  <2>5. \A u \in Threads \ {th} : pc'[u] = pc[u] \/ (pc[u] = "asleep" /\ pc'[u] = "loop")
    BY <2>1, <2>4
  <2>6. pc'[th] \in {"help", "claim"}
    BY <2>1, <2>2, <2>4
  <2> QED
    BY <1>2, <1>3, <2>5, <2>6 DEF Kept, Undisturbed, Calling, Inside
<1>5. CASE ~SubmitHelper(th)
  <2>1. \E to : Goes(th, to)
    BY <1>5 DEF Acts, Participate, BeginParallel, Register, Claim, Body, Leave, EndParallel
  <2>2. \A u \in Threads \ {th} : pc'[u] = pc[u]
    BY <1>1, <2>1 DEF Goes
  <2> QED
    BY <1>2, <1>3, <1>5, <2>2 DEF Kept, Undisturbed
<1> QED
  BY <1>4, <1>5

\* Any other step leaves everyone's part in a RunParallel.
LEMMA Looking ==
  ASSUME CallInv, Next
  PROVE  \/ \E th \in Threads : Acts(th)
         \/ UNCHANGED dispatch /\ \A u \in Threads : Kept(u)
<1>1. /\ pc \in [Threads -> Places \cup Tasks] /\ part \in [Threads -> Nat]
      /\ job \in [Workers -> Job \cup {NoJob}]
      /\ Main \in Threads /\ Main \notin Workers /\ \A w \in Workers : w \in Threads
  BY WorkersFacts DEF CallInv, PoolInv, Shape, CallTypes
<1>2. UNCHANGED dispatch \/ \E th \in Threads : Acts(th)
  BY OtherSteps DEF Acts
<1>3. ASSUME NEW w \in Workers, Take(w) \/ Count(w)
      PROVE  \A u \in Threads : Kept(u)
  <2>1. /\ \E to \in {"loop", "run"} : pc' = [pc EXCEPT ![w] = to]
        /\ pc[w] \in {"loop", "count"} /\ part' = part /\ \E j : job' = [job EXCEPT ![w] = j]
    BY <1>3 DEF Take, Count, Goes, callVars
  <2>2. /\ pc[w] \notin Calling /\ pc'[w] \notin Calling
        /\ \A u \in Threads \ {w} : pc'[u] = pc[u] /\ Of(u)' = Of(u) /\ (u \in Workers => job'[u] = job[u])
    BY <1>1, <2>1 DEF Of, Calling, Inside, Threads
  <2> QED
    BY <2>1, <2>2 DEF Kept
<1>4. ASSUME NEW w \in Workers, Sleep(w) \/ RunPlain(w) \/ Finish(w) \/ Arrive(w) \/ PassBarrier(w)
      PROVE  \A u \in Threads : Kept(u)
  <2>1. /\ \E to \in {"exited", "asleep", "finish", "count", "barrier"} : pc' = [pc EXCEPT ![w] = to]
        /\ pc[w] \in {"loop", "run", "finish", "barrier"} /\ job' = job
        /\ \A u \in Threads \ {w} : part'[u] = part[u]
    BY <1>1, <1>4 DEF Sleep, RunPlain, Finish, Arrive, PassBarrier, Goes, callVars, poolVars
  <2>2. /\ pc[w] \notin Calling /\ pc'[w] \notin Calling
        /\ \A u \in Threads \ {w} : pc'[u] = pc[u] /\ Of(u)' = Of(u)
    BY <1>1, <2>1 DEF Of, Calling, Inside
  <2> QED
    BY <2>1, <2>2 DEF Kept
<1>5. ASSUME GoOn \/ Call, ~Participate(Main), ~BeginParallel(Main)
      PROVE  job' = job /\ part' = part
  BY <1>5 DEF GoOn, Call, SubmitEach, EndEach, GetReturns, RunContinuation, WaitReturns, Joined,
              Submit, Then, Get, PumpMainThread, WaitForAll, Stop, callVars, poolVars
<1>6. ASSUME GoOn \/ Call, ~Participate(Main), ~BeginParallel(Main)
      PROVE  \A u \in Threads : pc'[u] = pc[u] \/ (pc[u] \notin Calling /\ pc'[u] \notin Calling)
  <2>1. \A t \in Tasks : t \notin Calling
    BY PoolAssumption DEF Places, Calling, Inside
  <2> DEFINE Still1 == \A u \in Threads : pc'[u] = pc[u] \/ (pc[u] \notin Calling /\ pc'[u] \notin Calling)
  <2>2. ASSUME EndEach \/ RunContinuation \/ WaitReturns \/ Joined \/ PumpMainThread \/ WaitForAll
        PROVE  Still1
    <3>1. /\ \E to \in {"main", "pump", "gone", "drain"} : pc' = [pc EXCEPT ![Main] = to]
          /\ pc[Main] \in {"each", "pump", "drain", "join", "main"}
      BY <2>2 DEF EndEach, RunContinuation, WaitReturns, Joined, PumpMainThread, WaitForAll, Goes
    <3> QED
      BY <1>1, <3>1 DEF Calling, Inside
  <2>3. ASSUME NEW t \in Tasks, Then(t) PROVE Still1
    BY <2>3 DEF Then
  <2>4. ASSUME NEW t \in Tasks, Get(t) PROVE Still1
    BY <1>1, <2>1, <2>4 DEF Get, Goes, Calling, Inside
  <2>5. ASSUME GetReturns PROVE Still1
    <3>1. pc[Main] \notin Calling /\ pc' = [pc EXCEPT ![Main] = "main"]
      BY <2>1, <2>5 DEF GetReturns, CallInv, PoolInv, Shape, Goes
    <3> QED
      BY <1>1, <3>1 DEF Calling, Inside
  <2>6. ASSUME NEW t \in Tasks, Submit(t) PROVE Still1
    <3>1. Enqueue(TaskJob(t), pc)
      BY <2>6 DEF Submit
    <3>2. \A u \in Threads : pc'[u] = pc[u] \/ (pc[u] = "asleep" /\ pc'[u] = "loop")
      BY <1>1, <3>1, Notified
    <3> QED
      BY <3>2 DEF Calling, Inside
  <2>7. ASSUME SubmitEach PROVE Still1
    <3> DEFINE at == [pc EXCEPT ![Main] = "each"]
    <3>1. /\ at \in [Threads -> Places \cup Tasks] /\ \A u \in Threads \ {Main} : at[u] = pc[u]
          /\ at[Main] = "each"
      BY <1>1 DEF Places
    <3> HIDE DEF at
    <3>2. Enqueue(EachJob, at) /\ pc[Main] \in {"main", "each"}
      BY <2>7 DEF SubmitEach, at
    <3>3. \A w \in Sleepers : at[w] = pc[w]
      BY <3>1, WorkersFacts DEF Sleepers
    <3>4. \A u \in Threads : pc'[u] = at[u] \/ (pc[u] = "asleep" /\ pc'[u] = "loop")
      BY <3>1, <3>2, <3>3, Notified
    <3> QED
      BY <3>1, <3>2, <3>4 DEF Calling, Inside
  <2>8. ASSUME Stop PROVE Still1
    BY <1>1, <2>8 DEF Stop, Woken, Sleepers, Calling, Inside
  <2> QED
    BY <1>6, <2>2, <2>3, <2>4, <2>5, <2>6, <2>7, <2>8 DEF GoOn, Call
<1>7. ASSUME GoOn \/ Call, ~Participate(Main), ~BeginParallel(Main)
      PROVE  \A u \in Threads : Kept(u)
  BY <1>5, <1>6, <1>7 DEF Kept, Of
<1> QED
  BY <1>1, <1>2, <1>3, <1>4, <1>7 DEF Next, Work, Acts

\* What Main does outside a RunParallel moves no worker, but that it may wake some.
LEMMA Owned ==
  ASSUME CallInv, GoOn \/ Call, ~Acts(Main)
  PROVE  job' = job /\ part' = part /\ \A w \in Workers : Undisturbed(w)
<1>1. /\ pc \in [Threads -> Places \cup Tasks]
      /\ Main \in Threads /\ Main \notin Workers /\ \A w \in Workers : w \in Threads
  BY WorkersFacts DEF CallInv, PoolInv, Shape
<1>2. job' = job /\ part' = part
  BY DEF GoOn, Call, Acts, SubmitEach, EndEach, GetReturns, RunContinuation, WaitReturns, Joined,
         Submit, Then, Get, PumpMainThread, WaitForAll, Stop, callVars, poolVars
<1> DEFINE Safe == \A w \in Workers : Undisturbed(w)
<1>3. ASSUME EndEach \/ RunContinuation \/ WaitReturns \/ Joined \/ PumpMainThread \/ WaitForAll \/ GetReturns
      PROVE  Safe
  <2>1. \E to : pc' = [pc EXCEPT ![Main] = to]
    BY <1>3 DEF EndEach, RunContinuation, WaitReturns, Joined, PumpMainThread, WaitForAll, GetReturns, Goes
  <2> QED
    BY <1>1, <2>1 DEF Undisturbed
<1>4. ASSUME NEW t \in Tasks, Then(t) \/ Get(t) PROVE Safe
  BY <1>1, <1>4 DEF Then, Get, Goes, Undisturbed
<1>5. ASSUME NEW t \in Tasks, Submit(t) PROVE Safe
  <2>1. Enqueue(TaskJob(t), pc)
    BY <1>5 DEF Submit
  <2> QED
    BY <1>1, <2>1, Notified DEF Undisturbed
<1>6. ASSUME SubmitEach PROVE Safe
  <2> DEFINE at == [pc EXCEPT ![Main] = "each"]
  <2>1. at \in [Threads -> Places \cup Tasks] /\ \A u \in Threads \ {Main} : at[u] = pc[u]
    BY <1>1 DEF Places
  <2> HIDE DEF at
  <2>2. Enqueue(EachJob, at)
    BY <1>6 DEF SubmitEach, at
  <2>3. \A w \in Workers : pc'[w] = at[w] \/ (pc[w] = "asleep" /\ pc'[w] = "loop")
    BY <1>1, <2>1, <2>2, Notified DEF Sleepers
  <2> QED
    BY <1>1, <2>1, <2>3 DEF Undisturbed
<1>7. ASSUME Stop PROVE Safe
  BY <1>1, <1>7 DEF Stop, Woken, Sleepers, Undisturbed
<1> QED
  BY <1>2, <1>3, <1>4, <1>5, <1>6, <1>7 DEF GoOn, Call, Acts

\* A task is not queued after the step, and no worker begins it.
LeftAlone(t) ==
  /\ ~Queued(t)'
  /\ \A w \in Workers : job'[w] = TaskJob(t) /\ pc'[w] = "run" => job[w] = TaskJob(t) /\ pc[w] = "run"

\* So it is with every task that was submitted and is not queued any more.
LEMMA NotQueued ==
  ASSUME CallInv, Next, NEW t \in submitted, t \in Tasks, ~Queued(t)
  PROVE  LeftAlone(t)
<1>0. PoolInv
  BY DEF CallInv
<1> USE DEF LeftAlone
<1>1. /\ queue \in Seq(Job) /\ job \in [Workers -> Job \cup {NoJob}] /\ pc \in [Threads -> Places \cup Tasks]
      /\ \A i \in 1 .. Len(queue) : queue[i] # TaskJob(t)
      /\ \A w \in Workers : w \in Threads /\ w # Main
  BY <1>0, WorkersFacts DEF PoolInv, Shape, Queued
<1>2. ASSUME NEW j \in Job, j # TaskJob(t), queue' = Append(queue, j)
      PROVE  ~Queued(t)'
  <2>1. /\ Len(queue') = Len(queue) + 1 /\ queue'[Len(queue) + 1] = j /\ Len(queue) \in Nat
        /\ \A i \in 1 .. Len(queue) : queue'[i] = queue[i]
    BY <1>1, <1>2
  <2> QED
    BY <1>1, <1>2, <2>1 DEF Queued
<1>3. ASSUME NEW w \in Workers, Take(w)
      PROVE  LeftAlone(t)
  <2>1. /\ queue # <<>> /\ queue' = Tail(queue) /\ job' = [job EXCEPT ![w] = Head(queue)]
        /\ pc' = [pc EXCEPT ![w] = "run"]
    BY <1>3 DEF Take, Goes
  <2>2. /\ Len(queue) \in Nat \ {0} /\ Len(queue') = Len(queue) - 1 /\ Head(queue) = queue[1]
        /\ \A i \in 1 .. Len(queue') : queue'[i] = queue[i + 1]
    BY <1>1, <2>1
  <2>3. ~Queued(t)'
    BY <1>1, <2>2 DEF Queued
  <2>4. Head(queue) # TaskJob(t)
    BY <1>1, <2>2
  <2> QED
    BY <1>1, <2>1, <2>3, <2>4
<1>4. ASSUME NEW w \in Workers, Count(w)
      PROVE  LeftAlone(t)
  <2>1. queue' = queue /\ job' = [job EXCEPT ![w] = NoJob] /\ pc' = [pc EXCEPT ![w] = "loop"]
    BY <1>4 DEF Count, Goes
  <2> QED
    BY <1>1, <2>1, Jobs DEF Queued
<1>5. ASSUME NEW u \in Tasks, Submit(u)
      PROVE  LeftAlone(t)
  <2>1. u # t /\ queue' = Append(queue, TaskJob(u)) /\ job' = job /\ Enqueue(TaskJob(u), pc)
    BY <1>5 DEF Submit, Enqueue
  <2>2. ~Queued(t)'
    BY <1>2, <2>1, Jobs
  <2>3. \A w \in Threads : pc'[w] = pc[w] \/ pc'[w] = "loop"
    BY <1>1, <2>1, Notified
  <2> QED
    BY <1>1, <2>1, <2>2, <2>3
<1>6. ASSUME SubmitEach
      PROVE  LeftAlone(t)
  <2> DEFINE at == [pc EXCEPT ![Main] = "each"]
  <2>1. queue' = Append(queue, EachJob) /\ job' = job /\ Enqueue(EachJob, at)
    BY <1>6 DEF SubmitEach, Enqueue
  <2>2. ~Queued(t)'
    BY <1>2, <2>1, Jobs
  <2>3. at \in [Threads -> Places \cup Tasks] /\ \A w \in Workers : at[w] = pc[w]
    BY <1>1 DEF Places
  <2> HIDE DEF at
  <2>4. \A w \in Threads : pc'[w] = at[w] \/ pc'[w] = "loop"
    BY <1>1, <2>1, <2>3, Notified DEF Sleepers
  <2> QED
    BY <1>1, <2>1, <2>2, <2>3, <2>4
<1>7. ASSUME NEW th \in Threads, SubmitHelper(th)
      PROVE  LeftAlone(t)
  <2>1. Acts(th) /\ Of(th) \in Tasks \cup {Main}
    BY <1>7, OfType DEF Acts, Participate, SubmitHelper, Calling, Inside
  <2>2. queue' = Append(queue, HelpJob(Of(th)))
    BY <1>7 DEF SubmitHelper, Enqueue
  <2>3. ~Queued(t)'
    BY <1>2, <2>1, <2>2, Jobs
  <2> DEFINE at == [pc EXCEPT ![th] = IF dispatch[Of(th)].left = 1 THEN "claim" ELSE "help"]
  <2>4. /\ at \in [Threads -> Places \cup Tasks] /\ \A u \in Threads \ {th} : at[u] = pc[u]
        /\ at[th] \in {"help", "claim"}
    BY <1>1 DEF Places
  <2> HIDE DEF at
  <2>5. Enqueue(HelpJob(Of(th)), at) /\ pc[th] = "help" /\ job' = job
    BY <1>7 DEF SubmitHelper, at
  <2>6. \A w \in Threads : pc'[w] = at[w] \/ pc'[w] = "loop"
    BY <1>1, <2>4, <2>5, Notified DEF Sleepers
  <2> QED
    BY <1>1, <2>3, <2>4, <2>5, <2>6
<1>8. ASSUME Settling
      PROVE  LeftAlone(t)
  BY <1>8 DEF Settling, Queued
<1> QED
  BY <1>3, <1>4, <1>5, <1>6, <1>7, <1>8, <1>0, QueueSteps

\* Once begun, a RunParallel never begins again.
LEMMA BegunStays ==
  ASSUME CallInv, Next, NEW d \in Tasks \cup {Main}, Begun(d)
  PROVE  Begun(d)'
<1>1. CASE d # Main
  <2>1. submitted \subseteq submitted'
    BY QueueSteps DEF CallInv, Take, Count, Submit, SubmitEach, SubmitHelper, Settling, taskVars
  <2>2. d \in submitted /\ d \in Tasks /\ ~Queued(d) /\ \A w \in Workers : job[w] = TaskJob(d) => pc[w] # "run"
    BY <1>1 DEF Begun
  <2>3. ~Queued(d)' /\ \A w \in Workers : job'[w] = TaskJob(d) => pc'[w] # "run"
    BY <2>2, NotQueued DEF LeftAlone
  <2> QED
    BY <1>1, <2>1, <2>2, <2>3 DEF Begun
<1>2. CASE d = Main
  <2>1. Main \in Callers /\ Main \in Threads /\ Of(Main) = Main
    BY WorkersFacts DEF Callers, Of
  <2>2. CASE dispatch[Main].returned
    BY <1>2, <2>1, <2>2, TypesStep DEF Begun
  <2>3. CASE pc[Main] \in Calling /\ \A th \in Threads : Acts(th) => th # Main
    <3>1. Kept(Main)
      BY <2>1, <2>3, Looking, Acting
    <3> QED
      BY <1>2, <2>3, <3>1 DEF Kept, Begun
  <2>4. CASE pc[Main] \in Calling /\ Acts(Main)
    <3>1. Participate(Main)
      BY <2>4, WorkersFacts DEF Acts, BeginParallel, Calling, Inside
    <3>2. CASE EndParallel(Main)
      BY <1>2, <2>1, <3>2, CallEffects DEF CallInv, Becomes, Begun
    <3>3. CASE SubmitHelper(Main)
      BY <1>2, <2>1, <2>4, <3>3, Acting DEF Begun, Calling, Inside
    <3>4. CASE Claim(Main) \/ Body(Main) \/ Leave(Main)
      <4>1. pc \in [Threads -> Places \cup Tasks]
        BY DEF CallInv, PoolInv, Shape
      <4>2. \E to \in Calling : pc' = [pc EXCEPT ![Main] = to]
        BY <3>4 DEF Claim, Body, Leave, Goes, IsCaller, Calling, Inside
      <4> QED
        BY <1>2, <2>1, <4>1, <4>2 DEF Begun
    <3> QED
      BY <3>1, <3>2, <3>3, <3>4 DEF Participate
  <2> QED
    BY <1>2, <2>1, <2>2, <2>3, <2>4 DEF Begun
<1> QED
  BY <1>1, <1>2

\* A helper is submitted by the caller itself, which is then past its beginning.
LEMMA HelpAfterStep ==
  ASSUME CallInv, Next
  PROVE  HelpAfter'
<1> SUFFICES ASSUME NEW d \in Tasks \cup {Main}, Copies(HelpJob(d))' # 0
             PROVE  d \in Callers /\ Begun(d)'
  BY DEF HelpAfter
<1>1. PoolInv /\ HelpJob(d) \in Job
  BY Jobs DEF CallInv
<1>2. Copies(HelpJob(d)) \in Nat
  BY <1>1, CopiesType
<1>3. CASE Copies(HelpJob(d)) # 0
  BY <1>3, BegunStays DEF CallInv, HelpAfter
<1>4. ASSUME NEW th \in Threads, SubmitHelper(th), Of(th) = d
      PROVE  d \in Callers /\ Begun(d)'
  <2>1. pc[th] = "help"
    BY <1>4 DEF SubmitHelper
  <2>2. /\ d \in Callers /\ IsCaller(th)
        /\ th # Main => d \in Tasks /\ job[th] = TaskJob(d)
    BY <1>4, <2>1, OfType DEF Calling, Inside
  <2>3. CASE th = Main
    BY <1>4, <2>1, <2>2, <2>3, BegunStays DEF Begun, Of, Calling, Inside
  <2>4. CASE th # Main
    <3>1. th \in Workers /\ TaskJob(d) \in Job /\ Copies(TaskJob(d)) \in Nat
      BY <1>1, <2>2, <2>4, Jobs, CopiesType DEF Threads
    <3>2. Copies(TaskJob(d)) # 0
      BY <1>1, <2>2, <2>4, <3>1, CopiesType DEF Copies
    <3>3. d \in submitted /\ Copies(TaskJob(d)) <= 1
      BY <2>2, <2>4, <3>1, <3>2 DEF CallInv, Once
    <3>4. /\ Count1(queue, TaskJob(d)) = 0
          /\ \A v \in Workers : job[v] = TaskJob(d) => v = th
      BY <1>1, <2>2, <2>4, <3>1, <3>3, OneHolder
    <3>5. ~Queued(d)
      BY <1>1, <3>1, <3>4, CopiesType DEF Queued
    <3>6. d # Main
      BY <2>2, <2>4, PoolAssumption
    <3>7. Begun(d)
      BY <2>1, <3>3, <3>4, <3>5, <3>6 DEF Begun
    <3> QED
      BY <2>2, <3>7, BegunStays
  <2> QED
    BY <2>3, <2>4
<1>5. ASSUME NEW w \in Workers, Take(w)
      PROVE  Copies(HelpJob(d))' = Copies(HelpJob(d))
  BY <1>1, <1>5, TakeCopies
<1>6. ASSUME NEW w \in Workers, Count(w)
      PROVE  Copies(HelpJob(d)) # 0
  <2>1. Copies(HelpJob(d))' = Copies(HelpJob(d)) - (IF job[w] = HelpJob(d) THEN 1 ELSE 0)
    BY <1>1, <1>6, CountCopies
  <2>2. job[w] = HelpJob(d) => Copies(HelpJob(d)) # 0
    BY <1>1, <1>2, CopiesType DEF Copies
  <2> QED
    BY <1>2, <2>1, <2>2
<1>7. ASSUME NEW u \in Tasks, Submit(u)
      PROVE  Copies(HelpJob(d))' = Copies(HelpJob(d))
  <2>1. Copies(HelpJob(d))' = Copies(HelpJob(d)) + (IF TaskJob(u) = HelpJob(d) THEN 1 ELSE 0)
    BY <1>1, <1>7, Jobs, EnqueueCopies DEF Submit
  <2> QED
    BY <1>2, <2>1, Jobs
<1>8. ASSUME SubmitEach
      PROVE  Copies(HelpJob(d))' = Copies(HelpJob(d))
  <2>1. Copies(HelpJob(d))' = Copies(HelpJob(d)) + (IF EachJob = HelpJob(d) THEN 1 ELSE 0)
    BY <1>1, <1>8, Jobs, EnqueueCopies DEF SubmitEach
  <2> QED
    BY <1>2, <2>1, Jobs
<1>9. ASSUME NEW th \in Threads, SubmitHelper(th), Of(th) # d
      PROVE  Copies(HelpJob(d))' = Copies(HelpJob(d))
  <2>1. Of(th) \in Tasks \cup {Main}
    BY <1>9, OfType DEF SubmitHelper, Calling, Inside
  <2>2. Copies(HelpJob(d))' = Copies(HelpJob(d)) + (IF HelpJob(Of(th)) = HelpJob(d) THEN 1 ELSE 0)
    BY <1>1, <1>9, <2>1, Jobs, EnqueueCopies DEF SubmitHelper
  <2> QED
    BY <1>2, <1>9, <2>1, <2>2, Jobs
<1>10. ASSUME Settling
       PROVE  Copies(HelpJob(d))' = Copies(HelpJob(d))
  BY <1>10 DEF Settling, Copies, Holders, Count1
<1> QED
  BY <1>1, <1>3, <1>4, <1>5, <1>6, <1>7, <1>8, <1>9, <1>10, QueueSteps

\* Only Arrive brings a worker to the barrier.
LEMMA Barred ==
  ASSUME CallInv, Next, NEW w \in Workers, pc'[w] = "barrier"
  PROVE  (pc[w] = "barrier" /\ job'[w] = job[w]) \/ Arrive(w)
<1>1. /\ pc \in [Threads -> Places \cup Tasks] /\ job \in [Workers -> Job \cup {NoJob}]
      /\ Main \in Threads /\ Main \notin Workers /\ \A u \in Workers : u \in Threads
  BY WorkersFacts DEF CallInv, PoolInv, Shape
<1>2. ASSUME NEW th \in Threads, Acts(th)
      PROVE  pc[w] = "barrier" /\ job'[w] = job[w]
  <2>1. pc'[th] # "barrier"
    <3>1. CASE SubmitHelper(th)
      BY <1>2, <3>1, Acting
    <3>2. CASE ~SubmitHelper(th)
      <4>1. \E to : to # "barrier" /\ pc' = [pc EXCEPT ![th] = to]
        BY <1>2, <3>2 DEF Acts, Participate, BeginParallel, Register, Claim, Body, Leave, EndParallel, Goes
      <4> QED
        BY <1>1, <4>1
    <3> QED
      BY <3>1, <3>2
  <2> QED
    BY <1>1, <1>2, <2>1, Acting DEF Undisturbed
<1>3. ASSUME NEW v \in Workers, Take(v) \/ Count(v)
      PROVE  pc[w] = "barrier" /\ job'[w] = job[w]
  BY <1>1, <1>3 DEF Take, Count, Goes
<1>4. ASSUME NEW v \in Workers, Sleep(v) \/ RunPlain(v) \/ Finish(v) \/ PassBarrier(v)
      PROVE  pc[w] = "barrier" /\ job'[w] = job[w]
  <2>1. (\E to : to # "barrier" /\ pc' = [pc EXCEPT ![v] = to]) /\ job' = job
    BY <1>4 DEF Sleep, RunPlain, Finish, PassBarrier, Goes, poolVars
  <2> QED
    BY <1>1, <2>1
<1>5. ASSUME NEW v \in Workers, Arrive(v), v # w
      PROVE  pc[w] = "barrier" /\ job'[w] = job[w]
  BY <1>1, <1>5 DEF Arrive, Goes, poolVars
<1>6. ASSUME GoOn \/ Call, ~Acts(Main)
      PROVE  pc[w] = "barrier" /\ job'[w] = job[w]
  BY <1>6, Owned DEF Undisturbed
<1> QED
  BY <1>1, <1>2, <1>3, <1>4, <1>5, <1>6 DEF Next, Work, Acts

\* A worker goes on with what its job is.
LEMMA RolesStep ==
  ASSUME CallInv, Next
  PROVE  Roles'
<1> SUFFICES ASSUME NEW w \in Workers
             PROVE  Role(job'[w], pc'[w])
  BY DEF Roles
<1>1. /\ pc \in [Threads -> Places \cup Tasks] /\ job \in [Workers -> Job \cup {NoJob}]
      /\ w \in Threads /\ w # Main /\ Role(job[w], pc[w])
  BY WorkersFacts DEF CallInv, PoolInv, Shape, Roles
<1>2. pc'[w] = "barrier" => job'[w] = EachJob
  <2>1. ASSUME Arrive(w) PROVE job'[w] = EachJob
    BY <1>1, <2>1 DEF Arrive, poolVars, Job, NoJob, EachJob
  <2> QED
    BY <1>1, <2>1, Barred DEF Role
<1>3. CASE Acts(w)
  <2>1. Of(w) = job[w].of /\ Of(w) \in Callers /\ job' = job
    BY <1>1, <1>3, OfCaller, Acting DEF Acts, Of
  <2>2. CASE SubmitHelper(w)
    <3>1. pc[w] = "help" /\ pc'[w] \in {"help", "claim"}
      BY <1>1, <1>3, <2>2, Acting DEF SubmitHelper
    <3> QED
      BY <1>1, <2>1, <3>1 DEF Role, Inside, Callers
  <2>3. CASE BeginParallel(w)
    BY <1>1, <2>1, <2>3 DEF BeginParallel, Goes, Role, Inside
  <2>4. CASE Register(w)
    BY <1>1, <2>1, <2>4 DEF Register, Goes, Role, Inside
  <2>5. CASE Claim(w) \/ Body(w)
    <3>1. pc[w] \in {"claim", "body"} /\ \E to \in {"claim", "body", "leave"} : pc' = [pc EXCEPT ![w] = to]
      BY <2>5 DEF Claim, Body, Goes
    <3> QED
      BY <1>1, <2>1, <3>1 DEF Role, Inside
  <2>6. CASE Leave(w)
    <3>1. /\ pc[w] = "leave" /\ pc'[w] = (IF job[w].kind = "task" THEN "await" ELSE "finish")
      BY <1>1, <2>6 DEF Leave, Goes, IsCaller
    <3>2. job[w].kind = "task" => job[w].of \in Tasks
      BY <1>1 DEF Job, NoJob, EachJob
    <3>3. job[w].kind = "task" => job[w].of \in Nested
      BY <2>1, <3>2, PoolAssumption DEF Callers
    <3> QED
      BY <2>1, <3>1, <3>3 DEF Role, Inside
  <2>7. CASE EndParallel(w)
    BY <1>1, <2>7 DEF EndParallel, Goes, Role, Inside
  <2> QED
    BY <1>3, <2>2, <2>3, <2>4, <2>5, <2>6, <2>7 DEF Acts, Participate
<1>4. CASE ~Acts(w)
  <2>1. Kept(w)
    BY <1>1, <1>4, Looking, Acting
  <2> QED
    BY <1>1, <1>2, <2>1 DEF Kept, Role, Calling, Inside
<1> QED
  BY <1>3, <1>4

\* The types are kept.
LEMMA TypesKept ==
  ASSUME CallInv, Next
  PROVE  CallTypes'
<1>1. /\ part \in [Threads -> Nat] /\ dispatch \in [Callers -> Dispatch]
      /\ each \in [left : Int, arrived : Nat, served : SUBSET (Workers \X Nat), finished : Int]
      /\ Main \in Threads /\ \A w \in Workers : w \in Threads
  BY WorkersFacts DEF CallInv, CallTypes
<1>2. dispatch' \in [Callers -> Dispatch]
  BY TypesStep
<1>3. ASSUME NEW th \in Threads, Acts(th)
      PROVE  part' \in [Threads -> Nat] /\ each' = each
  <2>1. part' = part \/ part' = [part EXCEPT ![th] = dispatch[Of(th)].cursor] \/ part' = [part EXCEPT ![th] = 0]
    BY <1>3 DEF Acts, Participate, BeginParallel, SubmitHelper, Register, Claim, Body, Leave, EndParallel
  <2>2. dispatch[Of(th)].cursor \in Nat
    BY <1>1, <1>3, OfCaller DEF Acts, Dispatch
  <2> QED
    BY <1>1, <1>3, <2>1, <2>2, Acting
<1>4. ASSUME NEW w \in Workers, Arrive(w) \/ PassBarrier(w)
      PROVE  CallTypes'
  <2>1. CASE Arrive(w)
    <3>1. each' = [each EXCEPT !.arrived = @ + 1] /\ part' = [part EXCEPT ![w] = each.arrived]
      BY <2>1 DEF Arrive
    <3> QED
      BY <1>1, <1>2, <3>1 DEF CallTypes
  <2>2. CASE PassBarrier(w)
    <3>1. each' = [each EXCEPT !.served = @ \cup {<<w, part[w]>>}] /\ part' = [part EXCEPT ![w] = 0]
      BY <2>2 DEF PassBarrier
    <3> QED
      BY <1>1, <1>2, <3>1 DEF CallTypes
  <2> QED
    BY <1>4, <2>1, <2>2
<1>5. ASSUME NEW w \in Workers, Take(w) \/ Sleep(w) \/ RunPlain(w) \/ Count(w)
      PROVE  part' = part /\ each' = each
  BY <1>5 DEF Take, Sleep, RunPlain, Count, callVars
<1>6. ASSUME NEW w \in Workers, Finish(w)
      PROVE  CallTypes'
  <2>1. part' = part /\ (each' = [each EXCEPT !.finished = @ + 1] \/ each' = each)
    BY <1>6 DEF Finish
  <2> QED
    BY <1>1, <1>2, <2>1 DEF CallTypes
<1>7. ASSUME GoOn \/ Call, ~Participate(Main), ~BeginParallel(Main)
      PROVE  part' = part /\ (each' = [each EXCEPT !.left = @ - 1] \/ each' = each)
  BY <1>7 DEF GoOn, Call, SubmitEach, EndEach, GetReturns, RunContinuation, WaitReturns, Joined,
              Submit, Then, Get, PumpMainThread, WaitForAll, Stop, callVars
<1>8. ASSUME part' \in [Threads -> Nat], each' = [each EXCEPT !.left = @ - 1] \/ each' = each
      PROVE  CallTypes'
  BY <1>1, <1>2, <1>8 DEF CallTypes
<1> QED
  BY <1>1, <1>3, <1>4, <1>5, <1>6, <1>7, <1>8 DEF Next, Work, Acts

\* No copy of any job, to begin with.
LEMMA CallStarts == Init => CallInv
<1> SUFFICES ASSUME Init PROVE CallInv
  OBVIOUS
<1>1. PoolInv
  BY Starting
<1>2. CallTypes
  <2>1. Helpers \in Int
    BY PoolAssumption DEF Helpers
  <2>2. dispatch = [d \in Callers |-> [left |-> Helpers, cursor |-> 0, members |-> 0,
                                       covered |-> [r \in Split |-> 0], returned |-> FALSE]]
    BY DEF Init, Split
  <2>3. dispatch \in [Callers -> Dispatch]
    BY <2>1, <2>2 DEF Dispatch
  <2>4. /\ part = [th \in Threads |-> 0]
        /\ each = [left |-> WorkerCount, arrived |-> 0, served |-> {}, finished |-> 0]
    BY DEF Init
  <2> QED
    BY <2>3, <2>4, PoolAssumption DEF CallTypes
<1>3. \A j \in Job : Copies(j) = 0
  <2> SUFFICES ASSUME NEW j \in Job PROVE Copies(j) = 0
    OBVIOUS
  <2>1. Count1(queue, j) = 0
    BY CountEmpty DEF Init
  <2>2. \A w \in Workers : job[w] # j
    BY Jobs DEF Init
  <2> QED
    BY <1>1, <2>1, <2>2, CopiesType DEF Copies
<1>4. Once /\ HelpAfter
  BY <1>3, Jobs DEF Once, HelpAfter
<1>5. Roles
  BY WorkersFacts DEF Init, Roles, Role, Inside
<1> QED
  BY <1>1, <1>2, <1>4, <1>5 DEF CallInv

\* Who is in which RunParallel, and that a helper never comes before it has begun, stays true.
LEMMA CallStep == CallInv /\ [Next]_vars => CallInv'
<1>1. ASSUME CallInv, Next PROVE CallInv'
  BY <1>1, Stepping, TypesKept, OnceStep, HelpAfterStep, RolesStep DEF CallInv
<1>2. ASSUME CallInv, UNCHANGED vars PROVE CallInv'
  <2>1. PoolInv'
    BY <1>2, Stepping DEF CallInv
  <2>2. CallTypes' /\ Roles' /\ Once' /\ HelpAfter'
    BY <1>2 DEF vars, CallInv, CallTypes, Roles, Once, HelpAfter, Copies, Holders, Count1, Begun, Queued
  <2> QED
    BY <2>1, <2>2 DEF CallInv
<1> QED
  BY <1>1, <1>2

-----------------------------------------------------------------------------
(* The claim-state of one RunParallel *)

In(d) == {th \in Threads : Of(th) = d /\ pc[th] \in Inside}
InBody(th, d) == Of(th) = d /\ pc[th] = "body"

\* members counts those that are in it.
Membered(d) == dispatch[d].members = Cardinality(In(d))
\* Every range below the cursor has run once, or is in one thread's hands.
Covered(d) == \A r \in Split :
  dispatch[d].covered[r] = IF /\ r < dispatch[d].cursor
                              /\ \A th \in Threads : InBody(th, d) => part[th] # r
                           THEN 1 ELSE 0
Claimed(d) == /\ \A th \in Threads : InBody(th, d) => part[th] \in Split /\ part[th] < dispatch[d].cursor
              /\ \A th, uh \in Threads :
                   InBody(th, d) /\ InBody(uh, d) /\ part[th] = part[uh] => th = uh
\* Nobody leaves before the ranges are used up, and the caller returns after everybody has left.
Late(d) == /\ \A th \in Threads : Of(th) = d /\ pc[th] \in {"leave", "await"} => Exhausted(d)
           /\ dispatch[d].returned => Exhausted(d) /\ \A th \in Threads : ~InBody(th, d)
Claims(d) == Membered(d) /\ Covered(d) /\ Claimed(d) /\ Late(d)

ClaimInv == CallInv /\ \A d \in Callers : Claims(d)

\* There are finitely many threads.
LEMMA InFacts ==
  ASSUME NEW S \in SUBSET Threads
  PROVE  IsFiniteSet(S)
<1>1. IsFiniteSet(Workers) /\ IsFiniteSet({Main})
  BY WorkersFacts, FS_Singleton
<1>2. IsFiniteSet(Threads)
  BY <1>1, FS_Union DEF Threads
<1> QED
  BY <1>2, FS_Subset

\* A thread's part in d's RunParallel does not change.
Steady(u, d) ==
  /\ Of(u) = d /\ pc[u] \in Calling <=> Of(u)' = d /\ pc'[u] \in Calling
  /\ Of(u) = d /\ pc[u] \in Calling => pc'[u] = pc[u] /\ part'[u] = part[u]

\* ... so that it stays in it, or in the body, or past the ranges, or outside.
LEMMA SteadyParts ==
  ASSUME NEW u \in Threads, NEW d, Steady(u, d)
  PROVE  /\ u \in In(d) <=> u \in In(d)'
         /\ InBody(u, d) <=> InBody(u, d)'
         /\ InBody(u, d) => part'[u] = part[u]
         /\ Of(u) = d /\ pc[u] \in {"leave", "await"} <=> Of(u)' = d /\ pc'[u] \in {"leave", "await"}
BY DEF Steady, In, InBody, Calling, Inside

\* A step that changes neither the claim-state nor any part in it.
LEMMA ClaimsUntouched ==
  ASSUME NEW d \in Callers, Claims(d), dispatch'[d] = dispatch[d], \A u \in Threads : Steady(u, d)
  PROVE  Claims(d)'
<1>1. In(d)' = In(d)
  BY SteadyParts DEF In
<1>2. Membered(d)'
  BY <1>1 DEF Claims, Membered
<1>3. /\ \A u \in Threads : InBody(u, d)' <=> InBody(u, d)
      /\ \A u \in Threads : InBody(u, d) => part'[u] = part[u]
  BY SteadyParts
<1>4. Covered(d)'
  BY <1>3 DEF Claims, Covered
<1>5. Claimed(d)'
  BY <1>3 DEF Claims, Claimed
<1>6. Late(d)'
  BY <1>3, SteadyParts DEF Claims, Late, Exhausted
<1> QED
  BY <1>2, <1>4, <1>5, <1>6 DEF Claims

\* When a RunParallel begins, nobody is in it.
LEMMA Fresh ==
  ASSUME CallInv, NEW th \in Threads, BeginParallel(th)
  PROVE  In(Of(th)) = {}
<1> DEFINE d == Of(th)
<1> SUFFICES ASSUME NEW u \in Threads, Of(u) = d, pc[u] \in Inside PROVE FALSE
  BY DEF In
<1>1. /\ PoolInv /\ pc[u] \in Calling /\ Main \notin Tasks
      /\ pc[th] \notin Inside /\ u # th
  BY PoolAssumption DEF CallInv, Calling, Inside, BeginParallel
<1>2. CASE th = Main
  <2>1. d = Main /\ u # Main /\ ~Begun(Main)
    BY <1>1, <1>2 DEF BeginParallel, Begun, Of, Calling, Inside
  <2>2. u \in Workers /\ job[u] = HelpJob(Main)
    BY <1>1, <2>1, OfType DEF Threads
  <2>3. Copies(HelpJob(Main)) # 0
    BY <1>1, <2>2, Jobs, CopiesType DEF Copies
  <2> QED
    BY <2>1, <2>3 DEF CallInv, HelpAfter
<1>3. CASE th # Main
  <2>1. /\ th \in Workers /\ pc[th] = "run" /\ d = job[th].of /\ job[th].kind = "task"
        /\ job[th] \in Job \cup {NoJob}
    BY <1>3 DEF BeginParallel, Of, Threads, CallInv, PoolInv, Shape
  <2>2. d \in Tasks /\ d # Main /\ job[th] = TaskJob(d)
    BY <1>1, <2>1 DEF Job, NoJob, EachJob, TaskJob
  <2>3. u # Main /\ u \in Workers
    BY <2>2 DEF Of, Threads
  <2>4. TaskJob(d) \in Job /\ Copies(TaskJob(d)) <= 1
    <3>1. Copies(TaskJob(d)) <= (IF d \in submitted THEN 1 ELSE 0) /\ Copies(TaskJob(d)) \in Nat
      BY <1>1, <2>2, Jobs, CopiesType DEF CallInv, Once
    <3> QED
      BY <2>2, <3>1, Jobs
  <2>5. CASE job[u] = TaskJob(d)
    BY <1>1, <2>1, <2>2, <2>3, <2>4, <2>5, OneHolder
  <2>6. CASE job[u] # TaskJob(d)
    <3>1. job[u] = HelpJob(d)
      BY <1>1, <2>3, <2>6, OfType
    <3>2. Copies(HelpJob(d)) # 0
      BY <1>1, <2>2, <2>3, <3>1, Jobs, CopiesType DEF Copies
    <3>3. Begun(d)
      BY <2>2, <3>2 DEF CallInv, HelpAfter
    <3> QED
      BY <2>1, <2>2, <3>3 DEF Begun
  <2> QED
    BY <2>5, <2>6
<1> QED
  BY <1>2, <1>3

\* What there is to know before a step of th in d's RunParallel.
LEMMA Before ==
  ASSUME ClaimInv, NEW th \in Threads, Acts(th), NEW d, Of(th) = d
  PROVE  /\ CallInv /\ CallTypes /\ d \in Callers /\ Claims(d) /\ Of(th)' = d
         /\ dispatch[d] \in Dispatch /\ pc \in [Threads -> Places \cup Tasks]
         /\ part \in [Threads -> Nat]
         /\ \A u \in Threads \ {th} : \A e : Steady(u, e)
         /\ \A u \in Threads \ {th} : part'[u] = part[u]
         /\ Ranges \in Nat
<1>1. CallInv /\ CallTypes /\ dispatch \in [Callers -> Dispatch]
  BY DEF ClaimInv, CallInv, CallTypes
<1>2. Of(th) \in Callers
  BY <1>1, OfCaller DEF Acts
<1>3. job' = job /\ \A u \in Threads \ {th} : Kept(u) /\ part'[u] = part[u]
  BY <1>1, Acting
<1>4. \A u \in Threads \ {th} : \A e : Steady(u, e)
  BY <1>3 DEF Kept, Steady
<1>5. Of(th)' = Of(th)
  BY <1>3 DEF Of
<1> QED
  BY <1>1, <1>2, <1>3, <1>4, <1>5, PoolAssumption DEF ClaimInv, CallInv, PoolInv, Shape, CallTypes

\* The six steps of a RunParallel, and what each does to its claim-state.
LEMMA ClaimsBegin ==
  ASSUME ClaimInv, NEW th \in Threads, BeginParallel(th), NEW d, Of(th) = d
  PROVE  Claims(d)'
<1>1. Acts(th)
  BY DEF Acts
<1>2. /\ CallInv /\ CallTypes /\ d \in Callers /\ Claims(d) /\ Of(th)' = d
      /\ \A u \in Threads \ {th} : Steady(u, d)
  BY <1>1, Before
<1>3. /\ Becomes(d, dispatch[d].left, dispatch[d].cursor, 1, dispatch[d].covered, dispatch[d].returned)
      /\ pc[th] \notin Calling /\ pc'[th] = "help"
  <2>1. pc[th] \notin Calling /\ pc' = [pc EXCEPT ![th] = "help"]
    BY DEF BeginParallel, Goes, Calling, Inside
  <2> QED
    BY <1>1, <1>2, <2>1, CallEffects, Before
<1>4. In(d) = {}
  BY <1>2, Fresh
<1>5. In(d)' = {th}
  <2>1. th \in In(d)'
    BY <1>2, <1>3 DEF In, Inside
  <2>2. \A u \in Threads \ {th} : u \notin In(d)'
    BY <1>2, <1>4, SteadyParts
  <2>3. In(d)' \subseteq Threads
    BY DEF In
  <2> QED
    BY <2>1, <2>2, <2>3
<1>6. Membered(d)'
  BY <1>3, <1>5, FS_Singleton DEF Membered, Becomes
<1>7. /\ \A u \in Threads : InBody(u, d)' <=> InBody(u, d)
      /\ \A u \in Threads : InBody(u, d) => part'[u] = part[u]
      /\ \A u \in Threads : (Of(u)' = d /\ pc'[u] \in {"leave", "await"}) => Of(u) = d /\ pc[u] \in {"leave", "await"}
  BY <1>2, <1>3, SteadyParts DEF InBody, Calling, Inside
<1>8. Covered(d)' /\ Claimed(d)' /\ Late(d)'
  BY <1>2, <1>3, <1>7 DEF Claims, Covered, Claimed, Late, Exhausted, Becomes
<1> QED
  BY <1>6, <1>8 DEF Claims

\* A helper more is queued; nobody has come or gone.
LEMMA ClaimsHelp ==
  ASSUME ClaimInv, NEW th \in Threads, SubmitHelper(th), NEW d, Of(th) = d
  PROVE  Claims(d)'
<1>1. Acts(th)
  BY DEF Acts, Participate
<1>2. /\ CallInv /\ CallTypes /\ d \in Callers /\ Claims(d) /\ Of(th)' = d
      /\ \A u \in Threads \ {th} : Steady(u, d)
  BY <1>1, Before
<1>3. /\ Becomes(d, dispatch[d].left - 1, dispatch[d].cursor, dispatch[d].members, dispatch[d].covered,
                 dispatch[d].returned)
      /\ pc[th] = "help" /\ pc'[th] \in {"help", "claim"}
  BY <1>1, <1>2, CallEffects, Acting DEF SubmitHelper
<1>5. In(d)' = In(d)
  BY <1>2, <1>3, SteadyParts DEF In, Inside
<1>6. /\ \A u \in Threads : InBody(u, d)' <=> InBody(u, d)
      /\ \A u \in Threads : InBody(u, d) => part'[u] = part[u]
      /\ \A u \in Threads : (Of(u)' = d /\ pc'[u] \in {"leave", "await"}) => Of(u) = d /\ pc[u] \in {"leave", "await"}
  BY <1>2, <1>3, SteadyParts DEF InBody
<1>7. Membered(d)' /\ Covered(d)' /\ Claimed(d)' /\ Late(d)'
  BY <1>2, <1>3, <1>5, <1>6 DEF Claims, Membered, Covered, Claimed, Late, Exhausted, Becomes
<1> QED
  BY <1>7 DEF Claims

\* A helper comes in.
LEMMA ClaimsRegister ==
  ASSUME ClaimInv, NEW th \in Workers, Register(th), NEW d, Of(th) = d
  PROVE  Claims(d)'
<1>1. Acts(th) /\ th \in Threads
  BY WorkersFacts DEF Acts
<1>2. /\ CallInv /\ CallTypes /\ d \in Callers /\ Claims(d) /\ Of(th)' = d
      /\ \A u \in Threads \ {th} : Steady(u, d)
      /\ dispatch[d] \in Dispatch
  BY <1>1, Before
<1>3. /\ Becomes(d, dispatch[d].left, dispatch[d].cursor, dispatch[d].members + 1, dispatch[d].covered,
                 dispatch[d].returned)
      /\ pc[th] = "run" /\ pc'[th] = "claim"
  <2>1. pc[th] = "run" /\ pc' = [pc EXCEPT ![th] = "claim"]
    BY DEF Register, Goes
  <2> QED
    BY <1>1, <1>2, <2>1, CallEffects, Before
<1>5. In(d)' = In(d) \cup {th} /\ th \notin In(d)
  BY <1>1, <1>2, <1>3, SteadyParts DEF In, Inside
<1>6. Cardinality(In(d)') = Cardinality(In(d)) + 1
  <2>1. IsFiniteSet(In(d))
    BY InFacts DEF In
  <2> QED
    BY <1>5, <2>1, FS_AddElement
<1>7. Membered(d)'
  <2>1. Membered(d)' <=> dispatch'[d].members = Cardinality(In(d)')
    BY DEF Membered
  <2> QED
    BY <1>2, <1>3, <1>6, <2>1 DEF Claims, Membered, Becomes
<1>8. /\ \A u \in Threads : InBody(u, d)' <=> InBody(u, d)
      /\ \A u \in Threads : InBody(u, d) => part'[u] = part[u]
      /\ \A u \in Threads : (Of(u)' = d /\ pc'[u] \in {"leave", "await"}) => Of(u) = d /\ pc[u] \in {"leave", "await"}
  BY <1>2, <1>3, SteadyParts DEF InBody
<1>9. Covered(d)' /\ Claimed(d)' /\ Late(d)'
  BY <1>2, <1>3, <1>8 DEF Claims, Covered, Claimed, Late, Exhausted, Becomes
<1> QED
  BY <1>7, <1>9 DEF Claims

\* A thread leaves, and the ranges are used up.
LEMMA ClaimsLeave ==
  ASSUME ClaimInv, NEW th \in Threads, Leave(th), NEW d, Of(th) = d
  PROVE  Claims(d)'
<1>1. Acts(th)
  BY DEF Acts, Participate
<1>2. /\ CallInv /\ CallTypes /\ d \in Callers /\ Claims(d) /\ Of(th)' = d
      /\ \A u \in Threads \ {th} : Steady(u, d)
      /\ dispatch[d] \in Dispatch
  BY <1>1, Before
<1>3. /\ Becomes(d, dispatch[d].left, dispatch[d].cursor, dispatch[d].members - 1, dispatch[d].covered,
                 dispatch[d].returned)
      /\ pc[th] = "leave" /\ pc'[th] \in {"await", "finish"}
  <2>1. pc[th] = "leave" /\ pc' = [pc EXCEPT ![th] = IF IsCaller(th) THEN "await" ELSE "finish"]
    BY DEF Leave, Goes
  <2> QED
    BY <1>1, <1>2, <2>1, CallEffects, Before
<1>5. In(d)' = In(d) \ {th} /\ th \in In(d)
  BY <1>1, <1>2, <1>3, SteadyParts DEF In, Inside
<1>6. Cardinality(In(d)') = Cardinality(In(d)) - 1
  <2>1. IsFiniteSet(In(d))
    BY InFacts DEF In
  <2> QED
    BY <1>5, <2>1, FS_RemoveElement
<1>7. Membered(d)'
  <2>1. Membered(d)' <=> dispatch'[d].members = Cardinality(In(d)')
    BY DEF Membered
  <2> QED
    BY <1>2, <1>3, <1>6, <2>1 DEF Claims, Membered, Becomes
<1>8. /\ \A u \in Threads : InBody(u, d)' <=> InBody(u, d)
      /\ \A u \in Threads : InBody(u, d) => part'[u] = part[u]
      /\ \A u \in Threads : (Of(u)' = d /\ pc'[u] \in {"leave", "await"}) => Of(u) = d /\ pc[u] \in {"leave", "await"}
  BY <1>2, <1>3, SteadyParts DEF InBody
<1>9. Covered(d)' /\ Claimed(d)' /\ Late(d)'
  BY <1>2, <1>3, <1>8 DEF Claims, Covered, Claimed, Late, Exhausted, Becomes
<1> QED
  BY <1>7, <1>9 DEF Claims

\* The caller returns, and nobody is left.
LEMMA ClaimsEnd ==
  ASSUME ClaimInv, NEW th \in Threads, EndParallel(th), NEW d, Of(th) = d
  PROVE  Claims(d)'
<1>1. Acts(th)
  BY DEF Acts, Participate
<1>2. /\ CallInv /\ CallTypes /\ d \in Callers /\ Claims(d) /\ Of(th)' = d
      /\ \A u \in Threads \ {th} : Steady(u, d)
  BY <1>1, Before
<1>3. /\ Becomes(d, dispatch[d].left, dispatch[d].cursor, dispatch[d].members, dispatch[d].covered, TRUE)
      /\ pc[th] = "await" /\ pc'[th] \in {"main", "finish"} /\ dispatch[d].members = 0
  <2>1. /\ pc[th] = "await" /\ pc' = [pc EXCEPT ![th] = IF th = Main THEN "main" ELSE "finish"]
        /\ dispatch[d].members = 0
    BY DEF EndParallel, Goes, Drained
  <2> QED
    BY <1>1, <1>2, <2>1, CallEffects, Before
<1>5. In(d)' = In(d)
  BY <1>1, <1>2, <1>3, SteadyParts DEF In, Inside
<1>6. In(d) = {}
  <2>1. IsFiniteSet(In(d))
    BY InFacts DEF In
  <2> QED
    BY <1>2, <1>3, <2>1, FS_EmptySet DEF Claims, Membered
<1>7. \A u \in Threads : ~InBody(u, d) /\ ~InBody(u, d)'
  BY <1>5, <1>6 DEF In, InBody, Inside
<1>8. Exhausted(d)
  BY <1>2, <1>3 DEF Claims, Late
<1>9. Membered(d)' /\ Covered(d)' /\ Claimed(d)' /\ Late(d)'
  BY <1>2, <1>3, <1>5, <1>7, <1>8 DEF Claims, Membered, Covered, Claimed, Late, Exhausted, Becomes
<1> QED
  BY <1>9 DEF Claims

\* A claim: the next range, for this thread alone, or none is left.
LEMMA ClaimsClaim ==
  ASSUME ClaimInv, NEW th \in Threads, Claim(th), NEW d, Of(th) = d
  PROVE  Claims(d)'
<1>1. Acts(th)
  BY DEF Acts, Participate
<1>2. /\ CallInv /\ CallTypes /\ d \in Callers /\ Claims(d) /\ Of(th)' = d
      /\ \A u \in Threads \ {th} : Steady(u, d)
      /\ dispatch[d].cursor \in Nat /\ Ranges \in Nat
      /\ part \in [Threads -> Nat] /\ pc \in [Threads -> Places \cup Tasks]
  BY <1>1, Before DEF Dispatch
<1>3. /\ Becomes(d, dispatch[d].left, dispatch[d].cursor + 1, dispatch[d].members, dispatch[d].covered,
                 dispatch[d].returned)
      /\ pc[th] = "claim"
  BY <1>1, <1>2, CallEffects DEF Claim
<1>4. /\ dispatch'[d].cursor = dispatch[d].cursor + 1 /\ dispatch'[d].covered = dispatch[d].covered
      /\ dispatch'[d].members = dispatch[d].members /\ dispatch'[d].returned = dispatch[d].returned
  BY <1>3 DEF Becomes
<1>5. pc'[th] = IF Exhausted(d) THEN "leave" ELSE "body"
  BY <1>2 DEF Claim, Goes
<1>6. In(d)' = In(d)
  <2>1. th \in In(d) /\ th \in In(d)'
    BY <1>2, <1>3, <1>5 DEF In, Inside
  <2>2. \A u \in Threads \ {th} : u \in In(d)' <=> u \in In(d)
    BY <1>2, SteadyParts
  <2>3. In(d)' \subseteq Threads /\ In(d) \subseteq Threads
    BY DEF In
  <2> QED
    BY <2>1, <2>2, <2>3
<1>7. Membered(d)'
  BY <1>2, <1>4, <1>6 DEF Claims, Membered
<1>8. /\ \A u \in Threads \ {th} : /\ InBody(u, d)' <=> InBody(u, d)
                                   /\ InBody(u, d) => part'[u] = part[u]
                                   /\ (Of(u)' = d /\ pc'[u] \in {"leave", "await"}) => Exhausted(d)
      /\ ~InBody(th, d)
  BY <1>2, <1>3, SteadyParts DEF Claims, Late, InBody
<1>9. CASE Exhausted(d)
  <2>1. ~InBody(th, d)' /\ Exhausted(d)' /\ \A r \in Split : r < dispatch[d].cursor
    BY <1>2, <1>4, <1>5, <1>9 DEF InBody, Exhausted, Split
  <2>2. \A u \in Threads : InBody(u, d)' <=> InBody(u, d)
    BY <1>8, <2>1
  <2>3. \A u \in Threads : InBody(u, d) => part'[u] = part[u]
    BY <1>8
  <2>4. \A r \in Split : r < dispatch'[d].cursor
    BY <1>2, <1>4, <2>1 DEF Split
  <2>5. Covered(d)'
    BY <1>2, <1>4, <2>1, <2>2, <2>3, <2>4 DEF Claims, Covered
  <2>6. Claimed(d)'
    BY <1>2, <1>4, <2>2, <2>3, <2>4 DEF Claims, Claimed
  <2>7. Late(d)'
    BY <1>2, <1>4, <2>1, <2>2 DEF Claims, Late
  <2> QED
    BY <1>7, <2>5, <2>6, <2>7 DEF Claims
<1>10. CASE ~Exhausted(d)
  <2>1. /\ InBody(th, d)' /\ part'[th] = dispatch[d].cursor
        /\ dispatch[d].cursor \in Split
        /\ \A u \in Threads \ {th} : pc'[u] \in {"leave", "await"} => Of(u)' # d
        /\ pc'[th] = "body"
    BY <1>2, <1>5, <1>8, <1>10 DEF InBody, Claim, Exhausted, Split
  <2>2. ~dispatch[d].returned
    BY <1>2, <1>10 DEF Claims, Late
  <2>3. Late(d)'
    BY <1>4, <2>1, <2>2 DEF Late
  <2>4. \A u \in Threads \ {th} : InBody(u, d)' => /\ part'[u] \in Split
                                                 /\ part'[u] < dispatch[d].cursor
    BY <1>2, <1>8 DEF Claims, Claimed
  <2>5. Claimed(d)'
    <3>1. \A u \in Threads : InBody(u, d)' => part'[u] \in Split /\ part'[u] < dispatch'[d].cursor
      BY <1>2, <1>4, <2>1, <2>4 DEF Split
    <3>2. ASSUME NEW u \in Threads, NEW v \in Threads, InBody(u, d)', InBody(v, d)', part'[u] = part'[v]
          PROVE  u = v
      <4>1. CASE u # th /\ v # th
        BY <1>2, <1>8, <3>2, <4>1 DEF Claims, Claimed
      <4>2. CASE u = th /\ v # th
        BY <1>2, <2>1, <2>4, <3>2, <4>2 DEF Split
      <4>3. CASE u # th /\ v = th
        BY <1>2, <2>1, <2>4, <3>2, <4>3 DEF Split
      <4> QED
        BY <4>1, <4>2, <4>3
    <3> QED
      BY <3>1, <3>2 DEF Claimed
  <2>6. Covered(d)'
    <3> SUFFICES ASSUME NEW r \in Split
                 PROVE  dispatch'[d].covered[r] = IF /\ r < dispatch'[d].cursor
                                                     /\ \A u \in Threads : InBody(u, d)' => part'[u] # r
                                                  THEN 1 ELSE 0
      BY DEF Covered
    <3>1. dispatch[d].covered[r] = IF /\ r < dispatch[d].cursor
                                      /\ \A u \in Threads : InBody(u, d) => part[u] # r
                                   THEN 1 ELSE 0
      BY <1>2 DEF Claims, Covered
    <3>2. CASE r = dispatch[d].cursor
      BY <1>2, <1>4, <2>1, <3>1, <3>2
    <3>3. CASE r # dispatch[d].cursor
      <4>1. r < dispatch'[d].cursor <=> r < dispatch[d].cursor
        BY <1>2, <1>4, <3>3 DEF Split
      <4>2. (\A u \in Threads : InBody(u, d)' => part'[u] # r) <=> \A u \in Threads : InBody(u, d) => part[u] # r
        BY <1>8, <2>1, <3>3
      <4> QED
        BY <1>4, <3>1, <4>1, <4>2
    <3> QED
      BY <3>2, <3>3
  <2> QED
    BY <1>7, <2>3, <2>5, <2>6 DEF Claims
<1> QED
  BY <1>9, <1>10

\* The caller's function, on one range.
LEMMA ClaimsBody ==
  ASSUME ClaimInv, NEW th \in Threads, Body(th), NEW d, Of(th) = d
  PROVE  Claims(d)'
<1> DEFINE p == part[th]
           cov == dispatch[d].covered
<1>1. Acts(th)
  BY DEF Acts, Participate
<1>2. /\ CallInv /\ CallTypes /\ d \in Callers /\ Claims(d) /\ Of(th)' = d
      /\ \A u \in Threads \ {th} : Steady(u, d)
      /\ cov \in [Split -> Int]
      /\ part \in [Threads -> Nat] /\ pc \in [Threads -> Places \cup Tasks]
  BY <1>1, Before DEF Dispatch
<1>3. /\ Becomes(d, dispatch[d].left, dispatch[d].cursor, dispatch[d].members, [cov EXCEPT ![p] = @ + 1],
                 dispatch[d].returned)
      /\ pc[th] = "body" /\ pc'[th] = "claim"
  BY <1>1, <1>2, CallEffects DEF Body, Goes
<1>4. /\ dispatch'[d].cursor = dispatch[d].cursor /\ dispatch'[d].covered = [cov EXCEPT ![p] = @ + 1]
      /\ dispatch'[d].members = dispatch[d].members /\ dispatch'[d].returned = dispatch[d].returned
  BY <1>3 DEF Becomes
<1>5. In(d)' = In(d)
  <2>1. th \in In(d) /\ th \in In(d)'
    BY <1>2, <1>3 DEF In, Inside
  <2>2. \A u \in Threads \ {th} : u \in In(d)' <=> u \in In(d)
    BY <1>2, SteadyParts
  <2>3. In(d)' \subseteq Threads /\ In(d) \subseteq Threads
    BY DEF In
  <2> QED
    BY <2>1, <2>2, <2>3
<1>6. /\ \A u \in Threads \ {th} : /\ InBody(u, d)' <=> InBody(u, d)
                                   /\ InBody(u, d) => part'[u] = part[u]
                                   /\ (Of(u)' = d /\ pc'[u] \in {"leave", "await"}) => Exhausted(d)
      /\ InBody(th, d) /\ ~InBody(th, d)'
  BY <1>2, <1>3, SteadyParts DEF Claims, Late, InBody
<1>7. /\ p \in Split /\ p < dispatch[d].cursor
      /\ \A u \in Threads \ {th} : InBody(u, d) => part[u] # p
  BY <1>2, <1>6 DEF Claims, Claimed
<1>8. Membered(d)'
  BY <1>2, <1>4, <1>5 DEF Claims, Membered
<1>9. Claimed(d)'
  BY <1>2, <1>4, <1>6 DEF Claims, Claimed
<1>10. Late(d)'
  BY <1>2, <1>3, <1>4, <1>6 DEF Claims, Late, Exhausted
<1>11. Covered(d)'
  <2> SUFFICES ASSUME NEW r \in Split
               PROVE  dispatch'[d].covered[r] = IF /\ r < dispatch'[d].cursor
                                                   /\ \A u \in Threads : InBody(u, d)' => part'[u] # r
                                                THEN 1 ELSE 0
    BY DEF Covered
  <2>1. cov[r] = IF /\ r < dispatch[d].cursor
                    /\ \A u \in Threads : InBody(u, d) => part[u] # r
                 THEN 1 ELSE 0
    BY <1>2 DEF Claims, Covered
  <2>2. dispatch'[d].covered[r] = IF r = p THEN cov[r] + 1 ELSE cov[r]
    BY <1>2, <1>4
  <2> HIDE DEF cov
  <2>3. CASE r = p
    <3>1. cov[r] = 0
      BY <1>6, <2>1, <2>3
    <3>2. \A u \in Threads : InBody(u, d)' => part'[u] # r
      BY <1>6, <1>7, <2>3
    <3> QED
      BY <1>4, <1>7, <2>2, <2>3, <3>1, <3>2
  <2>4. CASE r # p
    <3>1. (\A u \in Threads : InBody(u, d)' => part'[u] # r) <=> \A u \in Threads : InBody(u, d) => part[u] # r
      BY <1>6, <2>4
    <3> QED
      BY <1>4, <2>1, <2>2, <2>4, <3>1
  <2> QED
    BY <2>3, <2>4
<1> QED
  BY <1>8, <1>9, <1>10, <1>11 DEF Claims

\* Every step keeps every caller's claims.
LEMMA ClaimsStep ==
  ASSUME ClaimInv, Next, NEW d \in Callers
  PROVE  Claims(d)'
<1>1. CallInv /\ Claims(d)
  BY DEF ClaimInv
<1>2. ASSUME NEW th \in Threads, Acts(th), Of(th) = d
      PROVE  Claims(d)'
  <2>1. CASE Participate(th)
    BY <1>2, <2>1, ClaimsHelp, ClaimsClaim, ClaimsBody, ClaimsLeave, ClaimsEnd DEF Participate
  <2> QED
    BY <1>2, <2>1, ClaimsBegin, ClaimsRegister DEF Acts
<1>3. ASSUME NEW th \in Threads, Acts(th), Of(th) # d
      PROVE  Claims(d)'
  <2>1. /\ \A u \in Threads \ {th} : Steady(u, d)
        /\ Of(th)' = Of(th) /\ Of(th) \in Callers
    BY <1>3, Before
  <2>2. Steady(th, d)
    BY <1>3, <2>1 DEF Steady
  <2>3. dispatch'[d] = dispatch[d]
    <3>1. CallTypes
      BY <1>1 DEF CallInv
    <3> QED
      BY <1>3, <2>1, <3>1, CallEffects DEF Acts, Participate, Becomes
  <2> QED
    BY <1>1, <2>1, <2>2, <2>3, ClaimsUntouched
<1>4. ASSUME UNCHANGED dispatch, \A u \in Threads : Kept(u)
      PROVE  Claims(d)'
  <2>1. \A u \in Threads : Steady(u, d)
    BY <1>4 DEF Kept, Steady
  <2> QED
    BY <1>1, <1>4, <2>1, ClaimsUntouched
<1> QED
  BY <1>1, <1>2, <1>3, <1>4, Looking

-----------------------------------------------------------------------------
(* ForEachWorker *)

\* The workers that are at a place with one of its jobs.
At(p) == {w \in Workers : job[w] = EachJob /\ pc[w] = p}
\* Who has which index: those that have run their function, and those that wait for the others.
Got == each.served \cup {<<w, part[w]>> : w \in At("barrier")}

\* Its jobs are yet to be submitted, queued, about to arrive, or have arrived, and then they wait,
\* are done, or are counted.
EachCount == /\ Count1(queue, EachJob) + Cardinality(At("run")) + each.arrived + each.left = WorkerCount
             /\ each.finished + Cardinality(At("finish")) + Cardinality(At("barrier")) = each.arrived
\* Each index below arrived is one worker's, and no worker has two; nobody goes on before all are here.
EachOwn == /\ \A g, h \in Got : g[1] = h[1] <=> g[2] = h[2]
           /\ \A g \in Got : g[2] < each.arrived
           /\ \A i \in 0 .. each.arrived - 1 : \E g \in Got : g[2] = i
           /\ each.served # {} => AllHere

EachInv == CallInv /\ each.left \in Nat /\ each.finished \in Nat /\ EachCount /\ EachOwn

\* The workers at a place are counted one by one.
LEMMA AtFacts ==
  ASSUME NEW p
  PROVE  /\ IsFiniteSet(At(p)) /\ Cardinality(At(p)) \in Nat
         /\ Cardinality(At(p)) = 0 => At(p) = {}
         /\ \A w \in Workers \ At(p) : Cardinality(At(p) \cup {w}) = Cardinality(At(p)) + 1
         /\ \A w \in At(p) : Cardinality(At(p) \ {w}) = Cardinality(At(p)) - 1
<1>1. At(p) \in SUBSET Workers
  BY DEF At
<1> QED
  BY <1>1, RunningFacts

\* The numbers are natural, and no more arrive than there are workers.
LEMMA EachTypes ==
  ASSUME EachInv
  PROVE  /\ each.left \in Nat /\ each.finished \in Nat /\ each.arrived \in Nat
         /\ each.served \subseteq Workers \X Nat /\ Got \subseteq Workers \X Nat
         /\ Count1(queue, EachJob) \in Nat /\ WorkerCount \in Nat \ {0}
         /\ Cardinality(At("run")) \in Nat /\ Cardinality(At("finish")) \in Nat
         /\ Cardinality(At("barrier")) \in Nat
         /\ each.arrived <= WorkerCount
<1>1. /\ each.left \in Nat /\ each.finished \in Nat /\ each.arrived \in Nat
      /\ each.served \subseteq Workers \X Nat /\ part \in [Threads -> Nat]
  BY DEF EachInv, CallInv, CallTypes
<1>2. Got \subseteq Workers \X Nat
  BY <1>1, WorkersFacts DEF Got, At
<1>3. Count1(queue, EachJob) \in Nat /\ WorkerCount \in Nat \ {0}
  BY Jobs, CopiesType, PoolAssumption DEF EachInv, CallInv
<1>4. /\ Cardinality(At("run")) \in Nat /\ Cardinality(At("finish")) \in Nat
      /\ Cardinality(At("barrier")) \in Nat
  BY AtFacts
<1> QED
  BY <1>1, <1>2, <1>3, <1>4 DEF EachInv, EachCount

\* A step that leaves the jobs of ForEachWorker where they are.
LEMMA EachUntouched ==
  ASSUME EachInv, CallInv', UNCHANGED each, Count1(queue', EachJob) = Count1(queue, EachJob),
         At("run")' = At("run"), At("finish")' = At("finish"), At("barrier")' = At("barrier"),
         \A w \in At("barrier") : part'[w] = part[w]
  PROVE  EachInv'
<1>1. Got' = Got
  BY DEF Got
<1>2. EachCount'
  BY DEF EachInv, EachCount, Count1
<1>3. EachOwn'
  BY <1>1 DEF EachInv, EachOwn, AllHere
<1> QED
  BY <1>2, <1>3 DEF EachInv

\* A step that moves only workers with other jobs, or with none.
LEMMA EachElsewhere ==
  ASSUME EachInv, CallInv', UNCHANGED each, Count1(queue', EachJob) = Count1(queue, EachJob),
         \A w \in Workers : job'[w] = EachJob <=> job[w] = EachJob,
         \A w \in Workers : job[w] = EachJob => pc'[w] = pc[w] \/ {pc[w], pc'[w]} \cap {"run", "finish", "barrier"} = {},
         \A w \in Workers : job[w] = EachJob /\ pc[w] = "barrier" => part'[w] = part[w]
  PROVE  EachInv'
<1>1. At("run")' = At("run") /\ At("finish")' = At("finish") /\ At("barrier")' = At("barrier")
  BY DEF At
<1>2. \A w \in At("barrier") : part'[w] = part[w]
  BY DEF At
<1> QED
  BY <1>1, <1>2, EachUntouched

\* A job of ForEachWorker is taken.
LEMMA EachTake ==
  ASSUME EachInv, CallInv', NEW w \in Workers, Take(w)
  PROVE  EachInv'
<1>1. /\ queue \in Seq(Job) /\ queue # <<>> /\ job[w] = NoJob
      /\ job \in [Workers -> Job \cup {NoJob}] /\ pc \in [Threads -> Places \cup Tasks]
      /\ pc[w] = "loop" /\ \A u \in Workers : u \in Threads
      /\ job' = [job EXCEPT ![w] = Head(queue)] /\ queue' = Tail(queue) /\ pc' = [pc EXCEPT ![w] = "run"]
      /\ UNCHANGED <<each, part>>
  BY WorkersFacts DEF EachInv, CallInv, PoolInv, Shape, AtWork, Resting, Take, Goes, callVars
<1>2. /\ Count1(queue, EachJob) = Count1(queue', EachJob) + (IF Head(queue) = EachJob THEN 1 ELSE 0)
      /\ Count1(queue', EachJob) \in Nat
  <2>1. queue' \in Seq(Job)
    BY <1>1
  <2> QED
    BY <1>1, <2>1, CountTail, CountType
<1>3. EachJob # NoJob
  BY Jobs
<1>4. CASE Head(queue) # EachJob
  BY <1>1, <1>2, <1>3, <1>4, EachElsewhere
<1>5. CASE Head(queue) = EachJob
  <2>1. /\ At("run")' = At("run") \cup {w} /\ w \notin At("run")
        /\ At("finish")' = At("finish") /\ At("barrier")' = At("barrier")
    BY <1>1, <1>3, <1>5 DEF At
  <2>2. Cardinality(At("run")') = Cardinality(At("run")) + 1
    BY <2>1, AtFacts
  <2>3. Got' = Got
    BY <1>1, <2>1 DEF Got
  <2>4. EachCount'
    <3>1. /\ EachCount' <=> /\ Count1(queue', EachJob) + Cardinality(At("run")') + each'.arrived + each'.left = WorkerCount
                            /\ each'.finished + Cardinality(At("finish")') + Cardinality(At("barrier")') = each'.arrived
      BY DEF EachCount, Count1
    <3> QED
      BY <1>1, <1>2, <1>5, <2>1, <2>2, <3>1, EachTypes DEF EachInv, EachCount
  <2>5. EachOwn'
    BY <1>1, <2>3 DEF EachInv, EachOwn, AllHere
  <2> QED
    BY <1>1, <2>4, <2>5 DEF EachInv
<1> QED
  BY <1>4, <1>5

\* Nobody has gone on while one is still to arrive, so whoever arrives has no index yet.
LEMMA EachArrive ==
  ASSUME EachInv, CallInv', NEW w \in Workers, Arrive(w)
  PROVE  EachInv'
<1>1. /\ pc[w] = "run" /\ job[w] = EachJob /\ w \in Threads /\ \A u \in Workers : u \in Threads
      /\ pc \in [Threads -> Places \cup Tasks] /\ pc' = [pc EXCEPT ![w] = "barrier"]
      /\ part \in [Threads -> Nat] /\ part' = [part EXCEPT ![w] = each.arrived]
      /\ UNCHANGED <<queue, job>>
  BY WorkersFacts DEF EachInv, CallInv, PoolInv, Shape, CallTypes, Arrive, Goes, poolVars, Job, NoJob, EachJob
<1>2. /\ each'.arrived = each.arrived + 1 /\ each'.left = each.left
      /\ each'.finished = each.finished /\ each'.served = each.served
  BY DEF Arrive, EachInv, CallInv, CallTypes
<1>3. /\ At("run")' = At("run") \ {w} /\ w \in At("run")
      /\ At("barrier")' = At("barrier") \cup {w} /\ w \notin At("barrier")
      /\ At("finish")' = At("finish")
  BY <1>1 DEF At
<1>4. /\ Cardinality(At("run")') = Cardinality(At("run")) - 1
      /\ Cardinality(At("barrier")') = Cardinality(At("barrier")) + 1
      /\ Cardinality(At("run")') \in Nat
  <2>1. Cardinality(At("run")') \in Nat
    BY <1>3, RunningFacts DEF At
  <2> QED
    BY <1>3, <2>1, AtFacts
<1>5. EachCount'
  <2>1. EachCount' <=> /\ Count1(queue', EachJob) + Cardinality(At("run")') + each'.arrived + each'.left = WorkerCount
                       /\ each'.finished + Cardinality(At("finish")') + Cardinality(At("barrier")') = each'.arrived
    BY DEF EachCount, Count1
  <2> QED
    BY <1>1, <1>2, <1>3, <1>4, <2>1, EachTypes DEF EachInv, EachCount
<1>6. each.arrived < WorkerCount
  BY <1>4, EachTypes DEF EachInv, EachCount
<1>7. each.served = {}
  BY <1>6, EachTypes DEF EachInv, EachOwn, AllHere
<1>8. Got' = Got \cup {<<w, each.arrived>>}
  BY <1>1, <1>2, <1>3 DEF Got, At
<1>9. \A g \in Got : g[1] # w /\ g[2] < each.arrived
  BY <1>3, <1>7 DEF EachInv, EachOwn, Got
<1>10. EachOwn'
  <2> DEFINE n == each.arrived
             new == <<w, n>>
  <2>1. n \in Nat /\ new[1] = w /\ new[2] = n /\ Got \subseteq Workers \X Nat
    BY EachTypes
  <2>2. \A g \in Got : g[2] \in Nat
    BY <2>1
  <2> HIDE DEF n, new
  <2>3. Got' = Got \cup {new} /\ each'.arrived = n + 1 /\ each'.served = {}
    BY <1>2, <1>7, <1>8 DEF n, new
  <2>4. \A g \in Got : g[1] # w /\ g[2] < n
    BY <1>9 DEF n
  <2>5. \A g, h \in Got : g[1] = h[1] <=> g[2] = h[2]
    BY DEF EachInv, EachOwn
  <2>6. \A i \in 0 .. n - 1 : \E g \in Got : g[2] = i
    BY DEF EachInv, EachOwn, n
  <2>7. \A g, h \in Got' : g[1] = h[1] <=> g[2] = h[2]
    BY <2>1, <2>2, <2>3, <2>4, <2>5
  <2>8. \A g \in Got' : g[2] < each'.arrived
    BY <2>1, <2>2, <2>3, <2>4
  <2>9. \A i \in 0 .. each'.arrived - 1 : \E g \in Got' : g[2] = i
    <3> SUFFICES ASSUME NEW i \in 0 .. n PROVE \E g \in Got' : g[2] = i
      BY <2>1, <2>3
    <3>1. CASE i = n
      BY <2>1, <2>3, <3>1
    <3>2. CASE i # n
      BY <2>1, <2>3, <2>6, <3>2
    <3> QED
      BY <3>1, <3>2
  <2> QED
    BY <2>3, <2>7, <2>8, <2>9 DEF EachOwn
<1> QED
  BY <1>2, <1>5, <1>10 DEF EachInv

\* A worker passes the barrier: it keeps its index as one that is served.
LEMMA EachPass ==
  ASSUME EachInv, CallInv', NEW w \in Workers, PassBarrier(w)
  PROVE  EachInv'
<1>1. /\ pc[w] = "barrier" /\ job[w] = EachJob /\ w \in Threads /\ \A u \in Workers : u \in Threads
      /\ pc \in [Threads -> Places \cup Tasks] /\ pc' = [pc EXCEPT ![w] = "finish"]
      /\ part \in [Threads -> Nat] /\ part' = [part EXCEPT ![w] = 0]
      /\ UNCHANGED <<queue, job>> /\ AllHere
  BY WorkersFacts DEF EachInv, CallInv, PoolInv, Shape, CallTypes, Roles, Role, PassBarrier, Goes, poolVars
<1>2. /\ each'.arrived = each.arrived /\ each'.left = each.left
      /\ each'.finished = each.finished /\ each'.served = each.served \cup {<<w, part[w]>>}
  BY DEF PassBarrier, EachInv, CallInv, CallTypes
<1>3. /\ At("barrier")' = At("barrier") \ {w} /\ w \in At("barrier")
      /\ At("finish")' = At("finish") \cup {w} /\ w \notin At("finish")
      /\ At("run")' = At("run")
  BY <1>1 DEF At
<1>4. /\ Cardinality(At("barrier")') = Cardinality(At("barrier")) - 1
      /\ Cardinality(At("finish")') = Cardinality(At("finish")) + 1
  BY <1>3, AtFacts
<1>5. EachCount'
  <2>1. EachCount' <=> /\ Count1(queue', EachJob) + Cardinality(At("run")') + each'.arrived + each'.left = WorkerCount
                       /\ each'.finished + Cardinality(At("finish")') + Cardinality(At("barrier")') = each'.arrived
    BY DEF EachCount, Count1
  <2> QED
    BY <1>1, <1>2, <1>3, <1>4, <2>1, EachTypes DEF EachInv, EachCount
<1>6. Got' = Got
  <2>1. Got' = each'.served \cup {<<u, part'[u]>> : u \in At("barrier")'}
    BY DEF Got
  <2>2. \A u \in At("barrier") \ {w} : part'[u] = part[u]
    BY <1>1 DEF At
  <2> QED
    BY <1>2, <1>3, <2>1, <2>2 DEF Got
<1>7. EachOwn'
  BY <1>1, <1>2, <1>6 DEF EachInv, EachOwn, AllHere
<1> QED
  BY <1>2, <1>5, <1>7 DEF EachInv

\* A job is counted as finished.
LEMMA EachFinish ==
  ASSUME EachInv, CallInv', NEW w \in Workers, Finish(w)
  PROVE  EachInv'
<1>1. /\ pc[w] = "finish" /\ w \in Threads /\ \A u \in Workers : u \in Threads
      /\ pc \in [Threads -> Places \cup Tasks] /\ pc' = [pc EXCEPT ![w] = "count"]
      /\ UNCHANGED <<queue, job, part>>
  BY WorkersFacts DEF EachInv, CallInv, PoolInv, Shape, Finish, Goes, poolVars
<1>2. CASE job[w].kind # "each"
  <2>1. job[w] # EachJob /\ each' = each
    BY <1>2 DEF Finish, EachJob
  <2> QED
    BY <1>1, <2>1, EachElsewhere
<1>3. CASE job[w].kind = "each"
  <2>1. job[w] = EachJob
    BY <1>3 DEF EachInv, CallInv, PoolInv, Shape, Job, NoJob, EachJob
  <2>2. /\ each'.arrived = each.arrived /\ each'.left = each.left
        /\ each'.finished = each.finished + 1 /\ each'.served = each.served
    BY <1>3 DEF Finish, EachInv, CallInv, CallTypes
  <2>3. /\ At("finish")' = At("finish") \ {w} /\ w \in At("finish")
        /\ At("barrier")' = At("barrier") /\ At("run")' = At("run")
    BY <1>1, <2>1 DEF At
  <2>4. Cardinality(At("finish")') = Cardinality(At("finish")) - 1
    BY <2>3, AtFacts
  <2>5. EachCount'
    <3>1. EachCount' <=> /\ Count1(queue', EachJob) + Cardinality(At("run")') + each'.arrived + each'.left = WorkerCount
                         /\ each'.finished + Cardinality(At("finish")') + Cardinality(At("barrier")') = each'.arrived
      BY DEF EachCount, Count1
    <3> QED
      BY <1>1, <2>2, <2>3, <2>4, <3>1, EachTypes DEF EachInv, EachCount
  <2>6. Got' = Got
    BY <1>1, <2>2, <2>3 DEF Got
  <2>7. EachOwn'
    BY <2>2, <2>6 DEF EachInv, EachOwn, AllHere
  <2> QED
    BY <2>2, <2>5, <2>7, EachTypes DEF EachInv
<1> QED
  BY <1>2, <1>3

\* Main submits one.
LEMMA EachSubmit ==
  ASSUME EachInv, CallInv', SubmitEach
  PROVE  EachInv'
<1>1. /\ each.left > 0 /\ queue \in Seq(Job) /\ queue' = Append(queue, EachJob)
      /\ job' = job /\ part' = part /\ AtWork
  BY DEF EachInv, CallInv, PoolInv, Shape, SubmitEach, Enqueue
<1>2. /\ each'.arrived = each.arrived /\ each'.left = each.left - 1
      /\ each'.finished = each.finished /\ each'.served = each.served
  BY DEF SubmitEach, EachInv, CallInv, CallTypes
<1>3. \A w \in Workers : Undisturbed(w)
  BY WorkersFacts, Acting, Owned DEF Call, EachInv
<1>4. At("run")' = At("run") /\ At("finish")' = At("finish") /\ At("barrier")' = At("barrier")
  BY <1>1, <1>3 DEF At, Undisturbed
<1>5. Count1(queue', EachJob) = Count1(queue, EachJob) + 1
  BY <1>1, Jobs, CountAppend
<1>6. EachCount'
  <2>1. EachCount' <=> /\ Count1(queue', EachJob) + Cardinality(At("run")') + each'.arrived + each'.left = WorkerCount
                       /\ each'.finished + Cardinality(At("finish")') + Cardinality(At("barrier")') = each'.arrived
    BY DEF EachCount, Count1
  <2> QED
    BY <1>2, <1>4, <1>5, <2>1, EachTypes DEF EachInv, EachCount
<1>7. Got' = Got
  BY <1>1, <1>2, <1>4 DEF Got
<1>8. EachOwn'
  BY <1>2, <1>7 DEF EachInv, EachOwn, AllHere
<1> QED
  BY <1>1, <1>2, <1>6, <1>8, EachTypes DEF EachInv

\* The other steps are other jobs'.
LEMMA EachOthers ==
  ASSUME EachInv, CallInv', job' = job, UNCHANGED each, Count1(queue', EachJob) = Count1(queue, EachJob),
         NEW th, \A u \in Workers \ {th} : Undisturbed(u) /\ part'[u] = part[u],
         th \in Workers => job[th] # EachJob
  PROVE  EachInv'
<1>1. \A u \in Workers : job[u] = EachJob => pc[u] \notin Resting
  BY Jobs DEF EachInv, CallInv, PoolInv, AtWork
<1>2. \A u \in Workers : job[u] = EachJob => pc'[u] = pc[u]
  BY <1>1 DEF Undisturbed, Resting
<1>3. \A u \in Workers : job[u] = EachJob /\ pc[u] = "barrier" => part'[u] = part[u]
  OBVIOUS
<1> QED
  BY <1>2, <1>3, EachElsewhere

\* Every step keeps the count and the indices.
LEMMA EachStep ==
  ASSUME EachInv, CallInv', Next
  PROVE  EachInv'
<1>1. /\ CallInv /\ PoolInv /\ queue \in Seq(Job) /\ pc \in [Threads -> Places \cup Tasks]
      /\ job \in [Workers -> Job \cup {NoJob}]
      /\ Main \in Threads /\ Main \notin Workers /\ \A w \in Workers : w \in Threads
  BY WorkersFacts DEF EachInv, CallInv, PoolInv, Shape
<1>2. ASSUME NEW j \in Job, j # EachJob, queue' = Append(queue, j)
      PROVE  Count1(queue', EachJob) = Count1(queue, EachJob)
  <2>1. Count1(queue', EachJob) = Count1(queue, EachJob) + 0
    BY <1>1, <1>2, CountAppend
  <2> QED
    BY <2>1, EachTypes
<1>3. ASSUME NEW th \in Threads, Acts(th)
      PROVE  EachInv'
  <2>1. /\ job' = job /\ each' = each
        /\ \A u \in Threads \ {th} : part'[u] = part[u] /\ Undisturbed(u)
    BY <1>1, <1>3, Acting
  <2>2. th \in Workers => job[th] # EachJob
    <3>1. ASSUME th \in Workers, job[th] = EachJob
          PROVE  FALSE
      <4>1. job[th].kind = "each" /\ th # Main
        BY <1>1, <3>1 DEF EachJob
      <4>2. Participate(th)
        BY <1>3, <4>1 DEF Acts, BeginParallel, Register
      <4>3. pc[th] \in Calling
        BY <4>2 DEF Participate, SubmitHelper, Claim, Body, Leave, EndParallel, Calling, Inside
      <4> QED
        BY <1>1, <3>1, <4>1, <4>3 DEF CallInv, Roles, Role, Calling, Inside
    <3> QED
      BY <3>1
  <2>3. Count1(queue', EachJob) = Count1(queue, EachJob)
    <3>1. CASE SubmitHelper(th)
      <4>1. Of(th) \in Tasks \cup {Main}
        BY <1>1, <3>1, OfType DEF SubmitHelper, Calling, Inside
      <4>2. queue' = Append(queue, HelpJob(Of(th)))
        BY <3>1 DEF SubmitHelper, Enqueue
      <4>3. HelpJob(Of(th)) \in Job /\ HelpJob(Of(th)) # EachJob
        BY <4>1, Jobs
      <4> QED
        BY <1>2, <4>2, <4>3
    <3>2. CASE ~SubmitHelper(th)
      <4>1. queue' = queue
        BY <1>3, <3>2 DEF Acts, Participate, BeginParallel, Register, Claim, Body, Leave, EndParallel, poolVars
      <4> QED
        BY <4>1
    <3> QED
      BY <3>1, <3>2
  <2>4. \A u \in Workers \ {th} : Undisturbed(u) /\ part'[u] = part[u]
    BY <1>1, <2>1
  <2> QED
    BY <2>1, <2>2, <2>3, <2>4, EachOthers
<1>4. ASSUME NEW w \in Workers, Sleep(w) \/ RunPlain(w)
      PROVE  EachInv'
  <2>1. /\ UNCHANGED <<queue, job, each, part>>
        /\ \A u \in Workers \ {w} : pc'[u] = pc[u]
    BY <1>1, <1>4 DEF Sleep, RunPlain, Goes, poolVars, callVars
  <2>2. job[w] # EachJob
    <3>1. CASE Sleep(w)
      BY <1>1, <3>1, Jobs DEF Sleep, PoolInv, AtWork, Resting
    <3>2. CASE RunPlain(w)
      BY <3>2 DEF RunPlain, EachJob
    <3> QED
      BY <1>4, <3>1, <3>2
  <2>3. \A u \in Workers \ {w} : Undisturbed(u) /\ part'[u] = part[u]
    BY <2>1 DEF Undisturbed
  <2> QED
    BY <2>1, <2>2, <2>3, EachOthers
<1>5. ASSUME NEW w \in Workers, Count(w)
      PROVE  EachInv'
  <2>1. /\ UNCHANGED <<queue, each, part>> /\ pc[w] = "count"
        /\ pc' = [pc EXCEPT ![w] = "loop"] /\ job' = [job EXCEPT ![w] = NoJob]
    BY <1>5 DEF Count, Goes, callVars
  <2>2. At("run")' = At("run") /\ At("finish")' = At("finish") /\ At("barrier")' = At("barrier")
    BY <1>1, <2>1, Jobs DEF At
  <2> QED
    BY <2>1, <2>2, EachUntouched
<1>6. ASSUME GoOn \/ Call, ~Acts(Main), ~SubmitEach
      PROVE  EachInv'
  <2>1. job' = job /\ part' = part /\ \A w \in Workers : Undisturbed(w)
    BY <1>1, <1>6, Owned
  <2>2. each' = each
    BY <1>6 DEF GoOn, Call, Acts, EndEach, GetReturns, RunContinuation, WaitReturns, Joined,
                Submit, Then, Get, PumpMainThread, WaitForAll, Stop, callVars
  <2>3. Count1(queue', EachJob) = Count1(queue, EachJob)
    <3>1. ASSUME NEW t \in Tasks, Submit(t)
          PROVE  Count1(queue', EachJob) = Count1(queue, EachJob)
      <4>1. queue' = Append(queue, TaskJob(t)) /\ TaskJob(t) \in Job /\ TaskJob(t) # EachJob
        BY <3>1, Jobs DEF Submit, Enqueue
      <4> QED
        BY <1>2, <4>1
    <3>2. ASSUME \A t \in Tasks : ~Submit(t)
          PROVE  queue' = queue
      BY <1>6, <3>2 DEF GoOn, Call, Acts, EndEach, GetReturns, RunContinuation, WaitReturns, Joined,
                Then, Get, PumpMainThread, WaitForAll, Stop, poolVars
    <3> QED
      BY <3>1, <3>2
  <2>4. \A u \in Workers \ {Main} : Undisturbed(u) /\ part'[u] = part[u]
    BY <2>1
  <2> QED
    BY <1>1, <2>1, <2>2, <2>3, <2>4, EachOthers
<1> QED
  BY <1>1, <1>3, <1>4, <1>5, <1>6, EachTake, EachArrive, EachPass, EachFinish, EachSubmit DEF Next, Work, Acts

\* Nothing submitted, nobody arrived.
LEMMA EachStarts == Init => EachInv
<1> SUFFICES ASSUME Init PROVE EachInv
  OBVIOUS
<1>1. /\ queue = <<>> /\ each = [left |-> WorkerCount, arrived |-> 0, served |-> {}, finished |-> 0]
      /\ \A w \in Workers : pc[w] = "loop"
  BY WorkersFacts DEF Init
<1>2. At("run") = {} /\ At("finish") = {} /\ At("barrier") = {}
  BY <1>1 DEF At
<1>3. Count1(queue, EachJob) = 0 /\ Cardinality({}) = 0
  BY <1>1, CountEmpty, FS_EmptySet
<1>4. EachCount
  <2>1. /\ each.left = WorkerCount /\ each.arrived = 0 /\ each.finished = 0
        /\ WorkerCount \in Nat
    BY <1>1, PoolAssumption
  <2> QED
    BY <1>2, <1>3, <2>1 DEF EachCount
<1>5. Got = {}
  BY <1>1, <1>2 DEF Got
<1>6. EachOwn
  BY <1>1, <1>5 DEF EachOwn
<1> QED
  BY <1>1, <1>4, <1>6, CallStarts, PoolAssumption DEF EachInv

\* Nobody in any RunParallel, and no range run.
LEMMA ClaimStarts == Init => ClaimInv
<1> SUFFICES ASSUME Init, NEW d \in Callers PROVE Claims(d)
  BY CallStarts DEF ClaimInv
<1>1. /\ dispatch = [e \in Callers |-> [left |-> Helpers, cursor |-> 0, members |-> 0,
                                       covered |-> [r \in Split |-> 0], returned |-> FALSE]]
      /\ \A th \in Threads : pc[th] \in {"main", "loop"}
  BY DEF Init, Split
<1>2. /\ dispatch[d].cursor = 0 /\ dispatch[d].members = 0 /\ dispatch[d].covered = [r \in Split |-> 0]
      /\ dispatch[d].returned = FALSE
  BY <1>1
<1>3. In(d) = {} /\ \A th \in Threads : ~InBody(th, d) /\ pc[th] \notin {"leave", "await"}
  BY <1>1 DEF In, InBody, Inside
<1>4. Membered(d)
  BY <1>2, <1>3, FS_EmptySet DEF Membered
<1>5. Covered(d)
  BY <1>2 DEF Covered, Split
<1>6. Claimed(d) /\ Late(d)
  BY <1>2, <1>3 DEF Claimed, Late
<1> QED
  BY <1>4, <1>5, <1>6 DEF Claims

\* With as many indices as workers, and no worker with two, every worker has one.
LEMMA EveryWorkerServed ==
  ASSUME NEW R \in SUBSET (Workers \X Workers),
         \A n \in Workers : \E w \in Workers : <<w, n>> \in R,
         \A v, w, m, n \in Workers : <<v, m>> \in R /\ <<w, n>> \in R => (v = w <=> m = n)
  PROVE  \A i \in Workers : /\ Cardinality({w \in Workers : <<w, i>> \in R}) = 1
                            /\ Cardinality({n \in Workers : <<i, n>> \in R}) = 1
<1> DEFINE f == [n \in Workers |-> CHOOSE w \in Workers : <<w, n>> \in R]
<1>1. f \in [Workers -> Workers] /\ \A n \in Workers : <<f[n], n>> \in R
  OBVIOUS
<1> HIDE DEF f
<1>2. \A w, m, n \in Workers : <<w, m>> \in R /\ <<w, n>> \in R => m = n
  OBVIOUS
<1>3. \A v, w, n \in Workers : <<v, n>> \in R /\ <<w, n>> \in R => v = w
  OBVIOUS
<1>4. \A m, n \in Workers : f[m] = f[n] => m = n
  <2> SUFFICES ASSUME NEW m \in Workers, NEW n \in Workers, f[m] = f[n] PROVE m = n
    OBVIOUS
  <2>1. f[m] \in Workers /\ <<f[m], m>> \in R /\ <<f[m], n>> \in R
    BY <1>1
  <2> QED
    BY <1>2, <2>1
<1>5. f \in Injection(Workers, Workers)
  BY <1>1, <1>4, Fun_IsInj
<1>6. f \in Surjection(Workers, Workers)
  BY <1>5, WorkersFacts, FS_Injection
<1>7. \A i \in Workers : \E n \in Workers : f[n] = i
  BY <1>6, Fun_SurjectionProperties
<1> SUFFICES ASSUME NEW i \in Workers
             PROVE  /\ Cardinality({w \in Workers : <<w, i>> \in R}) = 1
                    /\ Cardinality({n \in Workers : <<i, n>> \in R}) = 1
  OBVIOUS
<1>8. {w \in Workers : <<w, i>> \in R} = {f[i]}
  <2>1. \A w \in Workers : <<w, i>> \in R => w = f[i]
    BY <1>1, <1>3
  <2> QED
    BY <1>1, <2>1
<1>9. PICK m \in Workers : f[m] = i
  BY <1>7
<1>10. {n \in Workers : <<i, n>> \in R} = {m}
  <2>1. <<i, m>> \in R
    BY <1>1, <1>9
  <2>2. \A n \in Workers : <<i, n>> \in R => n = m
    BY <1>2, <2>1
  <2> QED
    BY <2>1, <2>2
<1> QED
  BY <1>8, <1>10, FS_Singleton

\* When all are counted as finished, all have been served.
LEMMA EachDone ==
  ASSUME EachInv, each.finished = WorkerCount, NEW i \in Workers
  PROVE  /\ Cardinality({w \in Workers : <<w, i>> \in each.served}) = 1
         /\ Cardinality({n \in Workers : <<i, n>> \in each.served}) = 1
<1>1. each.arrived = WorkerCount /\ Cardinality(At("barrier")) = 0
  BY EachTypes DEF EachInv, EachCount
<1>2. Got = each.served
  BY <1>1, AtFacts DEF Got
<1>3. \A g \in each.served : g = <<g[1], g[2]>> /\ g[1] \in Workers /\ g[2] \in Nat /\ g[2] < WorkerCount
  BY <1>1, <1>2, EachTypes DEF EachInv, EachOwn
<1>4. \A g \in each.served : g = <<g[1], g[2]>> /\ g[1] \in Workers /\ g[2] \in Workers
  BY <1>3, EachTypes DEF Workers
<1>5. each.served \in SUBSET (Workers \X Workers)
  BY <1>4
<1>6. ASSUME NEW n \in Workers PROVE \E w \in Workers : <<w, n>> \in each.served
  <2>1. n \in 0 .. each.arrived - 1
    BY <1>1 DEF Workers
  <2>2. PICK g \in each.served : g[2] = n
    BY <1>2, <2>1 DEF EachInv, EachOwn
  <2> QED
    BY <1>4, <2>2
<1>7. ASSUME NEW v \in Workers, NEW w \in Workers, NEW m \in Workers, NEW n \in Workers,
             <<v, m>> \in each.served, <<w, n>> \in each.served
      PROVE  v = w <=> m = n
  <2>1. <<v, m>>[1] = v /\ <<v, m>>[2] = m /\ <<w, n>>[1] = w /\ <<w, n>>[2] = n
    OBVIOUS
  <2>2. <<v, m>>[1] = <<w, n>>[1] <=> <<v, m>>[2] = <<w, n>>[2]
    BY <1>2, <1>7 DEF EachInv, EachOwn
  <2> QED
    BY <2>1, <2>2
<1>8. \A v, w, m, n \in Workers :
        <<v, m>> \in each.served /\ <<w, n>> \in each.served => (v = w <=> m = n)
  BY <1>7
<1>9. \A n \in Workers : \E w \in Workers : <<w, n>> \in each.served
  BY <1>6
<1> DEFINE R == each.served
<1>10. /\ R \in SUBSET (Workers \X Workers)
       /\ \A n \in Workers : \E w \in Workers : <<w, n>> \in R
       /\ \A v, w, m, n \in Workers : <<v, m>> \in R /\ <<w, n>> \in R => (v = w <=> m = n)
  BY <1>5, <1>8, <1>9
<1> HIDE DEF R
<1>11. \A j \in Workers : /\ Cardinality({w \in Workers : <<w, j>> \in R}) = 1
                          /\ Cardinality({n \in Workers : <<j, n>> \in R}) = 1
  BY <1>10, EveryWorkerServed
<1> QED
  BY <1>11 DEF R

\* When RunParallel has returned, every range has run exactly once and nobody is in the body, and
\* when the jobs of ForEachWorker are done, every worker has run its function once, with an index of
\* its own.
THEOREM ParallelIsDone == Spec => []ParallelDone
<1>1. Init => ClaimInv /\ EachInv
  BY ClaimStarts, EachStarts
<1>2. ClaimInv /\ EachInv /\ [Next]_vars => (ClaimInv /\ EachInv)'
  <2>1. ASSUME ClaimInv, EachInv, Next
        PROVE  ClaimInv' /\ EachInv'
    <3>1. CallInv'
      BY <2>1, CallStep DEF ClaimInv
    <3> QED
      BY <2>1, <3>1, ClaimsStep, EachStep DEF ClaimInv
  <2>2. ASSUME ClaimInv, EachInv, UNCHANGED vars
        PROVE  ClaimInv' /\ EachInv'
    <3>1. CallInv'
      BY <2>2, CallStep DEF ClaimInv
    <3>2. /\ UNCHANGED <<dispatch, each, queue, part>>
          /\ \A u \in Threads : \A d : Steady(u, d)
          /\ \A p : At(p)' = At(p)
      BY <2>2 DEF vars, Steady, Of, At
    <3>3. \A d \in Callers : Claims(d)'
      BY <2>2, <3>2, ClaimsUntouched DEF ClaimInv
    <3>4. EachInv'
      BY <2>2, <3>1, <3>2, EachUntouched
    <3> QED
      BY <3>1, <3>3, <3>4 DEF ClaimInv
  <2> QED
    BY <2>1, <2>2
<1>3. ClaimInv /\ EachInv => ParallelDone
  <2> SUFFICES ASSUME ClaimInv, EachInv PROVE ParallelDone
    OBVIOUS
  <2>1. ASSUME NEW d \in Callers, dispatch[d].returned
        PROVE  /\ \A r \in DOMAIN dispatch[d].covered : dispatch[d].covered[r] = 1
               /\ \A th \in Threads : Of(th) = d => pc[th] # "body"
    <3>1. /\ Claims(d) /\ dispatch[d].cursor \in Nat /\ DOMAIN dispatch[d].covered = Split
          /\ Ranges \in Nat
      BY <2>1, PoolAssumption DEF ClaimInv, CallInv, CallTypes, Dispatch
    <3>2. Exhausted(d) /\ \A th \in Threads : ~InBody(th, d)
      BY <2>1, <3>1 DEF Claims, Late
    <3>3. \A r \in Split : r < dispatch[d].cursor
      BY <3>1, <3>2 DEF Exhausted, Split
    <3> QED
      BY <3>1, <3>2, <3>3 DEF Claims, Covered, InBody
  <2> QED
    BY <2>1, EachDone DEF ParallelDone
<1> QED
  BY <1>1, <1>2, <1>3, PTL DEF Spec
=============================================================================
