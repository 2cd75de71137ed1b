--------------------------- MODULE SyncQueueProofs ---------------------------
(***************************************************************************)
(* The fence, proved for any number of connections, jobs, workers and any  *)
(* retry budget.  The argument is one inductive invariant: a claim's token *)
(* names it for ever (it never exceeds the job's attempts, and no two live *)
(* workers carry the same one), and a worker whose token still matches its *)
(* job's holds a running job.  So whatever stops a job first makes every   *)
(* older token useless.                                                    *)
(***************************************************************************)
EXTENDS SyncQueue, TLAPS

\* What the row of a job in each status looks like.
RowShape(r) ==
  /\ r.status # "absent" => r.conn \in Connections
  /\ r.status \in {"absent", "queued", "deleted"} => r.token = NoToken
  /\ r.status = "absent" => r.attempts = 0
  /\ r.status = "queued" => r.attempts < MaxAttempts
  /\ r.status = "running" => r.token = r.attempts /\ r.attempts >= 1
  /\ r.status = "expired" => r.attempts = MaxAttempts

JobShape ==
  \A j \in Jobs : /\ RowShape(jobs[j])
                  /\ j \in cancelling => jobs[j].status # "absent"

\* A worker's claim is one its job really granted.
WorkerShape ==
  \A w \in Workers :
    /\ workers[w].pc = "picked" => /\ workers[w].job \in Jobs
                                   /\ jobs[workers[w].job].status # "absent"
    /\ workers[w].pc \in Busy => /\ workers[w].job \in Jobs
                                 /\ jobs[workers[w].job].status # "absent"
                                 /\ workers[w].token >= 1
                                 /\ workers[w].token <= jobs[workers[w].job].attempts

\* The token is worth something only while the job runs.
HeldIsRunning ==
  \A w \in Workers :
    workers[w].pc \in Busy /\ HoldsToken(w) => jobs[workers[w].job].status = "running"

\* No two live workers carry the same claim.
ClaimsAreUnique ==
  \A v, w \in Workers :
    workers[v].pc \in Busy /\ workers[w].pc \in Busy /\ ClaimOf(v) = ClaimOf(w) => v = w

\* The running job of a connection is its newest claim.
RunningIsLatest ==
  \A j \in Jobs :
    jobs[j].status = "running" => latest[jobs[j].conn] = <<j, jobs[j].token>>

IInv ==
  /\ TypeOK
  /\ JobShape
  /\ WorkerShape
  /\ HeldIsRunning
  /\ ClaimsAreUnique
  /\ RunningIsLatest
  /\ OneRunningPerConnection

-----------------------------------------------------------------------------
LEMMA InitInv == Init => IInv
  <1> SUFFICES ASSUME Init PROVE IInv
    OBVIOUS
  <1> USE MaxAttemptsAssumption DEF Init, AbsentJob, Parked, NoToken
  <1>1. TypeOK
    BY DEF TypeOK, Job, Connection, Worker, JobStatus, RunStatus, Health, Claims, Revoked
  <1>2. JobShape
    BY DEF JobShape, RowShape
  <1>3. WorkerShape
    BY DEF WorkerShape, Busy
  <1>4. HeldIsRunning
    BY DEF HeldIsRunning, Busy
  <1>5. ClaimsAreUnique
    BY DEF ClaimsAreUnique, Busy
  <1>6. RunningIsLatest
    BY DEF RunningIsLatest
  <1>7. OneRunningPerConnection
    BY DEF OneRunningPerConnection, Running
  <1>8. QED
    BY <1>1, <1>2, <1>3, <1>4, <1>5, <1>6, <1>7 DEF IInv

-----------------------------------------------------------------------------
(* Rows stay rows                                                          *)

LEMMA NoTokenType == /\ NoToken \in {Revoked} \cup (0..MaxAttempts)
                     /\ NoToken \in 0..MaxAttempts /\ 0 \in 0..MaxAttempts
  BY MaxAttemptsAssumption DEF NoToken

\* The attempt a claim spends is one the budget has.
LEMMA AttemptType ==
  ASSUME TypeOK, JobShape, NEW j \in Jobs, jobs[j].status = "queued"
  PROVE  /\ jobs[j].attempts + 1 \in 0..MaxAttempts
         /\ jobs[j].attempts + 1 \in 1..MaxAttempts
         /\ jobs[j].attempts + 1 \in {Revoked} \cup (0..MaxAttempts)
  <1>1. jobs[j].attempts \in 0..MaxAttempts /\ jobs[j].attempts < MaxAttempts
    BY DEF TypeOK, Job, JobShape, RowShape
  <1>2. QED
    BY <1>1, MaxAttemptsAssumption

LEMMA StepType ==
  ASSUME TypeOK, NEW w \in Workers, NEW pc \in Busy, NEW o \in RunStatus \cup FailKinds,
         Step(w, pc, o)
  PROVE  workers' \in [Workers -> Worker]
  <1>1. [workers[w] EXCEPT !.pc = pc, !.outcome = o] \in Worker
    BY DEF TypeOK, Worker
  <1>2. QED
    BY <1>1 DEF TypeOK, Step

LEMMA ParkType ==
  ASSUME TypeOK, NEW w \in Workers, NEW pc \in {"idle", "down"},
         workers' = [workers EXCEPT ![w] = Parked(pc)]
  PROVE  workers' \in [Workers -> Worker]
  BY MaxAttemptsAssumption DEF TypeOK, Worker, Parked, NoToken, RunStatus

LEMMA CloseOrphansType ==
  ASSUME TypeOK, NEW S PROVE CloseOrphans(S) \in [Claims -> RunStatus]
  BY DEF TypeOK, CloseOrphans, RunStatus

LEMMA RequeuedType ==
  ASSUME NEW r \in Job PROVE Requeued(r) \in Job
  BY NoTokenType DEF Requeued, Job, JobStatus

LEMMA ReapedType ==
  ASSUME NEW r \in Job PROVE Reaped(r) \in Job
  <1>1. [r EXCEPT !.status = "expired", !.token = NoToken, !.silent = FALSE] \in Job
    BY NoTokenType DEF Job, JobStatus
  <1>2. QED
    BY <1>1, RequeuedType DEF Reaped

LEMMA ClosedType ==
  ASSUME NEW r \in Job, NEW o PROVE Closed(r, o) \in Job
  <1>1. \A s \in {"done", "cancelled", "expired"} :
          [r EXCEPT !.status = s, !.silent = FALSE] \in Job
    BY DEF Job, JobStatus
  <1>2. QED
    BY <1>1, RequeuedType DEF Closed

LEMMA QueuedType ==
  ASSUME NEW c \in Connections PROVE QueuedJob(c) \in Job
  BY NoTokenType DEF QueuedJob, AbsentJob, Job, JobStatus

-----------------------------------------------------------------------------
(* Steps that leave the queue's rows alone                                 *)

\* Nothing the invariant speaks of changes.
LEMMA QuietInv ==
  ASSUME IInv, TypeOK', UNCHANGED <<jobs, workers, cancelling, latest>>
  PROVE  IInv'
  BY DEF IInv, JobShape, WorkerShape, HeldIsRunning, ClaimsAreUnique, RunningIsLatest,
         OneRunningPerConnection, Running, HoldsToken, ClaimOf

\* A worker moves on within its claim.
LEMMA StepInv ==
  ASSUME IInv, TypeOK', UNCHANGED <<jobs, cancelling, latest>>,
         NEW w \in Workers, workers[w].pc \in Busy,
         NEW pc \in Busy, NEW o, Step(w, pc, o)
  PROVE  IInv'
  <1> USE DEF IInv
  <1>1. \A v \in Workers : /\ workers'[v].job = workers[v].job
                           /\ workers'[v].token = workers[v].token
                           /\ workers'[v].pc \in Busy <=> workers[v].pc \in Busy
                           /\ workers'[v].pc = "picked" <=> workers[v].pc = "picked"
    BY DEF Step, TypeOK, Worker, Busy
  <1>2. JobShape' /\ RunningIsLatest' /\ OneRunningPerConnection'
    BY DEF JobShape, RunningIsLatest, OneRunningPerConnection, Running
  <1>3. WorkerShape'
    BY <1>1 DEF WorkerShape
  <1>4. HeldIsRunning'
    BY <1>1 DEF HeldIsRunning, HoldsToken
  <1>5. ClaimsAreUnique'
    BY <1>1 DEF ClaimsAreUnique, ClaimOf
  <1>6. QED
    BY <1>2, <1>3, <1>4, <1>5

\* A worker lets go of whatever it had.
LEMMA ParkInv ==
  ASSUME IInv, UNCHANGED <<jobs, runs, conns, cancelling, landed, latest>>,
         NEW w \in Workers, NEW pc \in {"idle", "down"},
         workers' = [workers EXCEPT ![w] = Parked(pc)]
  PROVE  IInv'
  <1> USE DEF IInv
  <1>1. TypeOK'
    BY ParkType DEF TypeOK
  <1>2. \A v \in Workers : /\ workers'[v].pc \in Busy \cup {"picked"} => v # w
                           /\ v # w => workers'[v] = workers[v]
    BY DEF Parked, TypeOK, Busy
  <1>3. JobShape' /\ RunningIsLatest' /\ OneRunningPerConnection'
    BY DEF JobShape, RunningIsLatest, OneRunningPerConnection, Running
  <1>4. WorkerShape'
    BY <1>2 DEF WorkerShape
  <1>5. HeldIsRunning'
    BY <1>2 DEF HeldIsRunning, HoldsToken
  <1>6. ClaimsAreUnique'
    BY <1>2 DEF ClaimsAreUnique, ClaimOf
  <1>7. QED
    BY <1>1, <1>3, <1>4, <1>5, <1>6
-----------------------------------------------------------------------------
(* Steps that change rows of the queue and leave the workers alone          *)

\* Enough for the invariant: no row starts to run, none loses a token it may
\* have handed out except to a value no worker holds, and every row keeps its
\* shape.
Settles(r, s) ==
  /\ r.status # "absent" => s.status # "absent"
  /\ s.attempts >= r.attempts
  /\ s.status = "running" => r.status = "running" /\ s.token = r.token /\ s.conn = r.conn
  /\ s.status # "running" => \/ s.token \in {NoToken, Revoked}
                             \/ r.status # "running" /\ s.token = r.token

LEMMA RowsInv ==
  ASSUME IInv, TypeOK', JobShape', UNCHANGED <<workers, latest>>,
         \A i \in Jobs : Settles(jobs[i], jobs'[i])
  PROVE  IInv'
  <1> USE DEF IInv
  <1>1. WorkerShape'
    <2> SUFFICES ASSUME NEW w \in Workers, workers[w].job \in Jobs,
                        workers[w].pc \in Busy =>
                          /\ workers[w].token \in Int
                          /\ workers[w].token <= jobs[workers[w].job].attempts,
                        jobs[workers[w].job].status # "absent"
                 PROVE  /\ jobs'[workers[w].job].status # "absent"
                        /\ workers[w].pc \in Busy =>
                             workers[w].token <= jobs'[workers[w].job].attempts
      BY DEF WorkerShape, TypeOK, Worker
    <2>1. /\ jobs[workers[w].job].attempts \in Int
          /\ jobs'[workers[w].job].attempts \in Int
      BY DEF TypeOK, Job
    <2>2. QED
      BY <2>1 DEF Settles
  <1>2. HeldIsRunning'
    <2> SUFFICES ASSUME NEW w \in Workers, workers[w].pc \in Busy,
                        jobs'[workers[w].job].token = workers[w].token,
                        jobs'[workers[w].job].status # "running"
                 PROVE  FALSE
      BY DEF HeldIsRunning, HoldsToken
    <2>1. workers[w].job \in Jobs /\ workers[w].token >= 1
      BY DEF WorkerShape
    <2>2. jobs[workers[w].job].status # "running"
          /\ jobs'[workers[w].job].token = jobs[workers[w].job].token
      BY <2>1 DEF Settles, NoToken, Revoked
    <2>3. QED
      BY <2>2 DEF HeldIsRunning, HoldsToken
  <1>3. ClaimsAreUnique'
    BY DEF ClaimsAreUnique, ClaimOf
  <1>4. RunningIsLatest' /\ OneRunningPerConnection'
    BY DEF RunningIsLatest, OneRunningPerConnection, Running, Settles
  <1>5. QED
    BY <1>1, <1>2, <1>3, <1>4

LEMMA RequeuedShape ==
  ASSUME NEW r \in Job, RowShape(r), r.attempts < MaxAttempts, r.status # "absent"
  PROVE  RowShape(Requeued(r)) /\ Settles(r, Requeued(r))
  BY DEF Job, RowShape, Settles, Requeued

LEMMA ReapedShape ==
  ASSUME NEW r \in Job, RowShape(r), r.status = "running"
  PROVE  RowShape(Reaped(r)) /\ Settles(r, Reaped(r))
  <1>1. r.attempts \in Int /\ r.attempts <= MaxAttempts
    BY MaxAttemptsAssumption DEF Job
  <1>2. CASE r.attempts < MaxAttempts
    BY <1>1, <1>2, RequeuedShape, MaxAttemptsAssumption DEF Reaped
  <1>3. CASE r.attempts = MaxAttempts
    BY <1>1, <1>3, MaxAttemptsAssumption DEF Reaped, Job, RowShape, Settles
  <1>4. QED
    BY <1>1, <1>2, <1>3, MaxAttemptsAssumption

LEMMA QueuedShape ==
  ASSUME NEW c \in Connections, NEW r \in Job, RowShape(r), r.status = "absent"
  PROVE  RowShape(QueuedJob(c)) /\ Settles(r, QueuedJob(c))
  BY MaxAttemptsAssumption DEF RowShape, Settles, QueuedJob, AbsentJob, Job

-----------------------------------------------------------------------------
(* One lemma per step of the API, the ticks and the clock                   *)

LEMMA DeleteConnectionInv ==
  ASSUME IInv, NEW c \in Connections, DeleteConnection(c) PROVE IInv'
  <1> USE DEF IInv
  <1>1. \A r \in Job : [r EXCEPT !.status = "deleted", !.token = NoToken] \in Job
    BY NoTokenType DEF Job, JobStatus
  <1>2. TypeOK'
    <2>1. jobs' \in [Jobs -> Job]
      BY <1>1 DEF DeleteConnection, TypeOK
    <2>2. conns' \in [Connections -> Connection]
      BY DEF DeleteConnection, TypeOK, Connection
    <2>3. QED
      BY <2>1, <2>2 DEF DeleteConnection, TypeOK
  <1>3. \A i \in Jobs : \/ jobs'[i] = jobs[i]
                        \/ /\ jobs[i].conn \in Connections
                           /\ jobs'[i] = [jobs[i] EXCEPT !.status = "deleted", !.token = NoToken]
    BY DEF DeleteConnection
  <1>4. \A i \in Jobs : RowShape(jobs'[i]) /\ Settles(jobs[i], jobs'[i])
    <2>1. \A r \in Job : RowShape(r) /\ r.conn \in Connections =>
            LET s == [r EXCEPT !.status = "deleted", !.token = NoToken]
            IN  RowShape(s) /\ Settles(r, s)
      BY DEF RowShape, Settles, Job
    <2>2. \A r \in Job : Settles(r, r)
      BY DEF Settles, Job
    <2>3. \A i \in Jobs : jobs[i] \in Job /\ RowShape(jobs[i])
      BY DEF TypeOK, JobShape
    <2> TAKE i \in Jobs
    <2>4. CASE jobs'[i] = jobs[i]
      BY <2>2, <2>3, <2>4
    <2>5. CASE jobs'[i] # jobs[i]
      BY <1>3, <2>1, <2>3, <2>5
    <2>6. QED
      BY <2>4, <2>5
  <1>5. JobShape' /\ UNCHANGED <<workers, latest>>
    BY <1>4 DEF DeleteConnection, JobShape, Settles
  <1>6. QED
    BY <1>2, <1>4, <1>5, RowsInv

\* A set of jobs nobody has used yet is queued, each for some connection.
LEMMA QueueInv ==
  ASSUME IInv, NEW S \in SUBSET FreshJobs, NEW row, \A i \in S : row[i] \in Connections,
         jobs' = [i \in Jobs |-> IF i \in S THEN QueuedJob(row[i]) ELSE jobs[i]],
         UNCHANGED <<runs, conns, workers, cancelling, landed, latest>>
  PROVE  IInv'
  <1> USE DEF IInv
  <1>1. TypeOK'
    BY QueuedType DEF TypeOK
  <1>2. \A i \in Jobs : RowShape(jobs'[i]) /\ Settles(jobs[i], jobs'[i])
    <2> SUFFICES ASSUME NEW i \in Jobs PROVE RowShape(jobs'[i]) /\ Settles(jobs[i], jobs'[i])
      OBVIOUS
    <2>1. jobs[i] \in Job /\ RowShape(jobs[i])
      BY DEF TypeOK, JobShape
    <2>2. CASE i \in S
      BY <2>1, <2>2, QueuedShape DEF FreshJobs
    <2>3. CASE i \notin S
      BY <2>1, <2>3 DEF Settles, Job
    <2>4. QED
      BY <2>2, <2>3
  <1>3. JobShape'
    BY <1>2 DEF JobShape, Settles
  <1>4. QED
    BY <1>1, <1>2, <1>3, RowsInv

LEMMA EnqueueSyncInv ==
  ASSUME IInv, NEW c \in Connections, EnqueueSync(c) PROVE IInv'
  <1>1. PICK j \in FreshJobs : jobs' = [jobs EXCEPT ![j] = QueuedJob(c)]
    BY DEF EnqueueSync
  <1> DEFINE row == [i \in {j} |-> c]
  <1>2. jobs' = [i \in Jobs |-> IF i \in {j} THEN QueuedJob(row[i]) ELSE jobs[i]]
    BY <1>1 DEF IInv, TypeOK
  <1>3. {j} \in SUBSET FreshJobs /\ \A i \in {j} : row[i] \in Connections
    OBVIOUS
  <1> HIDE DEF row
  <1>4. QED
    BY <1>2, <1>3, QueueInv DEF EnqueueSync

LEMMA EnqueueScheduledSyncsInv ==
  ASSUME IInv, EnqueueScheduledSyncs PROVE IInv'
  <1>1. PICK S \in SUBSET FreshJobs : \E row \in Bijection(S, DueConnections) :
          jobs' = [i \in Jobs |-> IF i \in S THEN QueuedJob(row[i]) ELSE jobs[i]]
    BY DEF EnqueueScheduledSyncs
  <1>2. PICK row \in Bijection(S, DueConnections) :
          jobs' = [i \in Jobs |-> IF i \in S THEN QueuedJob(row[i]) ELSE jobs[i]]
    BY <1>1
  <1>3. \A i \in S : row[i] \in Connections
    BY <1>2 DEF Bijection, Injection, Surjection, DueConnections
  <1>4. QED
    BY <1>2, <1>3, QueueInv DEF EnqueueScheduledSyncs

LEMMA CancelReadInv ==
  ASSUME IInv, NEW j \in Jobs, CancelRead(j) PROVE IInv'
  <1> USE DEF IInv
  <1>1. TypeOK' /\ UNCHANGED <<workers, latest>>
    BY DEF CancelRead, TypeOK
  <1>2. \A i \in Jobs : Settles(jobs[i], jobs'[i])
    BY DEF CancelRead, Settles, TypeOK, Job
  <1>3. JobShape'
    BY DEF CancelRead, JobShape
  <1>4. QED
    BY <1>1, <1>2, <1>3, RowsInv

LEMMA CancelWriteInv ==
  ASSUME IInv, NEW j \in Jobs, CancelWrite(j) PROVE IInv'
  <1> USE DEF IInv
  <1>1. \A r \in Job : [r EXCEPT !.status = "cancelled", !.token = Revoked] \in Job
    BY DEF Job, JobStatus
  <1>2. TypeOK'
    BY <1>1 DEF CancelWrite, TypeOK
  <1>3. \A i \in Jobs : \/ jobs'[i] = jobs[i]
                        \/ /\ jobs[i].status # "absent"
                           /\ jobs'[i] = [jobs[i] EXCEPT !.status = "cancelled", !.token = Revoked]
    BY DEF CancelWrite, TypeOK, JobShape
  <1>4. \A i \in Jobs : RowShape(jobs'[i]) /\ Settles(jobs[i], jobs'[i])
    <2>1. \A r \in Job : RowShape(r) /\ r.status # "absent" =>
            LET s == [r EXCEPT !.status = "cancelled", !.token = Revoked]
            IN  RowShape(s) /\ Settles(r, s)
      BY DEF RowShape, Settles, Job
    <2>2. \A r \in Job : Settles(r, r)
      BY DEF Settles, Job
    <2>3. \A i \in Jobs : jobs[i] \in Job /\ RowShape(jobs[i])
      BY DEF TypeOK, JobShape
    <2> TAKE i \in Jobs
    <2>4. CASE jobs'[i] = jobs[i]
      BY <2>2, <2>3, <2>4
    <2>5. CASE jobs'[i] # jobs[i]
      BY <1>3, <2>1, <2>3, <2>5
    <2>6. QED
      BY <2>4, <2>5
  <1>5. JobShape' /\ UNCHANGED <<workers, latest>>
    BY <1>4 DEF CancelWrite, JobShape, Settles
  <1>6. QED
    BY <1>2, <1>4, <1>5, RowsInv

LEMMA ReapStaleJobsInv ==
  ASSUME IInv, NEW S \in SUBSET Jobs, ReapStaleJobs(S) PROVE IInv'
  <1> USE DEF IInv
  <1>1. TypeOK'
    BY ReapedType, CloseOrphansType DEF ReapStaleJobs, TypeOK
  <1>2. \A i \in Jobs : RowShape(jobs'[i]) /\ Settles(jobs[i], jobs'[i])
    <2> SUFFICES ASSUME NEW i \in Jobs PROVE RowShape(jobs'[i]) /\ Settles(jobs[i], jobs'[i])
      OBVIOUS
    <2>1. jobs[i] \in Job /\ RowShape(jobs[i])
      BY DEF TypeOK, JobShape
    <2>2. CASE i \in S
      BY <2>1, <2>2, ReapedShape DEF ReapStaleJobs, StaleJobs
    <2>3. CASE i \notin S
      BY <2>1, <2>3 DEF ReapStaleJobs, Settles, Job
    <2>4. QED
      BY <2>2, <2>3
  <1>3. JobShape' /\ UNCHANGED <<workers, latest>>
    BY <1>2 DEF ReapStaleJobs, JobShape, Settles
  <1>4. QED
    BY <1>1, <1>2, <1>3, RowsInv

LEMMA ClockInv ==
  ASSUME IInv, NEW j \in Jobs, BackoffElapses(j) \/ HeartbeatAges(j) PROVE IInv'
  <1> USE DEF IInv
  <1>1. TypeOK' /\ UNCHANGED <<workers, latest>>
    <2>1. \A r \in Job : [r EXCEPT !.due = TRUE] \in Job /\ [r EXCEPT !.silent = TRUE] \in Job
      BY DEF Job
    <2>2. jobs' \in [Jobs -> Job]
      <3>1. CASE BackoffElapses(j)
        BY <2>1, <3>1 DEF BackoffElapses, TypeOK
      <3>2. CASE HeartbeatAges(j)
        BY <2>1, <3>2 DEF HeartbeatAges, TypeOK
      <3>3. QED
        BY <3>1, <3>2
    <2>3. QED
      BY <2>2 DEF BackoffElapses, HeartbeatAges, TypeOK
  <1>2. \A i \in Jobs : /\ jobs'[i].status = jobs[i].status
                        /\ jobs'[i].token = jobs[i].token
                        /\ jobs'[i].conn = jobs[i].conn
                        /\ jobs'[i].attempts = jobs[i].attempts
    BY DEF BackoffElapses, HeartbeatAges, TypeOK, Job
  <1>3. \A i \in Jobs : Settles(jobs[i], jobs'[i])
    BY <1>2 DEF Settles, TypeOK, Job
  <1>4. JobShape'
    BY <1>2 DEF BackoffElapses, HeartbeatAges, JobShape, RowShape
  <1>5. QED
    BY <1>1, <1>3, <1>4, RowsInv

-----------------------------------------------------------------------------
(* One lemma per step of the consumer that changes the job it is about      *)

LEMMA PickJobInv ==
  ASSUME IInv, NEW w \in Workers, NEW j \in Jobs, PickJob(w, j) PROVE IInv'
  <1> USE DEF IInv
  <1>1. [Parked("picked") EXCEPT !.job = j] \in Worker
    BY NoTokenType DEF Parked, Worker, RunStatus
  <1>2. TypeOK'
    BY <1>1 DEF PickJob, TypeOK
  <1>3. \A v \in Workers : \/ v # w /\ workers'[v] = workers[v]
                           \/ v = w /\ workers'[v].pc = "picked" /\ workers'[v].job = j
    BY DEF PickJob, Parked, TypeOK
  <1>4. JobShape' /\ RunningIsLatest' /\ OneRunningPerConnection'
    BY DEF PickJob, JobShape, RunningIsLatest, OneRunningPerConnection, Running
  <1>5. WorkerShape'
    BY <1>3 DEF PickJob, WorkerShape, Claimable, Busy
  <1>6. HeldIsRunning'
    BY <1>3 DEF PickJob, HeldIsRunning, HoldsToken, Busy
  <1>7. ClaimsAreUnique'
    BY <1>3 DEF ClaimsAreUnique, ClaimOf, Busy
  <1>8. QED
    BY <1>2, <1>4, <1>5, <1>6, <1>7

LEMMA ClaimPausedInv ==
  ASSUME IInv, NEW w \in Workers, ClaimPaused(w) PROVE IInv'
  <1> USE DEF IInv
  <1> DEFINE j == workers[w].job
             a == jobs[j].attempts + 1
             row == [jobs[j] EXCEPT !.status = "cancelled", !.attempts = a, !.token = a]
  <1>1. j \in Jobs /\ jobs[j].status = "queued" /\ jobs[j] \in Job
    BY DEF ClaimPaused, StillQueued, WorkerShape, TypeOK
  <1>2. jobs[j].attempts \in Int /\ a \in Int /\ a >= 1 /\ a > jobs[j].attempts
    BY <1>1 DEF Job
  <1>3. row \in Job
    <2>1. a \in 0..MaxAttempts /\ a \in {Revoked} \cup (0..MaxAttempts)
      BY <1>1, AttemptType
    <2> HIDE DEF a
    <2>2. QED
      BY <1>1, <2>1 DEF Job, JobStatus
  <1>4. jobs' = [jobs EXCEPT ![j] = row] /\ workers' = [workers EXCEPT ![w] = Parked("idle")]
        /\ UNCHANGED <<cancelling, latest, runs, conns, landed>>
    BY DEF ClaimPaused
  <1>5. row.status = "cancelled" /\ row.attempts = a /\ row.token = a /\ row.conn = jobs[j].conn
    BY <1>1 DEF Job
  <1> HIDE DEF j, a, row
  <1>6. TypeOK'
    BY <1>3, <1>4, ParkType DEF TypeOK
  <1>7. \A v \in Workers : /\ workers'[v].pc \in Busy \cup {"picked"} => v # w
                           /\ v # w => workers'[v] = workers[v]
    BY <1>4 DEF Parked, TypeOK, Busy
  <1>8. jobs'[j] = row /\ \A i \in Jobs \ {j} : jobs'[i] = jobs[i]
    BY <1>1, <1>4 DEF TypeOK
  <1>9. JobShape'
    BY <1>1, <1>4, <1>5, <1>8 DEF JobShape, RowShape
  <1>10. WorkerShape'
    <2> SUFFICES ASSUME NEW v \in Workers, v # w
                 PROVE  /\ workers[v].pc = "picked" => /\ workers[v].job \in Jobs
                                                       /\ jobs'[workers[v].job].status # "absent"
                        /\ workers[v].pc \in Busy =>
                             /\ workers[v].job \in Jobs
                             /\ jobs'[workers[v].job].status # "absent"
                             /\ workers[v].token >= 1
                             /\ workers[v].token <= jobs'[workers[v].job].attempts
      BY <1>7 DEF WorkerShape
    <2>1. workers[v].token \in Int
      BY DEF TypeOK, Worker
    <2>2. QED
      BY <1>1, <1>2, <1>5, <1>8, <2>1 DEF WorkerShape
  <1>11. HeldIsRunning'
    <2> SUFFICES ASSUME NEW v \in Workers, v # w, workers[v].pc \in Busy,
                        jobs'[workers[v].job].token = workers[v].token
                 PROVE  jobs'[workers[v].job].status = "running"
      BY <1>7 DEF HeldIsRunning, HoldsToken
    <2>1. workers[v].job # j
      BY <1>2, <1>5, <1>8 DEF WorkerShape, TypeOK, Worker
    <2>2. QED
      BY <1>8, <2>1 DEF HeldIsRunning, HoldsToken, WorkerShape
  <1>12. ClaimsAreUnique'
    BY <1>7 DEF ClaimsAreUnique, ClaimOf
  <1>13. RunningIsLatest'
    BY <1>4, <1>5, <1>8 DEF RunningIsLatest
  <1>14. OneRunningPerConnection'
    BY <1>5, <1>8 DEF OneRunningPerConnection, Running
  <1>15. QED
    BY <1>6, <1>9, <1>10, <1>11, <1>12, <1>13, <1>14

LEMMA ClaimJobInv ==
  ASSUME IInv, NEW w \in Workers, ClaimJob(w) PROVE IInv'
  <1> USE DEF IInv
  <1> DEFINE j == workers[w].job
             a == jobs[j].attempts + 1
             c == jobs[j].conn
             row == [jobs[j] EXCEPT !.status = "running", !.attempts = a, !.token = a,
                                    !.silent = FALSE]
             mine == [pc |-> "claimed", job |-> j, token |-> a, outcome |-> "none"]
  <1>1. j \in Jobs /\ jobs[j].status = "queued" /\ jobs[j] \in Job /\ c \in Connections
    BY DEF ClaimJob, StillQueued, WorkerShape, TypeOK, JobShape, RowShape
  <1>2. jobs[j].attempts \in Int /\ a \in Int /\ a >= 1 /\ a > jobs[j].attempts
    BY <1>1 DEF Job
  <1>3. row \in Job /\ mine \in Worker /\ <<j, a>> \in Claims
    <2>1. /\ a \in 0..MaxAttempts /\ a \in {Revoked} \cup (0..MaxAttempts)
          /\ a \in 1..MaxAttempts
      BY <1>1, AttemptType
    <2> HIDE DEF a
    <2>2. row \in Job
      BY <1>1, <2>1 DEF Job, JobStatus
    <2>3. mine \in Worker
      BY <1>1, <2>1 DEF Worker, Busy, RunStatus
    <2>4. <<j, a>> \in Claims
      BY <1>1, <2>1 DEF Claims
    <2>5. QED
      BY <2>2, <2>3, <2>4
  <1>4. /\ jobs' = [jobs EXCEPT ![j] = row] /\ workers' = [workers EXCEPT ![w] = mine]
        /\ latest' = [latest EXCEPT ![c] = <<j, a>>]
        /\ UNCHANGED <<cancelling, runs, conns, landed>>
        /\ \A i \in Jobs : jobs[i].status = "running" => jobs[i].conn # c
    BY DEF ClaimJob, UniqueRunning, Running
  <1>5. row.status = "running" /\ row.attempts = a /\ row.token = a /\ row.conn = c
    BY <1>1 DEF Job
  <1>6. mine.pc \in Busy /\ mine.pc # "picked" /\ mine.job = j /\ mine.token = a
    BY DEF Busy
  <1> HIDE DEF j, a, c, row, mine
  <1>7. TypeOK'
    BY <1>1, <1>3, <1>4 DEF TypeOK
  <1>8. workers'[w] = mine /\ \A v \in Workers \ {w} : workers'[v] = workers[v]
    BY <1>4 DEF TypeOK
  <1>9. jobs'[j] = row /\ \A i \in Jobs \ {j} : jobs'[i] = jobs[i]
    BY <1>1, <1>4 DEF TypeOK
  <1>10. JobShape'
    BY <1>1, <1>2, <1>4, <1>5, <1>9 DEF JobShape, RowShape
  <1>11. WorkerShape'
    <2> SUFFICES ASSUME NEW v \in Workers, v # w
                 PROVE  /\ workers[v].pc = "picked" => /\ workers[v].job \in Jobs
                                                       /\ jobs'[workers[v].job].status # "absent"
                        /\ workers[v].pc \in Busy =>
                             /\ workers[v].job \in Jobs
                             /\ jobs'[workers[v].job].status # "absent"
                             /\ workers[v].token >= 1
                             /\ workers[v].token <= jobs'[workers[v].job].attempts
      BY <1>1, <1>2, <1>5, <1>6, <1>8, <1>9 DEF WorkerShape
    <2>1. workers[v].token \in Int
      BY DEF TypeOK, Worker
    <2>2. QED
      BY <1>1, <1>2, <1>5, <1>9, <2>1 DEF WorkerShape
  <1>12. \A v \in Workers \ {w} :
           workers[v].pc \in Busy /\ workers[v].job = j => workers[v].token < a
    BY <1>2 DEF WorkerShape, TypeOK, Worker, a
  <1>13. HeldIsRunning'
    <2> SUFFICES ASSUME NEW v \in Workers, v # w, workers[v].pc \in Busy,
                        jobs'[workers[v].job].token = workers[v].token
                 PROVE  jobs'[workers[v].job].status = "running"
      BY <1>5, <1>6, <1>8, <1>9 DEF HeldIsRunning, HoldsToken
    <2>1. workers[v].job # j
      BY <1>2, <1>5, <1>9, <1>12 DEF TypeOK, Worker
    <2>2. QED
      BY <1>9, <2>1 DEF HeldIsRunning, HoldsToken, WorkerShape
  <1>14. ClaimsAreUnique'
    <2>1. \A v \in Workers \ {w} : workers[v].pc \in Busy => ClaimOf(v) # <<j, a>>
      BY <1>2, <1>12 DEF ClaimOf, TypeOK, Worker
    <2>2. QED
      BY <1>6, <1>8, <2>1 DEF ClaimsAreUnique, ClaimOf
  <1>15. RunningIsLatest'
    <2> SUFFICES ASSUME NEW i \in Jobs, jobs'[i].status = "running"
                 PROVE  latest'[jobs'[i].conn] = <<i, jobs'[i].token>>
      BY DEF RunningIsLatest
    <2>1. CASE i = j
      BY <1>1, <1>4, <1>5, <1>9, <2>1 DEF TypeOK
    <2>2. CASE i # j
      BY <1>4, <1>9, <2>2 DEF RunningIsLatest, TypeOK, JobShape, RowShape
    <2>3. QED
      BY <2>1, <2>2
  <1>16. OneRunningPerConnection'
    BY <1>4, <1>5, <1>9 DEF OneRunningPerConnection, Running
  <1>17. QED
    BY <1>7, <1>10, <1>11, <1>13, <1>14, <1>15, <1>16

LEMMA IngestInv ==
  ASSUME IInv, NEW w \in Workers, Ingest(w) PROVE IInv'
  <1> USE DEF IInv
  <1> DEFINE j == workers[w].job
  <1>1. j \in Jobs /\ jobs[j].status = "running" /\ workers[w].pc \in Busy
        /\ ClaimOf(w) \in Claims /\ jobs[j].conn \in Connections
    <2>1. workers[w].pc \in Busy /\ j \in Jobs /\ jobs[j].status = "running"
      BY DEF Ingest, Fence, Busy, WorkerShape
    <2>2. workers[w].token \in 1..MaxAttempts
      BY <2>1 DEF WorkerShape, TypeOK, Worker
    <2>3. QED
      BY <2>1, <2>2 DEF ClaimOf, Claims, JobShape, RowShape
  <1>2. PICK r \in IngestResults :
          /\ runs' = [runs EXCEPT ![ClaimOf(w)] = r[1]]
          /\ conns' = [conns EXCEPT ![jobs[j].conn] = [@ EXCEPT !.health = r[2], !.due = FALSE]]
          /\ Step(w, "finishing", r[1])
    BY DEF Ingest
  <1>3. /\ jobs' = [jobs EXCEPT ![j] = [@ EXCEPT !.silent = FALSE]]
        /\ landed' = landed \cup {ClaimOf(w)}
        /\ UNCHANGED <<cancelling, latest>>
    BY DEF Ingest
  <1> HIDE DEF j
  <1>4. r[1] \in RunStatus /\ r[2] \in Health
    BY <1>2 DEF IngestResults, RunStatus, Health
  <1>5. TypeOK'
    <2>1. \A row \in Job : [row EXCEPT !.silent = FALSE] \in Job
      BY DEF Job
    <2>2. jobs' \in [Jobs -> Job]
      BY <1>1, <1>3, <2>1 DEF TypeOK
    <2>3. \A row \in Connection : [row EXCEPT !.health = r[2], !.due = FALSE] \in Connection
      BY <1>4 DEF Connection
    <2>4. conns' \in [Connections -> Connection]
      BY <1>1, <1>2, <2>3 DEF TypeOK
    <2>5. runs' \in [Claims -> RunStatus]
      BY <1>1, <1>2, <1>4 DEF TypeOK
    <2>6. workers' \in [Workers -> Worker]
      BY <1>2, <1>4, StepType DEF Busy
    <2>7. QED
      BY <1>1, <1>3, <2>2, <2>4, <2>5, <2>6 DEF TypeOK
  <1>6. \A i \in Jobs : /\ jobs'[i].status = jobs[i].status
                        /\ jobs'[i].token = jobs[i].token
                        /\ jobs'[i].conn = jobs[i].conn
                        /\ jobs'[i].attempts = jobs[i].attempts
    BY <1>1, <1>3 DEF TypeOK, Job
  <1>7. \A v \in Workers : /\ workers'[v].job = workers[v].job
                           /\ workers'[v].token = workers[v].token
                           /\ workers'[v].pc \in Busy <=> workers[v].pc \in Busy
                           /\ workers'[v].pc = "picked" <=> workers[v].pc = "picked"
    BY <1>1, <1>2 DEF Step, TypeOK, Worker, Busy
  <1>8. JobShape' /\ RunningIsLatest' /\ OneRunningPerConnection'
    BY <1>3, <1>6 DEF JobShape, RowShape, RunningIsLatest, OneRunningPerConnection, Running
  <1>9. WorkerShape'
    BY <1>6, <1>7 DEF WorkerShape
  <1>10. HeldIsRunning'
    BY <1>6, <1>7 DEF HeldIsRunning, HoldsToken, WorkerShape
  <1>11. ClaimsAreUnique'
    BY <1>7 DEF ClaimsAreUnique, ClaimOf
  <1>12. QED
    BY <1>5, <1>8, <1>9, <1>10, <1>11

\* The worker closes its own job: every other worker's token on it is already
\* stale, because no two workers carry the same claim.
LEMMA FinishJobInv ==
  ASSUME IInv, NEW w \in Workers, FinishJob(w) PROVE IInv'
  <1> USE DEF IInv
  <1> DEFINE j == workers[w].job
             row == Closed(jobs[j], workers[w].outcome)
  <1>1. /\ j \in Jobs /\ jobs[j].status = "running" /\ jobs[j] \in Job /\ RowShape(jobs[j])
        /\ workers[w].pc \in Busy /\ HoldsToken(w)
    BY DEF FinishJob, HeldIsRunning, WorkerShape, Busy, TypeOK, JobShape
  <1>2. /\ jobs' = [jobs EXCEPT ![j] = row]
        /\ workers' = [workers EXCEPT ![w] = Parked("idle")]
        /\ runs' = CloseOrphans({j})
        /\ UNCHANGED <<conns, cancelling, landed, latest>>
    BY DEF FinishJob
  <1>3. row \in Job
    BY <1>1, ClosedType
  <1>4. /\ row.status \in {"queued", "done", "cancelled", "expired"}
        /\ row.conn = jobs[j].conn /\ row.attempts = jobs[j].attempts
        /\ row.status = "queued" => row.token = NoToken /\ row.attempts < MaxAttempts
        /\ row.status # "queued" => row.token = jobs[j].token
        /\ row.status = "expired" => row.attempts = MaxAttempts
    <2>1. jobs[j].attempts \in Int /\ jobs[j].attempts <= MaxAttempts
      BY <1>1, MaxAttemptsAssumption DEF Job
    <2>2. CASE workers[w].outcome = "cancelled"
      BY <1>1, <2>2 DEF Closed, Job
    <2>3. CASE workers[w].outcome = "error" /\ jobs[j].attempts < MaxAttempts
      <3>1. row = Requeued(jobs[j])
        BY <2>1, <2>3, MaxAttemptsAssumption DEF Closed
      <3>2. LET q == Requeued(jobs[j])
            IN  /\ q.status = "queued" /\ q.token = NoToken
                /\ q.conn = jobs[j].conn /\ q.attempts = jobs[j].attempts
        BY <1>1 DEF Requeued, Job
      <3> HIDE DEF row
      <3>3. QED
        BY <2>3, <3>1, <3>2
    <2>4. CASE workers[w].outcome = "error" /\ ~(jobs[j].attempts < MaxAttempts)
      BY <1>1, <2>1, <2>4, MaxAttemptsAssumption DEF Closed, Job
    <2>5. CASE workers[w].outcome \notin {"cancelled", "error"}
      BY <1>1, <2>5 DEF Closed, Job
    <2>6. QED
      BY <2>2, <2>3, <2>4, <2>5
  <1> HIDE DEF j, row
  <1>5. TypeOK'
    <2>1. workers' \in [Workers -> Worker]
      BY <1>2, ParkType
    <2>2. QED
      BY <1>1, <1>2, <1>3, <2>1, CloseOrphansType DEF TypeOK
  <1>6. \A v \in Workers : /\ workers'[v].pc \in Busy \cup {"picked"} => v # w
                           /\ v # w => workers'[v] = workers[v]
    BY <1>2 DEF Parked, TypeOK, Busy
  <1>7. jobs'[j] = row /\ \A i \in Jobs \ {j} : jobs'[i] = jobs[i]
    BY <1>1, <1>2 DEF TypeOK
  <1>8. JobShape'
    BY <1>1, <1>2, <1>4, <1>7 DEF JobShape, RowShape
  <1>9. WorkerShape'
    BY <1>4, <1>6, <1>7 DEF WorkerShape
  <1>10. HeldIsRunning'
    <2> SUFFICES ASSUME NEW v \in Workers, v # w, workers[v].pc \in Busy,
                        jobs'[workers[v].job].token = workers[v].token
                 PROVE  jobs'[workers[v].job].status = "running"
      BY <1>6 DEF HeldIsRunning, HoldsToken
    <2>1. workers[v].job # j
      <3>1. SUFFICES ASSUME workers[v].job = j PROVE FALSE
        OBVIOUS
      <3>2. row.token # NoToken
        BY <1>7, <3>1 DEF WorkerShape, NoToken
      <3>3. ClaimOf(v) = ClaimOf(w)
        BY <1>1, <1>4, <1>7, <3>1, <3>2 DEF ClaimOf, HoldsToken, j
      <3>4. QED
        BY <1>1, <3>3 DEF ClaimsAreUnique
    <2>2. QED
      BY <1>7, <2>1 DEF HeldIsRunning, HoldsToken, WorkerShape
  <1>11. ClaimsAreUnique'
    BY <1>6 DEF ClaimsAreUnique, ClaimOf
  <1>12. RunningIsLatest'
    BY <1>2, <1>4, <1>7 DEF RunningIsLatest
  <1>13. OneRunningPerConnection'
    BY <1>4, <1>7 DEF OneRunningPerConnection, Running
  <1>14. QED
    BY <1>5, <1>8, <1>9, <1>10, <1>11, <1>12, <1>13

-----------------------------------------------------------------------------
(* Every step                                                              *)

\* Steps of the API and the clock that only touch a connection.
LEMMA ConnectionStepInv ==
  ASSUME IInv, NEW c \in Connections,
         \/ ClaimConnection(c) \/ (\E b \in BOOLEAN : SetEnabled(c, b))
         \/ Retune(c) \/ IntervalElapses(c)
  PROVE  IInv'
  <1> USE DEF IInv
  <1>1. conns' \in [Connections -> Connection]
    <2>1. CASE ClaimConnection(c)
      BY <2>1 DEF ClaimConnection, TypeOK, Connection, Health
    <2>2. CASE \E b \in BOOLEAN : SetEnabled(c, b)
      BY <2>2 DEF SetEnabled, TypeOK, Connection
    <2>3. CASE Retune(c)
      BY <2>3 DEF Retune, TypeOK, Connection
    <2>4. CASE IntervalElapses(c)
      BY <2>4 DEF IntervalElapses, TypeOK, Connection
    <2>5. QED
      BY <2>1, <2>2, <2>3, <2>4
  <1>2. UNCHANGED <<jobs, runs, workers, cancelling, landed, latest>>
    BY DEF ClaimConnection, SetEnabled, Retune, IntervalElapses
  <1>3. TypeOK'
    BY <1>1, <1>2 DEF TypeOK
  <1>4. QED
    BY <1>2, <1>3, QuietInv

\* Steps of a worker within its claim.
LEMMA RunStepInv ==
  ASSUME IInv, NEW w \in Workers,
         \/ OpenRun(w) \/ OpenRunGone(w) \/ Fetch(w)
         \/ Discard(w) \/ IngestRaises(w) \/ FinishFailed(w)
  PROVE  IInv'
  <1> USE DEF IInv
  <1>1. PICK pc \in Busy, o \in RunStatus \cup FailKinds : Step(w, pc, o)
    BY DEF OpenRun, OpenRunGone, Fetch, Discard, IngestRaises, FinishFailed, Busy,
           RunStatus, FailKinds
  <1>2. workers[w].pc \in Busy
    BY DEF OpenRun, OpenRunGone, Fetch, Discard, IngestRaises, FinishFailed, Busy
  <1>3. UNCHANGED <<jobs, cancelling, landed, latest>>
    BY DEF OpenRun, OpenRunGone, Fetch, Discard, IngestRaises, FinishFailed
  <1>4. runs' \in [Claims -> RunStatus]
    BY DEF OpenRun, OpenRunGone, Fetch, Discard, IngestRaises, FinishFailed, RunStatus, TypeOK
  <1>5. conns' \in [Connections -> Connection]
    <2>1. CASE FinishFailed(w)
      <3>1. \A row \in Connection : \A kind :
              [row EXCEPT !.health = HealthAfter(kind, row.health), !.due = FALSE] \in Connection
        BY DEF Connection, HealthAfter, Health
      <3> DEFINE c == jobs[workers[w].job].conn
      <3>2. c \in Connections /\ conns[c] \in Connection
        BY <2>1 DEF FinishFailed, Busy, WorkerShape, JobShape, RowShape, TypeOK
      <3>3. PICK row \in Connection : conns' = conns \/ conns' = [conns EXCEPT ![c] = row]
        BY <2>1, <3>1, <3>2 DEF FinishFailed
      <3> HIDE DEF c
      <3>4. QED
        BY <3>2, <3>3 DEF TypeOK
    <2>2. CASE ~FinishFailed(w)
      BY <2>2 DEF OpenRun, OpenRunGone, Fetch, Discard, IngestRaises, TypeOK
    <2>3. QED
      BY <2>1, <2>2
  <1>6. TypeOK'
    BY <1>1, <1>3, <1>4, <1>5, StepType DEF TypeOK
  <1>7. QED
    BY <1>1, <1>2, <1>3, <1>6, StepInv

LEMMA StutterInv == ASSUME IInv, UNCHANGED vars PROVE IInv'
  <1>1. TypeOK'
    BY DEF IInv, vars, TypeOK
  <1>2. QED
    BY <1>1, QuietInv DEF vars

LEMMA NextInv == IInv /\ [Next]_vars => IInv'
  <1> SUFFICES ASSUME IInv, [Next]_vars PROVE IInv'
    OBVIOUS
  <1>1. ASSUME NEW c \in Connections, Api(c) \/ IntervalElapses(c) PROVE IInv'
    BY <1>1, ConnectionStepInv, DeleteConnectionInv, EnqueueSyncInv DEF Api
  <1>2. ASSUME NEW j \in Jobs,
               CancelRead(j) \/ CancelWrite(j) \/ BackoffElapses(j) \/ HeartbeatAges(j)
        PROVE  IInv'
    BY <1>2, CancelReadInv, CancelWriteInv, ClockInv
  <1>3. CASE EnqueueScheduledSyncs
    BY <1>3, EnqueueScheduledSyncsInv
  <1>4. ASSUME NEW S \in SUBSET Jobs, ReapStaleJobs(S) PROVE IInv'
    BY <1>4, ReapStaleJobsInv
  <1>5. ASSUME NEW w \in Workers, NEW j \in Jobs, PickJob(w, j) PROVE IInv'
    BY <1>5, PickJobInv
  <1>6. ASSUME NEW w \in Workers, LoseClaim(w) \/ FinishLost(w) \/ Crash(w) \/ Restart(w)
        PROVE  IInv'
    <2>1. \E pc \in {"idle", "down"} : workers' = [workers EXCEPT ![w] = Parked(pc)]
      BY <1>6 DEF LoseClaim, FinishLost, Crash, Restart
    <2>2. UNCHANGED <<jobs, runs, conns, cancelling, landed, latest>>
      BY <1>6 DEF LoseClaim, FinishLost, Crash, Restart
    <2>3. QED
      BY <2>1, <2>2, ParkInv
  <1>7. ASSUME NEW w \in Workers, ClaimPaused(w) \/ ClaimJob(w) PROVE IInv'
    BY <1>7, ClaimPausedInv, ClaimJobInv
  <1>8. ASSUME NEW w \in Workers, RunOne(w), ~FinishLost(w) PROVE IInv'
    BY <1>8, RunStepInv, IngestInv, FinishJobInv DEF RunOne
  <1>9. CASE UNCHANGED vars
    BY <1>9, StutterInv
  <1>10. QED
    BY <1>1, <1>2, <1>3, <1>4, <1>5, <1>6, <1>7, <1>8, <1>9 DEF Next, Claim

\* The invariant holds of every reachable state of the queue.
THEOREM Inductive == Spec => []IInv
  BY InitInv, NextInv, PTL DEF Spec

-----------------------------------------------------------------------------
(* What follows                                                            *)

\* ADR-0004, for any number of workers and queued jobs: a connection has at most
\* one running job.
THEOREM AtMostOneRunning == Spec => []OneRunningPerConnection
  <1>1. IInv => OneRunningPerConnection
    BY DEF IInv
  <1>2. QED
    BY <1>1, Inductive, PTL

\* The tables hold what their columns allow, whatever the workers do.
THEOREM TypeCorrect == Spec => []TypeOK
  <1>1. IInv => TypeOK
    BY DEF IInv
  <1>2. QED
    BY <1>1, Inductive, PTL

\* No job is given up on early, and no spent job is queued again.
THEOREM BudgetKept == Spec => []RetryBudget
  <1>1. IInv => RetryBudget
    BY DEF IInv, JobShape, RowShape, RetryBudget
  <1>2. QED
    BY <1>1, Inductive, PTL

\* A payload lands only under the newest claim on its connection, however many
\* workers were reaped, cancelled or slow before.
THEOREM FencedLanding == Spec => OnlyLatestClaimLands
  <1>1. IInv /\ [Next]_vars => [\A k \in landed' \ landed : latest[jobs[k[1]].conn] = k]_vars
    <2> SUFFICES ASSUME IInv, Next, NEW k \in landed' \ landed
                 PROVE  latest[jobs[k[1]].conn] = k
      OBVIOUS
    <2>1. PICK w \in Workers : Ingest(w)
      BY DEF Next, Api, Claim, RunOne, ClaimConnection, SetEnabled, Retune, DeleteConnection,
             EnqueueSync, IntervalElapses, CancelRead, CancelWrite, BackoffElapses,
             HeartbeatAges, EnqueueScheduledSyncs, ReapStaleJobs, PickJob, LoseClaim,
             ClaimPaused, ClaimJob, OpenRun, OpenRunGone, Fetch, Discard, IngestRaises,
             FinishFailed, FinishJob, FinishLost, Crash, Restart
    <2>2. k = ClaimOf(w) /\ Fence(w) /\ workers[w].job \in Jobs
      BY <2>1 DEF Ingest, IInv, WorkerShape, Busy
    <2>3. QED
      BY <2>2 DEF Fence, HoldsToken, ClaimOf, IInv, RunningIsLatest
  <1>2. QED
    BY <1>1, Inductive, PTL DEF Spec, OnlyLatestClaimLands

\* A stopped job stays stopped: every token handed out for it is useless, and
\* nothing but a fenced write or a fresh claim makes a job queued or running.
THEOREM StoppedIsFinal == Spec => StoppedStaysStopped
  <1>1. IInv /\ [Next]_vars =>
          [\A j \in Jobs : jobs[j].status \in Stopped => jobs'[j].status \in Stopped]_vars
    <2> SUFFICES ASSUME IInv, Next, NEW j \in Jobs, jobs[j].status \in Stopped
                 PROVE  jobs'[j].status \in Stopped
      OBVIOUS
    <2> USE DEF IInv, Stopped
    <2>1. ASSUME NEW c \in Connections, DeleteConnection(c) PROVE jobs'[j].status \in Stopped
      BY <2>1 DEF DeleteConnection, TypeOK, Job
    <2>2. ASSUME EnqueueScheduledSyncs PROVE jobs'[j].status \in Stopped
      BY <2>2 DEF EnqueueScheduledSyncs, FreshJobs
    <2>3. ASSUME NEW c \in Connections, EnqueueSync(c) PROVE jobs'[j].status \in Stopped
      BY <2>3 DEF EnqueueSync, FreshJobs, TypeOK
    <2>4. ASSUME NEW i \in Jobs,
                 CancelRead(i) \/ CancelWrite(i) \/ BackoffElapses(i) \/ HeartbeatAges(i)
          PROVE  jobs'[j].status \in Stopped
      BY <2>4 DEF CancelRead, CancelWrite, BackoffElapses, HeartbeatAges, TypeOK, Job
    <2>5. ASSUME NEW S \in SUBSET Jobs, ReapStaleJobs(S) PROVE jobs'[j].status \in Stopped
      BY <2>5 DEF ReapStaleJobs, StaleJobs
    <2>6. ASSUME NEW w \in Workers, ClaimPaused(w) \/ ClaimJob(w)
          PROVE  jobs'[j].status \in Stopped
      BY <2>6 DEF ClaimPaused, ClaimJob, StillQueued, TypeOK
    <2>7. ASSUME NEW w \in Workers, Ingest(w) \/ FinishJob(w)
          PROVE  jobs'[j].status \in Stopped
      <3>1. jobs[workers[w].job].status = "running"
        BY <2>7 DEF Ingest, FinishJob, Fence, HeldIsRunning, Busy
      <3>2. QED
        BY <2>7, <3>1 DEF Ingest, FinishJob, TypeOK
    <2>8. CASE UNCHANGED jobs
      BY <2>8
    <2>9. QED
      BY <2>1, <2>2, <2>3, <2>4, <2>5, <2>6, <2>7, <2>8
         DEF Next, Api, Claim, RunOne, ClaimConnection, SetEnabled, Retune, IntervalElapses,
             PickJob, LoseClaim, OpenRun, OpenRunGone, Fetch, Discard, IngestRaises,
             FinishFailed, FinishLost, Crash, Restart
  <1>2. QED
    BY <1>1, Inductive, PTL DEF Spec, StoppedStaysStopped

\* Finishing and reaping close every run of the job they let go of: no crash or
\* late worker between the two leaves a run that says it is still going.
THEOREM RunsAreClosed == Spec => LettingGoClosesRuns
  <1>1. IInv /\ [Next]_vars =>
          [\A j \in Jobs :
             jobs[j].status = "running" /\ jobs'[j].status \in {"queued", "done", "expired"}
               => \A k \in Claims : k[1] = j => runs'[k] # "running"]_vars
    <2> SUFFICES ASSUME IInv, Next, NEW j \in Jobs, jobs[j].status = "running",
                        jobs'[j].status \in {"queued", "done", "expired"}
                 PROVE  \A k \in Claims : k[1] = j => runs'[k] # "running"
      OBVIOUS
    <2> USE DEF IInv
    <2>1. ASSUME NEW S, j \in S, runs' = CloseOrphans(S)
          PROVE  \A k \in Claims : k[1] = j => runs'[k] # "running"
      BY <2>1 DEF CloseOrphans
    <2>2. ASSUME NEW S \in SUBSET Jobs, ReapStaleJobs(S)
          PROVE  j \in S /\ runs' = CloseOrphans(S)
      BY <2>2 DEF ReapStaleJobs
    <2>3. ASSUME NEW w \in Workers, FinishJob(w)
          PROVE  \E S : j \in S /\ runs' = CloseOrphans(S)
      <3>1. workers[w].job = j
        BY <2>3 DEF FinishJob, TypeOK
      <3>2. QED
        BY <2>3, <3>1 DEF FinishJob
    <2>4. ASSUME NEW c \in Connections, Api(c) \/ IntervalElapses(c) PROVE FALSE
      <3>1. CASE DeleteConnection(c)
        BY <3>1 DEF DeleteConnection, TypeOK, Job
      <3>2. CASE EnqueueSync(c)
        BY <3>2 DEF EnqueueSync, FreshJobs, TypeOK
      <3>3. CASE UNCHANGED jobs
        BY <3>3
      <3>4. QED
        BY <2>4, <3>1, <3>2, <3>3
           DEF Api, ClaimConnection, SetEnabled, Retune, IntervalElapses
    <2>5. ASSUME NEW i \in Jobs,
                 CancelRead(i) \/ CancelWrite(i) \/ BackoffElapses(i) \/ HeartbeatAges(i)
          PROVE  FALSE
      <3>1. jobs[i] \in Job
        BY DEF TypeOK
      <3>2. CASE CancelRead(i)
        BY <3>2 DEF CancelRead
      <3>3. CASE CancelWrite(i)
        BY <3>1, <3>3 DEF CancelWrite, TypeOK, Job
      <3>4. CASE BackoffElapses(i) \/ HeartbeatAges(i)
        BY <3>1, <3>4 DEF BackoffElapses, HeartbeatAges, TypeOK, Job
      <3>5. QED
        BY <2>5, <3>2, <3>3, <3>4
    <2>6. ASSUME EnqueueScheduledSyncs PROVE FALSE
      BY <2>6 DEF EnqueueScheduledSyncs, FreshJobs
    <2>7. ASSUME NEW w \in Workers, ClaimPaused(w) \/ ClaimJob(w) PROVE FALSE
      BY <2>7 DEF ClaimPaused, ClaimJob, StillQueued, TypeOK, Job
    <2>8. ASSUME NEW w \in Workers, Ingest(w) PROVE FALSE
      BY <2>8 DEF Ingest, TypeOK, Job
    <2>9. QED
      BY <2>1, <2>2, <2>3, <2>4, <2>5, <2>6, <2>7, <2>8
         DEF Next, Claim, RunOne, PickJob, LoseClaim, OpenRun, OpenRunGone, Fetch, Discard,
             IngestRaises, FinishFailed, FinishLost, Crash, Restart
  <1>2. QED
    BY <1>1, Inductive, PTL DEF Spec, LettingGoClosesRuns

-----------------------------------------------------------------------------
(* The queue implements the lease                                          *)

\* A connection's holder is its running job's claim, whichever job that is.
LEMMA HolderIs ==
  ASSUME IInv, NEW j \in Jobs, jobs[j].status = "running"
  PROVE  /\ jobs[j].conn \in Connections
         /\ HolderOf(jobs[j].conn) = <<j, jobs[j].token>>
         /\ HolderOf(jobs[j].conn) \in Claims
         /\ HolderOf(jobs[j].conn) # None
  <1> USE DEF IInv
  <1>1. jobs[j].conn \in Connections /\ jobs[j].token \in 1..MaxAttempts
    BY MaxAttemptsAssumption DEF JobShape, RowShape, TypeOK, Job
  <1>2. Running(jobs[j].conn) = {j}
    BY <1>1 DEF OneRunningPerConnection, Running
  <1>3. HolderOf(jobs[j].conn) = <<j, jobs[j].token>>
    BY <1>2 DEF HolderOf
  <1>4. QED
    BY <1>1, <1>3, NoneIsNotARow DEF Claims

\* A connection whose running jobs, and their tokens, stay keeps its holder.
LEMMA HolderStays ==
  ASSUME NEW c, Running(c)' = Running(c), \A i \in Running(c) : jobs'[i].token = jobs[i].token
  PROVE  HolderOf(c)' = HolderOf(c)
  <1>1. CASE Running(c) = {}
    BY <1>1 DEF HolderOf
  <1>2. CASE Running(c) # {}
    <2> DEFINE i == CHOOSE j \in Running(c) : TRUE
    <2>1. i \in Running(c)
      BY <1>2
    <2>2. HolderOf(c) = <<i, jobs[i].token>>
      BY <1>2 DEF HolderOf
    <2>3. HolderOf(c)' = <<i, jobs'[i].token>>
      BY <1>2 DEF HolderOf
    <2>4. QED
      BY <2>1, <2>2, <2>3
  <1>3. QED
    BY <1>1, <1>2

\* A step that starts no job and grants no attempt takes leases back, or none.
LEMMA WithdrawStep ==
  ASSUME IInv, UNCHANGED landed,
         \A i \in Jobs : /\ jobs'[i].attempts = jobs[i].attempts
                         /\ jobs'[i].status = "running" => /\ jobs[i].status = "running"
                                                           /\ jobs'[i].token = jobs[i].token
                                                           /\ jobs'[i].conn = jobs[i].conn
  PROVE  Lease!Next
  <1> DEFINE S == {c \in Connections : Running(c)' # Running(c)}
  <1>1. Granted' = Granted
    BY DEF Granted, Claims
  <1>2. ASSUME NEW c \in S PROVE HolderOf(c)' = None
    <2>1. Running(c)' \subseteq Running(c)
      BY DEF Running
    <2>2. Running(c)' = {}
      BY <2>1 DEF Running, OneRunningPerConnection, IInv
    <2>3. QED
      BY <2>2 DEF HolderOf
  <1>3. ASSUME NEW c \in Connections \ S PROVE HolderOf(c)' = HolderOf(c)
    <2>1. Running(c)' = Running(c)
      OBVIOUS
    <2>2. \A i \in Running(c) : jobs'[i].token = jobs[i].token
      BY <2>1 DEF Running
    <2>3. QED
      BY <2>1, <2>2, HolderStays
  <1> HIDE DEF S
  <1>4. [c \in Connections |-> HolderOf(c)]' =
          [c \in Connections |-> IF c \in S THEN None ELSE [d \in Connections |-> HolderOf(d)][c]]
    BY <1>2, <1>3
  <1>5. S \in SUBSET Connections
    BY DEF S
  <1>6. Lease!Withdraw(S)
    BY <1>1, <1>4 DEF Lease!Withdraw
  <1>7. QED
    BY <1>5, <1>6 DEF Lease!Next

\* What a claim does to the set of claims ever granted.
LEMMA GrantOne ==
  ASSUME IInv, NEW j \in Jobs, jobs[j].status = "queued",
         jobs'[j].attempts = jobs[j].attempts + 1,
         \A i \in Jobs \ {j} : jobs'[i] = jobs[i]
  PROVE  /\ <<j, jobs[j].attempts + 1>> \in Claims \ Granted
         /\ Granted' = Granted \cup {<<j, jobs[j].attempts + 1>>}
  <1> DEFINE a == jobs[j].attempts + 1
  <1>1. a \in 1..MaxAttempts /\ jobs[j].attempts \in Nat
    BY AttemptType, MaxAttemptsAssumption DEF IInv, TypeOK, Job
  <1>2. \A k \in Claims : k[1] \in Jobs /\ k[2] \in Int /\ k = <<k[1], k[2]>>
    BY MaxAttemptsAssumption DEF Claims
  <1>3. <<j, a>> \in Claims /\ <<j, a>> \notin Granted
    BY <1>1 DEF Claims, Granted
  <1>4. \A k \in Claims : k[2] <= jobs'[k[1]].attempts <=>
                          k[2] <= jobs[k[1]].attempts \/ k = <<j, a>>
    <2> SUFFICES ASSUME NEW k \in Claims
                 PROVE  k[2] <= jobs'[k[1]].attempts <=>
                        k[2] <= jobs[k[1]].attempts \/ k = <<j, a>>
      OBVIOUS
    <2>1. CASE k[1] = j
      <3>1. k = <<j, k[2]>> /\ k[2] \in Int
        BY <1>2, <2>1
      <3>2. k = <<j, a>> <=> k[2] = a
        BY <3>1
      <3>3. QED
        BY <1>1, <2>1, <3>1, <3>2
    <2>2. CASE k[1] # j
      BY <1>2, <2>2
    <2>3. QED
      BY <2>1, <2>2
  <1>5. Granted' = {k \in Claims : k[2] <= jobs'[k[1]].attempts}
    BY DEF Granted, Claims
  <1>6. QED
    BY <1>3, <1>4, <1>5 DEF Granted

\* A claim on an enabled connection is granted the lease nobody holds.
LEMMA ClaimJobGrants ==
  ASSUME IInv, IInv', NEW w \in Workers, ClaimJob(w) PROVE Lease!Next
  <1> USE DEF IInv
  <1> SUFFICES ASSUME NEW j, j = workers[w].job, NEW c, c = jobs[j].conn,
                      NEW a, a = jobs[j].attempts + 1
               PROVE  Lease!Next
    OBVIOUS
  <1> DEFINE k == <<j, a>>
  <1>1. /\ j \in Jobs /\ jobs[j].status = "queued" /\ c \in Connections
        /\ Running(c) = {}
    BY DEF ClaimJob, WorkerShape, StillQueued, UniqueRunning, JobShape, RowShape
  <1>2. /\ jobs'[j].status = "running" /\ jobs'[j].conn = c
        /\ jobs'[j].attempts = a /\ jobs'[j].token = a
        /\ \A i \in Jobs \ {j} : jobs'[i] = jobs[i]
        /\ landed' = landed
    <2>1. jobs[j] \in Job
      BY <1>1 DEF TypeOK
    <2>2. /\ jobs' = [jobs EXCEPT ![j] = [@ EXCEPT !.status = "running", !.silent = FALSE,
                                        !.attempts = a, !.token = a]]
          /\ landed' = landed
      BY <2>1 DEF ClaimJob, Job
    <2>3. QED
      BY <1>1, <2>1, <2>2 DEF TypeOK, Job
  <1>3. k \in Claims \ Granted /\ Granted' = Granted \cup {k}
    BY <1>1, <1>2, GrantOne
  <1>4. HolderOf(c) = None
    BY <1>1 DEF HolderOf
  <1>5. HolderOf(c)' = k
    <2>1. \A i \in Jobs : jobs'[i].status = "running" /\ jobs'[i].conn = c <=> i = j
      BY <1>1, <1>2 DEF Running
    <2>2. Running(c)' = {j}
      BY <1>1, <2>1 DEF Running
    <2>3. QED
      BY <1>2, <2>2 DEF HolderOf
  <1>6. ASSUME NEW d \in Connections, d # c PROVE HolderOf(d)' = HolderOf(d)
    <2>1. Running(d)' = Running(d) /\ j \notin Running(d)
      BY <1>1, <1>2, <1>6 DEF Running
    <2>2. \A i \in Running(d) : jobs'[i].token = jobs[i].token
      BY <1>2, <2>1 DEF Running
    <2>3. QED
      BY <2>1, <2>2, HolderStays
  <1> HIDE DEF k
  <1>7. [d \in Connections |-> HolderOf(d)]' =
          [[d \in Connections |-> HolderOf(d)] EXCEPT ![c] = k]
    <2>1. \A d \in Connections : HolderOf(d)' = IF d = c THEN k ELSE HolderOf(d)
      BY <1>5, <1>6
    <2>2. QED
      BY <1>1, <2>1
  <1>8. Lease!Grant(c, k)
    BY <1>1, <1>2, <1>3, <1>4, <1>7 DEF Lease!Grant
  <1>9. QED
    BY <1>1, <1>3, <1>8 DEF Lease!Next

\* A claim on a paused connection is spent and given up in one transaction.
LEMMA ClaimPausedForgoes ==
  ASSUME IInv, NEW w \in Workers, ClaimPaused(w) PROVE Lease!Next
  <1> USE DEF IInv
  <1> DEFINE j == workers[w].job
             k == <<j, jobs[j].attempts + 1>>
  <1>1. j \in Jobs /\ jobs[j].status = "queued"
    BY DEF ClaimPaused, WorkerShape, StillQueued
  <1>2. /\ jobs'[j].status = "cancelled" /\ jobs'[j].attempts = jobs[j].attempts + 1
        /\ \A i \in Jobs \ {j} : jobs'[i] = jobs[i]
        /\ landed' = landed
    BY <1>1 DEF ClaimPaused, TypeOK, Job
  <1> HIDE DEF j
  <1>3. k \in Claims \ Granted /\ Granted' = Granted \cup {k}
    BY <1>1, <1>2, GrantOne
  <1>4. ASSUME NEW d \in Connections PROVE HolderOf(d)' = HolderOf(d)
    <2>1. Running(d)' = Running(d) /\ j \notin Running(d)
      BY <1>1, <1>2 DEF Running
    <2>2. \A i \in Running(d) : jobs'[i].token = jobs[i].token
      BY <1>2, <2>1 DEF Running
    <2>3. QED
      BY <2>1, <2>2, HolderStays
  <1> HIDE DEF k
  <1>5. [d \in Connections |-> HolderOf(d)]' = [d \in Connections |-> HolderOf(d)]
    BY <1>4
  <1>6. Lease!Forgo(k)
    BY <1>2, <1>3, <1>5 DEF Lease!Forgo
  <1>7. QED
    BY <1>3, <1>6 DEF Lease!Next

\* The fence: what lands is what the holder of the lease fetched.
LEMMA IngestLands ==
  ASSUME IInv, NEW w \in Workers, Ingest(w) PROVE Lease!Next
  <1> USE DEF IInv
  <1> DEFINE j == workers[w].job
             c == jobs[j].conn
  <1>1. j \in Jobs /\ jobs[j].status = "running" /\ jobs[j].token = workers[w].token
    BY DEF Ingest, Fence, HoldsToken, WorkerShape, Busy
  <1>2. c \in Connections /\ HolderOf(c) = ClaimOf(w) /\ HolderOf(c) # None
    BY <1>1, HolderIs DEF ClaimOf
  <1>3. /\ landed' = landed \cup {ClaimOf(w)}
        /\ \A i \in Jobs : /\ jobs'[i].status = jobs[i].status /\ jobs'[i].conn = jobs[i].conn
                           /\ jobs'[i].token = jobs[i].token
                           /\ jobs'[i].attempts = jobs[i].attempts
    BY <1>1 DEF Ingest, TypeOK, Job
  <1>4. Granted' = Granted
    BY <1>3 DEF Granted, Claims
  <1>5. ASSUME NEW d \in Connections PROVE HolderOf(d)' = HolderOf(d)
    <2>1. Running(d)' = Running(d) /\ \A i \in Running(d) : jobs'[i].token = jobs[i].token
      BY <1>3 DEF Running
    <2>2. QED
      BY <2>1, HolderStays
  <1> HIDE DEF c
  <1>6. [d \in Connections |-> HolderOf(d)]' = [d \in Connections |-> HolderOf(d)]
    BY <1>5
  <1>7. Lease!Land(c)
    BY <1>2, <1>3, <1>4, <1>6 DEF Lease!Land
  <1>8. QED
    BY <1>2, <1>7 DEF Lease!Next

\* Every other step that writes a job row takes leases back, or changes none.
LEMMA OtherRowsWithdraw ==
  ASSUME IInv,
         \/ \E c \in Connections : Api(c) \/ IntervalElapses(c)
         \/ \E j \in Jobs : CancelRead(j) \/ CancelWrite(j) \/ BackoffElapses(j) \/ HeartbeatAges(j)
         \/ EnqueueScheduledSyncs
         \/ \E S \in SUBSET Jobs : ReapStaleJobs(S)
         \/ \E w \in Workers : FinishJob(w)
  PROVE  Lease!Next
  <1> USE DEF IInv
  <1> DEFINE Shrinks(i) == /\ jobs'[i].attempts = jobs[i].attempts
                           /\ jobs'[i].status = "running" =>
                                /\ jobs[i].status = "running"
                                /\ jobs'[i].token = jobs[i].token
                                /\ jobs'[i].conn = jobs[i].conn
  <1>1. UNCHANGED landed
    BY DEF Api, ClaimConnection, SetEnabled, Retune, DeleteConnection, EnqueueSync,
           IntervalElapses, CancelRead, CancelWrite, BackoffElapses, HeartbeatAges,
           EnqueueScheduledSyncs, ReapStaleJobs, FinishJob
  <1> SUFFICES ASSUME NEW i \in Jobs PROVE Shrinks(i)
    BY <1>1, WithdrawStep
  <1>2. jobs[i] \in Job /\ RowShape(jobs[i])
    BY DEF TypeOK, JobShape
  <1>3. ASSUME NEW c, jobs[i].status = "absent", jobs'[i] = QueuedJob(c) PROVE Shrinks(i)
    BY <1>2, <1>3 DEF QueuedJob, AbsentJob, RowShape
  <1>4. ASSUME jobs'[i] = Requeued(jobs[i]) PROVE Shrinks(i)
    BY <1>2, <1>4 DEF Requeued, Job
  <1>5. ASSUME NEW c \in Connections, DeleteConnection(c) PROVE Shrinks(i)
    BY <1>2, <1>5 DEF DeleteConnection, Job
  <1>6. ASSUME NEW c \in Connections, EnqueueSync(c) PROVE Shrinks(i)
    BY <1>2, <1>3, <1>6 DEF EnqueueSync, FreshJobs, TypeOK
  <1>7. ASSUME EnqueueScheduledSyncs PROVE Shrinks(i)
    BY <1>2, <1>3, <1>7 DEF EnqueueScheduledSyncs, FreshJobs
  <1>8. ASSUME NEW j \in Jobs,
               CancelRead(j) \/ CancelWrite(j) \/ BackoffElapses(j) \/ HeartbeatAges(j)
        PROVE  Shrinks(i)
    <2>1. CASE CancelWrite(j)
      BY <1>2, <2>1 DEF CancelWrite, TypeOK, Job
    <2>2. CASE CancelRead(j) \/ BackoffElapses(j) \/ HeartbeatAges(j)
      BY <1>2, <2>2 DEF CancelRead, BackoffElapses, HeartbeatAges, TypeOK, Job
    <2>3. QED
      BY <1>8, <2>1, <2>2
  <1>9. ASSUME NEW S \in SUBSET Jobs, ReapStaleJobs(S) PROVE Shrinks(i)
    <2>1. jobs'[i] = jobs[i] \/ jobs'[i] = Reaped(jobs[i])
      BY <1>9 DEF ReapStaleJobs
    <2>2. jobs'[i] = Reaped(jobs[i]) => Shrinks(i)
      BY <1>2, <1>4 DEF Reaped, Job
    <2>3. QED
      BY <2>1, <2>2
  <1>10. ASSUME NEW w \in Workers, FinishJob(w) PROVE Shrinks(i)
    <2>1. jobs'[i] = jobs[i] \/ jobs'[i] = Closed(jobs[i], workers[w].outcome)
      BY <1>10 DEF FinishJob, TypeOK
    <2>2. ASSUME jobs'[i] = Closed(jobs[i], workers[w].outcome) PROVE Shrinks(i)
      <3>1. CASE workers[w].outcome = "cancelled"
        BY <1>2, <2>2, <3>1 DEF Closed, Job
      <3>2. CASE workers[w].outcome = "error" /\ jobs[i].attempts < MaxAttempts
        BY <1>4, <2>2, <3>2 DEF Closed
      <3>3. CASE workers[w].outcome = "error" /\ ~(jobs[i].attempts < MaxAttempts)
        <4>1. jobs[i].attempts >= MaxAttempts
          BY <1>2, <3>3, MaxAttemptsAssumption DEF Job
        <4>2. QED
          BY <1>2, <2>2, <3>3, <4>1 DEF Closed, Job
      <3>4. CASE workers[w].outcome \notin {"cancelled", "error"}
        BY <1>2, <2>2, <3>4 DEF Closed, Job
      <3>5. QED
        BY <3>1, <3>2, <3>3, <3>4
    <2>3. QED
      BY <2>1, <2>2
  <1>11. CASE UNCHANGED jobs
    BY <1>11
  <1>12. QED
    BY <1>5, <1>6, <1>7, <1>8, <1>9, <1>10, <1>11
       DEF Api, ClaimConnection, SetEnabled, Retune, IntervalElapses

\* A step that touches no row, no claim and no payload is a stutter of the lease.
LEMMA OtherStepsStutter ==
  ASSUME UNCHANGED <<jobs, landed>>
  PROVE  UNCHANGED <<[c \in Connections |-> HolderOf(c)], Granted, landed>>
  <1>1. \A c \in Connections : HolderOf(c)' = HolderOf(c)
    BY HolderStays DEF Running
  <1>2. QED
    BY <1>1 DEF Granted, Claims

\* The queue implements the fenced lease: at any moment one claim holds a
\* connection, and a worker that was reaped, cancelled, paused or deleted under
\* its own fetch lands nothing.
THEOREM Implements == Spec => ImplementsLease
  <1>1. Init => Lease!Init
    BY MaxAttemptsAssumption
       DEF Init, Lease!Init, AbsentJob, HolderOf, Running, Granted, Claims
  <1>2. IInv /\ IInv' /\ [Next]_vars => [Lease!Next]_(Lease!leaseVars)
    <2> SUFFICES ASSUME IInv, IInv', [Next]_vars
                 PROVE  Lease!Next \/ UNCHANGED Lease!leaseVars
      OBVIOUS
    <2>1. ASSUME NEW w \in Workers, Claim(w) \/ RunOne(w)
          PROVE  Lease!Next \/ UNCHANGED <<jobs, landed>>
      <3>1. CASE ClaimJob(w) \/ ClaimPaused(w)
        BY <3>1, ClaimJobGrants, ClaimPausedForgoes
      <3>2. CASE Ingest(w)
        BY <3>2, IngestLands
      <3>3. CASE FinishJob(w)
        BY <3>3, OtherRowsWithdraw
      <3>4. QED
        BY <2>1, <3>1, <3>2, <3>3
           DEF Claim, RunOne, LoseClaim, OpenRun, OpenRunGone, Fetch, Discard, IngestRaises,
               FinishFailed, FinishLost
    <2>2. Lease!Next \/ UNCHANGED <<jobs, landed>>
      BY <2>1, OtherRowsWithdraw DEF Next, vars, PickJob, Crash, Restart
    <2>3. QED
      BY <2>2, OtherStepsStutter DEF Lease!leaseVars
  <1>3. QED
    BY <1>1, <1>2, Inductive, PTL DEF Spec, ImplementsLease, Lease!Spec
=============================================================================
