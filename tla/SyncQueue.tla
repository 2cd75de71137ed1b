------------------------------ MODULE SyncQueue ------------------------------
(***************************************************************************)
(* The sync queue of one household: backend/app/services/jobs.py, the      *)
(* queue half of services/connections.py, the consumer of worker.py, and   *)
(* the transaction skeleton of services/sync.py (run_connection_sync).     *)
(*                                                                         *)
(* Row-level security makes households independent, so one is enough.      *)
(* Every action is one database transaction.  A transaction whose first    *)
(* write locks the job row is atomic here: nobody else can change that row *)
(* before it commits.  The two that read the row before they lock it are   *)
(* split at that point: the claim (PickJob, then ClaimJob) and the cancel  *)
(* (CancelRead, then CancelWrite).                                         *)
(*                                                                         *)
(* Time is what it decides: a queued job is "due" or not, a running job's  *)
(* heartbeat is "silent" (older than REAP_AFTER_SECONDS) or not, and a     *)
(* connection is "due" (next_sync_at has passed) or not.                   *)
(*                                                                         *)
(* A claim is named by the job and its attempt number: the UPDATE that     *)
(* draws a fresh uuid for claim_token also adds one to attempts.           *)
(***************************************************************************)
EXTENDS Integers, FiniteSets, Functions

CONSTANTS
  Connections,  \* the account_connections rows that can ever exist
  Jobs,         \* the sync_jobs rows that can ever exist
  Workers,      \* worker processes; the deployment has one, the claim allows more
  MaxAttempts,  \* MAX_ATTEMPTS
  None          \* SQL NULL

ASSUME MaxAttemptsAssumption == MaxAttempts \in Nat \ {0}
ASSUME NoneIsNotARow == None \notin Connections \cup Jobs \cup (Jobs \X Int)

NoToken == 0    \* claim_token IS NULL
Revoked == -1   \* the uuid cancel_job draws, which no worker holds

JobStatus == {"absent", "queued", "running", "done", "cancelled", "expired", "deleted"}
RunStatus == {"none", "running", "ok", "partial", "error", "cancelled"}
Health    == {"ok", "auth_error", "error"}
FailKinds == {"auth", "payment", "transient"}
Claims    == Jobs \X (1..MaxAttempts)

VARIABLES
  jobs,        \* sync_jobs
  runs,        \* sync_runs, named by the claim that opened them
  conns,       \* account_connections
  workers,     \* what each worker process holds in memory
  cancelling,  \* jobs an API request has read as active and is about to cancel
  landed,      \* the ledger: the claims whose ingest transaction committed
  latest       \* history: the last claim granted on each connection

vars == <<jobs, runs, conns, workers, cancelling, landed, latest>>

Busy == {"claimed", "fetching", "fetched", "failing", "finishing"}

Job == [status : JobStatus, conn : Connections \cup {None}, attempts : 0..MaxAttempts,
        token : {Revoked} \cup (0..MaxAttempts), due : BOOLEAN, silent : BOOLEAN]
Connection == [state : {"unclaimed", "live", "deleted"}, enabled : BOOLEAN,
               due : BOOLEAN, health : Health]
Worker == [pc : Busy \cup {"idle", "picked", "down"}, job : Jobs \cup {None},
           token : 0..MaxAttempts, outcome : RunStatus \cup FailKinds]

TypeOK ==
  /\ jobs \in [Jobs -> Job]
  /\ runs \in [Claims -> RunStatus]
  /\ conns \in [Connections -> Connection]
  /\ workers \in [Workers -> Worker]
  /\ cancelling \subseteq Jobs
  /\ landed \subseteq Claims
  /\ latest \in [Connections -> Claims \cup {None}]

-----------------------------------------------------------------------------
AbsentJob == [status |-> "absent", conn |-> None, attempts |-> 0,
              token |-> NoToken, due |-> FALSE, silent |-> FALSE]
QueuedJob(c) == [AbsentJob EXCEPT !.status = "queued", !.conn = c, !.due = TRUE]
Parked(pc) == [pc |-> pc, job |-> None, token |-> NoToken, outcome |-> "none"]

Init ==
  /\ jobs = [j \in Jobs |-> AbsentJob]
  /\ runs = [k \in Claims |-> "none"]
  /\ conns = [c \in Connections |->
                [state |-> "unclaimed", enabled |-> FALSE, due |-> FALSE, health |-> "ok"]]
  /\ workers = [w \in Workers |-> Parked("idle")]
  /\ cancelling = {}
  /\ landed = {}
  /\ latest = [c \in Connections |-> None]

FreshJobs == {j \in Jobs : jobs[j].status = "absent"}
Running(c) == {j \in Jobs : jobs[j].status = "running" /\ jobs[j].conn = c}
ClaimOf(w) == <<workers[w].job, workers[w].token>>

\* WHERE id = :id AND claim_token = :token, the fence on every queue write.
HoldsToken(w) == jobs[workers[w].job].token = workers[w].token

CloseOrphans_Forgotten(S) == runs

\* _ORPHAN_RUNS: close whatever run of these jobs is still open.
CloseOrphans(S) ==
  [k \in Claims |-> IF k[1] \in S /\ runs[k] = "running" THEN "error" ELSE runs[k]]

\* A job back in the queue behind a backoff; attempts is kept.
Requeued(job) == [job EXCEPT !.status = "queued", !.token = NoToken,
                             !.due = FALSE, !.silent = FALSE]

-----------------------------------------------------------------------------
(* The API: services/connections.py                                        *)

\* claim: a spent setup token becomes a live connection, due at once.
ClaimConnection(c) ==
  /\ conns[c].state = "unclaimed"
  /\ conns' = [conns EXCEPT ![c] = [state |-> "live", enabled |-> TRUE,
                                    due |-> TRUE, health |-> "ok"]]
  /\ UNCHANGED <<jobs, runs, workers, cancelling, landed, latest>>

\* update_connection, is_enabled: resuming leaves an overdue clock due.
SetEnabled(c, enabled) ==
  /\ conns[c].state = "live"
  /\ conns[c].enabled # enabled
  /\ conns' = [conns EXCEPT ![c].enabled = enabled]
  /\ UNCHANGED <<jobs, runs, workers, cancelling, landed, latest>>

\* update_connection, sync_interval_minutes: a new cadence restarts the clock.
Retune(c) ==
  /\ conns[c].state = "live"
  /\ conns[c].enabled
  /\ conns' = [conns EXCEPT ![c].due = FALSE]
  /\ UNCHANGED <<jobs, runs, workers, cancelling, landed, latest>>

\* delete_connection: jobs cascade away, runs stay with their links nulled.
DeleteConnection(c) ==
  /\ conns[c].state = "live"
  /\ conns' = [conns EXCEPT ![c].state = "deleted"]
  /\ jobs' = [j \in Jobs |-> IF jobs[j].conn = c
                             THEN [jobs[j] EXCEPT !.status = "deleted", !.token = NoToken]
                             ELSE jobs[j]]
  /\ UNCHANGED <<runs, workers, cancelling, landed, latest>>

\* enqueue_sync: refused while paused, never deduplicated.
EnqueueSync(c) ==
  /\ conns[c].state = "live"
  /\ conns[c].enabled
  /\ \E j \in FreshJobs : jobs' = [jobs EXCEPT ![j] = QueuedJob(c)]
  /\ UNCHANGED <<runs, conns, workers, cancelling, landed, latest>>

\* cancel_job, the SELECT and the 409.
CancelRead(j) ==
  /\ jobs[j].status \in {"queued", "running"}
  /\ j \notin cancelling
  /\ cancelling' = cancelling \cup {j}
  /\ UNCHANGED <<jobs, runs, conns, workers, landed, latest>>

CancelWrite_KeepsToken(j) ==
  /\ j \in cancelling
  /\ cancelling' = cancelling \ {j}
  /\ jobs' = IF jobs[j].status = "deleted" THEN jobs
             ELSE [jobs EXCEPT ![j].status = "cancelled"]
  /\ UNCHANGED <<runs, conns, workers, landed, latest>>

\* cancel_job, the UPDATE by primary key: no status in its WHERE clause.
\* On a row a cascade removed it matches nothing and the request fails.
CancelWrite(j) ==
  /\ j \in cancelling
  /\ cancelling' = cancelling \ {j}
  /\ jobs' = IF jobs[j].status = "deleted" THEN jobs
             ELSE [jobs EXCEPT ![j] = [@ EXCEPT !.status = "cancelled", !.token = Revoked]]
  /\ UNCHANGED <<runs, conns, workers, landed, latest>>

-----------------------------------------------------------------------------
(* The scheduled ticks: services/jobs.py under worker.py's scheduler        *)

DueConnections ==
  {c \in Connections :
     /\ conns[c].state = "live" /\ conns[c].enabled /\ conns[c].due
     /\ \A j \in Jobs : jobs[j].conn = c => jobs[j].status \notin {"queued", "running"}}

\* enqueue_scheduled_syncs: one INSERT ... SELECT, a new row per due connection.
EnqueueScheduledSyncs ==
  /\ DueConnections # {}
  /\ \E S \in SUBSET FreshJobs : \E row \in Bijection(S, DueConnections) :
       jobs' = [j \in Jobs |-> IF j \in S THEN QueuedJob(row[j]) ELSE jobs[j]]
  /\ UNCHANGED <<runs, conns, workers, cancelling, landed, latest>>

StaleJobs_ExceptSpent ==
  {j \in Jobs : jobs[j].status = "running" /\ jobs[j].silent /\ jobs[j].attempts < MaxAttempts}

\* _STALE: running, and the heartbeat is older than the cutoff.
StaleJobs == {j \in Jobs : jobs[j].status = "running" /\ jobs[j].silent}

\* _EXPIRE and _REAP_REQUEUE, unfenced by design.
Reaped_OneMore(job) ==
  IF job.attempts > MaxAttempts
  THEN [job EXCEPT !.status = "expired", !.token = NoToken, !.silent = FALSE]
  ELSE Requeued(job)

Reaped(job) ==
  IF job.attempts >= MaxAttempts
  THEN [job EXCEPT !.status = "expired", !.token = NoToken, !.silent = FALSE]
  ELSE Requeued(job)

\* reap_stale_jobs: S is what SKIP LOCKED leaves of the stale rows.
ReapStaleJobs(S) ==
  /\ S # {}
  /\ S \subseteq StaleJobs
  /\ jobs' = [j \in Jobs |-> IF j \in S THEN Reaped(jobs[j]) ELSE jobs[j]]
  /\ runs' = CloseOrphans(S)
  /\ UNCHANGED <<conns, workers, cancelling, landed, latest>>

-----------------------------------------------------------------------------
(* The consumer: worker.run_one over jobs.claim_next, sync.run_connection_sync *)
(* and jobs.finish_job                                                     *)

\* The claimable CTE, evaluated in the statement's snapshot.
Claimable(j) == /\ jobs[j].status = "queued"
                /\ jobs[j].due
                /\ Running(jobs[j].conn) = {}

PickJob(w, j) ==
  /\ workers[w].pc = "idle"
  /\ Claimable(j)
  /\ workers' = [workers EXCEPT ![w] = [Parked("picked") EXCEPT !.job = j]]
  /\ UNCHANGED <<jobs, runs, conns, cancelling, landed, latest>>

\* What is true of the picked row when it is locked and written: FOR UPDATE
\* rechecks the row itself, uq_sync_jobs_connection_running its siblings.
StillQueued(j) == jobs[j].status = "queued" /\ jobs[j].due
UniqueRunning_NoIndex(j) == TRUE
UniqueRunning(j) == Running(jobs[j].conn) = {}

\* Either the row moved on, or the unique index refused the write (23505).
LoseClaim(w) ==
  /\ workers[w].pc = "picked"
  /\ ~(StillQueued(workers[w].job) /\ UniqueRunning(workers[w].job))
  /\ workers' = [workers EXCEPT ![w] = Parked("idle")]
  /\ UNCHANGED <<jobs, runs, conns, cancelling, landed, latest>>

\* _CLAIM, then _CANCEL in the same transaction: the connection is paused.
ClaimPaused(w) ==
  LET j == workers[w].job
      a == jobs[j].attempts + 1 IN
  /\ workers[w].pc = "picked"
  /\ StillQueued(j)
  /\ UniqueRunning(j)
  /\ ~conns[jobs[j].conn].enabled
  /\ jobs' = [jobs EXCEPT ![j] = [@ EXCEPT !.status = "cancelled", !.attempts = a, !.token = a]]
  /\ workers' = [workers EXCEPT ![w] = Parked("idle")]
  /\ UNCHANGED <<runs, conns, cancelling, landed, latest>>

\* _CLAIM: the job is this worker's, under a token nobody has held.
ClaimJob(w) ==
  LET j == workers[w].job
      a == jobs[j].attempts + 1 IN
  /\ workers[w].pc = "picked"
  /\ StillQueued(j)
  /\ UniqueRunning(j)
  /\ conns[jobs[j].conn].enabled
  /\ jobs' = [jobs EXCEPT ![j] = [@ EXCEPT !.status = "running", !.attempts = a,
                                            !.token = a, !.silent = FALSE]]
  /\ workers' = [workers EXCEPT ![w] = [pc |-> "claimed", job |-> j,
                                        token |-> a, outcome |-> "none"]]
  /\ latest' = [latest EXCEPT ![jobs[j].conn] = <<j, a>>]
  /\ UNCHANGED <<runs, conns, cancelling, landed>>

Step(w, pc, outcome) ==
  workers' = [workers EXCEPT ![w] = [@ EXCEPT !.pc = pc, !.outcome = outcome]]

\* TX1: the run row commits before the fetch.  Nothing here asks the fence.
OpenRun(w) ==
  /\ workers[w].pc = "claimed"
  /\ jobs[workers[w].job].status # "deleted"
  /\ runs' = [runs EXCEPT ![ClaimOf(w)] = "running"]
  /\ \/ Step(w, "fetching", "none")
     \/ \E kind \in {"auth", "transient"} : Step(w, "failing", kind)
  /\ UNCHANGED <<jobs, conns, cancelling, landed, latest>>

\* TX1 finds no connection: an error outcome and no run row.
OpenRunGone(w) ==
  /\ workers[w].pc = "claimed"
  /\ jobs[workers[w].job].status = "deleted"
  /\ Step(w, "finishing", "error")
  /\ UNCHANGED <<jobs, runs, conns, cancelling, landed, latest>>

\* The HTTP call, inside no transaction: it answers, fails the way the provider
\* names (ProviderError), or raises something else, which run_one catches.
Fetch(w) ==
  /\ workers[w].pc = "fetching"
  /\ \/ Step(w, "fetched", "none")
     \/ \E kind \in FailKinds : Step(w, "failing", kind)
     \/ Step(w, "finishing", "error")
  /\ UNCHANGED <<jobs, runs, conns, cancelling, landed, latest>>

Fence_Open(w) == TRUE
Fence_AnyToken(w) == jobs[workers[w].job].status = "running"

\* _TOUCH: still mine, and still running.
Fence(w) == HoldsToken(w) /\ jobs[workers[w].job].status = "running"

\* classify_errlist: the run's status and the health it leaves behind.
IngestResults == {<<"ok", "ok">>, <<"partial", "ok">>,
                  <<"error", "auth_error">>, <<"error", "error">>}

\* TX2 with the fence open: heartbeat, ingest, close the run, set the health.
Ingest(w) ==
  /\ workers[w].pc = "fetched"
  /\ Fence(w)
  /\ \E r \in IngestResults :
       /\ runs' = [runs EXCEPT ![ClaimOf(w)] = r[1]]
       /\ conns' = [conns EXCEPT ![jobs[workers[w].job].conn] =
                                   [@ EXCEPT !.health = r[2], !.due = FALSE]]
       /\ Step(w, "finishing", r[1])
  /\ jobs' = [jobs EXCEPT ![workers[w].job] = [@ EXCEPT !.silent = FALSE]]
  /\ landed' = landed \cup {ClaimOf(w)}
  /\ UNCHANGED <<cancelling, latest>>

\* TX2 with the fence shut: the payload is discarded, the run is cancelled.
Discard(w) ==
  /\ workers[w].pc = "fetched"
  /\ ~Fence(w)
  /\ runs' = [runs EXCEPT ![ClaimOf(w)] = "cancelled"]
  /\ Step(w, "finishing", "cancelled")
  /\ UNCHANGED <<jobs, conns, cancelling, landed, latest>>

\* TX2 raises: everything in it rolls back and run_one records an error.
IngestRaises(w) ==
  /\ workers[w].pc = "fetched"
  /\ Step(w, "finishing", "error")
  /\ UNCHANGED <<jobs, runs, conns, cancelling, landed, latest>>

HealthAfter(kind, health) ==
  CASE kind = "auth" -> "auth_error" [] kind = "payment" -> "error" [] OTHER -> health

\* TX3, _finish_failed: unfenced.  With the connection gone _get_connection
\* raises, the transaction rolls back, and the run row keeps what it said.
FinishFailed(w) ==
  LET c == jobs[workers[w].job].conn IN
  /\ workers[w].pc = "failing"
  /\ IF conns[c].state = "live"
     THEN /\ runs' = [runs EXCEPT ![ClaimOf(w)] = "error"]
          /\ conns' = [conns EXCEPT ![c] =
                          [@ EXCEPT !.health = HealthAfter(workers[w].outcome, conns[c].health),
                                    !.due = FALSE]]
     ELSE UNCHANGED <<runs, conns>>
  /\ Step(w, "finishing", "error")
  /\ UNCHANGED <<jobs, cancelling, landed, latest>>

Closed_OneMore(job, outcome) ==
  CASE outcome = "error" /\ job.attempts <= MaxAttempts -> Requeued(job)
    [] OTHER -> [job EXCEPT !.status = "done", !.silent = FALSE]

\* finish_job: done, retried behind a backoff, or given up on.
Closed(job, outcome) ==
  CASE outcome = "cancelled" -> [job EXCEPT !.status = "cancelled", !.silent = FALSE]
    [] outcome = "error" /\ job.attempts < MaxAttempts -> Requeued(job)
    [] outcome = "error" /\ job.attempts >= MaxAttempts ->
         [job EXCEPT !.status = "expired", !.silent = FALSE]
    [] OTHER -> [job EXCEPT !.status = "done", !.silent = FALSE]

FinishJob(w) ==
  LET j == workers[w].job IN
  /\ workers[w].pc = "finishing"
  /\ HoldsToken(w)
  /\ jobs' = [jobs EXCEPT ![j] = Closed(@, workers[w].outcome)]
  /\ runs' = CloseOrphans({j})
  /\ workers' = [workers EXCEPT ![w] = Parked("idle")]
  /\ UNCHANGED <<conns, cancelling, landed, latest>>

\* finish_job returns "lost": the job is no longer this worker's to close.
FinishLost(w) ==
  /\ workers[w].pc = "finishing"
  /\ ~HoldsToken(w)
  /\ workers' = [workers EXCEPT ![w] = Parked("idle")]
  /\ UNCHANGED <<jobs, runs, conns, cancelling, landed, latest>>

\* The process dies, or is told to stop: its memory goes, its rows stay.
Crash(w) ==
  /\ workers[w].pc \in Busy
  /\ workers' = [workers EXCEPT ![w] = Parked("down")]
  /\ UNCHANGED <<jobs, runs, conns, cancelling, landed, latest>>

Restart(w) ==
  /\ workers[w].pc = "down"
  /\ workers' = [workers EXCEPT ![w] = Parked("idle")]
  /\ UNCHANGED <<jobs, runs, conns, cancelling, landed, latest>>

-----------------------------------------------------------------------------
(* The passage of time                                                     *)

BackoffElapses(j) ==
  /\ jobs[j].status = "queued"
  /\ ~jobs[j].due
  /\ jobs' = [jobs EXCEPT ![j] = [@ EXCEPT !.due = TRUE]]
  /\ UNCHANGED <<runs, conns, workers, cancelling, landed, latest>>

HeartbeatAges(j) ==
  /\ jobs[j].status = "running"
  /\ ~jobs[j].silent
  /\ jobs' = [jobs EXCEPT ![j] = [@ EXCEPT !.silent = TRUE]]
  /\ UNCHANGED <<runs, conns, workers, cancelling, landed, latest>>

IntervalElapses(c) ==
  /\ conns[c].state = "live"
  /\ ~conns[c].due
  /\ conns' = [conns EXCEPT ![c].due = TRUE]
  /\ UNCHANGED <<jobs, runs, workers, cancelling, landed, latest>>

-----------------------------------------------------------------------------
Api(c) == \/ ClaimConnection(c) \/ (\E b \in BOOLEAN : SetEnabled(c, b)) \/ Retune(c)
          \/ DeleteConnection(c) \/ EnqueueSync(c)

Claim(w) == LoseClaim(w) \/ ClaimPaused(w) \/ ClaimJob(w)
RunOne(w) == \/ OpenRun(w) \/ OpenRunGone(w) \/ Fetch(w)
             \/ Ingest(w) \/ Discard(w) \/ IngestRaises(w)
             \/ FinishFailed(w) \/ FinishJob(w) \/ FinishLost(w)

Next ==
  \/ \E c \in Connections : Api(c) \/ IntervalElapses(c)
  \/ \E j \in Jobs : CancelRead(j) \/ CancelWrite(j) \/ BackoffElapses(j) \/ HeartbeatAges(j)
  \/ EnqueueScheduledSyncs
  \/ \E S \in SUBSET Jobs : ReapStaleJobs(S)
  \/ \E w \in Workers, j \in Jobs : PickJob(w, j)
  \/ \E w \in Workers : Claim(w) \/ RunOne(w) \/ Crash(w) \/ Restart(w)

Spec == Init /\ [][Next]_vars

(***************************************************************************)
(* Fairness.  The consumer loop never stops taking steps while its process *)
(* lives, a dead container is restarted (restart: unless-stopped), the     *)
(* reaper ticks every five minutes, a backoff and a silence run out, and a *)
(* request that has read a job goes on to write it.  Nothing is assumed of *)
(* users, of the schedule's tick, or of how a fetch ends.                  *)
(***************************************************************************)
Fairness ==
  /\ \A w \in Workers : /\ WF_vars(\E j \in Jobs : PickJob(w, j))
                        /\ WF_vars(Claim(w))
                        /\ WF_vars(RunOne(w))
                        /\ WF_vars(Restart(w))
  /\ \A j \in Jobs : /\ WF_vars(\E S \in SUBSET Jobs : j \in S /\ ReapStaleJobs(S))
                     /\ WF_vars(BackoffElapses(j))
                     /\ WF_vars(HeartbeatAges(j))
                     /\ WF_vars(CancelWrite(j))

FairSpec == Spec /\ Fairness

-----------------------------------------------------------------------------
(* What must never go wrong                                                *)

Stopped == {"done", "cancelled", "expired", "deleted"}

\* ADR-0004: a connection has at most one running job, even when two workers
\* claim two of its queued jobs in the same instant.
OneRunningPerConnection ==
  \A c \in Connections : \A i, j \in Running(c) : i = j

\* A payload is only ever landed by the newest claim on its connection: a worker
\* that was slow, reaped or cancelled never lands what it fetched over the
\* ledger a later claim is responsible for.
OnlyLatestClaimLands ==
  [][\A k \in landed' \ landed : latest[jobs[k[1]].conn] = k]_vars

\* "discards its results instead of resurrecting a terminal state": once a job
\* has stopped, no late worker, reaper or retry makes it queued or running again.
StoppedStaysStopped ==
  [][\A j \in Jobs : jobs[j].status \in Stopped => jobs'[j].status \in Stopped]_vars

\* The retry budget: nothing gives up on a job before its last attempt is spent,
\* and a job whose attempts are spent is never queued for another one.
RetryBudget ==
  \A j \in Jobs : /\ jobs[j].status = "expired" => jobs[j].attempts = MaxAttempts
                  /\ jobs[j].status = "queued" => jobs[j].attempts < MaxAttempts

\* The queue's own two ways of letting go of a running job, finishing it and
\* reaping it, leave no run of that job saying it is still going.
LettingGoClosesRuns ==
  [][\A j \in Jobs :
       jobs[j].status = "running" /\ jobs'[j].status \in {"queued", "done", "expired"}
         => \A k \in Claims : k[1] = j => runs'[k] # "running"]_vars

\* A queued job does not wait forever: whatever workers crash, whatever the
\* bank answers, it is finished, cancelled, given up on, or removed.
EveryJobStops ==
  \A j \in Jobs : jobs[j].status = "queued" ~> jobs[j].status \in Stopped

\* The queue implements the lease: the connection is the resource, and the
\* running job's claim is its holder.
HolderOf(c) ==
  IF Running(c) = {} THEN None
  ELSE LET j == CHOOSE j \in Running(c) : TRUE IN <<j, jobs[j].token>>

Granted == {k \in Claims : k[2] <= jobs[k[1]].attempts}

Lease == INSTANCE FencedLease WITH
           Resources <- Connections,
           holder <- [c \in Connections |-> HolderOf(c)],
           granted <- Granted

\* Only the holder of a connection's lease lands a payload, and a claim that was
\* taken away lands nothing, as FencedLease states it.
ImplementsLease == Lease!Spec

=============================================================================
