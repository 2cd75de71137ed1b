# Verification of metalmark

metalmark is a self-hosted household ledger: a FastAPI backend over PostgreSQL, one
worker process that pulls bank data through SimpleFIN, and a React frontend. This
directory holds TLA+ models of its core logic, the TLC runs that check them on small
instances, and proofs about them that TLAPS checks for every instance.

Contents: [1 The system](#1-the-system) · [2 What is modelled](#2-what-is-modelled) ·
[3 The runs](#3-the-runs) · [4 What is proved](#4-what-is-proved) ·
[5 Disagreements found](#5-disagreements-found) · [6 Not modelled](#6-not-modelled) ·
[7 Plan](#7-plan)

Paths are relative to `backend/app/` unless they start with another directory of the
repository.

## 1 The system

One PostgreSQL database is the only shared state. API requests and the worker each
work in transactions at READ COMMITTED, scoped to one household by row-level security;
there are no locks in memory and no messages between processes. What two actors see of
each other is what they read from a row and what a conditional `UPDATE` tells them.

```
 browser ── API request ──┐                       ┌── worker: scheduler ticks (enqueue, reap, fx)
                          ├── PostgreSQL rows ────┤
 agent   ── API request ──┘                       └── worker: consumer (claim, fetch, ingest, finish) ── bank
```

### Components

| Component | State | Operations | Hard because | Correct when |
|---|---|---|---|---|
| Sync queue (`services/jobs.py`, `models/sync.py`) | `sync_jobs`: status, attempts, claim token, heartbeat, due time; `sync_runs` | claim, heartbeat, finish, requeue with backoff, reap, enqueue | claims race in their own snapshots; a worker dies or is slow while the reaper takes its job back; retries | one running job per connection; only the newest claim writes the ledger; a stopped job stays stopped; every job stops within its attempts |
| Worker process (`worker.py`) | what it has claimed and fetched, in memory | consume one job at a time, scheduler ticks | crash at any point | a crash loses memory and nothing else |
| Connection lifecycle (`services/connections.py`) | `account_connections`: claimed, enabled, health, next sync | claim a setup token, pause, retune, sync now, cancel, delete | requests overlap a sync of the same connection | a pause or a cancel is honoured; deletion leaves nothing running |
| Sync ingest (`services/sync.py`) | rows of `transactions` with `external_id`, pending flags and `field_sources` | land a payload, match a pending row to its posting, re-key after a reconnect, expire pendings | the bank re-dates, re-words, re-mints, omits and drops charges; people edit between syncs | each reported charge on file once; what people wrote survives |
| Transfers (`services/transactions.py`) | `transfer_group_id` on rows; `transfer_groups` with a conversion cost | link, unlink, list candidates, auto-match what a sync touched | read-then-write requests without locks; a batched pass must equal a sequential one | a group is one pair of opposite legs on two accounts |
| Ledger rows, splits and money (`services/transactions.py`, `core/money.py`) | the row, its split legs, `field_sources`, `base_amount` | create, edit, split, un-split, delete | four writers with precedence; rounding; a derived cache | precedence (ADR-0007); legs sum to their parent in both currencies |
| Rules engine (`services/rules.py`) | `transaction_rules`, in order | pass over a row on create and on update, apply to existing, enable | rules read what earlier rules wrote | never overrides a person; idempotent |
| FX (`services/fx.py`, `services/fx_fetch.py`, `services/ledger.py`) | `fx_rates`, shared by every household; `base_amount` caches | resolve a pair (direct, inverse, through the base), state a rate, daily fetch, recompute | a shared table and caches per household | a cache is what a recompute would make of it |
| Accounts, balances, categories, owners (`services/ledger.py`, `services/owners.py`) | accounts with balance source, snapshots, categories; owners of accounts, rows and legs | upsert, rename, retype, record and delete balances, delete with reassignment | account names are identities in exports; sync and people both write balances; precedence leg → row → account | the current balance is the newest snapshot's; every row resolves to an owner |
| Investments, bank holdings (`services/investments.py`, `services/sync_holdings.py`) | securities, prices, holdings, trades | fold trades to average cost, value accounts, mirror the bank's positions | three sources for one position; shorts and oversells | a position's quantity and basis come from one source |
| CSV and OFX import (`services/imports.py`, `services/ofx.py`) | rows with `import_hash` and FITID | preview, commit | racing commits; identical rows; overlap with syncs | importing twice adds nothing; two genuine rows stay two |
| Export and import (`services/portability.py`) | a versioned document; an archive | export, import by natural keys | adoption of what is there; order of references | import twice is import once |
| Documents (`services/documents.py`) | files kept beside an account | upload within bounds, preview, delete | — | a file opens as what it is |
| Authentication and household (`services/auth.py`) | users, sessions, the household | signup, login, logout, expiry | two first signups | one household, one first admin |
| Agent API and anonymizer (`agent/`) | tokens of an issuer | issue, revoke, answer a GET of the app anonymized | the issuer's standing is read on every request | a token is worth what its issuer may do now; a field without a policy is dropped |
| Notifications (`services/notifications.py`, `frontend/src/lib/notify.ts`) | `run.notified` events; the browser's cursor | decide on a failure, record, poll, show, remember | retries more frequent than the reminder; a tab closed between showing and remembering; an answer that is handed over only when it changes | a transition is told once, an outage daily |
| Periods, reports, budgets (`services/periods.py`, `services/reports.py`, `services/budgets.py`) | budget amounts per category and month | net worth and its reconciliation, cash flow, spending; set and clear a plan | dates at month ends; many reports of one quantity; exclusions of hidden, split, linked and owned rows | buckets cut the window; every report totals the same money; spent is the report's number |
| Recurring, income (`services/recurring.py`, `services/income.py`) | series, paystubs | detect series, check a paystub's totals | — | a paystub agrees with its lines |
| Categorizer, institutions, checks | category guesses; logos | categorize what is blank, read | — | a guess never overrides a person |
| Frontend (`frontend/src`), deployment (`deploy`, `scripts`, `contracts`) | a cache of server answers | — | — | — |

### How they interact

A connection is due → the scheduler **enqueues** a job → the consumer **claims** it
(one transaction) → **opens a run** (TX1) → **fetches** from the bank, holding no
transaction → **lands** the payload under the claim's token (TX2: rows, rules on every
new or changed row, transfer matching, pending expiry, the run's end) → **finishes**
the job. Requests from people write the same rows at any moment in between. Rules run
inside the transaction of whoever created or changed the row. A rate stated by a
person recomputes that household's caches in the same request; the daily fetch and
the worker's start recompute every household that needs it.

## 2 What is modelled

| Module | What it is |
|---|---|
| `FencedLease` | the abstract specification of the queue: a resource, claims granted once, and landing only under the claim that holds the resource |
| `SyncQueue` | `services/jobs.py`, the queue half of `services/connections.py`, the consumer of `worker.py` and the transaction skeleton of `run_connection_sync`; refines `FencedLease` |
| `SyncQueueProofs`, `HouseholdProofs`, `ReadingProofs`, `TransfersProofs`, `IntakeProofs`, `LedgerRowProofs`, `InvestmentsProofs` | the inductive invariants of those modules and the theorems that follow (`HouseholdProofs` is about `Household`, `Accounts` and `Access`, `ReadingProofs` about `Notices`, `Periods`, `Reports` and `Budgets`, `IntakeProofs` about `SyncIngest`, `RateFetch` and `Imports`, `InvestmentsProofs` about `TradeHistory` and `Positions`); `Recursion` has what the proofs need of recursive functions and of sums over finite sets |
| `SyncIngest` | what TX2 makes of an account's rows: `ingest_transaction`, `_match_pending`, `_rekey_remapped_account`, `expire_pendings` |
| `Transfers` | `link_transfer`, `unlink_transfer`, `list_transfer_candidates`, `auto_match_transfers` |
| `LedgerRow` | one row under its four writers, one after the other or overlapping: a person, the rules, a sync and the rate table; `core/money.py` |
| `RateFetch` | the table of rates every household shares, the caches that follow it, and the worker's daily fetch (`services/fx_fetch.py`, `services/fx.py`, the start of `worker.py`) |
| `TradeHistory` | one investment position: its trades, the average-cost fold, the typed row behind it (`services/investments.py`) |
| `Positions` | the positions of several accounts under people, trades, prices and the bank's list, and the balances derived from them (`services/investments.py`, `services/sync_holdings.py`) |
| `Investments` | the last two side by side, and what is promised of both |
| `Balances` | `record_balance`, the one door every balance goes through; used by the next two |
| `Household`, `Accounts` | owners and categories and what is filed under them (`services/owners.py`, `services/ownership.py`); accounts, their names and balances, and how a sync finds them again (`services/ledger.py`, `services/sync.py`) |
| `Access` | signup, sessions and agent tokens (`services/auth.py`, `deps.py`, `agent/tokens.py`) |
| `Statements`, `Imports` | what a CSV or OFX file says, and two requests that commit such files into one account (`services/imports.py`, `services/ofx.py`) |
| `Portability` | the household as a document, exported and imported between two sites (`services/portability.py`) |
| `Notices` | the notice about a broken connection, from the run that fails to the browser that shows it (`services/notifications.py`, `frontend/src/lib/notify.ts`) |
| `Periods`, `Reports`, `Budgets` | calendar buckets, every report and what it reads, the plans a month is held against (`services/periods.py`, `reports.py`, `budgets.py`) |
| `MC…` | the instances TLC checks; a module may put specifications that share no state, or two instances of one, side by side: a behaviour is one of them (`which`) |

`SyncQueue` carries the protocol and no rows; `SyncIngest` carries rows and takes a
sync as one step, which is what the fence of `SyncQueue` (`Ingest`: the token is
checked and the row locked in the transaction that lands the payload) entitles it to.
`LedgerRow` follows one row in depth and `Transfers` the relation between rows.
`Positions` takes the trades of a position as the quantity they fold to, which is what
`TradeHistory` is about. `Accounts` and `Imports` write every balance through
`Balances`; `Budgets` reads its spending from `Reports`, and `Reports` its buckets from
`Periods`.

### SyncQueue

State: `jobs` (`sync_jobs`), `runs` (`sync_runs`, named by the claim that opened
them), `conns` (`account_connections`), `workers` (what a worker process holds in
memory between its transactions: its program counter, job, token and outcome),
`cancelling` (cancel requests between their read and their write), `landed` (claims
whose TX2 committed) and `latest` (history: the newest claim on each connection).

Each action is one transaction: `PickJob` then `LoseClaim` / `ClaimPaused` /
`ClaimJob` (the candidate query and the conditional update of `claim_one`, which two
workers may both reach), `OpenRun` (TX1), `Fetch`, `Ingest` / `Discard` /
`IngestRaises` (TX2), `FinishFailed` (TX3), `FinishJob` / `FinishLost`,
`ReapStaleJobs`, `EnqueueScheduledSyncs`, and the API's `ClaimConnection`,
`SetEnabled`, `Retune`, `DeleteConnection`, `EnqueueSync`, `CancelRead` then
`CancelWrite`. `Crash` and `Restart` take a worker's memory and nothing else.

Time is abstracted to what it decides: a job is *due* or not, a heartbeat *silent* or
not, a connection *due* or not; a claim token is the attempt number that drew it,
which the code's fresh uuid makes as unique.

### SyncIngest

State: `bank` (what the bank says of each charge: its phase, id, day and words),
`rows` (the account's transactions, with `field_sources` reduced to the set of fields
a person owns) and `remapped` (the connection was made anew since the last sync).
The bank may let a charge appear, post with a new id, day and wording, be withheld or
withdrawn, and re-mint every id; people enter, edit, annotate and delete rows; `Sync`
lands one payload, any subset of what the bank knows in any order, as the code does:
re-keying first, then each transaction (by id, else by `_match_pending`, else
inserted), then expiry. A description is its set of words. Two fields of a row are
history: the charge it stands for and the one a person worked on.

### Transfers

State: `txns` (account, amount, base amount, group), `groups` and `clients` (requests
in flight: what each has read and will write). A request reads in one step and writes
in another; in between, rows may be linked, unlinked, deleted or repriced. A pass of
the auto-matcher is planned in one step with the code's chunking, cap and ordering,
and written in another.

### LedgerRow

State: `row` (values and sources per field, amount, day, base amount, split legs),
`enabled` (which rules are on), `rates`, and `held`: a writer between its load of the
row and its flush. No writer locks the row, so `Load` and `LandSync`, `LandRules` or
`LandPatch` are two transactions' worth of steps apart; `Flushed` is the `UPDATE` the ORM
sends, which names the columns that differ from what was loaded, and `field_sources` is
one column. The legs are rows of their own, which a late writer reads again; the bound
`OverlapsAssumption` is that one that overlaps leaves them alone. Money is counted in storage units with an
explicit `Minor`, so that rounding is the code's. `Patch` is `update_transaction`
with its refusals, `Sync` is `_apply_provider_fields` with the rules after it,
`Applied` is the pass of `rules.py` with every earlier rule's effect visible to the
next; the pass is part of every action whose code calls it.

### RateFetch

State: `start` (each household's base currency), `table` (`fx_rates`, reduced to who
stated a pair's rate for a day: the source or a person), `cached` (the foreign rows that
exist, and the rate each was converted at), `today` and `run` (the fetch under way: its
phase, the households left, what it asked for and which pairs it wrote). `Ask` reads what
one household is missing, `Answer` stores what came back, up to the first request that
failed and perhaps without today's rate, `SecondPass` recomputes whoever needs a pair that
was written, and after a start `RecomputeAll` everybody. People state rates and enter and
delete rows between any two of these; `Fail` and `RestartRun` end a run anywhere. `excused` is
history: the rows a raise, or another household's hand-stated rate, left behind.

### TradeHistory

State: `trades` (in the order they were entered), `cash` (is the security money?) and
`typed` (the row somebody typed). People record, amend and delete trades, type, over-type
and delete the row, and re-type the security. `Folds` is `fold_history` after each trade,
`Earlier` the ordering its query asks for and `InOrder` the trades in it; a basis is an
exact fraction, because the code rounds once, after the fold. A trade may have any sign:
that a buy's amount is negative is ADR-0033's convention, which no schema checks, so the
properties that rest on it say so (`Signed`).

### Positions

State: `book` (rows with their writer, freeze and pinned total; folded trades; prices
per day; listed securities; the currencies with a rate), `today`, the `balance` of each
derived account, `filed` (its snapshots, reduced to whether each counted every position),
`clients` (requests in flight, with what each has read) and `mirror` (a sync between its
read and its write).

Nothing is locked by a read. A request reads the row it is about and is checked (`Ask`);
anything may be committed before it writes and computes the balances of the accounts it
collected (`Write`), or finds that it cannot (`Fail`: the row is there already, or gone, or
its security is, or the columns of a pinned total would come apart); then it commits
(`Commit`), and sets a balance only if it differs from the one it had read, as the ORM does.
A write waits for another's uncommitted one (`Conflict`), and then lands on the row as it
is by then, with what its request read before: `Merged` sets the columns that differ from
what was read and no other, which is the `UPDATE` of a flush. A sync is the same in two
steps, `SyncReads` (the `SELECT` of the account's rows, its trades, the securities and the
day's prices) and `SyncWrites` (the flush), between which requests ask, write and commit;
it waits for a request that has written what it will (`Meets`), and `SyncFails` where its
`UPDATE` meets no row. Whose number a row holds is `by`: the person's, the bank's, or
nobody's to say (`several`) once two have written over each other.

What one transaction reads, it reads at one moment, and what the flush writes, it writes at
one: the statements of one request are not parted further. `as_of` and `cost_basis` travel
with the quantity and are left out.

### Household and Accounts

State: `owners`, `groups`, `cats`, `rows` (each with its account, owner, category and
one split leg), `accounts` (name, type, owner, balance with its snapshots, the bank's
key and id), `work` (requests between their read and their write), and what the bank
side needs: `day`, `live` and `cardName`. A request that names an owner, or an agent
that adds an account, reads the names in one step and writes in another; the advisory
lock and the unique index stand where the code puts them. `Sync` lands a payload of
cards through `FoundRow` (`upsert_account`'s order of lookups), `Rename` and `Claim`
are the bank and the person moving ids and names underneath it. An account's name is a
word and the number `distinct_account_name` gave it.

### Access

State: `users` and `households`, `signing` (a signup between its count and its insert),
`sessions`, `requests` (browser requests, which hold the session's row from their first
write to their commit), `tokens`, `calls` (agent calls, which resolve their token in one
transaction and act in another) and the clock. `over` and `written` are history: the
sessions a person was told have ended, and what agents have added, with the token and
the time of the call. Nothing in the application changes a role: `EditByHand` is the
operator at the database.

### Statements and Imports

`Statements` reads cells as the code does, one character class at a time reduced to
groups of digits and the separators between them; a date is its two numbers in the order
written. `Imports` has the account's `ledger`, its balance, `work` (a request's
transaction: its file's rows, the places of those still to do, the ledger it read before
the first of them, what it has put in and how the savepoints came out) and `commits`. A
request sees what was committed and what it wrote; a unique key that another open
request has written makes it wait, and two that wait for each other are ended as
PostgreSQL ends them.

### Portability

State: `db` (each site's tables), `base` (its base currency), `doc` (the document in
hand), `ids` and `moves`. A row is what a person or the bank calls it (`own`), the rows
it names (`refs`), the rest (`val`), and its two derived columns (`hash`, `base`). Each
importer of `portability.py` is an operator from the import's state to the next, in the
code's order; `Import` is their composition and one step, as it is one transaction.

### Notices

State: the `runs` of each connection, the worker's (`busy` with one connection, `closing`
its run with an answer), `events`, and the browser's side: `cursor` in its storage, `inTab`,
whether it `canShow` (permission and service worker), the answer of a poll (`heard`), the
answer the query holds (`data`), and a delivery in its steps (`showing`, `up`). A run is
closed by its answer (`Close`), by the fence (`Refuse`), by the reaper (`Reap`) or by nobody
(`Die`); a failed fetch meets no fence, so a late `_finish_failed` closes a run the reaper
has closed, and may tell of it. `BeginDelivery` is the query's answer and the effect that
follows it: React Query keeps the reference of an answer equal to the one it holds, and
`useEffect(…, [notices])` does not run again for the same reference. A list is handed over
once. If the page cannot show then (no permission, no worker), if showing fails (`Reject`),
or if storage refuses the cursor (`Remember` with nothing stored), it is not handed over
again until the answer changes or the page is reloaded; `missed` and `unsaved` are the
history of that. The browser may be closed between showing and remembering, and lose its
storage, or keep that of another instance.

### Periods, Reports and Budgets

`Periods` is arithmetic on ordinals, with the calendar's own operators marked external.
The reports only read; what moves in `Reports` is the household under them: rows entered,
split, linked and hidden, trades, prices, rates, and a day's `Close`, at which accounts report a balance. An entry may be dated on any day, before or after the one it is
entered on, as `schemas/transactions.py` and `schemas/investments.py` allow: `BankSays` is
what the bank reports, of the rows entered and dated by then, whatever a report sees of
them. Amounts are whole, so nothing is rounded. `kind` is what a
behaviour does beside posting, and one that is about charts has a `chart`, the window and
granularity it asks for. `Budgets` adds `plans`, and the invariants ask every report of
every window and every owner in every reachable household.

## 3 The runs

| Run | Question | Instance |
|---|---|---|
| `worker` | do two workers ever run two jobs of one connection? is a charge on file exactly once through any history, and is what people wrote safe beside a lookalike? does every cache follow the rates? | 1 connection, 2 jobs, 2 workers, 1 attempt each (jobs and workers symmetric); or one charge with 3 days, 3 descriptions, 4 ids, 3 rows, a window of 1 day and a candidate limit of 2; or 2 charges of one amount, 2 ids and an entered row; or 2 households of one base currency, or of each other's, with 2 rows over up to 3 days and up to one stated rate |
| `queue_retry` | what happens when a job is reaped under a slow worker and claimed again? which claim lands? does the queue implement `FencedLease`? does every job stop? | 1 job, 2 workers, 2 attempts |
| `transfers` | are groups pairs, and does a batched pass link what a sequential one would? | 4 rows, 2 requests in flight (symmetric), chunk 2, cap 2, 2 groups |
| `rows` | who may overwrite whom; do legs and caches stay consistent? | 2 amounts, 2 days, one rate stated on the second, 3 rules; or one amount and day, one rule, and a sync, a rules pass or a PATCH that overlaps the others |
| `lost_edit` | does what a person set stand however the writers overlap? (it does not) | the second of these |
| `positions` | is a position an average-cost account however its past was entered; does a derived balance follow; does a sync leave people's work alone? | 3 trades on 3 days, of 8 kinds, and 2 typed rows; or a derived and a bank-stated account, 2 funds, one quoted abroad, 2 requests in flight (symmetric) beside a sync, 3 in all, from an empty book or a stocked one |
| `household` | is everything somebody's; is an account told from every other; do sessions and tokens end when they should? | two households to begin with, up to 6 operations each of one kind or another, 3 cards of two names, 2 claims; or 2 people, 2 sessions, 2 requests, 1 token, 4 moments |
| `files` | do overlapping statements add up; is an export restored, and merged, faithfully? | 2 of 5 files in 2 requests (symmetric) beside 2 arrivals; or a household with a row in every table, and one fresh or one lived in, 3 moves |
| `notices` | is a broken bank told of once, in order, and in the end always? | 2 connections, 1 worker, 3 runs, 2 moments, a page of 2 notices, 1 reopening, 1 cursor not kept |
| `notices_silence` | is an outage that lasts longer than the reminder's period mentioned again? (it is not) | 1 connection, 3 runs, 3 moments, a reminder after 2 |
| `reports_same` | do the reports say the same of the same money? | 3 accounts (two in euros, one of them a brokerage), 2 owners, 3 days over a month's end, 2 rate histories (the first alone where rows are hidden or a chart is asked for), entries of the day and of one before or after it; or one of some sixty charts, over windows of 0 to 3651 days, at and past each ceiling, that begin before leap days and at a year's turn, or around the household's days, some with an open start |
| `reports_first_day` | is a change of net worth fully explained once everything is known? (not if its first day has entries) | the same |

**Why these bounds.** *Queue:* every property speaks of one connection, and row-level
security and the per-connection predicates of the queries keep connections apart; two
workers and two claims are the smallest instance with a stale holder, two jobs the
smallest with a race for the partial unique index; a second attempt the smallest in
which a requeued job meets the old worker. *Rates:* three days with two rows leave an edge
to fill before and after what was fetched, while a request fails or a row moves the first
day needed; two households of one base share every pair, and two of opposite bases state
it both ways round. *Ingest:* three days with a window of one
put a re-dated posting inside, at the edge of and outside the window; four ids let a
charge be re-minted on posting and again on a reconnect; three rows exceed what one
charge may ever leave behind, and what the candidate limit shows. *Transfers:* two
withdrawals compete for two equal deposits, so a link made early in a pass takes a
candidate from a later subject of the same chunk and of the next; one row is foreign
and may have no rate or a zero amount. *Rows:* an amount of each sign, so that a fixed
leg can fail; one day before any rate and one with a rate that does not divide the
shares, so that rounding leaves a remainder; one writer held while all others run is
enough to miss any of their marks. *History:* three trades are the fewest that
sell short, buy back and sell again; two prices and an odd number of shares make an
average no single trade has; three days leave room for an entry before, between and
after the others. *Positions:* the derived account and the stated one share a fund, so
that a price or a deletion concerns both; three requests and syncs are the fewest in which
a row that the bank wrote, from which one starts, is read by a sync and by a request while
another commits in between; trades of one position differ in amount (`OnlyOne`), and a
security is listed by one at a time, which is what names them.
*Household:* a leg, its row and its account belong to three owners, so that deleting any
one of them shows whether the others move; six payloads are the shortest history in
which two cards named alike are claimed, parted, renamed, and claimed again; a session
needs two requests and one logout to be asked for behind another. *Files:* the five
files overlap pairwise in equal rows, in a charge only one of them identifies, and in a
balance of another day; two commits are the fewest that race. *Export:* three moves are
export, import and one change before or between; the lived-in household shares a row, a
name or a digest with the document in every table that has a natural key. *Notices:*
three runs break, recover and break again; two connections share the list and its cursor;
a period of one moment separates a repeat that is due from one that is not, and for the
reminder a period of two lets a run fail inside it and one at its end. *Reports:* three days leave a day before,
inside and after every proper window, across a month's end; two entries are enough to
split one and link it, to hide under it, or to trade on it; a day back and a day ahead put an
entry before a snapshot that lacks it, and past today (rates and prices are stated before
they are needed, and the net-worth series ends at today, `services/reports.py:1344`, so its
windows do); the charts' lengths are on
both sides of each ceiling of "auto".

`Sendable` bounds the sets of fields a PATCH carries to those whose handling
interacts, `Overlaps` the writers that may be caught between load and flush, `Starts` the
days, rows and stated rates of a behaviour of `RateFetch`. `MaxId`, `MaxRows`, `MaxEntered`, `MaxGroups`, `MaxTrades`, `MaxRequests`,
`MaxFiles`, `MaxMoves`, `MaxRuns`, `MaxTime`, `MaxReopened`, `MaxUnsaved`, `Dated`, `MaxSteps`, `MaxEdits` and the
counters of `left` are guards on the actions that would exceed them. `CHECK_DEADLOCK`
is off where the modelled part really may stop: every job is spent, every group number
used, every request made.

**Fairness.** `FairSpec` of `SyncQueue` assumes that a live consumer keeps taking
steps (its loop has no exit but a stop), that a dead container is restarted
(`restart: unless-stopped` in `docker-compose.yml`), that the reaper ticks, that a
backoff and a silence run out, and that a request which has read a job goes on to
write. Nothing is assumed of people, of the schedule, or of how a fetch ends.
`FairSpec` of `Notices` assumes that an open tab polls on its interval, that React renders
the answer it got, and that the browser answers `showNotification`, with success or a
failure; nothing of how runs end, of the tab being reopened, of what storage keeps, or of
the permission, without which nothing is promised. All other properties are safety and
assume none.

### What is checked, and against which hazard

A property in the table of a run may be a conjunction; its parts are named here.

* **Queue.** `OneRunningPerConnection` and `OnlyLatestClaimLands`: the claim's race
  and the fence. `RetryBudget`: attempts are compared in two places. `StoppedStaysStopped`:
  cancel, reap, finish and retry against each other. `LettingGoClosesRuns`: the queue
  leaves no open run when it lets go of a job. `EveryJobStops`: liveness under
  crashes. `ImplementsLease`: the refinement.
* **Ingest.** `OneRowEach` (`ReportedOnFileOnce`, `ResyncIsNoop`): once each, also
  when a payload is landed twice. `WorkArrives` (`WorkReachesThePosting`) and
  `WorkIsKept` (`WorkStaysWithItsCharge`, `UserWorkKept`, `ManualRowsUntouched`,
  `IdsAreUnique`): what people wrote. The charges no other can be mistaken for are
  meant; the others are among the disagreements below.
* **Transfers.** `PairsAreSound` (`GroupsAreTransfers`), `GroupsAreKeptWhole`: requests
  that interleave. `PassAgreesWithPicker`: the chunked pass against asking the picker row
  by row.
* **Rows.** `PeopleDecide` (`OnlyLateWritersUndo`, `HumanSplitStands`): precedence, and that only a writer that had loaded the row
  before may miss it. `PeopleAreHeard`: precedence without that exception, which fails.
  `CachesStayRight` (`LegsFollowParent`, `BaseFollowsAmount`): both currencies add up,
  with the two exceptions the code has (a sync that moves a row, another household's rate)
  named in the formula. `RunsAgain` (`RecomputeRepairs`, `SecondApplyIsNoop`): the cache
  is what a recompute makes of it, and rules that do not touch one another are idempotent.
* **Rates.** `RatesReachEveryCache` (`NoDayIsForgotten`, `CachesFollowTheTable`): a day a
  household needs has a rate or the next run asks for it, although only the edges of what
  is held are asked for; and once a run is over no cache is behind the table. Its
  exceptions are the code's: another household's hand-stated rate, a run that raised, and
  a rate that was fetched the other way round (section 5).
* **Investments.** `FoldIsSound` (`SalesKeepTheAverage`, `BasisIsWhatWasPaid`,
  `EntryOrderIsNoMatter`): the fold, also after an oversell. `PositionsAreKept`
  (`TypedWaitsBehindTrades`, `BalanceFollowsPositions`): a typed row waits behind the
  trades that shadow it, and the accounts collected before a write are the ones it moves,
  whatever was committed between the request's reading and its writing;
  a commit between its recompute and its own commit is the exception, because the code has no
  lock there. `MirrorIsSound` (`FiledIsWhole`, `HandWorkSurvives`, `SyncMirrorsTheBank`): no
  snapshot of a partial sum; whatever is committed between a sync's read and its flush, the
  quantities and prices that people had written when it read stand after the flush, and so
  does, even if it came in between, a total pinned to a row the bank lists; and after a sync
  that nothing overtook the bank's rows are its list, and the same list changes nothing. What
  people write in between the code overwrites (section 5), and the property says so.
* **Household.** `HouseholdIsSound` (`Attributed`, `OwnersReadApart`,
  `HeadlineIsNewest`): every row resolves to an owner, names differ in more than case,
  the headline is the newest balance. `AccountsAreApart` (`AgentsNameApart`,
  `OneRowPerCard`): two naming requests at once, and the order of lookups a sync makes.
  `EditsStayPut` (`ShareMovesWhole`, `MeaningStands`, `PastIsNamed`, `AlikeLandApart`):
  what one step may not do to what it does not name.
* **Access.** `OneHousehold`, `OverIsOver`, `AgentsActForTheOwner`: two first signups, a
  request that waits behind a logout, a token whose issuer's role is changed by hand.
* **Files.** `StatementsAddUp` (`EveryRowIsHere`, `AsManyAsTheFullestFile`,
  `DigestsRepeatOnlyInRaces`, `LaterTwinsAreFlagged`): the ordinal, the two keys and the
  savepoint. `CellsReadBack` (`CellsReadAsWritten`, `ExportReadsBack`): the separators and
  the day and month. `HeadlineOnlyForward`: a statement's balance against a newer one, and
  the headline against the history of its day. Both are the narrower for races: only a
  request that read the account before another moved it may break them.
* **Export.** `RestoreIsFaithful` (with `FilesCanFollow`, `OldBalancesReadTheSame`): an
  export in a fresh household. `MergeKeepsBoth` (`KeepsWhatIsHere`, `TransfersStayWhole`,
  `AsManyAsTheLarger`, `NothingTheSecondTime`): one in a household that has lived on, and
  the same one again.
* **Notices.** `NoStream`: a failure that was just told is not told again. `ToldOnce`
  (`NothingSkipped`, `ShownOnce`): the cursor. `EveryNoticeIsShown`: liveness, once the page
  can show; its exception, `HeldBack`, is a page left for good with a list it was handed
  before it could show it, or whose showing or cursor failed (section 5).
  `LongOutageIsTold`: that an outage is mentioned again REPEAT_AFTER past its notice, which
  fails.
* **Reports.** `UnexplainedIsNamed`: what is unexplained of a change of net worth is
  what balances had missed, the entries of the first day, rows no report shows,
  contributions, and what a brokerage's foreign cash gained by the rate, and nothing
  else. `SameMoney`: bars, graph, spending and owners' shares total the same entries, over
  any window; and the chart of a window past both ends leaves out what is dated ahead, which
  the graph and the spending include, and nothing else. `PastIsTrue`: a balance worked back
  from the first snapshot is the one the bank had, less what was entered after that snapshot
  with a day before it, which the code takes to have been in it.
  `PlansMeetTheSpending`: the months' reports cover the window's spending once.
  `WindowsAreCut`: buckets are disjoint, in order, and leave nothing out.

Each property also fails on a named mutant of the code (`…_OneMore`, `Fence_Open`,
`Write_AnyOwner`, …), kept next to the definition it mutates.

## 4 What is proved

TLC checks a property on one instance; the theorems below hold for every value of the
constants that meets the named assumptions. TLC has checked each inductive invariant on
the instance of its run.

| Module | Theorem | Says |
|---|---|---|
| `SyncQueueProofs` | `Inductive` | `Spec => []IInv` |
| | `TypeCorrect`, `AtMostOneRunning`, `BudgetKept` | `Spec => []TypeOK`, `[]OneRunningPerConnection`, `[]RetryBudget` |
| | `FencedLanding`, `StoppedIsFinal`, `RunsAreClosed` | `Spec => OnlyLatestClaimLands`, `StoppedStaysStopped`, `LettingGoClosesRuns` |
| | `Implements` | `Spec => ImplementsLease`: the queue implements `FencedLease`, step by step |
| `HouseholdProofs` | `BooksInductive` | `Spec => []BooksInv` |
| | `HouseholdIsSoundForAll`, `AccountsAreApartForAll`, `EditsStayPutForAll` | `Spec => []HouseholdIsSound`, `[]AccountsAreApart`, `EditsStayPut` |
| | `Inductive` | `AccessSpec => []IInv` |
| | `OneHouseholdForAll`, `OverIsOverForAll`, `AgentsActForTheOwnerAlways` | `AccessSpec => []OneHousehold`, `[]OverIsOver`, `[]AgentsActForTheOwner` |
| `ReadingProofs` | `BankInductive`, `NoStreamForAll` | `Spec => []BankInv`, `[]NoStream` |
| | `ToldOnceInOneTab` | `Spec => []ToldOnce` with one tab |
| `ReadingProofs` | `EveryWindowIsCut` | any two days and any granularity: the buckets between them cut without a rest |
| | `ReportsInductive` | `BudgetsSpec => []ReportsInv` |
| | `WindowsAreCutForAll`, `PastIsTrueForAll` | `BudgetsSpec => []WindowsAreCut`, `[]PastIsTrue` |
| | `SameMoneyForAll`, `PlansMeetTheSpendingForAll` | `BudgetsSpec => []SameMoney`, `[]PlansMeetTheSpending` |
| | `WorthInductive`, `UnexplainedIsNamedForAll` | `BudgetsSpec => []WorthInv`, `[]UnexplainedIsNamed` |
| `IntakeProofs` | `EdgesReach` | if nothing is missing between two fetched days, every day a household needs is held or in the ranges asked for |
| | `RatesInductive`, `RatesReachEveryCacheForAll` | `RatesSpec => []RatesInv`, `[]RatesReachEveryCache` |
| `IntakeProofs` | `StatementsInductive` | `Spec => []StatementsInv`, of `Imports` |
| | `StatementsAddUpForAll`, `HeadlineOnlyForwardForAll` | `Spec => []StatementsAddUp`, `HeadlineOnlyForward` |
| `TransfersProofs` | `Inductive` | `Spec => []IInv` |
| | `PairsAreSoundForAll`, `PassAgreesForAll`, `GroupsAreKeptWholeForAll` | `Spec => []PairsAreSound`, `[]PassAgreesWithPicker`, `GroupsAreKeptWhole` |
| `IntakeProofs` | `LedgerInductive` | `IngestSpec => []LedgerInv` |
| | `WorkOutlivesSyncs` | `IngestSpec => [](IdsAreUnique /\ ManualRowsUntouched /\ UserWorkKept)` |
| | `WorkInductive`, `WorkIsKeptForAll` | `IngestSpec => []WorkInv`, `[]WorkIsKept`, unless people rewrite amounts or descriptions |
| `LedgerRowProofs` | `Inductive` | `Spec => []IInv` |
| | `CachesStayRightForAll`, `PeopleDecideForAll`, `RunsAgainForAll` | `Spec => CachesStayRight`, `PeopleDecide`, `[]RunsAgain` |
| | `PeopleAreHeardAlone` | `Spec => [][UserFieldsStand]_vars` if no writers overlap |
| `InvestmentsProofs` | `PositionsInductive`, `HistoryInductive` | `Spec => []PositionsInv`, `HistorySpec => []HistoryTypeOK` |
| | `FoldIsSoundForAll`, `MirrorIsSoundForAll`, `PositionsAreKeptForAll` | `InvestmentsSpec => []FoldIsSound`, `[]MirrorIsSound`, `PositionsAreKept` |
| `Recursion` | `UpTo`, `Recursion`, `GreatestOne` | induction up to a bound, that a function defined step by step on `0..N` takes those steps, that a finite set of numbers has a greatest, and sums over finite sets: of a union, over a bijection, by parts, by keys |

**The queue**, for any connections, jobs and workers and any positive `MaxAttempts`. None
of the properties is inductive alone. `OneRunningPerConnection` is kept by the partial
unique index alone, but that the fence is right needs more: a worker that is busy holds a
token of its own job (`WorkerShape`); a worker whose token is still its job's holds a
running job (`HeldIsRunning`); no two workers hold the same claim (`ClaimsAreUnique`),
because a claim is named by an attempt number that only grows; and a running job's claim is
the newest on its connection (`RunningIsLatest`), because a second claim on the connection
needs the first job to have stopped running. Their conjunction with the type and the shape
of a row in each status is `IInv`. There is one lemma per action; the many steps that only
move one worker, or only settle a set of jobs, share `StepInv`, `ParkInv` and `RowsInv`.
For the refinement the holder of a connection is its running claim: `ClaimJob` maps to
`Grant`, `ClaimPaused` to `Forgo`, `Ingest` to `Land`, whatever stops running jobs to
`Withdraw`, and every other action to a stutter. Assumptions: `MaxAttemptsAssumption`, and `NoneIsNotARow`
(NULL is no row).

**Household**, for any owners, categories, accounts and requests, any cards of any names,
any payloads and any number of steps. `BooksInv` says of one account (`Fine`) that its
headline is its newest balance, that one without a key has seen no charge, and that a key
with a card's id in it is that card's; of all of them together (`BooksFine`) that a key is
one account's, that whatever belongs to a card alone in its name is on the row its name
leads to, and that what agents named reads apart; and of the requests (`Adding`) that at
most one has chosen a name, which no account has. The last is what the advisory lock is for. Two
lemmas carry the accounts through every operation, one for tables that only lose rows or
change them where the bank and the agents do not look (`TableKeeps`), one for tables that gain a
row (`TableGrows`); `OneWritten` reduces an edit of one account to that account. That
`distinct_account_name` finds a name at all is a pigeonhole: fewer accounts than numbers
(`DistinctIs`). A sync is a recursive function of the payload, and `Landing` is the
invariant of its cards: what holds of the tables, which days moved, and that a card's id is
new only on the row with its own key, from which `AlikeLandApart` follows. That an
account's key and a lone card's row agree needs that a payload's key for a card is its
plain name unless another card is told apart from it, which is `_account_keys`.
Assumptions: `LimitsAssumption` (some days, some numbers, finitely many account ids),
`BankAssumption` (a payload is a sequence of cards, each with a name and a type),
`PatchesAssumption`, `NamesAssumption` (`Lower` is defined where it is used),
`NoneAssumption` and `NoIdAssumption` (NULL is no value), and `StartsAssumption` (a
household begins with one Shared owner, names that read apart, and nothing of a bank's or
an agent's).

**Access**, for any people, sessions, tokens and overlapping requests, and any limits. The
invariant has one part per group of variables. `Founded`: the advisory lock lets one signup
be under way, so what it counted at its start is true at its end. `Ended`: a session that
is over has no row, or a row past its limits with no request on it that could still revive
it. `Granted`: what a call may do was settled by the token as issued, and the call began
while the token stood; the issuer's standing is not in it, because it is read on every
request. Assumptions: `TimesAssumption` (the limits are natural numbers), `NullAssumption` (NULL is
no row).

**Notices**, for any connections, times and answers of a bank. That notices are no stream
(`BankInv`) needs that the runs of a connection are in the order of their starts, that only
the newest run is being closed, whether or not the reaper was there first, that events are
about ever later runs and none about the worker's own, and, since one worker has one run
under way, that events commit in the order of their times (`OneAtATime`). `ToldOnce` is proved for one tab:
everything up to some event has been shown, and what of it is not before the cursor is
remembered in the tab; the lists that are held and gone through continue from there
(`Screen`, `TabInv`). A notice shown twice is charged to one closing of the tab, or to one
cursor that was not kept, each (`Again`). With several workers or tabs the theorem is false
(section 5). Assumptions: `NoticesAssumption`, `NoneAssumption`.

**Rates**, for any households, currencies and days. Asking at the edges of what is held
leaves no day behind only because nothing is ever missing between two fetched days
(`Gapless`). A fetch keeps it although the table moves under it: what it asks for was read
off a table that had no gap, and since then people can only have filled days (`Asking`). For
the caches: while a run is under way, a row that is behind the table for no named
reason is behind a rate this run has written, which is what its second pass looks for
(`Owed`). Assumptions: `StartsAssumption`, `NullIsNoRate`.

**Transfers**, for any finite ledger, any requests in flight and any chunk and cap. Groups
are numbered in the order they are made (`InOrder`), so a group a request has not seen is a
newer one. A request remembers of its rows what still holds unless a leg was deleted or
repriced, and what it finds in its rows now it either saw or cannot have seen
(`RequestsRemember`). That the chunked pass links what asking the picker row by row would is
an induction over the chunks: the rows taken so far are the legs of the plan so far, and a
chunk's query less what was taken since is what the picker would find. Assumptions:
`LimitsAssumption`, `TxnsAssumption` (a row is a number, and there are finitely many),
`WorthAssumption`, `NullAssumption`.

**Ingest**, for any bank, any payload in any order and any people. Each step of a landing
moves one row, to an id no row has, or adds one, so what holds of the whole is what holds
of one step, carried along the payload by recursion. That an id is one row's (`Unique`)
needs only that an id is one charge's at the bank (`BankNames`): the step that adopts a
pending row, or re-keys one, has looked the new id up first. `UserWorkKept` and
`ManualRowsUntouched` follow, and suppose nothing of people. That work stays with its
charge needs `Faithful`: a synced row reads as the charge it stands for, and is never
named by the id of another charge from which it can be told. `WorkIsKeptForAll` supposes
that people do not rewrite the amount or the description of a synced row, the two fields
the matchers read. TLC shows that it must: a description a person changed can make
a row the lookalike of another charge, whose report then takes it over. Filing,
annotating, re-dating, entering and deleting rows are unrestricted. Assumptions:
`BankAssumption` (finitely many charges, some day), `NoneIsNotACharge`, `LimitAssumption`.

**Ledger rows**, for any amounts, days, rates, rules, splits and overlapping writers. The
invariant is little more than the type, because the properties are about steps: each
writer is one lemma that says what it makes of any row (`ProvidedIs`, `PatchedIs`,
`AppliedIs`, `RecomputedIs`, `SetSplitsIs`), and each property follows from those. Money is
an induction over the parts: an allocation adds up to what was allocated (`AllocateAddsUp`),
since the remainder of the rounding goes to one part, and there is one
(`RemainderHasAPlace`). The legs of a rule add up to the amount because the last takes the
rest (`ResolvedIs`); an edit of the amount of a split row is refused unless its legs still
do (`PatchedIs`). What a pass leaves of a person's fields is an induction over the rules
(`PassesAre`). A flush undoes a person's edit only if the held row is from before it
(`FlushedIs`, `LateWriterStands`): without overlaps the exception is empty, which is
`PeopleAreHeardAlone`; with them the unexcepted property is false (section 5). That a second pass
changes nothing: no enabled rule reads what one writes, so after the pass the same rules
match (`SameMatches`); each left its work done (`Done`), and no other that matches writes
its fields. Assumptions: `MoneyAssumption` (whole units, a rate is a quotient with
a positive divisor), `DaysAssumption`, `SplitsAssumption` (weights that do not sum to zero, parts in whole
units), `RulesAssumption` (what the schemas of `schemas/rules.py` accept), `NullAssumption`, and the bound
`OverlapsAssumption`.

**Investments**, for any accounts, securities, trades, lists of the bank and requests, and
any number of clients. *The trades of a position:* no two trades have one rank in the order
of their days (`RanksAreDistinct`), so `InOrder` is a reordering of them, and two entries of
the same trades on different days come out as one sequence (`OneOrder`). That the fold is
an average-cost account is an induction over the prefixes of that sequence: an event leaves
a fraction with a positive divisor, of no more than was paid (`FoldedIs`), and a sale keeps the
cost of a share (`SaleKeepsTheAverage`). *The positions:* `PositionsInv` says of the book
that a row is of a listed security, that only the bank's rows are frozen, that a pinned
total has a quantity, and that what a person wrote last is a row of theirs or a frozen one
(`BookFine`), which is why a sync passes it by; of each request in flight that what it
read was fine and is still there with the same writer, if not the same number, unless it
knows it is lost (`RequestFine`), that what it plans to file as history is whole, and, if
nothing was between its revaluing and its commit, that it plans what it would compute now
(`ClientFine`); and the same of the sync between its read and its flush (`MirrorFine`).
Nothing in it says that what was read is unchanged, because nothing in the code does: the
weight is on the `UPDATE` that lands on a row written since (`MergedIsFine`,
`RewrittenIsFine`). That the fine book survives it needs that no writer moves a row from a
person to the bank or back (`SourcesStay`), and that a flush in which the columns of a pinned
total would come apart is refused by the constraint. What people wrote before the sync read
stands because a flush sets only what differs from what it read (`HandWorkStays`,
`RowAfterSync`); that the list comes again to no effect is about a sync that read what is
there (`Current`, `SyncMirrors`, `AgainIsTheSame`). That an account is revalued whenever its
worth moves needs that one a request does not collect keeps its worth
(`UnaffectedKeepsItsWorth`): a sum depends on its own positions only (`WorthDepends`). Assumptions: `TradesAssumption` (trades are trades,
of any sign), `SetsAssumption` (finitely many accounts and securities, some day),
`RequestsAssumption` and `BankListsAssumption` (what the schemas accept: a quantity typed
or listed is not zero, a price not negative), `TypedAssumption` and `NoneAssumption` (NULL is no
value).

**Statements**, for any files, any number of requests and commits, and any rows a sync or a
person adds. A file counts by what the parser makes of it, so the proof takes the list of
its rows as given. `StatementsInv` says of the ledger (`BookFine`, `BookIsOfFiles`) what
the indexes keep apart, that a digest found twice is a race, that a later twin is flagged,
that every row with a digest came from some file's row and every row of a file is here; and
of each open request (`RequestFine`) that it holds every row committed before it began
(`Remembers`), that what it wrote are rows of its file, each once (`Writes`), none of which
an index refuses beside the ledger of this moment (`StandsIn`), that what it is done with is
here (`DoneWith`), and that its counts add up (`Counts`). No two open requests have written
one key, because the second waits (`RequestsApart`); so when one lands, what the others have
written still stands (`FineBesideALanding`), and what it lands fits the ledger it finds,
which is not the one it read (`BookGrows`). That there are as many of one identity as in
the fullest file is a count of ordinals: the rows of one identity have different digests
(`DigestsDiffer`), because each has more of its like before it than the one before
(`EarlierCountsLess`); each of them is here (`AtLeastAsMany`), and each that is here has
an ordinal some file reached (`AtMostAsMany`). The headline is a case analysis of
`record_balance` (`RecordIs`), fresh or not (`FreshCommit`). Assumptions:
`UploadsAssumption` (a file that is not refused reads as a list of rows, those that can be
read at an instant, and no digest is NULL), `BalancesAssumption` (a statement's balance is
of some day) and `ArrivalsAssumption` (a row that arrives otherwise is a whole row without
a digest).

**Charts and reports**, for any window of days, any accounts, owners,
rates, prices, rows and trades, and any number of steps. *Buckets* (the docstring of `buckets` in
`services/periods.py` has the partition "asserted in the tests rather than argued here"): a
day is a year, a month and a day of the month in exactly one way (`YearIs`, `MonthIs`,
`DayIs`), so `PeriodFine` says of every day and granularity that its period has it, that
every day of the period has that period's start, that the period is no shorter than
`Shortest`, and that `Advance` is the day after its end. The cursor's walk is then an
induction (`WalkIs`): it meets every period once, and passes the window's end within the
steps allowed (`CursorsAre`). That "auto" stays within 50 bars follows from the ceilings
(`AutoIs`). *The household:* `ReportsInv` adds to the types that every snapshot says what
the bank did of the rows entered and dated by its day (`SnapsAreSaid`), which posting, filing
and hiding keep because nothing is entered in the past, whatever day it is dated, and that
plans are finitely many and no two of one category and month (`PlansAreApart`). `PastIsTrue`
follows from the first of these: up to the first snapshot the rows are all that moved the
balance, and those of them that were entered later come to `Late` (`LateIsTheRest`). *The reports of entries* are
folds of the library, which are recursive operators; `MoneyIs` restates each as a sum of
`Recursion`'s, and every report is shown to be a sum over one set of flows (`AllFlows`), cut
by day, sign, node or owner. Bars add up since a day is in one bucket (`BucketHolds`),
nodes since an entry has one (`SideAddsUp`), owners since an entry's effective owner is one
of the household's (`OwnersAddUp`), and the trimmed chart since no entry is before
the first, and of those after today it leaves out all, unless all are (`CutIsWhole`). A budget's months are disjoint and cover the days, so their reports
add up to the window's spending (`MonthsAddUp`), and what the plans cover is never more
than was spent (`NothingIsOvercounted`). *The reconciliation* needs a second invariant,
`WorthInv`: a row is worth its amount at its day's rate and its parts add up to that
(`RowFits`), and each purchase or sale is followed by the cash that pays for it
(`DealsArePaid`). The argument goes account by account. For one held in balances the
revaluation cancels all but what the balances missed, the rows of the first day, and the
rows themselves (`StatedIs`). For a brokerage the appreciation cancels the securities and
what was paid for them (`BoughtIsPaid`), which leaves the cash: what came in and went out,
and what the rate made of it (`HeldIs`, `CashDrift`). The entries told of an account are
then its rows but for those hidden, linked or filed as transfers (`StatedFlows`), or those
movements of cash (`HeldFlows`), so that one account is unexplained by its residue alone
(`UnexplainedOfIs`); the linked pairs come to the conversion cost (`LinkedIs`), and the
accounts are added up (`ChangeIsNamed`). `Knowable` is the hypothesis: the theorem does
not speak of a window with an unknown rate or price, with a linked pair that it cuts or
that is hidden in part, or of a household with a hidden brokerage. Assumptions:
`ReportsAssumption` (finitely many accounts, securities and owners, days from year 1,
whole amounts, a rate once known stays known, Absent is no number and no owner) and
`PlansAssumption`.

### What stays with TLC

* Liveness, `EveryJobStops` and `EveryNoticeIsShown`: proofs under fairness are out of the
  prover's reach.
* `OneRowEach` and `WorkArrives` of `SyncIngest`: that a charge is on file once while the
  bank reports it, and that work on a pending row arrives at the posted one. These say
  that the matcher does find a row, which turns on its window of days and its limit of
  candidates; what is proved says that it never takes a wrong one.
* `CellsReadBack` of `Imports`: what cells are read as, which is arithmetic on the pieces
  of a number or a date; the proofs about statements begin at the rows.
* The properties of `Portability`. What `Import` computes is an induction over the tables,
  written with folds that take an operator, over tables that change under the fold; the
  modules proved about use recursive functions instead.

## 5 Disagreements found

Shown by a run:

1. `notices_silence` — `services/notifications.py` promises "a slow reminder for an
   outage that outlasts a day, because "we already told you once" is not a reason to go
   silent for a week". `should_notify` compares with the start of the run just before, so
   each failing run starts the clock again. In the trace a connection is told of at 0, fails
   at 1, and fails at 2, which is REPEAT_AFTER since the notice; the third run compares with
   the second and is silent. A connection that is retried more often than daily is not
   mentioned again for as long as its outage lasts.
2. `reports_first_day` — "`unexplained` is therefore expected to be **zero**, and when it
   is not, the response says why" (`services/reports.py`). The balance at a window's start
   is that day's closing balance, while the day's flows are counted too: they come back
   negated as unexplained, with no warning.

3. `lost_edit` — "a field tagged `user` or `rule` is never overwritten"
   (`docs/ARCHITECTURE.md`). A sync that loaded the row before a PATCH committed, and
   flushes after it, writes its own `field_sources` over the person's, and its value over
   theirs where it changes that column: the next sync takes the field for the provider's.
   Rules passes and two PATCHes do the same to each other.

Noted while modelling, each consistent with the models but without a run:

*Queue and ingest*

* `services/jobs.py:403` calls "no job that has stopped leaves a run saying it is still
  going" an invariant of the queue. A cancelled job whose worker then dies leaves its run
  `running`: the reaper looks only at running jobs;
* `_finish_failed` is not fenced: a late failure rewrites the connection's health, and
  on a deleted connection its run stays open;
* of two identical purchases, one posted and one pending in the same payload, the posted
  one adopts the pending one's row and the pending one ends the sync with none.
  Candidates are not restricted to rows the payload no longer reports;
* `expire_pendings` promises to keep an annotated row; notes and tags leave no
  `field_sources` entry, so it is deleted;
* re-keying after a reconnect happens on the first sync only: a charge that payload
  omits is inserted again later;
* the plain name finds a card's row before its id does: once the bank stops reporting the
  namesake that held the plain key, the other card lands on its row, although it has one;
  and a rename is never stored in `external_key`, so renaming and reconnecting a card
  doubles its account.

*Rows, rules and money*

* applying rules is documented as idempotent; rules whose conditions read what a later
  rule writes change the row on a second run;
* a sync that changes an amount or a day leaves `base_amount` as it was
  (`services/sync.py:861-918`), where `services/transactions.py:49-57` has every writer
  fill it the same way; and ADR-0031 §5 has the sync refuse the update of a split row a
  person owns, where it is applied;
* a residual of exactly zero is returned as `None`, which the matcher reads as "no rate":
  the best possible cross-currency match is no match;
* a linked leg that is deleted, or linked by two requests at once, leaves a group with
  one leg, a state a comment in `link_transfer` calls unreachable; `fx_cost_base` is not
  updated when a linked leg is;
* `core/money.py:allocate` puts the remainder on the greatest signed part, which for
  negative totals is the smallest in magnitude and may change its sign;
* moving a split foreign row to a day with no rate calls `allocate(None)`;
* stating a rate recomputes the caller's household; `fx_rates` is shared, so another
  household's caches wait for their next recompute;
* the daily fetch's second pass is meant for "every household whose currencies were written
  by anyone" (`services/fx_fetch.py`) and looks for `(base, currency)` only: a household of
  the opposite base converts through the same row the other way round, and its caches wait
  for a restart or a run that writes one of its own pairs.

*Investments*

* `quantities_at` promises "today's minus the trades since"
  (`services/investments.py:967`), and unwinds by `quantity` alone what the fold counts
  by `amount` when a cash event has no quantity: the cash of a past day is today's, and
  the net-worth history shows it;
* a sync reads its account's holdings without a lock (`services/sync_holdings.py:236-241`)
  and flushes them later (286, 299). A `PATCH` that commits in between is overwritten: the
  row it froze is left frozen with the bank's number, or deleted if the bank no longer lists
  it; a price a person entered for the day meanwhile is replaced by the bank's number under
  the person's `manual`, or, where there was none, makes the whole sync fail. `HandWorkSurvives`
  speaks of what was committed before the read;
* two requests that write one holding do the same to each other, column by column: a quantity
  and a reset that overlap leave a row with the person's number and no freeze, or the other
  way round (`by` is then `several`);
* two requests that move one derived account at once each sum what they see: the
  balance misses one of them until the next write. Nor does a sync's price, a new rate,
  or a security becoming cash recompute the balances it changes;
* `is_fully_valued` asks for a value in the household's currency: a derived account kept
  in another one, with no rate to it, files a balance that leaves positions out;
* `upsert_holding` with no row yet stores a quantity even while trades own the position;
  deleting them brings it back;
* nothing checks the sign of a trade's amount or quantity, on which the fold relies: a buy
  recorded with a positive amount takes basis away, below nothing if it is the first;
* an oversell that is bought back leaves the basis of the shares that covered it, and the
  next average is reckoned from there;
* a synced position whose trades are recorded is skipped by `sync_holdings` and then
  counted among those the bank stopped reporting, and removed with its labels and total.

*Accounts, sessions and tokens*

* `update_account` accepts a balance dated in the future, which `put_balance` refuses; it
  then keeps the bank's newer balances from becoming the current one;
* when the last snapshot is deleted, an earlier typed day does not become the headline;
* a request refused with 401 rolls back the deletion of the session it found expired; one
  that straddles the idle deadline may revive it; `bootstrap_household` takes no lock;
* `ensure_shared_owner`'s branch that creates an owner cannot be reached.

*Imports and exports*

* an OFX file that lists the newest first can drop a genuine charge under a new FITID; a
  CSV commit that races an OFX commit doubles a charge; two statements at once can put
  the headline balance back, and a third that read the account before they did leaves it
  other than the history has its day; an OFX time with a clock never meets the CSV's noon digest;
* base amounts are converted on import before the document's rates are in: "the *rates*
  travel instead, and the cache is recomputed on import" (`services/portability.py:45`)
  fails for a rate the instance did not hold yet, and an import in another base currency
  sets the household's without recomputing;
* paystubs are created on every import; a household whose Shared owner was renamed is
  refused elsewhere; identical rows of mixed origin, or with a middle one deleted, may be
  doubled at home; a rule of priority 0 becomes 100; a half-matched transfer comes in with
  one leg; splits come without base amounts; budgets are not exported.

*Notices and reports*

* `lib/notify.ts:108-112` has "the next poll asks for the same window again, which is what
  makes granting permission in Admin deliver the notices that arrived while it was denied",
  and `api/sync.ts:101-104` "the moment permission is granted, without a reload". The poll
  does ask again, but an equal answer keeps its reference and the effect that delivers does
  not run: the notices wait for another one, or for a reload. So do those whose
  `showNotification` was rejected (nothing catches it) and those that found no service worker; and
  where storage refused the cursor, the same list comes back for good. This is `HeldBack`,
  the exception of `EveryNoticeIsShown`;
* with several workers, a notice whose transaction started earlier may commit after a
  later one was shown, and is skipped (the instance has one worker); the `fresh` notices
  of `notify.ts` are computed before two awaits, so two tabs may each show one; an unknown
  cursor re-shows the oldest page, where `list_notices` says the recent window;
* over a window that ends after today the reports of the same entries disagree:
  `/cash-flow` is cut at today (`api/reports.py:86-92`, 'a "this year" window in September
  has no money in October'), and the graph and the spending are not, while nothing bounds the
  day of an entry (`schemas/transactions.py:54`, `trade_date` in `schemas/investments.py`): a
  row dated ahead is in two of the three. When everything is dated ahead the chart is not cut
  either, because it starts at the first entry, and that is after today. `SameMoney` states
  the difference to the entry;
* a hidden brokerage's dividends and fees are in the household's cash flow
  (`_investment_flows` has no such filter), where "a hidden account is out of every report";
* the legs of a transfer on two days may be parted by a window: they are unexplained in
  both, and the conversion cost is counted in both; uninvested foreign cash moves with its
  rate in no term of the reconciliation.

## 6 Not modelled

* **Planned:** recurring charges (cadence and the next expected date).
* **Rates:** triangulation through the base, which only reports between two foreign
  currencies ask for; a person's request that overlaps a step of the fetch, which is taken
  as one transaction.
* **Parameters of what is modelled:** backoff and interval lengths, `SYNC_WINDOW`
  arithmetic, the reaper's batch of 50, the grouping of a bank's lines into securities,
  encodings and XML of statements, refusals of malformed documents.
* **Reads:** listings, data checks: they change nothing.
* **Labels:** institutions, tags, display names and order: fields of the same kind as the
  two `LedgerRow` carries, or of no consequence to another. Income and paystubs are one
  validation; documents and logos are files.
* **Delivery:** the webhook is sent once after the commit and never repeated.
* **External:** PostgreSQL (its unique indexes, row locks and READ COMMITTED snapshots
  are what the action boundaries express), SimpleFIN (`bank` in `SyncIngest`, `Fetch` in
  `SyncQueue`), the calendar.
* **Out of reach of these methods:** styling, deployment scripts, the anonymizer's
  rewriting of text, hashing and encryption.

## 7 Plan

Done, in order: the queue and its proofs, ingest, transfers, the ledger row, the trades
of a position and the household's positions; then accounts and owners, sessions and
tokens, statement imports, export and import, notices, periods, reports and budgets; the
writers of a row that overlap, and the daily rates. Proved since: the queue's refinement
of the lease, sessions and tokens, notices, rates, transfers, ingest, the ledger row, the
household's tables, the investments, the statement imports, and charts, reports and
budgets.

To come, most important first:

1. `RestoreIsFaithful`: `Import` with recursive functions in place of its folds, one
   importer after the other.
