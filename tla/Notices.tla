------------------------------ MODULE Notices -------------------------------
(***************************************************************************)
(* Notices about broken bank connections: the decision that a failed run   *)
(* is news and its record (services/notifications.py, from the two places  *)
(* of services/sync.py that close a run), and the browser that polls the   *)
(* record and shows each notice (frontend lib/notify.ts, api/sync.ts).     *)
(*                                                                         *)
(* One worker runs one connection at a time, so the times of the notices   *)
(* are in the order of the runs they are about.  The webhook is sent after *)
(* the commit, never fails the run and is not repeated: it is left out,    *)
(* and so is the connection's health, which nothing here reads.            *)
(***************************************************************************)
EXTENDS Integers, Sequences, FiniteSets, Functions

CONSTANTS
  Connections,   \* the household's bank connections
  Deliveries,    \* the calls of deliver() a tab may have under way
  RepeatAfter,   \* REPEAT_AFTER, in the clock's unit
  NoticeLimit,   \* NOTICE_LIMIT
  MaxTime,       \* bound: the clock
  MaxRuns,       \* bound: the runs of all connections
  MaxReopened,   \* bound: how often the tab is closed and opened again
  MaxUnsaved,    \* bound: how often the browser fails to keep the cursor
  None

\* a payload, with or without a complaint about the connection itself; or a
\* fetch that failed, for the person to mend (auth, payment) or not (transient)
Fetched == {"ok", "complaint"}
Answers == Fetched \union {"broken", "transient"}

Statuses == {"running", "ok", "error", "cancelled"}   \* "ok" is "partial", too
Run      == [at : Nat, status : Statuses]
Event    == [ts : Nat, conn : Connections, run : Nat \ {0}, at : Nat]

ASSUME NoticesAssumption == RepeatAfter \in Nat /\ NoticeLimit \in Nat \ {0} /\ MaxTime \in Nat
ASSUME NoneAssumption == None \notin Run \union Answers \union Seq(Nat) \union Connections

VARIABLES
  now,       \* the clock
  runs,      \* sync_runs of each connection, oldest first
  busy,      \* the connection the worker is running, or None
  closing,   \* the answer the transaction closing its run is for, or None
  started,   \* how many runs have started
  events,    \* the run.notified rows, in the order they commit
  cursor,    \* metalmark.notify.since: an event, Nothing or Stranger
  inTab,     \* shownInThisTab
  canShow,   \* the permission is granted and the service worker registered
  heard,     \* an answer the query has just got, or None
  data,      \* the answer the query holds, or None
  showing,   \* the notices a delivery has still to show, or None
  up,        \* whether the first of those is on the screen already
  missed,    \* the list the query holds was handed over and not gone through
  reopened,  \* how often the tab was opened again
  unsaved,   \* how often a shown notice did not move the cursor
  shown      \* how often this browser has shown each event since it lost its storage

bankSide == <<now, runs, busy, closing, started, events>>
browser  == <<cursor, inTab, canShow, heard, data, showing, up, missed, reopened, unsaved, shown>>
vars     == <<now, runs, busy, closing, started, events, cursor, inTab, canShow, heard, data,
              showing, up, missed, reopened, unsaved, shown>>

Nothing  == 0    \* no cursor
Stranger == -1   \* a cursor no event of this household has

Latest(c)    == runs[c][Len(runs[c])]
Running(c) == runs[c] # <<>> /\ Latest(c).status = "running"
CloseAs(c, status) == [runs EXCEPT ![c][Len(runs[c])].status = status]

-----------------------------------------------------------------------------
(* Runs                                                                    *)

\* TX1: the run is on record while it is in flight.  An earlier run still open
\* then is of a cancelled job whose worker died: nothing ever closes it.
StartRun(c) ==
  /\ busy = None
  /\ started < MaxRuns
  /\ started' = started + 1
  /\ runs' = [runs EXCEPT ![c] = Append(@, [at |-> now, status |-> "running"])]
  /\ busy' = c
  /\ UNCHANGED <<now, closing, events, browser>>

\* the fetch is over: the transaction that will close the run begins.  The
\* fence lets an answer past only while the job is this worker's; a failed
\* fetch meets no fence, so it closes a run that was reaped meanwhile, too.
BeginClose(c, answer) ==
  /\ busy = c
  /\ closing = None
  /\ answer \in Fetched => Running(c)
  /\ closing' = answer
  /\ UNCHANGED <<now, runs, busy, started, events, browser>>

\* classify_errlist, and _finish_failed: what a failure is about
StatusOf(answer) == IF answer = "ok" THEN "ok" ELSE "error"
Breaks(answer) == answer \in {"complaint", "broken"}

\* previous_run: the run before the one being closed
PreviousRun(c) ==
  LET k == Len(runs[c]) IN IF k = 1 THEN None ELSE runs[c][k - 1]

ShouldNotify_Daily(previous, moment) ==
  \/ previous = None
  \/ previous.status # "error"
  \/ moment - previous.at >= RepeatAfter - 1

ShouldNotify(previous, moment) ==
  \/ previous = None
  \/ previous.status # "error"
  \/ moment - previous.at >= RepeatAfter

\* TX2's end, or _finish_failed: the run and the notice in one commit; the
\* moment is the run's own start
Close(c) ==
  /\ busy = c
  /\ closing # None
  /\ runs' = CloseAs(c, StatusOf(closing))
  /\ events' = IF Breaks(closing) /\ ShouldNotify(PreviousRun(c), Latest(c).at)
               THEN Append(events, [ts |-> started, conn |-> c, run |-> Len(runs[c]), at |-> Latest(c).at])
               ELSE events
  /\ shown' = IF events' = events THEN shown ELSE Append(shown, 0)
  /\ closing' = None
  /\ busy' = None
  /\ UNCHANGED <<now, started, cursor, inTab, canShow, heard, data, showing, up, missed, reopened, unsaved>>

\* the fence refuses the answer: the job was cancelled, or reaped meanwhile
Refuse(c) ==
  /\ busy = c
  /\ closing = None
  /\ runs' = CloseAs(c, "cancelled")
  /\ busy' = None
  /\ UNCHANGED <<now, closing, started, events, browser>>

\* reap_stale_jobs, or finish_job after a run that raised: an open run fails.
\* No notice.  A worker that is only slow does not learn of it; one
\* past the fence holds the job's row.
Reap(c) ==
  /\ Running(c)
  /\ ~(busy = c /\ closing \in Fetched)
  /\ runs' = CloseAs(c, "error")
  /\ UNCHANGED <<now, busy, closing, started, events, browser>>

\* the worker dies, or the run raises, and what it had not committed is undone
Die ==
  /\ busy # None
  /\ busy' = None
  /\ closing' = None
  /\ UNCHANGED <<now, runs, started, events, browser>>

Tick ==
  /\ now < MaxTime
  /\ now' = now + 1
  /\ UNCHANGED <<runs, busy, closing, started, events, browser>>

-----------------------------------------------------------------------------
(* The browser                                                             *)

\* the k-th oldest of S has k - 1 older ones in S
InOrder(S) ==
  [k \in 1..Cardinality(S) |->
     CHOOSE i \in S : Cardinality({j \in S : events[j].ts < events[i].ts}) = k - 1]

ListNotices_KnownOnly(since) ==
  LET after == {i \in DOMAIN events : since # Nothing =>
                  since \in DOMAIN events /\ events[i].ts > events[since].ts}
      all   == InOrder(after)
  IN SubSeq(all, 1, IF Len(all) < NoticeLimit THEN Len(all) ELSE NoticeLimit)

\* list_notices: after the cursor's own place, oldest first, one poll's worth
ListNotices(since) ==
  LET after == {i \in DOMAIN events : since \in DOMAIN events => events[i].ts > events[since].ts}
      all   == InOrder(after)
  IN SubSeq(all, 1, IF Len(all) < NoticeLimit THEN Len(all) ELSE NoticeLimit)

\* useSyncNotices: each minute, and at once when the permission was granted
Poll(d) ==
  /\ heard[d] = None
  /\ showing[d] = None
  /\ heard' = [heard EXCEPT ![d] = ListNotices(cursor)]
  /\ UNCHANGED <<bankSide, cursor, inTab, canShow, data, showing, up, missed, reopened, unsaved, shown>>

\* an answer that equals the one the query holds is the same object to React,
\* and the effect does not run; a new one is handed to deliver, which leaves out
\* what this tab has shown and gives up if nothing can be shown now
BeginDelivery(d) ==
  LET news  == heard[d] # data /\ heard[d] # <<>>
      fresh == InOrder({i \in Range(heard[d]) : i \notin inTab})
  IN /\ heard[d] # None
     /\ data' = heard[d]
     /\ heard' = [heard EXCEPT ![d] = None]
     /\ showing' = [showing EXCEPT ![d] = IF news /\ canShow /\ fresh # <<>> THEN fresh ELSE None]
     /\ missed' = IF news THEN ~canShow ELSE missed
     /\ UNCHANGED <<bankSide, cursor, inTab, canShow, up, reopened, unsaved, shown>>

\* deliver's loop: show the next one; the browser answers when it is up
Show(d) ==
  /\ showing[d] # None
  /\ up[d] = FALSE
  /\ shown' = [shown EXCEPT ![Head(showing[d])] = @ + 1]
  /\ up' = [up EXCEPT ![d] = TRUE]
  /\ UNCHANGED <<bankSide, cursor, inTab, canShow, heard, data, showing, missed, reopened, unsaved>>

\* showNotification fails, and nothing catches it: the rest is dropped
Reject(d) ==
  /\ showing[d] # None
  /\ up[d] = FALSE
  /\ showing' = [showing EXCEPT ![d] = None]
  /\ missed' = TRUE
  /\ UNCHANGED <<bankSide, cursor, inTab, canShow, heard, data, up, reopened, unsaved, shown>>

Remember_Batch(d, stored) ==
  /\ up[d]
  /\ inTab' = inTab \union {Head(showing[d])}
  /\ \/ stored /\ cursor' = showing[d][Len(showing[d])] /\ unsaved' = unsaved
     \/ ~stored /\ unsaved < MaxUnsaved /\ unsaved' = unsaved + 1 /\ cursor' = cursor
  /\ showing' = [showing EXCEPT ![d] = IF Len(@) = 1 THEN None ELSE Tail(@)]
  /\ up' = [up EXCEPT ![d] = FALSE]
  /\ UNCHANGED <<bankSide, canShow, heard, data, missed, reopened, shown>>

\* ... and only then remember it in the tab and move the cursor to it; storage
\* that refuses the write is passed over
Remember(d, stored) ==
  /\ up[d]
  /\ inTab' = inTab \union {Head(showing[d])}
  /\ \/ stored /\ cursor' = Head(showing[d]) /\ unsaved' = unsaved
     \/ ~stored /\ unsaved < MaxUnsaved /\ unsaved' = unsaved + 1 /\ cursor' = cursor
  /\ showing' = [showing EXCEPT ![d] = IF Len(@) = 1 THEN None ELSE Tail(@)]
  /\ up' = [up EXCEPT ![d] = FALSE]
  /\ UNCHANGED <<bankSide, canShow, heard, data, missed, reopened, shown>>

\* the permission the Admin page asks for, once, and the worker's registration:
\* the later of the two
Enable ==
  /\ ~canShow
  /\ canShow' = TRUE
  /\ UNCHANGED <<bankSide, cursor, inTab, heard, data, showing, up, missed, reopened, unsaved, shown>>

\* the tab is closed in the middle of anything and opened again; its storage
\* is cleared with it, or holds the cursor of another household, or is kept
Reopen(storage) ==
  /\ reopened < MaxReopened
  /\ reopened' = reopened + 1
  /\ inTab' = {}
  /\ heard' = [d \in Deliveries |-> None]
  /\ data' = None
  /\ showing' = [d \in Deliveries |-> None]
  /\ up' = [d \in Deliveries |-> FALSE]
  /\ missed' = FALSE
  /\ cursor' = IF storage = "kept" THEN cursor ELSE IF storage = "lost" THEN Nothing ELSE Stranger
  /\ shown' = IF storage = "kept" THEN shown ELSE [i \in DOMAIN events |-> 0]
  /\ UNCHANGED <<bankSide, canShow, unsaved>>

-----------------------------------------------------------------------------
Init ==
  /\ now = 0
  /\ runs = [c \in Connections |-> <<>>]
  /\ busy = None
  /\ closing = None
  /\ started = 0
  /\ events = <<>>
  /\ cursor = Nothing
  /\ inTab = {}
  /\ canShow \in BOOLEAN
  /\ heard = [d \in Deliveries |-> None]
  /\ data = None
  /\ showing = [d \in Deliveries |-> None]
  /\ up = [d \in Deliveries |-> FALSE]
  /\ missed = FALSE
  /\ reopened = 0
  /\ unsaved = 0
  /\ shown = <<>>

Banking ==
  \/ \E c \in Connections :
       \/ StartRun(c)
       \/ \E answer \in Answers : BeginClose(c, answer)
       \/ Close(c)
       \/ Refuse(c)
       \/ Reap(c)
  \/ Die
  \/ Tick

Browsing ==
  \/ Enable
  \/ \E d \in Deliveries :
       \/ Poll(d)
       \/ BeginDelivery(d)
       \/ Show(d)
       \/ Reject(d)
       \/ \E stored \in BOOLEAN : Remember(d, stored)

Next == Banking \/ Browsing \/ \E storage \in {"kept", "lost", "foreign"} : Reopen(storage)

Spec == Init /\ [][Next]_vars

\* The page polls every minute while it is open, and its own code waits for
\* nothing but the browser, which answers one way or the other.  The permission
\* is the person's to give, and nothing makes her.
Answered(d) == Show(d) \/ Reject(d) \/ \E stored \in BOOLEAN : Remember(d, stored)
FairSpec ==
  /\ Spec
  /\ \A d \in Deliveries : WF_vars(Poll(d)) /\ WF_vars(BeginDelivery(d)) /\ WF_vars(Answered(d))

-----------------------------------------------------------------------------
(* What a person is told                                                   *)

\* What the module's variables hold; the worker's run is the connection's last
\* one, open or failed by the reaper.
BankTypeOK ==
  /\ now \in 0..MaxTime
  /\ runs \in [Connections -> Seq(Run)]
  /\ \A c \in Connections : \A k \in DOMAIN runs[c] : runs[c][k].at <= now
  /\ busy \in Connections \union {None}
  /\ busy # None => runs[busy] # <<>> /\ Latest(busy).status \in {"running", "error"}
  /\ closing \in Answers \union {None}
  /\ closing # None => busy # None
  /\ started \in Nat
  /\ events \in Seq(Event)

BrowserTypeOK ==
  /\ cursor \in DOMAIN events \union {Nothing, Stranger}
  /\ inTab \subseteq DOMAIN events
  /\ canShow \in BOOLEAN
  /\ heard \in [Deliveries -> Seq(DOMAIN events) \union {None}]
  /\ data \in Seq(DOMAIN events) \union {None}
  /\ showing \in [Deliveries -> (Seq(DOMAIN events) \ {<<>>}) \union {None}]
  /\ up \in [Deliveries -> BOOLEAN]
  /\ missed \in BOOLEAN
  /\ reopened \in Nat
  /\ unsaved \in Nat
  /\ shown \in [DOMAIN events -> Nat]

TypeOK == BankTypeOK /\ BrowserTypeOK

\* Notices about one connection are not a stream: of two that came less than
\* REPEAT_AFTER apart, some run in between did not fail (should_notify's "the
\* same failure being re-reported, which is the case the function exists to
\* suppress").
NoStream ==
  \A i, j \in DOMAIN events :
    (i < j /\ events[i].conn = events[j].conn /\ events[j].at - events[i].at < RepeatAfter)
      => \E k \in events[i].run..events[j].run : runs[events[i].conn][k].status # "error"

\* A browser that keeps its storage has shown everything up to its cursor:
\* the cursor never runs ahead of what a person saw, whatever closes the tab.
NothingSkipped ==
  cursor \in DOMAIN events =>
    \A i \in DOMAIN events : events[i].ts <= events[cursor].ts => shown[i] > 0

\* Closing a tab repeats at most the notice it was closed in the middle of and
\* those whose cursor could not be kept: "each notice is shown once per
\* browser" (ADR-0037).
ShownOnce ==
  /\ \A i \in DOMAIN events : shown[i] <= 1 + reopened
  /\ Cardinality({i \in DOMAIN events : shown[i] > 1}) <= reopened + unsaved

\* The cursor and the screen agree: nothing before it is unseen, and nothing is
\* seen again but what a closed tab was in the middle of or could not keep.
ToldOnce == TypeOK /\ NothingSkipped /\ ShownOnce

\* The page has nothing to go on: the server's answer is the list the query
\* holds, and going through it failed or left the cursor where it was.
HeldBack ==
  /\ data # None
  /\ data # <<>>
  /\ ListNotices(cursor) = data
  /\ missed \/ unsaved > 0

\* Once a browser can show notices, every notice recorded is shown in the end,
\* in however many pages, even after the cursor was lost or is foreign - unless
\* the page is left for good with a list that it was handed before it could
\* show it, or whose showing failed, or whose cursor was not kept: an equal
\* answer is not delivered again until it changes or the page is reloaded.
EveryNoticeIsShown ==
  \A i \in 1..MaxRuns :
    (canShow /\ i \in DOMAIN events) ~> ((i \in DOMAIN shown /\ shown[i] > 0) \/ []HeldBack)

\* told of at events[i], the last time, and every run since then failed, in its
\* own time
Outlasts(c, i) ==
  /\ events[i].conn = c
  /\ \A j \in DOMAIN events : events[j].conn = c => j <= i
  /\ \A k \in (events[i].run + 1)..(Len(runs[c]) - 1) : 
       runs[c][k].status = "error" /\ runs[c][k].at < Latest(c).at
  /\ Latest(c).at - events[i].at >= RepeatAfter

\* A run that finds a connection still broken REPEAT_AFTER or more after the
\* last notice about it says so again ("'we already told you once' is not a
\* reason to go silent for a week", services/notifications.py).
LongOutageIsTold ==
  [][\A c \in Connections :
       (Close(c) /\ Breaks(closing) /\ \E i \in DOMAIN events : Outlasts(c, i))
         => events' # events]_vars
=============================================================================
