--------------------------- MODULE ReadingProofs ---------------------------
(***************************************************************************)
(* What a household reads: its notices, its charts and its reports.        *)
(*                                                                         *)
(* The notices, for any connections, times and answers of a bank.  That    *)
(* they are no stream holds for any number of tabs (BankInv).  That a      *)
(* browser skips nothing and shows nothing twice is proved for one tab     *)
(* (TabInv): two deliveries at once may show the same notice.              *)
(*                                                                         *)
(* The charts, for every window and granularity: the calendar first, then  *)
(* what a period is (PeriodFine), the cursor's walk and the buckets.       *)
(*                                                                         *)
(* The reports, for any household: what every step keeps (ReportsInv),     *)
(* what a window's entries are (AllFlows), and that every report adds up   *)
(* the same ones.                                                          *)
(***************************************************************************)
EXTENDS Notices, Budgets, Recursion, SequenceTheorems

\* A connection's runs are in the order they started; an event is about a run
\* that failed, each about a later one, and none about the worker's run.
RunsInOrder ==
  \A c \in Connections : \A k, l \in DOMAIN runs[c] : k <= l => runs[c][k].at <= runs[c][l].at
EventsOnRuns ==
  \A i \in DOMAIN events :
    /\ events[i].run \in DOMAIN runs[events[i].conn]
    /\ runs[events[i].conn][events[i].run].at = events[i].at
    /\ runs[events[i].conn][events[i].run].status = "error"
EventsInOrder ==
  \A i, j \in DOMAIN events :
    i < j /\ events[i].conn = events[j].conn => events[i].run < events[j].run
NotTold(c) == \A i \in DOMAIN events : events[i].conn = c => events[i].run < Len(runs[c])

\* One run is under way at a time, so events commit in the order of their times.
OneAtATime ==
  /\ \A i, j \in DOMAIN events : i < j => events[i].ts < events[j].ts
  /\ \A i \in DOMAIN events : events[i].ts <= started
  /\ busy # None => NotTold(busy) /\ \A i \in DOMAIN events : events[i].ts < started

BankInv == BankTypeOK /\ RunsInOrder /\ EventsOnRuns /\ EventsInOrder /\ OneAtATime /\ NoStream

-----------------------------------------------------------------------------
(* Rows and the facts about them                                           *)

LEMMA ClosedRun ==
  ASSUME BankTypeOK, NEW c \in Connections, runs[c] # <<>>, NEW status \in Statuses,
         runs' = CloseAs(c, status)
  PROVE  /\ runs' \in [Connections -> Seq(Run)]
         /\ \A e \in Connections : e # c => runs'[e] = runs[e]
         /\ Len(runs'[c]) = Len(runs[c]) /\ Len(runs[c]) \in DOMAIN runs[c]
         /\ \A k \in DOMAIN runs[c] : /\ runs'[c][k].at = runs[c][k].at
                                      /\ k # Len(runs[c]) => runs'[c][k] = runs[c][k]
         /\ runs'[c][Len(runs[c])].status = status
  <1> DEFINE n == Len(runs[c])
             s == [runs[c] EXCEPT ![n].status = status]
  <1>1. runs[c] \in Seq(Run) /\ runs[c] # <<>>
    BY DEF BankTypeOK
  <1>2. n \in Nat \ {0} /\ DOMAIN runs[c] = 1..n /\ runs[c] \in [1..n -> Run]
    BY <1>1
  <1>3. runs[c][n] \in Run
    BY <1>2
  <1>4. [runs[c][n] EXCEPT !.status = status] \in Run
    BY <1>3 DEF Run
  <1>5. s \in [1..n -> Run]
    BY <1>2, <1>4
  <1>6. s \in Seq(Run) /\ Len(s) = n
    BY <1>5, <1>2
  <1>7. runs' = [runs EXCEPT ![c] = s]
    BY DEF CloseAs
  <1>8. \A k \in 1..n : s[k].at = runs[c][k].at /\ (k # n => s[k] = runs[c][k])
    BY <1>2 DEF Run
  <1>9. s[n].status = status
    BY <1>2, <1>3 DEF Run
  <1> HIDE DEF s
  <1>10. runs'[c] = s /\ \A e \in Connections : e # c => runs'[e] = runs[e]
    BY <1>7 DEF BankTypeOK
  <1>11. runs' \in [Connections -> Seq(Run)]
    BY <1>6, <1>7 DEF BankTypeOK
  <1>12. QED
    BY <1>2, <1>6, <1>8, <1>9, <1>10, <1>11


\* Closing a last run that no event is about keeps what is said of the runs.
LEMMA ClosingInv ==
  ASSUME BankInv, NEW c \in Connections, runs[c] # <<>>, NotTold(c), NEW status \in Statuses,
         runs' = CloseAs(c, status), UNCHANGED now
  PROVE  /\ runs' \in [Connections -> Seq(Run)]
         /\ \A e \in Connections : \A k \in DOMAIN runs'[e] : runs'[e][k].at <= now'
         /\ RunsInOrder'
         /\ \A i \in DOMAIN events :
              /\ events[i].run \in DOMAIN runs'[events[i].conn]
              /\ runs'[events[i].conn][events[i].run] = runs[events[i].conn][events[i].run]
  <1>1. /\ runs' \in [Connections -> Seq(Run)]
        /\ \A e \in Connections : e # c => runs'[e] = runs[e]
        /\ Len(runs'[c]) = Len(runs[c]) /\ Len(runs[c]) \in DOMAIN runs[c]
        /\ \A k \in DOMAIN runs[c] : /\ runs'[c][k].at = runs[c][k].at
                                     /\ k # Len(runs[c]) => runs'[c][k] = runs[c][k]
    BY ClosedRun DEF BankInv
  <1>2. \A e \in Connections : /\ DOMAIN runs'[e] = DOMAIN runs[e]
                               /\ Len(runs'[e]) = Len(runs[e])
                               /\ DOMAIN runs[e] = 1..Len(runs[e]) /\ Len(runs[e]) \in Nat
    <2> TAKE e \in Connections
    <2>1. runs[e] \in Seq(Run) /\ runs'[e] \in Seq(Run)
      BY <1>1 DEF BankInv, BankTypeOK
    <2>2. Len(runs'[e]) = Len(runs[e])
      BY <1>1
    <2>3. QED
      BY <2>1, <2>2
  <1>3. ASSUME NEW e \in Connections, NEW k \in DOMAIN runs'[e] PROVE runs'[e][k].at <= now'
    <2>1. k \in DOMAIN runs[e] /\ runs[e][k].at <= now
      BY <1>2, <1>3 DEF BankInv, BankTypeOK
    <2>2. runs'[e][k].at = runs[e][k].at
      BY <1>1, <2>1
    <2>3. QED
      BY <2>1, <2>2
  <1>4. RunsInOrder'
    <2> SUFFICES ASSUME NEW e \in Connections, NEW k \in DOMAIN runs'[e], NEW l \in DOMAIN runs'[e], k <= l
                 PROVE  runs'[e][k].at <= runs'[e][l].at
      BY DEF RunsInOrder
    <2>1. runs[e][k].at <= runs[e][l].at
      BY <1>2 DEF BankInv, RunsInOrder
    <2>2. runs'[e][k].at = runs[e][k].at /\ runs'[e][l].at = runs[e][l].at
      BY <1>1, <1>2
    <2>3. QED
      BY <2>1, <2>2
  <1>5. ASSUME NEW i \in DOMAIN events
        PROVE  /\ events[i].run \in DOMAIN runs'[events[i].conn]
               /\ runs'[events[i].conn][events[i].run] = runs[events[i].conn][events[i].run]
    <2>1. events[i] \in Event
      BY DEF BankInv, BankTypeOK
    <2>2. events[i].conn \in Connections /\ events[i].run \in DOMAIN runs[events[i].conn]
      BY <2>1 DEF Event, BankInv, EventsOnRuns
    <2>3. events[i].conn = c => events[i].run # Len(runs[c])
      BY <1>2, <2>2 DEF NotTold
    <2>4. QED
      BY <1>1, <1>2, <2>2, <2>3
  <1>6. QED
    BY <1>1, <1>3, <1>4, <1>5

\* ... and a run between two events, which did not fail, is still there.
LEMMA NoStreamKept ==
  ASSUME BankInv, NEW c \in Connections, runs[c] # <<>>, NotTold(c), NEW status \in Statuses,
         runs' = CloseAs(c, status), events' = events
  PROVE  NoStream'
  <1> SUFFICES ASSUME NEW i \in DOMAIN events, NEW j \in DOMAIN events, i < j,
                      events[i].conn = events[j].conn, events[j].at - events[i].at < RepeatAfter
               PROVE  \E k \in events[i].run..events[j].run : runs'[events[i].conn][k].status # "error"
    BY DEF NoStream
  <1>1. PICK k \in events[i].run..events[j].run : runs[events[i].conn][k].status # "error"
    BY DEF BankInv, NoStream
  <1>2. /\ events[i] \in Event /\ events[j] \in Event
        /\ events[j].run \in DOMAIN runs[events[j].conn]
    BY DEF BankInv, BankTypeOK, EventsOnRuns
  <1>3. /\ \A e \in Connections : e # c => runs'[e] = runs[e]
        /\ \A l \in DOMAIN runs[c] : l # Len(runs[c]) => runs'[c][l] = runs[c][l]
    BY ClosedRun DEF BankInv
  <1>4. runs[events[i].conn] \in Seq(Run) /\ events[i].conn \in Connections
    BY <1>2 DEF BankInv, BankTypeOK, Event
  <1>5. k \in DOMAIN runs[events[i].conn]
    BY <1>1, <1>2, <1>4 DEF Event
  <1>6. events[i].conn = c => k # Len(runs[c])
    <2>1. events[i].conn = c => events[j].run < Len(runs[c])
      BY DEF NotTold
    <2>2. QED
      BY <1>1, <1>2, <1>4, <2>1 DEF Event
  <1>7. QED
    BY <1>1, <1>3, <1>4, <1>5, <1>6

\* The run that is closed after an open one of the worker's: nothing is told of it.
LEMMA OpenIsNotTold ==
  ASSUME BankInv, NEW c \in Connections, Running(c) PROVE runs[c] # <<>> /\ NotTold(c)
  <1>1. runs[c] \in Seq(Run) /\ runs[c] # <<>> /\ Latest(c).status = "running"
    BY DEF Running, BankInv, BankTypeOK
  <1>2. Len(runs[c]) \in Nat /\ DOMAIN runs[c] = 1..Len(runs[c])
    BY <1>1
  <1>3. ASSUME NEW i \in DOMAIN events, events[i].conn = c PROVE events[i].run < Len(runs[c])
    <2>1. events[i].run \in DOMAIN runs[c] /\ runs[c][events[i].run].status = "error"
      BY <1>3 DEF BankInv, EventsOnRuns
    <2>2. QED
      BY <1>1, <1>2, <2>1 DEF Latest
  <1>4. QED
    BY <1>1, <1>3 DEF NotTold

LEMMA BusyIsNotTold ==
  ASSUME BankInv, NEW c \in Connections, busy = c PROVE runs[c] # <<>> /\ NotTold(c)
  BY NoneAssumption DEF BankInv, BankTypeOK, OneAtATime

\* What the rest of the system does leaves these variables alone.
LEMMA SameBank ==
  ASSUME BankInv, UNCHANGED bankSide PROVE BankInv'
  BY DEF BankInv, BankTypeOK, bankSide, RunsInOrder, EventsOnRuns, EventsInOrder, OneAtATime, NotTold, NoStream,
         Latest

-----------------------------------------------------------------------------
(* The runs                                                                *)

LEMMA BankInit == Init => BankInv
  <1> SUFFICES ASSUME Init PROVE BankInv
    OBVIOUS
  <1>1. BankTypeOK
    BY NoticesAssumption DEF Init, BankTypeOK
  <1>2. QED
    BY <1>1 DEF Init, BankInv, RunsInOrder, EventsOnRuns, EventsInOrder, OneAtATime, NoStream

LEMMA StartRunInv ==
  ASSUME BankInv, NEW c \in Connections, StartRun(c) PROVE BankInv'
  <1> DEFINE row == [at |-> now, status |-> "running"]
             n   == Len(runs[c])
  <1>1. /\ runs' = [runs EXCEPT ![c] = Append(runs[c], row)] /\ busy = None
        /\ started' = started + 1 /\ busy' = c /\ UNCHANGED <<now, closing, events>>
    BY DEF StartRun
  <1>2. runs[c] \in Seq(Run) /\ now \in Nat /\ row \in Run
    BY NoticesAssumption DEF BankInv, BankTypeOK, Run, Statuses
  <1> HIDE DEF row
  <1>3. /\ n \in Nat /\ DOMAIN runs[c] = 1..n
        /\ Append(runs[c], row) \in Seq(Run) /\ Len(Append(runs[c], row)) = n + 1
        /\ DOMAIN Append(runs[c], row) = 1..(n + 1)
        /\ \A k \in 1..n : Append(runs[c], row)[k] = runs[c][k]
        /\ Append(runs[c], row)[n + 1] = row
    BY <1>2
  <1>4. /\ runs' \in [Connections -> Seq(Run)]
        /\ runs'[c] = Append(runs[c], row) /\ \A e \in Connections : e # c => runs'[e] = runs[e]
    BY <1>1, <1>3 DEF BankInv, BankTypeOK
  <1>5. row.at = now /\ row.status = "running"
    BY DEF row
  <1>6. \A k \in 1..n : runs[c][k].at <= now /\ runs[c][k].at \in Nat
    <2> TAKE k \in 1..n
    <2>1. runs[c][k] \in Run /\ runs[c][k].at <= now
      BY <1>2, <1>3 DEF BankInv, BankTypeOK
    <2>2. QED
      BY <2>1 DEF Run
  <1>7. ASSUME NEW e \in Connections, NEW k \in DOMAIN runs'[e]
        PROVE  runs'[e][k].at <= now'
    <2>1. CASE e # c
      BY <1>1, <1>4, <1>7, <2>1 DEF BankInv, BankTypeOK
    <2>2. CASE e = c
      BY <1>1, <1>2, <1>3, <1>4, <1>5, <1>6, <1>7, <2>2
    <2>3. QED
      BY <2>1, <2>2
  <1>8. BankTypeOK'
    <2>1. runs'[c] # <<>> /\ Latest(c)'.status \in {"running", "error"}
      BY <1>3, <1>4, <1>5 DEF Latest
    <2>2. started' \in Nat /\ closing' = None
      BY <1>1 DEF BankInv, BankTypeOK
    <2>3. QED
      BY <1>1, <1>4, <1>7, <2>1, <2>2 DEF BankInv, BankTypeOK
  <1>9. RunsInOrder'
    <2> SUFFICES ASSUME NEW e \in Connections, NEW k \in DOMAIN runs'[e], NEW l \in DOMAIN runs'[e], k <= l
                 PROVE  runs'[e][k].at <= runs'[e][l].at
      BY DEF RunsInOrder
    <2>1. CASE e # c
      BY <1>4, <2>1 DEF BankInv, RunsInOrder
    <2>2. CASE e = c
      <3>1. CASE l = n + 1
        <4>1. runs'[e][l].at = now
          BY <1>3, <1>4, <1>5, <2>2, <3>1
        <4>2. k = n + 1 \/ k \in 1..n
          BY <1>2, <1>3, <1>4, <2>2
        <4>3. CASE k = n + 1
          BY <1>2, <3>1, <4>1, <4>3 DEF BankInv, BankTypeOK
        <4>4. CASE k \in 1..n
          BY <1>3, <1>4, <1>6, <2>2, <4>1, <4>4
        <4>5. QED
          BY <4>2, <4>3, <4>4
      <3>2. CASE l \in 1..n
        <4>1. k \in 1..n
          BY <1>3, <1>4, <2>2, <3>2
        <4>2. runs[c][k].at <= runs[c][l].at
          BY <1>3, <3>2, <4>1 DEF BankInv, RunsInOrder
        <4>3. QED
          BY <1>3, <1>4, <2>2, <3>2, <4>1, <4>2
      <3>3. QED
        BY <1>3, <1>4, <2>2, <3>1, <3>2
    <2>3. QED
      BY <2>1, <2>2
  <1>10. OneAtATime'
    <2>1. \A i \in DOMAIN events : events[i].conn = c => events[i].run < n + 1
      BY <1>3 DEF BankInv, EventsOnRuns
    <2>2. NotTold(c)'
      BY <1>1, <1>3, <1>4, <2>1 DEF NotTold
    <2>3. \A i \in DOMAIN events : events[i].ts < started + 1
      <3> TAKE i \in DOMAIN events
      <3>1. events[i] \in Event /\ started \in Nat /\ events[i].ts <= started
        BY DEF BankInv, BankTypeOK, OneAtATime
      <3>2. QED
        BY <3>1 DEF Event
    <2>4. \A i \in DOMAIN events : events[i].ts <= started + 1
      <3> TAKE i \in DOMAIN events
      <3>1. events[i] \in Event /\ started \in Nat /\ events[i].ts <= started
        BY DEF BankInv, BankTypeOK, OneAtATime
      <3>2. QED
        BY <3>1 DEF Event
    <2>5. QED
      BY <1>1, <2>2, <2>3, <2>4 DEF BankInv, OneAtATime
  <1>11. \A i \in DOMAIN events :
           /\ events[i].run \in DOMAIN runs'[events[i].conn]
           /\ runs'[events[i].conn][events[i].run] = runs[events[i].conn][events[i].run]
    <2> TAKE i \in DOMAIN events
    <2>1. events[i].run \in DOMAIN runs[events[i].conn] /\ events[i] \in Event
      BY DEF BankInv, BankTypeOK, EventsOnRuns
    <2>2. CASE events[i].conn = c
      BY <1>3, <1>4, <2>1, <2>2
    <2>3. CASE events[i].conn # c
      BY <1>4, <2>1, <2>3 DEF Event
    <2>4. QED
      BY <2>2, <2>3
  <1>12. EventsOnRuns' /\ EventsInOrder'
    BY <1>1, <1>11 DEF BankInv, EventsOnRuns, EventsInOrder
  <1>15. UNCHANGED events
    BY <1>1
  <1>13. NoStream'
    <2> SUFFICES ASSUME NEW i \in DOMAIN events, NEW j \in DOMAIN events, i < j,
                        events[i].conn = events[j].conn, events[j].at - events[i].at < RepeatAfter
                 PROVE  \E k \in events[i].run..events[j].run : runs'[events[i].conn][k].status # "error"
      BY <1>15 DEF NoStream
    <2>1. PICK k \in events[i].run..events[j].run : runs[events[i].conn][k].status # "error"
      BY DEF BankInv, NoStream
    <2>2. /\ events[i] \in Event /\ events[j] \in Event
          /\ events[j].run \in DOMAIN runs[events[j].conn]
      BY DEF BankInv, BankTypeOK, EventsOnRuns
    <2>3. CASE events[i].conn = c
      <3>1. k \in 1..n
        BY <1>3, <2>1, <2>2, <2>3 DEF Event
      <3>2. QED
        BY <1>3, <1>4, <2>1, <2>3, <3>1
    <2>4. CASE events[i].conn # c
      BY <1>4, <2>1, <2>2, <2>4 DEF Event
    <2>5. QED
      BY <2>3, <2>4
  <1>14. QED
    BY <1>8, <1>9, <1>10, <1>12, <1>13 DEF BankInv

LEMMA BeginCloseInv ==
  ASSUME BankInv, NEW c \in Connections, NEW answer \in Answers, BeginClose(c, answer) PROVE BankInv'
  <1>1. busy = c /\ closing' = answer /\ UNCHANGED <<now, runs, busy, started, events>>
    BY DEF BeginClose
  <1>2. BankTypeOK'
    BY <1>1, NoneAssumption DEF BankInv, BankTypeOK, Latest
  <1>3. QED
    BY <1>1, <1>2 DEF BankInv, RunsInOrder, EventsOnRuns, EventsInOrder, OneAtATime, NotTold, NoStream

\* A run that is closed without a notice is one that no event is about.
LEMMA QuietCloseInv ==
  ASSUME BankInv, NEW c \in Connections, runs[c] # <<>>, NotTold(c), NEW status \in Statuses,
         runs' = CloseAs(c, status), UNCHANGED <<now, started, events>>,
         \/ busy' = None /\ closing' = None
         \/ UNCHANGED <<busy, closing>> /\ status = "error"
  PROVE  BankInv'
  <1>1. /\ runs' \in [Connections -> Seq(Run)]
        /\ \A e \in Connections : \A k \in DOMAIN runs'[e] : runs'[e][k].at <= now'
        /\ RunsInOrder'
        /\ \A i \in DOMAIN events :
             /\ events[i].run \in DOMAIN runs'[events[i].conn]
             /\ runs'[events[i].conn][events[i].run] = runs[events[i].conn][events[i].run]
    BY ClosingInv
  <1>2. /\ \A e \in Connections : e # c => runs'[e] = runs[e]
        /\ Len(runs'[c]) = Len(runs[c]) /\ Len(runs[c]) \in DOMAIN runs[c]
        /\ runs'[c][Len(runs[c])].status = status
    BY ClosedRun DEF BankInv
  <1>3. busy' # None => runs'[busy'] # <<>> /\ Latest(busy)'.status \in {"running", "error"}
    <2>1. SUFFICES ASSUME busy' # None, busy' = busy, status = "error"
                   PROVE  runs'[busy] # <<>> /\ runs'[busy][Len(runs'[busy])].status \in {"running", "error"}
      BY DEF Latest
    <2>2. busy \in Connections /\ runs[busy] # <<>> /\ Latest(busy).status \in {"running", "error"}
      BY <2>1 DEF BankInv, BankTypeOK
    <2>3. CASE busy = c
      <3>1. runs[c] \in Seq(Run) /\ runs'[c] \in Seq(Run) /\ Len(runs[c]) # 0
        BY <1>1, <1>2 DEF BankInv, BankTypeOK
      <3>2. QED
        BY <1>2, <2>1, <2>3, <3>1
    <2>4. CASE busy # c
      BY <1>2, <2>2, <2>4 DEF Latest
    <2>5. QED
      BY <2>3, <2>4
  <1>4. BankTypeOK'
    BY <1>1, <1>3 DEF BankInv, BankTypeOK
  <1>5. EventsOnRuns' /\ EventsInOrder'
    BY <1>1 DEF BankInv, EventsOnRuns, EventsInOrder
  <1>6. OneAtATime'
    <2>1. \A e \in Connections : Len(runs'[e]) = Len(runs[e])
      BY <1>2
    <2>2. busy' # None => NotTold(busy)'
      BY <2>1 DEF BankInv, BankTypeOK, OneAtATime, NotTold
    <2>3. QED
      BY <2>2 DEF BankInv, OneAtATime
  <1>7. NoStream'
    BY NoStreamKept
  <1>8. QED
    BY <1>1, <1>4, <1>5, <1>6, <1>7 DEF BankInv

LEMMA RefuseInv ==
  ASSUME BankInv, NEW c \in Connections, Refuse(c) PROVE BankInv'
  <1>1. /\ busy = c /\ runs' = CloseAs(c, "cancelled") /\ busy' = None /\ closing' = None
        /\ UNCHANGED <<now, started, events>>
    BY DEF Refuse
  <1>2. runs[c] # <<>> /\ NotTold(c)
    BY <1>1, BusyIsNotTold
  <1>3. QED
    BY <1>1, <1>2, QuietCloseInv DEF Statuses

LEMMA ReapInv ==
  ASSUME BankInv, NEW c \in Connections, Reap(c) PROVE BankInv'
  <1>1. /\ Running(c) /\ runs' = CloseAs(c, "error") /\ UNCHANGED <<now, busy, closing, started, events>>
    BY DEF Reap
  <1>2. runs[c] # <<>> /\ NotTold(c)
    BY <1>1, OpenIsNotTold
  <1>3. QED
    BY <1>1, <1>2, QuietCloseInv DEF Statuses

\* A notice is recorded when the run before did not fail, or the last one told
\* is old: either way it and the events before it are no stream.
LEMMA CloseInv ==
  ASSUME BankInv, NEW c \in Connections, Close(c) PROVE BankInv'
  <1> DEFINE n      == Len(runs[c])
             status == StatusOf(closing)
             row    == [ts |-> started, conn |-> c, run |-> n, at |-> Latest(c).at]
  <1>1. /\ busy = c /\ closing \in Answers /\ busy # None
    BY NoneAssumption DEF Close, BankInv, BankTypeOK
  <1>2. /\ runs' = CloseAs(c, status) /\ closing' = None /\ busy' = None /\ UNCHANGED <<now, started>>
    BY DEF Close
  <1>3. status \in Statuses /\ (Breaks(closing) => status = "error")
    BY <1>1 DEF StatusOf, Statuses, Answers, Breaks
  <1>4. runs[c] # <<>> /\ NotTold(c)
    BY <1>1, BusyIsNotTold
  <1>5. \/ events' = events
        \/ /\ events' = Append(events, row) /\ status = "error"
           /\ ShouldNotify(PreviousRun(c), Latest(c).at)
    BY <1>3 DEF Close
  <1> HIDE DEF status
  <1>6. /\ runs' \in [Connections -> Seq(Run)]
        /\ \A e \in Connections : \A k \in DOMAIN runs'[e] : runs'[e][k].at <= now'
        /\ RunsInOrder'
        /\ \A i \in DOMAIN events :
             /\ events[i].conn = c => events[i].run < n
             /\ events[i].run \in DOMAIN runs'[events[i].conn]
             /\ runs'[events[i].conn][events[i].run] = runs[events[i].conn][events[i].run]
    BY <1>2, <1>3, <1>4, ClosingInv DEF NotTold
  <1>7. /\ Len(runs'[c]) = n /\ n \in DOMAIN runs[c] /\ DOMAIN runs[c] = 1..n
        /\ \A k \in DOMAIN runs[c] : /\ runs'[c][k].at = runs[c][k].at
                                     /\ k # n => runs'[c][k] = runs[c][k]
        /\ runs'[c][n].status = status
    <2>1. runs[c] \in Seq(Run)
      BY DEF BankInv, BankTypeOK
    <2>2. QED
      BY <1>2, <1>3, <1>4, <2>1, ClosedRun DEF BankInv
  <1>8. CASE events' = events
    BY <1>2, <1>3, <1>4, <1>8, QuietCloseInv
  <1>9. CASE /\ events' = Append(events, row) /\ status = "error"
             /\ ShouldNotify(PreviousRun(c), Latest(c).at)
    <2>1. /\ runs[c] \in Seq(Run) /\ n \in Nat \ {0} /\ Latest(c) = runs[c][n] /\ Latest(c) \in Run
      BY <1>7 DEF BankInv, BankTypeOK, Latest
    <2>2. row \in Event
      BY <1>1, <2>1 DEF Event, Run, BankInv, BankTypeOK
    <2>3. row.conn = c /\ row.run = n /\ row.at = runs[c][n].at /\ row.ts = started
      BY <2>1
    <2> HIDE DEF row
    <2>4. /\ events' \in Seq(Event) /\ Len(events') = Len(events) + 1 /\ Len(events) \in Nat
          /\ DOMAIN events' = 1..(Len(events) + 1) /\ DOMAIN events = 1..Len(events)
          /\ \A i \in DOMAIN events : events'[i] = events[i]
          /\ events'[Len(events) + 1] = row
      BY <1>9, <2>2 DEF BankInv, BankTypeOK
    <2>5. BankTypeOK'
      BY <1>2, <1>6, <2>4 DEF BankInv, BankTypeOK
    <2>6. EventsOnRuns'
      <3> SUFFICES ASSUME NEW i \in DOMAIN events'
                   PROVE  /\ events'[i].run \in DOMAIN runs'[events'[i].conn]
                          /\ runs'[events'[i].conn][events'[i].run].at = events'[i].at
                          /\ runs'[events'[i].conn][events'[i].run].status = "error"
        BY DEF EventsOnRuns
      <3>1. CASE i \in DOMAIN events
        BY <1>6, <2>4, <3>1 DEF BankInv, EventsOnRuns
      <3>2. CASE i = Len(events) + 1
        <4>1. DOMAIN runs'[c] = 1..n
          BY <1>6, <1>7
        <4>2. QED
          BY <1>7, <1>9, <2>3, <2>4, <3>2, <4>1
      <3>3. QED
        BY <2>4, <3>1, <3>2
    <2>7. EventsInOrder'
      <3> SUFFICES ASSUME NEW i \in DOMAIN events', NEW j \in DOMAIN events', i < j,
                          events'[i].conn = events'[j].conn
                   PROVE  events'[i].run < events'[j].run
        BY DEF EventsInOrder
      <3>1. i \in DOMAIN events /\ events'[i] = events[i]
        BY <2>4
      <3>2. CASE j \in DOMAIN events
        BY <2>4, <3>1, <3>2 DEF BankInv, EventsInOrder
      <3>3. CASE j = Len(events) + 1
        BY <1>6, <2>3, <2>4, <3>1, <3>3
      <3>4. QED
        BY <2>4, <3>2, <3>3
    <2>10. OneAtATime'
      <3>1. \A i \in DOMAIN events : events[i].ts < started
        BY <1>1 DEF BankInv, OneAtATime
      <3>2. started \in Nat
        BY DEF BankInv, BankTypeOK
      <3>3. \A i, j \in DOMAIN events' : i < j => events'[i].ts < events'[j].ts
        <4> TAKE i, j \in DOMAIN events'
        <4> HAVE i < j
        <4>1. CASE j \in DOMAIN events
          BY <2>4, <4>1 DEF BankInv, OneAtATime
        <4>2. CASE j = Len(events) + 1
          BY <2>3, <2>4, <3>1, <4>2
        <4>3. QED
          BY <2>4, <4>1, <4>2
      <3>4. \A i \in DOMAIN events' : events'[i].ts <= started'
        <4> TAKE i \in DOMAIN events'
        <4>1. CASE i \in DOMAIN events
          BY <1>2, <2>4, <4>1 DEF BankInv, OneAtATime
        <4>2. CASE i = Len(events) + 1
          BY <1>2, <2>3, <2>4, <3>2, <4>2
        <4>3. QED
          BY <2>4, <4>1, <4>2
      <3>5. QED
        BY <1>2, <3>3, <3>4 DEF OneAtATime
    <2>8. NoStream'
      <3> SUFFICES ASSUME NEW i \in DOMAIN events', NEW j \in DOMAIN events', i < j,
                          events'[i].conn = events'[j].conn, events'[j].at - events'[i].at < RepeatAfter
                   PROVE  \E k \in events'[i].run..events'[j].run : runs'[events'[i].conn][k].status # "error"
        BY DEF NoStream
      <3>1. i \in DOMAIN events /\ events[i] \in Event /\ events'[i] = events[i]
        BY <2>4 DEF BankInv, BankTypeOK
      <3>2. CASE j \in DOMAIN events
        <4>1. PICK k \in events[i].run..events[j].run : runs[events[i].conn][k].status # "error"
          BY <2>4, <3>1, <3>2 DEF BankInv, NoStream
        <4>2. /\ events[j] \in Event /\ events[j].run \in DOMAIN runs[events[j].conn]
              /\ events'[j] = events[j] /\ events[j].conn = events[i].conn
          BY <2>4, <3>1, <3>2 DEF BankInv, BankTypeOK, EventsOnRuns
        <4>3. /\ runs[events[i].conn] \in Seq(Run) /\ events[i].conn \in Connections
          BY <3>1 DEF BankInv, BankTypeOK, Event
        <4>4. k \in DOMAIN runs[events[i].conn]
          BY <3>1, <4>1, <4>2, <4>3 DEF Event
        <4>5. runs'[events[i].conn][k] = runs[events[i].conn][k]
          <5>1. events[i].conn = c => k # n
            <6>1. events[i].conn = c => events[j].run < n
              BY <1>6, <3>2, <4>2
            <6>2. QED
              BY <1>7, <2>1, <3>1, <4>1, <4>2, <6>1 DEF Event
          <5>2. events[i].conn # c => runs'[events[i].conn] = runs[events[i].conn]
            BY <1>2, <1>3, <1>4, <4>3, ClosedRun DEF BankInv
          <5>3. QED
            BY <1>7, <4>4, <5>1, <5>2
        <4>6. QED
          BY <3>1, <4>1, <4>2, <4>5
      <3>3. CASE j = Len(events) + 1
        <4>1. events'[j] = row /\ events[i].conn = c
          BY <2>3, <2>4, <3>1, <3>3
        <4>2. /\ events[i].run \in 1..(n - 1) /\ runs[c][events[i].run].at = events[i].at
          BY <1>6, <1>7, <2>1, <3>1, <4>1 DEF BankInv, EventsOnRuns, Event
        <4>3. /\ n - 1 \in DOMAIN runs[c] /\ n # 1 /\ runs[c][n - 1] \in Run /\ runs[c][n] \in Run
              /\ runs[c][n - 1] # None /\ PreviousRun(c) = runs[c][n - 1]
          BY <1>7, <2>1, <4>2, NoneAssumption DEF PreviousRun
        <4>4. events[i].at <= runs[c][n - 1].at
          BY <1>7, <4>2, <4>3 DEF BankInv, RunsInOrder
        <4>5. /\ runs[c][n].at \in Nat /\ runs[c][n - 1].at \in Nat /\ events[i].at \in Nat
              /\ RepeatAfter \in Nat
          BY <3>1, <4>3, NoticesAssumption DEF Run, Event
        <4>6. runs[c][n - 1].status # "error"
          <5>1. ShouldNotify(runs[c][n - 1], runs[c][n].at)
            BY <1>9, <2>1, <2>3, <4>1, <4>3
          <5>2. runs[c][n].at - events[i].at < RepeatAfter
            BY <2>4, <2>3, <3>1, <4>1
          <5>3. runs[c][n].at - runs[c][n - 1].at < RepeatAfter
            BY <4>4, <4>5, <5>2
          <5>4. QED
            BY <4>3, <4>5, <5>1, <5>3 DEF ShouldNotify
        <4>9. runs'[c][n - 1] = runs[c][n - 1]
          BY <1>7, <2>1, <4>3
        <4>10. n - 1 \in events'[i].run..events'[j].run
          BY <2>1, <2>3, <3>1, <4>1, <4>2
        <4>11. QED
          BY <3>1, <4>1, <4>6, <4>9, <4>10
      <3>4. QED
        BY <2>4, <3>2, <3>3
    <2>9. QED
      BY <1>6, <2>5, <2>6, <2>7, <2>8, <2>10 DEF BankInv
  <1>10. QED
    BY <1>5, <1>8, <1>9

LEMMA TickInv ==
  ASSUME BankInv, Tick PROVE BankInv'
  <1>1. now' = now + 1 /\ now < MaxTime /\ UNCHANGED <<runs, busy, closing, started, events>>
    BY DEF Tick
  <1>2. \A c \in Connections : \A k \in DOMAIN runs[c] : runs[c][k].at <= now'
    <2> TAKE c \in Connections
    <2> TAKE k \in DOMAIN runs[c]
    <2>1. runs[c] \in Seq(Run) /\ runs[c][k].at <= now /\ now \in Nat
      BY NoticesAssumption DEF BankInv, BankTypeOK
    <2>2. runs[c][k] \in Run
      BY <2>1
    <2>3. QED
      BY <1>1, <2>1, <2>2 DEF Run
  <1>3. BankTypeOK'
    BY <1>1, <1>2, NoticesAssumption DEF BankInv, BankTypeOK, Latest
  <1>4. QED
    BY <1>1, <1>3 DEF BankInv, RunsInOrder, EventsOnRuns, EventsInOrder, OneAtATime, NotTold, NoStream

\* A dead worker has no run any more, and its own stays as it was.
LEMMA DieInv ==
  ASSUME BankInv, Die PROVE BankInv'
  <1>1. busy' = None /\ closing' = None /\ UNCHANGED <<now, runs, started, events>>
    BY DEF Die
  <1>2. BankTypeOK'
    BY <1>1 DEF BankInv, BankTypeOK
  <1>3. QED
    BY <1>1, <1>2 DEF BankInv, RunsInOrder, EventsOnRuns, EventsInOrder, OneAtATime, NoStream

\* Nothing a browser does changes a run, a connection or the record.
LEMMA BankStep ==
  ASSUME BankInv, [Next]_vars PROVE BankInv'
  <1>1. CASE Tick
    BY <1>1, TickInv
  <1>2. ASSUME NEW c \in Connections, StartRun(c) PROVE BankInv'
    BY <1>2, StartRunInv
  <1>3. ASSUME NEW c \in Connections, NEW answer \in Answers, BeginClose(c, answer) PROVE BankInv'
    BY <1>3, BeginCloseInv
  <1>4. ASSUME NEW c \in Connections, Close(c) PROVE BankInv'
    BY <1>4, CloseInv
  <1>5. ASSUME NEW c \in Connections, Refuse(c) \/ Reap(c) PROVE BankInv'
    BY <1>5, RefuseInv, ReapInv
  <1>10. CASE Die
    BY <1>10, DieInv
  <1>6. CASE Browsing
    <2>1. UNCHANGED bankSide
      BY <1>6 DEF Browsing, Enable, Poll, BeginDelivery, Show, Reject, Remember
    <2>2. QED
      BY <2>1, SameBank
  <1>7. CASE \E storage \in {"kept", "lost", "foreign"} : Reopen(storage)
    <2>1. UNCHANGED bankSide
      BY <1>7 DEF Reopen
    <2>2. QED
      BY <2>1, SameBank
  <1>8. CASE UNCHANGED vars
    BY <1>8, SameBank DEF vars, bankSide
  <1>9. QED
    BY <1>1, <1>2, <1>3, <1>4, <1>5, <1>6, <1>7, <1>8, <1>10 DEF Next, Banking

\* The runs and the record of notices stay consistent, for any connections and
\* tabs, whatever the worker, the reaper and the bank do.
THEOREM BankInductive == Spec => []BankInv
  BY BankInit, BankStep, PTL DEF Spec

\* Two notices about one connection that came less than REPEAT_AFTER apart have
\* a run between them that did not fail (should_notify).
THEOREM NoStreamForAll == Spec => []NoStream
  <1>1. BankInv => NoStream
    BY DEF BankInv
  <1>2. QED
    BY <1>1, BankInductive, PTL

-----------------------------------------------------------------------------
(* One tab                                                                 *)

\* What is before the cursor is remembered for good.
base == IF cursor \in DOMAIN events THEN cursor ELSE 0

\* s goes through the events that come right after f
OnFrom(s, f) == s \in Seq(DOMAIN events) /\ \A k \in DOMAIN s : s[k] = f + k

\* the notices that were shown twice, or would be if the tab were opened again
Again(d, f) ==
  {i \in DOMAIN events : shown[i] > 1 \/ (i > base /\ shown[i] = 1 /\ ~(i = f + 1 /\ up[d]))}

\* Everything up to f has been shown, and what of it is not before the cursor is
\* remembered in this tab; the next one may be on the screen.
Screen(d, f) ==
  /\ base <= f /\ f <= Len(events)
  /\ inTab \subseteq 1..f /\ (base + 1)..f \subseteq inTab
  /\ heard[d] # None => showing[d] = None /\ OnFrom(heard[d], base)
  /\ showing[d] # None => OnFrom(showing[d], f)
  /\ up[d] => showing[d] # None
  /\ \A i \in DOMAIN events :
       /\ i <= f => shown[i] \in 1..(1 + reopened)
       /\ i > f => shown[i] <= reopened + (IF i = f + 1 /\ up[d] THEN 1 ELSE 0)
       /\ i = f + 1 /\ up[d] => shown[i] >= 1
  /\ Cardinality(Again(d, f)) <= reopened + unsaved

Tab(d, f) == BankInv /\ BrowserTypeOK /\ Screen(d, f)
TabInv(d) == \E f \in Nat : Tab(d, f)

LEMMA SameScreen ==
  ASSUME NEW d \in Deliveries, NEW f \in Nat, BrowserTypeOK, Screen(d, f), UNCHANGED <<events, browser>>
  PROVE  BrowserTypeOK' /\ Screen(d, f)'
  BY DEF browser, BrowserTypeOK, Screen, OnFrom, Again, base

LEMMA BaseRange ==
  ASSUME BankInv, BrowserTypeOK
  PROVE  /\ base \in 0..Len(events) /\ Len(events) \in Nat /\ DOMAIN events = 1..Len(events)
         /\ IsFiniteSet(DOMAIN events)
  <1>1. events \in Seq(Event)
    BY DEF BankInv, BankTypeOK
  <1>2. Len(events) \in Nat /\ DOMAIN events = 1..Len(events)
    BY <1>1
  <1>3. base \in 0..Len(events)
    BY <1>2 DEF base, BrowserTypeOK
  <1>4. IsFiniteSet(1..Len(events))
    BY <1>2, FS_Interval
  <1>5. QED
    BY <1>2, <1>3, <1>4

LEMMA TabInit ==
  ASSUME NEW d \in Deliveries, Init PROVE Tab(d, 0)
  <1>1. events = <<>> /\ DOMAIN events = {} /\ base = 0 /\ Len(events) = 0
    BY DEF Init, base
  <1>2. BrowserTypeOK
    <2>1. /\ heard = [e \in Deliveries |-> None] /\ showing = [e \in Deliveries |-> None] /\ data = None
          /\ up = [e \in Deliveries |-> FALSE] /\ cursor = Nothing /\ inTab = {} /\ canShow \in BOOLEAN
          /\ missed = FALSE /\ reopened = 0 /\ unsaved = 0 /\ shown = <<>>
      BY DEF Init
    <2>2. shown \in [DOMAIN events -> Nat]
      BY <1>1, <2>1
    <2>3. QED
      BY <2>1, <2>2 DEF BrowserTypeOK
  <1>3. Again(d, 0) = {}
    BY <1>1 DEF Again
  <1>4. Screen(d, 0)
    <2>1. /\ heard[d] = None /\ showing[d] = None /\ up[d] = FALSE /\ inTab = {} /\ reopened + unsaved = 0
      BY DEF Init
    <2>2. Cardinality(Again(d, 0)) = 0
      BY <1>3, FS_EmptySet
    <2>3. (base + 1)..0 = {}
      BY <1>1
    <2>4. QED
      BY <1>1, <2>1, <2>2, <2>3 DEF Screen
  <1>5. QED
    BY <1>2, <1>4, BankInit DEF Tab

\* Among events in the order of their times, the k-th oldest after the a-th is
\* the one at a + k.
LEMMA OldestFirst ==
  ASSUME BankInv, NEW a \in Nat, NEW b \in Nat, a <= b, b <= Len(events)
  PROVE  LET S == (a + 1)..b
         IN  /\ InOrder(S) \in Seq(DOMAIN events) /\ Len(InOrder(S)) = b - a
             /\ \A k \in 1..(b - a) : InOrder(S)[k] = a + k
  <1> DEFINE S == (a + 1)..b
             pick(k) == CHOOSE i \in S : Cardinality({j \in S : events[j].ts < events[i].ts}) = k - 1
  <1>1. events \in Seq(Event) /\ Len(events) \in Nat /\ DOMAIN events = 1..Len(events)
    BY DEF BankInv, BankTypeOK
  <1>2. Cardinality(S) = b - a
    <2>1. Cardinality(S) = IF a + 1 > b THEN 0 ELSE b - (a + 1) + 1
      BY FS_Interval, a + 1 \in Int, b \in Int
    <2>2. QED
      BY <2>1
  <1>3. ASSUME NEW i \in S PROVE Cardinality({j \in S : events[j].ts < events[i].ts}) = i - 1 - a
    <2>1. ASSUME NEW j \in S PROVE events[j].ts < events[i].ts <=> j < i
      <3>1. i \in DOMAIN events /\ j \in DOMAIN events /\ i \in Nat /\ j \in Nat
        BY <1>1
      <3>2. events[i].ts \in Nat /\ events[j].ts \in Nat
        <4>1. events[i] \in Event /\ events[j] \in Event
          BY <1>1, <3>1
        <4>2. QED
          BY <4>1 DEF Event
      <3>3. CASE j < i
        BY <3>1, <3>3 DEF BankInv, OneAtATime
      <3>4. CASE j = i
        BY <3>2, <3>4
      <3>5. CASE i < j
        <4>1. events[i].ts < events[j].ts
          BY <3>1, <3>5 DEF BankInv, OneAtATime
        <4>2. QED
          BY <3>1, <3>2, <3>5, <4>1
      <3>6. QED
        BY <3>1, <3>3, <3>4, <3>5
    <2>2. {j \in S : events[j].ts < events[i].ts} = (a + 1)..(i - 1)
      BY <2>1
    <2>3. Cardinality((a + 1)..(i - 1)) = IF a + 1 > i - 1 THEN 0 ELSE i - 1 - (a + 1) + 1
      BY FS_Interval, a + 1 \in Int, i - 1 \in Int
    <2>4. (IF a + 1 > i - 1 THEN 0 ELSE i - 1 - (a + 1) + 1) = i - 1 - a
      OBVIOUS
    <2> DEFINE older == {j \in S : events[j].ts < events[i].ts}
    <2>5. older = (a + 1)..(i - 1)
      BY <2>2
    <2> HIDE DEF older
    <2>6. Cardinality(older) = i - 1 - a
      BY <2>3, <2>4, <2>5
    <2>7. QED
      BY <2>6 DEF older
  <1>4. ASSUME NEW k \in 1..(b - a) PROVE pick(k) = a + k
    <2>1. a + k \in S /\ Cardinality({j \in S : events[j].ts < events[a + k].ts}) = k - 1
      <3>1. a + k \in S
        OBVIOUS
      <3>2. QED
        <4>1. Cardinality({j \in S : events[j].ts < events[a + k].ts}) = (a + k) - 1 - a
          BY <1>3, <3>1
        <4>2. QED
          BY <3>1, <4>1
    <2>2. pick(k) \in S /\ Cardinality({j \in S : events[j].ts < events[pick(k)].ts}) = k - 1
      BY <2>1
    <2>3. pick(k) - 1 - a = k - 1 /\ pick(k) \in S
      BY <1>3, <2>2
    <2> HIDE DEF pick
    <2>4. QED
      BY <2>3
  <1>5. InOrder(S) = [k \in 1..(b - a) |-> pick(k)]
    BY <1>2 DEF InOrder
  <1> HIDE DEF pick
  <1>6. InOrder(S) = [k \in 1..(b - a) |-> a + k]
    BY <1>4, <1>5
  <1> HIDE DEF S
  <1>7. InOrder(S) \in [1..(b - a) -> DOMAIN events]
    BY <1>1, <1>6
  <1>8. b - a \in Nat
    OBVIOUS
  <1>9. InOrder(S) \in Seq(DOMAIN events) /\ Len(InOrder(S)) = b - a
    BY <1>7, <1>8
  <1>10. \A k \in 1..(b - a) : InOrder(S)[k] = a + k
    BY <1>6
  <1>11. QED
    BY <1>9, <1>10 DEF S

\* What a poll hears is what comes after the cursor.
LEMMA HeardFromBase ==
  ASSUME BankInv, BrowserTypeOK PROVE OnFrom(ListNotices(cursor), base)
  <1> DEFINE n     == Len(events)
             after == {i \in DOMAIN events : cursor \in DOMAIN events => events[i].ts > events[cursor].ts}
             all   == InOrder(after)
             m     == IF Len(all) < NoticeLimit THEN Len(all) ELSE NoticeLimit
  <1>1. base \in 0..n /\ n \in Nat /\ DOMAIN events = 1..n
    BY BaseRange
  <1>2. after = (base + 1)..n
    <2>1. CASE cursor \in DOMAIN events
      <3>1. ASSUME NEW i \in DOMAIN events PROVE events[i].ts > events[cursor].ts <=> i > cursor
        <4>1. /\ events[i].ts \in Nat /\ events[cursor].ts \in Nat /\ i \in Nat /\ cursor \in Nat
          <5>1. events[i] \in Event /\ events[cursor] \in Event
            BY <2>1 DEF BankInv, BankTypeOK
          <5>2. QED
            BY <1>1, <2>1, <5>1 DEF Event
        <4>2. CASE i > cursor
          BY <2>1, <4>1, <4>2 DEF BankInv, OneAtATime
        <4>3. CASE i = cursor
          BY <4>1, <4>3
        <4>4. CASE i < cursor
          <5>1. events[i].ts < events[cursor].ts
            BY <2>1, <4>4 DEF BankInv, OneAtATime
          <5>2. QED
            BY <4>1, <4>4, <5>1
        <4>5. QED
          BY <4>1, <4>2, <4>3, <4>4
      <3>2. base = cursor
        BY <2>1 DEF base
      <3>3. QED
        BY <1>1, <2>1, <3>1, <3>2
    <2>2. CASE cursor \notin DOMAIN events
      BY <1>1, <2>2 DEF base
    <2>3. QED
      BY <2>1, <2>2
  <1>3. /\ all \in Seq(DOMAIN events) /\ Len(all) = n - base
        /\ \A k \in 1..(n - base) : all[k] = base + k
    <2>1. /\ InOrder((base + 1)..n) \in Seq(DOMAIN events) /\ Len(InOrder((base + 1)..n)) = n - base
          /\ \A k \in 1..(n - base) : InOrder((base + 1)..n)[k] = base + k
      <3> HIDE DEF after
      <3>1. base \in Nat /\ n \in Nat /\ base <= n /\ n <= Len(events)
        BY <1>1
      <3>2. QED
        BY <3>1, OldestFirst
    <2>2. QED
      BY <1>2, <2>1
  <1>4. ListNotices(cursor) = SubSeq(all, 1, m)
    BY DEF ListNotices
  <1> HIDE DEF all
  <1>5. m \in 0..(n - base)
    BY <1>1, <1>3, NoticesAssumption
  <1>6. /\ SubSeq(all, 1, m) \in Seq(DOMAIN events) /\ Len(SubSeq(all, 1, m)) = m
        /\ \A k \in 1..m : SubSeq(all, 1, m)[k] = all[k]
    <2> HIDE DEF m
    <2>1. \A k \in 1..m : all[k] \in DOMAIN events
      BY <1>1, <1>3, <1>5
    <2>2. /\ SubSeq(all, 1, m) \in Seq(DOMAIN events)
          /\ Len(SubSeq(all, 1, m)) = (IF 1 <= m THEN m - 1 + 1 ELSE 0)
          /\ \A k \in 1..(m - 1 + 1) : SubSeq(all, 1, m)[k] = all[1 + k - 1]
      BY <1>5, <2>1, SubSeqProperties
    <2>3. QED
      BY <1>5, <2>2
  <1> HIDE DEF m
  <1>7. DOMAIN SubSeq(all, 1, m) = 1..m
    BY <1>6
  <1>8. \A k \in 1..m : SubSeq(all, 1, m)[k] = base + k
    BY <1>1, <1>3, <1>5, <1>6
  <1>9. QED
    BY <1>4, <1>6, <1>7, <1>8 DEF OnFrom

-----------------------------------------------------------------------------
(* The bank's side, as the browser sees it                                 *)

\* A new event is the newest one, and nobody has seen it.
LEMMA CloseTab ==
  ASSUME NEW d \in Deliveries, NEW f \in Nat, Tab(d, f), NEW c \in Connections, Close(c)
  PROVE  Tab(d, f)'
  <1> DEFINE n   == Len(events)
             row == [ts |-> started, conn |-> c, run |-> Len(runs[c]), at |-> Latest(c).at]
  <1>1. BankInv'
    BY CloseInv DEF Tab
  <1>2. /\ events' = events \/ events' = Append(events, row)
        /\ shown' = IF events' = events THEN shown ELSE Append(shown, 0)
        /\ UNCHANGED <<cursor, inTab, canShow, heard, data, showing, up, missed, reopened, unsaved>>
    BY DEF Close
  <1>3. row \in Event
    <2>1. /\ busy = c /\ runs[c] # <<>> /\ runs[c] \in Seq(Run) /\ started \in Nat
      BY BusyIsNotTold DEF Close, Tab, BankInv, BankTypeOK
    <2>2. Len(runs[c]) \in Nat \ {0} /\ Latest(c) \in Run
      BY <2>1 DEF Latest
    <2>3. QED
      BY <2>1, <2>2 DEF Event, Run
  <1> HIDE DEF row
  <1>7. /\ base \in 0..n /\ n \in Nat /\ DOMAIN events = 1..n
    BY BaseRange DEF Tab
  <1>8. CASE events' = events
    <2>1. UNCHANGED browser
      BY <1>2, <1>8 DEF browser
    <2>2. QED
      BY <1>1, <1>8, <2>1, SameScreen DEF Tab
  <1>9. CASE events' = Append(events, row) /\ events' # events
    <2>1. /\ events \in Seq(Event) /\ events' \in Seq(Event)
          /\ DOMAIN events' = 1..(n + 1) /\ Len(events') = n + 1
          /\ \A i \in 1..n : events'[i] = events[i]
          /\ events'[n + 1] = row
      <3>1. events \in Seq(Event)
        BY DEF Tab, BankInv, BankTypeOK
      <3>2. events' = Append(events, row) /\ row \in Event
        BY <1>3, <1>9
      <3>3. events' \in Seq(Event) /\ Len(events') = n + 1 /\ events'[n + 1] = row
        BY <3>1, <3>2
      <3>4. DOMAIN events' = 1..(n + 1)
        BY <3>3
      <3>5. ASSUME NEW i \in 1..n PROVE events'[i] = events[i]
        BY <3>1, <3>2
      <3>6. QED
        BY <3>1, <3>3, <3>4, <3>5
    <2>2. /\ shown' \in [1..(n + 1) -> Nat] /\ shown'[n + 1] = 0
          /\ \A i \in 1..n : shown'[i] = shown[i] /\ shown[i] \in Nat
      <3>1. shown \in [1..n -> Nat]
        BY <1>7 DEF Tab, BrowserTypeOK
      <3>2. shown \in Seq(Nat) /\ Len(shown) = n
        BY <1>7, <3>1
      <3>3. shown' = Append(shown, 0)
        BY <1>2, <1>9
      <3>4. shown' \in Seq(Nat) /\ Len(shown') = n + 1 /\ shown'[n + 1] = 0
        BY <3>2, <3>3
      <3>5. shown' \in [1..(n + 1) -> Nat]
        BY <3>4
      <3>6. ASSUME NEW i \in 1..n PROVE shown'[i] = shown[i] /\ shown[i] \in Nat
        BY <3>1, <3>2, <3>3
      <3>7. QED
        BY <3>4, <3>5, <3>6
    <2>4. base' = base
      BY <1>2, <1>7, <2>1 DEF base, Tab, BrowserTypeOK, Nothing, Stranger
    <2>5. \A s : s \in Seq(1..n) => s \in Seq(1..(n + 1))
      <3>1. ASSUME NEW s \in Seq(1..n) PROVE s \in Seq(1..(n + 1))
        <4>1. Len(s) \in Nat /\ s \in [1..Len(s) -> 1..n]
          OBVIOUS
        <4>2. s \in [1..Len(s) -> 1..(n + 1)]
          BY <1>7, <4>1
        <4>3. QED
          BY <4>1, <4>2
      <3>2. QED
        BY <3>1
    <2>6. BrowserTypeOK'
      <3>1. /\ cursor' \in DOMAIN events' \union {Nothing, Stranger} /\ inTab' \subseteq DOMAIN events'
            /\ canShow' \in BOOLEAN /\ missed' \in BOOLEAN /\ up' \in [Deliveries -> BOOLEAN] /\ reopened' \in Nat /\ unsaved' \in Nat
            /\ shown' \in [DOMAIN events' -> Nat]
        <4>1. DOMAIN events \subseteq DOMAIN events'
          BY <1>7, <2>1
        <4>2. /\ cursor' \in DOMAIN events' \union {Nothing, Stranger} /\ inTab' \subseteq DOMAIN events'
              /\ canShow' \in BOOLEAN /\ missed' \in BOOLEAN /\ up' \in [Deliveries -> BOOLEAN] /\ reopened' \in Nat /\ unsaved' \in Nat
          BY <1>2, <4>1 DEF Tab, BrowserTypeOK
        <4>3. QED
          BY <2>1, <2>2, <4>2
      <3>2. /\ heard' \in [Deliveries -> Seq(DOMAIN events') \union {None}]
            /\ data' \in Seq(DOMAIN events') \union {None}
            /\ showing' \in [Deliveries -> (Seq(DOMAIN events') \ {<<>>}) \union {None}]
        <4>1. /\ (Seq(1..n) \ {<<>>}) \union {None} \subseteq (Seq(1..(n + 1)) \ {<<>>}) \union {None}
              /\ Seq(1..n) \union {None} \subseteq Seq(1..(n + 1)) \union {None}
          BY <2>5
        <4>2. /\ heard \in [Deliveries -> Seq(1..n) \union {None}]
              /\ data \in Seq(1..n) \union {None}
              /\ showing \in [Deliveries -> (Seq(1..n) \ {<<>>}) \union {None}]
          BY <1>7 DEF Tab, BrowserTypeOK
        <4>3. QED
          BY <1>2, <2>1, <4>1, <4>2
      <3>3. QED
        BY <3>1, <3>2 DEF BrowserTypeOK
    <2>7. Again(d, f)' = Again(d, f)
      BY <1>2, <1>7, <2>1, <2>2, <2>4 DEF Again
    <2>8. \A s, g : OnFrom(s, g) => OnFrom(s, g)'
      BY <1>7, <2>1, <2>5 DEF OnFrom
    <2>9. showing[d] # None => f + 1 \in 1..n
      <3> SUFFICES ASSUME showing[d] # None PROVE f + 1 \in 1..n
        OBVIOUS
      <3>1. showing[d] \in Seq(1..n) /\ showing[d] # <<>> /\ \A k \in DOMAIN showing[d] : showing[d][k] = f + k
        BY <1>7 DEF Tab, Screen, OnFrom, BrowserTypeOK
      <3>2. 1 \in DOMAIN showing[d] /\ showing[d][1] \in 1..n
        BY <3>1
      <3>3. QED
        BY <3>1, <3>2
    <2>10. ASSUME NEW i \in DOMAIN events'
           PROVE  /\ i <= f => shown'[i] \in 1..(1 + reopened)
                  /\ i > f => shown'[i] <= reopened + (IF i = f + 1 /\ up[d] THEN 1 ELSE 0)
                  /\ i = f + 1 /\ up[d] => shown'[i] >= 1
      <3>1. CASE i \in 1..n
        BY <1>7, <2>2, <3>1 DEF Tab, Screen
      <3>2. CASE i = n + 1
        <4>1. f <= n /\ ~(i = f + 1 /\ up[d]) /\ reopened \in Nat
          BY <2>9, <3>2, <1>7 DEF Tab, Screen, BrowserTypeOK
        <4>2. shown'[i] = 0
          BY <2>2, <3>2
        <4>3. QED
          BY <1>7, <3>2, <4>1, <4>2
      <3>3. QED
        BY <1>7, <2>1, <3>1, <3>2, <2>10
    <2>11. Screen(d, f)'
      <3>1. base' <= f /\ f <= Len(events')
        BY <1>7, <2>1, <2>4 DEF Tab, Screen
      <3>2. /\ inTab' \subseteq 1..f /\ (base' + 1)..f \subseteq inTab'
            /\ heard'[d] # None => showing'[d] = None /\ OnFrom(heard[d], base)'
            /\ showing'[d] # None => OnFrom(showing[d], f)'
            /\ up'[d] => showing'[d] # None
        <4>1. OnFrom(heard[d], base) => OnFrom(heard[d], base)'
          BY <1>2, <2>4, <2>8 DEF OnFrom
        <4>2. OnFrom(showing[d], f) => OnFrom(showing[d], f)'
          BY <1>2, <2>8 DEF OnFrom
        <4>3. QED
          BY <1>2, <2>4, <4>1, <4>2 DEF Tab, Screen
      <3>3. QED
        BY <1>2, <2>7, <2>10, <3>1, <3>2 DEF Tab, Screen
    <2>12. QED
      BY <1>1, <2>6, <2>11 DEF Tab
  <1>10. QED
    BY <1>2, <1>8, <1>9

\* No other step of the bank's side adds an event.
LEMMA BankTab ==
  ASSUME NEW d \in Deliveries, NEW f \in Nat, Tab(d, f), Banking PROVE Tab(d, f)'
  <1>1. BankInv'
    BY BankStep DEF Tab, Next
  <1>2. CASE \E c \in Connections : Close(c)
    BY <1>2, CloseTab
  <1>3. CASE UNCHANGED <<events, browser>>
    BY <1>1, <1>3, SameScreen DEF Tab
  <1>4. QED
    BY <1>2, <1>3 DEF Banking, StartRun, BeginClose, Refuse, Reap, Die, Tick

-----------------------------------------------------------------------------
(* The browser's steps                                                     *)

LEMMA ABrowserStep ==
  ASSUME NEW d \in Deliveries, NEW f \in Nat, NEW g \in Nat, Tab(d, f), UNCHANGED bankSide, BrowserTypeOK',
         Screen(d, g)'
  PROVE  Tab(d, g)'
  BY SameBank DEF Tab

\* The set of repeated notices is finite, and so is every part of it.
LEMMA FewerAgain ==
  ASSUME NEW d \in Deliveries, NEW f \in Nat, Tab(d, f), NEW S, S \subseteq Again(d, f)
  PROVE  Cardinality(S) <= reopened + unsaved
  <1>1. IsFiniteSet(DOMAIN events) /\ reopened \in Nat /\ unsaved \in Nat
    BY BaseRange DEF Tab, BrowserTypeOK
  <1>2. IsFiniteSet(Again(d, f))
    BY <1>1, FS_Subset DEF Again
  <1>3. Cardinality(S) <= Cardinality(Again(d, f)) /\ IsFiniteSet(S)
    BY <1>2, FS_Subset
  <1>4. /\ Cardinality(S) \in Nat /\ Cardinality(Again(d, f)) \in Nat
        /\ Cardinality(Again(d, f)) <= reopened + unsaved
    BY <1>2, <1>3, FS_CardinalityType DEF Tab, Screen
  <1>5. QED
    BY <1>1, <1>3, <1>4

\* One more of them is one more to count.
LEMMA OneMoreAgain ==
  ASSUME NEW d \in Deliveries, NEW f \in Nat, Tab(d, f), NEW x, NEW S, S \subseteq Again(d, f) \union {x}
  PROVE  Cardinality(S) <= reopened + unsaved + 1
  <1>1. IsFiniteSet(DOMAIN events) /\ reopened \in Nat /\ unsaved \in Nat
    BY BaseRange DEF Tab, BrowserTypeOK
  <1> DEFINE A == Again(d, f)
  <1>2. IsFiniteSet(A) /\ Cardinality(A) \in Nat /\ Cardinality(A) <= reopened + unsaved
    BY <1>1, FS_Subset, FS_CardinalityType DEF Again, Tab, Screen
  <1> HIDE DEF A
  <1>3. /\ IsFiniteSet(A \union {x})
        /\ Cardinality(A \union {x}) = IF x \in A THEN Cardinality(A) ELSE Cardinality(A) + 1
    BY <1>2, FS_AddElement
  <1>4. Cardinality(S) <= Cardinality(A \union {x}) /\ IsFiniteSet(S)
    BY <1>3, FS_Subset DEF A
  <1>5. Cardinality(S) \in Nat
    BY <1>4, FS_CardinalityType
  <1>6. QED
    BY <1>1, <1>2, <1>3, <1>4, <1>5

\* OnFrom speaks of the events alone.
LEMMA SameAfter ==
  ASSUME UNCHANGED <<events, cursor>>, NEW s, NEW f
  PROVE  base' = base /\ (OnFrom(s, f)' <=> OnFrom(s, f)) /\ (OnFrom(s, base)' <=> OnFrom(s, base))
  BY DEF base, OnFrom

LEMMA PollTab ==
  ASSUME NEW d \in Deliveries, NEW f \in Nat, Tab(d, f), Poll(d) PROVE Tab(d, f)'
  <1> DEFINE list == ListNotices(cursor)
  <1>1. /\ heard' = [heard EXCEPT ![d] = list] /\ showing[d] = None
        /\ UNCHANGED <<bankSide, cursor, inTab, canShow, data, showing, up, missed, reopened, unsaved, shown>>
    BY DEF Poll
  <1>2. OnFrom(list, base)
    BY <1>1, HeardFromBase DEF Tab
  <1> HIDE DEF list
  <1>3. list \in Seq(DOMAIN events) /\ UNCHANGED events
    BY <1>1, <1>2 DEF OnFrom, bankSide
  <1>4. BrowserTypeOK'
    BY <1>1, <1>3 DEF Tab, BrowserTypeOK
  <1>5. heard'[d] = list
    BY <1>1 DEF Tab, BrowserTypeOK
  <1>6. base' = base /\ Again(d, f)' = Again(d, f)
    BY <1>1, <1>3 DEF base, Again
  <1>7. heard'[d] # None => showing'[d] = None /\ OnFrom(heard[d], base)'
    BY <1>1, <1>2, <1>3, <1>5, <1>6 DEF OnFrom
  <1>8. showing'[d] # None => OnFrom(showing[d], f)'
    BY <1>1
  <1>9. Screen(d, f)'
    BY <1>1, <1>3, <1>6, <1>7, <1>8 DEF Tab, Screen
  <1>10. QED
    BY <1>1, <1>4, <1>9, ABrowserStep

\* What is left of an answer after what this tab has shown starts right after it.
LEMMA FreshIsAfter ==
  ASSUME NEW d \in Deliveries, NEW f \in Nat, Tab(d, f), heard[d] # None
  PROVE  OnFrom(InOrder({i \in Range(heard[d]) : i \notin inTab}), f)
  <1> DEFINE h == heard[d]
             S == {i \in Range(h) : i \notin inTab}
             b == IF base + Len(h) < f THEN f ELSE base + Len(h)
  <1>1. /\ h \in Seq(DOMAIN events) /\ \A k \in DOMAIN h : h[k] = base + k
        /\ inTab \subseteq 1..f /\ (base + 1)..f \subseteq inTab /\ base <= f /\ f <= Len(events)
    BY DEF Tab, Screen, OnFrom
  <1>2. /\ base \in 0..Len(events) /\ Len(events) \in Nat /\ DOMAIN events = 1..Len(events)
    BY BaseRange DEF Tab
  <1>3. Len(h) \in Nat /\ DOMAIN h = 1..Len(h)
    BY <1>1
  <1>4. base + Len(h) <= Len(events)
    <2>1. CASE Len(h) = 0
      BY <1>2, <2>1
    <2>2. CASE Len(h) # 0
      <3>1. Len(h) \in DOMAIN h
        BY <1>3, <2>2
      <3>2. h[Len(h)] = base + Len(h) /\ h[Len(h)] \in DOMAIN events
        BY <1>1, <3>1
      <3>3. QED
        BY <1>2, <1>3, <3>2
    <2>3. QED
      BY <2>1, <2>2
  <1>5. S = (f + 1)..b
    <2>1. Range(h) = {h[k] : k \in 1..Len(h)}
      BY <1>3 DEF Range
    <2>2. ASSUME NEW i \in (f + 1)..b PROVE i \in Range(h) /\ i \notin inTab
      <3>1. i - base \in 1..Len(h) /\ base + (i - base) = i
        BY <1>1, <1>2, <1>3
      <3>2. h[i - base] = base + (i - base)
        BY <1>1, <1>3, <3>1
      <3>3. QED
        BY <1>1, <2>1, <3>1, <3>2
    <2>3. ASSUME NEW i \in Range(h), i \notin inTab PROVE i \in (f + 1)..b
      <3>1. PICK k \in 1..Len(h) : i = h[k]
        BY <2>1
      <3>2. i = base + k
        BY <1>1, <1>3, <3>1
      <3>3. i \notin (base + 1)..f
        BY <1>1, <2>3
      <3>4. QED
        BY <1>1, <1>2, <1>3, <3>1, <3>2, <3>3
    <2>4. QED
      BY <2>2, <2>3
  <1>6. /\ InOrder(S) \in Seq(DOMAIN events) /\ Len(InOrder(S)) = b - f
        /\ \A k \in 1..(b - f) : InOrder(S)[k] = f + k
    <2>1. b \in Nat /\ f <= b /\ b <= Len(events)
      BY <1>1, <1>2, <1>3, <1>4
    <2> HIDE DEF b
    <2>2. /\ InOrder((f + 1)..b) \in Seq(DOMAIN events) /\ Len(InOrder((f + 1)..b)) = b - f
          /\ \A k \in 1..(b - f) : InOrder((f + 1)..b)[k] = f + k
      BY <2>1, OldestFirst DEF Tab
    <2> HIDE DEF S
    <2>3. QED
      BY <1>5, <2>2
  <1> HIDE DEF S
  <1>7. DOMAIN InOrder(S) = 1..(b - f)
    BY <1>6
  <1>8. OnFrom(InOrder(S), f)
    BY <1>6, <1>7 DEF OnFrom
  <1>9. QED
    BY <1>8 DEF S

LEMMA BeginDeliveryTab ==
  ASSUME NEW d \in Deliveries, NEW f \in Nat, Tab(d, f), BeginDelivery(d) PROVE Tab(d, f)'
  <1> DEFINE fresh == InOrder({i \in Range(heard[d]) : i \notin inTab})
  <1>1. OnFrom(fresh, f)
    BY FreshIsAfter DEF BeginDelivery
  <1>2. PICK list : /\ list = None \/ (list = fresh /\ fresh # <<>>)
                    /\ showing' = [showing EXCEPT ![d] = list]
    BY DEF BeginDelivery
  <1>3. /\ heard[d] # None /\ data' = heard[d] /\ heard' = [heard EXCEPT ![d] = None]
        /\ missed' \in BOOLEAN
        /\ UNCHANGED <<bankSide, cursor, inTab, canShow, up, reopened, unsaved, shown>>
    BY DEF BeginDelivery, Tab, BrowserTypeOK
  <1> HIDE DEF fresh
  <1>4. fresh \in Seq(DOMAIN events) /\ UNCHANGED events
    BY <1>1, <1>3 DEF OnFrom, bankSide
  <1>5. BrowserTypeOK'
    BY <1>2, <1>3, <1>4 DEF Tab, BrowserTypeOK
  <1>6. heard'[d] = None /\ showing'[d] = list /\ ~up[d]
    BY <1>2, <1>3 DEF Tab, BrowserTypeOK, Screen
  <1>7. base' = base /\ Again(d, f)' = Again(d, f)
    BY <1>3, <1>4 DEF base, Again
  <1>8. showing'[d] # None => OnFrom(showing[d], f)'
    BY <1>1, <1>2, <1>4, <1>6 DEF OnFrom
  <1>9. Screen(d, f)'
    BY <1>3, <1>4, <1>6, <1>7, <1>8 DEF Tab, Screen
  <1>10. QED
    BY <1>3, <1>5, <1>9, ABrowserStep

LEMMA EnableTab ==
  ASSUME NEW d \in Deliveries, NEW f \in Nat, Tab(d, f), Enable PROVE Tab(d, f)'
  <1>1. /\ canShow' = TRUE
        /\ UNCHANGED <<bankSide, events, cursor, inTab, heard, data, showing, up, missed, reopened, unsaved, shown>>
    BY DEF Enable, bankSide
  <1>2. BrowserTypeOK'
    BY <1>1 DEF Tab, BrowserTypeOK
  <1>3. Screen(d, f)'
    BY <1>1 DEF Tab, Screen, OnFrom, Again, base
  <1>4. QED
    BY <1>1, <1>2, <1>3, ABrowserStep

LEMMA RejectTab ==
  ASSUME NEW d \in Deliveries, NEW f \in Nat, Tab(d, f), Reject(d) PROVE Tab(d, f)'
  <1>1. /\ ~up[d] /\ showing' = [showing EXCEPT ![d] = None] /\ missed' = TRUE
        /\ UNCHANGED <<bankSide, events, cursor, inTab, canShow, heard, data, up, reopened, unsaved, shown>>
    BY DEF Reject, bankSide
  <1>2. BrowserTypeOK'
    BY <1>1 DEF Tab, BrowserTypeOK
  <1>3. showing'[d] = None
    BY <1>1 DEF Tab, BrowserTypeOK
  <1>4. base' = base /\ Again(d, f)' = Again(d, f)
    BY <1>1 DEF base, Again
  <1>5. heard'[d] # None => OnFrom(heard[d], base)'
    BY <1>1, <1>4 DEF Tab, Screen, OnFrom
  <1>6. Screen(d, f)'
    BY <1>1, <1>3, <1>4, <1>5 DEF Tab, Screen
  <1>7. QED
    BY <1>1, <1>2, <1>6, ABrowserStep

\* What a delivery has still to show starts with the notice right after f.
LEMMA NextIsHead ==
  ASSUME NEW d \in Deliveries, NEW f \in Nat, Tab(d, f), showing[d] # None
  PROVE  Head(showing[d]) = f + 1 /\ f + 1 \in DOMAIN events
  <1>1. /\ showing[d] \in Seq(DOMAIN events) /\ showing[d] # <<>>
        /\ \A k \in DOMAIN showing[d] : showing[d][k] = f + k
    BY DEF Tab, BrowserTypeOK, Screen, OnFrom
  <1>2. 1 \in DOMAIN showing[d] /\ Head(showing[d]) = showing[d][1] /\ showing[d][1] \in DOMAIN events
    BY <1>1
  <1>3. QED
    BY <1>1, <1>2

LEMMA ShowTab ==
  ASSUME NEW d \in Deliveries, NEW f \in Nat, Tab(d, f), Show(d) PROVE Tab(d, f)'
  <1> DEFINE next == f + 1
  <1>1. /\ showing[d] # None /\ ~up[d]
        /\ shown' = [shown EXCEPT ![Head(showing[d])] = shown[Head(showing[d])] + 1]
        /\ up' = [up EXCEPT ![d] = TRUE]
        /\ UNCHANGED <<bankSide, events, cursor, inTab, canShow, heard, data, showing, missed, reopened, unsaved>>
    BY DEF Show, bankSide
  <1>2. /\ base \in Nat /\ DOMAIN events = 1..Len(events) /\ Len(events) \in Nat /\ base <= f
    BY BaseRange DEF Tab, Screen
  <1>3. Head(showing[d]) = next /\ next \in DOMAIN events
    BY <1>1, NextIsHead
  <1>4. base' = base
    BY <1>1 DEF base
  <1>5. /\ shown \in [DOMAIN events -> Nat] /\ reopened \in Nat /\ shown[next] \in 0..reopened
        /\ shown'[next] = shown[next] + 1
        /\ \A i \in DOMAIN events : i # next => shown'[i] = shown[i]
        /\ up'[d] = TRUE
    BY <1>1, <1>2, <1>3 DEF Tab, BrowserTypeOK, Screen
  <1>6. BrowserTypeOK'
    BY <1>1, <1>3, <1>5 DEF Tab, BrowserTypeOK
  <1>7. Again(d, f)' \subseteq Again(d, f)
    <2> SUFFICES ASSUME NEW i \in DOMAIN events,
                        shown'[i] > 1 \/ (i > base /\ shown'[i] = 1 /\ i # next)
                 PROVE  i \in Again(d, f)
      BY <1>1, <1>4, <1>5 DEF Again
    <2>1. CASE i = next
      BY <1>1, <1>2, <1>3, <1>5, <2>1 DEF Again
    <2>2. CASE i # next
      BY <1>5, <2>2 DEF Again
    <2>3. QED
      BY <2>1, <2>2
  <1>8. Cardinality(Again(d, f)') <= reopened + unsaved
    BY <1>7, FewerAgain
  <1>9. \A i \in DOMAIN events :
          /\ i <= f => shown'[i] \in 1..(1 + reopened)
          /\ i > f => shown'[i] <= reopened + (IF i = next THEN 1 ELSE 0)
          /\ i = next => shown'[i] >= 1
    <2> TAKE i \in DOMAIN events
    <2>1. CASE i = next
      BY <1>2, <1>5, <2>1
    <2>2. CASE i # next
      BY <1>2, <1>5, <2>2 DEF Tab, Screen
    <2>3. QED
      BY <2>1, <2>2
  <1>10. /\ heard'[d] # None => showing'[d] = None /\ OnFrom(heard[d], base)'
         /\ showing'[d] # None => OnFrom(showing[d], f)'
    BY <1>1, <1>4 DEF Tab, Screen, OnFrom
  <1>11. Screen(d, f)'
    BY <1>1, <1>4, <1>5, <1>8, <1>9, <1>10 DEF Tab, Screen
  <1>12. QED
    BY <1>1, <1>6, <1>11, ABrowserStep

\* The notice on the screen is remembered: by the cursor too, or in the tab only.
LEMMA RememberTab ==
  ASSUME NEW d \in Deliveries, NEW f \in Nat, Tab(d, f), NEW stored \in BOOLEAN, Remember(d, stored)
  PROVE  Tab(d, f + 1)'
  <1> DEFINE s    == showing[d]
             next == f + 1
  <1>1. /\ up[d] /\ inTab' = inTab \union {Head(s)}
        /\ \/ cursor' = Head(s) /\ unsaved' = unsaved
           \/ cursor' = cursor /\ unsaved' = unsaved + 1
        /\ showing' = [showing EXCEPT ![d] = IF Len(s) = 1 THEN None ELSE Tail(s)]
        /\ up' = [up EXCEPT ![d] = FALSE]
        /\ UNCHANGED <<bankSide, events, canShow, heard, data, missed, reopened, shown>>
    BY DEF Remember, bankSide
  <1>2. /\ base \in Nat /\ DOMAIN events = 1..Len(events) /\ Len(events) \in Nat
        /\ base <= f /\ f <= Len(events)
    BY BaseRange DEF Tab, Screen
  <1>3. /\ s # None /\ s \in Seq(DOMAIN events) /\ s # <<>>
        /\ \A k \in DOMAIN s : s[k] = f + k
    BY <1>1 DEF Tab, BrowserTypeOK, Screen, OnFrom
  <1>4. Head(s) = next /\ next \in DOMAIN events
    BY <1>3, NextIsHead
  <1>5. \/ base' = next /\ unsaved' = unsaved
        \/ base' = base /\ unsaved' = unsaved + 1
    BY <1>1, <1>4 DEF base
  <1>6. /\ Tail(s) \in Seq(DOMAIN events) /\ Len(Tail(s)) = Len(s) - 1
        /\ \A k \in 1..(Len(s) - 1) : Tail(s)[k] = next + k
        /\ Len(s) \in Nat \ {0}
    <2>1. Len(s) \in Nat \ {0} /\ DOMAIN s = 1..Len(s)
      BY <1>3
    <2>2. /\ Tail(s) \in Seq(DOMAIN events) /\ Len(Tail(s)) = Len(s) - 1
          /\ \A k \in 1..(Len(s) - 1) : Tail(s)[k] = s[k + 1]
      BY <1>3, HeadTailProperties
    <2>3. ASSUME NEW k \in 1..(Len(s) - 1) PROVE Tail(s)[k] = next + k
      <3>1. k + 1 \in DOMAIN s /\ Tail(s)[k] = s[k + 1]
        BY <2>1, <2>2
      <3>2. s[k + 1] = f + (k + 1)
        BY <1>3, <3>1
      <3>3. QED
        BY <3>1, <3>2
    <2>4. QED
      BY <2>1, <2>2, <2>3
  <1>7. ASSUME Len(s) # 1, NEW t, t = Tail(s) PROVE t # <<>> /\ OnFrom(t, next)'
    <2>1. t \in Seq(DOMAIN events) /\ DOMAIN t = 1..(Len(s) - 1) /\ t # <<>>
      <3>1. Len(s) - 1 \in Nat \ {0}
        BY <1>6, <1>7
      <3>2. t \in Seq(DOMAIN events) /\ Len(t) = Len(s) - 1
        BY <1>6, <1>7
      <3>3. DOMAIN t = 1..(Len(s) - 1)
        BY <3>2
      <3>4. 1 \in DOMAIN t
        <4>1. \A m \in Nat \ {0} : 1 \in 1..m
          OBVIOUS
        <4>2. QED
          BY <3>1, <3>3, <4>1
      <3>5. QED
        BY <3>2, <3>3, <3>4
    <2>2. OnFrom(t, next)'
      BY <1>1, <1>6, <1>7, <2>1 DEF OnFrom
    <2>3. QED
      BY <2>1, <2>2
  <1>8. /\ showing'[d] = (IF Len(s) = 1 THEN None ELSE Tail(s)) /\ up'[d] = FALSE
        /\ heard[d] = None
    <2>1. heard[d] = None
      BY <1>3 DEF Tab, Screen
    <2>2. QED
      BY <1>1, <2>1 DEF Tab, BrowserTypeOK
  <1>9. BrowserTypeOK'
    <2>1. (IF Len(s) = 1 THEN None ELSE Tail(s)) \in (Seq(DOMAIN events) \ {<<>>}) \union {None}
      BY <1>6, <1>7
    <2>2. showing' \in [Deliveries -> (Seq(DOMAIN events) \ {<<>>}) \union {None}]
      BY <1>1, <2>1 DEF Tab, BrowserTypeOK
    <2>3. QED
      BY <1>1, <1>2, <1>4, <2>2 DEF Tab, BrowserTypeOK
  <1>10. /\ shown \in [DOMAIN events -> Nat] /\ reopened \in Nat /\ unsaved \in Nat
         /\ shown[next] \in 1..(1 + reopened)
    <2>1. shown \in [DOMAIN events -> Nat] /\ reopened \in Nat /\ unsaved \in Nat
      BY DEF Tab, BrowserTypeOK
    <2>2. /\ next > f => shown[next] <= reopened + (IF next = f + 1 /\ up[d] THEN 1 ELSE 0)
          /\ next = f + 1 /\ up[d] => shown[next] >= 1
      BY <1>4 DEF Tab, Screen
    <2>3. next > f /\ next = f + 1 /\ up[d]
      BY <1>1, <1>2
    <2>4. shown[next] <= reopened + 1 /\ shown[next] >= 1 /\ shown[next] \in Nat
      BY <1>4, <2>1, <2>2, <2>3
    <2>5. QED
      BY <2>1, <2>4
  <1>11. Cardinality(Again(d, next)') <= reopened + unsaved'
    <2>1. CASE base' = next /\ unsaved' = unsaved
      <3> SUFFICES ASSUME NEW i \in DOMAIN events, shown[i] > 1 \/ (i > next /\ shown[i] = 1)
                   PROVE  i \in Again(d, f)
        BY <1>1, <2>1, FewerAgain DEF Again
      <3>1. QED
        BY <1>2 DEF Again
    <2>2. CASE base' = base /\ unsaved' = unsaved + 1
      <3>1. Again(d, next)' \subseteq Again(d, f) \union {next}
        <4> SUFFICES ASSUME NEW i \in DOMAIN events, shown[i] > 1 \/ (i > base /\ shown[i] = 1), i # next
                     PROVE  i \in Again(d, f)
          BY <1>1, <2>2 DEF Again
        <4>1. QED
          BY DEF Again
      <3>2. PICK S : S = Again(d, next)'
        OBVIOUS
      <3>3. Cardinality(S) <= reopened + unsaved + 1
        BY <3>1, <3>2, OneMoreAgain
      <3>4. reopened + unsaved' = reopened + unsaved + 1
        BY <1>10, <2>2
      <3>5. QED
        BY <3>2, <3>3, <3>4
    <2>3. QED
      BY <1>5, <2>1, <2>2
  <1>12. \A i \in DOMAIN events :
           /\ i <= next => shown[i] \in 1..(1 + reopened)
           /\ i > next => shown[i] <= reopened
    <2> TAKE i \in DOMAIN events
    <2>1. CASE i <= f
      BY <1>2, <1>10, <2>1 DEF Tab, Screen
    <2>2. CASE i = next
      BY <1>2, <1>10, <2>2
    <2>3. CASE i > next
      BY <1>2, <1>10, <2>3 DEF Tab, Screen
    <2>4. QED
      BY <1>2, <2>1, <2>2, <2>3
  <1>13. inTab' \subseteq 1..next /\ (base' + 1)..next \subseteq inTab'
    <2>1. inTab \subseteq 1..f /\ (base + 1)..f \subseteq inTab
      BY DEF Tab, Screen
    <2>2. 1..f \subseteq 1..next /\ next \in 1..next
      BY <1>2
    <2>3. inTab' = inTab \union {next}
      BY <1>1, <1>4
    <2>4. (base' + 1)..next \subseteq (base + 1)..f \union {next}
      BY <1>2, <1>5
    <2>5. QED
      BY <2>1, <2>2, <2>3, <2>4
  <1>14. Screen(d, next)'
    <2>1. showing'[d] # None => OnFrom(showing[d], next)'
      <3> SUFFICES ASSUME NEW t, t = showing'[d], t # None PROVE OnFrom(t, next)'
        BY DEF OnFrom
      <3>1. t = Tail(s) /\ Len(s) # 1
        BY <1>8
      <3>2. QED
        BY <1>7, <3>1
    <2>2. \A i \in DOMAIN events' :
            /\ i <= next => shown'[i] \in 1..(1 + reopened')
            /\ i > next => shown'[i] <= reopened' + (IF i = next + 1 /\ up'[d] THEN 1 ELSE 0)
            /\ i = next + 1 /\ up'[d] => shown'[i] >= 1
      BY <1>1, <1>8, <1>10, <1>12
    <2>3. base' <= next /\ next <= Len(events') /\ heard'[d] = None /\ up'[d] = FALSE
      BY <1>1, <1>2, <1>4, <1>5, <1>8
    <2>4. QED
      BY <1>1, <1>11, <1>13, <2>1, <2>2, <2>3 DEF Screen
  <1>15. QED
    BY <1>1, <1>9, <1>14, ABrowserStep

\* A closed tab was in the middle of one notice at most, and it forgets those
\* that only it remembers.
LEMMA ReopenTab ==
  ASSUME NEW d \in Deliveries, NEW f \in Nat, Tab(d, f), NEW storage \in {"kept", "lost", "foreign"},
         Reopen(storage)
  PROVE  TabInv(d)'
  <1>1. /\ reopened' = reopened + 1 /\ inTab' = {} /\ data' = None /\ missed' = FALSE
        /\ heard' = [e \in Deliveries |-> None] /\ showing' = [e \in Deliveries |-> None]
        /\ up' = [e \in Deliveries |-> FALSE]
        /\ cursor' = (IF storage = "kept" THEN cursor ELSE IF storage = "lost" THEN Nothing ELSE Stranger)
        /\ shown' = (IF storage = "kept" THEN shown ELSE [i \in DOMAIN events |-> 0])
        /\ UNCHANGED <<bankSide, events, canShow, unsaved>>
    BY DEF Reopen, bankSide
  <1>2. /\ base \in Nat /\ DOMAIN events = 1..Len(events) /\ Len(events) \in Nat
        /\ base <= f /\ f <= Len(events)
    BY BaseRange DEF Tab, Screen
  <1>3. reopened \in Nat /\ unsaved \in Nat /\ shown \in [DOMAIN events -> Nat]
    BY DEF Tab, BrowserTypeOK
  <1>4. BrowserTypeOK'
    <2>1. cursor' \in DOMAIN events' \union {Nothing, Stranger}
      BY <1>1 DEF Tab, BrowserTypeOK
    <2>2. shown' \in [DOMAIN events' -> Nat]
      BY <1>1, <1>3
    <2>3. inTab' \subseteq DOMAIN events' /\ reopened' \in Nat /\ unsaved' \in Nat
      BY <1>1, <1>3
    <2>4. canShow' \in BOOLEAN
      BY <1>1 DEF Tab, BrowserTypeOK
    <2>5. QED
      BY <1>1, <2>1, <2>2, <2>3, <2>4 DEF BrowserTypeOK
  <1>5. /\ heard'[d] = None /\ showing'[d] = None /\ up'[d] = FALSE /\ inTab' = {}
    BY <1>1
  <1>6. CASE storage = "kept"
    <2>1. base' = base /\ shown' = shown
      BY <1>1, <1>2, <1>6 DEF base
    <2>2. \A i \in DOMAIN events' :
            /\ i <= base => shown'[i] \in 1..(1 + reopened')
            /\ i > base => shown'[i] <= reopened' + (IF i = base + 1 /\ up'[d] THEN 1 ELSE 0)
            /\ i = base + 1 /\ up'[d] => shown'[i] >= 1
      <3> TAKE i \in DOMAIN events'
      <3>1. /\ i <= f => shown[i] \in 1..(1 + reopened)
            /\ i > f => shown[i] <= reopened + 1
        BY <1>1, <1>3 DEF Tab, Screen
      <3>2. i \in Nat
        BY <1>1, <1>2
      <3>3. QED
        BY <1>1, <1>2, <1>3, <1>5, <2>1, <3>1, <3>2
    <2>3. Again(d, base)' \subseteq Again(d, f) \union {f + 1}
      BY <1>1, <1>2, <2>1 DEF Again
    <2>4. Cardinality(Again(d, base)') <= reopened' + unsaved'
      <3>1. PICK S : S = Again(d, base)'
        OBVIOUS
      <3>2. Cardinality(S) <= reopened + unsaved + 1
        BY <2>3, <3>1, OneMoreAgain
      <3>3. reopened' + unsaved' = reopened + unsaved + 1
        BY <1>1, <1>3
      <3>4. QED
        BY <3>1, <3>2, <3>3
    <2>5. (base' + 1)..base = {} /\ base <= Len(events')
      BY <1>1, <1>2, <2>1
    <2>6. PICK g \in Nat : g = base
      BY <1>2
    <2>7. Screen(d, g)'
      BY <1>5, <2>1, <2>2, <2>4, <2>5, <2>6 DEF Screen, Again
    <2>8. QED
      BY <1>1, <1>4, <2>7, ABrowserStep DEF TabInv
  <1>7. CASE storage # "kept"
    <2>1. base' = 0 /\ \A i \in DOMAIN events' : shown'[i] = 0
      BY <1>1, <1>2, <1>7 DEF base, Nothing, Stranger
    <2>2. Again(d, 0)' = {}
      BY <2>1 DEF Again
    <2>3. Cardinality(Again(d, 0)') <= reopened' + unsaved'
      BY <1>1, <1>3, <2>2, FS_EmptySet
    <2>4. \A i \in DOMAIN events' :
            /\ i <= 0 => shown'[i] \in 1..(1 + reopened')
            /\ i > 0 => shown'[i] <= reopened' + (IF i = 0 + 1 /\ up'[d] THEN 1 ELSE 0)
            /\ i = 0 + 1 /\ up'[d] => shown'[i] >= 1
      BY <1>1, <1>2, <1>3, <1>5, <2>1
    <2>5. (base' + 1)..0 = {} /\ 0 <= Len(events') /\ base' <= 0
      BY <1>1, <1>2, <2>1
    <2>6. Screen(d, 0)'
      BY <1>5, <2>3, <2>4, <2>5 DEF Screen
    <2>7. QED
      BY <1>1, <1>4, <2>6, ABrowserStep DEF TabInv
  <1>8. QED
    BY <1>6, <1>7

LEMMA TabStep ==
  ASSUME NEW d \in Deliveries, Deliveries = {d}, TabInv(d), [Next]_vars PROVE TabInv(d)'
  <1>1. PICK f \in Nat : Tab(d, f)
    BY DEF TabInv
  <1>2. CASE Banking
    BY <1>1, <1>2, BankTab DEF TabInv
  <1>3. CASE Enable \/ Poll(d) \/ BeginDelivery(d) \/ Show(d) \/ Reject(d)
    BY <1>1, <1>3, EnableTab, PollTab, BeginDeliveryTab, ShowTab, RejectTab DEF TabInv
  <1>4. ASSUME NEW stored \in BOOLEAN, Remember(d, stored) PROVE TabInv(d)'
    <2>1. Tab(d, f + 1)' /\ f + 1 \in Nat
      BY <1>1, <1>4, RememberTab
    <2>2. QED
      BY <2>1 DEF TabInv
  <1>5. ASSUME NEW storage \in {"kept", "lost", "foreign"}, Reopen(storage) PROVE TabInv(d)'
    BY <1>1, <1>5, ReopenTab
  <1>6. CASE UNCHANGED vars
    <2>1. UNCHANGED <<bankSide, events, browser>>
      BY <1>6 DEF vars, bankSide, browser
    <2>2. QED
      BY <1>1, <2>1, SameScreen, ABrowserStep DEF Tab, TabInv
  <1>7. QED
    BY <1>2, <1>3, <1>4, <1>5, <1>6 DEF Next, Browsing

\* What the invariant says of the screen is what a person is promised.
LEMMA TabIsTold ==
  ASSUME NEW d \in Deliveries, TabInv(d) PROVE ToldOnce
  <1>1. PICK f \in Nat : Tab(d, f)
    BY DEF TabInv
  <1>2. TypeOK
    BY <1>1 DEF Tab, BankInv, TypeOK
  <1>3. /\ base \in Nat /\ DOMAIN events = 1..Len(events) /\ Len(events) \in Nat
        /\ reopened \in Nat /\ shown \in [DOMAIN events -> Nat] /\ base <= f
    BY <1>1, BaseRange DEF Tab, BrowserTypeOK, Screen
  <1>4. NothingSkipped
    <2> SUFFICES ASSUME cursor \in DOMAIN events, NEW i \in DOMAIN events,
                        events[i].ts <= events[cursor].ts
                 PROVE  shown[i] > 0
      BY DEF NothingSkipped
    <2>1. base = cursor
      BY DEF base
    <2>2. i <= cursor
      <3> SUFFICES ASSUME cursor < i PROVE FALSE
        BY <1>3
      <3>1. events[cursor].ts < events[i].ts
        BY <1>1 DEF Tab, BankInv, OneAtATime
      <3>2. events[cursor] \in Event /\ events[i] \in Event
        BY <1>1 DEF Tab, BankInv, BankTypeOK
      <3>3. QED
        BY <3>1, <3>2 DEF Event
    <2>3. i <= f
      BY <1>3, <2>1, <2>2
    <2>4. shown[i] \in 1..(1 + reopened)
      BY <1>1, <2>3 DEF Tab, Screen
    <2>5. QED
      BY <1>3, <2>4
  <1>5. ShownOnce
    <2>1. \A i \in DOMAIN events : shown[i] <= 1 + reopened
      <3> TAKE i \in DOMAIN events
      <3>1. /\ i <= f => shown[i] \in 1..(1 + reopened)
            /\ i > f => shown[i] <= reopened + (IF i = f + 1 /\ up[d] THEN 1 ELSE 0)
        BY <1>1 DEF Tab, Screen
      <3>2. QED
        BY <1>3, <3>1
    <2>2. {i \in DOMAIN events : shown[i] > 1} \subseteq Again(d, f)
      BY DEF Again
    <2>3. QED
      BY <1>1, <2>1, <2>2, FewerAgain DEF ShownOnce
  <1>6. QED
    BY <1>2, <1>4, <1>5 DEF ToldOnce

\* With one tab, for any connections and times: the cursor never runs ahead of
\* what was shown, and a notice is repeated only by a tab that was closed in the
\* middle of it, or whose browser did not keep the cursor, one for each time.
THEOREM ToldOnceInOneTab ==
  ASSUME NEW d \in Deliveries, Deliveries = {d}
  PROVE  Spec => []ToldOnce
  <1>1. Init => TabInv(d)
    <2>1. 0 \in Nat
      OBVIOUS
    <2>2. QED
      BY <2>1, TabInit DEF TabInv
  <1>2. TabInv(d) /\ [Next]_vars => TabInv(d)'
    BY TabStep
  <1>3. TabInv(d) => ToldOnce
    BY TabIsTold
  <1>4. QED
    BY <1>1, <1>2, <1>3, PTL DEF Spec

-----------------------------------------------------------------------------
(* The calendar                                                            *)

Day1 == Nat \ {0}
Months == 1..12

YearLength(y) == IF IsLeap(y) THEN 366 ELSE 365

LEMMA YearsType ==
  ASSUME NEW y \in Int
  PROVE  /\ DaysBeforeYear(y) \in Int
         /\ YearLength(y) \in {365, 366}
         /\ y >= 1 => DaysBeforeYear(y) >= y - 1
  BY DEF DaysBeforeYear, YearLength

LEMMA YearsFollow ==
  ASSUME NEW y \in Int
  PROVE  DaysBeforeYear(y + 1) = DaysBeforeYear(y) + YearLength(y)
  BY DEF DaysBeforeYear, YearLength, IsLeap

LEMMA YearsGrow ==
  ASSUME NEW y \in Int, NEW z \in Int, y < z
  PROVE  DaysBeforeYear(y + 1) <= DaysBeforeYear(z)
  BY DEF DaysBeforeYear

LEMMA YearIs ==
  ASSUME NEW y \in Int, NEW day \in Day1,
         DaysBeforeYear(y) < day, day <= DaysBeforeYear(y + 1)
  PROVE  Year(day) = y
  <1> DEFINE Holds(z) == DaysBeforeYear(z) < day /\ day <= DaysBeforeYear(z + 1)
  <1>1. y \in (day \div 366)..(day \div 365 + 1)
    BY DEF DaysBeforeYear, Day1
  <1>2. ASSUME NEW z \in Int, Holds(z) PROVE z = y
    <2>1. /\ DaysBeforeYear(y) \in Int /\ DaysBeforeYear(y + 1) \in Int
          /\ DaysBeforeYear(z) \in Int /\ DaysBeforeYear(z + 1) \in Int
      BY YearsType, y + 1 \in Int, z + 1 \in Int
    <2>2. day \in Int
      BY DEF Day1
    <2>3. y < z => FALSE
      BY <1>2, <2>1, <2>2, YearsGrow
    <2>4. z < y => FALSE
      BY <1>2, <2>1, <2>2, YearsGrow
    <2>5. QED
      BY <2>3, <2>4
  <1>3. \A z \in (day \div 366)..(day \div 365 + 1) : z \in Int
    OBVIOUS
  <1>4. \A z \in (day \div 366)..(day \div 365 + 1) : Holds(z) => z = y
    BY <1>2, <1>3
  <1>5. Holds(y)
    OBVIOUS
  <1>6. Year(day) = CHOOSE z \in (day \div 366)..(day \div 365 + 1) : Holds(z)
    BY DEF Year
  <1> HIDE DEF Holds
  <1>7. QED
    BY <1>1, <1>4, <1>5, <1>6

LEMMA YearHolds ==
  ASSUME NEW day \in Day1
  PROVE  /\ Year(day) \in Day1
         /\ DaysBeforeYear(Year(day)) < day /\ day <= DaysBeforeYear(Year(day) + 1)
  <1> DEFINE S == {y \in 0..day : DaysBeforeYear(y + 1) < day}
  <1>1. 0 \in S /\ S \in SUBSET (0..day) /\ day \in Nat
    BY DEF DaysBeforeYear, Day1
  <1>2. PICK x \in S : \A y \in S : x >= y
    <2> HIDE DEF S
    <2>1. QED
      BY <1>1, GreatestOne
  <1>3. x \in 0..day /\ DaysBeforeYear(x + 1) < day
    BY <1>2
  <1>4. x + 1 \in 0..day
    BY <1>3, YearsType, x + 1 \in Int DEF Day1
  <1>5. ~(DaysBeforeYear(x + 1 + 1) < day)
    BY <1>2, <1>3, <1>4
  <1>6. DaysBeforeYear(x + 1 + 1) \in Int
    BY <1>3 DEF DaysBeforeYear
  <1>7. Year(day) = x + 1
    BY <1>3, <1>5, <1>6, YearIs DEF Day1
  <1>8. QED
    BY <1>3, <1>5, <1>6, <1>7 DEF Day1

\* Months of a year, one after the other.
LEMMA TwelveMonths == 1 \in Months /\ 12 \in Months /\ \A m \in Months : m \in 1..12 /\ (m # 12 => m + 1 \in Months)
  BY DEF Months

LEMMA MonthsFollow ==
  \A y \in Int, m \in Months :
    /\ DaysBefore(y, m) \in Nat /\ DaysInMonth(y, m) \in 28..31
    /\ m < 12 => DaysBefore(y, m) + DaysInMonth(y, m) = DaysBefore(y, m + 1)
    /\ m = 12 => DaysBefore(y, m) + DaysInMonth(y, m) = YearLength(y)
    /\ m = 1 => DaysBefore(y, m) = 0
  <1> TAKE y \in Int, m \in Months
  <1> DEFINE leap == IF IsLeap(y) THEN 1 ELSE 0
             days == <<0, 31, 59, 90, 120, 151, 181, 212, 243, 273, 304, 334>>
  <1>1. /\ days[1] = 0 /\ days[2] = 31 /\ days[3] = 59 /\ days[4] = 90 /\ days[5] = 120
        /\ days[6] = 151 /\ days[7] = 181 /\ days[8] = 212 /\ days[9] = 243 /\ days[10] = 273
        /\ days[11] = 304 /\ days[12] = 334
    OBVIOUS
  <1>2. m \in {1, 2, 3, 4, 5, 6, 7, 8, 9, 10, 11, 12}
    BY DEF Months
  <1>3. \A k \in 1..12 : DaysBefore(y, k) = days[k] + IF k > 2 THEN leap ELSE 0
    BY DEF DaysBefore
  <1>4. DaysInMonth(y, m) = IF m \in {4, 6, 9, 11} THEN 30 ELSE IF m = 2 THEN 28 + leap ELSE 31
    BY DEF DaysInMonth
  <1>5. YearLength(y) = 365 + leap
    BY DEF YearLength
  <1>6. leap \in {0, 1}
    OBVIOUS
  <1> HIDE DEF days, leap
  <1>7. QED
    BY <1>1, <1>2, <1>3, <1>4, <1>5, <1>6

LEMMA MonthsGrow ==
  ASSUME NEW y \in Int, NEW m \in Months, NEW k \in Months, m < k
  PROVE  DaysBefore(y, m) + DaysInMonth(y, m) <= DaysBefore(y, k)
  <1> DEFINE leap == IF IsLeap(y) THEN 1 ELSE 0
             days == <<0, 31, 59, 90, 120, 151, 181, 212, 243, 273, 304, 334>>
  <1>1. /\ days[1] = 0 /\ days[2] = 31 /\ days[3] = 59 /\ days[4] = 90 /\ days[5] = 120
        /\ days[6] = 151 /\ days[7] = 181 /\ days[8] = 212 /\ days[9] = 243 /\ days[10] = 273
        /\ days[11] = 304 /\ days[12] = 334
    OBVIOUS
  <1>2. \A j \in 1..12 : j \in {1, 2, 3, 4, 5, 6, 7, 8, 9, 10, 11, 12}
    OBVIOUS
  <1>3. \A j \in 1..12 : DaysBefore(y, j) = days[j] + IF j > 2 THEN leap ELSE 0
    BY DEF DaysBefore
  <1>6. leap \in {0, 1}
    OBVIOUS
  <1>7. DaysBefore(y, m) + DaysInMonth(y, m) = DaysBefore(y, m + 1) /\ m + 1 \in Months
    <2>1. m < 12 /\ m + 1 \in Months
      BY DEF Months
    <2>2. QED
      BY <2>1, MonthsFollow
  <1> HIDE DEF days, leap
  <1>8. \A i \in 1..12, j \in 1..12 : i <= j => days[i] <= days[j]
    BY <1>1, <1>2
  <1>9. days[m + 1] <= days[k] /\ days[m + 1] \in Int /\ days[k] \in Int
    BY <1>1, <1>2, <1>7, <1>8 DEF Months
  <1>10. QED
    BY <1>3, <1>6, <1>7, <1>9 DEF Months

\* The day of a year, month and day of the month is of that year and month.
LEMMA DayIs ==
  ASSUME NEW y \in Day1, NEW m \in Months, NEW k \in 1..DaysInMonth(y, m)
  PROVE  /\ Ordinal(y, m, k) \in Day1
         /\ Year(Ordinal(y, m, k)) = y
         /\ Month(Ordinal(y, m, k)) = m
  <1> DEFINE day == Ordinal(y, m, k)
             rest == DaysBefore(y, m) + k
  <1>1. DaysBeforeYear(y) \in Nat
    BY DEF DaysBeforeYear, Day1
  <1>2. y \in Int /\ DaysBefore(y, m) \in Nat /\ DaysInMonth(y, m) \in 28..31 /\ k \in Nat \ {0}
    BY MonthsFollow DEF Day1
  <1>3. day = DaysBeforeYear(y) + rest
    BY <1>1, <1>2 DEF Ordinal
  <1>4. day \in Day1
    BY <1>1, <1>2, <1>3 DEF Day1
  <1>5. rest <= YearLength(y)
    <2>1. CASE m = 12
      BY <2>1, <1>2, MonthsFollow
    <2>2. CASE m # 12
      <3>1. DaysBefore(y, m) + DaysInMonth(y, m) <= DaysBefore(y, 12)
        BY <2>2, <1>2, MonthsGrow DEF Months
      <3>2. DaysBefore(y, 12) + DaysInMonth(y, 12) = YearLength(y) /\ DaysInMonth(y, 12) \in 28..31
            /\ DaysBefore(y, 12) \in Nat
        BY <1>2, MonthsFollow, TwelveMonths
      <3>3. QED
        BY <3>1, <3>2, <1>2
    <2>3. QED
      BY <2>1, <2>2
  <1>6. Year(day) = y
    <2>1. day <= DaysBeforeYear(y + 1) /\ DaysBeforeYear(y) < day
      BY <1>1, <1>2, <1>3, <1>5, YearsFollow DEF YearLength
    <2>2. QED
      BY <2>1, <1>2, <1>4, YearIs
  <1>7. \A j \in Months : (DaysBefore(y, j) < rest /\ rest <= DaysBefore(y, j) + DaysInMonth(y, j)) <=> j = m
    <2> TAKE j \in Months
    <2>1. DaysBefore(y, j) \in Nat /\ DaysInMonth(y, j) \in 28..31
      BY <1>2, MonthsFollow
    <2>2. j < m => DaysBefore(y, j) + DaysInMonth(y, j) <= DaysBefore(y, m)
      BY <1>2, MonthsGrow
    <2>3. m < j => DaysBefore(y, m) + DaysInMonth(y, m) <= DaysBefore(y, j)
      BY <1>2, MonthsGrow
    <2>4. QED
      BY <2>1, <2>2, <2>3, <1>2 DEF Months
  <1>8. MonthOf(y, rest) = m
    <2> HIDE DEF rest
    <2>1. MonthOf(y, rest) = CHOOSE j \in Months : DaysBefore(y, j) < rest /\ rest <= DaysBefore(y, j) + DaysInMonth(y, j)
      BY DEF MonthOf, Months
    <2>2. QED
      BY <2>1, <1>7
  <1>9. day - DaysBeforeYear(y) = rest
    BY <1>1, <1>2, <1>3
  <1> HIDE DEF day, rest
  <1>10. Month(day) = m
    BY <1>6, <1>8, <1>9 DEF Month
  <1>11. QED
    BY <1>4, <1>6, <1>10 DEF day

\* Every day is one.
LEMMA DayHas ==
  ASSUME NEW day \in Day1
  PROVE  /\ Year(day) \in Day1 /\ Month(day) \in Months
         /\ \E k \in 1..DaysInMonth(Year(day), Month(day)) : day = Ordinal(Year(day), Month(day), k)
  <1> DEFINE y == Year(day)
             rest == day - DaysBeforeYear(y)
             S == {m \in Months : DaysBefore(y, m) < rest}
  <1>1. y \in Day1 /\ y \in Int /\ DaysBeforeYear(y) < day /\ day <= DaysBeforeYear(y + 1)
    BY YearHolds DEF Day1
  <1>2. rest \in Nat \ {0} /\ rest <= YearLength(y) /\ DaysBeforeYear(y) \in Int
    <2>1. DaysBeforeYear(y) \in Int /\ YearLength(y) \in {365, 366} /\ day \in Int
      BY <1>1, YearsType DEF Day1
    <2>2. DaysBeforeYear(y + 1) = DaysBeforeYear(y) + YearLength(y)
      BY <1>1, YearsFollow
    <2>3. QED
      BY <1>1, <2>1, <2>2
  <1> HIDE DEF y, rest
  <1>3. 1 \in S /\ S \in SUBSET (0..12)
    <2>1. 1 \in Months /\ Months \subseteq 0..12
      BY DEF Months
    <2>2. DaysBefore(y, 1) = 0
      BY <2>1, <1>1, MonthsFollow
    <2>3. DaysBefore(y, 1) < rest
      BY <2>2, <1>2
    <2>4. QED
      BY <2>1, <2>3
  <1>4. PICK m \in S : \A j \in S : m >= j
    <2> HIDE DEF S
    <2>1. QED
      BY <1>3, GreatestOne, 12 \in Nat
  <1>5. DaysBefore(y, m) \in Nat /\ DaysInMonth(y, m) \in 28..31
    BY <1>1, MonthsFollow
  <1>6. rest <= DaysBefore(y, m) + DaysInMonth(y, m)
    <2>1. CASE m = 12
      BY <2>1, <1>1, <1>2, MonthsFollow
    <2>2. CASE m # 12
      <3>1. m + 1 \in Months /\ m + 1 \notin S /\ m < 12
        BY <2>2, <1>4 DEF Months
      <3>2. ~(DaysBefore(y, m + 1) < rest) /\ DaysBefore(y, m + 1) \in Nat
        BY <3>1, <1>1, MonthsFollow
      <3>3. QED
        BY <3>1, <3>2, <1>1, <1>2, MonthsFollow
    <2>3. QED
      BY <2>1, <2>2
  <1>7. rest - DaysBefore(y, m) \in 1..DaysInMonth(y, m)
    BY <1>2, <1>4, <1>5, <1>6
  <1>8. day = Ordinal(y, m, rest - DaysBefore(y, m))
    BY <1>2, <1>5 DEF Ordinal, rest, Day1
  <1>9. Month(day) = m
    BY <1>1, <1>7, <1>8, DayIs
  <1>10. QED
    BY <1>1, <1>7, <1>8, <1>9 DEF y

-----------------------------------------------------------------------------
(* Periods                                                                 *)

\* The first day of a month, and the month after it.
LEMMA MonthIs ==
  ASSUME NEW y \in Day1, NEW m \in Months
  PROVE  LET first == Ordinal(y, m, 1) IN
         /\ first \in Day1 /\ Year(first) = y /\ Month(first) = m
         /\ m < 12 => first + DaysInMonth(y, m) = Ordinal(y, m + 1, 1)
         /\ m = 12 => first + DaysInMonth(y, m) = Ordinal(y + 1, 1, 1)
         /\ \A k \in 1..DaysInMonth(y, m) : Ordinal(y, m, k) = first + k - 1
         /\ first = DaysBeforeYear(y) + DaysBefore(y, m) + 1
  <1>1. y \in Int /\ y + 1 \in Int /\ 1 \in 1..DaysInMonth(y, m)
    BY MonthsFollow DEF Day1
  <1>2. /\ DaysBeforeYear(y) \in Int /\ DaysBeforeYear(y + 1) = DaysBeforeYear(y) + YearLength(y)
        /\ YearLength(y) \in Int /\ DaysBefore(y, m) \in Int /\ DaysInMonth(y, m) \in Int
    BY <1>1, YearsType, YearsFollow, MonthsFollow
  <1>3. m < 12 => DaysBefore(y, m) + DaysInMonth(y, m) = DaysBefore(y, m + 1)
    BY <1>1, MonthsFollow
  <1>4. m = 12 => DaysBefore(y, m) + DaysInMonth(y, m) = YearLength(y) /\ DaysBefore(y + 1, 1) = 0
    BY <1>1, MonthsFollow, TwelveMonths
  <1>5. Ordinal(y, m, 1) = DaysBeforeYear(y) + DaysBefore(y, m) + 1
    BY DEF Ordinal
  <1>6. \A k \in 1..DaysInMonth(y, m) : Ordinal(y, m, k) = Ordinal(y, m, 1) + k - 1
    BY <1>2 DEF Ordinal
  <1>7. m < 12 => Ordinal(y, m, 1) + DaysInMonth(y, m) = Ordinal(y, m + 1, 1)
    BY <1>2, <1>3 DEF Ordinal
  <1>8. m = 12 => Ordinal(y, m, 1) + DaysInMonth(y, m) = Ordinal(y + 1, 1, 1)
    BY <1>2, <1>4 DEF Ordinal
  <1>9. Ordinal(y, m, 1) \in Day1 /\ Year(Ordinal(y, m, 1)) = y /\ Month(Ordinal(y, m, 1)) = m
    BY <1>1, DayIs
  <1>10. QED
    BY <1>5, <1>6, <1>7, <1>8, <1>9

\* What a period is: it starts on or before its days, all of them and no others start
\* it, and the next begins the day after its last.
PeriodFine(day, granularity) ==
  LET first  == PeriodStart(day, granularity)
      length == PeriodLength(first, granularity)
  IN /\ first \in Day1 /\ length \in Nat /\ length >= Shortest(granularity)
     /\ first <= day /\ day < first + length
     /\ \A d \in first..(first + length - 1) : PeriodStart(d, granularity) = first
     /\ Advance(first, granularity) = first + length
     /\ PeriodStart(first + length, granularity) = first + length

LEMMA DaysAreFine == ASSUME NEW day \in Day1 PROVE PeriodFine(day, "day")
  BY DEF PeriodFine, PeriodStart, PeriodLength, Advance, Shortest, Day1

LEMMA WeeksAreFine == ASSUME NEW day \in Day1 PROVE PeriodFine(day, "week")
  <1> DEFINE first == day - Weekday(day)
  <1>1. first \in Day1 /\ Weekday(first) = 0 /\ Weekday(first + 7) = 0 /\ first <= day /\ day < first + 7
    BY DEF Weekday, Day1
  <1>2. \A d \in first..(first + 6) : d - Weekday(d) = first
    BY <1>1 DEF Weekday, Day1
  <1>3. /\ PeriodStart(day, "week") = first /\ PeriodLength(first, "week") = 7
        /\ Shortest("week") = 7 /\ Advance(first, "week") = first + 7
        /\ \A d \in Int : PeriodStart(d, "week") = d - Weekday(d)
    BY DEF PeriodStart, PeriodLength, Advance, Shortest
  <1> HIDE DEF first
  <1>4. (first + 7) - Weekday(first + 7) = first + 7 /\ first + 7 - 1 = first + 6 /\ first \in Int
    BY <1>1 DEF Day1
  <1>5. PeriodStart(first + 7, "week") = first + 7
    <2>1. PeriodStart(first + 7, "week") = (first + 7) - Weekday(first + 7)
      BY <1>3, <1>4, first + 7 \in Int
    <2>2. QED
      BY <2>1, <1>4
  <1>6. \A d \in first..(first + 7 - 1) : PeriodStart(d, "week") = first
    BY <1>2, <1>3, <1>4
  <1>7. QED
    BY <1>1, <1>3, <1>5, <1>6 DEF PeriodFine

LEMMA MonthsAreFine == ASSUME NEW day \in Day1 PROVE PeriodFine(day, "month")
  <1> DEFINE y == Year(day)
             m == Month(day)
             first == Ordinal(y, m, 1)
             n == DaysInMonth(y, m)
  <1>1. PICK k \in 1..n : day = Ordinal(y, m, k)
    BY DayHas
  <1>2. y \in Day1 /\ m \in Months /\ m \in 1..12 /\ y \in Int /\ y + 1 \in Day1
    <2>1. y \in Day1 /\ m \in Months
      BY DayHas
    <2>2. QED
      BY <2>1, TwelveMonths DEF Day1
  <1>3. n \in 28..31
    BY <1>2, MonthsFollow
  <1>4. \A d : PeriodStart(d, "month") = Ordinal(Year(d), Month(d), 1)
    BY DEF PeriodStart
  <1>5. \A d : PeriodLength(d, "month") = DaysInMonth(Year(d), Month(d)) /\ Advance(d, "month") = FirstAfter(Year(d), Month(d), 1)
    BY DEF PeriodLength, Advance
  <1> HIDE DEF y, m, n
  <1>6. /\ first \in Day1 /\ Year(first) = y /\ Month(first) = m
        /\ m < 12 => first + n = Ordinal(y, m + 1, 1)
        /\ m = 12 => first + n = Ordinal(y + 1, 1, 1)
        /\ \A j \in 1..n : Ordinal(y, m, j) = first + j - 1
    BY <1>2, MonthIs DEF n
  <1>7. PeriodStart(day, "month") = first
    BY <1>4 DEF y, m
  <1>8. PeriodLength(first, "month") = n /\ Shortest("month") = 28
    BY <1>5, <1>6 DEF n, Shortest
  <1>9. day = first + k - 1
    BY <1>1, <1>6
  <1> HIDE DEF first
  <1>10. \A d \in first..(first + n - 1) : PeriodStart(d, "month") = first
    <2> TAKE d \in first..(first + n - 1)
    <2>1. d - first + 1 \in 1..n /\ first + (d - first + 1) - 1 = d
      BY <1>3, <1>6 DEF Day1
    <2>2. d = Ordinal(y, m, d - first + 1)
      BY <2>1, <1>6
    <2>3. Year(d) = y /\ Month(d) = m
      BY <2>1, <2>2, <1>2, DayIs DEF n
    <2>4. QED
      BY <2>3, <1>4 DEF first
  <1>11. Advance(first, "month") = first + n /\ PeriodStart(first + n, "month") = first + n
    <2>1. Advance(first, "month") = FirstAfter(y, m, 1)
      BY <1>5, <1>6
    <2>2. CASE m < 12
      <3>1. (m + 1 - 1) \div 12 = 0 /\ (m + 1 - 1) % 12 = m
        BY <2>2, <1>2
      <3>2. FirstAfter(y, m, 1) = Ordinal(y + 0, m + 1, 1) /\ y + 0 = y
        BY <3>1, <1>2 DEF FirstAfter
      <3>3. m + 1 \in Months
        BY <2>2, <1>2, TwelveMonths
      <3>4. Year(first + n) = y /\ Month(first + n) = m + 1
        BY <3>3, <2>2, <1>2, <1>6, MonthIs
      <3>5. QED
        BY <2>1, <2>2, <3>2, <3>4, <1>4, <1>6
    <2>3. CASE m = 12
      <3>1. (m + 1 - 1) \div 12 = 1 /\ ((m + 1 - 1) % 12) + 1 = 1
        BY <2>3
      <3>2. FirstAfter(y, m, 1) = Ordinal(y + 1, 1, 1)
        BY <3>1, <1>2 DEF FirstAfter
      <3>4. Year(first + n) = y + 1 /\ Month(first + n) = 1
        BY <2>3, <1>2, <1>6, MonthIs, TwelveMonths
      <3>5. QED
        BY <2>1, <2>3, <3>2, <3>4, <1>4, <1>6
    <2>4. QED
      BY <2>2, <2>3, <1>2
  <1>12. first <= day /\ day < first + n
    BY <1>3, <1>6, <1>9 DEF Day1
  <1>13. QED
    BY <1>3, <1>6, <1>7, <1>8, <1>10, <1>11, <1>12 DEF PeriodFine

LEMMA YearsAreFine == ASSUME NEW day \in Day1 PROVE PeriodFine(day, "year")
  <1> DEFINE y == Year(day)
             first == Ordinal(y, 1, 1)
             n == YearLength(y)
  <1>1. y \in Day1 /\ y \in Int /\ y + 1 \in Day1 /\ y + 1 \in Int
    BY DayHas DEF Day1
  <1>2. /\ DaysBeforeYear(y) < day /\ day <= DaysBeforeYear(y + 1) /\ DaysBeforeYear(y) \in Int
        /\ DaysBeforeYear(y + 1) = DaysBeforeYear(y) + n /\ n \in {365, 366}
    BY <1>1, YearHolds, YearsType, YearsFollow
  <1>3. \A d : /\ PeriodStart(d, "year") = Ordinal(Year(d), 1, 1)
               /\ PeriodLength(d, "year") = YearLength(Year(d))
               /\ Advance(d, "year") = Ordinal(Year(d) + 1, 1, 1)
    BY DEF PeriodStart, PeriodLength, Advance, YearLength
  <1> HIDE DEF y, n
  <1>4. first \in Day1 /\ Year(first) = y /\ first = DaysBeforeYear(y) + 1
    <2>1. DaysBefore(y, 1) = 0
      BY <1>1, MonthsFollow, TwelveMonths
    <2>2. QED
      BY <2>1, <1>1, <1>2, MonthIs, TwelveMonths
  <1>5. Ordinal(y + 1, 1, 1) = first + n /\ Year(first + n) = y + 1
    <2>1. DaysBefore(y + 1, 1) = 0
      BY <1>1, MonthsFollow, TwelveMonths
    <2>2. /\ Ordinal(y + 1, 1, 1) = DaysBeforeYear(y + 1) + 0 + 1
          /\ Year(Ordinal(y + 1, 1, 1)) = y + 1
      BY <2>1, <1>1, MonthIs, TwelveMonths
    <2>3. QED
      BY <2>2, <1>2, <1>4
  <1>6. PeriodStart(day, "year") = first /\ PeriodLength(first, "year") = n /\ Shortest("year") = 365
    BY <1>3, <1>4 DEF y, n, Shortest
  <1>7. Advance(first, "year") = first + n /\ PeriodStart(first + n, "year") = first + n
    BY <1>3, <1>4, <1>5
  <1> HIDE DEF first
  <1>8. \A d \in first..(first + n - 1) : PeriodStart(d, "year") = first
    <2> TAKE d \in first..(first + n - 1)
    <2>1. d \in Day1 /\ DaysBeforeYear(y) < d /\ d <= DaysBeforeYear(y + 1)
      BY <1>2, <1>4 DEF Day1
    <2>2. Year(d) = y
      BY <2>1, <1>1, YearIs
    <2>3. QED
      BY <2>2, <1>3 DEF first
  <1>9. first <= day /\ day < first + n
    BY <1>2, <1>4 DEF Day1
  <1>10. QED
    BY <1>2, <1>4, <1>6, <1>7, <1>8, <1>9 DEF PeriodFine

LEMMA QuartersAreFine == ASSUME NEW day \in Day1 PROVE PeriodFine(day, "quarter")
  <1> DEFINE y == Year(day)
             Quarter(m) == ((m - 1) \div 3) * 3 + 1
             q == Quarter(Month(day))
             first == Ordinal(y, q, 1)
             n == DaysInMonth(y, q) + DaysInMonth(y, q + 1) + DaysInMonth(y, q + 2)
  <1>1. PICK k \in 1..DaysInMonth(y, Month(day)) : day = Ordinal(y, Month(day), k)
    BY DayHas
  <1>2. y \in Day1 /\ y \in Int /\ y + 1 \in Day1 /\ y + 1 \in Int /\ Month(day) \in Months
    BY DayHas DEF Day1
  <1>3. \A m \in Months : /\ Quarter(m) \in {1, 4, 7, 10} /\ m \in Quarter(m)..(Quarter(m) + 2)
                          /\ \A j \in Months : j \in Quarter(m)..(Quarter(m) + 2) => Quarter(j) = Quarter(m)
    BY DEF Months
  <1>4. q \in {1, 4, 7, 10} /\ Month(day) \in q..(q + 2) /\ q \in Months /\ q + 1 \in Months /\ q + 2 \in Months
    <2>1. q \in {1, 4, 7, 10} /\ Month(day) \in q..(q + 2)
      BY <1>2, <1>3
    <2> HIDE DEF q
    <2>2. QED
      BY <2>1 DEF Months
  <1>5. \A m \in Months : m \in q..(q + 2) => Quarter(m) = q
    BY <1>2, <1>3
  <1>6. \A d : PeriodStart(d, "quarter") = Ordinal(Year(d), Quarter(Month(d)), 1)
    BY DEF PeriodStart
  <1>7. \A d : /\ PeriodLength(d, "quarter")
                    = DaysInMonth(Year(d), Month(d)) + DaysInMonth(Year(d), Month(d) + 1) + DaysInMonth(Year(d), Month(d) + 2)
               /\ Advance(d, "quarter") = FirstAfter(Year(d), Month(d), 3)
    BY DEF PeriodLength, Advance
  <1>8. PeriodStart(day, "quarter") = first
    BY <1>6
  <1> HIDE DEF y, q, Quarter
  <1>9. first \in Day1 /\ Year(first) = y /\ Month(first) = q /\ first = DaysBeforeYear(y) + DaysBefore(y, q) + 1
    BY <1>2, <1>4, MonthIs
  <1>10. /\ DaysInMonth(y, q) \in 28..31 /\ DaysInMonth(y, q + 1) \in 28..31 /\ DaysInMonth(y, q + 2) \in 28..31
         /\ DaysBefore(y, q) \in Nat /\ DaysBefore(y, q + 1) = DaysBefore(y, q) + DaysInMonth(y, q)
         /\ DaysBefore(y, q + 2) = DaysBefore(y, q + 1) + DaysInMonth(y, q + 1)
    <2>1. q < 12 /\ q + 1 < 12 /\ q + 1 + 1 = q + 2
      BY <1>4
    <2>2. /\ DaysBefore(y, q) + DaysInMonth(y, q) = DaysBefore(y, q + 1)
          /\ DaysBefore(y, q + 1) + DaysInMonth(y, q + 1) = DaysBefore(y, q + 1 + 1)
      BY <2>1, <1>2, <1>4, MonthsFollow
    <2>3. QED
      BY <2>1, <2>2, <1>2, <1>4, MonthsFollow
  <1>11. n >= 90 /\ n \in Nat
    <2>1. n \in Nat
      BY <1>10
    <2>2. DaysInMonth(y, q) + DaysInMonth(y, q + 1) + DaysInMonth(y, q + 2) >= 90
      <3>1. \A m : DaysInMonth(y, m) >= IF m = 2 THEN 28 ELSE 30
        BY DEF DaysInMonth
      <3>2. DaysInMonth(y, q) >= (IF q = 2 THEN 28 ELSE 30) /\ DaysInMonth(y, q + 1) >= (IF q + 1 = 2 THEN 28 ELSE 30)
             /\ DaysInMonth(y, q + 2) >= (IF q + 2 = 2 THEN 28 ELSE 30)
        BY <3>1
      <3>3. q = 1 => DaysInMonth(y, q) = 31 /\ DaysInMonth(y, q + 2) = 31
        BY DEF DaysInMonth
      <3>4. QED
        BY <3>2, <3>3, <1>4, <1>10
    <2>3. QED
      BY <2>1, <2>2
  <1>12. PeriodLength(first, "quarter") = n /\ Shortest("quarter") = 90
    BY <1>7, <1>9 DEF Shortest
  <1>13. Advance(first, "quarter") = first + n /\ PeriodStart(first + n, "quarter") = first + n
    <2>1. Advance(first, "quarter") = FirstAfter(y, q, 3)
      BY <1>7, <1>9
    <2>2. CASE q # 10
      <3>1. (q + 3 - 1) \div 12 = 0 /\ ((q + 3 - 1) % 12) + 1 = q + 3 /\ q + 3 \in Months /\ q + 2 < 12 /\ q + 2 + 1 = q + 3
        BY <2>2, <1>4 DEF Months
      <3>2. FirstAfter(y, q, 3) = Ordinal(y, q + 3, 1)
        BY <3>1, <1>2 DEF FirstAfter
      <3>3. DaysBefore(y, q + 3) = DaysBefore(y, q + 2) + DaysInMonth(y, q + 2)
        BY <3>1, <1>2, <1>4, MonthsFollow
      <3>4. Ordinal(y, q + 3, 1) = DaysBeforeYear(y) + DaysBefore(y, q + 3) + 1
            /\ Year(Ordinal(y, q + 3, 1)) = y /\ Month(Ordinal(y, q + 3, 1)) = q + 3
        BY <3>1, <1>2, MonthIs
      <3>5. Ordinal(y, q + 3, 1) = first + n
        <4>1. DaysBeforeYear(y) \in Int
          BY <1>2, YearsType
        <4>2. QED
          BY <4>1, <3>3, <3>4, <1>9, <1>10
      <3>6. Quarter(q + 3) = q + 3
        BY <2>2, <1>4 DEF Quarter
      <3>7. QED
        BY <2>1, <3>2, <3>4, <3>5, <3>6, <1>6
    <2>3. CASE q = 10
      <3>1. (q + 3 - 1) \div 12 = 1 /\ ((q + 3 - 1) % 12) + 1 = 1 /\ q + 2 = 12
        BY <2>3
      <3>2. FirstAfter(y, q, 3) = Ordinal(y + 1, 1, 1)
        BY <3>1, <1>2 DEF FirstAfter
      <3>3. YearLength(y) = DaysBefore(y, q + 2) + DaysInMonth(y, q + 2) /\ DaysBefore(y + 1, 1) = 0
        BY <3>1, <1>2, <1>4, MonthsFollow, TwelveMonths
      <3>4. Ordinal(y + 1, 1, 1) = DaysBeforeYear(y + 1) + DaysBefore(y + 1, 1) + 1
            /\ Year(Ordinal(y + 1, 1, 1)) = y + 1 /\ Month(Ordinal(y + 1, 1, 1)) = 1
        BY <1>2, MonthIs, TwelveMonths
      <3>5. Ordinal(y + 1, 1, 1) = first + n
        <4>1. DaysBeforeYear(y) \in Int /\ DaysBeforeYear(y + 1) = DaysBeforeYear(y) + YearLength(y)
          BY <1>2, YearsType, YearsFollow
        <4>2. QED
          BY <4>1, <3>3, <3>4, <1>9, <1>10
      <3>6. Quarter(1) = 1
        BY DEF Quarter
      <3>7. QED
        BY <2>1, <3>2, <3>4, <3>5, <3>6, <1>6
    <2>4. QED
      BY <2>2, <2>3
  <1>14. first <= day /\ day < first + n
    <2> DEFINE m == Month(day)
    <2>1. day = DaysBeforeYear(y) + DaysBefore(y, m) + k /\ DaysBeforeYear(y) \in Int
      BY <1>1, <1>2, YearsType DEF Ordinal
    <2>2. m = q \/ m = q + 1 \/ m = q + 2
      BY <1>4
    <2> HIDE DEF m
    <2>3. k \in 1..DaysInMonth(y, m)
      BY DEF m
    <2>4. QED
      BY <2>1, <2>2, <2>3, <1>9, <1>10
  <1>15. \A d \in first..(first + n - 1) : PeriodStart(d, "quarter") = first
    <2> TAKE d \in first..(first + n - 1)
    <2>1. PICK m \in q..(q + 2) : \E j \in 1..DaysInMonth(y, m) : d = Ordinal(y, m, j)
      <3>1. DaysBeforeYear(y) \in Int
        BY <1>2, YearsType
      <3> DEFINE rest == d - DaysBeforeYear(y)
      <3>2. rest \in Int /\ d = DaysBeforeYear(y) + rest /\ rest >= DaysBefore(y, q) + 1 /\ rest <= DaysBefore(y, q) + n
        BY <3>1, <1>9, <1>10 DEF Day1
      <3> HIDE DEF rest
      <3>3. ASSUME NEW m \in q..(q + 2), m \in Months, rest > DaysBefore(y, m), rest <= DaysBefore(y, m) + DaysInMonth(y, m)
            PROVE  \E j \in 1..DaysInMonth(y, m) : d = Ordinal(y, m, j)
        <4>1. DaysBefore(y, m) \in Nat /\ DaysInMonth(y, m) \in 28..31
          BY <3>3, <1>2, MonthsFollow
        <4>2. rest - DaysBefore(y, m) \in 1..DaysInMonth(y, m)
          BY <4>1, <3>2, <3>3
        <4>3. d = Ordinal(y, m, rest - DaysBefore(y, m))
          BY <4>1, <3>1, <3>2 DEF Ordinal
        <4>4. QED
          BY <4>2, <4>3
      <3>4. q \in q..(q + 2) /\ q + 1 \in q..(q + 2) /\ q + 2 \in q..(q + 2)
        BY <1>4
      <3>5. CASE rest <= DaysBefore(y, q) + DaysInMonth(y, q)
        <4>1. rest > DaysBefore(y, q)
          BY <3>2, <1>10
        <4>2. QED
          BY <3>3, <3>4, <3>5, <4>1, <1>4
      <3>6. CASE rest > DaysBefore(y, q + 1) /\ rest <= DaysBefore(y, q + 1) + DaysInMonth(y, q + 1)
        BY <3>3, <3>4, <3>6, <1>4
      <3>7. CASE rest > DaysBefore(y, q + 2)
        <4>1. rest <= DaysBefore(y, q + 2) + DaysInMonth(y, q + 2)
          BY <3>2, <1>10
        <4>2. QED
          BY <3>3, <3>4, <3>7, <4>1, <1>4
      <3>8. QED
        BY <3>2, <3>5, <3>6, <3>7, <1>10
    <2>2. m \in Months
      BY <1>4 DEF Months
    <2>3. Year(d) = y /\ Month(d) = m
      BY <2>1, <2>2, <1>2, DayIs
    <2>4. QED
      BY <2>2, <2>3, <1>5, <1>6
  <1> HIDE DEF first, n
  <1>16. QED
    BY <1>8, <1>9, <1>11, <1>12, <1>13, <1>14, <1>15 DEF PeriodFine

LEMMA PeriodsAreFine ==
  ASSUME NEW day \in Day1, NEW granularity \in Granularities
  PROVE  PeriodFine(day, granularity)
  BY DaysAreFine, WeeksAreFine, MonthsAreFine, QuartersAreFine, YearsAreFine DEF Granularities

-----------------------------------------------------------------------------
(* The walk                                                                *)

LEMMA StepsAreFine ==
  ASSUME NEW first \in Day1, NEW granularity \in Granularities, PeriodStart(first, granularity) = first
  PROVE  LET next == Advance(first, granularity) IN
         /\ next \in Day1 /\ PeriodStart(next, granularity) = next
         /\ next = PeriodEnd(first, granularity) + 1
         /\ PeriodEnd(first, granularity) \in Int
         /\ next >= first + Shortest(granularity)
         /\ \A d \in first..PeriodEnd(first, granularity) : PeriodStart(d, granularity) = first
  <1> DEFINE length == PeriodLength(first, granularity)
             next == Advance(first, granularity)
             end == PeriodEnd(first, granularity)
  <1>1. /\ first \in Day1 /\ length \in Nat /\ length >= Shortest(granularity)
        /\ \A d \in first..(first + length - 1) : PeriodStart(d, granularity) = first
        /\ next = first + length
        /\ PeriodStart(first + length, granularity) = first + length
        /\ first < first + length
    BY PeriodsAreFine DEF PeriodFine
  <1>2. end = first + length - 1
    BY DEF PeriodEnd
  <1>3. Shortest(granularity) \in Nat
    BY DEF Shortest, Granularities
  <1> HIDE DEF length, next, end
  <1>4. next \in Day1 /\ next = end + 1 /\ end \in Int /\ next >= first + Shortest(granularity)
    BY <1>1, <1>2, <1>3 DEF Day1
  <1>5. PeriodStart(next, granularity) = next
    BY <1>1
  <1>6. \A d \in first..end : PeriodStart(d, granularity) = first
    BY <1>1, <1>2
  <1>7. QED
    BY <1>4, <1>5, <1>6 DEF next, end

\* The walk starts at the period that holds the window's first day, and each of its
\* steps is the next period.
LEMMA WalkIs ==
  ASSUME NEW start \in Day1, NEW granularity \in Granularities, NEW most \in Nat \ {0}
  PROVE  LET walk == Walk(start, granularity, most) IN
         /\ \A k \in 1..most : walk[k] \in Day1 /\ PeriodStart(walk[k], granularity) = walk[k]
         /\ walk[1] = PeriodStart(start, granularity)
         /\ \A k \in 2..most : walk[k] = Advance(walk[k - 1], granularity)
  <1> DEFINE Begins == {day \in Day1 : PeriodStart(day, granularity) = day}
             first == PeriodStart(start, granularity)
             n == most - 1
             G == [x \in (1..n) \X Begins |-> Advance(x[2], granularity)]
  <1>1. first \in Begins
    <2>1. first \in Day1 /\ first <= start
      BY PeriodsAreFine DEF PeriodFine
    <2>2. PeriodStart(first, granularity) = first
      BY PeriodsAreFine DEF PeriodFine, Day1
    <2>3. QED
      BY <2>1, <2>2
  <1>2. \A day \in Begins : Advance(day, granularity) \in Begins
    BY StepsAreFine
  <1>3. n \in Nat
    OBVIOUS
  <1> HIDE DEF Begins, n, first
  <1>4. G \in Steps(n, Begins) /\ \A k \in 1..n, day \in Begins : G[<<k, day>>] = Advance(day, granularity)
    BY <1>2 DEF Steps
  <1> HIDE DEF G
  <1>5. PICK f : Follows(f, n, Begins, first, G)
    BY <1>1, <1>3, <1>4, Recursion
  <1> DEFINE Body(t) == [k \in 1..most |-> IF k = 1 THEN first
                           ELSE CHOOSE next \in {Advance(last, granularity) : last \in {t[k - 1]}} : TRUE]
             g == [k \in 1..most |-> f[k - 1]]
  <1>6. \A day : (CHOOSE next \in {Advance(last, granularity) : last \in {day}} : TRUE) = Advance(day, granularity)
    OBVIOUS
  <1>7. g = Body(g)
    <2>1. ASSUME NEW k \in 1..most, k # 1 PROVE g[k] = Advance(g[k - 1], granularity)
      <3>1. k - 1 \in 1..n /\ k - 1 \in 1..most /\ k - 1 - 1 \in 0..n
        BY <2>1 DEF n
      <3>2. f[k - 1] = G[<<k - 1, f[k - 1 - 1]>>] /\ f[k - 1 - 1] \in Begins
        BY <3>1, <1>5 DEF Follows
      <3>3. QED
        BY <3>1, <3>2, <1>4
    <2>2. g[1] = first
      BY <1>5 DEF Follows
    <2> HIDE DEF g
    <2>3. \A k \in 1..most : g[k] = Body(g)[k]
      BY <2>1, <2>2, <1>6
    <2>4. g = [k \in 1..most |-> g[k]]
      BY DEF g
    <2>5. QED
      BY <2>3, <2>4
  <1>8. Walk(start, granularity, most) = CHOOSE t : t = Body(t)
    BY DEF Walk, first
  <1> DEFINE walk == Walk(start, granularity, most)
  <1> HIDE DEF Body
  <1>9. walk = Body(walk)
    BY <1>7, <1>8
  <1> HIDE DEF walk
  <1>10. walk[1] = first /\ \A k \in 2..most : walk[k] = Advance(walk[k - 1], granularity)
    BY <1>9, <1>6 DEF Body
  <1> DEFINE S == {k \in 0..n : walk[k + 1] \in Begins}
  <1>11. 0 \in S
    BY <1>1, <1>3, <1>10
  <1>12. \A k \in 0..(n - 1) : k \in S => k + 1 \in S
    <2> SUFFICES ASSUME NEW k \in 0..(n - 1), k \in S PROVE k + 1 \in S
      OBVIOUS
    <2>1. k + 1 + 1 \in 2..most /\ k + 1 + 1 - 1 = k + 1 /\ k + 1 \in 0..n
      BY <1>3 DEF n
    <2>2. QED
      BY <2>1, <1>2, <1>10
  <1>13. \A k \in 0..n : k \in S
    <2> HIDE DEF S
    <2>1. QED
      BY <1>3, <1>11, <1>12, UpTo
  <1>14. \A k \in 1..most : walk[k] \in Begins
    <2> TAKE k \in 1..most
    <2>1. k - 1 \in 0..n /\ k - 1 + 1 = k
      BY DEF n
    <2>2. QED
      BY <2>1, <1>13
  <1>15. QED
    BY <1>10, <1>14 DEF walk, first, Begins

LEMMA ShortestIs ==
  /\ Shortest("day") = 1 /\ Shortest("week") = 7 /\ Shortest("month") = 28
  /\ Shortest("quarter") = 90 /\ Shortest("year") = 365
  BY DEF Shortest

LEMMA Strides ==
  \A stride \in {1, 7, 28, 90, 365} : \A a, b \in Int :
    /\ (a + 1) * stride = a * stride + stride /\ a * stride \in Int
    /\ b - a < ((b - a) \div stride + 1) * stride
    /\ a >= 0 => a \div stride \in Nat
  OBVIOUS

\* It leaves each period for the next before it can be past the window's last day, and
\* stops at the one that holds it.
LEMMA CursorsAre ==
  ASSUME NEW start \in Day1, NEW end \in Int, start <= end, NEW granularity \in Granularities
  PROVE  LET walk == Cursors(start, end, granularity) IN
         \E n \in Nat \ {0} :
           /\ walk = [k \in 1..n |-> walk[k]]
           /\ n <= (end - start) \div Shortest(granularity) + 2
           /\ walk[1] = PeriodStart(start, granularity)
           /\ \A k \in 1..n : walk[k] \in Day1 /\ PeriodStart(walk[k], granularity) = walk[k] /\ walk[k] <= end
           /\ \A k \in 2..n : walk[k] = PeriodEnd(walk[k - 1], granularity) + 1 /\ walk[k] > start
           /\ PeriodEnd(walk[n], granularity) >= end
  <1> DEFINE stride == Shortest(granularity)
             most == (end - start) \div stride + 2
             walk == Walk(start, granularity, most)
             S == {i \in 1..most : walk[i] <= end}
  <1>1. stride \in {1, 7, 28, 90, 365} /\ stride \in Nat
    BY DEF Shortest, Granularities
  <1>2. start \in Int /\ end \in Int /\ end - start \in Int /\ end - start >= 0
    BY DEF Day1
  <1> HIDE DEF stride
  <1>3. most \in Nat /\ most >= 2
    <2>1. (end - start) \div stride \in Nat
      BY <1>1, <1>2, Strides
    <2>2. QED
      BY <2>1
  <1>4. end - start < (most - 1) * stride
    <2>1. end - start < ((end - start) \div stride + 1) * stride
      BY <1>1, <1>2, Strides
    <2>2. (end - start) \div stride + 1 = most - 1
      BY <1>1, <1>2
    <2>3. QED
      BY <2>1, <2>2
  <1> HIDE DEF most
  <1>5. /\ \A k \in 1..most : walk[k] \in Day1 /\ PeriodStart(walk[k], granularity) = walk[k]
        /\ walk[1] = PeriodStart(start, granularity)
        /\ \A k \in 2..most : walk[k] = Advance(walk[k - 1], granularity)
    BY <1>3, WalkIs
  <1> HIDE DEF walk
  <1>6. \A k \in 1..most :
          /\ Advance(walk[k], granularity) = PeriodEnd(walk[k], granularity) + 1
          /\ PeriodEnd(walk[k], granularity) \in Int
          /\ Advance(walk[k], granularity) >= walk[k] + stride
          /\ Advance(walk[k], granularity) \in Int
    BY <1>5, StepsAreFine DEF Day1, stride
  <1>7. \A k \in 1..most : walk[k] \in Int
    BY <1>5 DEF Day1
  <1>8. walk[1] <= start /\ PeriodEnd(walk[1], granularity) >= start
    <2> DEFINE length == PeriodLength(walk[1], granularity)
    <2>1. walk[1] <= start /\ start < walk[1] + length /\ length \in Nat
      BY <1>5, PeriodsAreFine DEF PeriodFine
    <2>2. PeriodEnd(walk[1], granularity) = walk[1] + length - 1
      BY <1>3, <1>5 DEF PeriodEnd
    <2> HIDE DEF length
    <2>3. walk[1] \in Int
      BY <1>3, <1>7
    <2>4. QED
      BY <2>1, <2>2, <2>3, <1>2
  <1>9. \A k \in 2..most : walk[k] >= start + 1 + (k - 2) * stride
    <2> DEFINE T == {k \in 0..(most - 2) : walk[k + 2] >= start + 1 + k * stride}
    <2>1. 0 \in T
      <3>1. walk[2] = PeriodEnd(walk[1], granularity) + 1
        BY <1>3, <1>5, <1>6
      <3>2. walk[2] >= start + 1 + 0 * stride
        BY <3>1, <1>1, <1>2, <1>3, <1>6, <1>8
      <3>3. QED
        BY <3>2, <1>3
    <2>2. \A k \in 0..(most - 2 - 1) : k \in T => k + 1 \in T
      <3> SUFFICES ASSUME NEW k \in 0..(most - 2 - 1), k \in T PROVE k + 1 \in T
        OBVIOUS
      <3>1. k + 1 + 2 \in 2..most /\ k + 1 + 2 - 1 = k + 2 /\ k + 2 \in 1..most
        BY <1>3
      <3>2. walk[k + 1 + 2] >= walk[k + 2] + stride /\ walk[k + 1 + 2] \in Int /\ walk[k + 2] \in Int
        BY <3>1, <1>5, <1>6, <1>7
      <3>3. (k + 1) * stride = k * stride + stride /\ k * stride \in Int
        BY <1>1, Strides
      <3>4. walk[k + 1 + 2] >= start + 1 + (k + 1) * stride
        BY <3>2, <3>3, <1>1, <1>2
      <3>5. QED
        BY <3>4, <1>3
    <2> HIDE DEF T
    <2>3. \A k \in 0..(most - 2) : k \in T
      BY <2>1, <2>2, <1>3, UpTo
    <2> TAKE k \in 2..most
    <2>4. k - 2 \in 0..(most - 2) /\ k - 2 + 2 = k
      BY <1>3
    <2>5. QED
      BY <2>3, <2>4 DEF T
  <1>10. \A k \in 1..most : \A i \in 1..k : walk[i] <= walk[k]
    <2> DEFINE T == {k \in 0..(most - 1) : \A i \in 1..(k + 1) : walk[i] <= walk[k + 1]}
    <2>1. 0 \in T
      BY <1>3, <1>7
    <2>2. \A k \in 0..(most - 1 - 1) : k \in T => k + 1 \in T
      <3> SUFFICES ASSUME NEW k \in 0..(most - 1 - 1), k \in T PROVE k + 1 \in T
        OBVIOUS
      <3>1. k + 1 + 1 \in 2..most /\ k + 1 + 1 - 1 = k + 1 /\ k + 1 \in 1..most /\ k + 1 + 1 \in 1..most
        BY <1>3
      <3>2. walk[k + 1 + 1] >= walk[k + 1] /\ walk[k + 1 + 1] \in Int /\ walk[k + 1] \in Int
        BY <3>1, <1>1, <1>5, <1>6, <1>7
      <3>3. ASSUME NEW i \in 1..(k + 1 + 1) PROVE walk[i] <= walk[k + 1 + 1]
        <4>1. CASE i = k + 1 + 1
          BY <4>1, <3>2
        <4>2. CASE i \in 1..(k + 1)
          BY <4>2, <3>1, <3>2, <1>3, <1>7
        <4>3. QED
          BY <4>1, <4>2
      <3>4. QED
        BY <3>3, <1>3
    <2> HIDE DEF T
    <2>3. \A k \in 0..(most - 1) : k \in T
      BY <2>1, <2>2, <1>3, UpTo
    <2> TAKE k \in 1..most
    <2>4. k - 1 \in 0..(most - 1) /\ k - 1 + 1 = k
      BY <1>3
    <2>5. QED
      BY <2>3, <2>4 DEF T
  <1>11. 1 \in S /\ S \in SUBSET (0..most)
    BY <1>2, <1>3, <1>7, <1>8
  <1>12. PICK n \in S : \A i \in S : n >= i
    <2> HIDE DEF S
    <2>1. QED
      BY <1>3, <1>11, GreatestOne
  <1>13. S = 1..n /\ n \in 1..most /\ n \in Nat \ {0}
    <2>1. n \in 1..most /\ walk[n] <= end
      BY <1>12
    <2>2. \A i \in 1..n : i \in 1..most /\ walk[i] <= end
      BY <2>1, <1>2, <1>3, <1>7, <1>10
    <2>3. QED
      BY <2>1, <2>2, <1>12, <1>3
  <1>14. Cursors(start, end, granularity) = [k \in S |-> walk[k]]
    BY DEF Cursors, stride, most, walk
  <1> HIDE DEF S
  <1>15. Cursors(start, end, granularity) = [k \in 1..n |-> walk[k]]
    BY <1>13, <1>14
  <1>16. PeriodEnd(walk[n], granularity) >= end
    <2>1. CASE n < most
      <3>1. n + 1 \in 2..most /\ n + 1 \in 1..most /\ n + 1 \notin S /\ n + 1 - 1 = n
        BY <2>1, <1>3, <1>13
      <3>2. ~(walk[n + 1] <= end) /\ walk[n + 1] = PeriodEnd(walk[n], granularity) + 1
        BY <3>1, <1>5, <1>6, <1>13 DEF S
      <3>3. QED
        BY <3>2, <1>2, <1>6, <1>13
    <2>2. CASE n = most
      <3>1. walk[n] >= start + 1 + (n - 2) * stride
        BY <2>2, <1>3, <1>9
      <3>2. (n - 2 + 1) * stride = (n - 2) * stride + stride /\ n - 2 + 1 = n - 1 /\ (n - 2) * stride \in Int
        BY <1>1, <1>13, Strides
      <3>3. PeriodEnd(walk[n], granularity) + 1 >= walk[n] + stride
        BY <1>6, <1>13
      <3>4. end - start < (n - 2) * stride + stride
        BY <2>2, <3>2, <1>4
      <3>5. QED
        BY <3>1, <3>2, <3>3, <3>4, <1>1, <1>2, <1>6, <1>7, <1>13
    <2>3. QED
      BY <2>1, <2>2, <1>3, <1>13
  <1>17. \A k \in 2..n : walk[k] = PeriodEnd(walk[k - 1], granularity) + 1 /\ walk[k] > start
    <2> TAKE k \in 2..n
    <2>1. k \in 2..most /\ k - 1 \in 1..most
      BY <1>3, <1>13
    <2>2. walk[k] = PeriodEnd(walk[k - 1], granularity) + 1
      BY <2>1, <1>5, <1>6
    <2>3. walk[k] > start
      <3>1. walk[2] <= walk[k] /\ walk[2] \in Int /\ walk[k] \in Int
        BY <2>1, <1>3, <1>7, <1>10
      <3>2. walk[2] = PeriodEnd(walk[1], granularity) + 1
        BY <1>3, <1>5, <1>6
      <3>3. QED
        BY <3>1, <3>2, <1>2, <1>3, <1>6, <1>8
    <2>4. QED
      BY <2>2, <2>3
  <1>18. \A k \in 1..n : walk[k] \in Day1 /\ PeriodStart(walk[k], granularity) = walk[k] /\ walk[k] <= end
    BY <1>5, <1>13 DEF S
  <1>19. n <= (end - start) \div Shortest(granularity) + 2
    BY <1>13 DEF most, stride
  <1>20. QED
    <2> DEFINE c == Cursors(start, end, granularity)
    <2>1. c = [k \in 1..n |-> c[k]] /\ \A k \in 1..n : c[k] = walk[k]
      BY <1>15
    <2>2. 1 \in 1..n /\ n \in 1..n /\ \A k \in 2..n : k \in 1..n /\ k - 1 \in 1..n
      BY <1>13
    <2> HIDE DEF c
    <2>3. /\ c[1] = PeriodStart(start, granularity)
          /\ \A k \in 1..n : c[k] \in Day1 /\ PeriodStart(c[k], granularity) = c[k] /\ c[k] <= end
          /\ \A k \in 2..n : c[k] = PeriodEnd(c[k - 1], granularity) + 1 /\ c[k] > start
          /\ PeriodEnd(c[n], granularity) >= end
      BY <2>1, <2>2, <1>5, <1>16, <1>17, <1>18
    <2>4. QED
      BY <2>1, <2>3, <1>13, <1>19 DEF c

-----------------------------------------------------------------------------
(* The buckets                                                             *)

\* The ceilings are tried from the finest on.
LEMMA AutoIs ==
  ASSUME NEW start \in Int, NEW end \in Int
  PROVE  LET span == end - start + 1
             picked == Resolve("auto", start, end)
         IN /\ span <= 45 => picked = "day"
            /\ span \in 46..120 => picked = "week"
            /\ span \in 121..1095 => picked = "month"
            /\ span \in 1096..3650 => picked = "quarter"
            /\ picked \in Granularities
  <1> DEFINE span == end - start + 1
             fit == {i \in 1..4 : span <= AutoCeilings[i].days}
  <1>1. /\ AutoCeilings[1] = [pick |-> "day", days |-> 45]
        /\ AutoCeilings[2] = [pick |-> "week", days |-> 120]
        /\ AutoCeilings[3] = [pick |-> "month", days |-> 1095]
        /\ AutoCeilings[4] = [pick |-> "quarter", days |-> 3650]
    BY DEF AutoCeilings
  <1>2. Resolve("auto", start, end) = IF fit # {} THEN AutoCeilings[Min(fit)].pick ELSE "year"
    BY DEF Resolve
  <1>3. span \in Int /\ 1..4 = {1, 2, 3, 4}
    OBVIOUS
  <1> HIDE DEF span
  <1>4. \A i \in {1, 2, 3, 4} : i \in fit <=> span <= AutoCeilings[i].days
    BY <1>3
  <1>5. fit \subseteq {1, 2, 3, 4}
    BY <1>3
  <1> HIDE DEF fit
  <1>6. /\ 1 \in fit <=> span <= 45
        /\ 2 \in fit <=> span <= 120
        /\ 3 \in fit <=> span <= 1095
        /\ 4 \in fit <=> span <= 3650
    BY <1>1, <1>4
  <1>7. ASSUME NEW i \in fit, \A j \in fit : i <= j PROVE Min(fit) = i
    <2>1. Min(fit) \in fit /\ \A j \in fit : Min(fit) <= j
      BY <1>7 DEF Min
    <2>2. QED
      <3>1. Min(fit) \in {1, 2, 3, 4} /\ i \in {1, 2, 3, 4} /\ Min(fit) <= i /\ i <= Min(fit)
        BY <2>1, <1>5, <1>7
      <3>2. QED
        BY <3>1
  <1>8. span <= 45 => Min(fit) = 1 /\ fit # {}
    BY <1>5, <1>6, <1>7
  <1>9. span \in 46..120 => Min(fit) = 2 /\ fit # {}
    BY <1>5, <1>6, <1>7
  <1>10. span \in 121..1095 => Min(fit) = 3 /\ fit # {}
    BY <1>5, <1>6, <1>7
  <1>11. span \in 1096..3650 => Min(fit) = 4 /\ fit # {}
    BY <1>5, <1>6, <1>7
  <1>12. span > 3650 => fit = {}
    BY <1>3, <1>5, <1>6
  <1> DEFINE picked == Resolve("auto", start, end)
  <1>13. /\ span <= 45 => picked = "day"
         /\ span \in 46..120 => picked = "week"
         /\ span \in 121..1095 => picked = "month"
         /\ span \in 1096..3650 => picked = "quarter"
         /\ span > 3650 => picked = "year"
    BY <1>1, <1>2, <1>8, <1>9, <1>10, <1>11, <1>12
  <1> HIDE DEF picked
  <1>14. picked \in Granularities
    BY <1>3, <1>13 DEF Granularities
  <1>15. QED
    BY <1>13, <1>14 DEF span, picked

LEMMA MaxOfTwo ==
  ASSUME NEW a \in Int, NEW b \in Int
  PROVE  Max({a, b}) = IF a >= b THEN a ELSE b
  <1>1. \E x \in {a, b} : \A y \in {a, b} : x >= y
    OBVIOUS
  <1>2. Max({a, b}) \in {a, b} /\ \A y \in {a, b} : Max({a, b}) >= y
    BY <1>1 DEF Max
  <1>3. QED
    BY <1>2

LEMMA MinOfTwo ==
  ASSUME NEW a \in Int, NEW b \in Int
  PROVE  Min({a, b}) = IF a <= b THEN a ELSE b
  <1>1. \E x \in {a, b} : \A y \in {a, b} : x =< y
    OBVIOUS
  <1>2. Min({a, b}) \in {a, b} /\ \A y \in {a, b} : Min({a, b}) =< y
    BY <1>1 DEF Min
  <1>3. QED
    BY <1>2

\* The buckets of a window, one after the other.
InARow(b, n, start, end, g) ==
  /\ b # <<>> /\ Len(b) = n /\ DOMAIN b = 1..n
  /\ n <= (end - start) \div Shortest(g) + 2
  /\ b[1].start = start /\ b[n].end = end
  /\ \A k \in 1..n : /\ b[k].start \in Int /\ b[k].end \in Int /\ b[k].start <= b[k].end
                     /\ k > 1 => b[k].start = b[k - 1].end + 1
                     /\ PeriodStart(b[k].start, g) = b[k].period /\ PeriodStart(b[k].end, g) = b[k].period

LEMMA BucketsAre ==
  ASSUME NEW start \in Day1, NEW end \in Int, start <= end, NEW g \in Granularities
  PROVE  \E n \in Nat \ {0} : InARow(Buckets(start, end, g), n, start, end, g)
  <1> DEFINE b == Buckets(start, end, g)
  <1>0. start \in Int
    BY DEF Day1
  <1> DEFINE walk == Cursors(start, end, g)
  <1>1. PICK n \in Nat \ {0} :
         /\ walk = [k \in 1..n |-> walk[k]]
         /\ n <= (end - start) \div Shortest(g) + 2
         /\ walk[1] = PeriodStart(start, g)
         /\ \A k \in 1..n : walk[k] \in Day1 /\ PeriodStart(walk[k], g) = walk[k] /\ walk[k] <= end
         /\ \A k \in 2..n : walk[k] = PeriodEnd(walk[k - 1], g) + 1 /\ walk[k] > start
         /\ PeriodEnd(walk[n], g) >= end
    BY CursorsAre
  <1> HIDE DEF walk
  <1>2. b = [k \in 1..n |-> [start |-> Max({walk[k], start}), end |-> Min({PeriodEnd(walk[k], g), end}),
                             period |-> walk[k]]]
    <2>1. b = Clipped(walk, start, end, g)
      BY <1>0 DEF Buckets, walk, Day1
    <2>2. DOMAIN walk = 1..n
      BY <1>1
    <2>3. QED
      BY <2>1, <2>2 DEF Clipped
  <1> HIDE DEF b
  <1>11. /\ \A k \in 1..n : walk[k] <= end
         /\ \A k \in 2..n : walk[k] = PeriodEnd(walk[k - 1], g) + 1 /\ walk[k] > start
    BY <1>1
  <1>3. b # <<>> /\ Len(b) = n /\ DOMAIN b = 1..n
    BY <1>2
  <1>4. \A k \in 1..n : walk[k] \in Int /\ PeriodEnd(walk[k], g) \in Int /\ walk[k] <= PeriodEnd(walk[k], g)
                        /\ \A d \in walk[k]..PeriodEnd(walk[k], g) : PeriodStart(d, g) = walk[k]
    <2> TAKE k \in 1..n
    <2>1. walk[k] \in Day1 /\ PeriodStart(walk[k], g) = walk[k]
      BY <1>1
    <2>2. /\ Advance(walk[k], g) = PeriodEnd(walk[k], g) + 1 /\ PeriodEnd(walk[k], g) \in Int
          /\ Advance(walk[k], g) >= walk[k] + Shortest(g)
          /\ \A d \in walk[k]..PeriodEnd(walk[k], g) : PeriodStart(d, g) = walk[k]
      BY <2>1, StepsAreFine
    <2>3. Shortest(g) \in {1, 7, 28, 90, 365}
      BY DEF Shortest, Granularities
    <2>4. QED
      BY <2>1, <2>2, <2>3 DEF Day1
  <1>5. walk[1] <= start /\ start <= PeriodEnd(walk[1], g)
    <2> DEFINE length == PeriodLength(walk[1], g)
    <2>1. walk[1] <= start /\ start < walk[1] + length /\ length \in Nat
      BY <1>0, <1>1, PeriodsAreFine DEF PeriodFine
    <2>2. PeriodEnd(walk[1], g) = walk[1] + length - 1
      BY <1>1 DEF PeriodEnd
    <2> HIDE DEF length
    <2>3. QED
      BY <2>1, <2>2, <1>0, <1>4
  <1>6. \A k \in 1..n : /\ b[k].start = IF k = 1 THEN start ELSE walk[k]
                        /\ b[k].end = IF k = n THEN end ELSE PeriodEnd(walk[k], g)
                        /\ b[k].period = walk[k]
    <2> TAKE k \in 1..n
    <2>1. b[k].start = Max({walk[k], start}) /\ b[k].end = Min({PeriodEnd(walk[k], g), end}) /\ b[k].period = walk[k]
      BY <1>2
    <2>2. Max({walk[k], start}) = IF k = 1 THEN start ELSE walk[k]
      <3>1. Max({walk[k], start}) = IF walk[k] >= start THEN walk[k] ELSE start
        BY <1>0, <1>4, MaxOfTwo
      <3>2. k # 1 => walk[k] > start
        BY <1>11
      <3>3. QED
        BY <3>1, <3>2, <1>4, <1>5, <1>0
    <2>3. Min({PeriodEnd(walk[k], g), end}) = IF k = n THEN end ELSE PeriodEnd(walk[k], g)
      <3>1. Min({PeriodEnd(walk[k], g), end}) = IF PeriodEnd(walk[k], g) <= end THEN PeriodEnd(walk[k], g) ELSE end
        BY <1>4, MinOfTwo
      <3>2. k # n => PeriodEnd(walk[k], g) <= end
        <4>1. SUFFICES ASSUME k # n PROVE PeriodEnd(walk[k], g) <= end
          OBVIOUS
        <4>2. k + 1 \in 2..n /\ k + 1 - 1 = k /\ k + 1 \in 1..n
          BY <4>1
        <4>3. walk[k + 1] = PeriodEnd(walk[k], g) + 1 /\ walk[k + 1] <= end
          BY <4>2, <1>11
        <4>4. QED
          BY <4>3, <1>4
      <3>3. QED
        BY <3>1, <3>2, <1>1, <1>4
    <2>4. QED
      BY <2>1, <2>2, <2>3
  <1>7. b[1].start = start /\ b[n].end = end
    BY <1>6
  <1>8. ASSUME NEW k \in 1..n
        PROVE  /\ b[k].start <= b[k].end
               /\ k > 1 => b[k].start = b[k - 1].end + 1
               /\ PeriodStart(b[k].start, g) = b[k].period /\ PeriodStart(b[k].end, g) = b[k].period
    <2>1. b[k].start \in walk[k]..PeriodEnd(walk[k], g)
      BY <1>0, <1>4, <1>5, <1>6
    <2>2. b[k].end \in walk[k]..PeriodEnd(walk[k], g)
      BY <1>1, <1>4, <1>6
    <2>3. b[k].start <= b[k].end
      <3>1. CASE k = 1
        BY <3>1, <1>0, <1>4, <1>5, <1>6
      <3>2. CASE k # 1
        BY <3>2, <1>1, <1>4, <1>6
      <3>3. QED
        BY <3>1, <3>2
    <2>4. k > 1 => b[k].start = b[k - 1].end + 1
      <3>1. SUFFICES ASSUME k > 1 PROVE b[k].start = b[k - 1].end + 1
        OBVIOUS
      <3>2. k \in 2..n /\ k - 1 \in 1..n /\ k - 1 # n /\ k # 1
        BY <3>1
      <3>3. b[k].start = walk[k]
        BY <3>2, <1>6
      <3>4. b[k - 1].end = PeriodEnd(walk[k - 1], g)
        BY <3>2, <1>6
      <3>5. walk[k] = PeriodEnd(walk[k - 1], g) + 1
        BY <3>2, <1>1
      <3>6. QED
        BY <3>3, <3>4, <3>5
    <2>5. QED
      BY <2>1, <2>2, <2>3, <2>4, <1>4, <1>6
  <1>9. \A k \in 1..n : b[k].start \in Int /\ b[k].end \in Int
    BY <1>0, <1>4, <1>6
  <1>10. QED
    BY <1>1, <1>3, <1>7, <1>8, <1>9 DEF InARow, b

\* "The buckets partition the window exactly" (services/periods.py), whatever the window
\* and however it is cut: they cover it in order without a gap or an overlap, each within
\* one calendar period, and an "auto" chart has at most fifty up to its last ceiling.
THEOREM EveryWindowIsCut ==
  ASSUME NEW start \in Nat \ {0}, NEW end \in Int, NEW granularity \in Granularities \cup {"auto"}
  PROVE  CutsWithoutRest(start, end, granularity)
  <1> DEFINE g == Resolve(granularity, start, end)
             b == Buckets(start, end, g)
  <1>1. g \in Granularities
    <2>1. CASE granularity = "auto"
      <3>1. start \in Int
        OBVIOUS
      <3>2. QED
        BY <2>1, <3>1, AutoIs
    <2>2. CASE granularity # "auto"
      BY <2>2 DEF Resolve
    <2>3. QED
      BY <2>1, <2>2
  <1>2. start \in Day1 /\ start \in Int
    BY DEF Day1
  <1> HIDE DEF g
  <1>3. CASE end < start
    BY <1>3 DEF CutsWithoutRest, Buckets, g
  <1>4. CASE start <= end
    <2>1. PICK n \in Nat \ {0} : InARow(b, n, start, end, g)
      BY <1>1, <1>2, <1>4, BucketsAre
    <2> HIDE DEF b
    <2>2. granularity = "auto" /\ end - start < 3650 => Len(b) <= 50
      <3> SUFFICES ASSUME granularity = "auto", end - start < 3650 PROVE n <= 50
        BY <2>1 DEF InARow
      <3> DEFINE span == end - start + 1
      <3>1. span \in Int /\ span <= 3650
        BY <1>2
      <3>2. /\ span <= 45 => Shortest(g) = 1
            /\ span \in 46..120 => Shortest(g) = 7
            /\ span \in 121..1095 => Shortest(g) = 28
            /\ span \in 1096..3650 => Shortest(g) = 90
        <4>1. /\ span <= 45 => g = "day"
              /\ span \in 46..120 => g = "week"
              /\ span \in 121..1095 => g = "month"
              /\ span \in 1096..3650 => g = "quarter"
          BY <3>1, AutoIs DEF g
        <4>2. QED
          BY <4>1, ShortestIs
      <3>3. (end - start) \div Shortest(g) <= 48 /\ (end - start) \div Shortest(g) \in Int
        <4>1. end - start \in Int /\ end - start >= 0
          BY <1>2, <1>4
        <4>2. CASE span <= 45
          BY <3>2, <4>1, <4>2
        <4>3. CASE span \in 46..120
          BY <3>2, <4>1, <4>3
        <4>4. CASE span \in 121..1095
          BY <3>2, <4>1, <4>4
        <4>5. CASE span \in 1096..3650
          BY <3>2, <4>1, <4>5
        <4>6. QED
          BY <3>1, <4>2, <4>3, <4>4, <4>5
      <3>4. QED
        BY <2>1, <3>3 DEF InARow
    <2>3. /\ b # <<>> /\ b[1].start = start /\ b[Len(b)].end = end
          /\ \A k \in DOMAIN b :
               /\ b[k].start <= b[k].end
               /\ k > 1 => b[k].start = b[k - 1].end + 1
               /\ PeriodStart(b[k].start, g) = b[k].period /\ PeriodStart(b[k].end, g) = b[k].period
      BY <2>1 DEF InARow
    <2>4. QED
      BY <1>2, <1>4, <2>2, <2>3 DEF CutsWithoutRest, b, g
  <1>5. QED
    BY <1>2, <1>3, <1>4
-----------------------------------------------------------------------------
(* The household under the reports                                         *)

\* A snapshot is what the bank said the account held at the end of its day: no
\* row is entered, whatever its date, split, linked or hidden that changes it.
SnapsAreSaid == \A s \in snaps : s.balance = BankSays(s.account, s.day)

\* A plan is its month's, dated by its first day, for an expense category, and
\* the only one.
PlansAreApart ==
  /\ IsFiniteSet(plans)
  /\ \A p \in plans :
       /\ \E day \in Days : p.period = PeriodOf(day)
       /\ p.category \in Categories /\ p.amount \in PlanAmounts
       /\ \A q \in plans : q.category = p.category /\ q.period = p.period => q = p

ReportsInv == ReportsTypeOK /\ SnapsAreSaid /\ PlansAreApart

\* What some rows of a list come to: those that move an account up to a day, those of
\* them that were known by then, and those that were not.
AmountsOf(rs)      == [i \in DOMAIN rs |-> rs[i].amount]
AmountOver(rs, S)  == MapThenSumSet(LAMBDA i : rs[i].amount, S)
By(rs, a, on)      == {i \in {j \in DOMAIN rs : rs[j].account = a} : rs[i].day <= on}
KnownBy(rs, a, on) == {i \in {j \in DOMAIN rs : rs[j].account = a} : rs[i].day <= on /\ rs[i].entered <= on}
LateBy(rs, a, on)  == {i \in {j \in DOMAIN rs : rs[j].account = a} : rs[i].day <= on /\ rs[i].entered > on}
ThroughOf(rs, a, on) == AmountOver(rs, By(rs, a, on))
SaidOf(rs, a, on)    == AmountOver(rs, KnownBy(rs, a, on))

LEMMA ThroughIs == \A a, on : Through(a, on) = ThroughOf(rows, a, on)
  BY DEF Through, ThroughOf, AmountOver, By, RowsOf

LEMMA BankSaysIs == \A a, on : BankSays(a, on) = Opening[a] + SaidOf(rows, a, on)
  BY DEF BankSays, SaidOf, AmountOver, KnownBy, RowsOf

LEMMA LateIs == \A a, on : Late(a, on) = AmountOver(rows, LateBy(rows, a, on))
  BY DEF Late, AmountOver, LateBy, RowsOf

\* The amounts of some rows add up like those of any function.
LEMMA AmountsAddUp ==
  ASSUME NEW rs \in Seq(Row), NEW S \in SUBSET DOMAIN rs
  PROVE  /\ IsFiniteSet(DOMAIN rs) /\ IntOn(AmountsOf(rs), DOMAIN rs)
         /\ AmountOver(rs, S) = SumOver(AmountsOf(rs), S)
         /\ AmountOver(rs, S) \in Int
  <1> DEFINE f == AmountsOf(rs)
  <1>1. DOMAIN rs = 1..Len(rs) /\ Len(rs) \in Nat /\ \A i \in DOMAIN rs : rs[i] \in Row
    OBVIOUS
  <1>2. IsFiniteSet(DOMAIN rs)
    BY <1>1, FS_Interval
  <1>3. IntOn(f, DOMAIN rs)
    BY <1>1 DEF IntOn, Row, AmountsOf
  <1>5. IsFiniteSet(S) /\ IntOn(f, S) /\ \A i \in S : f[i] = rs[i].amount
    BY <1>2, <1>3, FS_Subset DEF IntOn, AmountsOf
  <1> HIDE DEF f
  <1> DEFINE Iter(g) == [s \in SUBSET S |-> IF s = {} THEN 0 ELSE rs[Pick(s)].amount + g[s \ {Pick(s)}]]
  <1>6. \A g : Iter(g) = SumStep(f, S, g)
    <2>1. \A s \in SUBSET S : s # {} => f[Pick(s)] = rs[Pick(s)].amount
      BY <1>5 DEF Pick
    <2>2. QED
      BY <2>1 DEF SumStep
  <1>7. PICK h : h = (CHOOSE g : g = Iter(g))
    OBVIOUS
  <1>8. h = Iter(h)
    <2>1. \E g : g = Iter(g)
      <3> HIDE DEF Iter
      <3> QED BY <1>5, <1>6, SumThere
    <2>2. QED
      BY <1>7, <2>1
  <1>9. h[S] = SumOver(f, S)
    <2> HIDE DEF Iter
    <2>1. S \in SUBSET S
      OBVIOUS
    <2>2. h = SumStep(f, S, h)
      BY <1>6, <1>8
    <2>3. QED
      BY <1>5, <2>1, <2>2, SumIs
  <1>10. AmountOver(rs, S) = h[S]
    BY <1>7 DEF AmountOver, MapThenSumSet, MapThenFoldSet, Pick
  <1>11. SumOver(f, S) \in Int
    BY <1>2, <1>3, SumRules
  <1>12. QED
    BY <1>2, <1>3, <1>9, <1>10, <1>11 DEF f

LEMMA ThroughSums ==
  ASSUME NEW rs \in Seq(Row), NEW a, NEW on
  PROVE  /\ IsFiniteSet(DOMAIN rs) /\ IntOn(AmountsOf(rs), DOMAIN rs)
         /\ By(rs, a, on) \in SUBSET DOMAIN rs
         /\ ThroughOf(rs, a, on) = SumOver(AmountsOf(rs), By(rs, a, on))
         /\ ThroughOf(rs, a, on) \in Int
  <1>1. By(rs, a, on) \in SUBSET DOMAIN rs
    BY DEF By
  <1>2. QED
    BY <1>1, AmountsAddUp DEF ThroughOf

LEMMA SaidSums ==
  ASSUME NEW rs \in Seq(Row), NEW a, NEW on
  PROVE  /\ KnownBy(rs, a, on) \in SUBSET DOMAIN rs
         /\ SaidOf(rs, a, on) = SumOver(AmountsOf(rs), KnownBy(rs, a, on))
         /\ SaidOf(rs, a, on) \in Int
  <1>1. KnownBy(rs, a, on) \in SUBSET DOMAIN rs
    BY DEF KnownBy
  <1>2. QED
    BY <1>1, AmountsAddUp DEF SaidOf

\* What an account holds by its rows is what was known by then and what came late.
LEMMA LateIsTheRest ==
  ASSUME NEW rs \in Seq(Row), NEW a, NEW on \in Int
  PROVE  /\ ThroughOf(rs, a, on) = SaidOf(rs, a, on) + AmountOver(rs, LateBy(rs, a, on))
         /\ AmountOver(rs, LateBy(rs, a, on)) \in Int
  <1> DEFINE known == KnownBy(rs, a, on)
             late  == LateBy(rs, a, on)
             f     == AmountsOf(rs)
  <1>1. \A i \in DOMAIN rs : rs[i].entered \in Int
    <2>1. \A i \in DOMAIN rs : rs[i] \in Row
      OBVIOUS
    <2>2. QED
      BY <2>1, ReportsAssumption DEF Row, Days
  <1>2. known \cup late = By(rs, a, on) /\ known \cap late = {}
    BY <1>1 DEF KnownBy, LateBy, By
  <1>3. known \in SUBSET DOMAIN rs /\ late \in SUBSET DOMAIN rs
    BY DEF KnownBy, LateBy
  <1>4. /\ IsFiniteSet(DOMAIN rs) /\ IntOn(f, DOMAIN rs)
        /\ SaidOf(rs, a, on) = SumOver(f, known)
        /\ AmountOver(rs, late) = SumOver(f, late) /\ AmountOver(rs, late) \in Int
        /\ ThroughOf(rs, a, on) = SumOver(f, By(rs, a, on))
    BY <1>3, AmountsAddUp, SaidSums, ThroughSums
  <1>5. IsFiniteSet(known) /\ IsFiniteSet(late) /\ IntOn(f, known) /\ IntOn(f, late)
    BY <1>3, <1>4, FS_Subset DEF IntOn
  <1>6. SumOver(f, known \cup late) = SumOver(f, known) + SumOver(f, late)
    <2> HIDE DEF known, late, f
    <2> QED BY <1>2, <1>3, <1>4, <1>5, SumUnion
  <1> QED BY <1>2, <1>4, <1>6

\* Rows that agree on what was known of an account's past agree on what it held.
LEMMA SaidStays ==
  ASSUME NEW rs \in Seq(Row), NEW ss \in Seq(Row), NEW a, NEW on, KnownBy(rs, a, on) = KnownBy(ss, a, on),
         \A i \in KnownBy(rs, a, on) : rs[i].amount = ss[i].amount
  PROVE  SaidOf(ss, a, on) = SaidOf(rs, a, on)
  <1> DEFINE S == KnownBy(rs, a, on)
  <1>1. IsFiniteSet(S) /\ IntOn(AmountsOf(rs), S)
    BY ThroughSums, SaidSums, FS_Subset DEF IntOn
  <1>2. \A i \in S : AmountsOf(ss)[i] = AmountsOf(rs)[i]
    BY DEF AmountsOf, KnownBy
  <1>3. SumOver(AmountsOf(ss), S) = SumOver(AmountsOf(rs), S)
    <2> HIDE DEF S
    <2> QED BY <1>1, <1>2, SumSame
  <1>4. QED
    BY <1>3, SaidSums

LEMMA BankSaysNext == (\A a, on : BankSays(a, on) = Opening[a] + SaidOf(rows, a, on))'
  BY BankSaysIs, PTL

\* Rows that say the same of what was known on the days that are over leave every snapshot right.
LEMMA SnapsStay ==
  ASSUME ReportsInv, rows' \in Seq(Row), UNCHANGED snaps,
         \A a : \A on \in Days : on < today => /\ KnownBy(rows, a, on) = KnownBy(rows', a, on)
                                               /\ \A i \in KnownBy(rows, a, on) : rows[i].amount = rows'[i].amount
  PROVE  SnapsAreSaid'
  <1> SUFFICES ASSUME NEW s \in snaps PROVE (s.balance = BankSays(s.account, s.day))'
    BY DEF SnapsAreSaid
  <1>1. s.day \in Days /\ s.day < today /\ s.balance = BankSays(s.account, s.day)
    BY DEF ReportsInv, ReportsTypeOK, SnapsAreSaid
  <1>2. rows \in Seq(Row)
    BY DEF ReportsInv, ReportsTypeOK
  <1>3. SaidOf(rows', s.account, s.day) = SaidOf(rows, s.account, s.day)
    BY <1>1, <1>2, SaidStays
  <1>4. BankSays(s.account, s.day)' = BankSays(s.account, s.day)
    BY <1>3, BankSaysIs, BankSaysNext
  <1>5. QED
    BY <1>1, <1>4

\* A step that rewrites rows leaves each where and when it was, with its amount.
LEMMA RowsRewritten ==
  ASSUME ReportsInv, UNCHANGED <<today, world, trades, snaps, hidden, steps, plans>>,
         rows' \in Seq(Row), Len(rows') = Len(rows),
         \A i \in DOMAIN rows : /\ rows'[i].account = rows[i].account /\ rows'[i].day = rows[i].day
                                /\ rows'[i].amount = rows[i].amount /\ rows'[i].entered = rows[i].entered
                                /\ rows'[i].group # Absent => rows'[i].group \in DOMAIN rows
  PROVE  ReportsInv'
  <1>1. ReportsTypeOK /\ DOMAIN rows = DOMAIN rows'
    BY DEF ReportsInv, ReportsTypeOK
  <1>2. ReportsTypeOK'
    BY <1>1 DEF ReportsTypeOK, world
  <1>3. SnapsAreSaid'
    <2>1. \A a, on : /\ KnownBy(rows, a, on) = KnownBy(rows', a, on)
                     /\ \A i \in KnownBy(rows, a, on) : rows[i].amount = rows'[i].amount
      BY <1>1 DEF KnownBy
    <2>2. QED
      BY <2>1, SnapsStay
  <1>4. PlansAreApart'
    BY DEF ReportsInv, PlansAreApart
  <1>5. QED
    BY <1>2, <1>3, <1>4 DEF ReportsInv

\* A row that is entered was not known before today, whatever its date.
LEMMA RowEntered ==
  ASSUME ReportsInv, UNCHANGED <<today, world, trades, snaps, hidden, plans>>, steps' \in Nat,
         NEW row \in Row, rows' = Append(rows, row),
         row.entered = today, row.account \notin Investments, row.group = Absent
  PROVE  ReportsInv'
  <1>1. ReportsTypeOK /\ rows \in Seq(Row) /\ today \in Int
    BY ReportsAssumption DEF ReportsInv, ReportsTypeOK, Days
  <1>2. /\ rows' \in Seq(Row) /\ DOMAIN rows = 1..Len(rows) /\ DOMAIN rows' = 1..(Len(rows) + 1) /\ Len(rows) \in Nat
        /\ \A i \in DOMAIN rows : rows'[i] = rows[i]
        /\ rows'[Len(rows) + 1] = row
    BY <1>1, AppendProperties
  <1>3. ReportsTypeOK'
    <2>1. \A i \in DOMAIN rows' : /\ rows'[i].entered <= today /\ rows'[i].account \notin Investments
                                  /\ rows'[i].group # Absent => rows'[i].group \in DOMAIN rows'
      BY <1>1, <1>2 DEF ReportsTypeOK
    <2>2. QED
      BY <1>1, <1>2, <2>1 DEF ReportsTypeOK, world
  <1>4. SnapsAreSaid'
    <2>1. ASSUME NEW a, NEW on \in Days, on < today
          PROVE  /\ KnownBy(rows, a, on) = KnownBy(rows', a, on)
                 /\ \A i \in KnownBy(rows, a, on) : rows[i].amount = rows'[i].amount
      <3>1. on \in Int
        BY ReportsAssumption DEF Days
      <3>2. ~(row.entered <= on)
        BY <1>1, <2>1, <3>1
      <3>3. QED
        BY <1>2, <3>2 DEF KnownBy
    <2>2. QED
      BY <1>2, <2>1, SnapsStay
  <1>5. PlansAreApart'
    BY DEF ReportsInv, PlansAreApart
  <1>6. QED
    BY <1>3, <1>4, <1>5 DEF ReportsInv

LEMMA Unmoved ==
  ASSUME ReportsInv, UNCHANGED rows, UNCHANGED snaps
  PROVE  SnapsAreSaid'
  BY SnapsStay DEF ReportsInv, ReportsTypeOK

LEMMA Worth ==
  ASSUME ReportsTypeOK, NEW currency, NEW day \in Days, NEW amount \in Int
  PROVE  RateOn(currency, day) \in Int \cup {Absent} /\ InBase(amount, currency, day) \in Int \cup {Absent}
  <1>1. rates[day] \in Int \cup {Absent}
    <2>1. rates \in RateTapes
      BY DEF ReportsTypeOK
    <2>2. rates \in [FirstDay..LastDay -> Int \cup {Absent}]
      BY <2>1, ReportsAssumption
    <2>3. QED
      BY <2>2 DEF Days
  <1>2. RateOn(currency, day) \in Int \cup {Absent}
    BY <1>1 DEF RateOn
  <1>3. QED
    BY <1>2, ReportsAssumption DEF InBase

\* Each kind of step.
LEMMA PostingKeeps ==
  ASSUME ReportsInv, Posting, UNCHANGED plans
  PROVE  ReportsInv'
  <1>1. PICK p \in Posts[kind], day \in Days : Post(p.account, p.amount, p.category, p.owner, day)
    BY DEF Posting, EntryDays
  <1>2. ReportsTypeOK /\ today \in Days /\ kind \in Kinds
    BY DEF ReportsInv, ReportsTypeOK
  <1>3. /\ p.account \in Accounts /\ p.amount \in Int
        /\ p.category \in Categories \cup {Absent} /\ p.owner \in Owners \cup {Absent}
    BY <1>2, ReportsAssumption DEF Categories
  <1> DEFINE worth == InBase(p.amount, CurrencyOf[p.account], day)
             row == [account |-> p.account, day |-> day, entered |-> today, amount |-> p.amount, base |-> worth,
                     category |-> p.category, owner |-> p.owner, group |-> Absent, hidden |-> FALSE, splits |-> <<>>]
  <1>4. worth \in Int \cup {Absent}
    BY <1>2, <1>3, Worth
  <1>5. rows' = Append(rows, row) /\ p.account \notin Investments
    BY <1>1 DEF Post, Enter
  <1> HIDE DEF worth
  <1>6. row \in Row
    BY <1>2, <1>3, <1>4 DEF Row
  <1>7. steps' \in Nat
    BY <1>1, <1>2 DEF Post, Request, ReportsTypeOK
  <1>8. UNCHANGED <<today, world, trades, snaps, hidden, plans>>
    BY <1>1 DEF Post
  <1>9. row.entered = today /\ row.account \notin Investments /\ row.group = Absent
    BY <1>5
  <1> HIDE DEF row
  <1>10. QED
    BY <1>5, <1>6, <1>7, <1>8, <1>9, RowEntered

\* A row written in place.
LEMMA Written ==
  ASSUME NEW rs \in Seq(Row), NEW i \in DOMAIN rs, NEW row \in Row
  PROVE  LET ss == [rs EXCEPT ![i] = row] IN
         ss \in Seq(Row) /\ Len(ss) = Len(rs) /\ \A j \in DOMAIN rs : ss[j] = IF j = i THEN row ELSE rs[j]
  <1>1. i \in 1..Len(rs) /\ DOMAIN rs = 1..Len(rs)
    OBVIOUS
  <1>2. QED
    BY <1>1, ExceptSeq

LEMMA FilingKeeps ==
  ASSUME ReportsInv, Filing, UNCHANGED plans
  PROVE  ReportsInv'
  <1>1. ReportsTypeOK /\ rows \in Seq(Row) /\ DOMAIN rows = 1..Len(rows) /\ Len(rows) \in Nat
    BY DEF ReportsInv, ReportsTypeOK
  <1>2. ASSUME NEW i \in DOMAIN rows, NEW p \in Parts, SplitRow(i, p.category, p.owner)
        PROVE  ReportsInv'
    <2> DEFINE half == IF rows[i].base = Absent THEN Absent ELSE rows[i].base \div 2
               rest == IF half = Absent THEN Absent ELSE rows[i].base - half
               parts == <<[category |-> p.category, owner |-> p.owner, base |-> half],
                          [category |-> rows[i].category, owner |-> Absent, base |-> rest]>>
               row == [rows[i] EXCEPT !.splits = parts]
    <2>0. rows[i] \in Row
      BY <1>1
    <2>1. rows[i] \in Row /\ rows[i].base \in Int \cup {Absent} /\ rows[i].category \in Categories \cup {Absent}
      BY <2>0 DEF Row
    <2>2. p.category \in Categories \cup {Absent} /\ p.owner \in Owners \cup {Absent}
      BY ReportsAssumption DEF Categories
    <2>3. half \in Int \cup {Absent} /\ rest \in Int \cup {Absent}
      BY <2>1, ReportsAssumption
    <2>4. rows' = [rows EXCEPT ![i] = row] /\ UNCHANGED <<today, world, trades, snaps, hidden, steps>>
      BY <1>2 DEF SplitRow
    <2> HIDE DEF half, rest
    <2>5. parts \in Seq(Part)
      BY <2>1, <2>2, <2>3 DEF Part
    <2> HIDE DEF parts
    <2>6. row \in Row /\ row.account = rows[i].account /\ row.day = rows[i].day
          /\ row.amount = rows[i].amount /\ row.group = rows[i].group /\ row.entered = rows[i].entered
      BY <2>1, <2>5 DEF Row
    <2> HIDE DEF row
    <2>7. /\ rows' \in Seq(Row) /\ Len(rows') = Len(rows)
          /\ \A j \in DOMAIN rows : rows'[j] = IF j = i THEN row ELSE rows[j]
      BY <1>1, <2>4, <2>6, Written
    <2>8. \A j \in DOMAIN rows : /\ rows'[j].account = rows[j].account /\ rows'[j].day = rows[j].day
                                 /\ rows'[j].amount = rows[j].amount /\ rows'[j].entered = rows[j].entered
                                 /\ rows'[j].group # Absent => rows'[j].group \in DOMAIN rows
      BY <1>1, <2>6, <2>7 DEF ReportsTypeOK
    <2>9. QED
      BY <2>4, <2>7, <2>8, RowsRewritten
  <1>3. ASSUME NEW i \in DOMAIN rows, NEW j \in DOMAIN rows, Link(i, j)
        PROVE  ReportsInv'
    <2> DEFINE one == [rows[i] EXCEPT !.group = i]
               two == [rows[j] EXCEPT !.group = i]
               mid == [rows EXCEPT ![i] = one]
    <2>1. rows[i] \in Row /\ rows[j] \in Row /\ i \in Nat /\ j \in Nat /\ i # j
      BY <1>1, <1>3 DEF Link
    <2>2. /\ one \in Row /\ one.account = rows[i].account /\ one.day = rows[i].day /\ one.amount = rows[i].amount
          /\ two \in Row /\ two.account = rows[j].account /\ two.day = rows[j].day /\ two.amount = rows[j].amount
          /\ one.group = i /\ two.group = i /\ one.entered = rows[i].entered /\ two.entered = rows[j].entered
      BY <2>1 DEF Row
    <2>3. mid[j] = rows[j]
      BY <1>1, <2>1
    <2>4. rows' = [mid EXCEPT ![j] = two] /\ UNCHANGED <<today, world, trades, snaps, hidden, steps>>
      <3>1. rows' = [rows EXCEPT ![i].group = i, ![j].group = i]
        BY <1>3 DEF Link
      <3>2. rows' = [mid EXCEPT ![j] = [mid[j] EXCEPT !.group = i]]
        BY <3>1
      <3>3. QED
        BY <1>3, <2>3, <3>2 DEF Link
    <2> HIDE DEF one, two
    <2>5. mid \in Seq(Row) /\ Len(mid) = Len(rows) /\ \A k \in DOMAIN rows : mid[k] = IF k = i THEN one ELSE rows[k]
      BY <1>1, <2>2, Written
    <2> HIDE DEF mid
    <2>6. /\ rows' \in Seq(Row) /\ Len(rows') = Len(rows) /\ DOMAIN mid = DOMAIN rows
          /\ \A k \in DOMAIN rows : rows'[k] = IF k = j THEN two ELSE mid[k]
      <3>1. DOMAIN mid = DOMAIN rows
        BY <1>1, <2>5
      <3>2. QED
        BY <2>2, <2>4, <2>5, <3>1, Written
    <2>7. \A k \in DOMAIN rows : /\ rows'[k].account = rows[k].account /\ rows'[k].day = rows[k].day
                                 /\ rows'[k].amount = rows[k].amount /\ rows'[k].entered = rows[k].entered
                                 /\ rows'[k].group # Absent => rows'[k].group \in DOMAIN rows
      BY <1>1, <2>2, <2>5, <2>6 DEF ReportsTypeOK
    <2>8. QED
      BY <2>4, <2>6, <2>7, RowsRewritten
  <1>4. QED
    BY <1>2, <1>3 DEF Filing

LEMMA HidingKeeps ==
  ASSUME ReportsInv, Hiding, UNCHANGED plans
  PROVE  ReportsInv'
  <1>1. ReportsTypeOK /\ rows \in Seq(Row) /\ DOMAIN rows = 1..Len(rows)
    BY DEF ReportsInv, ReportsTypeOK
  <1>2. ASSUME NEW i \in DOMAIN rows, HideRow(i)
        PROVE  ReportsInv'
    <2> DEFINE row == [rows[i] EXCEPT !.hidden = TRUE]
    <2>1. rows[i] \in Row
      BY <1>1
    <2>2. row \in Row /\ row.account = rows[i].account /\ row.day = rows[i].day
          /\ row.amount = rows[i].amount /\ row.group = rows[i].group /\ row.entered = rows[i].entered
      BY <2>1 DEF Row
    <2>3. rows' = [rows EXCEPT ![i] = row] /\ UNCHANGED <<today, world, trades, snaps, hidden, steps>>
      BY <1>2 DEF HideRow
    <2> HIDE DEF row
    <2>4. /\ rows' \in Seq(Row) /\ Len(rows') = Len(rows)
          /\ \A j \in DOMAIN rows : rows'[j] = IF j = i THEN row ELSE rows[j]
      BY <1>1, <2>2, <2>3, Written
    <2>5. \A j \in DOMAIN rows : /\ rows'[j].account = rows[j].account /\ rows'[j].day = rows[j].day
                                 /\ rows'[j].amount = rows[j].amount /\ rows'[j].entered = rows[j].entered
                                 /\ rows'[j].group # Absent => rows'[j].group \in DOMAIN rows
      BY <1>1, <2>2, <2>4 DEF ReportsTypeOK
    <2>6. QED
      BY <2>3, <2>4, <2>5, RowsRewritten
  <1>3. ASSUME NEW a \in Accounts, HideAccount(a)
        PROVE  ReportsInv'
    <2>1. ReportsTypeOK' /\ UNCHANGED rows /\ UNCHANGED snaps
      BY <1>1, <1>3 DEF HideAccount, ReportsTypeOK, world
    <2>2. SnapsAreSaid'
      BY <2>1, Unmoved
    <2>3. PlansAreApart'
      BY DEF ReportsInv, PlansAreApart
    <2>4. QED
      BY <2>1, <2>2, <2>3 DEF ReportsInv
  <1>4. QED
    BY <1>2, <1>3 DEF Hiding

\* Trades that are entered are trades, whatever their date.
LEMMA TradesEntered ==
  ASSUME ReportsInv, UNCHANGED <<today, world, rows, snaps, hidden, plans>>, steps' \in Nat,
         NEW new \in Seq(TradeRow), trades' = trades \o new
  PROVE  ReportsInv'
  <1>1. ReportsTypeOK /\ trades \in Seq(TradeRow) /\ today \in Int
    BY ReportsAssumption DEF ReportsInv, ReportsTypeOK, Days
  <1>2. trades' \in Seq(TradeRow)
    BY <1>1, ConcatProperties
  <1>4. ReportsTypeOK'
    BY <1>1, <1>2 DEF ReportsTypeOK, world
  <1>5. SnapsAreSaid'
    BY Unmoved
  <1>6. PlansAreApart'
    BY DEF ReportsInv, PlansAreApart
  <1>7. QED
    BY <1>4, <1>5, <1>6 DEF ReportsInv

LEMMA InvestingKeeps ==
  ASSUME ReportsInv, Investing, UNCHANGED plans
  PROVE  ReportsInv'
  <1>1. ReportsTypeOK /\ today \in Days /\ steps \in Nat /\ trades \in Seq(TradeRow)
    BY DEF ReportsInv, ReportsTypeOK
  <1>2. ASSUME NEW a \in Investments, NEW p \in Securities, NEW quantity \in {-1, 2}, NEW day \in Days,
               Deal(a, p, quantity, day)
        PROVE  ReportsInv'
    <2> DEFINE price == PriceOn(p, day)
               paid == quantity * price
               one == Trade(a, IF quantity > 0 THEN "buy" ELSE "sell", p, quantity, -paid, day)
               two == Trade(a, IF quantity > 0 THEN "sell" ELSE "buy", Cash, -paid, paid, day)
    <2>1. price \in Int
      <3>1. prices[p][day] \in Int \cup {Absent}
        BY <1>1, ReportsAssumption DEF ReportsTypeOK, Days
      <3>2. QED
        BY <1>2, <3>1 DEF Deal, PriceOn
    <2>2. quantity \in Int /\ paid \in Int /\ -paid \in Int
      BY <2>1
    <2>3. trades' = trades \o <<one, two>> /\ UNCHANGED <<today, world, rows, snaps, hidden>> /\ steps' \in Nat
      BY <1>1, <1>2 DEF Deal, Request
    <2> HIDE DEF paid, price
    <2>4. one \in TradeRow /\ two \in TradeRow
      BY <1>1, <2>2, ReportsAssumption DEF TradeRow, Trade
    <2> HIDE DEF one, two
    <2>5. <<one, two>> \in Seq(TradeRow)
      BY <2>4
    <2>6. QED
      BY <2>3, <2>5, TradesEntered
  <1>3. ASSUME NEW a \in Investments, NEW type \in {"dividend", "fee", "transfer"}, NEW amount \in Int,
               NEW day \in Days, CashEvent(a, type, amount, day)
        PROVE  ReportsInv'
    <2> DEFINE one == Trade(a, type, Cash, amount, amount, day)
    <2>1. one \in TradeRow
      BY <1>1, ReportsAssumption DEF TradeRow, Trade
    <2>2. trades' = Append(trades, one) /\ UNCHANGED <<today, world, rows, snaps, hidden>> /\ steps' \in Nat
      BY <1>1, <1>3 DEF CashEvent, Request
    <2> HIDE DEF one
    <2>3. trades' = trades \o <<one>>
      BY <1>1, <2>1, <2>2, AppendIsConcat
    <2>4. <<one>> \in Seq(TradeRow)
      BY <2>1
    <2>5. QED
      BY <2>2, <2>3, <2>4, TradesEntered
  <1>4. QED
    <2>1. PICK a \in Investments, day \in Days :
            \/ \E p \in Securities, quantity \in {-1, 2} : Deal(a, p, quantity, day)
            \/ CashEvent(a, "dividend", 3, day) \/ CashEvent(a, "fee", -1, day) \/ CashEvent(a, "transfer", 5, day)
      BY DEF Investing, EntryDays
    <2>2. CASE \E p \in Securities, quantity \in {-1, 2} : Deal(a, p, quantity, day)
      BY <1>2, <2>2
    <2>3. CASE CashEvent(a, "dividend", 3, day) \/ CashEvent(a, "fee", -1, day) \/ CashEvent(a, "transfer", 5, day)
      BY <1>3, <2>3
    <2> QED BY <2>1, <2>2, <2>3

LEMMA DayKeeps ==
  ASSUME ReportsInv, NEW reporting, CloseDay(reporting), reporting \subseteq Accounts, UNCHANGED plans
  PROVE  ReportsInv'
  <1> DEFINE said == {[account |-> a, day |-> today, balance |-> BankSays(a, today)] : a \in reporting \ Derived}
  <1>1. ReportsTypeOK /\ today \in Days /\ today \in Int /\ LastDay \in Int /\ FirstDay \in Int
    BY ReportsAssumption DEF ReportsInv, ReportsTypeOK, Days
  <1>2. /\ today < LastDay /\ today' = today + 1 /\ snaps' = snaps \cup said
        /\ UNCHANGED <<world, rows, trades, hidden, steps>>
    BY DEF CloseDay
  <1>3. today' \in Days
    BY <1>1, <1>2 DEF Days
  <1>4. \A s \in snaps : s.account \in Accounts /\ s.day \in Days /\ s.day < today'
    <2>1. \A s \in snaps : s.account \in Accounts /\ s.day \in Days /\ s.day < today
      BY <1>1 DEF ReportsTypeOK
    <2>2. \A s \in snaps : s.day \in Int
      BY <1>1, <2>1 DEF Days
    <2>3. QED
      BY <1>1, <1>2, <2>1, <2>2
  <1>5. \A s \in said : s.account \in Accounts /\ s.day \in Days /\ s.day < today' /\ s.balance = BankSays(s.account, s.day)
    <2> HIDE DEF ReportsInv
    <2>1. today < today'
      BY <1>1, <1>2
    <2>2. QED
      BY <1>1, <2>1
  <1> HIDE DEF said
  <1>6. ReportsTypeOK'
    <2>1. \A i \in DOMAIN rows : rows[i].entered <= today'
      <3>1. \A i \in DOMAIN rows : rows[i].entered \in Int /\ rows[i].entered <= today
        <4>1. \A i \in DOMAIN rows : rows[i] \in Row
          BY <1>1 DEF ReportsTypeOK
        <4>2. QED
          BY <1>1, <4>1 DEF ReportsTypeOK, Row, Days
      <3>2. QED
        BY <1>1, <1>2, <3>1
    <2>3. \A s \in snaps' : s.account \in Accounts /\ s.day \in Days /\ s.day < today'
      BY <1>2, <1>4, <1>5
    <2>4. QED
      BY <1>1, <1>2, <1>3, <2>1, <2>3 DEF ReportsTypeOK, world
  <1>7. SnapsAreSaid'
    <2>1. \A a, on : BankSays(a, on)' = BankSays(a, on)
      BY <1>2, BankSaysIs, BankSaysNext
    <2>2. \A s \in snaps : s.balance = BankSays(s.account, s.day)
      BY DEF ReportsInv, SnapsAreSaid
    <2>3. QED
      BY <1>2, <1>5, <2>1, <2>2 DEF SnapsAreSaid
  <1>8. PlansAreApart'
    BY DEF ReportsInv, PlansAreApart
  <1>9. QED
    BY <1>6, <1>7, <1>8 DEF ReportsInv

LEMMA PlanningKeeps ==
  ASSUME ReportsInv, Planning
  PROVE  ReportsInv'
  <1>1. PICK category \in Categories, day \in Days :
          ClearBudget(category, day) \/ \E amount \in PlanAmounts : SetBudget(category, day, amount)
    BY DEF Planning
  <1>2. UNCHANGED <<today, world, rows, trades, snaps, hidden>> /\ steps' = steps + 1
    BY <1>1 DEF ClearBudget, SetBudget, Request
  <1>3. ReportsTypeOK'
    BY <1>2 DEF ReportsInv, ReportsTypeOK, world
  <1>4. SnapsAreSaid'
    BY <1>2, Unmoved
  <1>5. PlansAreApart'
    <2>1. PlansAreApart
      BY DEF ReportsInv
    <2>2. CASE ClearBudget(category, day)
      <3>1. plans' = plans \ PlanFor(category, PeriodOf(day))
        BY <2>2 DEF ClearBudget
      <3>2. IsFiniteSet(plans')
        BY <2>1, <3>1, FS_Difference DEF PlansAreApart
      <3>3. QED
        BY <2>1, <3>1, <3>2 DEF PlansAreApart
    <2>3. ASSUME NEW amount \in PlanAmounts, SetBudget(category, day, amount)
          PROVE  PlansAreApart'
      <3> DEFINE new == [category |-> category, period |-> PeriodOf(day), amount |-> amount]
                 old == PlanFor(category, PeriodOf(day))
      <3>1. plans' = (plans \ old) \cup {new}
        BY <2>3 DEF SetBudget
      <3>2. \A p \in plans \ old : ~(p.category = category /\ p.period = PeriodOf(day))
        BY DEF PlanFor
      <3>3. IsFiniteSet(plans')
        <4>1. IsFiniteSet(plans \ old)
          BY <2>1, FS_Difference DEF PlansAreApart
        <4> HIDE DEF old, new
        <4>2. QED
          BY <3>1, <4>1, FS_AddElement
      <3>4. QED
        BY <2>1, <3>1, <3>2, <3>3 DEF PlansAreApart
    <2>4. QED
      BY <1>1, <2>2, <2>3
  <1>6. QED
    BY <1>3, <1>4, <1>5 DEF ReportsInv

\* The household's rows stay rows and its snapshots true, and no plan is doubled.
THEOREM ReportsInductive == BudgetsSpec => []ReportsInv
  <1>1. BudgetsInit => ReportsInv
    <2> SUFFICES ASSUME BudgetsInit PROVE ReportsInv
      OBVIOUS
    <2>1. ReportsTypeOK
      BY ReportsAssumption DEF BudgetsInit, ReportsInit, ReportsTypeOK, Days
    <2>2. SnapsAreSaid /\ PlansAreApart
      BY FS_EmptySet DEF BudgetsInit, ReportsInit, SnapsAreSaid, PlansAreApart
    <2>3. QED
      BY <2>1, <2>2 DEF ReportsInv
  <1>2. ReportsInv /\ [BudgetsNext]_budgetsVars => ReportsInv'
    <2> SUFFICES ASSUME ReportsInv, [BudgetsNext]_budgetsVars PROVE ReportsInv'
      OBVIOUS
    <2>1. CASE BudgetsNext
      <3>1. ASSUME ReportsNext, UNCHANGED plans PROVE ReportsInv'
        <4>1. ASSUME NEW reporting \in Observed, CloseDay(reporting) PROVE ReportsInv'
          BY <3>1, <4>1, DayKeeps, ReportsAssumption
        <4>2. QED
          BY <3>1, <4>1, PostingKeeps, FilingKeeps, HidingKeeps, InvestingKeeps DEF ReportsNext
      <3>2. QED
        BY <2>1, <3>1, PlanningKeeps DEF BudgetsNext
    <2>2. CASE UNCHANGED budgetsVars
      <3>1. UNCHANGED <<today, kind, chart, rates, prices, rows, trades, snaps, hidden, steps, plans>>
        BY <2>2 DEF budgetsVars, reportsVars
      <3>2. ReportsTypeOK' /\ PlansAreApart'
        BY <3>1 DEF ReportsInv, ReportsTypeOK, PlansAreApart
      <3>3. SnapsAreSaid'
        BY <3>1, Unmoved
      <3>4. QED
        BY <3>2, <3>3 DEF ReportsInv
    <2>3. QED
      BY <2>1, <2>2
  <1>3. QED
    BY <1>1, <1>2, PTL DEF BudgetsSpec

\* The least of some days is one of them.
LEMMA FirstOfDays ==
  ASSUME NEW days \in SUBSET Days, days # {}
  PROVE  Min(days) \in days /\ Min(days) \in Nat \ {0} /\ \A d \in days : Min(days) <= d
  <1>1. days \in SUBSET (0..LastDay) /\ LastDay \in Nat /\ \A d \in days : d \in Nat \ {0}
    BY ReportsAssumption DEF Days
  <1>2. \E x \in days : \A y \in days : x <= y
    BY <1>1, LeastOne
  <1>3. QED
    BY <1>1, <1>2 DEF Min

\* A balance worked back from an account's first snapshot is the one the bank had,
\* whatever was entered, late or ahead, split, linked or hidden since, for any household.
THEOREM PastIsTrueForAll == BudgetsSpec => []PastIsTrue
  <1>1. ReportsInv => PastIsTrue
    <2> SUFFICES ASSUME ReportsInv, NEW a \in Accounts \ Investments, NEW on \in Days,
                        LET own == {s.day : s \in {t \in snaps : t.account = a}}
                            old == {rows[i].day : i \in RowsOf(a)}
                        IN own # {} /\ old # {} /\ on \in (Min(old) - 1)..Min(own)
                 PROVE  BalanceAt(a, on) = At(Actual(a, on) - Late(a, Min({s.day : s \in {t \in snaps : t.account = a}})))
      BY DEF PastIsTrue
    <2> DEFINE own == {s \in snaps : s.account = a}
               ownDays == {s.day : s \in own}
               old == {rows[i].day : i \in RowsOf(a)}
               upTo == {s \in own : s.day <= on}
               first == CHOOSE s \in own : \A t \in own : s.day <= t.day
               last == CHOOSE s \in upTo : \A t \in upTo : s.day >= t.day
    <2>1. /\ ReportsTypeOK
          /\ \A s \in own : s.day \in Days /\ s.day \in Int /\ s.balance = BankSays(a, s.day)
          /\ \A i \in RowsOf(a) : rows[i].day \in Days
          /\ on \in Int
      <3>1. \A i \in DOMAIN rows : rows[i] \in Row
        BY DEF ReportsInv, ReportsTypeOK
      <3>2. \A s \in own : s.day \in Days /\ s.balance = BankSays(a, s.day)
        BY DEF ReportsInv, ReportsTypeOK, SnapsAreSaid
      <3>3. \A d \in Days : d \in Int
        BY ReportsAssumption DEF Days
      <3>4. QED
        BY <3>1, <3>2, <3>3 DEF RowsOf, Row, ReportsInv
    <2>2. own # {} /\ ownDays # {} /\ old # {} /\ Min(old) - 1 <= on /\ on <= Min(ownDays)
      <3>1. on \in (Min(old) - 1)..Min(ownDays) /\ ownDays # {} /\ old # {}
        OBVIOUS
      <3>2. QED
        BY <3>1
    <2>3. Min(ownDays) \in ownDays /\ Min(ownDays) \in Int /\ \A d \in ownDays : Min(ownDays) <= d
      <3>1. ownDays \in SUBSET Days
        BY <2>1
      <3> HIDE DEF ownDays
      <3>2. QED
        BY <2>2, <3>1, FirstOfDays
    <2>4. Min(old) \in Int
      <3>1. old \in SUBSET Days
        BY <2>1
      <3> HIDE DEF old
      <3>2. QED
        BY <2>2, <3>1, FirstOfDays
    <2>5. first \in own
      <3>1. PICK s \in own : s.day = Min(ownDays)
        BY <2>3
      <3>2. \A t \in own : s.day <= t.day
        BY <2>3, <3>1
      <3>3. QED
        BY <3>2
    <2>6. /\ \A d : Actual(a, d) = Opening[a] + Through(a, d) /\ Through(a, d) \in Int
          /\ \A d \in Int : BankSays(a, d) = Actual(a, d) - Late(a, d) /\ Late(a, d) \in Int
          /\ Opening[a] \in Int
      <3>1. rows \in Seq(Row) /\ Opening[a] \in Int
        BY <2>1, ReportsAssumption DEF ReportsTypeOK
      <3>2. \A d : Through(a, d) \in Int /\ SaidOf(rows, a, d) \in Int
        BY <3>1, ThroughIs, ThroughSums, SaidSums
      <3>3. \A d \in Int : Through(a, d) = SaidOf(rows, a, d) + Late(a, d) /\ Late(a, d) \in Int
        BY <3>1, ThroughIs, LateIs, LateIsTheRest
      <3>4. \A d : Actual(a, d) = Opening[a] + Through(a, d)
        BY DEF Actual
      <3>5. \A d \in Int : BankSays(a, d) = Actual(a, d) - Late(a, d)
        <4> SUFFICES ASSUME NEW d \in Int PROVE BankSays(a, d) = Actual(a, d) - Late(a, d)
          OBVIOUS
        <4>1. BankSays(a, d) = Opening[a] + SaidOf(rows, a, d)
          BY BankSaysIs
        <4>2. /\ SaidOf(rows, a, d) \in Int /\ Through(a, d) = SaidOf(rows, a, d) + Late(a, d)
              /\ Late(a, d) \in Int /\ Actual(a, d) = Opening[a] + Through(a, d)
          BY <3>2, <3>3, <3>4
        <4> QED BY <3>1, <4>1, <4>2
      <3> QED BY <3>1, <3>2, <3>3, <3>4, <3>5
    <2>7. CASE upTo # {}
      <3>1. \A s \in upTo : s.day = on
        <4>1. \A s \in own : s.day \in Int /\ Min(ownDays) <= s.day
          BY <2>1, <2>3
        <4>2. \A s \in own : s.day <= on => s.day = on
          <5> HIDE DEF own, ownDays
          <5>1. QED
            BY <2>1, <2>2, <2>3, <4>1
        <4>3. QED
          BY <4>2
      <3>2. last \in upTo
        <4>1. PICK s \in upTo : TRUE
          BY <2>7
        <4>2. \A t \in upTo : s.day >= t.day
          BY <2>1, <3>1
        <4>3. QED
          BY <4>2
      <3>3. last.balance = BankSays(a, on) /\ on = Min(ownDays)
        <4>1. last.day = on /\ last.balance = BankSays(a, last.day)
          BY <2>1, <3>1, <3>2
        <4>2. Min(ownDays) <= on
          BY <2>3, <3>2, <4>1
        <4> QED BY <2>1, <2>2, <2>3, <4>1, <4>2
      <3>4. BalanceAt(a, on) = At(last.balance)
        BY <2>2, <2>7 DEF BalanceAt
      <3>5. BankSays(a, on) = Actual(a, on) - Late(a, Min(ownDays))
        BY <2>1, <2>6, <3>3
      <3>6. QED
        BY <3>3, <3>4, <3>5
    <2>8. CASE upTo = {}
      <3>1. BalanceAt(a, on) = IF a \in Investments \/ old = {} \/ on < Min(old) - 1
                               THEN Missing("not_started")
                               ELSE At(first.balance - (Through(a, first.day) - Through(a, on)))
        BY <2>2, <2>8 DEF BalanceAt
      <3>2. ~(on < Min(old) - 1)
        BY <2>1, <2>2, <2>4
      <3>3. first.balance = BankSays(a, first.day) /\ first.day = Min(ownDays)
        <4>1. PICK s \in own : s.day = Min(ownDays)
          BY <2>3
        <4>2. \A t \in own : first.day <= t.day
          <5>1. \A t \in own : s.day <= t.day
            BY <2>3, <4>1
          <5> QED BY <5>1
        <4>3. first.day <= Min(ownDays) /\ Min(ownDays) <= first.day
          BY <2>3, <2>5, <4>1, <4>2
        <4> QED BY <2>1, <2>3, <2>5, <4>3
      <3> HIDE DEF first, old, own, ownDays, upTo
      <3>4. first.balance - (Through(a, first.day) - Through(a, on)) = Actual(a, on) - Late(a, Min(ownDays))
        BY <2>3, <2>6, <3>3
      <3>5. QED
        BY <2>2, <3>1, <3>2, <3>4 DEF ownDays, own
    <2>9. QED
      BY <2>7, <2>8
  <1>2. QED
    BY <1>1, ReportsInductive, PTL

-----------------------------------------------------------------------------
(* The charts                                                              *)

\* What is entered is dated, so an open window begins on a day.
LEMMA EntriesAreDated ==
  ASSUME ReportsTypeOK
  PROVE  FlowDays \in SUBSET Days /\ ActivityDays \in SUBSET Days /\ FlowDays \subseteq ActivityDays
  <1>1. /\ \A i \in DOMAIN rows : rows[i].day \in Days
        /\ \A i \in DOMAIN trades : trades[i].day \in Days
        /\ \A s \in snaps : s.day \in Days
    <2>1. rows \in Seq(Row) /\ trades \in Seq(TradeRow)
      BY DEF ReportsTypeOK
    <2>2. (\A i \in DOMAIN rows : rows[i] \in Row) /\ (\A i \in DOMAIN trades : trades[i] \in TradeRow)
      BY <2>1
    <2>3. (\A i \in DOMAIN rows : rows[i].day \in Days) /\ (\A i \in DOMAIN trades : trades[i].day \in Days)
      BY <2>2 DEF Row, TradeRow
    <2>4. QED
      BY <2>3 DEF ReportsTypeOK
  <1>2. QED
    BY <1>1 DEF FlowDays, ActivityDays

LEMMA EarliestIs ==
  ASSUME NEW days \in SUBSET Days
  PROVE  /\ days = {} => Earliest(days) = Absent
         /\ days # {} => /\ Earliest(days) # Absent /\ Earliest(days) \in days /\ Earliest(days) \in Nat \ {0}
                         /\ \A d \in days : Earliest(days) <= d
  BY FirstOfDays, ReportsAssumption DEF Earliest

\* Whatever the household has done, every chart that is asked for is of a window that is cut without a rest.
THEOREM WindowsAreCutForAll == BudgetsSpec => []WindowsAreCut
  <1>1. ReportsInv => WindowsAreCut
    <2> SUFFICES ASSUME ReportsInv, chart # Absent PROVE WindowsAreCut
      BY DEF WindowsAreCut
    <2> DEFINE start == WindowStart(chart[1], chart[2])
               end == chart[2]
               cut == CashFlowWindow(start, end)
    <2>1. ReportsTypeOK /\ today \in Days /\ today \in Nat \ {0}
      BY ReportsAssumption DEF ReportsInv, ReportsTypeOK, Days
    <2>2. chart[1] \in (Nat \ {0}) \cup {Absent} /\ end \in Nat \ {0} /\ chart[3] \in Granularities \cup {"auto"}
      BY <2>1, ReportsAssumption DEF ReportsTypeOK
    <2>3. start \in Nat \ {0}
      <3>1. ActivityDays \in SUBSET Days
        BY <2>1, EntriesAreDated
      <3>2. QED
        BY <2>2, <3>1, EarliestIs DEF WindowStart
    <2> HIDE DEF start, end
    <2>4. cut[1] \in Nat \ {0} /\ cut[2] \in Nat \ {0} /\ (start <= end => cut[1] <= cut[2])
      <3> DEFINE first == Earliest(FlowDays)
                 from == IF first # Absent /\ start < first /\ first <= end THEN first ELSE start
      <3>1. first # Absent => first \in Nat \ {0}
        <4>1. FlowDays \in SUBSET Days
          BY <2>1, EntriesAreDated
        <4>2. QED
          BY <4>1, EarliestIs
      <3>2. cut = <<from, IF from <= today /\ today < end THEN today ELSE end>>
        BY DEF CashFlowWindow
      <3> HIDE DEF first
      <3>3. from \in Nat \ {0} /\ (start <= end => from <= end)
        BY <2>2, <2>3, <3>1 DEF end
      <3> HIDE DEF from, cut
      <3>4. QED
        BY <2>1, <2>2, <3>2, <3>3 DEF end
    <2> HIDE DEF cut
    <2>5. CutsWithoutRest(start, end, chart[3]) /\ CutsWithoutRest(cut[1], cut[2], chart[3])
      BY <2>2, <2>3, <2>4, EveryWindowIsCut DEF end
    <2>6. \A w \in {<<start, end>>, cut} : (start <= end => w[1] <= w[2]) /\ CutsWithoutRest(w[1], w[2], chart[3])
      BY <2>4, <2>5
    <2>7. QED
      BY <2>6 DEF WindowsAreCut, start, end, cut
  <1>2. QED
    BY <1>1, ReportsInductive, PTL

-----------------------------------------------------------------------------
(* Money                                                                   *)

Money(S) == [f \in S |-> f.amount]
Flows(S) == IsFiniteSet(S) /\ \A f \in S : f.amount \in Int

LEMMA MoneyIs ==
  ASSUME NEW S, Flows(S)
  PROVE  /\ IntOn(Money(S), S)
         /\ Sum(S) = SumOver(Money(S), S) /\ Sum(S) \in Int
         /\ \A T \in SUBSET S : Flows(T)
  <1>1. IntOn(Money(S), S) /\ IsFiniteSet(S)
    BY DEF IntOn, Money, Flows
  <1> DEFINE m == Money(S)
             Iter(g) == [s \in SUBSET S |-> IF s = {} THEN 0 ELSE Pick(s).amount + g[s \ {Pick(s)}]]
  <1>2. \A g : Iter(g) = SumStep(m, S, g)
    <2>1. \A s \in SUBSET S : s # {} => m[Pick(s)] = Pick(s).amount
      BY DEF Pick, Money
    <2>2. QED
      BY <2>1 DEF SumStep
  <1> HIDE DEF m
  <1>3. PICK h : h = (CHOOSE g : g = Iter(g))
    OBVIOUS
  <1>4. h = Iter(h)
    <2>1. \E g : g = Iter(g)
      <3> HIDE DEF Iter
      <3> QED BY <1>1, <1>2, SumThere DEF m
    <2>2. QED
      BY <1>3, <2>1
  <1>5. h[S] = SumOver(m, S)
    <2> HIDE DEF Iter
    <2>1. S \in SUBSET S /\ h = SumStep(m, S, h)
      BY <1>2, <1>4
    <2>2. QED
      BY <1>1, <2>1, SumIs DEF m
  <1>6. Sum(S) = h[S]
    BY <1>3 DEF Sum, MapThenSumSet, MapThenFoldSet, Pick
  <1>7. \A s \in SUBSET S : SumOver(m, s) \in Int
    BY <1>1, SumRules DEF m
  <1>8. \A T \in SUBSET S : Flows(T)
    BY FS_Subset DEF Flows
  <1>9. QED
    BY <1>1, <1>5, <1>6, <1>7, <1>8 DEF m

LEMMA PartIs ==
  ASSUME NEW S, Flows(S), NEW T \in SUBSET S
  PROVE  Flows(T) /\ Sum(T) = SumOver(Money(S), T) /\ Sum(T) \in Int
  <1>1. Flows(T)
    BY MoneyIs
  <1>2. Sum(T) = SumOver(Money(T), T) /\ Sum(T) \in Int /\ IntOn(Money(T), T) /\ IsFiniteSet(T)
    BY <1>1, MoneyIs DEF Flows
  <1>3. \A x \in T : Money(S)[x] = Money(T)[x]
    BY DEF Money
  <1>4. SumOver(Money(S), T) = SumOver(Money(T), T)
    BY <1>2, <1>3, SumSame
  <1>5. QED
    BY <1>1, <1>2, <1>4

LEMMA FunctionSum == \A F : SumFunction(F) = SumOver(F, DOMAIN F)
  BY DEF SumFunction, SumFunctionOnSet, FoldFunctionOnSet, MapThenFoldSet, SumOver, SumStep, Pick

\* Added up by any keys, flows come to the same.
LEMMA KeysAddUp ==
  ASSUME NEW S, Flows(S), NEW K, IsFiniteSet(K), NEW k, \A f \in S : k[f] \in K,
         NEW h, \A n \in K : h[n] = Sum(Keyed(S, k, n))
  PROVE  IntOn(h, K) /\ SumOver(h, K) = Sum(S)
  <1>1. \A n \in K : h[n] = SumOver(Money(S), Keyed(S, k, n))
    <2> SUFFICES ASSUME NEW n \in K PROVE Sum(Keyed(S, k, n)) = SumOver(Money(S), Keyed(S, k, n))
      OBVIOUS
    <2>1. Keyed(S, k, n) \in SUBSET S
      BY DEF Keyed
    <2>2. QED
      BY <2>1, PartIs
  <1>2. IsFiniteSet(S) /\ IntOn(Money(S), S) /\ Sum(S) = SumOver(Money(S), S)
    BY MoneyIs DEF Flows
  <1>3. QED
    BY <1>1, <1>2, SumParts

\* One side of a graph adds up to its flows.
LEMMA SideAddsUp ==
  ASSUME NEW S, Flows(S), NEW sign \in {1, -1}
  PROVE  SumFunction(Side(S, sign)) = sign * Sum(S)
  <1> DEFINE K == {Node(f) : f \in S}
             k == [f \in S |-> Node(f)]
             h == [n \in K |-> Sum(Keyed(S, k, n))]
             side == Side(S, sign)
  <1>1. IsFiniteSet(K)
    <2>1. k \in Surjection(S, K)
      BY DEF Surjection
    <2> HIDE DEF k, K
    <2>2. QED
      BY <2>1, FS_Surjection DEF Flows
  <1>2. \A n \in K : Keyed(S, k, n) = {f \in S : Node(f) = n}
    BY DEF Keyed
  <1>3. DOMAIN side = K /\ \A n \in K : side[n] = sign * h[n]
    BY <1>2 DEF Side
  <1>4. IntOn(h, K) /\ SumOver(h, K) = Sum(S)
    <2>1. (\A f \in S : k[f] \in K) /\ \A n \in K : h[n] = Sum(Keyed(S, k, n))
      OBVIOUS
    <2> HIDE DEF k, K, h
    <2>2. QED
      BY <1>1, <2>1, KeysAddUp
  <1>5. SumFunction(side) = SumOver(side, K)
    BY <1>3, FunctionSum
  <1>6. Sum(S) \in Int /\ \A n \in K : h[n] \in Int
    BY <1>4, MoneyIs DEF IntOn
  <1> HIDE DEF k, K, h, side
  <1>7. CASE sign = 1
    <2>1. \A n \in K : side[n] = h[n]
      BY <1>3, <1>6, <1>7
    <2>2. SumOver(side, K) = SumOver(h, K)
      BY <1>1, <1>4, <2>1, SumSame
    <2>3. QED
      BY <1>4, <1>5, <1>6, <1>7, <2>2 DEF side
  <1>8. CASE sign = -1
    <2>1. \A n \in K : side[n] = -h[n]
      BY <1>3, <1>6, <1>8
    <2>2. SumOver(side, K) = -SumOver(h, K)
      BY <1>1, <1>4, <2>1, SumOpposite
    <2>3. QED
      BY <1>4, <1>5, <1>6, <1>8, <2>2 DEF side
  <1>9. QED
    BY <1>7, <1>8

-----------------------------------------------------------------------------
(* Entries                                                                 *)

LEMMA EntriesAre ==
  ASSUME ReportsTypeOK, NEW i \in DOMAIN rows
  PROVE  /\ IsFiniteSet(Entries(i))
         /\ \A f \in Entries(i) : /\ f.amount \in Int \cup {Absent} /\ f.owner \in Owners
                                  /\ f.on = rows[i].day /\ f.on \in Days /\ f.account = rows[i].account
                                  /\ f.source = "transaction" /\ f.category \in Categories \cup {Absent}
  <1> DEFINE row == rows[i]
             Entry(k, category, amount, split) ==
               [id |-> <<i, k>>, category |-> category, account |-> row.account, amount |-> amount,
                owner |-> EffectiveOwner(split, row.owner, row.account), source |-> "transaction", on |-> row.day]
             whole == Entry(0, row.category, row.base, Absent)
             Leg(k) == Entry(k, row.splits[k].category, row.splits[k].base, row.splits[k].owner)
             legs == {Leg(k) : k \in DOMAIN row.splits}
  <1>1. Entries(i) = IF row.splits = <<>> THEN {whole} ELSE legs
    BY DEF Entries
  <1>2. row \in Row
    BY DEF ReportsTypeOK
  <1>3. /\ row.account \in Accounts /\ row.day \in Days /\ row.base \in Int \cup {Absent}
        /\ row.category \in Categories \cup {Absent} /\ row.owner \in Owners \cup {Absent} /\ row.splits \in Seq(Part)
    BY <1>2 DEF Row
  <1>4. \A k \in DOMAIN row.splits : /\ row.splits[k].category \in Categories \cup {Absent}
                                     /\ row.splits[k].owner \in Owners \cup {Absent}
                                     /\ row.splits[k].base \in Int \cup {Absent}
    <2>1. \A k \in DOMAIN row.splits : row.splits[k] \in Part
      BY <1>3
    <2>2. QED
      BY <2>1 DEF Part
  <1>5. OwnerOf[row.account] \in Owners /\ \A split \in Owners \cup {Absent} :
          EffectiveOwner(split, row.owner, row.account) \in Owners
    <2>1. OwnerOf[row.account] \in Owners
      BY <1>3, ReportsAssumption
    <2>2. QED
      BY <1>3, <2>1 DEF EffectiveOwner
  <1>6. IsFiniteSet(legs) /\ IsFiniteSet({whole})
    <2>1. DOMAIN row.splits = 1..Len(row.splits) /\ Len(row.splits) \in Nat
      BY <1>3
    <2>2. IsFiniteSet(DOMAIN row.splits)
      BY <2>1, FS_Interval
    <2> DEFINE D == DOMAIN row.splits
               leg == [k \in D |-> Leg(k)]
    <2>3. leg \in Surjection(D, legs)
      BY DEF Surjection
    <2> HIDE DEF legs, D, leg, whole
    <2>4. IsFiniteSet(legs)
      BY <2>2, <2>3, FS_Surjection DEF D
    <2>5. IsFiniteSet({whole})
      BY FS_Singleton
    <2>6. QED
      BY <2>4, <2>5
  <1>7. \A f \in Entries(i) : /\ f.amount \in Int \cup {Absent} /\ f.owner \in Owners
                              /\ f.on = rows[i].day /\ f.on \in Days /\ f.account = rows[i].account
                              /\ f.source = "transaction" /\ f.category \in Categories \cup {Absent}
    <2>1. CASE row.splits = <<>>
      <3>1. Absent \in Owners \cup {Absent}
        OBVIOUS
      <3>2. QED
        BY <1>1, <1>3, <1>5, <2>1, <3>1
    <2>2. CASE row.splits # <<>>
      BY <1>1, <1>3, <1>4, <1>5, <2>2
    <2>3. QED
      BY <2>1, <2>2
  <1>8. QED
    BY <1>1, <1>6, <1>7

\* What a row's entries, and a trade's, are reported as, over every day.
RowFlows(scope) ==
  {f \in UNION {Entries(i) : i \in {j \in DOMAIN rows : /\ ~rows[j].hidden /\ rows[j].account \in scope.accounts
                                                        /\ scope.whole => rows[j].group = Absent}} :
     f.amount # Absent /\ (f.category # Absent => TypeOf[f.category] # "transfer")}
TradeFlow(i) ==
  [id |-> <<i, Absent>>, category |-> Absent, account |-> trades[i].account, amount |-> TradeBase(i),
   owner |-> OwnerOf[trades[i].account], source |-> trades[i].type, on |-> trades[i].day]
Reported(scope, i) ==
  /\ scope.whole \/ trades[i].account \in scope.accounts
  /\ trades[i].type \notin {"buy", "sell"}
  /\ trades[i].type = "transfer" => ~scope.whole
  /\ TradeBase(i) # Absent
AllFlows(scope) == RowFlows(scope) \cup {TradeFlow(i) : i \in {j \in DOMAIN trades : Reported(scope, j)}}

LEMMA AllFlowsAre ==
  ASSUME ReportsTypeOK, NEW scope
  PROVE  Flows(AllFlows(scope)) /\ \A f \in AllFlows(scope) : f.owner \in Owners /\ f.on \in Days /\ f.on \in Int
  <1> DEFINE own == {j \in DOMAIN rows : /\ ~rows[j].hidden /\ rows[j].account \in scope.accounts
                                         /\ scope.whole => rows[j].group = Absent}
             told == {j \in DOMAIN trades : Reported(scope, j)}
             fromTrades == {TradeFlow(i) : i \in told}
             each == {Entries(i) : i \in own}
  <1>1. IsFiniteSet(DOMAIN rows) /\ IsFiniteSet(DOMAIN trades)
    <2>1. rows \in Seq(Row) /\ trades \in Seq(TradeRow)
      BY DEF ReportsTypeOK
    <2>2. /\ DOMAIN rows = 1..Len(rows) /\ Len(rows) \in Nat
          /\ DOMAIN trades = 1..Len(trades) /\ Len(trades) \in Nat
      BY <2>1
    <2>3. QED
      BY <2>2, FS_Interval
  <1>2. IsFiniteSet(own) /\ IsFiniteSet(told)
    <2>1. own \in SUBSET DOMAIN rows /\ told \in SUBSET DOMAIN trades
      OBVIOUS
    <2> HIDE DEF own, told
    <2>2. QED
      BY <1>1, <2>1, FS_Subset
  <1>3. IsFiniteSet(UNION each)
    <2>1. [i \in own |-> Entries(i)] \in Surjection(own, each)
      BY DEF Surjection
    <2>2. \A e \in each : IsFiniteSet(e)
      BY EntriesAre
    <2> HIDE DEF own, each
    <2>3. IsFiniteSet(each)
      BY <1>2, <2>1, FS_Surjection
    <2>4. QED
      BY <2>2, <2>3, FS_UNION
  <1>4. IsFiniteSet(fromTrades)
    <2>1. [i \in told |-> TradeFlow(i)] \in Surjection(told, fromTrades)
      BY DEF Surjection
    <2> HIDE DEF told, fromTrades
    <2>2. QED
      BY <1>2, <2>1, FS_Surjection
  <1>5. \A f \in RowFlows(scope) : f.amount \in Int /\ f.owner \in Owners /\ f.on \in Days
    BY EntriesAre DEF RowFlows
  <1>6. \A f \in fromTrades : f.amount \in Int /\ f.owner \in Owners /\ f.on \in Days
    <2> SUFFICES ASSUME NEW i \in told
                 PROVE  TradeBase(i) \in Int /\ OwnerOf[trades[i].account] \in Owners /\ trades[i].day \in Days
      BY DEF TradeFlow
    <2>1. trades[i] \in TradeRow
      BY DEF ReportsTypeOK
    <2>2. trades[i].account \in Accounts /\ trades[i].day \in Days /\ trades[i].amount \in Int
      BY <2>1, ReportsAssumption DEF TradeRow
    <2>3. TradeBase(i) \in Int \cup {Absent}
      BY <2>2, Worth DEF TradeBase
    <2>4. QED
      BY <2>2, <2>3, ReportsAssumption DEF Reported
  <1>7. RowFlows(scope) \in SUBSET (UNION each)
    BY DEF RowFlows
  <1>8. IsFiniteSet(RowFlows(scope))
    <2> HIDE DEF each
    <2> QED BY <1>3, <1>7, FS_Subset
  <1>9. IsFiniteSet(AllFlows(scope))
    <2>1. AllFlows(scope) = RowFlows(scope) \cup fromTrades
      BY DEF AllFlows
    <2> HIDE DEF fromTrades
    <2>2. QED
      BY <1>4, <1>8, <2>1, FS_Union
  <1>10. \A d \in Days : d \in Int
    BY ReportsAssumption DEF Days
  <1>11. QED
    BY <1>5, <1>6, <1>9, <1>10 DEF AllFlows, Flows

\* A report's entries are those of its window, and an owner's those that are theirs.
LEMMA WindowOf ==
  ASSUME ReportsTypeOK, NEW start, NEW end, NEW scope, NEW owner
  PROVE  LoadEntries(start, end, scope, owner) =
           {f \in AllFlows(scope) : f.on \in start..end /\ (owner # Absent => f.owner = owner)}
  <1>1. \A i \in DOMAIN rows : \A f \in Entries(i) : f.on = rows[i].day
    BY EntriesAre
  <1>2. LedgerFlows(start, end, scope) = {f \in RowFlows(scope) : f.on \in start..end}
    BY <1>1 DEF LedgerFlows, RowFlows, ReportingRows
  <1>3. InvestmentFlows(start, end, scope) =
          {f \in {TradeFlow(i) : i \in {j \in DOMAIN trades : Reported(scope, j)}} : f.on \in start..end}
    BY DEF InvestmentFlows, TradeFlow, Reported
  <1>4. QED
    BY <1>2, <1>3 DEF LoadEntries, AllFlows

-----------------------------------------------------------------------------
(* One quantity, several reports                                           *)

LEMMA FlowsOf ==
  ASSUME ReportsTypeOK, NEW start, NEW end, NEW scope, NEW owner
  PROVE  LoadEntries(start, end, scope, owner) \in SUBSET AllFlows(scope) /\ Flows(LoadEntries(start, end, scope, owner))
  <1>1. LoadEntries(start, end, scope, owner) \in SUBSET AllFlows(scope)
    BY WindowOf
  <1>2. QED
    BY <1>1, AllFlowsAre, MoneyIs

\* What comes in and what goes out are parts of it.
Gains(S)  == {f \in S : f.amount > 0}
Losses(S) == {f \in S : f.amount < 0}

LEMMA HalvesAre ==
  ASSUME NEW S, Flows(S)
  PROVE  /\ Flows(Gains(S)) /\ Income(S) = Sum(Gains(S)) /\ Income(S) \in Int
         /\ Flows(Losses(S)) /\ Expense(S) = Sum(Losses(S)) /\ Expense(S) \in Int
  <1>1. Gains(S) \in SUBSET S /\ Losses(S) \in SUBSET S
    BY DEF Gains, Losses
  <1>2. Income(S) = Sum(Gains(S)) /\ Expense(S) = Sum(Losses(S))
    BY DEF Income, Expense, Gains, Losses
  <1>3. QED
    BY <1>1, <1>2, PartIs

\* The graph and the spending come to what the window came to.
LEMMA GraphAddsUp ==
  ASSUME ReportsTypeOK, NEW start, NEW end, NEW owner
  PROVE  LET flows == LoadEntries(start, end, Household, owner) IN
         /\ SumFunction(Sankey(start, end, owner).income) = Income(flows)
         /\ SumFunction(Sankey(start, end, owner).expense) = -Expense(flows)
         /\ SumFunction(Spending(start, end, owner)) = -Expense(flows)
  <1> DEFINE flows == LoadEntries(start, end, Household, owner)
  <1>1. Flows(flows)
    BY FlowsOf
  <1>2. /\ Sankey(start, end, owner).income = Side(Gains(flows), 1)
        /\ Sankey(start, end, owner).expense = Side(Losses(flows), -1)
        /\ Spending(start, end, owner) = Side(Losses(flows), -1)
    BY DEF Sankey, Spending, Gains, Losses
  <1> HIDE DEF flows
  <1>3. /\ Flows(Gains(flows)) /\ Income(flows) = Sum(Gains(flows)) /\ Income(flows) \in Int
        /\ Flows(Losses(flows)) /\ Expense(flows) = Sum(Losses(flows)) /\ Expense(flows) \in Int
    BY <1>1, HalvesAre
  <1>4. SumFunction(Side(Gains(flows), 1)) = 1 * Sum(Gains(flows))
    BY <1>3, SideAddsUp
  <1>5. SumFunction(Side(Losses(flows), -1)) = (-1) * Sum(Losses(flows))
    BY <1>3, SideAddsUp
  <1>6. QED
    BY <1>2, <1>3, <1>4, <1>5 DEF flows

\* Each bucket starts after the ones before it end.
LEMMA BucketsRise ==
  ASSUME NEW b, NEW n \in Nat \ {0}, NEW start \in Int, NEW end \in Int, NEW g, InARow(b, n, start, end, g)
  PROVE  \A k \in 1..n : \A j \in 1..n : k < j => b[j].start > b[k].end
  <1> SUFFICES ASSUME NEW k \in 1..n PROVE \A j \in 1..n : k < j => b[j].start > b[k].end
    OBVIOUS
  <1> DEFINE After == {m \in 0..(n - k - 1) : b[k + 1 + m].start > b[k].end}
  <1>1. \A j \in 1..n : b[j].start \in Int /\ b[j].end \in Int /\ b[j].start <= b[j].end
    BY DEF InARow
  <1>2. \A j \in 2..n : b[j].start = b[j - 1].end + 1
    BY DEF InARow
  <1>3. CASE k = n
    BY <1>3
  <1>4. CASE k # n
    <2>1. n - k - 1 \in Nat
      BY <1>4
    <2>2. 0 \in After
      <3>1. k + 1 \in 2..n /\ (k + 1) - 1 = k /\ k + 1 + 0 = k + 1
        BY <1>4
      <3>2. b[k + 1].start = b[k].end + 1 /\ b[k].end \in Int
        BY <1>1, <1>2, <3>1
      <3>3. QED
        BY <2>1, <3>1, <3>2
    <2>3. \A m \in 0..(n - k - 1 - 1) : m \in After => m + 1 \in After
      <3> SUFFICES ASSUME NEW m \in 0..(n - k - 1 - 1), b[k + 1 + m].start > b[k].end
                   PROVE  b[k + 1 + (m + 1)].start > b[k].end
        BY <2>1
      <3>1. /\ k + 1 + (m + 1) \in 2..n /\ (k + 1 + (m + 1)) - 1 = k + 1 + m
            /\ k + 1 + m \in 1..n /\ k + 1 + (m + 1) \in 1..n
        BY <2>1
      <3>2. b[k + 1 + (m + 1)].start = b[k + 1 + m].end + 1
        BY <1>2, <3>1
      <3>3. QED
        BY <1>1, <3>1, <3>2
    <2> HIDE DEF After
    <2>4. \A m \in 0..(n - k - 1) : m \in After
      BY <2>1, <2>2, <2>3, UpTo
    <2>5. SUFFICES ASSUME NEW j \in 1..n, k < j PROVE b[j].start > b[k].end
      OBVIOUS
    <2>6. j - k - 1 \in 0..(n - k - 1) /\ k + 1 + (j - k - 1) = j
      BY <2>5
    <2>7. QED
      BY <2>4, <2>6 DEF After
  <1>5. QED
    BY <1>3, <1>4

\* The last bucket that has begun by a day is the one that holds it.
LEMMA BucketHolds ==
  ASSUME NEW b, NEW n \in Nat \ {0}, NEW start \in Int, NEW end \in Int, NEW g, InARow(b, n, start, end, g),
         NEW on \in start..end, NEW k \in 1..n
  PROVE  Max({j \in DOMAIN b : b[j].start <= on}) = k <=> on \in b[k].start..b[k].end
  <1> DEFINE Begun == {j \in 1..n : b[j].start <= on}
  <1>1. /\ DOMAIN b = 1..n /\ b[1].start = start /\ b[n].end = end
        /\ \A j \in 1..n : b[j].start \in Int /\ b[j].end \in Int
        /\ \A j \in 2..n : b[j].start = b[j - 1].end + 1
    BY DEF InARow
  <1>2. \A i \in 1..n : \A j \in 1..n : i < j => b[j].start > b[i].end
    BY BucketsRise
  <1>3. PICK x \in Begun : \A y \in Begun : x >= y
    <2>1. Begun \in SUBSET (0..n) /\ 1 \in Begun
      BY <1>1
    <2> HIDE DEF Begun
    <2>2. QED
      BY <2>1, GreatestOne
  <1>4. Max({j \in DOMAIN b : b[j].start <= on}) = x
    <2>1. {j \in DOMAIN b : b[j].start <= on} = Begun
      BY <1>1
    <2>2. \A z \in Begun : (\A y \in Begun : z >= y) => z = x
      BY <1>3
    <2> HIDE DEF Begun
    <2>3. Max(Begun) = x
      BY <1>3, <2>2 DEF Max
    <2>4. QED
      BY <2>1, <2>3
  <1>5. x \in 1..n /\ b[x].start <= on
    BY <1>3
  <1>6. on <= b[x].end
    <2>1. CASE x = n
      BY <1>1, <2>1
    <2>2. CASE x # n
      <3>1. x + 1 \in 2..n /\ (x + 1) - 1 = x /\ x + 1 \in 1..n
        BY <1>5, <2>2
      <3>2. b[x + 1].start = b[x].end + 1
        BY <1>1, <3>1
      <3>3. ~(b[x + 1].start <= on)
        BY <1>3, <3>1
      <3>4. QED
        BY <1>1, <1>5, <3>1, <3>2, <3>3
    <2>3. QED
      BY <2>1, <2>2
  <1>7. on \in b[k].start..b[k].end => k = x
    <2> SUFFICES ASSUME b[k].start <= on, on <= b[k].end PROVE k = x
      OBVIOUS
    <2>1. ~(k < x)
      BY <1>1, <1>2, <1>5
    <2>2. ~(x < k)
      BY <1>1, <1>2, <1>5, <1>6
    <2>3. QED
      BY <1>5, <2>1, <2>2
  <1> HIDE DEF Begun
  <1>8. QED
    BY <1>1, <1>4, <1>5, <1>6, <1>7

\* Each bar is the report of its bucket alone.
LEMMA BarsAddUp ==
  ASSUME ReportsTypeOK, NEW start \in Day1, NEW end \in Int, start <= end, NEW g \in Granularities,
         NEW k \in DOMAIN CashFlowSeries(start, end, Absent, g)
  PROVE  LET bar    == CashFlowSeries(start, end, Absent, g)[k]
             bucket == Buckets(start, end, g)[k]
             alone  == LoadEntries(bucket.start, bucket.end, Household, Absent)
         IN bar.date \in start..end /\ bar.income = Income(alone) /\ bar.expense = Expense(alone)
  <1> DEFINE b     == Buckets(start, end, g)
             bars  == CashFlowSeries(start, end, Absent, g)
             flows == LoadEntries(start, end, Household, Absent)
             own   == {f \in flows : Max({j \in DOMAIN b : b[j].start <= f.on}) = k}
             alone == LoadEntries(b[k].start, b[k].end, Household, Absent)
  <1>1. Resolve(g, start, end) = g
    BY DEF Resolve, Granularities
  <1>2. bars = [i \in DOMAIN b |->
                  [date |-> b[i].start,
                   income  |-> Income({f \in flows : Max({j \in DOMAIN b : b[j].start <= f.on}) = i}),
                   expense |-> Expense({f \in flows : Max({j \in DOMAIN b : b[j].start <= f.on}) = i})]]
    BY <1>1 DEF CashFlowSeries
  <1>3. PICK n \in Nat \ {0} : InARow(b, n, start, end, g)
    BY BucketsAre
  <1>4. start \in Int
    BY DEF Day1
  <1>5. k \in 1..n /\ DOMAIN b = 1..n
    <2> HIDE DEF b, flows
    <2>1. DOMAIN b = 1..n
      BY <1>3 DEF InARow
    <2>2. k \in DOMAIN b
      BY <1>2
    <2>3. QED
      BY <2>1, <2>2
  <1>6. bars[k].date = b[k].start /\ bars[k].income = Income(own) /\ bars[k].expense = Expense(own)
    <2> HIDE DEF b, flows, bars
    <2>1. QED
      BY <1>2, <1>5
  <1> HIDE DEF b
  <1>7. b[k].start \in Int /\ b[k].end \in Int /\ start <= b[k].start /\ b[k].start <= b[k].end /\ b[k].end <= end
    <2>1. /\ b[1].start = start /\ b[n].end = end
          /\ \A j \in 1..n : b[j].start \in Int /\ b[j].end \in Int /\ b[j].start <= b[j].end
      BY <1>3 DEF InARow
    <2>2. \A i \in 1..n : \A j \in 1..n : i < j => b[j].start > b[i].end
      BY <1>3, <1>4, BucketsRise
    <2>3. 1 \in 1..n /\ n \in 1..n
      OBVIOUS
    <2>4. start <= b[k].start
      <3>1. CASE k = 1
        BY <2>1, <2>3, <3>1
      <3>2. CASE k # 1
        <4>1. 1 < k
          BY <1>5, <3>2
        <4>2. b[k].start > b[1].end /\ b[1].start <= b[1].end
          BY <1>5, <2>1, <2>2, <2>3, <4>1
        <4>3. QED
          BY <1>5, <2>1, <2>3, <4>2
      <3>3. QED
        BY <3>1, <3>2
    <2>5. b[k].end <= end
      <3>1. CASE k = n
        BY <2>1, <3>1
      <3>2. CASE k # n
        <4>1. k < n
          BY <1>5, <3>2
        <4>2. b[n].start > b[k].end /\ b[n].start <= b[n].end
          BY <1>5, <2>1, <2>2, <2>3, <4>1
        <4>3. QED
          BY <1>5, <2>1, <2>3, <4>2
      <3>3. QED
        BY <3>1, <3>2
    <2>6. QED
      BY <1>5, <2>1, <2>4, <2>5
  <1>8. own = alone
    <2>1. /\ flows = {f \in AllFlows(Household) : f.on \in start..end}
          /\ alone = {f \in AllFlows(Household) : f.on \in b[k].start..b[k].end}
      BY WindowOf
    <2>2. \A f \in AllFlows(Household) : f.on \in Int
      BY AllFlowsAre
    <2>3. \A on \in start..end : Max({j \in DOMAIN b : b[j].start <= on}) = k <=> on \in b[k].start..b[k].end
      BY <1>3, <1>4, <1>5, BucketHolds
    <2> HIDE DEF flows, alone
    <2>4. own = {f \in flows : f.on \in b[k].start..b[k].end}
      BY <2>1, <2>3
    <2>5. QED
      BY <1>4, <1>7, <2>1, <2>2, <2>4
  <1>9. bars[k].date \in start..end
    BY <1>4, <1>6, <1>7
  <1>10. QED
    BY <1>6, <1>8, <1>9 DEF b

\* The days a chart is cut to are those money moved on, but for those that are ahead.
LEMMA CutIsWhole ==
  ASSUME ReportsTypeOK, Derived \subseteq Visible
  PROVE  LET from == WindowStart(Absent, LastDay + 40)
             cut  == CashFlowWindow(FirstDay - 40, LastDay + 40)
         IN LoadEntries(cut[1], cut[2], Household, Absent)
              = LoadEntries(from, LastDay + 40, Household, Absent) \ Ahead(from, LastDay + 40)
  <1> DEFINE last  == LastDay + 40
             from  == WindowStart(Absent, last)
             cut   == CashFlowWindow(FirstDay - 40, last)
             first == Earliest(FlowDays)
             ends  == IF first <= today THEN today ELSE last
  <1>1. FlowDays \in SUBSET Days /\ ActivityDays \in SUBSET Days /\ FlowDays \subseteq ActivityDays
    BY EntriesAreDated
  <1>2. today \in Days /\ today \in Int /\ today < last /\ FirstDay - 40 \in Int /\ FirstDay \in Int
        /\ last \in Int /\ \A d \in Days : d \in Int /\ FirstDay - 40 < d /\ d <= last
    BY ReportsAssumption DEF ReportsTypeOK, Days
  <1>3. \A f \in AllFlows(Household) : f.on \in FlowDays
    <2>1. \A f \in RowFlows(Household) : f.on \in FlowDays
      <3> SUFFICES ASSUME NEW f \in RowFlows(Household) PROVE f.on \in FlowDays
        OBVIOUS
      <3>1. PICK i \in DOMAIN rows : ~rows[i].hidden /\ rows[i].account \in Visible /\ f \in Entries(i)
        BY DEF RowFlows, Household
      <3>2. f.on = rows[i].day
        BY <3>1, EntriesAre
      <3>3. QED
        BY <3>1, <3>2 DEF FlowDays
    <2>2. \A i \in DOMAIN trades : trades[i].day \in FlowDays
      <3> SUFFICES ASSUME NEW i \in DOMAIN trades PROVE trades[i].account \in Visible
        BY DEF FlowDays
      <3>1. trades[i] \in TradeRow
        BY DEF ReportsTypeOK
      <3>2. trades[i].account \in Derived
        BY <3>1 DEF Derived, TradeRow
      <3>3. QED
        BY <3>2
    <2>3. QED
      BY <2>1, <2>2 DEF AllFlows, TradeFlow
  <1>4. /\ LoadEntries(from, last, Household, Absent) = {f \in AllFlows(Household) : f.on \in from..last}
        /\ LoadEntries(cut[1], cut[2], Household, Absent) = {f \in AllFlows(Household) : f.on \in cut[1]..cut[2]}
        /\ Ahead(from, last) = {f \in LoadEntries(from, last, Household, Absent) :
                                  f.on > today /\ \E day \in FlowDays : day <= today}
    BY WindowOf DEF Ahead
  <1>5. CASE FlowDays = {}
    BY <1>3, <1>4, <1>5
  <1>6. CASE FlowDays # {}
    <2>1. first # Absent /\ first \in FlowDays /\ first \in Int /\ \A d \in FlowDays : first <= d
      BY <1>1, <1>2, <1>6, EarliestIs
    <2>2. from \in Int /\ \A d \in FlowDays : from <= d
      <3>1. ActivityDays # {}
        BY <1>1, <1>6
      <3>2. /\ Earliest(ActivityDays) # Absent /\ Earliest(ActivityDays) \in Nat \ {0}
            /\ \A d \in ActivityDays : Earliest(ActivityDays) <= d
        BY <1>1, <3>1, EarliestIs
      <3>3. from = Earliest(ActivityDays)
        BY <3>2 DEF WindowStart
      <3>4. QED
        BY <1>1, <3>2, <3>3
    <2>3. FirstDay - 40 < first /\ first <= last
      BY <1>1, <1>2, <2>1
    <2>4. cut = <<first, ends>>
      <3> HIDE DEF first, last
      <3>1. CashFlowWindow(FirstDay - 40, last) = <<first, IF first <= today THEN today ELSE last>>
        BY <1>2, <2>1, <2>3 DEF CashFlowWindow, first
      <3>2. QED
        BY <3>1
    <2>5. \A d \in FlowDays : d \in from..last /\ (d \in first..ends <=> ~(first <= today /\ d > today))
      BY <1>1, <1>2, <2>1, <2>2
    <2>6. (\E day \in FlowDays : day <= today) <=> first <= today
      BY <1>1, <1>2, <2>1
    <2> HIDE DEF first, from, last, cut, ends
    <2>7. cut[1] = first /\ cut[2] = ends
      BY <2>4
    <2>8. QED
      BY <1>3, <1>4, <2>5, <2>6, <2>7 DEF from, last, cut
  <1>7. QED
    BY <1>5, <1>6

\* The owners' money is the household's.
LEMMA OwnersIncome ==
  ASSUME NEW flows, NEW h, IntOn(h, Owners), \A o \in Owners : h[o] = Income(flows[o])
  PROVE  MapThenSumSet(LAMBDA o : Income(flows[o]), Owners) = SumOver(h, Owners)
  <1> DEFINE Iter(g) == [s \in SUBSET Owners |-> IF s = {} THEN 0 ELSE Income(flows[Pick(s)]) + g[s \ {Pick(s)}]]
  <1>1. IsFiniteSet(Owners)
    BY ReportsAssumption
  <1>2. \A g : Iter(g) = SumStep(h, Owners, g)
    <2>1. \A s \in SUBSET Owners : s # {} => h[Pick(s)] = Income(flows[Pick(s)])
      BY DEF Pick
    <2>2. QED
      BY <2>1 DEF SumStep
  <1>3. PICK i : i = (CHOOSE g : g = Iter(g))
    OBVIOUS
  <1>4. i = Iter(i)
    <2>1. \E g : g = Iter(g)
      <3> HIDE DEF Iter
      <3> QED BY <1>1, <1>2, SumThere
    <2>2. QED
      BY <1>3, <2>1
  <1>5. i[Owners] = SumOver(h, Owners)
    <2> HIDE DEF Iter
    <2>1. Owners \in SUBSET Owners /\ i = SumStep(h, Owners, i)
      BY <1>2, <1>4
    <2>2. QED
      BY <1>1, <2>1, SumIs
  <1>6. MapThenSumSet(LAMBDA o : Income(flows[o]), Owners) = i[Owners]
    BY <1>3 DEF MapThenSumSet, MapThenFoldSet, Pick
  <1>7. QED
    BY <1>5, <1>6

LEMMA OwnersExpense ==
  ASSUME NEW flows, NEW h, IntOn(h, Owners), \A o \in Owners : h[o] = Expense(flows[o])
  PROVE  MapThenSumSet(LAMBDA o : Expense(flows[o]), Owners) = SumOver(h, Owners)
  <1> DEFINE Iter(g) == [s \in SUBSET Owners |-> IF s = {} THEN 0 ELSE Expense(flows[Pick(s)]) + g[s \ {Pick(s)}]]
  <1>1. IsFiniteSet(Owners)
    BY ReportsAssumption
  <1>2. \A g : Iter(g) = SumStep(h, Owners, g)
    <2>1. \A s \in SUBSET Owners : s # {} => h[Pick(s)] = Expense(flows[Pick(s)])
      BY DEF Pick
    <2>2. QED
      BY <2>1 DEF SumStep
  <1>3. PICK i : i = (CHOOSE g : g = Iter(g))
    OBVIOUS
  <1>4. i = Iter(i)
    <2>1. \E g : g = Iter(g)
      <3> HIDE DEF Iter
      <3> QED BY <1>1, <1>2, SumThere
    <2>2. QED
      BY <1>3, <2>1
  <1>5. i[Owners] = SumOver(h, Owners)
    <2> HIDE DEF Iter
    <2>1. Owners \in SUBSET Owners /\ i = SumStep(h, Owners, i)
      BY <1>2, <1>4
    <2>2. QED
      BY <1>1, <2>1, SumIs
  <1>6. MapThenSumSet(LAMBDA o : Expense(flows[o]), Owners) = i[Owners]
    BY <1>3 DEF MapThenSumSet, MapThenFoldSet, Pick
  <1>7. QED
    BY <1>5, <1>6

LEMMA OwnersAddUp ==
  ASSUME ReportsTypeOK, NEW start, NEW end
  PROVE  LET flows == [owner \in Owners \cup {Absent} |-> LoadEntries(start, end, Household, owner)] IN
         /\ MapThenSumSet(LAMBDA o : Income(flows[o]), Owners) = Income(flows[Absent])
         /\ MapThenSumSet(LAMBDA o : Expense(flows[o]), Owners) = Expense(flows[Absent])
  <1> DEFINE flows == [owner \in Owners \cup {Absent} |-> LoadEntries(start, end, Household, owner)]
             all   == flows[Absent]
             in    == [o \in Owners |-> Income(flows[o])]
             out   == [o \in Owners |-> Expense(flows[o])]
             gain  == [f \in Gains(all) |-> f.owner]
             loss  == [f \in Losses(all) |-> f.owner]
  <1>1. Absent \notin Owners /\ IsFiniteSet(Owners)
    BY ReportsAssumption
  <1>2. Flows(all) /\ \A f \in all : f.owner \in Owners
    <2>1. all = LoadEntries(start, end, Household, Absent)
      OBVIOUS
    <2> HIDE DEF all
    <2>2. Flows(all) /\ all \in SUBSET AllFlows(Household)
      BY <2>1, FlowsOf
    <2>3. QED
      BY <2>2, AllFlowsAre
  <1>3. \A o \in Owners : flows[o] = {f \in all : f.owner = o}
    <2> SUFFICES ASSUME NEW o \in Owners
                 PROVE  LoadEntries(start, end, Household, o) = {f \in LoadEntries(start, end, Household, Absent) : f.owner = o}
      OBVIOUS
    <2>1. /\ LoadEntries(start, end, Household, o) =
               {f \in AllFlows(Household) : f.on \in start..end /\ (o # Absent => f.owner = o)}
          /\ LoadEntries(start, end, Household, Absent) =
               {f \in AllFlows(Household) : f.on \in start..end /\ (Absent # Absent => f.owner = Absent)}
      BY WindowOf
    <2>2. QED
      BY <1>1, <2>1
  <1> HIDE DEF flows, all
  <1>4. /\ \A o \in Owners : Gains(flows[o]) = Keyed(Gains(all), gain, o)
        /\ \A o \in Owners : Losses(flows[o]) = Keyed(Losses(all), loss, o)
    BY <1>3 DEF Gains, Losses, Keyed
  <1>5. \A o \in Owners : Flows(flows[o])
    BY <1>2, <1>3, MoneyIs
  <1>6. /\ \A o \in Owners : in[o] = Sum(Keyed(Gains(all), gain, o))
        /\ \A o \in Owners : out[o] = Sum(Keyed(Losses(all), loss, o))
    BY <1>4, <1>5, HalvesAre
  <1>7. (\A f \in Gains(all) : gain[f] \in Owners) /\ (\A f \in Losses(all) : loss[f] \in Owners)
    BY <1>2 DEF Gains, Losses
  <1>8. /\ \A o \in Owners : in[o] = Income(flows[o])
        /\ \A o \in Owners : out[o] = Expense(flows[o])
    OBVIOUS
  <1>9. /\ Flows(Gains(all)) /\ Income(all) = Sum(Gains(all))
        /\ Flows(Losses(all)) /\ Expense(all) = Sum(Losses(all))
    BY <1>2, HalvesAre
  <1> HIDE DEF in, out, gain, loss
  <1>10. IntOn(in, Owners) /\ SumOver(in, Owners) = Sum(Gains(all))
    BY <1>1, <1>6, <1>7, <1>9, KeysAddUp
  <1>11. IntOn(out, Owners) /\ SumOver(out, Owners) = Sum(Losses(all))
    BY <1>1, <1>6, <1>7, <1>9, KeysAddUp
  <1>12. MapThenSumSet(LAMBDA o : Income(flows[o]), Owners) = SumOver(in, Owners)
    BY <1>8, <1>10, OwnersIncome
  <1>13. MapThenSumSet(LAMBDA o : Expense(flows[o]), Owners) = SumOver(out, Owners)
    BY <1>8, <1>11, OwnersExpense
  <1>14. QED
    BY <1>9, <1>10, <1>11, <1>12, <1>13 DEF flows, all

\* Bars, graph and spending, a bucket alone, the owners together, and the chart of
\* a longer window are one quantity, whatever the household has done.
THEOREM SameMoneyForAll == BudgetsSpec => []SameMoney
  <1>1. ReportsInv => SameMoney
    <2> SUFFICES ASSUME ReportsInv, NEW w \in Windows
                 PROVE
      LET flows == [owner \in Owners \union {Absent} |-> LoadEntries(w[1], w[2], Household, owner)]
          from  == WindowStart(Absent, LastDay + 40)
          cut   == CashFlowWindow(FirstDay - 40, LastDay + 40)
      IN /\ \A owner \in Owners \union {Absent} :
              /\ \A graph \in {Sankey(w[1], w[2], owner)} :
                   /\ SumFunction(graph.income) = Income(flows[owner])
                   /\ SumFunction(graph.expense) = -Expense(flows[owner])
              /\ SumFunction(Spending(w[1], w[2], owner)) = -Expense(flows[owner])
         /\ \A granularity \in Bars :
              LET bars == CashFlowSeries(w[1], w[2], Absent, granularity) IN
              \A k \in DOMAIN bars : \A bucket \in {Buckets(w[1], w[2], granularity)[k]} :
                \A alone \in {LoadEntries(bucket.start, bucket.end, Household, Absent)} :
                  /\ bars[k].date \in w[1]..w[2]
                  /\ bars[k].income = Income(alone) /\ bars[k].expense = Expense(alone)
         /\ Derived \subseteq Visible =>
              LoadEntries(cut[1], cut[2], Household, Absent)
                = LoadEntries(from, LastDay + 40, Household, Absent) \ Ahead(from, LastDay + 40)
         /\ MapThenSumSet(LAMBDA o : Income(flows[o]), Owners) = Income(flows[Absent])
         /\ MapThenSumSet(LAMBDA o : Expense(flows[o]), Owners) = Expense(flows[Absent])
      BY DEF SameMoney
    <2>1. ReportsTypeOK
      BY DEF ReportsInv
    <2>2. w[1] \in Day1 /\ w[2] \in Int /\ w[1] <= w[2]
      BY <2>1, ReportsAssumption DEF Windows, Day1, ReportsTypeOK, Days
    <2>3. \A owner \in Owners \union {Absent} :
            /\ SumFunction(Sankey(w[1], w[2], owner).income) = Income(LoadEntries(w[1], w[2], Household, owner))
            /\ SumFunction(Sankey(w[1], w[2], owner).expense) = -Expense(LoadEntries(w[1], w[2], Household, owner))
            /\ SumFunction(Spending(w[1], w[2], owner)) = -Expense(LoadEntries(w[1], w[2], Household, owner))
      BY <2>1, GraphAddsUp
    <2>4. ASSUME NEW granularity \in Bars, NEW k \in DOMAIN CashFlowSeries(w[1], w[2], Absent, granularity)
          PROVE  LET bar    == CashFlowSeries(w[1], w[2], Absent, granularity)[k]
                     bucket == Buckets(w[1], w[2], granularity)[k]
                     alone  == LoadEntries(bucket.start, bucket.end, Household, Absent)
                 IN bar.date \in w[1]..w[2] /\ bar.income = Income(alone) /\ bar.expense = Expense(alone)
      <3>1. granularity \in Granularities
        BY ReportsAssumption
      <3>2. QED
        BY <2>1, <2>2, <3>1, BarsAddUp
    <2>5. Derived \subseteq Visible =>
            LET from == WindowStart(Absent, LastDay + 40)
                cut  == CashFlowWindow(FirstDay - 40, LastDay + 40)
            IN LoadEntries(cut[1], cut[2], Household, Absent)
                 = LoadEntries(from, LastDay + 40, Household, Absent) \ Ahead(from, LastDay + 40)
      BY <2>1, CutIsWhole
    <2>6. LET flows == [owner \in Owners \union {Absent} |-> LoadEntries(w[1], w[2], Household, owner)] IN
          /\ MapThenSumSet(LAMBDA o : Income(flows[o]), Owners) = Income(flows[Absent])
          /\ MapThenSumSet(LAMBDA o : Expense(flows[o]), Owners) = Expense(flows[Absent])
      BY <2>1, OwnersAddUp
    <2>7. QED
      BY <2>3, <2>4, <2>5, <2>6
  <1>2. QED
    BY <1>1, ReportsInductive, PTL

-----------------------------------------------------------------------------
(* Plans and spending                                                      *)

Losing(start, end) == Losses(LoadEntries(start, end, Household, Absent))

\* A month's report hangs on the month alone.
ReportFor(first) ==
  LET spent    == Spending(first, EndOf(first), Absent)
      planned  == {p \in plans : p.period = first}
      listed   == {p.category : p \in planned}
      SpentOn(c) == IF c \in DOMAIN spent THEN spent[c] ELSE 0
      covered  == MapThenSumSet(SpentOn, listed)
  IN [rows       |-> [c \in listed \union (DOMAIN spent \intersect Categories) |->
                        [budget |-> IF c \in listed THEN (CHOOSE p \in planned : p.category = c).amount ELSE Absent,
                         spent  |-> SpentOn(c)]],
      total      |-> SumFunction(spent),
      budgeted   |-> covered,
      unbudgeted |-> SumFunction(spent) - covered]

LEMMA ReportIs == \A day : BudgetReport(day) = ReportFor(PeriodOf(day))
  BY DEF BudgetReport, ReportFor

\* The months, and the days that are in each.
TheMonths == {PeriodStart(day, "month") : day \in Days}

LEMMA MonthsAre ==
  /\ IsFiniteSet(TheMonths)
  /\ \A day \in Days : PeriodOf(day) \in TheMonths /\ PeriodOf(PeriodOf(day)) = PeriodOf(day)
  /\ \A m \in TheMonths : PeriodOf(m) = m
  /\ \A m \in TheMonths : \A on \in Days : on \in m..EndOf(m) <=> PeriodOf(on) = m
  /\ \A on \in Days : on \in PeriodStart(FirstDay, "month")..PeriodEnd(LastDay, "month")
  <1>1. Days \in SUBSET Day1 /\ FirstDay \in Days /\ LastDay \in Days /\ IsFiniteSet(Days)
        /\ \A on \in Days : FirstDay <= on /\ on <= LastDay /\ on \in Int
    BY FS_Interval, ReportsAssumption DEF Days, Day1
  <1>2. \A day \in Day1 : PeriodFine(day, "month")
    BY PeriodsAreFine DEF Granularities
  <1>3. ASSUME NEW day \in Day1
        PROVE  /\ PeriodOf(day) \in Day1 /\ PeriodOf(PeriodOf(day)) = PeriodOf(day)
               /\ EndOf(PeriodOf(day)) \in Int
               /\ PeriodOf(day) <= day /\ day <= EndOf(PeriodOf(day))
               /\ \A d \in PeriodOf(day)..EndOf(PeriodOf(day)) : PeriodOf(d) = PeriodOf(day)
               /\ PeriodEnd(day, "month") = EndOf(PeriodOf(day))
    <2> DEFINE first == PeriodStart(day, "month")
               length == PeriodLength(first, "month")
    <2>1. /\ first \in Day1 /\ length \in Nat /\ first <= day /\ day < first + length
          /\ \A d \in first..(first + length - 1) : PeriodStart(d, "month") = first
      BY <1>2 DEF PeriodFine
    <2>2. PeriodOf(day) = first /\ PeriodEnd(day, "month") = first + length - 1
      BY DEF PeriodOf, PeriodEnd
    <2>3. first \in Int /\ day \in Int
      BY <2>1 DEF Day1
    <2>4. PeriodStart(first, "month") = first
      BY <2>1, <2>3
    <2>5. EndOf(first) = first + length - 1
      BY <2>4 DEF EndOf, PeriodEnd
    <2> HIDE DEF first, length
    <2>6. PeriodOf(first) = first
      BY <2>4 DEF PeriodOf
    <2>7. \A d \in first..(first + length - 1) : PeriodOf(d) = first
      BY <2>1 DEF PeriodOf
    <2>8. QED
      BY <2>1, <2>2, <2>3, <2>5, <2>6, <2>7
  <1>4. IsFiniteSet(TheMonths)
    <2> DEFINE f == [day \in Days |-> PeriodStart(day, "month")]
    <2>1. f \in Surjection(Days, TheMonths)
      BY DEF Surjection, TheMonths
    <2> HIDE DEF f
    <2>2. QED
      BY <1>1, <2>1, FS_Surjection
  <1>5. \A m \in TheMonths : \E day \in Day1 : m = PeriodOf(day)
    BY <1>1 DEF TheMonths, PeriodOf
  <1>6. \A day \in Days : PeriodOf(day) \in TheMonths
    BY DEF TheMonths, PeriodOf
  <1>7. ASSUME NEW m \in TheMonths PROVE PeriodOf(m) = m /\ \A on \in Days : on \in m..EndOf(m) <=> PeriodOf(on) = m
    <2>1. PICK day \in Day1 : m = PeriodOf(day)
      BY <1>5
    <2>2. PeriodOf(m) = m /\ m \in Day1 /\ EndOf(m) \in Int /\ \A d \in m..EndOf(m) : PeriodOf(d) = m
      BY <1>3, <2>1
    <2>3. ASSUME NEW on \in Days, PeriodOf(on) = m PROVE on \in m..EndOf(m)
      <3>1. on \in Day1 /\ on \in Int
        BY <1>1
      <3>2. PeriodOf(on) <= on /\ on <= EndOf(PeriodOf(on))
        BY <1>3, <3>1
      <3>3. QED
        BY <2>2, <2>3, <3>1, <3>2 DEF Day1
    <2>4. QED
      BY <2>2, <2>3
  <1>8. ASSUME NEW on \in Days PROVE on \in PeriodStart(FirstDay, "month")..PeriodEnd(LastDay, "month")
    <2>1. FirstDay \in Day1 /\ LastDay \in Day1 /\ FirstDay <= on /\ on <= LastDay /\ on \in Int
      BY <1>1
    <2>2. PeriodStart(FirstDay, "month") \in Day1 /\ PeriodStart(FirstDay, "month") <= FirstDay
      BY <1>3, <2>1 DEF PeriodOf
    <2>3. PeriodEnd(LastDay, "month") \in Int /\ LastDay <= PeriodEnd(LastDay, "month")
      BY <1>3, <2>1
    <2>4. QED
      BY <2>1, <2>2, <2>3 DEF Day1
  <1>9. \A day \in Days : PeriodOf(PeriodOf(day)) = PeriodOf(day)
    BY <1>1, <1>3
  <1>10. QED
    BY <1>4, <1>6, <1>7, <1>8, <1>9

LEMMA TotalIsLost ==
  ASSUME ReportsTypeOK, NEW first
  PROVE  ReportFor(first).total = -Sum(Losing(first, EndOf(first))) /\ Sum(Losing(first, EndOf(first))) \in Int
  <1>1. ReportFor(first).total = SumFunction(Spending(first, EndOf(first), Absent))
    BY DEF ReportFor
  <1>2. SumFunction(Spending(first, EndOf(first), Absent)) = -Expense(LoadEntries(first, EndOf(first), Household, Absent))
    BY GraphAddsUp
  <1>3. Flows(LoadEntries(first, EndOf(first), Household, Absent))
    BY FlowsOf
  <1>4. QED
    BY <1>1, <1>2, <1>3, HalvesAre DEF Losing

\* Month by month, nothing that was spent is left out.
LEMMA MonthsAddUp ==
  ASSUME ReportsTypeOK
  PROVE  MapThenSumSet(LAMBDA m : BudgetReport(m).total, TheMonths)
           = SumFunction(Spending(PeriodStart(FirstDay, "month"), PeriodEnd(LastDay, "month"), Absent))
  <1> DEFINE from  == PeriodStart(FirstDay, "month")
             to    == PeriodEnd(LastDay, "month")
             all   == Losing(from, to)
             month == [f \in all |-> PeriodOf(f.on)]
             lost  == [m \in TheMonths |-> Sum(Keyed(all, month, m))]
             total == [m \in TheMonths |-> BudgetReport(m).total]
             Iter(g) == [s \in SUBSET TheMonths |->
                           IF s = {} THEN 0 ELSE BudgetReport(Pick(s)).total + g[s \ {Pick(s)}]]
  <1>1. /\ LoadEntries(from, to, Household, Absent) = {f \in AllFlows(Household) : f.on \in from..to}
        /\ Flows(LoadEntries(from, to, Household, Absent))
    BY WindowOf, FlowsOf
  <1>2. Flows(all) /\ Sum(all) \in Int /\ Expense(LoadEntries(from, to, Household, Absent)) = Sum(all)
    BY <1>1, HalvesAre DEF Losing
  <1>3. \A f \in AllFlows(Household) : f.on \in Days /\ f.on \in from..to
    BY AllFlowsAre, MonthsAre
  <1>4. \A f \in all : f.on \in Days /\ month[f] \in TheMonths
    <2>1. \A f \in all : f.on \in Days
      BY <1>1, <1>3 DEF Losing, Losses
    <2>2. QED
      BY <2>1, MonthsAre
  <1>5. \A m \in TheMonths : Losing(m, EndOf(m)) = Keyed(all, month, m)
    <2> SUFFICES ASSUME NEW m \in TheMonths PROVE Losing(m, EndOf(m)) = Keyed(all, month, m)
      OBVIOUS
    <2>1. LoadEntries(m, EndOf(m), Household, Absent) = {f \in AllFlows(Household) : f.on \in m..EndOf(m)}
      BY WindowOf
    <2>2. \A on \in Days : on \in m..EndOf(m) <=> PeriodOf(on) = m
      BY MonthsAre
    <2>3. LoadEntries(m, EndOf(m), Household, Absent) = {f \in LoadEntries(from, to, Household, Absent) : PeriodOf(f.on) = m}
      <3> HIDE DEF from, to
      <3>1. QED
        BY <1>1, <1>3, <2>1, <2>2
    <2> HIDE DEF from, to
    <2>4. QED
      BY <2>3 DEF Losing, Losses, Keyed
  <1>6. \A m \in TheMonths : total[m] = -lost[m]
    <2> SUFFICES ASSUME NEW m \in TheMonths PROVE BudgetReport(m).total = -Sum(Keyed(all, month, m))
      OBVIOUS
    <2>1. BudgetReport(m) = ReportFor(m)
      BY ReportIs, MonthsAre
    <2>2. QED
      BY <1>5, <2>1, TotalIsLost
  <1>7. \A g : Iter(g) = SumStep(total, TheMonths, g)
    <2>1. \A s \in SUBSET TheMonths : s # {} => total[Pick(s)] = BudgetReport(Pick(s)).total
      BY DEF Pick
    <2> HIDE DEF total
    <2>2. QED
      BY <2>1 DEF SumStep
  <1> HIDE DEF from, to, all, month, lost, total
  <1>8. IsFiniteSet(TheMonths)
    BY MonthsAre
  <1>9. IntOn(lost, TheMonths) /\ SumOver(lost, TheMonths) = Sum(all)
    <2>1. \A m \in TheMonths : lost[m] = Sum(Keyed(all, month, m))
      BY DEF lost
    <2>2. QED
      BY <1>2, <1>4, <1>8, <2>1, KeysAddUp
  <1>10. IntOn(total, TheMonths) /\ SumOver(total, TheMonths) = -Sum(all)
    <2>1. IntOn(total, TheMonths)
      BY <1>6, <1>9 DEF IntOn
    <2>2. QED
      BY <1>6, <1>8, <1>9, <2>1, SumOpposite
  <1>11. PICK i : i = (CHOOSE g : g = Iter(g))
    OBVIOUS
  <1>12. i = Iter(i)
    <2>1. \E g : g = Iter(g)
      <3> HIDE DEF Iter
      <3> QED BY <1>7, <1>8, <1>10, SumThere
    <2>2. QED
      BY <1>11, <2>1
  <1>13. i[TheMonths] = SumOver(total, TheMonths)
    <2> HIDE DEF Iter
    <2>1. TheMonths \in SUBSET TheMonths /\ i = SumStep(total, TheMonths, i)
      BY <1>7, <1>12
    <2>2. QED
      BY <1>8, <1>10, <2>1, SumIs
  <1>14. MapThenSumSet(LAMBDA m : BudgetReport(m).total, TheMonths) = i[TheMonths]
    BY <1>11 DEF MapThenSumSet, MapThenFoldSet, Pick
  <1>15. SumFunction(Spending(from, to, Absent)) = -Sum(all)
    BY <1>2, GraphAddsUp
  <1>16. QED
    BY <1>10, <1>13, <1>14, <1>15 DEF from, to

\* What plans cover is part of what was spent.
LEMMA LossesAreLosses ==
  ASSUME NEW S, Flows(S), \A f \in S : f.amount < 0
  PROVE  Sum(S) \in Int /\ Sum(S) <= 0
  <1> DEFINE m == Money(S)
             h == [f \in S |-> -f.amount]
  <1>1. IsFiniteSet(S) /\ IntOn(m, S) /\ Sum(S) = SumOver(m, S) /\ Sum(S) \in Int
    BY MoneyIs DEF Flows
  <1>2. \A f \in S : h[f] = -m[f] /\ h[f] \in Int /\ h[f] >= 0
    BY DEF Flows, Money
  <1> HIDE DEF m, h
  <1>3. SumOver(h, S) = -SumOver(m, S)
    BY <1>1, <1>2, SumOpposite
  <1>4. SumOver(h, S) \in Nat
    <2>1. IntOn(h, S) /\ S \in SUBSET S
      BY <1>2 DEF IntOn
    <2>2. QED
      BY <1>1, <1>2, <2>1, SumPart
  <1>5. QED
    BY <1>1, <1>3, <1>4

LEMMA CoveredIs ==
  ASSUME NEW spent, NEW listed, IsFiniteSet(listed), NEW h, IntOn(h, listed),
         \A c \in listed : h[c] = IF c \in DOMAIN spent THEN spent[c] ELSE 0
  PROVE  MapThenSumSet(LAMBDA c : IF c \in DOMAIN spent THEN spent[c] ELSE 0, listed) = SumOver(h, listed)
  <1> DEFINE Iter(g) == [s \in SUBSET listed |->
                           IF s = {} THEN 0
                           ELSE (IF Pick(s) \in DOMAIN spent THEN spent[Pick(s)] ELSE 0) + g[s \ {Pick(s)}]]
  <1>1. \A g : Iter(g) = SumStep(h, listed, g)
    <2>1. \A s \in SUBSET listed : s # {} => h[Pick(s)] = IF Pick(s) \in DOMAIN spent THEN spent[Pick(s)] ELSE 0
      BY DEF Pick
    <2>2. QED
      BY <2>1 DEF SumStep
  <1>2. PICK i : i = (CHOOSE g : g = Iter(g))
    OBVIOUS
  <1>3. i = Iter(i)
    <2>1. \E g : g = Iter(g)
      <3> HIDE DEF Iter
      <3> QED BY <1>1, SumThere
    <2>2. QED
      BY <1>2, <2>1
  <1>4. i[listed] = SumOver(h, listed)
    <2> HIDE DEF Iter
    <2>1. listed \in SUBSET listed /\ i = SumStep(h, listed, i)
      BY <1>1, <1>3
    <2>2. QED
      BY <2>1, SumIs
  <1>5. MapThenSumSet(LAMBDA c : IF c \in DOMAIN spent THEN spent[c] ELSE 0, listed) = i[listed]
    BY <1>2 DEF MapThenSumSet, MapThenFoldSet, Pick
  <1>6. QED
    BY <1>4, <1>5

LEMMA NothingIsOvercounted ==
  ASSUME ReportsTypeOK, IsFiniteSet(plans), NEW first
  PROVE  ReportFor(first).unbudgeted >= 0
  <1> DEFINE S      == Losing(first, EndOf(first))
             N      == {Node(f) : f \in S}
             spent  == Spending(first, EndOf(first), Absent)
             listed == {p.category : p \in {q \in plans : q.period = first}}
             every  == listed \cup N
             h      == [c \in every |-> IF c \in N THEN spent[c] ELSE 0]
             cover  == MapThenSumSet(LAMBDA c : IF c \in DOMAIN spent THEN spent[c] ELSE 0, listed)
  <1>1. Flows(S) /\ \A f \in S : f.amount < 0 /\ f.amount \in Int
    <2>1. Flows(LoadEntries(first, EndOf(first), Household, Absent))
      BY FlowsOf
    <2>2. Flows(S)
      BY <2>1, HalvesAre DEF Losing
    <2>3. QED
      BY <2>2 DEF Losing, Losses, Flows
  <1>2. spent = Side(S, -1)
    BY DEF Spending, Losing, Losses
  <1>3. DOMAIN spent = N /\ \A n \in N : spent[n] \in Int /\ spent[n] >= 0
    <2> HIDE DEF S, spent
    <2>1. DOMAIN spent = N /\ \A n \in N : spent[n] = (-1) * Sum({f \in S : Node(f) = n})
      BY <1>2 DEF Side
    <2>2. ASSUME NEW n \in N PROVE spent[n] \in Int /\ spent[n] >= 0
      <3> DEFINE T == {f \in S : Node(f) = n}
      <3>1. T \in SUBSET S
        OBVIOUS
      <3>2. \A f \in T : f.amount < 0
        BY <1>1
      <3>3. spent[n] = (-1) * Sum(T)
        BY <2>1
      <3> HIDE DEF T
      <3>4. Flows(T)
        BY <1>1, <3>1, MoneyIs
      <3>5. Sum(T) \in Int /\ Sum(T) <= 0
        BY <3>2, <3>4, LossesAreLosses
      <3>6. QED
        BY <3>3, <3>5
    <2>3. QED
      BY <2>1, <2>2
  <1>4. IsFiniteSet(N) /\ IsFiniteSet(listed)
    <2> DEFINE k == [f \in S |-> Node(f)]
               P == {q \in plans : q.period = first}
               c == [p \in P |-> p.category]
    <2>1. k \in Surjection(S, N) /\ c \in Surjection(P, listed)
      BY DEF Surjection
    <2>2. P \in SUBSET plans
      OBVIOUS
    <2> HIDE DEF k, P, c, S, N, listed
    <2>3. IsFiniteSet(P) /\ IsFiniteSet(S)
      BY <1>1, <2>2, FS_Subset DEF Flows
    <2>4. QED
      BY <2>1, <2>3, FS_Surjection
  <1>5. ReportFor(first).unbudgeted = SumFunction(spent) - cover
    BY DEF ReportFor
  <1> HIDE DEF S, spent, N, listed
  <1>6. IsFiniteSet(every) /\ IntOn(h, every) /\ \A c \in every : h[c] >= 0
    <2>1. IsFiniteSet(every)
      BY <1>4, FS_Union
    <2>2. \A c \in every : h[c] \in Int /\ h[c] >= 0
      BY <1>3
    <2>3. QED
      BY <2>1, <2>2 DEF IntOn
  <1>7. cover = SumOver(h, listed)
    <2>1. IntOn(h, listed) /\ \A c \in listed : h[c] = IF c \in DOMAIN spent THEN spent[c] ELSE 0
      BY <1>3, <1>6 DEF IntOn
    <2> HIDE DEF h
    <2>2. QED
      BY <1>4, <2>1, CoveredIs
  <1> DEFINE rest == every \ N
  <1>8. N \in SUBSET every /\ rest \in SUBSET every /\ listed \in SUBSET every /\ N \cap rest = {} /\ every = N \cup rest
    OBVIOUS
  <1>9. \A x \in rest : h[x] = 0
    OBVIOUS
  <1>10. SumFunction(spent) = SumOver(h, N)
    <2>1. IntOn(h, N) /\ \A n \in N : spent[n] = h[n]
      BY <1>3 DEF IntOn
    <2>2. SumFunction(spent) = SumOver(spent, N)
      BY <1>3, FunctionSum
    <2> HIDE DEF h
    <2>3. QED
      BY <1>4, <2>1, <2>2, SumSame
  <1> HIDE DEF h, every, rest, cover
  <1>11. SumOver(h, rest) = 0
    <2>1. IsFiniteSet(rest) /\ IntOn(h, rest) /\ \A x \in rest : h[x] = -h[x]
      BY <1>6, <1>8, <1>9, FS_Subset DEF IntOn
    <2>2. SumOver(h, rest) = -SumOver(h, rest) /\ SumOver(h, rest) \in Int
      BY <1>6, <1>8, <2>1, SumOpposite, SumRules
    <2>3. QED
      BY <2>2
  <1>12. SumOver(h, every) = SumOver(h, N) + SumOver(h, rest) /\ SumOver(h, N) \in Int
    <2>1. SumOver(h, N \cup rest) = SumOver(h, N) + SumOver(h, rest)
      BY <1>6, <1>8, SumUnion
    <2>2. SumOver(h, N) \in Int
      BY <1>6, <1>8, SumRules
    <2>3. QED
      BY <1>8, <2>1, <2>2
  <1>13. SumOver(h, listed) <= SumOver(h, every) /\ SumOver(h, listed) \in Nat
    BY <1>6, <1>8, SumPart
  <1>14. QED
    BY <1>5, <1>7, <1>10, <1>11, <1>12, <1>13

\* A plan is read in its own month, and in no other.
LEMMA PlansAreCounted ==
  ASSUME PlansAreApart, NEW c
  PROVE  Cardinality({p \in plans : p.category = c})
           = Cardinality({m \in TheMonths : c \in DOMAIN BudgetReport(m).rows /\ BudgetReport(m).rows[c].budget # Absent})
  <1> DEFINE P == {p \in plans : p.category = c}
             M == {m \in TheMonths : c \in DOMAIN BudgetReport(m).rows /\ BudgetReport(m).rows[c].budget # Absent}
             f == [p \in P |-> p.period]
  <1>1. IsFiniteSet(P)
    <2>1. P \in SUBSET plans /\ IsFiniteSet(plans)
      BY DEF PlansAreApart
    <2>2. QED
      BY <2>1, FS_Subset
  <1>2. ASSUME NEW m \in TheMonths PROVE m \in M <=> \E p \in P : p.period = m
    <2> DEFINE spent   == Spending(m, EndOf(m), Absent)
               planned == {p \in plans : p.period = m}
               listed  == {p.category : p \in planned}
               lines   == ReportFor(m).rows
    <2>1. BudgetReport(m) = ReportFor(m)
      BY ReportIs, MonthsAre
    <2>2. /\ DOMAIN lines = listed \union (DOMAIN spent \intersect Categories)
          /\ \A x \in DOMAIN lines : lines[x].budget =
               IF x \in listed THEN (CHOOSE p \in planned : p.category = x).amount ELSE Absent
      BY DEF ReportFor
    <2>3. c \in listed => (CHOOSE p \in planned : p.category = c).amount # Absent
      <3> SUFFICES ASSUME c \in listed PROVE (CHOOSE p \in planned : p.category = c).amount # Absent
        OBVIOUS
      <3>1. \E p \in planned : p.category = c
        OBVIOUS
      <3>2. (CHOOSE p \in planned : p.category = c) \in planned
        BY <3>1
      <3>3. (CHOOSE p \in planned : p.category = c).amount \in PlanAmounts
        BY <3>2 DEF PlansAreApart
      <3>4. QED
        BY <3>3, PlansAssumption
    <2>4. c \in listed <=> \E p \in P : p.period = m
      OBVIOUS
    <2> HIDE DEF listed, spent, planned
    <2>5. m \in M <=> c \in DOMAIN lines /\ lines[c].budget # Absent
      BY <2>1
    <2> HIDE DEF lines, M, P
    <2>6. QED
      BY <2>2, <2>3, <2>4, <2>5
  <1>3. \A p \in P : p.period \in TheMonths
    BY DEF PlansAreApart, TheMonths, PeriodOf
  <1>4. M \in SUBSET TheMonths
    OBVIOUS
  <1>5. f \in Surjection(P, M) /\ f \in Injection(P, M)
    <2>1. \A p \in P : \A q \in P : p.period = q.period => p = q
      BY DEF PlansAreApart
    <2> HIDE DEF P, M
    <2>2. f \in [P -> M]
      BY <1>2, <1>3
    <2>3. \A m \in M : \E p \in P : f[p] = m
      BY <1>2, <1>4
    <2>4. \A p, q \in P : f[p] = f[q] => p = q
      BY <2>1
    <2> HIDE DEF f
    <2>5. QED
      BY <2>2, <2>3, <2>4 DEF Surjection, Injection, IsInjective
  <1> HIDE DEF P, M, f
  <1>6. Cardinality(M) = Cardinality(P)
    BY <1>1, <1>5, FS_Surjection
  <1>7. QED
    BY <1>6 DEF P, M

\* Whichever day of a month a budget is asked for, the report is the month's; over the
\* months nothing that was spent is left out, and no plan is read in two of them.
THEOREM PlansMeetTheSpendingForAll == BudgetsSpec => []PlansMeetTheSpending
  <1>1. ReportsInv => PlansMeetTheSpending
    <2> SUFFICES ASSUME ReportsInv PROVE PlansMeetTheSpending
      OBVIOUS
    <2>1. ReportsTypeOK /\ PlansAreApart /\ IsFiniteSet(plans)
      BY DEF ReportsInv, PlansAreApart
    <2>2. MapThenSumSet(LAMBDA m : BudgetReport(m).total, TheMonths)
            = SumFunction(Spending(PeriodStart(FirstDay, "month"), PeriodEnd(LastDay, "month"), Absent))
      BY <2>1, MonthsAddUp
    <2>3. ASSUME NEW day \in Days
          PROVE  /\ BudgetReport(day) = BudgetReport(PeriodStart(day, "month"))
                 /\ BudgetReport(day).unbudgeted >= 0
      <3>1. PeriodOf(PeriodOf(day)) = PeriodOf(day) /\ PeriodOf(day) = PeriodStart(day, "month")
        BY MonthsAre DEF PeriodOf
      <3>2. BudgetReport(day) = ReportFor(PeriodOf(day)) /\ BudgetReport(PeriodOf(day)) = ReportFor(PeriodOf(PeriodOf(day)))
        BY ReportIs
      <3>3. QED
        BY <2>1, <3>1, <3>2, NothingIsOvercounted
    <2>4. ASSUME NEW c \in Categories
          PROVE  Cardinality({p \in plans : p.category = c})
                   = Cardinality({m \in TheMonths : c \in DOMAIN BudgetReport(m).rows
                                                    /\ BudgetReport(m).rows[c].budget # Absent})
      BY <2>1, PlansAreCounted
    <2>5. QED
      BY <2>2, <2>3, <2>4 DEF PlansMeetTheSpending, TheMonths
  <1>2. QED
    BY <1>1, ReportsInductive, PTL

-----------------------------------------------------------------------------
(* What money is worth                                                     *)

\* A row is worth what its day's rate makes of it, and its parts add up to that.
RowFits(row) ==
  /\ row.base = InBase(row.amount, CurrencyOf[row.account], row.day)
  /\ row.base # Absent /\ row.splits # <<>> =>
       /\ Len(row.splits) = 2 /\ row.splits[1].base \in Int /\ row.splits[2].base \in Int
       /\ row.splits[1].base + row.splits[2].base = row.base

\* A purchase or a sale is followed by the cash that pays for it, and nothing else
\* is a trade in cash; what comes in or goes out is as much cash as it is money.
Deals == {"buy", "sell"}
Pays(t, u) ==
  /\ u.account = t.account /\ u.day = t.day
  /\ u.security = Cash /\ u.type \in Deals /\ u.quantity = t.amount
DealsArePaid ==
  \A i \in DOMAIN trades :
    /\ trades[i].type \notin Deals => trades[i].security = Cash /\ trades[i].quantity = trades[i].amount
    /\ trades[i].security # Cash => i + 1 \in DOMAIN trades /\ Pays(trades[i], trades[i + 1])
    /\ trades[i].security = Cash /\ trades[i].type \in Deals =>
         i - 1 \in DOMAIN trades /\ trades[i - 1].security # Cash

RowsFit == \A i \in DOMAIN rows : RowFits(rows[i])
WorthInv == RowsFit /\ DealsArePaid

LEMMA SameRow ==
  ASSUME NEW row, NEW old, RowFits(old), row.base = old.base, row.amount = old.amount, row.account = old.account,
         row.day = old.day, row.splits = old.splits
  PROVE  RowFits(row)
  BY DEF RowFits

LEMMA RatesStay ==
  ASSUME UNCHANGED <<rates, rows>>, RowsFit
  PROVE  RowsFit'
  BY DEF RowsFit, RowFits, InBase, RateOn

LEMMA RowsRefit ==
  ASSUME UNCHANGED rates, \A i \in DOMAIN rows' : RowFits(rows'[i])
  PROVE  RowsFit'
  BY DEF RowsFit, RowFits, InBase, RateOn

LEMMA RowsFitOn ==
  ASSUME ReportsInv, RowsFit, Posting \/ Filing \/ Hiding
  PROVE  RowsFit' /\ UNCHANGED trades
  <1>0. ReportsTypeOK /\ rows \in Seq(Row) /\ DOMAIN rows = 1..Len(rows) /\ Len(rows) \in Nat /\ Absent \notin Int
    BY ReportsAssumption DEF ReportsInv, ReportsTypeOK
  <1>1. CASE Posting
    <2>1. PICK p \in Posts[kind], day \in Days : Post(p.account, p.amount, p.category, p.owner, day)
      BY <1>1 DEF Posting, EntryDays
    <2> DEFINE row == [account |-> p.account, day |-> day, entered |-> today, amount |-> p.amount,
                       base |-> InBase(p.amount, CurrencyOf[p.account], day),
                       category |-> p.category, owner |-> p.owner, group |-> Absent, hidden |-> FALSE, splits |-> <<>>]
    <2>2. rows' = Append(rows, row) /\ UNCHANGED <<rates, trades>>
      BY <2>1 DEF Post, Enter, world
    <2>3. RowFits(row)
      BY DEF RowFits
    <2> HIDE DEF row
    <2>4. DOMAIN rows' = 1..(Len(rows) + 1) /\ \A i \in DOMAIN rows' : rows'[i] = IF i = Len(rows) + 1 THEN row ELSE rows[i]
      BY <1>0, <2>2
    <2>5. \A i \in DOMAIN rows' : RowFits(rows'[i])
      BY <1>0, <2>3, <2>4 DEF RowsFit
    <2>6. QED
      BY <2>2, <2>5, RowsRefit
  <1>2. CASE Filing
    <2>1. ASSUME NEW i \in DOMAIN rows, NEW p \in Parts, SplitRow(i, p.category, p.owner)
          PROVE  RowsFit' /\ UNCHANGED trades
      <3> DEFINE old == rows[i]
                 half == IF old.base = Absent THEN Absent ELSE old.base \div 2
                 parts == <<[category |-> p.category, owner |-> p.owner, base |-> half],
                            [category |-> old.category, owner |-> Absent,
                             base |-> IF half = Absent THEN Absent ELSE old.base - half]>>
                 row == [old EXCEPT !.splits = parts]
      <3>1. rows' = [rows EXCEPT ![i] = row] /\ UNCHANGED <<rates, trades>>
        BY <2>1 DEF SplitRow, world
      <3>2. old \in Row /\ RowFits(old) /\ old.base \in Int \cup {Absent}
        <4>1. old \in Row
          BY <1>0
        <4>2. QED
          BY <4>1 DEF RowsFit, Row
      <3>3. /\ row.base = old.base /\ row.amount = old.amount /\ row.account = old.account
            /\ row.day = old.day /\ row.splits = parts
        BY <3>2 DEF Row
      <3>4. old.base # Absent => half \in Int /\ old.base - half \in Int /\ half + (old.base - half) = old.base /\ half # Absent
        BY <1>0, <3>2
      <3>5. Len(parts) = 2 /\ parts[1].base = half /\ parts[2].base = IF half = Absent THEN Absent ELSE old.base - half
        OBVIOUS
      <3> HIDE DEF row, parts, half
      <3>6. RowFits(row)
        BY <3>2, <3>3, <3>4, <3>5 DEF RowFits
      <3>7. \A j \in DOMAIN rows' : RowFits(rows'[j])
        BY <1>0, <3>1, <3>6 DEF RowsFit
      <3>8. QED
        BY <3>1, <3>7, RowsRefit
    <2>2. ASSUME NEW i \in DOMAIN rows, NEW j \in DOMAIN rows, Link(i, j)
          PROVE  RowsFit' /\ UNCHANGED trades
      <3>1. rows' = [rows EXCEPT ![i].group = i, ![j].group = i] /\ UNCHANGED <<rates, trades>>
        BY <2>2 DEF Link, world
      <3>2. ASSUME NEW k \in DOMAIN rows PROVE RowFits(rows'[k])
        <4>1. rows[k] \in Row /\ RowFits(rows[k])
          BY <1>0 DEF RowsFit
        <4>2. /\ rows'[k].base = rows[k].base /\ rows'[k].amount = rows[k].amount
              /\ rows'[k].account = rows[k].account /\ rows'[k].day = rows[k].day /\ rows'[k].splits = rows[k].splits
          BY <1>0, <3>1, <4>1 DEF Row
        <4>3. QED
          BY <4>1, <4>2, SameRow
      <3>3. DOMAIN rows' = DOMAIN rows
        BY <3>1
      <3>4. QED
        BY <3>1, <3>2, <3>3, RowsRefit
    <2>3. QED
      BY <1>2, <2>1, <2>2 DEF Filing
  <1>3. CASE Hiding
    <2>1. ASSUME NEW i \in DOMAIN rows, HideRow(i)
          PROVE  RowsFit' /\ UNCHANGED trades
      <3>1. rows' = [rows EXCEPT ![i].hidden = TRUE] /\ UNCHANGED <<rates, trades>>
        BY <2>1 DEF HideRow, world
      <3>2. ASSUME NEW k \in DOMAIN rows PROVE RowFits(rows'[k])
        <4>1. rows[k] \in Row /\ RowFits(rows[k])
          BY <1>0 DEF RowsFit
        <4>2. /\ rows'[k].base = rows[k].base /\ rows'[k].amount = rows[k].amount
              /\ rows'[k].account = rows[k].account /\ rows'[k].day = rows[k].day /\ rows'[k].splits = rows[k].splits
          BY <1>0, <3>1, <4>1 DEF Row
        <4>3. QED
          BY <4>1, <4>2, SameRow
      <3>3. DOMAIN rows' = DOMAIN rows
        BY <3>1
      <3>4. QED
        BY <3>1, <3>2, <3>3, RowsRefit
    <2>2. ASSUME NEW a \in Accounts, HideAccount(a)
          PROVE  RowsFit' /\ UNCHANGED trades
      BY <2>2, RatesStay DEF HideAccount, world
    <2>3. QED
      BY <1>3, <2>1, <2>2 DEF Hiding
  <1>4. QED
    BY <1>1, <1>2, <1>3

LEMMA DealsFitOn ==
  ASSUME ReportsInv, DealsArePaid, Investing
  PROVE  DealsArePaid' /\ UNCHANGED <<rates, rows>>
  <1>0. trades \in Seq(TradeRow) /\ DOMAIN trades = 1..Len(trades) /\ Len(trades) \in Nat
    BY DEF ReportsInv, ReportsTypeOK
  <1>1. ASSUME NEW a \in Investments, NEW p \in Securities, NEW quantity \in {-1, 2}, NEW day \in Days,
               Deal(a, p, quantity, day)
        PROVE  DealsArePaid' /\ UNCHANGED <<rates, rows>>
    <2> DEFINE paid == quantity * PriceOn(p, day)
               one == Trade(a, IF quantity > 0 THEN "buy" ELSE "sell", p, quantity, -paid, day)
               two == Trade(a, IF quantity > 0 THEN "sell" ELSE "buy", Cash, -paid, paid, day)
    <2>1. trades' = trades \o <<one, two>> /\ UNCHANGED <<rates, rows>> /\ p # Cash
      BY <1>1 DEF Deal, world
    <2>2. /\ one.account = a /\ one.day = day /\ one.security = p /\ one.type \in Deals
          /\ two.security = Cash /\ two.type \in Deals
          /\ Pays(one, two)
      BY DEF Trade, Pays, Deals
    <2> HIDE DEF one, two
    <2>3. /\ DOMAIN trades' = 1..(Len(trades) + 2)
          /\ \A i \in 1..Len(trades) : trades'[i] = trades[i]
          /\ trades'[Len(trades) + 1] = one /\ trades'[Len(trades) + 2] = two
      BY <1>0, <2>1
    <2>4. ASSUME NEW i \in DOMAIN trades'
          PROVE  /\ trades'[i].type \notin Deals => trades'[i].security = Cash /\ trades'[i].quantity = trades'[i].amount
                 /\ trades'[i].security # Cash => i + 1 \in DOMAIN trades' /\ Pays(trades'[i], trades'[i + 1])
                 /\ trades'[i].security = Cash /\ trades'[i].type \in Deals =>
                      i - 1 \in DOMAIN trades' /\ trades'[i - 1].security # Cash
      <3>1. CASE i \in 1..Len(trades)
        <4>1. i + 1 \in DOMAIN trades => i + 1 \in DOMAIN trades' /\ trades'[i + 1] = trades[i + 1]
          BY <1>0, <2>3
        <4>2. i - 1 \in DOMAIN trades => i - 1 \in DOMAIN trades' /\ trades'[i - 1] = trades[i - 1]
          BY <1>0, <2>3
        <4>3. trades'[i] = trades[i] /\ i \in DOMAIN trades
          BY <1>0, <2>3, <3>1
        <4>4. QED
          BY <4>1, <4>2, <4>3 DEF DealsArePaid
      <3>2. CASE i = Len(trades) + 1
        <4>1. trades'[i] = one /\ i + 1 \in DOMAIN trades' /\ trades'[i + 1] = two
          BY <1>0, <2>3, <3>2
        <4>2. QED
          BY <2>1, <2>2, <4>1
      <3>3. CASE i = Len(trades) + 2
        <4>1. trades'[i] = two /\ i - 1 \in DOMAIN trades' /\ trades'[i - 1] = one
          BY <1>0, <2>3, <3>3
        <4>2. QED
          BY <2>1, <2>2, <4>1
      <3>4. QED
        BY <1>0, <2>3, <3>1, <3>2, <3>3
    <2>5. DealsArePaid'
      BY <2>4 DEF DealsArePaid, Pays
    <2>6. QED
      BY <2>1, <2>5
  <1>2. ASSUME NEW a \in Investments, NEW type \in {"dividend", "fee", "transfer"}, NEW amount \in Int,
               NEW day \in Days, CashEvent(a, type, amount, day)
        PROVE  DealsArePaid' /\ UNCHANGED <<rates, rows>>
    <2> DEFINE one == Trade(a, type, Cash, amount, amount, day)
    <2>1. trades' = Append(trades, one) /\ UNCHANGED <<rates, rows>>
      BY <1>2 DEF CashEvent, world
    <2>2. one.security = Cash /\ one.type \notin Deals /\ one.quantity = one.amount
      BY DEF Trade, Deals
    <2> HIDE DEF one
    <2>3. /\ DOMAIN trades' = 1..(Len(trades) + 1)
          /\ \A i \in 1..Len(trades) : trades'[i] = trades[i]
          /\ trades'[Len(trades) + 1] = one
      BY <1>0, <2>1
    <2>4. ASSUME NEW i \in DOMAIN trades'
          PROVE  /\ trades'[i].type \notin Deals => trades'[i].security = Cash /\ trades'[i].quantity = trades'[i].amount
                 /\ trades'[i].security # Cash => i + 1 \in DOMAIN trades' /\ Pays(trades'[i], trades'[i + 1])
                 /\ trades'[i].security = Cash /\ trades'[i].type \in Deals =>
                      i - 1 \in DOMAIN trades' /\ trades'[i - 1].security # Cash
      <3>1. CASE i \in 1..Len(trades)
        <4>1. i + 1 \in DOMAIN trades => i + 1 \in DOMAIN trades' /\ trades'[i + 1] = trades[i + 1]
          BY <1>0, <2>3
        <4>2. i - 1 \in DOMAIN trades => i - 1 \in DOMAIN trades' /\ trades'[i - 1] = trades[i - 1]
          BY <1>0, <2>3
        <4>3. trades'[i] = trades[i] /\ i \in DOMAIN trades
          BY <1>0, <2>3, <3>1
        <4>4. QED
          BY <4>1, <4>2, <4>3 DEF DealsArePaid
      <3>2. CASE i = Len(trades) + 1
        BY <2>2, <2>3, <3>2
      <3>3. QED
        BY <1>0, <2>3, <3>1, <3>2
    <2>5. DealsArePaid'
      BY <2>4 DEF DealsArePaid, Pays
    <2>6. QED
      BY <2>1, <2>5
  <1>3. QED
    BY <1>1, <1>2 DEF Investing, EntryDays

LEMMA DealsStay ==
  ASSUME UNCHANGED trades, DealsArePaid
  PROVE  DealsArePaid'
  BY DEF DealsArePaid, Pays

\* Rows are worth what they were entered at, and what is bought is paid for.
THEOREM WorthInductive == BudgetsSpec => []WorthInv
  <1>1. BudgetsInit => WorthInv
    BY DEF BudgetsInit, ReportsInit, WorthInv, RowsFit, DealsArePaid
  <1>2. ReportsInv /\ WorthInv /\ [BudgetsNext]_budgetsVars => WorthInv'
    <2> SUFFICES ASSUME ReportsInv, WorthInv, [BudgetsNext]_budgetsVars PROVE WorthInv'
      OBVIOUS
    <2>0. RowsFit /\ DealsArePaid
      BY DEF WorthInv
    <2>1. ASSUME Posting \/ Filing \/ Hiding PROVE WorthInv'
      BY <2>0, <2>1, RowsFitOn, DealsStay DEF WorthInv
    <2>2. ASSUME Investing PROVE WorthInv'
      BY <2>0, <2>2, DealsFitOn, RatesStay DEF WorthInv
    <2>3. ASSUME UNCHANGED <<rates, rows, trades>> PROVE WorthInv'
      BY <2>0, <2>3, DealsStay, RatesStay DEF WorthInv
    <2>4. ASSUME NEW reporting, CloseDay(reporting) PROVE UNCHANGED <<rates, rows, trades>>
      BY <2>4 DEF CloseDay, world
    <2>5. Planning => UNCHANGED <<rates, rows, trades>>
      BY DEF Planning, SetBudget, ClearBudget, world
    <2>6. UNCHANGED budgetsVars => UNCHANGED <<rates, rows, trades>>
      BY DEF budgetsVars, reportsVars
    <2>7. QED
      BY <2>1, <2>2, <2>3, <2>4, <2>5, <2>6 DEF BudgetsNext, ReportsNext
  <1>3. QED
    BY <1>1, <1>2, ReportsInductive, PTL DEF BudgetsSpec

-----------------------------------------------------------------------------
(* What an account's change leaves unexplained                             *)

\* A window of a household in which all that it asks for can be known.
Answerable(start, end) ==
  ReportsInv /\ WorthInv /\ <<start, end>> \in Windows /\ Knowable(start, end)

RowsIn(a, start, end) == {i \in DOMAIN rows : rows[i].account = a /\ rows[i].day \in start..end}
BaseOf     == [i \in DOMAIN rows |-> rows[i].base]
QuantityOf == [i \in DOMAIN trades |-> trades[i].quantity]

LEMMA WindowIs ==
  ASSUME NEW start, NEW end, Answerable(start, end)
  PROVE  /\ start \in Days /\ end \in Days /\ start \in Int /\ end \in Int /\ start <= end
         /\ \A d \in start..end : d \in Days /\ d \in Int /\ start <= d /\ d <= end
         /\ ReportsTypeOK /\ SnapsAreSaid /\ RowsFit /\ DealsArePaid
         /\ rows \in Seq(Row) /\ trades \in Seq(TradeRow)
         /\ IsFiniteSet(DOMAIN rows) /\ IsFiniteSet(DOMAIN trades)
  <1>1. ReportsTypeOK /\ SnapsAreSaid /\ RowsFit /\ DealsArePaid /\ rows \in Seq(Row) /\ trades \in Seq(TradeRow)
    BY DEF Answerable, ReportsInv, ReportsTypeOK, WorthInv
  <1>2. start \in Days /\ end \in {today - 1, today} /\ start <= end /\ today \in Days
    BY <1>1 DEF Answerable, Windows, ReportsTypeOK
  <1>3. FirstDay \in Int /\ LastDay \in Int /\ start \in Int /\ today \in Int /\ FirstDay <= start /\ today <= LastDay
    BY <1>2, ReportsAssumption DEF Days
  <1>4. end \in Int /\ end <= today
    BY <1>2, <1>3
  <1>5. \A d \in start..end : d \in Days /\ d \in Int /\ start <= d /\ d <= end
    BY <1>3, <1>4 DEF Days
  <1>6. end \in Days
    BY <1>2, <1>4, <1>3, <1>5
  <1>7. IsFiniteSet(DOMAIN rows) /\ IsFiniteSet(DOMAIN trades)
    <2>1. /\ DOMAIN rows = 1..Len(rows) /\ Len(rows) \in Nat
          /\ DOMAIN trades = 1..Len(trades) /\ Len(trades) \in Nat
      BY <1>1
    <2>2. QED
      BY <2>1, FS_Interval
  <1>8. QED
    BY <1>1, <1>2, <1>3, <1>4, <1>5, <1>6, <1>7

\* A rate that is known on the window's first day is known from then on.
LEMMA RatesAreKnown ==
  ASSUME NEW start, NEW end, Answerable(start, end), NEW a \in Accounts, NEW day \in start..end
  PROVE  RateOn(CurrencyOf[a], day) \in Int /\ RateOn(CurrencyOf[a], day) # Absent
  <1>1. RateOn(CurrencyOf[a], start) # Absent
    BY DEF Answerable, Knowable
  <1>2. rates \in RateTapes /\ start \in FirstDay..LastDay /\ day \in FirstDay..LastDay /\ start <= day /\ day \in Int
    BY WindowIs DEF ReportsTypeOK, Days
  <1>3. day \in start..LastDay
    BY <1>2, ReportsAssumption
  <1>4. rates[day] \in Int \cup {Absent} /\ (rates[start] # Absent => rates[day] # Absent)
    BY <1>2, <1>3, ReportsAssumption
  <1>5. QED
    BY <1>1, <1>4, ReportsAssumption DEF RateOn

LEMMA RowIs ==
  ASSUME NEW start, NEW end, Answerable(start, end), NEW i \in DOMAIN rows, rows[i].day \in start..end
  PROVE  /\ rows[i].account \in Accounts /\ rows[i].account \notin Investments /\ rows[i].amount \in Int
         /\ rows[i].base = rows[i].amount * RateOn(CurrencyOf[rows[i].account], rows[i].day)
         /\ rows[i].base \in Int /\ rows[i].base # Absent
  <1>1. rows[i] \in Row /\ RowFits(rows[i]) /\ rows[i].account \notin Investments
    BY WindowIs DEF RowsFit, ReportsTypeOK
  <1>2. rows[i].account \in Accounts /\ rows[i].amount \in Int
    BY <1>1 DEF Row
  <1> DEFINE rate == RateOn(CurrencyOf[rows[i].account], rows[i].day)
  <1>3. rate \in Int /\ rate # Absent
    BY <1>2, RatesAreKnown
  <1>4. rows[i].base = rows[i].amount * rate
    BY <1>1, <1>3 DEF RowFits, InBase
  <1> HIDE DEF rate
  <1>5. rows[i].amount * rate \in Int
    BY <1>2, <1>3
  <1>6. rows[i].base # Absent
    BY <1>4, <1>5, ReportsAssumption
  <1>7. QED
    BY <1>1, <1>2, <1>4, <1>5, <1>6 DEF rate

\* The last of some days.
LEMMA LastOfDays ==
  ASSUME NEW days \in SUBSET Days, days # {}
  PROVE  \E x \in days : \A y \in days : x >= y
  <1>1. days \in SUBSET (0..LastDay) /\ LastDay \in Nat
    BY ReportsAssumption DEF Days
  <1>2. QED
    BY <1>1, GreatestOne

\* A balance is a number, known or not.
LEMMA BalanceIsWhole ==
  ASSUME ReportsInv, NEW a \in Accounts, NEW on
  PROVE  BalanceAt(a, on).balance \in Int
  <1> DEFINE own == {s \in snaps : s.account = a}
             upTo == {s \in own : s.day <= on}
             first == CHOOSE s \in own : \A t \in own : s.day <= t.day
             last == CHOOSE s \in upTo : \A t \in upTo : s.day >= t.day
             days == {rows[i].day : i \in RowsOf(a)}
  <1>1. \A d : Through(a, d) \in Int /\ Opening[a] + Through(a, d) \in Int
    <2>1. \A d : Through(a, d) \in Int
      BY ThroughIs, ThroughSums DEF ReportsInv, ReportsTypeOK
    <2>2. Opening[a] \in Int
      BY ReportsAssumption
    <2>3. QED
      BY <2>1, <2>2
  <1>2. \A s \in own : s.day \in Days /\ s.balance \in Int
    <2>1. rows \in Seq(Row) /\ Opening[a] \in Int
      BY ReportsAssumption DEF ReportsInv, ReportsTypeOK
    <2>2. \A d : BankSays(a, d) \in Int
      BY <2>1, BankSaysIs, SaidSums
    <2> QED BY <2>2 DEF ReportsInv, ReportsTypeOK, SnapsAreSaid
  <1>3. own # {} => first.balance \in Int
    <2> SUFFICES ASSUME own # {} PROVE first.balance \in Int
      OBVIOUS
    <2> DEFINE each == {s.day : s \in own}
    <2>1. each \in SUBSET Days /\ each # {}
      BY <1>2
    <2>2. Min(each) \in each /\ \A d \in each : Min(each) <= d
      <3> HIDE DEF each
      <3> QED BY <2>1, FirstOfDays
    <2>3. PICK s \in own : s.day = Min(each)
      BY <2>2
    <2>4. \A t \in own : s.day <= t.day
      BY <2>2, <2>3
    <2>5. first \in own
      BY <2>4
    <2>6. QED
      BY <1>2, <2>5
  <1>4. upTo # {} => last.balance \in Int
    <2> SUFFICES ASSUME upTo # {} PROVE last.balance \in Int
      OBVIOUS
    <2> DEFINE each == {s.day : s \in upTo}
    <2>1. each \in SUBSET Days /\ each # {}
      BY <1>2
    <2>2. PICK d \in each : \A x \in each : d >= x
      <3> HIDE DEF each
      <3> QED BY <2>1, LastOfDays
    <2>3. PICK s \in upTo : s.day = d
      BY <2>2
    <2>4. \A t \in upTo : s.day >= t.day
      BY <2>2, <2>3
    <2>5. last \in upTo
      BY <2>4
    <2>6. QED
      BY <1>2, <2>5
  <1>5. /\ own = {} => BalanceAt(a, on) = Missing("no_balance")
        /\ own # {} /\ upTo # {} => BalanceAt(a, on) = At(last.balance)
        /\ own # {} /\ upTo = {} =>
             BalanceAt(a, on) = IF a \in Investments \/ days = {} \/ on < Min(days) - 1
                                THEN Missing("not_started")
                                ELSE At(first.balance - (Through(a, first.day) - Through(a, on)))
    <2>1. CASE own = {}
      BY <2>1 DEF BalanceAt
    <2>2. CASE own # {} /\ upTo # {}
      BY <2>2 DEF BalanceAt
    <2>3. CASE own # {} /\ upTo = {}
      BY <2>3 DEF BalanceAt
    <2>4. QED
      BY <2>1, <2>2, <2>3
  <1>6. own # {} => first.balance - (Through(a, first.day) - Through(a, on)) \in Int
    <2>1. Through(a, first.day) \in Int /\ Through(a, on) \in Int
      BY <1>1
    <2> HIDE DEF first, own
    <2>2. QED
      BY <1>3, <2>1
  <1> HIDE DEF own, upTo, first, last, days
  <1>7. QED
    BY <1>3, <1>4, <1>5, <1>6 DEF At, Missing

\* An account held in balances: what revaluation leaves of its change is what the
\* balances missed, and the rows of the first day, at the closing rate; and its rows.
LEMMA StatedIs ==
  ASSUME NEW start, NEW end, Answerable(start, end), NEW a \in Accounts, a \notin Derived
  PROVE  LET own == RowsIn(a, start, end)
             unfiled == RateOn(CurrencyOf[a], end) * (Lag(a, end) - Lag(a, start) - RowsOn(a, start))
         IN /\ IsFiniteSet(own) /\ IntOn(BaseOf, own)
            /\ unfiled \in Int /\ SumOver(BaseOf, own) \in Int
            /\ AccountValue(a, end).value \in Int /\ AccountValue(a, start).value \in Int
            /\ Revaluation(a, start, end) \in Int
            /\ AccountValue(a, end).value - AccountValue(a, start).value - Revaluation(a, start, end)
                 = unfiled + SumOver(BaseOf, own)
  <1> DEFINE own == RowsIn(a, start, end)
             on == {j \in RowsOf(a) : rows[j].day = start}
             past == {j \in DOMAIN rows : rows[j].account = a /\ rows[j].day < start}
             Rate(day) == RateOn(CurrencyOf[a], day)
             amounts == AmountsOf(rows)
             A == SumOver(amounts, own)
             B == SumOver(BaseOf, own)
             N == RowsOn(a, start)
             P == SumOver(amounts, past)
             Bal(day) == BalanceAt(a, day).balance
             unfiled == Rate(end) * (Lag(a, end) - Lag(a, start) - N)
  <1>1. /\ start \in start..end /\ end \in start..end /\ start \in Int /\ end \in Int /\ start <= end
        /\ IsFiniteSet(DOMAIN rows) /\ IntOn(amounts, DOMAIN rows)
        /\ \A i \in DOMAIN rows : rows[i].day \in Int
    <2>1. \A i \in DOMAIN rows : rows[i] \in Row
      BY WindowIs
    <2>2. \A i \in DOMAIN rows : rows[i].day \in Int /\ rows[i].amount \in Int
      BY <2>1, ReportsAssumption DEF Row, Days
    <2>3. QED
      BY <2>2, WindowIs DEF IntOn, AmountsOf
  <1>2. Rate(start) \in Int /\ Rate(end) \in Int /\ Rate(start) # Absent /\ Rate(end) # Absent
    BY <1>1, RatesAreKnown
  <1>3. Bal(start) \in Int /\ Bal(end) \in Int
    BY BalanceIsWhole DEF Answerable
  <1>4. /\ own \in SUBSET DOMAIN rows /\ on \in SUBSET DOMAIN rows /\ past \in SUBSET DOMAIN rows
        /\ IsFiniteSet(own) /\ IsFiniteSet(on)
    <2>1. own \in SUBSET DOMAIN rows /\ on \in SUBSET DOMAIN rows /\ past \in SUBSET DOMAIN rows
      BY DEF RowsIn, RowsOf
    <2> HIDE DEF own, on, past
    <2>2. QED
      BY <1>1, <2>1, FS_Subset
  <1>5. /\ \A i \in own : amounts[i] = rows[i].amount /\ BaseOf[i] = rows[i].base /\ rows[i].base # Absent
                          /\ rows[i].base = rows[i].amount * RateOn(CurrencyOf[a], rows[i].day)
        /\ IntOn(BaseOf, own)
    <2>1. ASSUME NEW i \in own
          PROVE  /\ amounts[i] = rows[i].amount /\ BaseOf[i] = rows[i].base /\ rows[i].base # Absent
                 /\ rows[i].base = rows[i].amount * RateOn(CurrencyOf[a], rows[i].day)
                 /\ BaseOf[i] \in Int
      <3>1. i \in DOMAIN rows /\ rows[i].account = a /\ rows[i].day \in start..end
        BY DEF RowsIn
      <3>2. QED
        BY <3>1, RowIs DEF BaseOf, AmountsOf
    <2>2. QED
      BY <2>1 DEF IntOn
  <1>6. A \in Int /\ B \in Int /\ P \in Int
    <2>1. A \in Int /\ P \in Int
      <3> HIDE DEF own, amounts, past
      <3> QED BY <1>1, <1>4, SumRules
    <2>2. B \in Int
      <3>1. own \in SUBSET own
        OBVIOUS
      <3> HIDE DEF own
      <3>2. QED
        BY <1>4, <1>5, <3>1, SumRules
    <2>3. QED
      BY <2>1, <2>2
  <1>7. N = SumOver(amounts, on) /\ N \in Int
    <2> DEFINE f == [i \in on |-> rows[i].amount]
    <2>1. N = SumOver(f, on)
      BY FunctionSum DEF RowsOn
    <2>2. IntOn(amounts, on) /\ \A i \in on : f[i] = amounts[i]
      BY <1>1, <1>4 DEF IntOn, AmountsOf
    <2> HIDE DEF f, on, amounts
    <2>3. SumOver(f, on) = SumOver(amounts, on)
      BY <1>4, <2>2, SumSame
    <2>4. SumOver(amounts, on) \in Int
      BY <1>1, <1>4, SumRules
    <2>5. QED
      BY <2>1, <2>3, <2>4
  <1>8. Through(a, end) = P + A /\ Through(a, start) = P + N
    <2>1. By(rows, a, end) = past \cup own /\ past \cap own = {}
      BY <1>1 DEF By, RowsIn
    <2>2. By(rows, a, start) = past \cup on /\ past \cap on = {}
      BY <1>1 DEF By, RowsOf
    <2>3. \A d : Through(a, d) = SumOver(amounts, By(rows, a, d))
      BY WindowIs, ThroughIs, ThroughSums
    <2> HIDE DEF past, own, on, amounts
    <2>4. SumOver(amounts, past \cup own) = P + A
      BY <1>1, <1>4, <2>1, SumUnion
    <2>5. SumOver(amounts, past \cup on) = P + N
      BY <1>1, <1>4, <1>7, <2>2, SumUnion
    <2>6. QED
      BY <2>1, <2>2, <2>3, <2>4, <2>5
  <1>9. AccountValue(a, end).value = Bal(end) * Rate(end) /\ AccountValue(a, start).value = Bal(start) * Rate(start)
    <2>1. ASSUME NEW day \in {start, end} PROVE AccountValue(a, day).value = Bal(day) * Rate(day)
      <3>1. InBase(Bal(day), CurrencyOf[a], day) = Bal(day) * Rate(day) /\ Bal(day) * Rate(day) \in Int
        BY <1>2, <1>3 DEF InBase
      <3>2. AccountValue(a, day).value = OrZero(InBase(Bal(day), CurrencyOf[a], day))
        BY DEF AccountValue
      <3>3. QED
        BY <3>1, <3>2, ReportsAssumption DEF OrZero
    <2>2. QED
      BY <2>1
  <1>10. Revaluation(a, start, end) = Bal(start) * (Rate(end) - Rate(start)) + Rate(end) * A - B
    <2> DEFINE moved == {i \in RowsOf(a) : rows[i].day \in start..end /\ rows[i].base # Absent}
               f == [i \in moved |-> rows[i].amount]
               g == [i \in moved |-> rows[i].base]
    <2>1. moved = own
      BY <1>5 DEF RowsOf, RowsIn
    <2>2. SumFunction(f) = A /\ SumFunction(g) = B
      <3>1. SumFunction(f) = SumOver(f, own) /\ SumFunction(g) = SumOver(g, own)
        BY <2>1, FunctionSum
      <3>2. /\ IntOn(amounts, own) /\ (\A i \in own : f[i] = amounts[i])
            /\ IntOn(BaseOf, own) /\ (\A i \in own : g[i] = BaseOf[i])
        BY <1>1, <1>4, <1>5, <2>1 DEF IntOn
      <3> HIDE DEF f, g, own, moved, amounts
      <3>3. SumOver(f, own) = A /\ SumOver(g, own) = B
        BY <1>4, <3>2, SumSame
      <3>4. QED
        BY <3>1, <3>3
    <2>3. CASE CurrencyOf[a] = Base
      <3>1. Rate(start) = 1 /\ Rate(end) = 1 /\ \A i \in own : RateOn(CurrencyOf[a], rows[i].day) = 1
        BY <2>3 DEF RateOn
      <3>2. \A i \in own : BaseOf[i] = amounts[i]
        <4>1. \A i \in own : amounts[i] \in Int
          BY <1>1, <1>4 DEF IntOn
        <4> HIDE DEF own, amounts
        <4>2. QED
          BY <1>5, <3>1, <4>1
      <3>3. B = A
        <4>1. IntOn(amounts, own)
          BY <1>1, <1>4 DEF IntOn
        <4> HIDE DEF own, amounts
        <4>2. QED
          BY <1>4, <3>2, <4>1, SumSame
      <3>4. Revaluation(a, start, end) = 0
        BY <2>3 DEF Revaluation
      <3> HIDE DEF A, B, Bal, Rate
      <3>5. Bal(start) * (1 - 1) = 0 /\ 1 * A = A
        BY <1>3, <1>6
      <3>6. QED
        BY <1>6, <3>1, <3>3, <3>4, <3>5
    <2>4. CASE CurrencyOf[a] # Base
      <3>1. Revaluation(a, start, end) = Bal(start) * (Rate(end) - Rate(start)) + Rate(end) * SumFunction(f) - SumFunction(g)
        BY <1>2, <2>4 DEF Revaluation
      <3>2. QED
        BY <2>2, <3>1
    <2>5. QED
      BY <2>3, <2>4
  <1>11. Lag(a, end) = Bal(end) - (Opening[a] + P + A) /\ Lag(a, start) = Bal(start) - (Opening[a] + P + N)
         /\ Opening[a] \in Int
    <2>1. Opening[a] \in Int
      BY ReportsAssumption
    <2>2. Lag(a, end) = Bal(end) - (Opening[a] + Through(a, end)) /\ Lag(a, start) = Bal(start) - (Opening[a] + Through(a, start))
      BY DEF Lag, Actual
    <2> HIDE DEF A, P, N, Bal
    <2>3. QED
      BY <1>3, <1>6, <1>7, <1>8, <2>1, <2>2
  <1>12. unfiled = Rate(end) * (Bal(end) - Bal(start) - A)
    <2> HIDE DEF A, P, N, Bal, Rate
    <2>1. Lag(a, end) - Lag(a, start) - N = Bal(end) - Bal(start) - A
      BY <1>3, <1>6, <1>7, <1>11
    <2>2. QED
      BY <2>1
  <1> DEFINE b1 == Bal(end)
             b0 == Bal(start)
             r1 == Rate(end)
             r0 == Rate(start)
  <1>13. b1 \in Int /\ b0 \in Int /\ r1 \in Int /\ r0 \in Int
    BY <1>2, <1>3
  <1>14. /\ AccountValue(a, end).value = b1 * r1 /\ AccountValue(a, start).value = b0 * r0
         /\ Revaluation(a, start, end) = b0 * (r1 - r0) + r1 * A - B
         /\ unfiled = r1 * (b1 - b0 - A)
    BY <1>9, <1>10, <1>12
  <1> HIDE DEF b1, b0, r1, r0, A, B, unfiled, own
  <1>15. /\ r1 * (b1 - b0 - A) = b1 * r1 - b0 * r1 - r1 * A
         /\ b0 * (r1 - r0) = b0 * r1 - b0 * r0
         /\ b1 * r1 \in Int /\ b0 * r1 \in Int /\ r1 * A \in Int /\ b0 * r0 \in Int
    BY <1>6, <1>13
  <1>16. /\ AccountValue(a, end).value \in Int /\ AccountValue(a, start).value \in Int
         /\ Revaluation(a, start, end) \in Int /\ unfiled \in Int
         /\ AccountValue(a, end).value - AccountValue(a, start).value - Revaluation(a, start, end) = unfiled + B
    BY <1>6, <1>14, <1>15
  <1>17. QED
    BY <1>4, <1>5, <1>6, <1>16 DEF own, unfiled, B

-----------------------------------------------------------------------------
(* ... and a brokerage's                                                   *)

\* What a trade in cash is worth in base, and what the positions of a day are.
PaidIn == [i \in DOMAIN trades |-> trades[i].quantity * RateOn(CurrencyOf[trades[i].account], trades[i].day)]
Worths(a, on) ==
  [p \in Securities |-> IF QuantityAt(a, p, on) = 0 THEN 0
                        ELSE QuantityAt(a, p, on) * PriceOn(p, on) * RateOn(CurrencyOf[a], on)]
\* What a report of a window tells of a brokerage: what came in and went out.
ToldOf(a, start, end, scope) ==
  {i \in CashMoves(a, start, end) : trades[i].type \notin Deals /\ (trades[i].type = "transfer" => ~scope.whole)}

LEMMA TradeIs ==
  ASSUME NEW start, NEW end, Answerable(start, end), NEW i \in DOMAIN trades
  PROVE  /\ trades[i].account \in Investments /\ trades[i].account \in Accounts /\ trades[i].account \in Derived
         /\ trades[i].security \in Securities /\ trades[i].quantity \in Int /\ trades[i].amount \in Int
         /\ trades[i].day \in Int
         /\ trades[i].day \in start..end =>
              /\ TradeBase(i) = trades[i].amount * RateOn(CurrencyOf[trades[i].account], trades[i].day)
              /\ RateOn(CurrencyOf[trades[i].account], trades[i].day) \in Int
              /\ TradeBase(i) \in Int /\ TradeBase(i) # Absent
  <1>1. trades[i] \in TradeRow
    BY WindowIs
  <1>2. /\ trades[i].account \in Investments /\ trades[i].account \in Accounts
        /\ trades[i].security \in Securities /\ trades[i].quantity \in Int /\ trades[i].amount \in Int
        /\ trades[i].day \in Int
    BY <1>1, ReportsAssumption DEF TradeRow, Days
  <1>3. trades[i].account \in Derived
    BY <1>2 DEF Derived
  <1>4. ASSUME trades[i].day \in start..end
        PROVE  /\ TradeBase(i) = trades[i].amount * RateOn(CurrencyOf[trades[i].account], trades[i].day)
               /\ RateOn(CurrencyOf[trades[i].account], trades[i].day) \in Int
               /\ TradeBase(i) \in Int /\ TradeBase(i) # Absent
    <2> DEFINE rate == RateOn(CurrencyOf[trades[i].account], trades[i].day)
    <2>1. rate \in Int /\ rate # Absent
      BY <1>2, <1>4, RatesAreKnown
    <2>2. TradeBase(i) = trades[i].amount * rate
      BY <2>1 DEF TradeBase, InBase
    <2> HIDE DEF rate
    <2>3. trades[i].amount * rate \in Int
      BY <1>2, <2>1
    <2>4. QED
      BY <2>1, <2>2, <2>3, ReportsAssumption DEF rate
  <1>5. QED
    BY <1>2, <1>3, <1>4

\* A position on a day is what was traded of it by then.
LEMMA QuantityIs ==
  ASSUME NEW start, NEW end, Answerable(start, end), NEW a, NEW p, NEW on \in Int
  PROVE  /\ IntOn(QuantityOf, DOMAIN trades) /\ TradesOf(a, p) \in SUBSET DOMAIN trades
         /\ QuantityAt(a, p, on) = SumOver(QuantityOf, {i \in TradesOf(a, p) : trades[i].day <= on})
         /\ QuantityAt(a, p, on) \in Int
  <1> DEFINE all == TradesOf(a, p)
             later == {i \in all : trades[i].day > on}
             by == {i \in all : trades[i].day <= on}
             f == [i \in all |-> IF Moves(trades[i]) THEN trades[i].quantity ELSE 0]
             g == [i \in later |-> trades[i].quantity]
  <1>1. IsFiniteSet(DOMAIN trades) /\ IntOn(QuantityOf, DOMAIN trades) /\ \A i \in DOMAIN trades : trades[i].day \in Int
    BY WindowIs, TradeIs DEF IntOn, QuantityOf
  <1>2. all \in SUBSET DOMAIN trades /\ later \in SUBSET all /\ by \in SUBSET all /\ later \cap by = {} /\ by \cup later = all
    BY <1>1 DEF TradesOf
  <1>3. IsFiniteSet(all) /\ IsFiniteSet(later) /\ IntOn(QuantityOf, all) /\ IntOn(QuantityOf, later)
    <2>1. later \in SUBSET DOMAIN trades
      BY <1>2
    <2> HIDE DEF all, later
    <2>2. QED
      BY <1>1, <1>2, <2>1, FS_Subset DEF IntOn
  <1>4. \A i \in all : f[i] = QuantityOf[i]
    <2> SUFFICES ASSUME NEW i \in all PROVE Moves(trades[i]) /\ QuantityOf[i] = trades[i].quantity
      OBVIOUS
    <2>1. i \in DOMAIN trades /\ DealsArePaid
      BY <1>2, WindowIs
    <2>2. QED
      BY <2>1 DEF DealsArePaid, Deals, Moves, QuantityOf
  <1>5. \A i \in later : g[i] = QuantityOf[i]
    BY <1>2 DEF QuantityOf
  <1>6. QuantityAt(a, p, on) = SumOver(f, all) - SumOver(g, later)
    BY FunctionSum DEF QuantityAt, QuantityNow
  <1> HIDE DEF f, g, all, later, by
  <1>7. SumOver(f, all) = SumOver(QuantityOf, all) /\ SumOver(g, later) = SumOver(QuantityOf, later)
    BY <1>3, <1>4, <1>5, SumSame
  <1>8. SumOver(QuantityOf, by \cup later) = SumOver(QuantityOf, by) + SumOver(QuantityOf, later)
    BY <1>2, <1>3, SumUnion
  <1>9. SumOver(QuantityOf, by) \in Int /\ SumOver(QuantityOf, later) \in Int
    BY <1>2, <1>3, SumRules
  <1>10. QuantityAt(a, p, on) = SumOver(QuantityOf, by)
    <2>1. SumOver(QuantityOf, all) = SumOver(QuantityOf, by) + SumOver(QuantityOf, later)
      BY <1>2, <1>8
    <2>2. QED
      BY <1>6, <1>7, <1>9, <2>1
  <1>11. QED
    BY <1>1, <1>2, <1>9, <1>10 DEF all, by

\* Where every price and rate is known, positions are worth their sum.
LEMMA PositionsAre ==
  ASSUME NEW start, NEW end, Answerable(start, end), NEW a \in Derived, NEW on \in {start, end}
  PROVE  /\ IntOn(Worths(a, on), Securities)
         /\ \A P \in SUBSET Securities : SecuritiesValue(a, P, on).value = SumOver(Worths(a, on), P)
         /\ CashWorth(a, on) \in Int
         /\ Worths(a, on)[Cash] = QuantityAt(a, Cash, on) * CashWorth(a, on)
  <1> DEFINE w == Worths(a, on)
             Q(p) == QuantityAt(a, p, on)
             rate == RateOn(CurrencyOf[a], on)
  <1>1. a \in Accounts /\ on \in Int /\ on \in start..end /\ on \in Days /\ Absent \notin Int
    BY WindowIs, ReportsAssumption DEF Derived
  <1>2. rate \in Int /\ rate # Absent
    BY <1>1, RatesAreKnown
  <1>3. ASSUME NEW p \in Securities
        PROVE  Q(p) \in Int /\ PriceOn(p, on) \in Int \cup {Absent} /\ (Q(p) # 0 => PriceOn(p, on) # Absent)
    <2>1. Unpriced(a, start, end) = {}
      BY DEF Answerable, Knowable
    <2>2. Q(p) # 0 => PriceOn(p, on) # Absent
      BY <2>1 DEF Unpriced
    <2>3. prices \in PriceTapes /\ on \in FirstDay..LastDay
      BY <1>1, WindowIs DEF ReportsTypeOK, Days
    <2>4. prices[p][on] \in Int \cup {Absent}
      BY <2>3, ReportsAssumption
    <2>5. QED
      BY <1>1, <2>2, <2>4, QuantityIs DEF PriceOn
  <1>4. IntOn(w, Securities)
    <2> SUFFICES ASSUME NEW p \in Securities PROVE w[p] \in Int
      BY DEF IntOn
    <2>1. w[p] = IF Q(p) = 0 THEN 0 ELSE Q(p) * PriceOn(p, on) * rate
      BY DEF Worths
    <2> HIDE DEF w, Q, rate
    <2>2. Q(p) # 0 => Q(p) * PriceOn(p, on) * rate \in Int
      BY <1>2, <1>3
    <2>3. QED
      BY <2>1, <2>2
  <1>5. ASSUME NEW P \in SUBSET Securities PROVE SecuritiesValue(a, P, on).value = SumOver(w, P)
    <2> DEFINE held == {p \in P : Q(p) # 0}
               priced == {p \in held : PriceOn(p, on) # Absent}
               f == [p \in priced |-> Q(p) * PriceOn(p, on) * rate]
    <2>1. priced = held /\ held \in SUBSET P
      BY <1>3
    <2>2. SecuritiesValue(a, P, on).value = SumOver(f, priced)
      BY <1>2, FunctionSum DEF SecuritiesValue
    <2>3. (\A p \in held : f[p] = w[p]) /\ (\A p \in P \ held : w[p] = 0)
      BY <2>1 DEF Worths
    <2>4. IsFiniteSet(P) /\ IsFiniteSet(held) /\ IntOn(w, P) /\ IntOn(w, held)
      <3>1. IsFiniteSet(P)
        BY FS_Subset, ReportsAssumption
      <3> HIDE DEF held, w
      <3>2. QED
        BY <1>4, <2>1, <3>1, FS_Subset DEF IntOn
    <2> HIDE DEF f, held, priced, w
    <2>5. SumOver(f, held) = SumOver(w, held)
      BY <2>3, <2>4, SumSame
    <2>6. SumOver(w, P) = SumOver(w, held)
      BY <2>1, <2>3, <2>4, SumWithin
    <2>7. QED
      BY <2>1, <2>2, <2>5, <2>6
  <1>6. CashWorth(a, on) \in Int /\ w[Cash] = Q(Cash) * CashWorth(a, on)
    <2>1. Cash \in Securities
      BY ReportsAssumption
    <2> DEFINE price == OrZero(PriceOn(Cash, on))
    <2>2. price \in Int /\ (Q(Cash) # 0 => price = PriceOn(Cash, on))
      BY <1>3, <2>1 DEF OrZero
    <2>3. CashWorth(a, on) = price * rate
      BY DEF CashWorth
    <2>4. w[Cash] = IF Q(Cash) = 0 THEN 0 ELSE Q(Cash) * price * rate
      BY <2>1, <2>2 DEF Worths
    <2>5. Q(Cash) \in Int
      BY <1>3, <2>1
    <2> DEFINE q == Q(Cash)
    <2> HIDE DEF price, rate, Q, q, w
    <2>6. price * rate \in Int
      BY <1>2, <2>2
    <2>7. (q * price) * rate = q * (price * rate) /\ (q = 0 => q * (price * rate) = 0)
      BY <1>2, <2>2, <2>5, <2>6 DEF q
    <2>8. QED
      BY <2>3, <2>4, <2>6, <2>7 DEF q
  <1>7. QED
    BY <1>4, <1>5, <1>6

\* What is bought in a window is paid for in it: the cash that went is the price.
LEMMA BoughtIsPaid ==
  ASSUME NEW start, NEW end, Answerable(start, end), NEW a \in Derived
  PROVE  LET moves  == CashMoves(a, start, end)
             paid   == {i \in moves : trades[i].type \in Deals}
             bought == {i \in DOMAIN trades : /\ trades[i].account = a /\ trades[i].type \in Deals
                                              /\ trades[i].security \in Securities \ {Cash}
                                              /\ trades[i].day \in start..end}
         IN /\ IsFiniteSet(moves) /\ IntOn(PaidIn, moves)
            /\ SumFunction([i \in bought |-> OrZero(TradeBase(i))]) = SumOver(PaidIn, paid)
  <1> DEFINE moves == CashMoves(a, start, end)
             paid == {i \in moves : trades[i].type \in Deals}
             bought == {i \in DOMAIN trades : /\ trades[i].account = a /\ trades[i].type \in Deals
                                              /\ trades[i].security \in Securities \ {Cash}
                                              /\ trades[i].day \in start..end}
             f == [i \in bought |-> OrZero(TradeBase(i))]
             next == [i \in bought |-> i + 1]
  <1>1. /\ IsFiniteSet(DOMAIN trades) /\ DOMAIN trades = 1..Len(trades) /\ Len(trades) \in Nat /\ DealsArePaid
        /\ moves \in SUBSET DOMAIN trades /\ bought \in SUBSET DOMAIN trades
    BY WindowIs DEF CashMoves, TradesOf
  <1>2. IsFiniteSet(moves) /\ IsFiniteSet(bought)
    <2> HIDE DEF moves, bought
    <2> QED BY <1>1, FS_Subset
  <1>3. ASSUME NEW i \in moves
        PROVE  /\ trades[i].account = a /\ trades[i].security = Cash /\ trades[i].day \in start..end
               /\ PaidIn[i] = trades[i].quantity * RateOn(CurrencyOf[a], trades[i].day) /\ PaidIn[i] \in Int
    <2>1. i \in DOMAIN trades /\ trades[i].account = a /\ trades[i].security = Cash /\ trades[i].day \in start..end
      BY DEF CashMoves, TradesOf
    <2>2. trades[i].quantity \in Int /\ RateOn(CurrencyOf[trades[i].account], trades[i].day) \in Int
      BY <2>1, TradeIs
    <2>3. QED
      BY <2>1, <2>2 DEF PaidIn
  <1>4. ASSUME NEW i \in bought
        PROVE  /\ i + 1 \in paid /\ PaidIn[i + 1] = f[i] /\ f[i] \in Int
    <2>1. /\ i \in DOMAIN trades /\ trades[i].account = a /\ trades[i].security # Cash /\ trades[i].day \in start..end
          /\ i + 1 \in DOMAIN trades /\ Pays(trades[i], trades[i + 1])
      BY <1>1 DEF DealsArePaid
    <2>2. /\ trades[i + 1].account = a /\ trades[i + 1].day = trades[i].day /\ trades[i + 1].security = Cash
          /\ trades[i + 1].type \in Deals /\ trades[i + 1].quantity = trades[i].amount
      BY <2>1 DEF Pays
    <2>3. i + 1 \in paid
      BY <2>1, <2>2 DEF CashMoves, TradesOf
    <2>4. PaidIn[i + 1] = trades[i].amount * RateOn(CurrencyOf[a], trades[i].day)
      BY <1>3, <2>2, <2>3
    <2>5. TradeBase(i) = trades[i].amount * RateOn(CurrencyOf[a], trades[i].day) /\ TradeBase(i) \in Int /\ TradeBase(i) # Absent
      BY <2>1, TradeIs
    <2>6. f[i] = TradeBase(i)
      BY <2>5 DEF OrZero
    <2>7. QED
      BY <2>3, <2>4, <2>5, <2>6
  <1>5. ASSUME NEW j \in paid PROVE \E i \in bought : i + 1 = j
    <2>1. j \in DOMAIN trades /\ trades[j].security = Cash /\ trades[j].type \in Deals /\ trades[j].account = a
          /\ trades[j].day \in start..end
      BY <1>1, <1>3
    <2>2. j - 1 \in DOMAIN trades /\ trades[j - 1].security # Cash
      BY <1>1, <2>1 DEF DealsArePaid
    <2>3. (j - 1) + 1 = j
      BY <1>1, <2>1
    <2>4. Pays(trades[j - 1], trades[j]) /\ trades[j - 1].type \in Deals
      BY <1>1, <2>2, <2>3 DEF DealsArePaid
    <2>5. trades[j - 1].account = a /\ trades[j - 1].day \in start..end /\ trades[j - 1].security \in Securities
      BY <2>1, <2>2, <2>4, TradeIs DEF Pays
    <2>6. j - 1 \in bought
      BY <2>2, <2>4, <2>5
    <2>7. QED
      BY <2>3, <2>6
  <1>6. next \in Bijection(bought, paid)
    <2>1. \A i, k \in bought : i + 1 = k + 1 => i = k
      BY <1>1
    <2>2. next \in [bought -> paid]
      BY <1>4
    <2>3. \A i \in bought : next[i] = i + 1
      OBVIOUS
    <2> HIDE DEF next, bought, paid
    <2>4. QED
      BY <1>5, <2>1, <2>2, <2>3 DEF Bijection, Injection, Surjection, IsInjective
  <1>7. IntOn(f, bought) /\ \A i \in bought : PaidIn[next[i]] = f[i]
    BY <1>4 DEF IntOn
  <1>8. SumFunction(f) = SumOver(f, bought)
    BY FunctionSum
  <1>9. SumOver(PaidIn, paid) = SumOver(f, bought)
    <2> HIDE DEF f, bought, paid, next
    <2> QED BY <1>2, <1>6, <1>7, SumAlong
  <1>10. IntOn(PaidIn, moves)
    BY <1>3 DEF IntOn
  <1>11. QED
    BY <1>2, <1>8, <1>9, <1>10

\* What appreciation and the entries leave of its change is what its cash gained by
\* the rate, what was contributed unreported, and the cash of the first day.
LEMMA HeldIs ==
  ASSUME NEW start, NEW end, Answerable(start, end), NEW a \in Derived, NEW scope, scope.whole \in BOOLEAN
  PROVE  LET told == ToldOf(a, start, end, scope) IN
         /\ IsFiniteSet(told) /\ IntOn(PaidIn, told) /\ SumOver(PaidIn, told) \in Int
         /\ AccountValue(a, end).value \in Int /\ AccountValue(a, start).value \in Int
         /\ Appreciation(a, start, end) \in Int /\ ResidueOf(a, start, end, scope) \in Int
         /\ AccountValue(a, end).value - AccountValue(a, start).value - Appreciation(a, start, end)
              = ResidueOf(a, start, end, scope) + SumOver(PaidIn, told)
  <1> DEFINE cash == TradesOf(a, Cash)
             moves == CashMoves(a, start, end)
             first == CashMoves(a, start, start)
             past == {i \in cash : trades[i].day < start}
             paid == {i \in moves : trades[i].type \in Deals}
             told == ToldOf(a, start, end, scope)
             given == {i \in moves : trades[i].type = "transfer" /\ scope.whole}
             rest == Securities \ {Cash}
             M == SumOver(QuantityOf, moves)
             F == SumOver(QuantityOf, first)
             P == SumOver(QuantityOf, past)
             G == SumOver(PaidIn, moves)
             D == SumOver(PaidIn, paid)
             T == SumOver(PaidIn, told)
             C == SumOver(PaidIn, given)
             k1 == CashWorth(a, end)
             k0 == CashWorth(a, start)
             w1 == SumOver(Worths(a, end), rest)
             w0 == SumOver(Worths(a, start), rest)
  <1>1. /\ start \in start..end /\ end \in start..end /\ start \in Int /\ end \in Int /\ start <= end
        /\ IsFiniteSet(DOMAIN trades) /\ IntOn(QuantityOf, DOMAIN trades) /\ cash \in SUBSET DOMAIN trades
        /\ \A i \in DOMAIN trades : trades[i].day \in Int
    <2>1. start \in Int /\ end \in Int /\ start <= end /\ IsFiniteSet(DOMAIN trades)
      BY WindowIs
    <2>2. IntOn(QuantityOf, DOMAIN trades) /\ cash \in SUBSET DOMAIN trades
      BY <2>1, QuantityIs
    <2>3. \A i \in DOMAIN trades : trades[i].day \in Int
      BY TradeIs
    <2> HIDE DEF cash
    <2>4. QED
      BY <2>1, <2>2, <2>3
  <1>2. /\ moves \in SUBSET cash /\ first \in SUBSET moves /\ past \in SUBSET cash
        /\ paid \in SUBSET moves /\ told \in SUBSET moves /\ given \in SUBSET moves
        /\ moves = paid \cup (told \cup given) /\ told \cup given \in SUBSET moves
        /\ paid \cap (told \cup given) = {} /\ told \cap given = {}
        /\ past \cap moves = {} /\ past \cap first = {}
        /\ {i \in cash : trades[i].day <= end} = past \cup moves
        /\ {i \in cash : trades[i].day <= start} = past \cup first
    <2>1. \A i \in cash : trades[i].day \in Int
      BY <1>1
    <2>2. moves = {i \in cash : trades[i].day \in start..end} /\ first = {i \in cash : trades[i].day \in start..start}
      BY DEF CashMoves
    <2>3. told = {i \in moves : trades[i].type \notin Deals /\ (trades[i].type = "transfer" => ~scope.whole)}
      BY DEF ToldOf
    <2>4. "transfer" \notin Deals
      BY DEF Deals
    <2> HIDE DEF cash
    <2>5. moves \in SUBSET cash /\ first \in SUBSET moves
      BY <1>1, <2>1, <2>2
    <2>6. /\ past \cap moves = {} /\ past \cap first = {}
          /\ {i \in cash : trades[i].day <= end} = past \cup moves
          /\ {i \in cash : trades[i].day <= start} = past \cup first
      BY <1>1, <2>1, <2>2
    <2>7. /\ paid \in SUBSET moves /\ told \in SUBSET moves /\ given \in SUBSET moves
          /\ moves = paid \cup (told \cup given) /\ told \cup given \in SUBSET moves
          /\ paid \cap (told \cup given) = {} /\ told \cap given = {}
      BY <2>3, <2>4
    <2>8. QED
      BY <2>5, <2>6, <2>7
  <1>3. /\ IsFiniteSet(cash) /\ IsFiniteSet(moves) /\ IsFiniteSet(told) /\ IsFiniteSet(given)
        /\ IntOn(QuantityOf, cash) /\ IntOn(QuantityOf, moves) /\ IntOn(PaidIn, moves) /\ IntOn(PaidIn, told)
    <2>1. IntOn(PaidIn, moves)
      BY BoughtIsPaid
    <2> HIDE DEF cash, moves, told, given
    <2>2. QED
      BY <1>1, <1>2, <2>1, FS_Subset DEF IntOn
  <1>4. \A i \in moves : /\ trades[i].quantity \in Int /\ RateOn(CurrencyOf[a], trades[i].day) \in Int
                         /\ QuantityOf[i] = trades[i].quantity /\ trades[i].quantity = QuantityOf[i]
                         /\ PaidIn[i] = trades[i].quantity * RateOn(CurrencyOf[a], trades[i].day)
    <2> SUFFICES ASSUME NEW i \in moves
                 PROVE  /\ trades[i].quantity \in Int /\ RateOn(CurrencyOf[a], trades[i].day) \in Int
                        /\ QuantityOf[i] = trades[i].quantity
                        /\ PaidIn[i] = trades[i].quantity * RateOn(CurrencyOf[a], trades[i].day)
      OBVIOUS
    <2>1. i \in DOMAIN trades /\ trades[i].account = a /\ trades[i].day \in start..end
      BY DEF CashMoves, TradesOf
    <2>2. QED
      BY <2>1, TradeIs DEF QuantityOf, PaidIn
  <1>5. M \in Int /\ F \in Int /\ P \in Int /\ G \in Int /\ D \in Int /\ T \in Int /\ C \in Int
    <2>1. first \in SUBSET cash
      BY <1>2
    <2> HIDE DEF cash, moves, first, past, paid, told, given
    <2>2. QED
      BY <1>2, <1>3, <2>1, SumRules
  <1>6. QuantityAt(a, Cash, end) = P + M /\ QuantityAt(a, Cash, start) = P + F
    <2>1. /\ QuantityAt(a, Cash, end) = SumOver(QuantityOf, past \cup moves)
          /\ QuantityAt(a, Cash, start) = SumOver(QuantityOf, past \cup first)
      BY <1>1, <1>2, QuantityIs
    <2>2. first \in SUBSET cash
      BY <1>2
    <2> HIDE DEF cash, moves, first, past
    <2>3. QED
      BY <1>2, <1>3, <2>1, <2>2, SumUnion
  <1>7. G = D + (T + C)
    <2> HIDE DEF moves, paid, told, given
    <2>1. SumOver(PaidIn, paid \cup (told \cup given)) = D + SumOver(PaidIn, told \cup given)
      BY <1>2, <1>3, SumUnion
    <2>2. SumOver(PaidIn, told \cup given) = T + C
      BY <1>2, <1>3, SumUnion
    <2>3. QED
      BY <1>2, <2>1, <2>2
  <1>8. /\ k1 \in Int /\ k0 \in Int /\ w1 \in Int /\ w0 \in Int
        /\ AccountValue(a, end).value = w1 + (P + M) * k1
        /\ AccountValue(a, start).value = w0 + (P + F) * k0
    <2>1. ASSUME NEW on \in {start, end}
          PROVE  LET w == SumOver(Worths(a, on), rest) IN
                 /\ CashWorth(a, on) \in Int /\ w \in Int
                 /\ AccountValue(a, on).value = w + QuantityAt(a, Cash, on) * CashWorth(a, on)
      <3> DEFINE v == Worths(a, on)
      <3>1. /\ IntOn(v, Securities) /\ SecuritiesValue(a, Securities, on).value = SumOver(v, Securities)
            /\ CashWorth(a, on) \in Int /\ v[Cash] = QuantityAt(a, Cash, on) * CashWorth(a, on)
        BY PositionsAre
      <3>2. AccountValue(a, on).value = SumOver(v, Securities)
        BY <3>1 DEF AccountValue
      <3>3. /\ Cash \in Securities /\ IsFiniteSet(Securities)
            /\ Securities \in SUBSET Securities /\ rest \in SUBSET Securities
        BY ReportsAssumption
      <3> HIDE DEF v
      <3>4. SumOver(v, Securities) = v[Cash] + SumOver(v, rest) /\ SumOver(v, rest) \in Int
        <4>1. \A x \in Securities : SumOver(v, Securities) = v[x] + SumOver(v, Securities \ {x})
          BY <3>1, <3>3, SumAdd
        <4>2. \A s \in SUBSET Securities : SumOver(v, s) \in Int
          BY <3>1, <3>3, SumRules
        <4>3. QED
          BY <3>3, <4>1, <4>2
      <3>5. v[Cash] \in Int
        BY <3>1, <3>3 DEF IntOn
      <3>6. QED
        BY <3>1, <3>2, <3>4, <3>5 DEF v
    <2> HIDE DEF M, P, F, rest
    <2>2. QED
      BY <1>6, <2>1
  <1>9. Appreciation(a, start, end) = w1 - w0 + D
    <2> DEFINE bought == {i \in DOMAIN trades : /\ trades[i].account = a /\ trades[i].type \in Deals
                                                /\ trades[i].security \in rest /\ trades[i].day \in start..end}
    <2>1. Unpriced(a, start, end) = {}
      BY DEF Answerable, Knowable
    <2>2. Securities \ (Unpriced(a, start, end) \cup {Cash}) = rest
      BY <2>1
    <2>3. Appreciation(a, start, end) =
            SecuritiesValue(a, rest, end).value - SecuritiesValue(a, rest, start).value
              + SumFunction([i \in bought |-> OrZero(TradeBase(i))])
      BY <2>2 DEF Appreciation, Deals
    <2>4. rest \in SUBSET Securities
      OBVIOUS
    <2>5. SecuritiesValue(a, rest, end).value = w1 /\ SecuritiesValue(a, rest, start).value = w0
      BY <2>4, PositionsAre
    <2>6. SumFunction([i \in bought |-> OrZero(TradeBase(i))]) = D
      BY BoughtIsPaid
    <2> HIDE DEF bought, w1, w0, D, rest
    <2>7. QED
      BY <2>3, <2>5, <2>6
  <1>10. SumFunction([i \in moves |-> trades[i].quantity * (k1 - RateOn(CurrencyOf[a], trades[i].day))]) = k1 * M - G
    <2> DEFINE h == [i \in moves |-> trades[i].quantity * (k1 - RateOn(CurrencyOf[a], trades[i].day))]
               e == [i \in moves |-> k1 * QuantityOf[i]]
               g == [i \in moves |-> -PaidIn[i]]
    <2>1. SumFunction(h) = SumOver(h, moves)
      BY FunctionSum
    <2>2. (\A i \in moves : e[i] = k1 * QuantityOf[i]) /\ (\A i \in moves : g[i] = -PaidIn[i])
      OBVIOUS
    <2>3. \A i \in moves : h[i] = e[i] + g[i]
      <3> SUFFICES ASSUME NEW i \in moves PROVE h[i] = e[i] + g[i]
        OBVIOUS
      <3> DEFINE q == trades[i].quantity
                 r == RateOn(CurrencyOf[a], trades[i].day)
      <3>1. q \in Int /\ r \in Int /\ QuantityOf[i] = q /\ PaidIn[i] = q * r
        BY <1>4
      <3>2. h[i] = q * (k1 - r) /\ e[i] = k1 * q /\ g[i] = -(q * r)
        BY <3>1
      <3> HIDE DEF q, r, h, e, g, k1, moves
      <3>3. q * (k1 - r) = k1 * q + -(q * r)
        BY <1>8, <3>1
      <3>4. QED
        BY <3>2, <3>3
    <2> HIDE DEF h, e, g, k1, moves
    <2>4. IntOn(e, moves) /\ SumOver(e, moves) = k1 * M
      BY <1>3, <1>8, <2>2, SumScaled
    <2>5. SumOver(g, moves) = -G
      BY <1>3, <2>2, SumOpposite
    <2>6. IntOn(g, moves)
      BY <1>3, <2>2 DEF IntOn
    <2>7. SumOver(h, moves) = k1 * M + -G
      BY <1>3, <2>3, <2>4, <2>5, <2>6, SumPlus
    <2> HIDE DEF M, G
    <2>8. k1 * M + -G = k1 * M - G
      BY <1>5, <1>8
    <2>9. QED
      BY <2>1, <2>7, <2>8 DEF h
  <1>11. SumFunction([i \in first |-> trades[i].quantity]) = F
    <2> DEFINE h == [i \in first |-> trades[i].quantity]
    <2>1. SumFunction(h) = SumOver(h, first)
      BY FunctionSum
    <2>2. \A i \in first : h[i] = QuantityOf[i]
      BY <1>2, <1>4
    <2> HIDE DEF h, first, moves
    <2>3. IntOn(QuantityOf, first) /\ IsFiniteSet(first)
      BY <1>2, <1>3, FS_Subset DEF IntOn
    <2>4. SumOver(h, first) = F
      BY <2>2, <2>3, SumSame
    <2>5. QED
      BY <2>1, <2>4 DEF h
  <1>12. (IF scope.whole THEN Contributed(a, start, end) ELSE 0) = C
    <2>1. CASE ~scope.whole
      <3>1. given = {}
        BY <2>1
      <3>2. C = 0
        <4> HIDE DEF given, moves
        <4> QED BY <1>3, <3>1, SumRules
      <3>3. QED
        BY <2>1, <3>2
    <2>2. CASE scope.whole
      <3> DEFINE h == [i \in given |-> OrZero(TradeBase(i))]
      <3>1. given = {j \in moves : trades[j].type = "transfer"}
        BY <2>2
      <3>2. Contributed(a, start, end) = SumOver(h, given)
        BY <3>1, FunctionSum DEF Contributed
      <3>3. ASSUME NEW i \in given PROVE h[i] = PaidIn[i]
        <4>1. i \in DOMAIN trades /\ trades[i].account = a /\ trades[i].day \in start..end /\ trades[i].type = "transfer"
          BY DEF CashMoves, TradesOf
        <4>2. trades[i].quantity = trades[i].amount
          BY <4>1, WindowIs DEF DealsArePaid, Deals
        <4>3. TradeBase(i) = trades[i].amount * RateOn(CurrencyOf[a], trades[i].day) /\ TradeBase(i) # Absent
          BY <4>1, TradeIs
        <4>4. PaidIn[i] = trades[i].quantity * RateOn(CurrencyOf[a], trades[i].day)
          BY <1>4
        <4>5. QED
          BY <4>2, <4>3, <4>4 DEF OrZero
      <3> HIDE DEF h, given, moves
      <3>4. IntOn(PaidIn, given)
        BY <1>2, <1>3 DEF IntOn
      <3>5. SumOver(h, given) = C
        BY <1>3, <3>3, <3>4, SumSame
      <3>6. QED
        BY <2>2, <3>2, <3>5
    <2>3. QED
      BY <2>1, <2>2
  <1>13. ResidueOf(a, start, end, scope) = (P + F) * (k1 - k0) + (k1 * M - G) + C - k1 * F
    <2>1. CashDrift(a, start, end) = (P + F) * (k1 - k0) + (k1 * M - G)
      BY <1>6, <1>10 DEF CashDrift
    <2>2. ResidueOf(a, start, end, scope) =
            CashDrift(a, start, end) + (IF scope.whole THEN Contributed(a, start, end) ELSE 0)
              - k1 * SumFunction([i \in first |-> trades[i].quantity])
      BY DEF ResidueOf
    <2> HIDE DEF P, F, M, G, C, k1, k0, first
    <2>3. QED
      BY <1>11, <1>12, <2>1, <2>2
  <1> DEFINE v1 == AccountValue(a, end).value
             v0 == AccountValue(a, start).value
             App == Appreciation(a, start, end)
             Res == ResidueOf(a, start, end, scope)
  <1>14. v1 = w1 + (P + M) * k1 /\ v0 = w0 + (P + F) * k0 /\ App = w1 - w0 + D
         /\ Res = (P + F) * (k1 - k0) + (k1 * M - G) + C - k1 * F
    BY <1>8, <1>9, <1>13
  <1> HIDE DEF P, F, M, G, C, D, T, k1, k0, w1, w0, v1, v0, App, Res, told
  <1>15. /\ (P + M) * k1 = P * k1 + M * k1 /\ (P + F) * k0 = P * k0 + F * k0
         /\ (P + F) * (k1 - k0) = P * k1 + F * k1 - P * k0 - F * k0
         /\ k1 * M = M * k1 /\ k1 * F = F * k1
         /\ P * k1 \in Int /\ M * k1 \in Int /\ P * k0 \in Int /\ F * k0 \in Int /\ F * k1 \in Int
    BY <1>5, <1>8
  <1>16. /\ v1 \in Int /\ v0 \in Int /\ App \in Int /\ Res \in Int /\ v1 - v0 - App = Res + T
    BY <1>5, <1>7, <1>8, <1>14, <1>15
  <1>17. QED
    BY <1>3, <1>5, <1>16 DEF v1, v0, App, Res, T, told

-----------------------------------------------------------------------------
(* What the entries tell of an account                                     *)

Scopes == {Household} \cup {OwnedBy(o) : o \in Owners}

\* Of a row's entries, those filed under a transfer category and those that are told,
\* and what of the row no report tells.
Filed(i) == {f \in Entries(i) : f.category # Absent /\ TypeOf[f.category] = "transfer"}
Told(i)  == {f \in Entries(i) : f.amount # Absent /\ (f.category # Absent => TypeOf[f.category] # "transfer")}
Shown(i, scope) == ~rows[i].hidden /\ (scope.whole => rows[i].group = Absent)
Rests(scope) == [i \in DOMAIN rows |-> IF Shown(i, scope) THEN Sum(Filed(i)) ELSE rows[i].base]
OfAccount(start, end, scope, a) == {f \in LoadEntries(start, end, scope, Absent) : f.account = a}

LEMMA ScopeIs ==
  ASSUME NEW scope \in Scopes
  PROVE  /\ scope.whole \in BOOLEAN /\ scope.accounts \in SUBSET Accounts /\ IsFiniteSet(scope.accounts)
         /\ scope.accounts \subseteq Visible /\ (scope.whole => scope.accounts = Visible)
  <1>1. /\ scope.whole \in BOOLEAN /\ scope.accounts \subseteq Visible
        /\ scope.whole => scope.accounts = Visible
    <2>1. CASE scope = Household
      BY <2>1 DEF Household
    <2>2. ASSUME NEW o \in Owners, scope = OwnedBy(o)
          PROVE  scope.whole = FALSE /\ scope.accounts \subseteq Visible
      BY <2>2 DEF OwnedBy
    <2>3. QED
      BY <2>1, <2>2 DEF Scopes
  <1>2. scope.accounts \in SUBSET Accounts
    BY <1>1 DEF Visible
  <1>3. QED
    BY <1>1, <1>2, FS_Subset, ReportsAssumption

LEMMA NothingIsNothing == Flows({}) /\ Sum({}) = 0
  <1>1. Flows({})
    BY FS_EmptySet DEF Flows
  <1>2. Sum({}) = SumOver(Money({}), {}) /\ IntOn(Money({}), {})
    BY <1>1, MoneyIs
  <1>3. QED
    BY <1>1, <1>2, FS_EmptySet, SumRules

LEMMA OfAccountIs ==
  ASSUME ReportsTypeOK, NEW start, NEW end, NEW scope, NEW a
  PROVE  /\ Flows(OfAccount(start, end, scope, a))
         /\ \A f : f \in OfAccount(start, end, scope, a) <=> f \in AllFlows(scope) /\ f.on \in start..end /\ f.account = a
  <1> DEFINE S == LoadEntries(start, end, scope, Absent)
  <1>1. S = {f \in AllFlows(scope) : f.on \in start..end /\ (Absent # Absent => f.owner = Absent)}
    BY WindowOf
  <1>2. Flows(S)
    BY FlowsOf
  <1>3. OfAccount(start, end, scope, a) = {f \in S : f.account = a}
    BY DEF OfAccount
  <1> HIDE DEF S
  <1>4. QED
    BY <1>1, <1>2, <1>3, MoneyIs

LEMMA LegsAddUp ==
  ASSUME NEW start, NEW end, Answerable(start, end), NEW i \in DOMAIN rows, rows[i].day \in start..end
  PROVE  /\ Sum(Told(i)) \in Int /\ Sum(Filed(i)) \in Int
         /\ Sum(Told(i)) + Sum(Filed(i)) = rows[i].base
         /\ \A f \in Entries(i) : f.id[1] = i
  <1> DEFINE row == rows[i]
             Entry(k, category, amount, split) ==
               [id |-> <<i, k>>, category |-> category, account |-> row.account, amount |-> amount,
                owner |-> EffectiveOwner(split, row.owner, row.account), source |-> "transaction", on |-> row.day]
             whole == Entry(0, row.category, row.base, Absent)
             Leg(k) == Entry(k, row.splits[k].category, row.splits[k].base, row.splits[k].owner)
             E == Entries(i)
  <1>1. E = IF row.splits = <<>> THEN {whole} ELSE {Leg(k) : k \in DOMAIN row.splits}
    BY DEF Entries
  <1>2. row \in Row /\ RowFits(row) /\ row.base \in Int /\ row.base # Absent /\ Absent \notin Int
    BY WindowIs, RowIs, ReportsAssumption DEF RowsFit
  <1>3. IsFiniteSet(E)
    BY WindowIs, EntriesAre
  <1>4. ASSUME row.splits = <<>> PROVE Sum(E) = row.base /\ \A f \in E : f.id[1] = i
    <2>1. E = {whole} /\ whole.amount = row.base /\ whole.id[1] = i
      BY <1>1, <1>4
    <2> HIDE DEF whole, E
    <2>2. Flows(E) /\ (\A f \in E : f.id[1] = i) /\ whole \in E /\ E \ {whole} = {}
      BY <1>2, <1>3, <2>1 DEF Flows
    <2>3. IntOn(Money(E), E) /\ Sum(E) = SumOver(Money(E), E) /\ IsFiniteSet(E)
      BY <2>2, MoneyIs DEF Flows
    <2>4. SumOver(Money(E), E) = Money(E)[whole] + SumOver(Money(E), E \ {whole})
      <3>1. E \in SUBSET E
        OBVIOUS
      <3>2. QED
        BY <2>2, <2>3, <3>1, SumAdd
    <2>5. SumOver(Money(E), {}) = 0 /\ Money(E)[whole] = row.base
      BY <2>1, <2>2, <2>3, SumRules DEF Money
    <2>6. Sum(E) = row.base
      BY <1>2, <2>2, <2>3, <2>4, <2>5
    <2>7. QED
      BY <2>2, <2>6
  <1>5. ASSUME row.splits # <<>> PROVE Sum(E) = row.base /\ \A f \in E : f.id[1] = i
    <2> DEFINE one == Leg(1)
               two == Leg(2)
               b1 == row.splits[1].base
               b2 == row.splits[2].base
    <2>1. Len(row.splits) = 2 /\ b1 \in Int /\ b2 \in Int /\ b1 + b2 = row.base
      BY <1>2, <1>5 DEF RowFits
    <2>2. DOMAIN row.splits = {1, 2}
      <3>1. row.splits \in Seq(Part)
        BY <1>2 DEF Row
      <3>2. DOMAIN row.splits = 1..2
        BY <2>1, <3>1
      <3>3. 1..2 = {1, 2}
        OBVIOUS
      <3>4. QED
        BY <3>2, <3>3
    <2>3. E = {one, two}
      BY <1>1, <1>5, <2>2
    <2>4. one.amount = b1 /\ two.amount = b2 /\ one.id = <<i, 1>> /\ two.id = <<i, 2>>
      OBVIOUS
    <2> HIDE DEF one, two, b1, b2, E
    <2>5. one # two /\ one.id[1] = i /\ two.id[1] = i
      BY <2>4
    <2>6. Flows(E) /\ (\A f \in E : f.id[1] = i) /\ one \in E /\ two \in E \ {one} /\ (E \ {one}) \ {two} = {}
      BY <1>3, <2>1, <2>3, <2>4, <2>5 DEF Flows
    <2>7. IntOn(Money(E), E) /\ Sum(E) = SumOver(Money(E), E) /\ IsFiniteSet(E)
      BY <2>6, MoneyIs DEF Flows
    <2>8. SumOver(Money(E), E) = Money(E)[one] + SumOver(Money(E), E \ {one})
      <3>1. E \in SUBSET E
        OBVIOUS
      <3>2. QED
        BY <2>6, <2>7, <3>1, SumAdd
    <2>9. SumOver(Money(E), E \ {one}) = Money(E)[two] + SumOver(Money(E), (E \ {one}) \ {two})
      <3>1. E \ {one} \in SUBSET E
        OBVIOUS
      <3>2. QED
        BY <2>6, <2>7, <3>1, SumAdd
    <2>10. SumOver(Money(E), {}) = 0 /\ Money(E)[one] = b1 /\ Money(E)[two] = b2
      BY <2>4, <2>6, <2>7, SumRules DEF Money
    <2>11. Sum(E) = row.base
      <3>1. SumOver(Money(E), (E \ {one}) \ {two}) = 0
        BY <2>6, <2>10
      <3>2. SumOver(Money(E), E) = b1 + (b2 + 0)
        BY <2>8, <2>9, <2>10, <3>1
      <3>3. QED
        BY <2>1, <2>7, <3>2
    <2>12. QED
      BY <2>6, <2>11
  <1>6. Flows(E) /\ Sum(E) = row.base /\ \A f \in E : f.id[1] = i
    <2>1. Flows(E)
      <3>1. CASE row.splits = <<>>
        BY <1>1, <1>2, <1>3, <3>1 DEF Flows
      <3>2. CASE row.splits # <<>>
        <4>1. Len(row.splits) = 2 /\ row.splits[1].base \in Int /\ row.splits[2].base \in Int /\ row.splits \in Seq(Part)
          BY <1>2, <3>2 DEF RowFits, Row
        <4>2. \A k \in DOMAIN row.splits : k = 1 \/ k = 2
          BY <4>1
        <4>3. \A k \in DOMAIN row.splits : Leg(k).amount \in Int
          BY <4>1, <4>2
        <4>4. QED
          BY <1>1, <1>3, <3>2, <4>3 DEF Flows
      <3>3. QED
        BY <3>1, <3>2
    <2>2. Sum(E) = row.base /\ \A f \in E : f.id[1] = i
      BY <1>4, <1>5
    <2>3. QED
      BY <2>1, <2>2
  <1>7. Told(i) \in SUBSET E /\ Filed(i) \in SUBSET E /\ Told(i) \cap Filed(i) = {} /\ Told(i) \cup Filed(i) = E
    <2>1. \A f \in E : f.amount # Absent
      BY <1>2, <1>6 DEF Flows
    <2>2. QED
      BY <2>1 DEF Told, Filed
  <1> HIDE DEF E
  <1>8. /\ Sum(Told(i)) = SumOver(Money(E), Told(i)) /\ Sum(Told(i)) \in Int
        /\ Sum(Filed(i)) = SumOver(Money(E), Filed(i)) /\ Sum(Filed(i)) \in Int
    BY <1>6, <1>7, PartIs
  <1>9. SumOver(Money(E), Told(i) \cup Filed(i)) = SumOver(Money(E), Told(i)) + SumOver(Money(E), Filed(i))
    <2>1. IsFiniteSet(E) /\ IntOn(Money(E), E)
      BY <1>6, MoneyIs DEF Flows
    <2>2. QED
      BY <1>7, <2>1, SumUnion
  <1>10. Sum(E) = SumOver(Money(E), E)
    BY <1>6, MoneyIs
  <1>11. Sum(Told(i)) + Sum(Filed(i)) = row.base
    BY <1>6, <1>7, <1>8, <1>9, <1>10
  <1>12. QED
    BY <1>6, <1>8, <1>11 DEF E

\* The entries of an account held in balances, and what they do not tell, are its rows.
LEMMA StatedFlows ==
  ASSUME NEW start, NEW end, Answerable(start, end), NEW scope \in Scopes, NEW a \in scope.accounts, a \notin Derived
  PROVE  LET own == RowsIn(a, start, end)
             told == Sum(OfAccount(start, end, scope, a))
         IN /\ IntOn(Rests(scope), own) /\ told \in Int /\ SumOver(Rests(scope), own) \in Int
            /\ SumOver(BaseOf, own) = told + SumOver(Rests(scope), own)
  <1> DEFINE own == RowsIn(a, start, end)
             S == OfAccount(start, end, scope, a)
             rest == Rests(scope)
             k == [f \in S |-> f.id[1]]
             h == [i \in own |-> Sum(Keyed(S, k, i))]
  <1>1. a \in Accounts /\ ReportsTypeOK
    BY ScopeIs, WindowIs
  <1>2. IsFiniteSet(own) /\ IntOn(BaseOf, own)
    BY <1>1, StatedIs
  <1>3. Flows(S)
    BY <1>1, OfAccountIs
  <1>4. ASSUME NEW i \in own
        PROVE  /\ i \in DOMAIN rows /\ rows[i].account = a /\ rows[i].day \in start..end
               /\ Sum(Told(i)) \in Int /\ Sum(Filed(i)) \in Int /\ rows[i].base \in Int
               /\ Sum(Told(i)) + Sum(Filed(i)) = rows[i].base
               /\ \A f \in Entries(i) : f.id[1] = i /\ f.account = a /\ f.on = rows[i].day
    <2>1. i \in DOMAIN rows /\ rows[i].account = a /\ rows[i].day \in start..end
      BY DEF RowsIn
    <2>2. QED
      BY <1>1, <2>1, LegsAddUp, RowIs, EntriesAre
  <1>5. \A f : f \in S <=> \E i \in own : Shown(i, scope) /\ f \in Told(i)
    <2>1. ASSUME NEW f, f \in S PROVE \E i \in own : Shown(i, scope) /\ f \in Told(i)
      <3>1. f \in AllFlows(scope) /\ f.on \in start..end /\ f.account = a
        BY <1>1, <2>1, OfAccountIs
      <3>2. ASSUME NEW i \in DOMAIN trades PROVE f # TradeFlow(i)
        <4>1. TradeFlow(i).account \in Derived
          BY TradeIs DEF TradeFlow
        <4>2. QED
          BY <3>1, <4>1
      <3>3. f \in RowFlows(scope)
        BY <3>1, <3>2 DEF AllFlows
      <3>4. PICK i \in DOMAIN rows : /\ Shown(i, scope) /\ f \in Entries(i)
                                     /\ f.amount # Absent /\ (f.category # Absent => TypeOf[f.category] # "transfer")
        BY <3>3 DEF RowFlows, Shown
      <3>5. f.account = rows[i].account /\ f.on = rows[i].day
        BY <1>1, <3>4, EntriesAre
      <3>6. i \in own
        BY <3>1, <3>5 DEF RowsIn
      <3>7. QED
        BY <3>4, <3>6 DEF Told
    <2>2. ASSUME NEW i \in own, Shown(i, scope), NEW f \in Told(i) PROVE f \in S
      <3>1. f \in Entries(i) /\ f.amount # Absent /\ (f.category # Absent => TypeOf[f.category] # "transfer")
        BY DEF Told
      <3>2. f \in RowFlows(scope)
        BY <1>4, <2>2, <3>1 DEF RowFlows, Shown
      <3>3. f.account = a /\ f.on \in start..end
        BY <1>4, <3>1
      <3>4. QED
        BY <1>1, <3>2, <3>3, OfAccountIs DEF AllFlows
    <2>3. QED
      BY <2>1, <2>2
  <1>6. \A f \in S : k[f] \in own
    <2> SUFFICES ASSUME NEW f \in S PROVE f.id[1] \in own
      OBVIOUS
    <2>1. PICK i \in own : f \in Told(i)
      BY <1>5
    <2>2. f \in Entries(i)
      BY <2>1 DEF Told
    <2>3. f.id[1] = i
      BY <1>4, <2>2
    <2>4. QED
      BY <2>3
  <1>7. ASSUME NEW i \in own PROVE Keyed(S, k, i) = IF Shown(i, scope) THEN Told(i) ELSE {}
    <2>1. \A f : f \in Keyed(S, k, i) <=> f \in S /\ f.id[1] = i
      BY DEF Keyed
    <2>2. \A j \in own : \A f \in Told(j) : f.id[1] = j
      BY <1>4 DEF Told
    <2> HIDE DEF k, S, own
    <2>3. \A f : f \in Keyed(S, k, i) <=> Shown(i, scope) /\ f \in Told(i)
      BY <1>5, <2>1, <2>2
    <2>4. Keyed(S, k, i) \in SUBSET S
      BY DEF Keyed
    <2>5. QED
      BY <2>3
  <1>8. ASSUME NEW i \in own PROVE rest[i] \in Int /\ h[i] \in Int /\ BaseOf[i] = h[i] + rest[i]
    <2>1. BaseOf[i] = rows[i].base /\ rest[i] = IF Shown(i, scope) THEN Sum(Filed(i)) ELSE rows[i].base
      BY <1>4 DEF BaseOf, Rests
    <2>2. h[i] = Sum(IF Shown(i, scope) THEN Told(i) ELSE {})
      BY <1>7
    <2> HIDE DEF h, rest, own
    <2>3. QED
      BY <1>4, <2>1, <2>2, NothingIsNothing
  <1>9. IntOn(rest, own) /\ IntOn(h, own) /\ \A i \in own : h[i] = Sum(Keyed(S, k, i))
    <2>1. \A i \in own : h[i] = Sum(Keyed(S, k, i))
      OBVIOUS
    <2> HIDE DEF h, rest, own, S, k
    <2>2. QED
      BY <1>8, <2>1 DEF IntOn
  <1> HIDE DEF h, rest, own, S, k
  <1>10. SumOver(h, own) = Sum(S)
    BY <1>2, <1>3, <1>6, <1>9, KeysAddUp
  <1>11. SumOver(BaseOf, own) = SumOver(h, own) + SumOver(rest, own)
    BY <1>2, <1>8, <1>9, SumPlus
  <1>12. own \in SUBSET own /\ Sum(S) \in Int
    BY <1>3, MoneyIs
  <1>13. SumOver(rest, own) \in Int
    BY <1>2, <1>9, <1>12, SumRules
  <1>14. QED
    BY <1>9, <1>10, <1>11, <1>12, <1>13 DEF own, S, rest

\* ... and a brokerage's are what came in and went out of its cash.
LEMMA HeldFlows ==
  ASSUME NEW start, NEW end, Answerable(start, end), NEW scope \in Scopes, NEW a \in scope.accounts, a \in Derived
  PROVE  Sum(OfAccount(start, end, scope, a)) = SumOver(PaidIn, ToldOf(a, start, end, scope))
  <1> DEFINE T == ToldOf(a, start, end, scope)
             S == OfAccount(start, end, scope, a)
             k == [i \in T |-> TradeFlow(i)]
  <1>1. a \in Investments /\ ReportsTypeOK /\ scope.whole \in BOOLEAN
    BY ScopeIs, WindowIs DEF Derived
  <1>2. IsFiniteSet(T) /\ IntOn(PaidIn, T)
    BY <1>1, HeldIs
  <1>3. Flows(S)
    BY <1>1, OfAccountIs
  <1>4. ASSUME NEW i
        PROVE  i \in T <=> i \in DOMAIN trades /\ trades[i].account = a /\ trades[i].day \in start..end /\ Reported(scope, i)
    <2>1. ASSUME i \in DOMAIN trades, trades[i].account = a, trades[i].day \in start..end, trades[i].type \notin Deals
          PROVE  trades[i].security = Cash /\ TradeBase(i) # Absent
      BY <2>1, WindowIs, TradeIs DEF DealsArePaid
    <2>2. QED
      BY <2>1 DEF ToldOf, CashMoves, TradesOf, Reported, Deals
  <1>5. ASSUME NEW i \in T
        PROVE  /\ TradeFlow(i) \in S /\ TradeFlow(i).amount = PaidIn[i] /\ TradeFlow(i).id = <<i, Absent>>
    <2>1. i \in DOMAIN trades /\ trades[i].account = a /\ trades[i].day \in start..end /\ Reported(scope, i)
      BY <1>4
    <2>2. TradeFlow(i) \in AllFlows(scope) /\ TradeFlow(i).on \in start..end /\ TradeFlow(i).account = a
      BY <2>1 DEF AllFlows, TradeFlow
    <2>3. TradeFlow(i) \in S
      BY <1>1, <2>2, OfAccountIs
    <2>4. trades[i].quantity = trades[i].amount
      BY <2>1, WindowIs DEF DealsArePaid, Deals, Reported
    <2>5. TradeBase(i) = trades[i].amount * RateOn(CurrencyOf[trades[i].account], trades[i].day)
      BY <2>1, TradeIs
    <2>6. PaidIn[i] = TradeBase(i)
      BY <2>1, <2>4, <2>5 DEF PaidIn
    <2>7. QED
      BY <2>3, <2>6 DEF TradeFlow
  <1>6. ASSUME NEW f \in S PROVE \E i \in T : TradeFlow(i) = f
    <2>1. f \in AllFlows(scope) /\ f.on \in start..end /\ f.account = a
      BY <1>1, OfAccountIs
    <2>2. ASSUME f \in RowFlows(scope) PROVE FALSE
      <3>1. PICK i \in DOMAIN rows : f \in Entries(i)
        BY <2>2 DEF RowFlows
      <3>2. f.account = rows[i].account
        BY <1>1, <3>1, EntriesAre
      <3>3. rows[i].account \notin Investments
        BY <1>1 DEF ReportsTypeOK
      <3>4. QED
        BY <1>1, <2>1, <3>2, <3>3
    <2>3. PICK i \in DOMAIN trades : Reported(scope, i) /\ f = TradeFlow(i)
      BY <2>1, <2>2 DEF AllFlows
    <2>4. trades[i].account = a /\ trades[i].day \in start..end
      BY <2>1, <2>3 DEF TradeFlow
    <2>5. i \in T
      BY <1>4, <2>3, <2>4
    <2>6. QED
      BY <2>3, <2>5
  <1>7. k \in Bijection(T, S)
    <2>1. \A i, j \in T : TradeFlow(i) = TradeFlow(j) => i = j
      <3> SUFFICES ASSUME NEW i \in T, NEW j \in T, TradeFlow(i) = TradeFlow(j) PROVE i = j
        OBVIOUS
      <3>1. <<i, Absent>> = <<j, Absent>>
        BY <1>5
      <3>2. QED
        BY <3>1
    <2>2. k \in [T -> S] /\ \A i \in T : k[i] = TradeFlow(i)
      BY <1>5
    <2> HIDE DEF k, T, S
    <2>3. QED
      BY <1>6, <2>1, <2>2 DEF Bijection, Injection, Surjection, IsInjective
  <1>8. \A i \in T : Money(S)[k[i]] = PaidIn[i]
    <2>1. \A i \in T : k[i] = TradeFlow(i)
      OBVIOUS
    <2> HIDE DEF k, T, S
    <2>2. QED
      BY <1>5, <2>1 DEF Money
  <1> HIDE DEF k, T, S
  <1>9. SumOver(Money(S), S) = SumOver(PaidIn, T)
    BY <1>2, <1>7, <1>8, SumAlong
  <1>10. QED
    BY <1>3, <1>9, MoneyIs DEF S, T

\* What is left unexplained of an account is its residue and what its rows leave untold.
LEMMA UnexplainedOfIs ==
  ASSUME NEW start, NEW end, Answerable(start, end), NEW scope \in Scopes, NEW a \in scope.accounts
  PROVE  LET own == RowsIn(a, start, end)
             market == IF a \in Derived THEN Appreciation(a, start, end) ELSE Revaluation(a, start, end)
         IN /\ IsFiniteSet(own) /\ IntOn(Rests(scope), own) /\ SumOver(Rests(scope), own) \in Int
            /\ AccountValue(a, end).value \in Int /\ AccountValue(a, start).value \in Int /\ market \in Int
            /\ Sum(OfAccount(start, end, scope, a)) \in Int /\ ResidueOf(a, start, end, scope) \in Int
            /\ UnexplainedOf(a, LoadEntries(start, end, scope, Absent), start, end)
                 = AccountValue(a, end).value - AccountValue(a, start).value - Sum(OfAccount(start, end, scope, a)) - market
            /\ AccountValue(a, end).value - AccountValue(a, start).value - Sum(OfAccount(start, end, scope, a)) - market
                 = ResidueOf(a, start, end, scope) + SumOver(Rests(scope), own)
  <1> DEFINE own == RowsIn(a, start, end)
             told == Sum(OfAccount(start, end, scope, a))
             R == SumOver(Rests(scope), own)
             v1 == AccountValue(a, end).value
             v0 == AccountValue(a, start).value
             market == IF a \in Derived THEN Appreciation(a, start, end) ELSE Revaluation(a, start, end)
             left == ResidueOf(a, start, end, scope)
  <1>1. a \in Accounts /\ scope.whole \in BOOLEAN
    BY ScopeIs
  <1>2. UnexplainedOf(a, LoadEntries(start, end, scope, Absent), start, end) = v1 - v0 - told - market
    BY DEF UnexplainedOf, OfAccount
  <1>3. CASE a \in Derived
    <2> DEFINE paid == SumOver(PaidIn, ToldOf(a, start, end, scope))
    <2>1. /\ paid \in Int /\ v1 \in Int /\ v0 \in Int /\ Appreciation(a, start, end) \in Int /\ left \in Int
          /\ v1 - v0 - Appreciation(a, start, end) = left + paid
      BY <1>1, <1>3, HeldIs
    <2>2. told = paid
      BY <1>3, HeldFlows
    <2>3. own = {}
      <3>1. a \in Investments /\ \A i \in DOMAIN rows : rows[i].account \notin Investments
        BY <1>3, WindowIs DEF Derived, ReportsTypeOK
      <3>2. QED
        BY <3>1 DEF RowsIn
    <2>4. IsFiniteSet(own) /\ IntOn(Rests(scope), own)
      BY <2>3, FS_EmptySet DEF IntOn
    <2>5. R = 0
      <3> HIDE DEF own
      <3> QED BY <2>3, <2>4, SumRules
    <2>6. market = Appreciation(a, start, end)
      BY <1>3
    <2> HIDE DEF own, told, R, v1, v0, market, left, paid
    <2>7. v1 - v0 - told - market = left + R /\ told \in Int /\ market \in Int /\ R \in Int
      BY <2>1, <2>2, <2>5, <2>6
    <2>8. QED
      BY <1>2, <2>1, <2>4, <2>7 DEF own, told, R, v1, v0, market, left
  <1>4. CASE a \notin Derived
    <2> DEFINE worth == SumOver(BaseOf, own)
    <2>1. /\ IsFiniteSet(own) /\ left \in Int /\ worth \in Int /\ v1 \in Int /\ v0 \in Int
          /\ Revaluation(a, start, end) \in Int
          /\ v1 - v0 - Revaluation(a, start, end) = left + worth
      BY <1>1, <1>4, StatedIs DEF ResidueOf
    <2>2. IntOn(Rests(scope), own) /\ told \in Int /\ R \in Int /\ worth = told + R
      BY <1>4, StatedFlows
    <2>3. market = Revaluation(a, start, end)
      BY <1>4
    <2> HIDE DEF own, told, R, v1, v0, market, left, worth
    <2>4. v1 - v0 - told - market = left + R /\ market \in Int
      BY <2>1, <2>2, <2>3
    <2>5. QED
      BY <1>2, <2>1, <2>2, <2>4 DEF own, told, R, v1, v0, market, left
  <1>5. QED
    BY <1>3, <1>4

-----------------------------------------------------------------------------
(* ... and what all of them come to                                        *)

\* The linked pairs of a window, where they are no flow, come to their conversion cost.
Linked(scope) == [i \in DOMAIN rows |-> IF scope.whole /\ rows[i].group # Absent /\ ~rows[i].hidden THEN rows[i].base ELSE 0]
RowsOfAll(start, end, scope) == {j \in DOMAIN rows : rows[j].account \in scope.accounts /\ rows[j].day \in start..end}

LEMMA LinkedIs ==
  ASSUME NEW start, NEW end, Answerable(start, end), NEW scope \in Scopes
  PROVE  LET all == RowsOfAll(start, end, scope) IN
         IntOn(Linked(scope), all) /\ SumOver(Linked(scope), all) = ConversionCost(start, end, scope)
  <1> DEFINE all == RowsOfAll(start, end, scope)
             e == Linked(scope)
             in == {i \in DOMAIN rows : rows[i].group # Absent /\ rows[i].day \in start..end}
             groups == {rows[i].group : i \in in}
             seen == {g \in groups : \A i \in in : rows[i].group = g => ~rows[i].hidden /\ rows[i].account \notin hidden}
             legs(g) == {i \in DOMAIN rows : rows[i].group = g}
             Cost(g) == IF \E i \in legs(g) : rows[i].base = Absent THEN 0
                        ELSE SumFunction([i \in legs(g) |-> rows[i].base])
             h == [g \in seen |-> Cost(g)]
             k == [i \in in |-> rows[i].group]
  <1>1. IsFiniteSet(DOMAIN rows) /\ all \in SUBSET DOMAIN rows /\ in \in SUBSET DOMAIN rows
    BY WindowIs DEF RowsOfAll
  <1>2. IsFiniteSet(all) /\ IsFiniteSet(in)
    <2> HIDE DEF all, in
    <2> QED BY <1>1, FS_Subset
  <1>3. ASSUME NEW i \in all PROVE e[i] \in Int /\ rows[i].day \in start..end /\ rows[i].account \in scope.accounts /\ i \in DOMAIN rows
    <2>1. i \in DOMAIN rows /\ rows[i].day \in start..end /\ rows[i].account \in scope.accounts
      BY DEF RowsOfAll
    <2>2. rows[i].base \in Int
      BY <2>1, RowIs
    <2>3. QED
      BY <2>1, <2>2 DEF Linked
  <1>4. IntOn(e, all)
    BY <1>3 DEF IntOn
  <1>5. CASE ~scope.whole
    <2>1. \A i \in all : e[i] = 0
      BY <1>3, <1>5 DEF Linked
    <2>2. SumOver(e, all) = 0
      <3> HIDE DEF e, all
      <3> QED BY <1>2, <2>1, SumNothing
    <2>3. ConversionCost(start, end, scope) = 0
      BY <1>5 DEF ConversionCost
    <2>4. QED
      BY <1>4, <2>2, <2>3
  <1>6. CASE scope.whole
    <2>1. /\ \A i \in in : /\ ~rows[i].hidden /\ rows[i].account \in scope.accounts /\ rows[i].account \notin hidden
                           /\ rows[i].base \in Int /\ rows[i].base # Absent /\ BaseOf[i] = rows[i].base
          /\ \A i \in in : \A j \in DOMAIN rows : rows[j].group = rows[i].group => j \in in
      <3>1. /\ \A i, j \in DOMAIN rows : rows[i].group # Absent /\ rows[i].group = rows[j].group =>
                 /\ rows[i].day \in start..end <=> rows[j].day \in start..end
                 /\ ~rows[i].hidden /\ rows[i].account \in Visible
        BY DEF Answerable, Knowable
      <3>2. scope.accounts = Visible
        BY <1>6, ScopeIs
      <3>3. ASSUME NEW i \in in
            PROVE  /\ ~rows[i].hidden /\ rows[i].account \in scope.accounts /\ rows[i].account \notin hidden
                   /\ rows[i].base \in Int /\ rows[i].base # Absent /\ BaseOf[i] = rows[i].base
        <4>1. i \in DOMAIN rows /\ rows[i].group # Absent /\ rows[i].day \in start..end
          OBVIOUS
        <4>2. ~rows[i].hidden /\ rows[i].account \in Visible
          BY <3>1, <4>1
        <4>3. rows[i].base \in Int /\ rows[i].base # Absent
          BY <4>1, RowIs
        <4>4. QED
          BY <3>2, <4>1, <4>2, <4>3 DEF Visible, BaseOf
      <3>4. ASSUME NEW i \in in, NEW j \in DOMAIN rows, rows[j].group = rows[i].group PROVE j \in in
        BY <3>1, <3>4
      <3>5. QED
        BY <3>3, <3>4
    <2>2. in \in SUBSET all /\ (\A i \in in : e[i] = BaseOf[i]) /\ (\A i \in all \ in : e[i] = 0)
      <3>1. in \in SUBSET all
        BY <2>1 DEF RowsOfAll
      <3>2. \A i \in in : e[i] = BaseOf[i]
        BY <1>6, <2>1 DEF Linked
      <3>3. ASSUME NEW i \in all \ in PROVE e[i] = 0
        <4>1. i \in DOMAIN rows /\ rows[i].group = Absent
          BY <1>3
        <4>2. QED
          BY <4>1 DEF Linked
      <3>4. QED
        BY <3>1, <3>2, <3>3
    <2>3. seen = groups /\ \A i \in in : k[i] \in groups
      BY <2>1
    <2>4. IntOn(BaseOf, in) /\ IsFiniteSet(groups)
      <3>1. IntOn(BaseOf, in)
        BY <2>1 DEF IntOn
      <3>2. k \in Surjection(in, groups)
        BY DEF Surjection
      <3> HIDE DEF k, in, groups
      <3>3. QED
        BY <1>2, <3>1, <3>2, FS_Surjection
    <2>5. ASSUME NEW g \in groups PROVE h[g] = SumOver(BaseOf, Keyed(in, k, g))
      <3> DEFINE f == [i \in legs(g) |-> rows[i].base]
      <3>1. PICK i \in in : g = rows[i].group
        OBVIOUS
      <3>2. \A j \in DOMAIN rows : rows[j].group = g => j \in in
        BY <2>1, <3>1
      <3>3. legs(g) = Keyed(in, k, g)
        BY <3>2 DEF Keyed
      <3>4. \A j \in legs(g) : rows[j].base # Absent /\ f[j] = BaseOf[j]
        BY <2>1, <3>2
      <3>5. h[g] = SumOver(f, legs(g))
        <4>1. g \in seen /\ ~(\E j \in legs(g) : rows[j].base = Absent)
          BY <2>3, <3>4
        <4>2. h[g] = SumFunction(f)
          BY <4>1
        <4>3. QED
          BY <4>2, FunctionSum
      <3>6. legs(g) \in SUBSET in
        BY <3>2
      <3> DEFINE S == legs(g)
      <3> HIDE DEF f, h, in, k, legs
      <3>7. IsFiniteSet(S) /\ IntOn(BaseOf, S) /\ \A j \in S : f[j] = BaseOf[j]
        BY <1>2, <2>4, <3>4, <3>6, FS_Subset DEF IntOn
      <3>8. SumOver(f, S) = SumOver(BaseOf, S)
        BY <3>7, SumSame
      <3>9. QED
        BY <3>3, <3>5, <3>8
    <2>6. SumOver(h, groups) = SumOver(BaseOf, in)
      <3> HIDE DEF h, in, k, groups
      <3> QED BY <1>2, <2>3, <2>4, <2>5, SumParts
    <2>7. ConversionCost(start, end, scope) = SumOver(h, groups)
      <3>1. ConversionCost(start, end, scope) = SumFunction(h)
        BY <1>6 DEF ConversionCost
      <3>2. SumFunction(h) = SumOver(h, seen)
        BY FunctionSum
      <3>3. QED
        BY <2>3, <3>1, <3>2
    <2>8. SumOver(e, all) = SumOver(e, in)
      <3> HIDE DEF e, all, in
      <3> QED BY <1>2, <1>4, <2>2, SumWithin
    <2>9. SumOver(e, in) = SumOver(BaseOf, in)
      <3> HIDE DEF e, all, in
      <3> QED BY <1>2, <2>2, <2>4, SumSame
    <2>10. QED
      BY <1>4, <2>6, <2>7, <2>8, <2>9
  <1>7. QED
    BY <1>5, <1>6

\* The rows' rests, account by account, are what is unreported and the conversion cost.
LEMMA RestsAddUp ==
  ASSUME NEW start, NEW end, Answerable(start, end), NEW scope \in Scopes,
         NEW R, \A a \in scope.accounts : R[a] = SumOver(Rests(scope), RowsIn(a, start, end))
  PROVE  LET unreported == SumFunction([i \in {j \in DOMAIN rows : rows[j].account \in scope.accounts /\ rows[j].day \in start..end}
                                          |-> Unreported(i, scope)])
         IN /\ IntOn(R, scope.accounts) /\ unreported \in Int /\ ConversionCost(start, end, scope) \in Int
            /\ SumOver(R, scope.accounts) = unreported + ConversionCost(start, end, scope)
  <1> DEFINE all == RowsOfAll(start, end, scope)
             u == [i \in all |-> Unreported(i, scope)]
             r == Rests(scope)
             e == Linked(scope)
             k == [i \in all |-> rows[i].account]
             cost == ConversionCost(start, end, scope)
  <1>1. /\ IsFiniteSet(scope.accounts) /\ IsFiniteSet(DOMAIN rows)
        /\ all \in SUBSET DOMAIN rows
    BY ScopeIs, WindowIs DEF RowsOfAll
  <1>2. IsFiniteSet(all)
    <2> HIDE DEF all
    <2> QED BY <1>1, FS_Subset
  <1>3. ASSUME NEW i \in all
        PROVE  k[i] \in scope.accounts /\ r[i] \in Int /\ u[i] \in Int /\ r[i] = u[i] + e[i]
    <2>1. i \in DOMAIN rows /\ rows[i].day \in start..end /\ rows[i].account \in scope.accounts /\ k[i] = rows[i].account
      BY DEF RowsOfAll
    <2>2. rows[i].base \in Int /\ Sum(Filed(i)) \in Int
      BY <2>1, RowIs, LegsAddUp
    <2>3. u[i] = IF rows[i].hidden THEN rows[i].base
                 ELSE IF scope.whole /\ rows[i].group # Absent THEN 0 ELSE Sum(Filed(i))
      BY DEF Unreported, Filed
    <2>4. r[i] = IF ~rows[i].hidden /\ (scope.whole => rows[i].group = Absent) THEN Sum(Filed(i)) ELSE rows[i].base
      BY <2>1 DEF Rests, Shown
    <2>5. e[i] = IF scope.whole /\ rows[i].group # Absent /\ ~rows[i].hidden THEN rows[i].base ELSE 0
      BY <2>1 DEF Linked
    <2> HIDE DEF u, r, e, k, all
    <2>6. QED
      BY <2>1, <2>2, <2>3, <2>4, <2>5
  <1>4. ASSUME NEW a \in scope.accounts PROVE R[a] = SumOver(r, Keyed(all, k, a))
    <2>1. RowsIn(a, start, end) = Keyed(all, k, a)
      BY DEF RowsIn, Keyed, RowsOfAll
    <2>2. QED
      BY <2>1
  <1>5. SumFunction(u) = SumOver(u, all) /\ all = {j \in DOMAIN rows : rows[j].account \in scope.accounts /\ rows[j].day \in start..end}
    BY FunctionSum DEF RowsOfAll
  <1>6. IntOn(e, all) /\ SumOver(e, all) = cost
    BY LinkedIs
  <1> DEFINE unreported == SumFunction([i \in {j \in DOMAIN rows : rows[j].account \in scope.accounts /\ rows[j].day \in start..end}
                                          |-> Unreported(i, scope)])
  <1>7. unreported = SumOver(u, all)
    BY <1>5
  <1> HIDE DEF u, r, e, k, all, cost, unreported
  <1>8. IntOn(r, all) /\ IntOn(u, all) /\ all \in SUBSET all
    BY <1>3 DEF IntOn
  <1>9. IntOn(R, scope.accounts) /\ SumOver(R, scope.accounts) = SumOver(r, all)
    BY <1>1, <1>2, <1>3, <1>4, <1>8, SumParts
  <1>10. SumOver(r, all) = SumOver(u, all) + SumOver(e, all)
    BY <1>2, <1>3, <1>6, <1>8, SumPlus
  <1>11. SumOver(u, all) \in Int /\ SumOver(e, all) \in Int
    BY <1>2, <1>6, <1>8, SumRules
  <1>12. QED
    BY <1>6, <1>7, <1>9, <1>10, <1>11 DEF cost, unreported

LEMMA HalvesAddUp ==
  ASSUME NEW S, Flows(S)
  PROVE  Income(S) + Expense(S) = Sum(S)
  <1> DEFINE B == Gains(S) \cup Losses(S)
  <1>1. IsFiniteSet(S) /\ IntOn(Money(S), S) /\ Sum(S) = SumOver(Money(S), S)
    BY MoneyIs DEF Flows
  <1>2. /\ Gains(S) \in SUBSET S /\ Losses(S) \in SUBSET S /\ B \in SUBSET S /\ Gains(S) \cap Losses(S) = {}
        /\ \A f \in S \ B : Money(S)[f] = 0
    BY DEF Gains, Losses, Money, Flows
  <1>3. Income(S) = Sum(Gains(S)) /\ Expense(S) = Sum(Losses(S))
    BY HalvesAre
  <1>4. Sum(Gains(S)) = SumOver(Money(S), Gains(S)) /\ Sum(Losses(S)) = SumOver(Money(S), Losses(S))
    BY <1>2, PartIs
  <1>5. SumOver(Money(S), B) = SumOver(Money(S), Gains(S)) + SumOver(Money(S), Losses(S))
    BY <1>1, <1>2, SumUnion
  <1>6. SumOver(Money(S), S) = SumOver(Money(S), B)
    <2> HIDE DEF B
    <2> QED BY <1>1, <1>2, SumWithin
  <1>7. QED
    BY <1>1, <1>3, <1>4, <1>5, <1>6

\* The entries of a report are those of its accounts.
LEMMA FlowsAddUp ==
  ASSUME NEW start, NEW end, Answerable(start, end), NEW scope \in Scopes,
         NEW told, \A a \in scope.accounts : told[a] = Sum(OfAccount(start, end, scope, a))
  PROVE  LET flows == LoadEntries(start, end, scope, Absent) IN
         IntOn(told, scope.accounts) /\ Income(flows) + Expense(flows) = SumOver(told, scope.accounts)
  <1> DEFINE flows == LoadEntries(start, end, scope, Absent)
             k == [f \in flows |-> f.account]
  <1>1. ReportsTypeOK /\ IsFiniteSet(scope.accounts) /\ Flows(flows)
    BY WindowIs, ScopeIs, FlowsOf
  <1>2. ASSUME NEW f \in flows PROVE f.account \in scope.accounts
    <2>1. f \in AllFlows(scope)
      BY <1>1, FlowsOf
    <2>2. CASE f \in RowFlows(scope)
      <3>1. PICK j \in DOMAIN rows : rows[j].account \in scope.accounts /\ f \in Entries(j)
        BY <2>2 DEF RowFlows
      <3>2. QED
        BY <1>1, <3>1, EntriesAre
    <2>3. ASSUME NEW i \in DOMAIN trades, Reported(scope, i), f = TradeFlow(i) PROVE f.account \in scope.accounts
      <3>1. f.account = trades[i].account /\ trades[i].account \in Derived
        BY <2>3, TradeIs DEF TradeFlow
      <3>2. Derived \subseteq Visible
        BY DEF Answerable, Knowable
      <3>3. QED
        BY <2>3, <3>1, <3>2, ScopeIs DEF Reported
    <2>4. QED
      BY <2>1, <2>2, <2>3 DEF AllFlows
  <1>3. (\A f \in flows : k[f] \in scope.accounts) /\ \A a \in scope.accounts : told[a] = Sum(Keyed(flows, k, a))
    <2>1. \A f \in flows : k[f] \in scope.accounts
      BY <1>2
    <2>2. ASSUME NEW a \in scope.accounts PROVE OfAccount(start, end, scope, a) = Keyed(flows, k, a)
      BY DEF OfAccount, Keyed
    <2>3. QED
      BY <2>1, <2>2
  <1> HIDE DEF flows, k
  <1>4. IntOn(told, scope.accounts) /\ SumOver(told, scope.accounts) = Sum(flows)
    BY <1>1, <1>3, KeysAddUp
  <1>5. Income(flows) + Expense(flows) = Sum(flows)
    BY <1>1, HalvesAddUp
  <1>6. QED
    BY <1>4, <1>5 DEF flows

\* The change of each account, added up.
LEMMA ChangeIsNamed ==
  ASSUME NEW start, NEW end, Answerable(start, end), NEW scope \in Scopes
  PROVE  LET unexplained == Reconciliation(start, end, scope).unexplained
             flows == LoadEntries(start, end, scope, Absent)
         IN unexplained = Residue(start, end, scope) /\ Unattributed(unexplained, flows, start, end, scope) = 0
  <1> DEFINE S == scope.accounts
             flows == LoadEntries(start, end, scope, Absent)
             cost == ConversionCost(start, end, scope)
             v1 == [a \in S |-> AccountValue(a, end).value]
             v0 == [a \in S |-> AccountValue(a, start).value]
             told == [a \in S |-> Sum(OfAccount(start, end, scope, a))]
             m == [a \in S |-> IF a \in Derived THEN Appreciation(a, start, end) ELSE Revaluation(a, start, end)]
             u == [a \in S |-> UnexplainedOf(a, flows, start, end)]
             d == [a \in S |-> ResidueOf(a, start, end, scope)]
             R == [a \in S |-> SumOver(Rests(scope), RowsIn(a, start, end))]
             held == [a \in Derived \cap S |-> Appreciation(a, start, end)]
             stated == [a \in S \ Derived |-> Revaluation(a, start, end)]
             mu == [a \in S |-> m[a] + u[a]]
             tmu == [a \in S |-> told[a] + mu[a]]
             unreported == SumFunction([i \in {j \in DOMAIN rows : rows[j].account \in S /\ rows[j].day \in start..end}
                                          |-> Unreported(i, scope)])
  <1>1. IsFiniteSet(S)
    BY ScopeIs
  <1>2. ASSUME NEW a \in S
        PROVE  /\ v1[a] \in Int /\ v0[a] \in Int /\ told[a] \in Int /\ m[a] \in Int /\ d[a] \in Int /\ R[a] \in Int
               /\ u[a] = v1[a] - v0[a] - told[a] - m[a] /\ u[a] = d[a] + R[a]
    BY UnexplainedOfIs
  <1>3. /\ \A a \in S : R[a] = SumOver(Rests(scope), RowsIn(a, start, end))
        /\ \A a \in S : told[a] = Sum(OfAccount(start, end, scope, a))
    OBVIOUS
  <1>4. SumOver(R, S) = unreported + cost /\ unreported \in Int /\ cost \in Int
    <2> HIDE DEF R
    <2> QED BY <1>3, RestsAddUp
  <1>5. Income(flows) + Expense(flows) = SumOver(told, S)
    <2> HIDE DEF told
    <2> QED BY <1>3, FlowsAddUp
  <1>6. NetWorthAt(end, scope) = SumOver(v1, S) /\ NetWorthAt(start, scope) = SumOver(v0, S)
    BY FunctionSum DEF NetWorthAt
  <1>7. SumFunction(d) = SumOver(d, S) /\ SumFunction(u) = SumOver(u, S)
        /\ SumFunction(held) = SumOver(held, Derived \cap S) /\ SumFunction(stated) = SumOver(stated, S \ Derived)
    BY FunctionSum
  <1>8. (\A a \in Derived \cap S : held[a] = m[a]) /\ (\A a \in S \ Derived : stated[a] = m[a])
    OBVIOUS
  <1>9. (\A a \in S : mu[a] = m[a] + u[a]) /\ (\A a \in S : tmu[a] = told[a] + mu[a])
    OBVIOUS
  <1>10. /\ Reconciliation(start, end, scope).unexplained =
              (NetWorthAt(end, scope) - NetWorthAt(start, scope)) - (Income(flows) + Expense(flows))
                - (SumFunction(stated) + cost) - SumFunction(held)
         /\ Residue(start, end, scope) = SumFunction(d) + unreported
         /\ \A x : Unattributed(x, flows, start, end, scope) = x - SumFunction(u) + cost
    BY DEF Reconciliation, Residue, Unattributed
  <1> HIDE DEF flows, cost, v1, v0, told, m, u, d, R, held, stated, mu, tmu, unreported
  <1>11. /\ IntOn(v0, S) /\ IntOn(told, S) /\ IntOn(m, S) /\ IntOn(u, S) /\ IntOn(d, S) /\ IntOn(R, S)
    BY <1>2 DEF IntOn
  <1>12. IntOn(mu, S) /\ SumOver(mu, S) = SumOver(m, S) + SumOver(u, S)
    BY <1>1, <1>9, <1>11, SumPlus
  <1>13. IntOn(tmu, S) /\ SumOver(tmu, S) = SumOver(told, S) + SumOver(mu, S)
    BY <1>1, <1>9, <1>11, <1>12, SumPlus
  <1>14. SumOver(v1, S) = SumOver(v0, S) + SumOver(tmu, S)
    <2>1. \A a \in S : v1[a] = v0[a] + tmu[a]
      BY <1>2, <1>9
    <2>2. QED
      BY <1>1, <1>11, <1>13, <2>1, SumPlus
  <1>15. SumOver(u, S) = SumOver(d, S) + SumOver(R, S)
    BY <1>1, <1>2, <1>11, SumPlus
  <1>16. SumOver(held, Derived \cap S) + SumOver(stated, S \ Derived) = SumOver(m, S)
    <2> DEFINE A == Derived \cap S
               B == S \ Derived
    <2>1. A \in SUBSET S /\ B \in SUBSET S /\ A \cap B = {} /\ A \cup B = S
      OBVIOUS
    <2>2. (\A a \in A : held[a] = m[a]) /\ (\A a \in B : stated[a] = m[a])
      BY <1>8
    <2> HIDE DEF A, B
    <2>3. IsFiniteSet(A) /\ IsFiniteSet(B) /\ IntOn(m, A) /\ IntOn(m, B)
      BY <1>1, <1>11, <2>1, FS_Subset DEF IntOn
    <2>4. SumOver(held, A) = SumOver(m, A) /\ SumOver(stated, B) = SumOver(m, B)
      BY <2>2, <2>3, SumSame
    <2>5. SumOver(m, A \cup B) = SumOver(m, A) + SumOver(m, B)
      BY <1>1, <1>11, <2>1, SumUnion
    <2>6. QED
      BY <2>1, <2>4, <2>5 DEF A, B
  <1>17. /\ SumOver(v0, S) \in Int /\ SumOver(told, S) \in Int /\ SumOver(m, S) \in Int /\ SumOver(u, S) \in Int
         /\ SumOver(d, S) \in Int /\ SumOver(R, S) \in Int
    <2>1. S \in SUBSET S
      OBVIOUS
    <2>2. QED
      BY <1>1, <1>11, <2>1, SumRules
  <1> DEFINE x == Reconciliation(start, end, scope).unexplained
  <1>18. x = (SumOver(v1, S) - SumOver(v0, S)) - SumOver(told, S) - (SumFunction(stated) + cost) - SumFunction(held)
    BY <1>5, <1>6, <1>10
  <1>19. SumFunction(held) \in Int /\ SumFunction(stated) \in Int /\ SumFunction(held) + SumFunction(stated) = SumOver(m, S)
    <2>1. SumOver(held, Derived \cap S) \in Int /\ SumOver(stated, S \ Derived) \in Int
      <3> DEFINE A == Derived \cap S
                 B == S \ Derived
      <3>1. A \in SUBSET S /\ B \in SUBSET S /\ (\A a \in A : held[a] = m[a]) /\ (\A a \in B : stated[a] = m[a])
        BY <1>8
      <3> HIDE DEF A, B
      <3>2. IsFiniteSet(A) /\ IsFiniteSet(B) /\ IntOn(held, A) /\ IntOn(stated, B) /\ A \in SUBSET A /\ B \in SUBSET B
        BY <1>1, <1>11, <3>1, FS_Subset DEF IntOn
      <3>3. SumOver(held, A) \in Int /\ SumOver(stated, B) \in Int
        BY <3>2, SumRules
      <3>4. QED
        BY <3>3 DEF A, B
    <2>2. QED
      BY <1>7, <1>16, <2>1
  <1> HIDE DEF x, S
  <1>20. x = SumOver(u, S) - cost
    BY <1>4, <1>12, <1>13, <1>14, <1>17, <1>18, <1>19
  <1>21. x = SumOver(d, S) + unreported /\ x - SumOver(u, S) + cost = 0
    BY <1>4, <1>15, <1>17, <1>20
  <1>22. QED
    BY <1>7, <1>10, <1>21 DEF x, flows

\* Over any window whose rates and prices are known, what is left unexplained of the
\* household's change, or of an owner's, is the residue the model names, and is that
\* of its accounts without a rest (net_worth_series, _unexplained_by_account).
THEOREM UnexplainedIsNamedForAll == BudgetsSpec => []UnexplainedIsNamed
  <1>1. ReportsInv /\ WorthInv => UnexplainedIsNamed
    <2> SUFFICES ASSUME ReportsInv, WorthInv, NEW w \in Windows, Knowable(w[1], w[2]), NEW scope \in Scopes
                 PROVE  LET unexplained == Reconciliation(w[1], w[2], scope).unexplained
                            flows == LoadEntries(w[1], w[2], scope, Absent)
                        IN /\ unexplained = Residue(w[1], w[2], scope)
                           /\ Unattributed(unexplained, flows, w[1], w[2], scope) = 0
      BY DEF UnexplainedIsNamed, Scopes
    <2>1. <<w[1], w[2]>> \in Windows
      BY DEF Windows
    <2>2. Answerable(w[1], w[2])
      BY <2>1 DEF Answerable
    <2>3. QED
      BY <2>2, ChangeIsNamed
  <1>2. QED
    BY <1>1, ReportsInductive, WorthInductive, PTL
=============================================================================
