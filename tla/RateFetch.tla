------------------------------ MODULE RateFetch ------------------------------
(***************************************************************************)
(* The daily rates (services/fx_fetch.py, ADR-0046) and what depends on    *)
(* them: one table of rates that every household shares, one cached        *)
(* conversion per foreign row of each, the worker's run that asks a source *)
(* for what is missing, household by household, and recomputes after, and  *)
(* the people who state rates and enter rows meanwhile.                    *)
(*                                                                         *)
(* A rate is who stated it: the source has one rate for a pair and a day,  *)
(* and a person one.  A row means 1 of its first currency is so much of    *)
(* its second.                                                             *)
(***************************************************************************)
EXTENDS Integers, Sequences, FiniteSetsExt

CONSTANTS
  Households,  \* household ids
  Currencies,  \* currency codes
  LastDay,     \* bound: the last day rates are for
  Starts,      \* each household's base currency, and for a behaviour that starts so
               \* the bounds on its days, on its rows and on the rates people state
  Null

Dates == 1..LastDay
Pairs == {p \in Currencies \X Currencies : p[1] # p[2]}
Rates == Pairs \X Dates

\* What a household's run asks of the source, and a run.
Wanted   == [first : Dates, ranges : Seq(SUBSET Dates)]
Question == [of : Households, on : Dates, what : UNION {[S -> Wanted] : S \in SUBSET Currencies}]
FetchRun == [phase : {"fetch", "second", "all"}, left : SUBSET Households, asking : Question \union {Null},
             wrote : SUBSET (Households \X Pairs), startup : BOOLEAN]

\* The rate a row was converted at, or NULL.
Conversions == (Pairs \X Dates \X {"auto", "user"}) \union {Null}

ASSUME StartsAssumption ==
  /\ LastDay \in Nat
  /\ \A s \in Starts :
       s.base \in [Households -> Currencies] /\ s.last \in Dates /\ s.rows \in Nat /\ s.stated \in Nat
ASSUME NullIsNoRate ==
  Null \notin {"auto", "user"} \union FetchRun \union Question
               \union (Pairs \X Dates \X {"auto", "user"})

VARIABLES
  start,    \* one of Starts; households.base_currency never changes
  table,    \* fx_rates: who stated a pair's rate for a day, or Null
  cached,   \* base_amount: the rate each foreign row was converted at, or Null
  today,
  run,      \* the fetch under way, or Null
  excused   \* history: the rows whose cache nobody owes a recompute

rateVars == <<start, table, cached, today, run, excused>>

ForeignRow(h, ccy, day) == [of |-> h, ccy |-> ccy, day |-> day]
Foreign(h) == Currencies \ {start.base[h]}

-----------------------------------------------------------------------------
(* Conversion                                                              *)

\* _latest_rate: the day of a pair's latest rate on or before one, 0 if none.
Latest(rates, pair, day) == Max({0} \union {d \in 1..day : rates[<<pair, d>>] # Null})

\* to_base: the more recently stated of a pair's two directions, this one on a tie.
Converted(rates, row) ==
  LET b == start.base[row.of]
      direct == Latest(rates, <<row.ccy, b>>, row.day)
      inverse == Latest(rates, <<b, row.ccy>>, row.day)
      at(pair, day) == <<pair, day, rates[<<pair, day>>]>>
  IN IF direct = 0 /\ inverse = 0 THEN Null
     ELSE IF direct >= inverse THEN at(<<row.ccy, b>>, direct)
     ELSE at(<<b, row.ccy>>, inverse)

\* recompute_base_amounts: every foreign row of one household.
Recomputed(rates, h) ==
  [row \in DOMAIN cached |-> IF row.of = h THEN Converted(rates, row) ELSE cached[row]]

Stale(rates, caches) == {row \in DOMAIN caches : caches[row] # Converted(rates, row)}

-----------------------------------------------------------------------------
(* What a household is missing                                             *)

\* currencies_needed: each foreign currency, and the first day it is needed.
Needed(h) == {row.ccy : row \in {r \in DOMAIN cached : r.of = h}}
FirstNeeded(h, ccy) == Min({row.day : row \in {r \in DOMAIN cached : r.of = h /\ r.ccy = ccy}})

\* _auto_span: the days a pair has fetched rates for.
Fetched(pair) == {d \in Dates : table[<<pair, d>>] = "auto"}

MissingRanges_LaterOnly(first, held, on) ==
  IF held = {} THEN IF first <= on THEN << first..on >> ELSE << >>
  ELSE IF Max(held) < on THEN << Max(held) + 1 .. on >> ELSE << >>

\* _missing_ranges: all of it the first time, and then what lies outside.
MissingRanges(first, held, on) ==
  IF held = {} THEN IF first <= on THEN << first..on >> ELSE << >>
  ELSE (IF first < Min(held) THEN << first .. Min(held) - 1 >> ELSE << >>)
         \o (IF Max(held) < on THEN << Max(held) + 1 .. on >> ELSE << >>)

\* What refresh_household sets out with: a currency's first day and its ranges.
Missing(h) ==
  [ccy \in Needed(h) |->
     [first |-> FirstNeeded(h, ccy),
      ranges |-> MissingRanges(FirstNeeded(h, ccy), Fetched(<<start.base[h], ccy>>), today)]]

-----------------------------------------------------------------------------
(* The worker                                                              *)

Idle == run = Null
In(phase) == run # Null /\ run.phase = phase

Begun(startup) ==
  [phase |-> "fetch", left |-> Households, asking |-> Null, wrote |-> {}, startup |-> startup]

\* recompute_all, which a start runs after its fetch however that ended.
Everyone == [phase |-> "all", left |-> Households, asking |-> Null, wrote |-> {}, startup |-> TRUE]

\* What comes after a household: the next, the second pass, recompute_all, or nothing.
After(r) ==
  IF r.left # {} THEN r
  ELSE IF r.phase = "fetch" THEN [r EXCEPT !.phase = "second", !.left = Households]
  ELSE IF r.phase = "second" /\ r.startup THEN Everyone
  ELSE Null

\* refresh_fx, once a day.
BeginRun ==
  /\ Idle
  /\ run' = Begun(FALSE)
  /\ UNCHANGED <<start, table, cached, today, excused>>

\* The worker dies and starts again: startup_checks.
RestartRun ==
  /\ run' = Begun(TRUE)
  /\ UNCHANGED <<start, table, cached, today, excused>>

\* refresh_household reads what it is missing...
Ask(h) ==
  /\ In("fetch") /\ run.asking = Null
  /\ h \in run.left
  /\ run' = [run EXCEPT !.asking = [of |-> h, on |-> today, what |-> Missing(h)]]
  /\ UNCHANGED <<start, table, cached, today, excused>>

\* ON CONFLICT DO NOTHING
Unfilled(days) == {r \in days : table[r] = Null}

\* ... and stores what the source answers, which may not have today's rate yet.
Answer(answered, published) ==
  LET ask == run.asking
      got(ccy) == UNION {ask.what[ccy].ranges[i] : i \in 1..answered[ccy]}
      days == UNION {{<<<<start.base[ask.of], ccy>>, d>> : d \in got(ccy) \ (IF published THEN {} ELSE {ask.on})} :
                       ccy \in DOMAIN ask.what}
      new == Unfilled(days)
  IN /\ table' = [r \in Rates |-> IF r \in new THEN "auto" ELSE table[r]]
     /\ run' = After([run EXCEPT !.left = @ \ {ask.of}, !.asking = Null,
                                 !.wrote = @ \union {<<ask.of, r[1]>> : r \in new}])
     /\ UNCHANGED <<start, cached, today, excused>>

\* How many of each currency's requests are answered: the first that fails is its last.
AnswerSome ==
  /\ In("fetch") /\ run.asking # Null
  /\ \E published \in BOOLEAN,
        answered \in [DOMAIN run.asking.what -> 0..2] :
       /\ \A ccy \in DOMAIN answered : answered[ccy] <= Len(run.asking.what[ccy].ranges)
       /\ Answer(answered, published)

Owes_OwnWork(h) == \E ccy \in Needed(h) : <<h, <<start.base[h], ccy>>>> \in run.wrote

\* The second pass: a household one of whose currencies anybody's run has written.
Owes(h) == \E ccy \in Needed(h), g \in Households : <<g, <<start.base[h], ccy>>>> \in run.wrote

Repay(h) ==
  /\ cached' = Recomputed(table, h)
  /\ excused' = {row \in excused : row.of # h}

SecondPass(h) ==
  /\ In("second") /\ h \in run.left
  /\ IF Owes(h) THEN Repay(h) ELSE UNCHANGED <<cached, excused>>
  /\ run' = After([run EXCEPT !.left = @ \ {h}])
  /\ UNCHANGED <<start, table, today>>

\* recompute_all
RecomputeAll(h) ==
  /\ In("all") /\ h \in run.left
  /\ Repay(h)
  /\ run' = After([run EXCEPT !.left = @ \ {h}])
  /\ UNCHANGED <<start, table, today>>

\* A step of the run raises: what was committed stays, refresh_fx logs it, and a
\* start goes on to its recompute.
Fail ==
  /\ ~Idle
  /\ run' = IF run.startup /\ run.phase # "all" THEN Everyone ELSE Null
  /\ excused' = Stale(table, cached)
  /\ UNCHANGED <<start, table, cached, today>>

-----------------------------------------------------------------------------
(* People                                                                  *)

\* create_transaction, converted as the rates stand.
Enter(row) ==
  /\ row \notin DOMAIN cached
  /\ Cardinality(DOMAIN cached) < start.rows
  /\ cached' = [r \in DOMAIN cached \union {row} |->
                  IF r = row THEN Converted(table, row) ELSE cached[r]]
  /\ UNCHANGED <<start, table, today, run, excused>>

\* delete_transaction
RemoveRow(row) ==
  /\ row \in DOMAIN cached
  /\ cached' = [r \in DOMAIN cached \ {row} |-> cached[r]]
  /\ excused' = excused \ {row}
  /\ UNCHANGED <<start, table, today, run>>

\* upsert_fx_rate, over a fetched one too; it recomputes its own household only.
StateRate(h, rate) ==
  /\ Cardinality({r \in Rates : table[r] = "user"}) < start.stated
  /\ table' = [table EXCEPT ![rate] = "user"]
  /\ cached' = Recomputed(table', h)
  /\ excused' = {row \in excused : row.of # h} \union
                  {row \in Stale(table', cached') : Converted(table', row) # Converted(table, row)}
  /\ UNCHANGED <<start, today, run>>

NextDay ==
  /\ today < start.last
  /\ today' = today + 1
  /\ UNCHANGED <<start, table, cached, run, excused>>

RatesInit ==
  /\ start \in Starts
  /\ table = [r \in Rates |-> Null]
  /\ cached = [row \in {} |-> Null]
  /\ today = 1
  /\ run = Null
  /\ excused = {}

People ==
  \/ \E h \in Households : \E ccy \in Foreign(h), d \in 1..start.last : Enter(ForeignRow(h, ccy, d))
  \/ \E row \in DOMAIN cached : RemoveRow(row)
  \/ \E h \in Households, pair \in Pairs, d \in 1..start.last : StateRate(h, <<pair, d>>)

Fetching ==
  \/ BeginRun \/ RestartRun \/ AnswerSome \/ Fail
  \/ \E h \in Households : Ask(h) \/ SecondPass(h) \/ RecomputeAll(h)

RatesNext == People \/ Fetching \/ NextDay

RatesSpec == RatesInit /\ [][RatesNext]_rateVars

-----------------------------------------------------------------------------
(* Properties                                                              *)

RatesTypeOK ==
  /\ start \in Starts
  /\ table \in [Rates -> {Null, "auto", "user"}]
  /\ DOMAIN cached \subseteq [of : Households, ccy : Currencies, day : Dates]
  /\ \A row \in DOMAIN cached : row.ccy \in Foreign(row.of) /\ cached[row] \in Conversions
  /\ today \in Dates
  /\ excused \subseteq DOMAIN cached
  /\ run # Null =>
       run.phase \in {"fetch", "second", "all"} /\ run.left \subseteq Households /\ run.wrote \subseteq Households \X Pairs

\* "Backfills once, then fills the edges": asking at the edges only leaves no day out
\* of reach, whichever requests failed, however the first day needed moved and whoever
\* asked: a day a household needs a rate for has one, or the next run asks for it.
NoDayIsForgotten ==
  \A h \in Households : \A ccy \in Needed(h) : \A d \in FirstNeeded(h, ccy)..today :
    \/ table[<<<<start.base[h], ccy>>, d>>] # Null
    \/ \E i \in DOMAIN Missing(h)[ccy].ranges : d \in Missing(h)[ccy].ranges[i]

\* Someone still has this household's conversions to do.
Awaited(h) ==
  /\ run # Null
  /\ run.phase = "fetch" \/ h \in run.left \/ (run.startup /\ run.phase # "all")

\* Converted at a rate that was fetched for a household the other way round.
Sideways(row) ==
  LET at == Converted(table, row) IN at # Null /\ at[1] = <<row.ccy, start.base[row.of]>> /\ at[3] = "auto"

\* Once a run is over no cache is behind the table: but for a rate somebody else
\* stated by hand, a run that raised, and a rate fetched the other way round, which
\* the second pass does not look for.
CachesFollowTheTable ==
  \A row \in Stale(table, cached) : row \in excused \/ Awaited(row.of) \/ Sideways(row)

\* No day a household needs is left out of reach of the daily fetch, and no cache
\* is behind the table once a run is over, whatever failed on the way.
RatesReachEveryCache == RatesTypeOK /\ NoDayIsForgotten /\ CachesFollowTheTable
==============================================================================
