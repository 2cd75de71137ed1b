------------------------------- MODULE Reports -------------------------------
(***************************************************************************)
(* The reports (services/reports.py, api/reports.py, and the valuations of *)
(* services/investments.py they read): net worth with the reconciliation   *)
(* of its change, and the cash flow as a series, as a graph and as         *)
(* spending.  They only read: what moves here is the household under them, *)
(* whose rows the bank's balance follows whether or not a report sees it.  *)
(*                                                                         *)
(* A day closes with the balances some accounts report.  An investment     *)
(* account's balance comes from its positions (balance_source "derived"),  *)
(* its securities trade in its own currency, and its trades are its only   *)
(* holdings.  Amounts are whole, so nothing here is rounded.               *)
(***************************************************************************)
EXTENDS Periods

CONSTANTS
  Accounts, Investments,  \* the accounts, and those that hold securities
  OwnerOf, CurrencyOf,    \* of each account
  Opening,                \* what an account held before its first row
  Base,                   \* the household's base currency
  Owners,
  TypeOf,                 \* the type of each category: expense, income or transfer
  Securities, Cash,       \* what is traded, Cash included
  FirstDay, LastDay,
  RateTapes,              \* the foreign rate on each day, carried forward; Absent before the first
  PriceTapes,             \* the same for each security's price
  Observed,               \* bound: the sets of accounts that report a balance at a day's end
  Kinds,                  \* bound: the kind of step a behaviour takes beside posting
  Posts,                  \* what may be posted where it takes that kind
  Dated,                  \* bound: how far from today what is entered there is dated
  Parts,                  \* the category and owner of what is split off a row
  Bars,                   \* the granularities asked for
  Charts,                 \* the charts asked for: from, Absent if that is left open, to, and how it is cut
  MaxSteps,               \* bound: the rows, trades and plans of a behaviour
  Absent

ASSUME ReportsAssumption ==
  /\ Investments \subseteq Accounts /\ Observed \subseteq SUBSET Accounts
  /\ Cash \in Securities /\ Bars \subseteq Granularities
  /\ IsFiniteSet(Accounts) /\ IsFiniteSet(Securities)
  /\ IsFiniteSet(Owners) /\ OwnerOf \in [Accounts -> Owners] /\ Opening \in [Accounts -> Int]
  /\ Absent \notin Int \union Owners
  /\ FirstDay \in Nat \ {0} /\ LastDay \in Nat /\ FirstDay <= LastDay
  /\ RateTapes \subseteq [FirstDay..LastDay -> Int \union {Absent}]
  /\ \A t \in RateTapes, d \in FirstDay..LastDay : t[d] # Absent => \A e \in d..LastDay : t[e] # Absent
  /\ PriceTapes \subseteq [Securities -> [FirstDay..LastDay -> Int \union {Absent}]]
  /\ \A k \in Kinds : Posts[k] \subseteq [account : Accounts, amount : Int,
                          category : (DOMAIN TypeOf) \union {Absent}, owner : Owners \union {Absent}]
  /\ \A k \in Kinds : Dated[k] \subseteq Int
  /\ Parts \subseteq [category : (DOMAIN TypeOf) \union {Absent}, owner : Owners \union {Absent}]
  /\ Charts \subseteq ((Nat \ {0}) \union {Absent}) \X (Nat \ {0}) \X (Granularities \union {"auto"})

VARIABLES
  today,
  kind,     \* of step this behaviour takes
  chart,    \* what it asks for a chart of, Absent where it asks for none
  rates,    \* fx_rates
  prices,   \* security_prices
  rows,     \* transactions, in the order they were entered
  trades,   \* investment_transactions
  snaps,    \* balance_snapshots
  hidden,   \* the accounts that are hidden
  steps     \* how many rows, trades and plans have been entered

world       == <<kind, chart, rates, prices>>
reportsVars == <<today, kind, chart, rates, prices, rows, trades, snaps, hidden, steps>>

Days       == FirstDay..LastDay
Categories == DOMAIN TypeOf
Visible    == Accounts \ hidden

\* get_multiplier and latest_prices: the last one known by that day, or Absent
RateOn(currency, day)  == IF currency = Base THEN 1 ELSE rates[day]
PriceOn(security, day) == prices[security][day]

InBase(amount, currency, day) ==
  IF RateOn(currency, day) = Absent THEN Absent ELSE amount * RateOn(currency, day)
OrZero(x) == IF x = Absent THEN 0 ELSE x

-----------------------------------------------------------------------------
(* Positions                                                               *)

\* fold_history, by the kinds of event entered here: a trade moves its
\* security, and cash is moved by whatever is paid in or out of it
Moves(t) == t.type \in {"buy", "sell"} \/ t.security = Cash

TradesOf(a, security) == {i \in DOMAIN trades : trades[i].account = a /\ trades[i].security = security}

QuantityNow(a, security) ==
  SumFunction([i \in TradesOf(a, security) |-> IF Moves(trades[i]) THEN trades[i].quantity ELSE 0])

\* quantities_at: today's, less what the later trades moved
QuantityAt(a, security, on) ==
  QuantityNow(a, security)
    - SumFunction([i \in {j \in TradesOf(a, security) : trades[j].day > on} |-> trades[i].quantity])

\* _valued_from_holdings
Derived == {a \in Investments : \E i \in DOMAIN trades : trades[i].account = a}

\* securities_valuation_by_account: Σ over what can be valued, and why it is
\* only a part of the account
SecuritiesValue(a, positions, on) ==
  LET held   == {p \in positions : QuantityAt(a, p, on) # 0}
      priced == {p \in held : PriceOn(p, on) # Absent}
      rate   == RateOn(CurrencyOf[a], on)
  IN [value |-> IF rate = Absent THEN 0
                ELSE SumFunction([p \in priced |-> QuantityAt(a, p, on) * PriceOn(p, on) * rate]),
      missing |-> IF priced # held THEN "no_price"
                  ELSE IF rate = Absent /\ held # {} THEN "no_rate" ELSE Absent]

-----------------------------------------------------------------------------
(* Balances                                                                *)

RowsOf(a) == {i \in DOMAIN rows : rows[i].account = a}
Through(a, on) == MapThenSumSet(LAMBDA i : rows[i].amount, {i \in RowsOf(a) : rows[i].day <= on})

At(balance)     == [balance |-> balance, missing |-> Absent]
Missing(reason) == [balance |-> 0, missing |-> reason]

BalanceAt_Shown(a, on) ==
  LET own   == {s \in snaps : s.account = a}
      upTo  == {s \in own : s.day <= on}
      first == CHOOSE s \in own : \A t \in own : s.day <= t.day
      last  == CHOOSE s \in upTo : \A t \in upTo : s.day >= t.day
      days  == {rows[i].day : i \in RowsOf(a)}
      shown == {i \in RowsOf(a) : rows[i].day \in (on + 1)..first.day /\ ~rows[i].hidden}
  IN CASE own = {}  -> Missing("no_balance")
       [] upTo # {} -> At(last.balance)
       [] OTHER     -> IF a \in Investments \/ days = {} \/ on < Min(days) - 1
                       THEN Missing("not_started")
                       ELSE At(first.balance - MapThenSumSet(LAMBDA i : rows[i].amount, shown))

\* _BalanceHistory.at: the last snapshot by that day; before the first one,
\* backwards from it through the account's rows, hidden ones included, to the
\* day before the earliest.  An investment account starts at its first.
BalanceAt(a, on) ==
  LET own   == {s \in snaps : s.account = a}
      upTo  == {s \in own : s.day <= on}
      first == CHOOSE s \in own : \A t \in own : s.day <= t.day
      last  == CHOOSE s \in upTo : \A t \in upTo : s.day >= t.day
      days  == {rows[i].day : i \in RowsOf(a)}
  IN CASE own = {}  -> Missing("no_balance")
       [] upTo # {} -> At(last.balance)
       [] OTHER     -> IF a \in Investments \/ days = {} \/ on < Min(days) - 1
                       THEN Missing("not_started")
                       ELSE At(first.balance - (Through(a, first.day) - Through(a, on)))

\* _net_worth_parts, one account on one day
AccountValue(a, on) ==
  IF a \in Derived THEN SecuritiesValue(a, Securities, on)
  ELSE LET b == BalanceAt(a, on)  value == InBase(b.balance, CurrencyOf[a], on) IN
       [value |-> OrZero(value),
        missing |-> IF b.missing # Absent THEN b.missing ELSE IF value = Absent THEN "no_rate" ELSE Absent]

\* The accounts a report is about: the household's, or one owner's
\* (accounts_owned_by), where transfers cross the boundary and count.
Household  == [whole |-> TRUE, accounts |-> Visible]
OwnedBy(o) == [whole |-> FALSE, accounts |-> {a \in Visible : OwnerOf[a] = o}]

NetWorthAt(on, scope) == SumFunction([a \in scope.accounts |-> AccountValue(a, on).value])

-----------------------------------------------------------------------------
(* Entries                                                                 *)

\* _reporting_transactions
ReportingRows(start, end, scope) ==
  {i \in DOMAIN rows : rows[i].day \in start..end /\ ~rows[i].hidden /\ rows[i].account \in scope.accounts}

\* effective_owner_id
EffectiveOwner(split, row, account) ==
  IF split # Absent THEN split ELSE IF row # Absent THEN row ELSE OwnerOf[account]

\* _entries: a split row reports through its parts
Entries(i) ==
  LET row == rows[i]
      Entry(k, category, amount, split) ==
        [id |-> <<i, k>>, category |-> category, account |-> row.account, amount |-> amount,
         owner |-> EffectiveOwner(split, row.owner, row.account), source |-> "transaction", on |-> row.day]
  IN IF row.splits = <<>> THEN {Entry(0, row.category, row.base, Absent)}
     ELSE {Entry(k, row.splits[k].category, row.splits[k].base, row.splits[k].owner) :
             k \in DOMAIN row.splits}

\* _investment_base_amount
TradeBase(i) == InBase(trades[i].amount, CurrencyOf[trades[i].account], trades[i].day)

\* _investment_flows: income and fees; a transfer only when it crosses the
\* boundary of what is measured.  For the whole household every account's,
\* a hidden one's included.
InvestmentFlows(start, end, scope) ==
  {[id |-> <<i, Absent>>, category |-> Absent, account |-> trades[i].account, amount |-> TradeBase(i),
    owner |-> OwnerOf[trades[i].account], source |-> trades[i].type, on |-> trades[i].day] :
     i \in {j \in DOMAIN trades :
              /\ trades[j].day \in start..end
              /\ scope.whole \/ trades[j].account \in scope.accounts
              /\ trades[j].type \notin {"buy", "sell"}
              /\ trades[j].type = "transfer" => ~scope.whole
              /\ TradeBase(j) # Absent}}

\* the transfers of the ledger that are no flow: linked ones where the whole
\* household is measured, and whatever is filed under a transfer category
LedgerFlows(start, end, scope) ==
  {f \in UNION {Entries(i) : i \in {j \in ReportingRows(start, end, scope) :
                                      scope.whole => rows[j].group = Absent}} :
     f.amount # Absent /\ (f.category # Absent => TypeOf[f.category] # "transfer")}

LoadEntries_CarveOut(start, end, scope, owner) ==
  {f \in LedgerFlows(start, end, scope) : owner # Absent => f.owner = owner}
    \union InvestmentFlows(start, end, scope)

\* _load_entries: every report's entries, an owner's by their effective owner
LoadEntries(start, end, scope, owner) ==
  {f \in LedgerFlows(start, end, scope) \union InvestmentFlows(start, end, scope) :
     owner # Absent => f.owner = owner}

\* _fold
Sum(flows)     == MapThenSumSet(LAMBDA f : f.amount, flows)
Income(flows)  == Sum({f \in flows : f.amount > 0})
Expense(flows) == Sum({f \in flows : f.amount < 0})

-----------------------------------------------------------------------------
(* The reports of entries                                                  *)

\* cash_flow_series: one bar per bucket, dated by its first day
CashFlowSeries(start, end, owner, granularity) ==
  LET flows   == LoadEntries(start, end, Household, owner)
      buckets == Buckets(start, end, Resolve(granularity, start, end))
      Within(f) == Max({k \in DOMAIN buckets : buckets[k].start <= f.on})
  IN [k \in DOMAIN buckets |->
        LET own == {f \in flows : Within(f) = k} IN
        [date |-> buckets[k].start, income |-> Income(own), expense |-> Expense(own)]]

\* _flow_node
Node(f) == IF f.source # "transaction" THEN f.source
           ELSE IF f.category = Absent THEN "uncategorized" ELSE f.category

\* one side of the graph: what each of its nodes comes to, as a magnitude
Side(flows, sign) ==
  [n \in {Node(f) : f \in flows} |-> sign * Sum({f \in flows : Node(f) = n})]

\* cash_flow_sankey
Sankey(start, end, owner) ==
  LET flows == LoadEntries(start, end, Household, owner) IN
  [income  |-> Side({f \in flows : f.amount > 0}, 1),
   expense |-> Side({f \in flows : f.amount < 0}, -1)]

\* spending_by_category
Spending(start, end, owner) ==
  Side({f \in LoadEntries(start, end, Household, owner) : f.amount < 0}, -1)

-----------------------------------------------------------------------------
(* The reconciliation of net worth                                         *)

Unpriced(a, start, end) ==
  {p \in Securities : \/ QuantityAt(a, p, start) # 0 /\ PriceOn(p, start) = Absent
                      \/ QuantityAt(a, p, end) # 0 /\ PriceOn(p, end) = Absent}

Appreciation_CashTrades(a, start, end) ==
  LET valued == Securities \ (Unpriced(a, start, end) \union {Cash})
      bought == {i \in DOMAIN trades :
                   /\ trades[i].account = a /\ trades[i].type \in {"buy", "sell"}
                   /\ trades[i].security \in valued \union {Cash} /\ trades[i].day \in start..end}
  IN SecuritiesValue(a, valued, end).value - SecuritiesValue(a, valued, start).value
       + SumFunction([i \in bought |-> OrZero(TradeBase(i))])

\* _appreciation: the change of the positions' value, less what was put into
\* them; cash is in neither, and a position no price values is left out whole
Appreciation(a, start, end) ==
  LET valued == Securities \ (Unpriced(a, start, end) \union {Cash})
      bought == {i \in DOMAIN trades :
                   /\ trades[i].account = a /\ trades[i].type \in {"buy", "sell"}
                   /\ trades[i].security \in valued /\ trades[i].day \in start..end}
  IN SecuritiesValue(a, valued, end).value - SecuritiesValue(a, valued, start).value
       + SumFunction([i \in bought |-> OrZero(TradeBase(i))])

\* _conversion_cost: what the linked pairs with a visible leg in the window lost
ConversionCost(start, end, scope) ==
  LET inWindow == {i \in DOMAIN rows : rows[i].group # Absent /\ rows[i].day \in start..end}
      groups   == {rows[i].group : i \in inWindow}
      shown    == {g \in groups : \A i \in inWindow : rows[i].group = g =>
                                    ~rows[i].hidden /\ rows[i].account \notin hidden}
      Cost(g)  == LET legs == {i \in DOMAIN rows : rows[i].group = g} IN
                  IF \E i \in legs : rows[i].base = Absent THEN 0
                  ELSE SumFunction([i \in legs |-> rows[i].base])
  IN IF scope.whole THEN SumFunction([g \in shown |-> Cost(g)]) ELSE 0

\* _revaluation, one stated account: the opening balance by the move of the
\* rate, and each row by what its rate was short of the closing one
Revaluation(a, start, end) ==
  LET rateStart == RateOn(CurrencyOf[a], start)
      rateEnd   == RateOn(CurrencyOf[a], end)
      moved     == {i \in RowsOf(a) : rows[i].day \in start..end /\ rows[i].base # Absent}
  IN IF CurrencyOf[a] = Base \/ rateStart = Absent \/ rateEnd = Absent THEN 0
     ELSE BalanceAt(a, start).balance * (rateEnd - rateStart)
            + rateEnd * SumFunction([i \in moved |-> rows[i].amount])
            - SumFunction([i \in moved |-> rows[i].base])

\* net_worth_series' four terms and what is left
Reconciliation(start, end, scope) ==
  LET flows  == LoadEntries(start, end, scope, Absent)
      change == NetWorthAt(end, scope) - NetWorthAt(start, scope)
      cash   == Income(flows) + Expense(flows)
      market == SumFunction([a \in Derived \intersect scope.accounts |-> Appreciation(a, start, end)])
      moved  == SumFunction([a \in scope.accounts \ Derived |-> Revaluation(a, start, end)])
                  + ConversionCost(start, end, scope)
  IN [change |-> change, cash |-> cash, market |-> market, revaluation |-> moved,
      unexplained |-> change - cash - moved - market]

\* _unexplained_by_account: the same arithmetic for one account
UnexplainedOf(a, flows, start, end) ==
  AccountValue(a, end).value - AccountValue(a, start).value - Sum({f \in flows : f.account = a})
    - IF a \in Derived THEN Appreciation(a, start, end) ELSE Revaluation(a, start, end)

\* ... and the rest, which "is not attributable to any account or transfer"
Unattributed(unexplained, flows, start, end, scope) ==
  unexplained - SumFunction([a \in scope.accounts |-> UnexplainedOf(a, flows, start, end)])
    + ConversionCost(start, end, scope)

-----------------------------------------------------------------------------
(* Windows                                                                 *)

\* earliest_flow and earliest_activity, Absent where there is nothing yet
FlowDays == {rows[i].day : i \in {j \in DOMAIN rows : ~rows[j].hidden /\ rows[j].account \in Visible}}
              \union {trades[i].day : i \in {j \in DOMAIN trades : trades[j].account \in Visible}}
ActivityDays == FlowDays \union {s.day : s \in {t \in snaps : t.account \in Visible}}
Earliest(days) == IF days = {} THEN Absent ELSE Min(days)

\* _window: an open start is the first day there is anything to report
WindowStart(start, end) ==
  IF start # Absent THEN start
  ELSE IF Earliest(ActivityDays) = Absent THEN end ELSE Earliest(ActivityDays)

\* the cash-flow chart starts where the money does, and ends at today
CashFlowWindow(start, end) ==
  LET first == Earliest(FlowDays)
      from  == IF first # Absent /\ start < first /\ first <= end THEN first ELSE start
  IN <<from, IF from <= today /\ today < end THEN today ELSE end>>

-----------------------------------------------------------------------------
(* The household under the reports                                         *)

Request == steps < MaxSteps /\ steps' = steps + 1

Enter(row) == rows' = Append(rows, row)

\* create_transaction, or a row the bank reports: dated today, late or ahead
Post(a, amount, category, owner, day) ==
  /\ Request
  /\ a \notin Investments
  /\ Enter([account |-> a, day |-> day, entered |-> today, amount |-> amount,
            base |-> InBase(amount, CurrencyOf[a], day), category |-> category, owner |-> owner,
            group |-> Absent, hidden |-> FALSE, splits |-> <<>>])
  /\ UNCHANGED <<today, world, trades, snaps, hidden>>

\* set_splits: half of it is somebody else's, and filed elsewhere
SplitRow(i, category, owner) ==
  LET half == IF rows[i].base = Absent THEN Absent ELSE rows[i].base \div 2 IN
  /\ rows[i].splits = <<>> /\ rows[i].group = Absent
  /\ rows' = [rows EXCEPT ![i].splits =
                <<[category |-> category, owner |-> owner, base |-> half],
                  [category |-> rows[i].category, owner |-> Absent,
                   base |-> IF half = Absent THEN Absent ELSE rows[i].base - half]>>]
  /\ UNCHANGED <<today, world, trades, snaps, hidden, steps>>

\* link_transfer: opposite rows of two accounts, known by the earlier one
Link(i, j) ==
  /\ i < j /\ rows[i].account # rows[j].account
  /\ (rows[i].amount < 0) # (rows[j].amount < 0)
  /\ \A k \in {i, j} : rows[k].group = Absent /\ rows[k].splits = <<>> /\ ~rows[k].hidden
  /\ rows' = [rows EXCEPT ![i].group = i, ![j].group = i]
  /\ UNCHANGED <<today, world, trades, snaps, hidden, steps>>

HideRow(i) ==
  /\ ~rows[i].hidden
  /\ rows' = [rows EXCEPT ![i].hidden = TRUE]
  /\ UNCHANGED <<today, world, trades, snaps, hidden, steps>>

HideAccount(a) ==
  /\ a \in Visible
  /\ hidden' = hidden \union {a}
  /\ UNCHANGED <<today, world, rows, trades, snaps, steps>>

Trade(a, type, security, quantity, amount, day) ==
  [account |-> a, day |-> day, type |-> type, security |-> security, quantity |-> quantity, amount |-> amount]

\* a purchase or a sale out of the account's own cash: the trade and the cash
\* that pays for it, which is a trade in the cash position (ADR-0033)
Deal(a, security, quantity, day) ==
  LET paid == quantity * PriceOn(security, day) IN
  /\ Request
  /\ a \in Investments /\ security # Cash /\ PriceOn(security, day) # Absent
  /\ trades' = trades \o <<Trade(a, IF quantity > 0 THEN "buy" ELSE "sell", security, quantity, -paid, day),
                           Trade(a, IF quantity > 0 THEN "sell" ELSE "buy", Cash, -paid, paid, day)>>
  /\ UNCHANGED <<today, world, rows, snaps, hidden>>

\* a dividend, a fee or a contribution moves the account's cash by itself
CashEvent(a, type, amount, day) ==
  /\ Request
  /\ a \in Investments
  /\ trades' = Append(trades, Trade(a, type, Cash, amount, amount, day))
  /\ UNCHANGED <<today, world, rows, snaps, hidden>>

\* what the bank says an account holds: what moved it by that day and was known then
BankSays(a, on) ==
  Opening[a] + MapThenSumSet(LAMBDA i : rows[i].amount,
                             {i \in RowsOf(a) : rows[i].day <= on /\ rows[i].entered <= on})

\* the day is over, and some accounts have reported
CloseDay(reporting) ==
  /\ today < LastDay
  /\ today' = today + 1
  /\ snaps' = snaps \union {[account |-> a, day |-> today, balance |-> BankSays(a, today)] :
                              a \in reporting \ Derived}
  /\ UNCHANGED <<world, rows, trades, hidden, steps>>
-----------------------------------------------------------------------------
ReportsInit ==
  /\ today = FirstDay
  /\ kind \in Kinds
  /\ chart \in IF kind = "chart" THEN Charts ELSE {Absent}
  /\ rates \in RateTapes
  /\ prices \in PriceTapes
  /\ rows = <<>>
  /\ trades = <<>>
  /\ snaps = {}
  /\ hidden = {}
  /\ steps = 0

EntryDays == {day \in Days : day - today \in Dated[kind]}

Posting == \E p \in Posts[kind], day \in EntryDays : Post(p.account, p.amount, p.category, p.owner, day)

Filing ==
  \/ \E i \in DOMAIN rows, p \in Parts : SplitRow(i, p.category, p.owner)
  \/ \E i, j \in DOMAIN rows : Link(i, j)

Hiding == (\E i \in DOMAIN rows : HideRow(i)) \/ (\E a \in Accounts : HideAccount(a))

Investing == \E a \in Investments, day \in EntryDays :
  \/ \E p \in Securities, quantity \in {-1, 2} : Deal(a, p, quantity, day)
  \/ CashEvent(a, "dividend", 3, day) \/ CashEvent(a, "fee", -1, day) \/ CashEvent(a, "transfer", 5, day)

ReportsNext ==
  \/ \E reporting \in Observed : CloseDay(reporting)
  \/ Posting
  \/ kind = "file" /\ Filing
  \/ kind \in {"hide", "invest"} /\ Hiding
  \/ kind = "invest" /\ Investing

ReportsSpec == ReportsInit /\ [][ReportsNext]_reportsVars

-----------------------------------------------------------------------------
(* What the reports promise                                                *)

Part == [category : Categories \union {Absent}, owner : Owners \union {Absent}, base : Int \union {Absent}]
Row  == [account : Accounts, day : Days, entered : Days, amount : Int, base : Int \union {Absent},
         category : Categories \union {Absent}, owner : Owners \union {Absent},
         group : Nat \union {Absent}, hidden : BOOLEAN, splits : Seq(Part)]
TradeRow == [account : Investments, day : Days, type : {"buy", "sell", "dividend", "fee", "transfer"},
           security : Securities, quantity : Int, amount : Int]

\* What the module's variables hold: nothing was entered after today, whatever its
\* date, a snapshot is of a day that is over, and a linked row names a row that is there.
ReportsTypeOK ==
  /\ today \in Days /\ kind \in Kinds /\ chart \in Charts \union {Absent}
  /\ rates \in RateTapes /\ prices \in PriceTapes
  /\ rows \in Seq(Row) /\ trades \in Seq(TradeRow)
  /\ \A i \in DOMAIN rows : /\ rows[i].entered <= today /\ rows[i].account \notin Investments
                            /\ rows[i].group # Absent => rows[i].group \in DOMAIN rows
  /\ \A s \in snaps : s.account \in Accounts /\ s.day \in Days /\ s.day < today
  /\ hidden \subseteq Accounts /\ steps \in Nat

\* The windows that end on the day that has just closed, or today.
Windows == {w \in Days \X {today - 1, today} : w[1] <= w[2]}

\* What an account holds by its rows, whenever they were entered.
Actual(a, on) == Opening[a] + Through(a, on)

Lag(a, on)    == BalanceAt(a, on).balance - Actual(a, on)
RowsOn(a, on) == SumFunction([i \in {j \in RowsOf(a) : rows[j].day = on} |-> rows[i].amount])

\* What moved a brokerage's cash, and what a unit of it is worth in base.
CashMoves(a, start, end) == {i \in TradesOf(a, Cash) : trades[i].day \in start..end}
CashWorth(a, on) == OrZero(PriceOn(Cash, on)) * RateOn(CurrencyOf[a], on)

\* Neither appreciation, which leaves cash out, nor revaluation, which leaves out
\* whoever holds securities, says what the cash gained by the rate.
CashDrift(a, start, end) ==
  QuantityAt(a, Cash, start) * (CashWorth(a, end) - CashWorth(a, start))
    + SumFunction([i \in CashMoves(a, start, end) |->
                     trades[i].quantity * (CashWorth(a, end) - RateOn(CurrencyOf[a], trades[i].day))])

\* Contributions, which are a move between accounts where all of them are measured.
Contributed(a, start, end) ==
  SumFunction([i \in {j \in CashMoves(a, start, end) : trades[j].type = "transfer"} |-> OrZero(TradeBase(i))])

\* Every rate and price a window asks for is known, no linked pair is cut by it
\* or half hidden, and no account valued from its trades is hidden.
Knowable(start, end) ==
  /\ \A a \in Accounts : RateOn(CurrencyOf[a], start) # Absent
  /\ \A a \in Derived : Unpriced(a, start, end) = {}
  /\ \A i, j \in DOMAIN rows : rows[i].group # Absent /\ rows[i].group = rows[j].group =>
       /\ rows[i].day \in start..end <=> rows[j].day \in start..end
       /\ rows[i].base # Absent
       /\ ~rows[i].hidden /\ rows[i].account \in Visible
  /\ Derived \subseteq Visible

\* What moved an account and no report of entries shows: a hidden row, and
\* money filed under a transfer category with no other side.
Unreported(i, scope) ==
  LET filed == {f \in Entries(i) : f.category # Absent /\ TypeOf[f.category] = "transfer"} IN
  IF rows[i].hidden THEN rows[i].base
  ELSE IF scope.whole /\ rows[i].group # Absent THEN 0 ELSE Sum(filed)

\* The change the four terms cannot name, account by account: what the balances
\* did not say at either end, the entries of the window's own first day, which the
\* balance at its start holds already, and a brokerage's cash.
ResidueOf(a, start, end, scope) ==
  IF a \in Derived
  THEN CashDrift(a, start, end) + (IF scope.whole THEN Contributed(a, start, end) ELSE 0)
         - CashWorth(a, end) * SumFunction([i \in CashMoves(a, start, start) |-> trades[i].quantity])
  ELSE RateOn(CurrencyOf[a], end) * (Lag(a, end) - Lag(a, start) - RowsOn(a, start))
Residue(start, end, scope) ==
  SumFunction([a \in scope.accounts |-> ResidueOf(a, start, end, scope)])
    + SumFunction([i \in {j \in DOMAIN rows : rows[j].account \in scope.accounts /\ rows[j].day \in start..end} |->
                     Unreported(i, scope)])

\* "unexplained" is nothing but that residue, for the household and for each
\* owner's accounts ("exactly one residual leaves room for a real error to show
\* up in the one place it can be seen", services/reports.py), and it is
\* attributed to its accounts without a rest.
UnexplainedIsNamed ==
  \A w \in Windows : Knowable(w[1], w[2]) =>
    \A scope \in {Household} \union {OwnedBy(o) : o \in Owners} :
      \A unexplained \in {Reconciliation(w[1], w[2], scope).unexplained},
         flows \in {LoadEntries(w[1], w[2], scope, Absent)} :
        /\ unexplained = Residue(w[1], w[2], scope)
        /\ Unattributed(unexplained, flows, w[1], w[2], scope) = 0

\* The entries that the chart of a window leaves out: those dated after today, where
\* any money moved by today.
Ahead(start, end) ==
  {f \in LoadEntries(start, end, Household, Absent) : f.on > today /\ \E day \in FlowDays : day <= today}

\* The reports of entries total the same money: bars, graph and spending over
\* one window, a bar and the report of its bucket alone, and the household and its
\* owners together ("three reports of one quantity that disagree are three answers to
\* \"what did we spend\"", spending_by_category).  The chart of a longer window, which
\* is cut to the days money moved on, leaves out of it what is dated after today,
\* unless everything is, and nothing else.
SameMoney ==
  \A w \in Windows :
    LET flows == [owner \in Owners \union {Absent} |-> LoadEntries(w[1], w[2], Household, owner)]
        from  == WindowStart(Absent, LastDay + 40)
        cut   == CashFlowWindow(FirstDay - 40, LastDay + 40)
    IN /\ \A owner \in Owners \union {Absent} :
            /\ \A graph \in {Sankey(w[1], w[2], owner)} :
                 /\ SumFunction(graph.income) = Income(flows[owner])
                 /\ SumFunction(graph.expense) = -Expense(flows[owner])
            /\ SumFunction(Spending(w[1], w[2], owner)) = -Expense(flows[owner])
       /\ \A granularity \in Bars :
            LET bars == CashFlowSeries(w[1], w[2], Absent, granularity) IN
            \A k \in DOMAIN bars : \A bucket \in {Buckets(w[1], w[2], granularity)[k]} :
              \A alone \in {LoadEntries(bucket.start, bucket.end, Household, Absent)} :
                /\ bars[k].date \in w[1]..w[2]
                /\ bars[k].income = Income(alone) /\ bars[k].expense = Expense(alone)
       /\ Derived \subseteq Visible =>
            LoadEntries(cut[1], cut[2], Household, Absent)
              = LoadEntries(from, LastDay + 40, Household, Absent) \ Ahead(from, LastDay + 40)
       /\ MapThenSumSet(LAMBDA o : Income(flows[o]), Owners) = Income(flows[Absent])
       /\ MapThenSumSet(LAMBDA o : Expense(flows[o]), Owners) = Expense(flows[Absent])

\* What the account's first balance held before anybody entered it.
Late(a, first) ==
  MapThenSumSet(LAMBDA i : rows[i].amount,
                {i \in RowsOf(a) : rows[i].day <= first /\ rows[i].entered > first})

\* A balance derived backwards from an account's first is the one the bank had, from
\* the day before its first row on (ADR-0045), whether its rows were entered before
\* that balance or after: one that came late was in it all along.
PastIsTrue ==
  \A a \in Accounts \ Investments, on \in Days :
    LET own == {s.day : s \in {t \in snaps : t.account = a}}
        old == {rows[i].day : i \in RowsOf(a)}
    IN own # {} /\ old # {} /\ on \in (Min(old) - 1)..Min(own)
         => BalanceAt(a, on) = At(Actual(a, on) - Late(a, Min(own)))

\* Whatever chart is asked for and whatever the household has done, a chart that
\* is not refused has a bar, and its bars cut its window without a rest: the
\* window asked for, that of an open start, and the one the cash flow trims to
\* the days from its first entry to today.
WindowsAreCut ==
  chart # Absent =>
    LET start == WindowStart(chart[1], chart[2])
        end   == chart[2]
    IN \A w \in {<<start, end>>, CashFlowWindow(start, end)} :
         /\ start <= end => w[1] <= w[2]
         /\ CutsWithoutRest(w[1], w[2], chart[3])

\* Over a window whose balances are known at both ends, with nothing hidden or
\* filed away, "unexplained is therefore expected to be zero" (services/reports.py).
WindowReconciles ==
  \A w \in Windows :
    /\ Knowable(w[1], w[2])
    /\ \A a \in Accounts \ Derived : Lag(a, w[1]) = 0 /\ Lag(a, w[2]) = 0
    /\ \A i \in DOMAIN rows : rows[i].day \in w[1]..w[2] => Unreported(i, Household) = 0
    /\ \A i \in DOMAIN trades : trades[i].type # "transfer"
    => Reconciliation(w[1], w[2], Household).unexplained = 0
=============================================================================
