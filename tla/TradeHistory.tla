---------------------------- MODULE TradeHistory ----------------------------
(***************************************************************************)
(* One position of one investment account (services/investments.py): the   *)
(* trades recorded against it, in the order they were entered, and the     *)
(* holdings row that somebody may have typed as well.  ADR-0020 and        *)
(* ADR-0034 make the trades the position whenever there are any; its       *)
(* quantity, its average-cost basis and its quantity on any past day are   *)
(* all folded from them.                                                   *)
(*                                                                         *)
(* A basis is kept as an exact fraction: quantize_storage rounds it once,  *)
(* when the fold is over.                                                  *)
(***************************************************************************)
EXTENDS Integers, FiniteSets, SequencesExt

CONSTANTS
  Trades,     \* what may be recorded: see Trade
  Typed,      \* what may be typed: [quantity, basis (or Null)]
  MaxTrades,  \* bound: the trades on file at once
  Null        \* SQL NULL

CashMoving == {"dividend", "interest", "fee", "transfer"}

Trade == [type : {"buy", "sell", "split"} \cup CashMoving, day : Int,
          quantity : Int \cup {Null}, amount : Int]

ASSUME TradesAssumption == Trades \subseteq Trade /\ MaxTrades \in Nat
ASSUME TypedAssumption == Null \notin Int /\ Null \notin Typed

VARIABLES
  trades,  \* investment_transactions, in the order they were created
  cash,    \* whether the security is cash, which its owner may re-type
  typed    \* the holdings row: what was typed, or Null

historyVars == <<trades, cash, typed>>

HistoryTypeOK ==
  /\ trades \in Seq(Trades) /\ Len(trades) <= MaxTrades
  /\ cash \in BOOLEAN
  /\ typed \in Typed \cup {Null}

-----------------------------------------------------------------------------
(* The fold                                                                *)

OrZero(n) == IF n = Null THEN 0 ELSE n
Least(a, b) == IF a < b THEN a ELSE b

Sold_Forgotten(pos, qty) == pos.basis

\* The basis after a sale: it falls by the share of the position that was sold.
Sold(pos, qty) ==
  IF pos.quantity = 0 THEN pos.basis
  ELSE LET removed == Least(-qty, pos.quantity)
           sign    == IF pos.quantity < 0 THEN -1 ELSE 1
       IN <<pos.basis[1] * (pos.quantity - removed) * sign, pos.basis[2] * pos.quantity * sign>>

\* fold_history's body: what one event does to [quantity, basis].
Folded(isCash, pos, t) ==
  LET qty == OrZero(t.quantity) IN
  CASE t.type = "buy"   -> [quantity |-> pos.quantity + qty,
                            basis |-> <<pos.basis[1] - t.amount * pos.basis[2], pos.basis[2]>>]
    [] t.type = "sell"  -> [quantity |-> pos.quantity + qty, basis |-> Sold(pos, qty)]
    [] t.type = "split" -> [pos EXCEPT !.quantity = @ + qty]
    [] isCash /\ t.type \in CashMoving ->
         [pos EXCEPT !.quantity = @ + IF t.quantity = Null THEN t.amount ELSE qty]
    [] OTHER -> pos

Flat == [quantity |-> 0, basis |-> <<0, 1>>]

\* The position after each of these trades, in this order.
Folds(isCash, ts) ==
  LET after[n \in 0..Len(ts)] == IF n = 0 THEN Flat ELSE Folded(isCash, after[n - 1], ts[n])
  IN after

\* The order the query asks for: the day, then the entry.
Earlier(ts, i, j) == ts[i].day < ts[j].day \/ (ts[i].day = ts[j].day /\ i < j)
Rank(ts, i) == 1 + Cardinality({j \in DOMAIN ts : Earlier(ts, j, i)})
InOrder(ts) == [n \in DOMAIN ts |-> ts[CHOOSE i \in DOMAIN ts : Rank(ts, i) = n]]

\* history_positions, for a position that has trades.
History(isCash, ts) == Folds(isCash, InOrder(ts))[Len(ts)]

\* effective_position: the trades when there are any, else what was typed.
Position ==
  IF trades # <<>> THEN History(cash, trades)
  ELSE IF typed = Null THEN Flat
  ELSE [quantity |-> typed.quantity, basis |-> <<OrZero(typed.basis), 1>>]

-----------------------------------------------------------------------------
(* Requests                                                                *)

HistoryInit ==
  /\ trades = <<>>
  /\ cash \in BOOLEAN
  /\ typed = Null

\* create_investment_transaction
Record(t) ==
  /\ Len(trades) < MaxTrades
  /\ trades' = Append(trades, t)
  /\ UNCHANGED <<cash, typed>>

\* update_investment_transaction: any of the type, day, quantity and amount.
Amend(i, t) ==
  /\ t # trades[i]
  /\ trades' = [trades EXCEPT ![i] = t]
  /\ UNCHANGED <<cash, typed>>

\* delete_investment_transaction
Forget(i) ==
  /\ trades' = RemoveAt(trades, i)
  /\ UNCHANGED <<cash, typed>>

\* upsert_holding where there is no row: made even when trades own the position.
Type(scalars) ==
  /\ typed = Null
  /\ typed' = scalars
  /\ UNCHANGED <<trades, cash>>

Overtype_Anytime(scalars) ==
  /\ typed # Null
  /\ typed' = scalars
  /\ UNCHANGED <<trades, cash>>

\* update_holding, and upsert_holding where there is a row: 409 while the
\* position is computed from its trades (_reject_manual_write).
Overtype(scalars) ==
  /\ typed # Null
  /\ trades = <<>>
  /\ typed' = scalars
  /\ UNCHANGED <<trades, cash>>

\* delete_holding
Untype ==
  /\ typed # Null
  /\ typed' = Null
  /\ UNCHANGED <<trades, cash>>

\* update_security: the security becomes cash, or stops being it.
Retype ==
  /\ cash' = ~cash
  /\ UNCHANGED <<trades, typed>>

HistoryNext ==
  \/ \E t \in Trades : Record(t)
  \/ \E i \in DOMAIN trades : Forget(i) \/ \E t \in Trades : Amend(i, t)
  \/ \E scalars \in Typed : Type(scalars) \/ Overtype(scalars)
  \/ Untype
  \/ Retype

HistorySpec == HistoryInit /\ [][HistoryNext]_historyVars

-----------------------------------------------------------------------------
(* Properties                                                              *)

After(n) == Folds(cash, InOrder(trades))[n]
EverShort == \E n \in DOMAIN trades : After(n).quantity < 0

\* "A buy is negative" and a sale takes shares away (ADR-0033's sign convention,
\* which the code relies on and does not check).
Signed(t) ==
  (t.type = "buy" => t.amount <= 0) /\ (t.type = "sell" => OrZero(t.quantity) <= 0)

\* Average cost: while the position is long, a sale (of the sign it should have)
\* leaves what each remaining share cost as it was, and selling the last one
\* leaves no basis behind.
SalesKeepTheAverage ==
  ~EverShort =>
    \A n \in {m \in DOMAIN trades : InOrder(trades)[m].type = "sell" /\ Signed(InOrder(trades)[m])} :
      LET before == After(n - 1)
          after  == After(n)
      IN before.basis[1] * after.quantity * after.basis[2]
           = after.basis[1] * before.quantity * before.basis[2]

\* The cash paid for the buys so far.
Paid(ts) ==
  LET paid[n \in 0..Len(ts)] ==
        IF n = 0 THEN 0 ELSE paid[n - 1] - IF ts[n].type = "buy" THEN ts[n].amount ELSE 0
  IN paid

\* "Selling more than is held cannot remove more basis than exists": whatever is
\* oversold, bought back and backdated, the basis lies between nothing and the
\* cash paid for all the buys so far, if all so far have the signs they should.
BasisIsWhatWasPaid ==
  \A n \in 0..Len(trades) : (\A m \in 1..n : Signed(InOrder(trades)[m])) =>
    0 <= After(n).basis[1] /\ After(n).basis[1] <= Paid(InOrder(trades))[n] * After(n).basis[2]

\* A household may enter its past in any order: trades of different days make the
\* same position however they were entered.
EntryOrderIsNoMatter ==
  (\A i, j \in DOMAIN trades : i # j => trades[i].day # trades[j].day) =>
    \A p \in Bijection(DOMAIN trades, DOMAIN trades) :
      History(cash, [i \in DOMAIN trades |-> trades[p[i]]]) = History(cash, trades)

\* What was typed waits behind the trades: while there are any it is not edited,
\* so deleting the last of them brings back what the household last typed.
TypedWaitsBehindTrades ==
  [][trades # <<>> /\ typed # Null => typed' \in {typed, Null}]_historyVars
=============================================================================
