---------------------------- MODULE MCPositions ----------------------------
(* A derived account and one a bank states, a fund both may hold and a second *)
(* one, quoted abroad, that only the derived account does; or the trades of   *)
(* one position: buys at two prices, sales of one and of two shares, a split  *)
(* and the cash events with and without a quantity, on three days, and a buy  *)
(* whose amount has the wrong sign.                                           *)
EXTENDS Investments

CONSTANTS home, linked, fund, abroad, usd, eur, cA, cB

Both       == {home, linked}
HomeOnly   == {home}
Funds      == {fund, abroad}
Currencies == [x \in Both \cup Funds |-> IF x = abroad THEN eur ELSE usd]
TwoClients == {cA, cB}
ClientsAreAlike == Permutations(TwoClients)

Asking(kind, a, s, q) == [kind |-> kind, account |-> a, security |-> s, quantity |-> q]
PinTo(a, s, total) == [kind |-> "pin", account |-> a, security |-> s, quantity |-> 0,
                       total |-> total]
AmendTo(a, s, from, to) == [kind |-> "amend", account |-> a, security |-> s, quantity |-> from, to |-> to]
PriceOf(s, d, price) == [kind |-> "price", security |-> s, day |-> d, price |-> price]

Asked ==
  { Asking("hold", home, fund, 1), Asking("hold", home, abroad, 1), Asking("hold", linked, fund, 2),
    Asking("clear", home, fund, 0), Asking("clear", linked, fund, 0), Asking("reset", linked, fund, 0),
    PinTo(home, fund, 4), PinTo(linked, fund, 4), PinTo(linked, fund, None),
    Asking("trade", home, fund, 2), Asking("trade", linked, fund, -2), Asking("trade", home, fund, -2),
    Asking("erase", home, fund, 2), Asking("erase", linked, fund, -2), AmendTo(home, fund, 2, 1),
    PriceOf(fund, 1, 2), PriceOf(fund, 2, 3), PriceOf(abroad, 1, 5),
    [kind |-> "drop", security |-> fund], [kind |-> "list", security |-> fund] }

Bought(q, price) == [quantity |-> q, price |-> price]
Lists == { [s \in {} |-> Bought(0, 0)], [s \in {fund} |-> Bought(4, 7)], [s \in {fund} |-> Bought(2, 6)] }

VARIABLE which
Event(type, quantity, amount) ==
  {[type |-> type, day |-> d, quantity |-> quantity, amount |-> amount] : d \in 1..3}
Events ==
  Event("buy", 2, -4) \cup Event("buy", 1, -3) \cup Event("sell", -1, 3)
    \cup Event("sell", -2, 4) \cup Event("split", 2, 0)
    \cup Event("dividend", Null, 1) \cup Event("transfer", 3, 3)
    \cup {[type |-> "buy", day |-> 2, quantity |-> 1, amount |-> 2]}
TwoRows == {[quantity |-> 5, basis |-> 10], [quantity |-> 6, basis |-> Null]}

\* What the longest list and a buy leave.
Stocked ==
  /\ book = [listed |-> Funds,
             rows   |-> [p \in Positions |-> IF p = <<linked, fund>> THEN Row(4, "bank") ELSE None],
             trades |-> [p \in Positions |-> IF p = <<home, fund>> THEN {2} ELSE {}],
             prices |-> [s \in Funds |-> [d \in Days |-> IF <<s, d>> = <<fund, 1>>
                                                       THEN [price |-> 7, source |-> "auto"] ELSE None]],
             rated  |-> {}]
  /\ today = 1
  /\ balance = [a \in Derived |-> 14]
  /\ filed = [a \in Derived |-> [d \in Days |-> IF d = 1 THEN TRUE ELSE None]]
  /\ clients = [c \in Clients |-> Idle]
  /\ mirror = None
  /\ asked = 0

MCInit == (Init \/ Stocked) /\ HistoryInit /\ which \in {"book", "history"} /\ (which = "book" => ~cash)
MCNext ==
  /\ \/ which = "book" /\ Next /\ UNCHANGED historyVars
     \/ which = "history" /\ HistoryNext /\ UNCHANGED vars
  /\ UNCHANGED which
MCSpec == MCInit /\ [][MCNext]_<<vars, historyVars, which>>
=============================================================================
