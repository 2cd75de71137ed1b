------------------------------ MODULE MCReports ------------------------------
(* Two owners' checking account, euro account and brokerage over the turn of  *)
(* a month; and charts over windows of every length that matters.             *)
EXTENDS Budgets, TLC

CONSTANTS chk, eur, brk, ann, bob, food, pay, between, vti, money, usd, euro

AllAccounts == {chk, eur, brk}
Brokerages  == {brk}
People      == {ann, bob}
Holders     == chk :> ann @@ eur :> bob @@ brk :> bob
Currencies  == chk :> usd @@ eur :> euro @@ brk :> usd
Abroad      == chk :> usd @@ eur :> euro @@ brk :> euro
Openings    == chk :> 20 @@ eur :> 4 @@ brk :> 0
Types       == food :> "expense" @@ pay :> "income" @@ between :> "transfer"
Traded      == {vti, money}
First       == Ordinal(2026, 1, 31)
LastOf      == First + 2
Rates       == {First :> 2 @@ (First + 1) :> 2 @@ (First + 2) :> 3,
                First :> Absent @@ (First + 1) :> 3 @@ (First + 2) :> 2}
Prices      == {(vti :> (First :> 4 @@ (First + 1) :> 5 @@ (First + 2) :> 3))
                  @@ (money :> [d \in First..(First + 2) |-> 1])}
Reporting   == {{chk, eur, brk}, {}}
P(a, n, c, o) == [account |-> a, amount |-> n, category |-> c, owner |-> o]
Posted      == "file"   :> {P(chk, -6, Absent, bob), P(eur, 2, Absent, Absent), P(eur, 2, between, ann)}
            @@ "hide"   :> {P(chk, -6, food, Absent), P(eur, 2, pay, Absent)}
            @@ "invest" :> {}
            @@ "plan"   :> {P(chk, -6, food, Absent), P(chk, -4, Absent, Absent), P(eur, -2, food, ann)}
            @@ "chart"  :> {P(chk, -6, food, Absent)}
Halves      == {[category |-> food, owner |-> bob], [category |-> between, owner |-> ann]}
Stories     == {"file", "hide", "invest", "plan", "chart"}
Nearby      == "file" :> {0} @@ "hide" :> {-1, 0} @@ "invest" :> {0, 1} @@ "plan" :> {0, 1} @@ "chart" :> {1}
Uncharted   == Stories \ {"chart"}
Weeks       == {"week"}
Planned     == {5, 7}

Leap     == Ordinal(2024, 2, 28)
Century  == Ordinal(2100, 2, 28)
Turning  == Ordinal(2025, 11, 30)
Windowed(starts, lengths, granularities) ==
  {<<s, s + n - 1, g>> : s \in starts, n \in lengths, g \in granularities}
Asked    ==
  Windowed({Leap, Turning}, {2, 121}, Granularities)
    \union Windowed({Leap, Turning}, {0, 45, 46, 120, 121}, {"auto"})
    \union Windowed({Leap, Century}, {366, 1096, 3651}, {"year", "quarter", "auto"})
    \union ({Absent, First - 40, First + 1} \X {First - 1, First + 1, First + 40} \X {"month", "auto"})

\* A behaviour that asks for a chart or hides rows has the rates of one tape: no
\* chart reads one, and the others meet both.
MCInit == BudgetsInit /\ (kind \in {"chart", "hide"} => rates = CHOOSE r \in Rates : TRUE)
MCSpec == MCInit /\ [][BudgetsNext]_budgetsVars
=============================================================================
