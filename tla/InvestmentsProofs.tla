-------------------------- MODULE InvestmentsProofs --------------------------
(***************************************************************************)
(* A household's investments, proved for any accounts, securities, trades, *)
(* lists of the bank and requests, and for any number of clients.          *)
(*                                                                         *)
(* A position.  The trades in the order of their days are the one sequence *)
(* in which no two stand the wrong way round, so whatever the order of     *)
(* entry was, the fold walks the same days.  That it is an average-cost    *)
(* account is a fact about every prefix of that sequence, carried from one *)
(* trade to the next.                                                      *)
(*                                                                         *)
(* The positions.  The inductive invariant is PositionsInv, in parts:      *)
(*   BookFine    a row is of a listed security and its columns agree: only *)
(*               the bank's rows are frozen, and what a person wrote is a  *)
(*               row of theirs or a frozen one                             *)
(*   ClientFine  what a request read is of the row it read, and what it    *)
(*               leaves of that row is a whole row; one that nothing       *)
(*               overtook plans to file what it would compute now          *)
(*   MirrorFine  the rows a sync read are whole, the row of a kind of      *)
(*               source still reads as of that kind, and what is a         *)
(*               person's is still what the sync read unless it was        *)
(*               written in between                                        *)
(* A request writes the columns it took to have changed onto whatever the  *)
(* row holds by then, and a sync the rows it read: that the book stays     *)
(* fine under both is what the parts about rows are for.                   *)
(***************************************************************************)
EXTENDS Investments, Recursion, SequenceTheorems

-----------------------------------------------------------------------------
(* Sums                                                                    *)

\* The total of a function is the library's recursion, at its whole domain.
LEMMA TotalIs ==
  ASSUME NEW f
  PROVE  Total(f) = SumOver(f, DOMAIN f)
BY DEF Total, SumFunction, SumFunctionOnSet, FoldFunctionOnSet, MapThenFoldSet, SumOver, SumStep, Pick

\* A finite sum of integers is one.
LEMMA TotalInt ==
  ASSUME NEW S, IsFiniteSet(S), NEW f \in [S -> Int]
  PROVE  Total(f) \in Int
<1>1. DOMAIN f = S /\ IntOn(f, S) BY DEF IntOn
<1>2. \A s \in SUBSET S : SumOver(f, s) \in Int BY <1>1, SumRules
<1> QED BY <1>1, <1>2, TotalIs

-----------------------------------------------------------------------------
(* The order of the trades                                                 *)

Before(ts, i) == {j \in DOMAIN ts : Earlier(ts, j, i)}

\* Trades of integer days are in a strict total order.
LEMMA EarlierOrders ==
  ASSUME NEW ts \in Seq(Trade)
  PROVE  /\ DOMAIN ts = 1..Len(ts) /\ Len(ts) \in Nat
         /\ \A i \in DOMAIN ts : ~Earlier(ts, i, i)
         /\ \A i, j \in DOMAIN ts : i # j => Earlier(ts, i, j) \/ Earlier(ts, j, i)
         /\ \A i, j, k \in DOMAIN ts : Earlier(ts, i, j) /\ Earlier(ts, j, k) => Earlier(ts, i, k)
<1>1. DOMAIN ts = 1..Len(ts) /\ Len(ts) \in Nat OBVIOUS
<1>2. \A i \in DOMAIN ts : ts[i].day \in Int /\ i \in Int
  <2>1. \A i \in DOMAIN ts : ts[i] \in Trade OBVIOUS
  <2> QED BY <1>1, <2>1 DEF Trade
<1> QED BY <1>1, <1>2 DEF Earlier

\* Each trade has a rank of its own, and each rank is some trade's.
LEMMA RanksAreDistinct ==
  ASSUME NEW ts \in Seq(Trade)
  PROVE  /\ \A i \in DOMAIN ts : Rank(ts, i) \in DOMAIN ts
         /\ \A i, j \in DOMAIN ts : Rank(ts, i) = Rank(ts, j) => i = j
         /\ \A n \in DOMAIN ts : \E i \in DOMAIN ts : Rank(ts, i) = n
<1> DEFINE D == DOMAIN ts
           N == Len(ts)
<1>1. D = 1..N /\ N \in Nat OBVIOUS
<1>2. IsFiniteSet(D) /\ Cardinality(D) = N BY <1>1, FS_Interval
<1>3. \A i \in D : Before(ts, i) \in SUBSET (D \ {i}) BY EarlierOrders DEF Before
<1>4. \A i \in D : IsFiniteSet(D \ {i}) /\ Cardinality(D \ {i}) = N - 1
  <2> HIDE DEF D, N
  <2> QED BY <1>2, FS_RemoveElement
<1>5. \A i \in D : /\ IsFiniteSet(Before(ts, i)) /\ Cardinality(Before(ts, i)) \in Nat
                   /\ Cardinality(Before(ts, i)) <= N - 1
  <2> SUFFICES ASSUME NEW i \in D
               PROVE  /\ IsFiniteSet(Before(ts, i)) /\ Cardinality(Before(ts, i)) \in Nat
                      /\ Cardinality(Before(ts, i)) <= N - 1
    OBVIOUS
  <2>1. Before(ts, i) \in SUBSET (D \ {i}) /\ IsFiniteSet(D \ {i}) /\ Cardinality(D \ {i}) = N - 1
    BY <1>3, <1>4
  <2> HIDE DEF D, N
  <2>2. IsFiniteSet(Before(ts, i)) /\ Cardinality(Before(ts, i)) <= Cardinality(D \ {i})
    BY <2>1, FS_Subset
  <2> QED BY <2>1, <2>2, FS_CardinalityType
<1>6. \A i \in D : Rank(ts, i) = 1 + Cardinality(Before(ts, i)) BY DEF Rank, Before
<1>7. \A i \in D : Rank(ts, i) \in D BY <1>1, <1>5, <1>6
<1>8. \A i, j \in D : Earlier(ts, i, j) => Rank(ts, i) # Rank(ts, j)
  <2> SUFFICES ASSUME NEW i \in D, NEW j \in D, Earlier(ts, i, j), Rank(ts, i) = Rank(ts, j)
               PROVE  FALSE
    OBVIOUS
  <2>1. Cardinality(Before(ts, i)) = Cardinality(Before(ts, j)) BY <1>5, <1>6
  <2>2. Before(ts, i) \in SUBSET Before(ts, j) BY EarlierOrders DEF Before
  <2>3. i \in Before(ts, j) /\ i \notin Before(ts, i) BY EarlierOrders DEF Before
  <2>4. Before(ts, j) = Before(ts, i) BY <1>5, <2>1, <2>2, FS_Subset
  <2> QED BY <2>3, <2>4
<1>9. \A i, j \in D : Rank(ts, i) = Rank(ts, j) => i = j BY <1>8, EarlierOrders
<1> DEFINE f == [i \in D |-> Rank(ts, i)]
<1>10. f \in Injection(D, D) BY <1>7, <1>9 DEF Injection, IsInjective
<1>11. f \in Surjection(D, D)
  <2> HIDE DEF f, D, N
  <2> QED BY <1>2, <1>10, FS_Injection
<1>12. \A n \in D : \E i \in D : Rank(ts, i) = n BY <1>11 DEF Surjection
<1> QED BY <1>7, <1>9, <1>12

\* The order asked for has every trade once.
LEMMA InOrderIs ==
  ASSUME NEW S, S \subseteq Trade, NEW ts \in Seq(S)
  PROVE  /\ InOrder(ts) \in Seq(S) /\ Len(InOrder(ts)) = Len(ts) /\ DOMAIN InOrder(ts) = DOMAIN ts
         /\ \A i \in DOMAIN ts : InOrder(ts)[Rank(ts, i)] = ts[i]
<1>1. ts \in Seq(Trade) BY SeqMonotonic
<1>2. DOMAIN ts = 1..Len(ts) /\ Len(ts) \in Nat /\ \A i \in DOMAIN ts : ts[i] \in S OBVIOUS
<1> DEFINE at(n) == CHOOSE i \in DOMAIN ts : Rank(ts, i) = n
<1>3. \A n \in DOMAIN ts : at(n) \in DOMAIN ts /\ Rank(ts, at(n)) = n BY <1>1, RanksAreDistinct
<1>4. InOrder(ts) = [n \in DOMAIN ts |-> ts[at(n)]] BY DEF InOrder
<1> HIDE DEF at
<1>5. InOrder(ts) \in [1..Len(ts) -> S] BY <1>2, <1>3, <1>4
<1>6. InOrder(ts) \in Seq(S) /\ Len(InOrder(ts)) = Len(ts) BY <1>2, <1>5
<1>7. \A i \in DOMAIN ts : InOrder(ts)[Rank(ts, i)] = ts[i]
  <2> SUFFICES ASSUME NEW i \in DOMAIN ts PROVE InOrder(ts)[Rank(ts, i)] = ts[i] OBVIOUS
  <2>1. Rank(ts, i) \in DOMAIN ts BY <1>1, RanksAreDistinct
  <2>2. at(Rank(ts, i)) = i BY <1>1, <1>3, <2>1, RanksAreDistinct
  <2> QED BY <1>4, <2>1, <2>2
<1> QED BY <1>2, <1>4, <1>6, <1>7

\* Trades of different days come out in the same order however they were entered.
LEMMA OneOrder ==
  ASSUME NEW S, S \subseteq Trade, NEW ts \in Seq(S), NEW p \in Bijection(DOMAIN ts, DOMAIN ts),
         \A i, j \in DOMAIN ts : i # j => ts[i].day # ts[j].day
  PROVE  InOrder([i \in DOMAIN ts |-> ts[p[i]]]) = InOrder(ts)
<1> DEFINE D == DOMAIN ts
           us == [i \in D |-> ts[p[i]]]
<1>1. D = 1..Len(ts) /\ Len(ts) \in Nat /\ (\A i \in D : ts[i] \in S) /\ ts \in Seq(Trade)
  BY SeqMonotonic
<1>2. p \in [D -> D] /\ (\A n \in D : \E i \in D : p[i] = n) /\ (\A i, j \in D : p[i] = p[j] => i = j)
  BY DEF Bijection, Injection, Surjection, IsInjective
<1>3. us \in Seq(S) /\ Len(us) = Len(ts) /\ DOMAIN us = D
  <2>1. us \in [1..Len(ts) -> S] BY <1>1, <1>2
  <2> HIDE DEF us
  <2> QED BY <1>1, <2>1
<1>4. \A i \in D : us[i] = ts[p[i]] OBVIOUS
<1>5. IsFiniteSet(D)
  <2> DEFINE N == Len(ts)
  <2>1. D = 1..N /\ N \in Nat BY <1>1
  <2> HIDE DEF N, D
  <2> QED BY <2>1, FS_Interval
<1> HIDE DEF us
<1>7. \A i, j \in D : Earlier(us, i, j) <=> Earlier(ts, p[i], p[j])
  <2> SUFFICES ASSUME NEW i \in D, NEW j \in D PROVE Earlier(us, i, j) <=> Earlier(ts, p[i], p[j])
    OBVIOUS
  <2>1. us[i] = ts[p[i]] /\ us[j] = ts[p[j]] /\ p[i] \in D /\ p[j] \in D BY <1>2, <1>4
  <2>2. i # j => p[i] # p[j] /\ ts[p[i]].day # ts[p[j]].day BY <1>2, <2>1
  <2>3. i \in Int /\ p[i] \in Int /\ j \in Int /\ ts[p[i]].day \in Int
    <3>1. ts[p[i]] \in Trade BY <1>1, <2>1
    <3>2. D \subseteq Int BY <1>1
    <3> HIDE DEF D
    <3> QED BY <2>1, <3>1, <3>2 DEF Trade
  <2>4. CASE i = j BY <2>1, <2>3, <2>4 DEF Earlier
  <2>5. CASE i # j BY <2>1, <2>2, <2>5 DEF Earlier
  <2> QED BY <2>4, <2>5
<1>8. \A i \in D : Rank(us, i) = Rank(ts, p[i])
  <2> SUFFICES ASSUME NEW i \in D PROVE Rank(us, i) = Rank(ts, p[i]) OBVIOUS
  <2> DEFINE A == Before(us, i)
             B == Before(ts, p[i])
             f == [j \in A |-> p[j]]
  <2>1. A \in SUBSET D /\ B \in SUBSET D BY <1>3 DEF Before
  <2>2. f \in [A -> B] BY <1>2, <1>3, <1>7 DEF Before
  <2>3. \A n \in B : \E j \in A : p[j] = n
    <3> SUFFICES ASSUME NEW n \in B PROVE \E j \in A : p[j] = n OBVIOUS
    <3>1. PICK j \in D : p[j] = n BY <1>2, <2>1
    <3>2. Earlier(us, j, i) BY <1>7, <3>1 DEF Before
    <3> QED BY <1>3, <3>1, <3>2 DEF Before
  <2>4. f \in Surjection(A, B) BY <2>2, <2>3 DEF Surjection
  <2>5. f \in Injection(A, B) BY <1>2, <2>1, <2>2 DEF Injection, IsInjective
  <2>6. IsFiniteSet(A)
    <3> HIDE DEF A, D
    <3> QED BY <1>5, <2>1, FS_Subset
  <2>7. Cardinality(A) = Cardinality(B)
    <3> HIDE DEF A, B, f
    <3> QED BY <2>4, <2>5, <2>6, FS_Surjection
  <2> QED BY <2>7 DEF Rank, Before
<1>9. \A n \in D : InOrder(us)[n] = InOrder(ts)[n]
  <2> SUFFICES ASSUME NEW n \in D PROVE InOrder(us)[n] = InOrder(ts)[n] OBVIOUS
  <2>1. us \in Seq(Trade) BY <1>3, SeqMonotonic
  <2>2. PICK i \in D : Rank(us, i) = n BY <1>3, <2>1, RanksAreDistinct
  <2>3. InOrder(us)[n] = us[i] BY <1>3, <2>2, InOrderIs
  <2>4. InOrder(ts)[n] = ts[p[i]]
    <3>1. p[i] \in DOMAIN ts /\ Rank(ts, p[i]) = n BY <1>2, <1>8, <2>2
    <3>2. InOrder(ts)[Rank(ts, p[i])] = ts[p[i]] BY <3>1, InOrderIs
    <3> QED BY <3>1, <3>2
  <2> QED BY <1>4, <2>3, <2>4
<1>10. InOrder(us) \in Seq(S) /\ InOrder(ts) \in Seq(S) /\ Len(InOrder(us)) = Len(ts)
       /\ Len(InOrder(ts)) = Len(ts)
  BY <1>3, InOrderIs
<1>11. InOrder(us) = InOrder(ts)
  <2> DEFINE x == InOrder(us)
             y == InOrder(ts)
  <2>1. x \in Seq(S) /\ y \in Seq(S) /\ Len(x) = Len(y) /\ \A n \in 1..Len(x) : x[n] = y[n]
    BY <1>1, <1>9, <1>10
  <2> HIDE DEF x, y
  <2>2. x = y BY <2>1
  <2> QED BY <2>2 DEF x, y
<1> QED BY <1>11 DEF us

-----------------------------------------------------------------------------
(* The fold                                                                *)

\* A quantity and a fraction.
Average == [quantity : Int, basis : Int \X (Nat \ {0})]

\* What a sale leaves of a fraction: no more than it was, and nothing below zero.
LEMMA SoldIs ==
  ASSUME NEW pos \in Average, NEW qty \in Int
  PROVE  /\ Sold(pos, qty) \in Int \X (Nat \ {0})
         /\ \A paid \in Nat : qty <= 0 /\ 0 <= pos.basis[1] /\ pos.basis[1] <= paid * pos.basis[2]
              => 0 <= Sold(pos, qty)[1] /\ Sold(pos, qty)[1] <= paid * Sold(pos, qty)[2]
<1> DEFINE q == pos.quantity
           n == pos.basis[1]
           d == pos.basis[2]
           left == q - Least(-qty, q)
           sign == IF q < 0 THEN -1 ELSE 1
           size == q * sign
           kept == left * sign
<1>1. q \in Int /\ n \in Int /\ d \in Nat \ {0} /\ pos.basis = <<n, d>> BY DEF Average
<1> HIDE DEF q, n, d
<1>2. CASE q = 0
  <2>1. Sold(pos, qty) = pos.basis BY <1>2 DEF Sold, q
  <2>2. pos.basis \in Int \X (Nat \ {0}) BY DEF Average
  <2> QED BY <2>1, <2>2
<1>3. CASE q # 0
  <2>1. left \in Int /\ sign \in {-1, 1} /\ size \in Nat \ {0} /\ kept \in Int BY <1>1, <1>3 DEF Least
  <2>2. qty <= 0 => 0 <= kept /\ kept <= size BY <1>1, <1>3 DEF Least
  <2>3. Sold(pos, qty) = <<n * left * sign, d * q * sign>> BY <1>3 DEF Sold, q, n, d
  <2>4. n * left * sign = n * kept /\ d * q * sign = d * size
    <3> HIDE DEF left
    <3>1. CASE sign = 1 BY <1>1, <2>1, <3>1
    <3>2. CASE sign = -1 BY <1>1, <2>1, <3>2
    <3> HIDE DEF sign
    <3> QED BY <2>1, <3>1, <3>2
  <2> HIDE DEF left, sign, size, kept
  <2>5. n * kept \in Int /\ d * size \in Nat \ {0} BY <1>1, <2>1
  <2>6. ASSUME NEW paid \in Nat, qty <= 0, 0 <= n, n <= paid * d
        PROVE  0 <= n * kept /\ n * kept <= paid * (d * size)
    <3>1. 0 <= n * kept BY <1>1, <2>1, <2>2, <2>6
    <3>2. n * kept <= n * size BY <1>1, <2>1, <2>2, <2>6
    <3>3. n * size <= (paid * d) * size BY <1>1, <2>1, <2>6
    <3>4. (paid * d) * size = paid * (d * size) BY <1>1, <2>1
    <3>5. n * kept \in Int /\ n * size \in Int /\ paid * (d * size) \in Int BY <1>1, <2>1
    <3> QED BY <3>1, <3>2, <3>3, <3>4, <3>5
  <2>7. Sold(pos, qty) = <<n * kept, d * size>> BY <2>3, <2>4
  <2> QED BY <2>5, <2>6, <2>7 DEF n, d
<1> QED BY <1>1, <1>2, <1>3

\* What a buy and a sale leave.
LEMMA BoughtAndSold ==
  ASSUME NEW pos, NEW t, NEW isCash \in BOOLEAN
  PROVE  LET qty == OrZero(t.quantity) IN
         /\ t.type = "buy" => Folded(isCash, pos, t) =
              [quantity |-> pos.quantity + qty,
               basis |-> <<pos.basis[1] - t.amount * pos.basis[2], pos.basis[2]>>]
         /\ t.type = "sell" => Folded(isCash, pos, t) =
              [quantity |-> pos.quantity + qty, basis |-> Sold(pos, qty)]
<1> DEFINE qty == OrZero(t.quantity)
           bought == [quantity |-> pos.quantity + qty,
                      basis |-> <<pos.basis[1] - t.amount * pos.basis[2], pos.basis[2]>>]
           sold == [quantity |-> pos.quantity + qty, basis |-> Sold(pos, qty)]
           split == [pos EXCEPT !.quantity = @ + qty]
           moved == [pos EXCEPT !.quantity = @ + IF t.quantity = Null THEN t.amount ELSE qty]
<1>1. Folded(isCash, pos, t) =
        CASE t.type = "buy" -> bought
          [] t.type = "sell" -> sold
          [] t.type = "split" -> split
          [] isCash /\ t.type \in CashMoving -> moved
          [] OTHER -> pos
  BY DEF Folded
<1>2. t.type = "buy" => Folded(isCash, pos, t) = bought
  <2> HIDE DEF bought, sold, split, moved
  <2> QED BY <1>1 DEF CashMoving
<1>3. t.type = "sell" => Folded(isCash, pos, t) = sold
  <2> HIDE DEF bought, sold, split, moved
  <2> QED BY <1>1 DEF CashMoving
<1> QED BY <1>2, <1>3

\* An event leaves a fraction, of no more than was paid, if its sign is right.
LEMMA FoldedIs ==
  ASSUME NEW pos \in Average, NEW t \in Trades, NEW isCash \in BOOLEAN
  PROVE  /\ Folded(isCash, pos, t) \in Average
         /\ \A paid \in Nat : Signed(t) /\ 0 <= pos.basis[1] /\ pos.basis[1] <= paid * pos.basis[2]
              => LET after == Folded(isCash, pos, t)
                     more == paid - IF t.type = "buy" THEN t.amount ELSE 0
                 IN /\ more \in Nat
                    /\ 0 <= after.basis[1] /\ after.basis[1] <= more * after.basis[2]
<1> DEFINE n == pos.basis[1]
           d == pos.basis[2]
           after == Folded(isCash, pos, t)
           qty == OrZero(t.quantity)
<1>1. t \in Trade BY TradesAssumption
<1>2. t.amount \in Int /\ qty \in Int /\ t.type \in {"buy", "sell", "split"} \cup CashMoving
  BY <1>1 DEF Trade, OrZero
<1>3. Signed(t) => (t.type = "buy" => t.amount <= 0) /\ (t.type = "sell" => qty <= 0)
  BY DEF Signed
<1>4. pos.quantity \in Int /\ n \in Int /\ d \in Nat \ {0} /\ pos.basis = <<n, d>>
      /\ pos = [quantity |-> pos.quantity, basis |-> pos.basis]
  BY DEF Average
<1>5. CASE t.type = "buy"
  <2>1. after = [quantity |-> pos.quantity + qty, basis |-> <<n - t.amount * d, d>>]
    BY <1>5, BoughtAndSold
  <2> HIDE DEF after, n, d, qty
  <2>2. n - t.amount * d \in Int BY <1>2, <1>4
  <2>3. after \in Average BY <1>2, <1>4, <2>1, <2>2 DEF Average
  <2>4. ASSUME NEW paid \in Nat, Signed(t), 0 <= n, n <= paid * d
        PROVE  /\ paid - t.amount \in Nat /\ 0 <= n - t.amount * d
               /\ n - t.amount * d <= (paid - t.amount) * d
    <3>1. 0 <= (-t.amount) * d BY <1>2, <1>3, <1>4, <1>5, <2>4
    <3>2. (-t.amount) * d = -(t.amount * d) /\ (paid - t.amount) * d = paid * d - t.amount * d
          /\ t.amount * d \in Int /\ paid * d \in Int
      BY <1>2, <1>4
    <3> QED BY <1>2, <1>3, <1>4, <1>5, <2>4, <3>1, <3>2
  <2> QED BY <1>5, <2>1, <2>3, <2>4 DEF after, n, d
<1>6. CASE t.type = "sell"
  <2>1. after = [quantity |-> pos.quantity + qty, basis |-> Sold(pos, qty)] BY <1>6, BoughtAndSold
  <2>2. Sold(pos, qty) \in Int \X (Nat \ {0}) BY <1>2, <1>3, <1>6, SoldIs
  <2> HIDE DEF after, qty
  <2>3. after \in Average BY <1>2, <1>4, <2>1, <2>2 DEF Average
  <2>4. ASSUME NEW paid \in Nat, Signed(t), 0 <= n, n <= paid * d
        PROVE  0 <= Sold(pos, qty)[1] /\ Sold(pos, qty)[1] <= paid * Sold(pos, qty)[2]
    BY <1>2, <1>3, <1>6, <2>4, SoldIs
  <2> QED BY <1>6, <2>1, <2>3, <2>4 DEF after
<1>7. CASE t.type \notin {"buy", "sell"}
  <2>1. after.basis = pos.basis /\ after.quantity \in Int /\ after \in Average
    <3>1. CASE t.type = "split" BY <1>2, <1>4, <3>1 DEF Folded, Average
    <3>2. CASE t.type # "split" /\ isCash /\ t.type \in CashMoving
      <4> DEFINE more == IF t.quantity = Null THEN t.amount ELSE qty
      <4>1. more \in Int BY <1>2
      <4>2. after = [pos EXCEPT !.quantity = @ + more] BY <1>7, <3>2 DEF Folded
      <4> HIDE DEF more
      <4> QED BY <1>4, <4>1, <4>2 DEF Average
    <3>3. CASE t.type # "split" /\ ~(isCash /\ t.type \in CashMoving)
      <4>1. after = pos BY <1>7, <3>3 DEF Folded
      <4> QED BY <1>4, <4>1
    <3> QED BY <3>1, <3>2, <3>3
  <2> HIDE DEF after
  <2> QED BY <1>7, <2>1 DEF after
<1> QED BY <1>2, <1>5, <1>6, <1>7

\* A fold is what its equations say.
LEMMA FoldByFold ==
  ASSUME NEW isCash \in BOOLEAN, NEW ts \in Seq(Trades)
  PROVE  /\ Folds(isCash, ts)[0] = Flat
         /\ \A n \in 0..Len(ts) : Folds(isCash, ts)[n] \in Average
         /\ \A n \in 1..Len(ts) : Folds(isCash, ts)[n] = Folded(isCash, Folds(isCash, ts)[n - 1], ts[n])
<1> DEFINE N == Len(ts)
           step(pos, n) == Folded(isCash, pos, ts[n])
           G == [x \in (1..N) \X Average |-> step(x[2], x[1])]
<1>1. N \in Nat /\ \A n \in 1..N : ts[n] \in Trades OBVIOUS
<1>2. Flat \in Average BY DEF Flat, Average
<1>3. \A n \in 1..N, pos \in Average : step(pos, n) \in Average BY <1>1, FoldedIs
<1>4. G \in [(1..N) \X Average -> Average]
  <2> HIDE DEF N, step
  <2> QED BY <1>3
<1>5. \A n \in 1..N, pos \in Average : G[<<n, pos>>] = step(pos, n) OBVIOUS
<1> HIDE DEF G, step
<1>6. PICK f : Follows(f, N, Average, Flat, G)
  <2>1. G \in Steps(N, Average) BY <1>4 DEF Steps
  <2> HIDE DEF N
  <2> QED BY <1>1, <1>2, <2>1, Recursion
<1> DEFINE Body(t) == [n \in 0..N |-> IF n = 0 THEN Flat ELSE step(t[n - 1], n)]
<1>7. f = Body(f)
  <2>1. ASSUME NEW k \in 1..N PROVE f[k] = step(f[k - 1], k)
    <3>1. k - 1 \in 0..N BY <1>1
    <3> QED BY <3>1, <1>5, <1>6 DEF Follows
  <2> HIDE DEF N
  <2> QED BY <2>1, <1>1, <1>6 DEF Follows
<1>8. Folds(isCash, ts) = CHOOSE t : t = Body(t) BY DEF Folds, step
<1> HIDE DEF Body
<1>9. Folds(isCash, ts) = Body(Folds(isCash, ts)) BY <1>7, <1>8
<1>10. Folds(isCash, ts)[0] = Flat BY <1>1, <1>9 DEF Body
<1>11. \A n \in 1..N : Folds(isCash, ts)[n] = step(Folds(isCash, ts)[n - 1], n)
  <2>1. \A n \in 1..N : n \in 0..N /\ n # 0 BY <1>1
  <2> QED BY <1>9, <2>1 DEF Body
<1> DEFINE S == {n \in 0..N : Folds(isCash, ts)[n] \in Average}
<1>12. 0 \in S BY <1>1, <1>2, <1>10
<1>13. \A k \in 0..(N - 1) : k \in S => k + 1 \in S
  <2> SUFFICES ASSUME NEW k \in 0..(N - 1), k \in S PROVE k + 1 \in S OBVIOUS
  <2>1. k + 1 \in 1..N /\ k + 1 \in 0..N /\ k + 1 - 1 = k BY <1>1
  <2>2. Folds(isCash, ts)[k + 1] = step(Folds(isCash, ts)[k], k + 1) BY <1>11, <2>1
  <2> QED BY <1>3, <2>1, <2>2
<1> HIDE DEF S
<1>14. \A k \in 0..N : k \in S BY <1>1, <1>12, <1>13, UpTo
<1> QED BY <1>10, <1>11, <1>14 DEF S, step

\* The cash paid is what its equations say.
LEMMA PaidByPaid ==
  ASSUME NEW ts \in Seq(Trades)
  PROVE  /\ Paid(ts)[0] = 0
         /\ \A n \in 1..Len(ts) :
              Paid(ts)[n] = Paid(ts)[n - 1] - IF ts[n].type = "buy" THEN ts[n].amount ELSE 0
<1> DEFINE N == Len(ts)
           cost(n) == IF ts[n].type = "buy" THEN ts[n].amount ELSE 0
           G == [x \in (1..N) \X Int |-> x[2] - cost(x[1])]
<1>1. N \in Nat /\ \A n \in 1..N : ts[n] \in Trades OBVIOUS
<1>2. \A n \in 1..N : cost(n) \in Int BY <1>1, TradesAssumption DEF Trade
<1>3. G \in [(1..N) \X Int -> Int]
  <2> HIDE DEF N, cost
  <2> QED BY <1>2
<1>4. \A n \in 1..N, acc \in Int : G[<<n, acc>>] = acc - cost(n) OBVIOUS
<1> HIDE DEF G, cost
<1>5. PICK f : Follows(f, N, Int, 0, G)
  <2> DEFINE T == Int
  <2>1. G \in Steps(N, T) BY <1>3 DEF Steps
  <2>2. N \in Nat /\ 0 \in T BY <1>1
  <2> HIDE DEF N, T
  <2>3. \E f : Follows(f, N, T, 0, G) BY <2>1, <2>2, Recursion
  <2> QED BY <2>3 DEF T
<1> DEFINE Body(t) == [n \in 0..N |-> IF n = 0 THEN 0 ELSE t[n - 1] - cost(n)]
<1>6. f = Body(f)
  <2>1. ASSUME NEW k \in 1..N PROVE f[k] = f[k - 1] - cost(k)
    <3>1. k - 1 \in 0..N BY <1>1
    <3> QED BY <3>1, <1>4, <1>5 DEF Follows
  <2> HIDE DEF N
  <2> QED BY <2>1, <1>1, <1>5 DEF Follows
<1>7. Paid(ts) = CHOOSE t : t = Body(t) BY DEF Paid, cost
<1> HIDE DEF Body
<1>8. Paid(ts) = Body(Paid(ts)) BY <1>6, <1>7
<1>9. Paid(ts)[0] = 0 BY <1>1, <1>8 DEF Body
<1>10. \A n \in 1..N : Paid(ts)[n] = Paid(ts)[n - 1] - cost(n)
  <2>1. \A n \in 1..N : n \in 0..N /\ n # 0 BY <1>1
  <2> QED BY <1>8, <2>1 DEF Body
<1> QED BY <1>9, <1>10 DEF cost

\* The basis of trades of the right signs, in any order, is between nothing and what was paid.
LEMMA BasisIsPaid ==
  ASSUME NEW isCash \in BOOLEAN, NEW ts \in Seq(Trades), NEW m \in 0..Len(ts),
         \A i \in 1..m : Signed(ts[i])
  PROVE  LET pos == Folds(isCash, ts)[m] IN
         /\ Paid(ts)[m] \in Nat
         /\ 0 <= pos.basis[1] /\ pos.basis[1] <= Paid(ts)[m] * pos.basis[2]
<1> DEFINE N == Len(ts)
           at(n) == Folds(isCash, ts)[n]
           paid(n) == Paid(ts)[n]
           Good(n) == paid(n) \in Nat /\ 0 <= at(n).basis[1] /\ at(n).basis[1] <= paid(n) * at(n).basis[2]
           S == {n \in 0..N : (\A i \in 1..n : Signed(ts[i])) => Good(n)}
<1>1. N \in Nat /\ \A n \in 1..N : ts[n] \in Trades OBVIOUS
<1>2. 0 \in S
  <2>1. at(0) = Flat /\ paid(0) = 0 BY FoldByFold, PaidByPaid
  <2> HIDE DEF at, paid
  <2> QED BY <1>1, <2>1 DEF Flat
<1>3. \A k \in 0..(N - 1) : k \in S => k + 1 \in S
  <2> SUFFICES ASSUME NEW k \in 0..(N - 1), k \in S, k + 1 \in 0..N,
                      \A i \in 1..(k + 1) : Signed(ts[i])
               PROVE  Good(k + 1)
    BY <1>1
  <2> DEFINE t == ts[k + 1]
             cost == IF t.type = "buy" THEN t.amount ELSE 0
  <2>1. k + 1 \in 1..N /\ k + 1 \in 0..N /\ k + 1 - 1 = k /\ k \in 0..N /\ t \in Trades BY <1>1
  <2>2. at(k + 1) = Folded(isCash, at(k), t) /\ at(k) \in Average BY <2>1, FoldByFold
  <2>3. paid(k + 1) = paid(k) - cost BY <2>1, PaidByPaid
  <2>4. Good(k) /\ Signed(t)
    <3>1. \A i \in 1..k : i \in 1..(k + 1) OBVIOUS
    <3> HIDE DEF Good
    <3> QED BY <2>1, <3>1
  <2> HIDE DEF at, paid, t
  <2>5. paid(k) - cost \in Nat /\ 0 <= Folded(isCash, at(k), t).basis[1]
        /\ Folded(isCash, at(k), t).basis[1] <= (paid(k) - cost) * Folded(isCash, at(k), t).basis[2]
    BY <2>1, <2>2, <2>4, FoldedIs
  <2> QED BY <2>2, <2>3, <2>5
<1> HIDE DEF S
<1>4. \A k \in 0..N : k \in S BY <1>1, <1>2, <1>3, UpTo
<1>5. m \in S BY <1>4
<1> HIDE DEF Good
<1>6. Good(m) BY <1>5 DEF S
<1> QED BY <1>6 DEF Good

\* A sale of a long position that stays long keeps the average.
LEMMA SaleKeepsTheAverage ==
  ASSUME NEW isCash \in BOOLEAN, NEW before \in Average, NEW t \in Trades, t.type = "sell", Signed(t),
         before.quantity >= 0, Folded(isCash, before, t).quantity >= 0
  PROVE  LET after == Folded(isCash, before, t) IN
         before.basis[1] * after.quantity * after.basis[2]
           = after.basis[1] * before.quantity * before.basis[2]
<1> DEFINE q == before.quantity
           n == before.basis[1]
           d == before.basis[2]
           qty == OrZero(t.quantity)
           after == Folded(isCash, before, t)
<1>1. q \in Int /\ n \in Int /\ d \in Int /\ before.basis = <<n, d>> BY DEF Average
<1>2. qty \in Int /\ qty <= 0 BY TradesAssumption DEF Trade, OrZero, Signed
<1>3. after = [quantity |-> q + qty, basis |-> Sold(before, qty)] BY BoughtAndSold
<1>4. after.quantity = q + qty /\ after.basis = Sold(before, qty) BY <1>3
<1>5. CASE q = 0
  <2>1. after.quantity = 0 /\ after.basis = <<n, d>> BY <1>1, <1>2, <1>4, <1>5 DEF Sold
  <2>2. n * after.quantity * after.basis[2] = after.basis[1] * q * d
    <3> HIDE DEF after, q, n, d
    <3> QED BY <1>1, <1>5, <2>1
  <2> QED BY <2>2
<1>6. CASE q # 0
  <2>1. Least(-qty, q) = -qty /\ ~(q < 0) /\ q - (-qty) = q + qty BY <1>1, <1>2, <1>4, <1>6 DEF Least
  <2>2. after.basis = <<n * (q + qty) * 1, d * q * 1>> BY <1>4, <1>6, <2>1 DEF Sold
  <2>3. n * (q + qty) * (d * q * 1) = (n * (q + qty) * 1) * q * d
    <3> HIDE DEF q, n, d, qty, after
    <3> QED BY <1>1, <1>2
  <2> QED BY <1>4, <2>2, <2>3
<1> QED BY <1>1, <1>5, <1>6

-----------------------------------------------------------------------------
(* A position                                                              *)

\* The trades in the order of their days are as many, and each of them a trade.
LEMMA HistoryTyped ==
  ASSUME HistoryTypeOK
  PROVE  /\ InOrder(trades) \in Seq(Trades) /\ Len(InOrder(trades)) = Len(trades)
         /\ DOMAIN trades = 1..Len(trades) /\ Len(trades) \in Nat
         /\ cash \in BOOLEAN
         /\ \A n \in 1..Len(trades) : InOrder(trades)[n] \in Trades
<1>1. trades \in Seq(Trades) /\ cash \in BOOLEAN /\ Trades \subseteq Trade
  BY TradesAssumption DEF HistoryTypeOK
<1>2. InOrder(trades) \in Seq(Trades) /\ Len(InOrder(trades)) = Len(trades) BY <1>1, InOrderIs
<1> QED BY <1>1, <1>2

\* The folds of a position's trades: sales keep the average, the basis was paid, and the order
\* of entry is no matter.
LEMMA FoldsAreSound ==
  ASSUME HistoryTypeOK
  PROVE  SalesKeepTheAverage /\ BasisIsWhatWasPaid /\ EntryOrderIsNoMatter
<1> DEFINE ts == InOrder(trades)
           N == Len(trades)
<1>1. ts \in Seq(Trades) /\ Len(ts) = N /\ N \in Nat /\ DOMAIN trades = 1..N /\ cash \in BOOLEAN
      /\ \A n \in 1..N : ts[n] \in Trades
  BY HistoryTyped
<1>2. BasisIsWhatWasPaid
  <2> SUFFICES ASSUME NEW n \in 0..Len(trades), \A m \in 1..n : Signed(ts[m])
               PROVE  0 <= After(n).basis[1] /\ After(n).basis[1] <= Paid(InOrder(trades))[n] * After(n).basis[2]
    BY DEF BasisIsWhatWasPaid
  <2>1. n \in 0..Len(ts) BY <1>1
  <2> HIDE DEF ts
  <2>2. 0 <= Folds(cash, ts)[n].basis[1] /\ Folds(cash, ts)[n].basis[1] <= Paid(ts)[n] * Folds(cash, ts)[n].basis[2]
    BY <1>1, <2>1, BasisIsPaid
  <2> QED BY <2>2 DEF After, ts
<1>3. SalesKeepTheAverage
  <2> SUFFICES ASSUME ~EverShort, NEW n \in DOMAIN trades, ts[n].type = "sell", Signed(ts[n])
               PROVE  After(n - 1).basis[1] * After(n).quantity * After(n).basis[2]
                        = After(n).basis[1] * After(n - 1).quantity * After(n - 1).basis[2]
    BY DEF SalesKeepTheAverage
  <2>1. n \in 1..Len(ts) /\ n - 1 \in 0..Len(ts) /\ n \in 0..Len(ts) /\ ts[n] \in Trades BY <1>1
  <2>2. After(n) = Folded(cash, After(n - 1), ts[n]) /\ After(n - 1) \in Average /\ After(n) \in Average
    <3> HIDE DEF ts
    <3>1. Folds(cash, ts)[n] = Folded(cash, Folds(cash, ts)[n - 1], ts[n])
          /\ Folds(cash, ts)[n - 1] \in Average /\ Folds(cash, ts)[n] \in Average
      BY <1>1, <2>1, FoldByFold
    <3> QED BY <3>1 DEF After, ts
  <2>3. \A m \in DOMAIN trades : After(m) \in Average
    <3> SUFFICES ASSUME NEW m \in DOMAIN trades PROVE After(m) \in Average OBVIOUS
    <3>1. m \in 0..Len(ts) BY <1>1
    <3> HIDE DEF ts
    <3>2. Folds(cash, ts)[m] \in Average BY <1>1, <3>1, FoldByFold
    <3> QED BY <3>2 DEF After, ts
  <2>4. \A m \in DOMAIN trades : After(m).quantity >= 0 BY <2>3 DEF EverShort, Average
  <2>5. After(n - 1).quantity >= 0
    <3>1. CASE n = 1
      <4>1. After(0) = Flat
        <5> HIDE DEF ts
        <5>1. Folds(cash, ts)[0] = Flat BY <1>1, FoldByFold
        <5> QED BY <5>1 DEF After, ts
      <4> QED BY <3>1, <4>1 DEF Flat
    <3>2. CASE n # 1
      <4>1. n - 1 \in DOMAIN trades BY <1>1, <3>2
      <4> QED BY <2>4, <4>1
    <3> QED BY <3>1, <3>2
  <2> DEFINE b == After(n - 1)
             t == ts[n]
  <2> HIDE DEF b, t
  <2>6. cash \in BOOLEAN /\ b \in Average /\ t \in Trades /\ t.type = "sell" /\ Signed(t) /\ b.quantity >= 0
        /\ Folded(cash, b, t).quantity >= 0
    BY <1>1, <2>1, <2>2, <2>4, <2>5 DEF b, t
  <2>7. b.basis[1] * Folded(cash, b, t).quantity * Folded(cash, b, t).basis[2]
          = Folded(cash, b, t).basis[1] * b.quantity * b.basis[2]
    BY <2>6, SaleKeepsTheAverage
  <2> QED BY <2>2, <2>7 DEF b, t
<1>4. EntryOrderIsNoMatter
  <2> SUFFICES ASSUME \A i, j \in DOMAIN trades : i # j => trades[i].day # trades[j].day,
                      NEW p \in Bijection(DOMAIN trades, DOMAIN trades)
               PROVE  History(cash, [i \in DOMAIN trades |-> trades[p[i]]]) = History(cash, trades)
    BY DEF EntryOrderIsNoMatter
  <2> DEFINE us == [i \in DOMAIN trades |-> trades[p[i]]]
  <2>1. trades \in Seq(Trades) /\ Trades \subseteq Trade BY TradesAssumption DEF HistoryTypeOK
  <2>2. InOrder(us) = InOrder(trades) BY <2>1, OneOrder
  <2>3. Len(us) = Len(trades) BY <1>1
  <2> QED BY <2>2, <2>3 DEF History
<1> QED BY <1>2, <1>3, <1>4

\* Every request leaves typed trades and a typed row.
LEMMA HistoryStep ==
  ASSUME HistoryTypeOK, [HistoryNext]_historyVars
  PROVE  HistoryTypeOK'
<1>0. trades \in Seq(Trades) /\ Len(trades) <= MaxTrades /\ cash \in BOOLEAN /\ typed \in Typed \cup {Null}
  BY DEF HistoryTypeOK
<1>1. DOMAIN trades = 1..Len(trades) /\ Len(trades) \in Nat BY <1>0
<1>2. ASSUME NEW t \in Trades, Record(t) PROVE HistoryTypeOK'
  <2>1. Append(trades, t) \in Seq(Trades) /\ Len(Append(trades, t)) = Len(trades) + 1 BY <1>0
  <2> QED BY <1>0, <1>1, <1>2, <2>1, TradesAssumption DEF Record, HistoryTypeOK
<1>3. ASSUME NEW i \in DOMAIN trades, NEW t \in Trades, Amend(i, t) PROVE HistoryTypeOK'
  <2> DEFINE after == [trades EXCEPT ![i] = t]
  <2>1. after \in Seq(Trades) /\ Len(after) = Len(trades) BY <1>0, <1>1
  <2> QED BY <1>0, <1>3, <2>1 DEF Amend, HistoryTypeOK
<1>4. ASSUME NEW i \in DOMAIN trades, Forget(i) PROVE HistoryTypeOK'
  <2> DEFINE head == SubSeq(trades, 1, i - 1)
             tail == SubSeq(trades, i + 1, Len(trades))
  <2>1. head \in Seq(Trades) /\ Len(head) = i - 1
    <3>1. 1 \in Int /\ i - 1 \in Int /\ \A k \in 1..(i - 1) : trades[k] \in Trades BY <1>0, <1>1
    <3>2. head \in Seq(Trades) /\ Len(head) = IF 1 <= i - 1 THEN (i - 1) - 1 + 1 ELSE 0
      BY <3>1, SubSeqProperties
    <3> QED BY <1>1, <3>2
  <2>2. tail \in Seq(Trades) /\ Len(tail) = Len(trades) - i
    <3>1. i + 1 \in Int /\ Len(trades) \in Int /\ \A k \in (i + 1)..Len(trades) : trades[k] \in Trades
      BY <1>0, <1>1
    <3>2. tail \in Seq(Trades)
          /\ Len(tail) = IF i + 1 <= Len(trades) THEN Len(trades) - (i + 1) + 1 ELSE 0
      BY <3>1, SubSeqProperties
    <3> QED BY <1>1, <3>2
  <2> HIDE DEF head, tail
  <2>3. head \o tail \in Seq(Trades) /\ Len(head \o tail) = Len(trades) - 1
    <3>1. head \o tail \in Seq(Trades) /\ Len(head \o tail) = Len(head) + Len(tail)
      BY <2>1, <2>2, ConcatProperties
    <3> QED BY <1>1, <2>1, <2>2, <3>1
  <2>4. trades' = head \o tail BY <1>4 DEF Forget, RemoveAt, head, tail
  <2> QED BY <1>0, <1>1, <1>4, <2>3, <2>4, TradesAssumption DEF Forget, HistoryTypeOK
<1>5. ASSUME NEW scalars \in Typed, Type(scalars) \/ Overtype(scalars) PROVE HistoryTypeOK'
  BY <1>0, <1>5 DEF Type, Overtype, HistoryTypeOK
<1>6. CASE Untype BY <1>0, <1>6 DEF Untype, HistoryTypeOK
<1>7. CASE Retype BY <1>0, <1>7 DEF Retype, HistoryTypeOK
<1>8. CASE UNCHANGED historyVars BY <1>0, <1>8 DEF historyVars, HistoryTypeOK
<1> QED BY <1>2, <1>3, <1>4, <1>5, <1>6, <1>7, <1>8 DEF HistoryNext

\* No trade is recorded at first.
LEMMA HistoryStarts == HistoryInit => HistoryTypeOK
BY TradesAssumption DEF HistoryInit, HistoryTypeOK

\* While a position has trades, what was typed is only forgotten.
LEMMA TypedWaits ==
  ASSUME [HistoryNext]_historyVars
  PROVE  [trades # <<>> /\ typed # Null => typed' \in {typed, Null}]_historyVars
BY DEF HistoryNext, Record, Amend, Forget, Type, Overtype, Untype, Retype, historyVars

-----------------------------------------------------------------------------
(* The book                                                                *)

Book ==
  [listed : SUBSET Securities, rows : [Positions -> HoldingRow \cup {None}],
   trades : [Positions -> SUBSET Int],
   prices : [Securities -> [Days -> Price \cup {None}]],
   rated : SUBSET {CurrencyOf[s] : s \in Securities}]

PinFine(pin) == pin = NoPin \/ (pin.total \in Int /\ pin.quantity \in Int \ {0})

RowFine(row) ==
  /\ row \in HoldingRow
  /\ row.frozen => row.source = "bank"
  /\ PinFine(row.pin)
  /\ row.by = "person" => row.source = "manual" \/ row.frozen

\* A book that requests and syncs may leave.
BookFine(b) ==
  /\ b \in Book
  /\ \A p \in Positions :
       /\ b.rows[p] # None => RowFine(b.rows[p])
       /\ IsFiniteSet(b.trades[p])
       /\ p[2] \notin b.listed => b.rows[p] = None /\ b.trades[p] = {}

\* A row that stays where it was is still its owner's.
SourcesStay(b, c) ==
  \A p \in Positions : b.rows[p] # None /\ c.rows[p] # None => c.rows[p].source = b.rows[p].source

PlaceKinds == RowKinds \cup TradeKinds

\* What a request is, by its kind.
LEMMA RequestIs ==
  ASSUME NEW r \in Request(Int)
  PROVE  /\ r.kind \in PlaceKinds \cup {"price", "drop", "list"}
         /\ r.security \in Securities
         /\ r.kind \in PlaceKinds => r.account \in Accounts /\ Place(r) \in Positions
                                     /\ Place(r)[1] = r.account /\ Place(r)[2] = r.security
         /\ r.kind = "hold" => r.quantity \in Int \ {0}
         /\ r.kind \in TradeKinds => r.quantity \in Int
         /\ r.kind = "amend" => r.to \in Int
         /\ r.kind = "pin" => r.quantity \in Int /\ r.total \in Int \cup {None}
         /\ r.kind = "price" => r.day \in Days /\ r.price \in Nat
<1> USE DEF PlaceKinds, RowKinds, TradeKinds
<1>1. CASE r \in Asks({"hold"}, Int \ {0}) \/ r \in Asks({"clear", "reset", "trade", "erase"}, Int)
  BY <1>1 DEF Asks, Place, Positions
<1>2. CASE r \in Pins(Int) BY <1>2 DEF Pins, Place, Positions
<1>3. CASE r \in Prices \/ r \in [kind : {"drop", "list"}, security : Securities]
  BY <1>3 DEF Prices
<1>4. CASE r \in Amends BY <1>4 DEF Amends, Place, Positions
<1> QED BY <1>1, <1>2, <1>3, <1>4 DEF Request

WithRow(b, p, row) == [b EXCEPT !.rows[p] = row]
WithTrades(b, p, ts) == [b EXCEPT !.trades[p] = ts]
WithPrice(b, s, d, entry) == [b EXCEPT !.prices[s][d] = entry]

\* Writing a row leaves a book, and every other row and column as it was.
LEMMA SetRowIs ==
  ASSUME NEW b \in Book, NEW p \in Positions, NEW row \in HoldingRow \cup {None},
         NEW c, c = WithRow(b, p, row)
  PROVE  /\ c \in Book /\ c.listed = b.listed /\ c.trades = b.trades /\ c.prices = b.prices
         /\ c.rated = b.rated
         /\ \A q \in Positions : c.rows[q] = IF q = p THEN row ELSE b.rows[q]
<1> DEFINE rows == [b.rows EXCEPT ![p] = row]
<1>1. rows \in [Positions -> HoldingRow \cup {None}] /\ \A q \in Positions : rows[q] = IF q = p THEN row ELSE b.rows[q]
  BY DEF Book
<1>2. c = [b EXCEPT !.rows = rows] BY DEF WithRow
<1> HIDE DEF rows
<1> QED BY <1>1, <1>2 DEF Book

\* Writing the trades of a position leaves a book, and everything else as it was.
LEMMA SetTradesIs ==
  ASSUME NEW b \in Book, NEW p \in Positions, NEW ts \in SUBSET Int,
         NEW c, c = WithTrades(b, p, ts)
  PROVE  /\ c \in Book /\ c.listed = b.listed /\ c.rows = b.rows /\ c.prices = b.prices
         /\ c.rated = b.rated
         /\ \A q \in Positions : c.trades[q] = IF q = p THEN ts ELSE b.trades[q]
<1> DEFINE trs == [b.trades EXCEPT ![p] = ts]
<1>1. trs \in [Positions -> SUBSET Int] /\ \A q \in Positions : trs[q] = IF q = p THEN ts ELSE b.trades[q]
  BY DEF Book
<1>2. c = [b EXCEPT !.trades = trs] BY DEF WithTrades
<1> HIDE DEF trs
<1> QED BY <1>1, <1>2 DEF Book

\* Writing a price leaves a book, and every other security's prices as they were.
LEMMA SetPriceIs ==
  ASSUME NEW b \in Book, NEW s \in Securities, NEW d \in Days, NEW entry \in Price \cup {None},
         NEW c, c = WithPrice(b, s, d, entry)
  PROVE  /\ c \in Book /\ c.listed = b.listed /\ c.rows = b.rows /\ c.trades = b.trades
         /\ c.rated = b.rated
         /\ \A q \in Securities : q # s => c.prices[q] = b.prices[q]
<1> DEFINE quotes == [b.prices[s] EXCEPT ![d] = entry]
           prices == [b.prices EXCEPT ![s] = quotes]
<1>1. quotes \in [Days -> Price \cup {None}] BY DEF Book
<1>2. c = [b EXCEPT !.prices = prices] BY DEF WithPrice
<1> HIDE DEF quotes
<1>3. prices \in [Securities -> [Days -> Price \cup {None}]]
      /\ \A q \in Securities : q # s => prices[q] = b.prices[q]
  BY <1>1 DEF Book
<1> HIDE DEF prices
<1> QED BY <1>2, <1>3 DEF Book

\* A deleted security takes its rows and its trades with it, and nothing of any other.
LEMMA DropIs ==
  ASSUME NEW b \in Book, NEW s \in Securities
  PROVE  /\ Drop(b, s) \in Book /\ Drop(b, s).listed = b.listed \ {s} /\ Drop(b, s).rated = b.rated
         /\ \A p \in Positions :
              /\ p[2] = s => Drop(b, s).rows[p] = None /\ Drop(b, s).trades[p] = {}
              /\ p[2] # s => Drop(b, s).rows[p] = b.rows[p] /\ Drop(b, s).trades[p] = b.trades[p]
         /\ \A q \in Securities : q # s => Drop(b, s).prices[q] = b.prices[q]
<1> DEFINE rows == [p \in Positions |-> IF p[2] = s THEN None ELSE b.rows[p]]
           trs == [p \in Positions |-> IF p[2] = s THEN {} ELSE b.trades[p]]
           prices == [b.prices EXCEPT ![s] = [d \in Days |-> None]]
           listed == b.listed \ {s}
<1>1. rows \in [Positions -> HoldingRow \cup {None}] /\ trs \in [Positions -> SUBSET Int]
  BY DEF Book
<1>2. /\ prices \in [Securities -> [Days -> Price \cup {None}]]
      /\ \A q \in Securities : q # s => prices[q] = b.prices[q]
  BY DEF Book
<1>3. \A p \in Positions : /\ p[2] = s => rows[p] = None /\ trs[p] = {}
                           /\ p[2] # s => rows[p] = b.rows[p] /\ trs[p] = b.trades[p]
  OBVIOUS
<1>4. listed \in SUBSET Securities BY DEF Book
<1>5. Drop(b, s) = [listed |-> listed, rows |-> rows, trades |-> trs, prices |-> prices,
                rated |-> b.rated]
  BY DEF Drop
<1> HIDE DEF rows, trs, prices
<1> QED BY <1>1, <1>2, <1>3, <1>4, <1>5 DEF Book

-----------------------------------------------------------------------------
(* Rows                                                                    *)

\* Rows are written from these fields.
LEMMA RowIs ==
  ASSUME NEW q \in Int \ {0}, NEW source \in {"manual", "bank"}, NEW frozen \in BOOLEAN,
         NEW pin \in [total : OrNull(Int), quantity : OrNull(Int)], PinFine(pin),
         NEW by \in {"person", "bank", "several"},
         frozen => source = "bank", by = "person" => source = "manual" \/ frozen,
         NEW row, row = [quantity |-> q, source |-> source, frozen |-> frozen, pin |-> pin, by |-> by]
  PROVE  /\ RowFine(row) /\ row # None
         /\ row.quantity = q /\ row.source = source /\ row.frozen = frozen /\ row.pin = pin /\ row.by = by
<1>1. row \in HoldingRow BY DEF HoldingRow
<1>2. row.quantity = q /\ row.source = source /\ row.frozen = frozen /\ row.pin = pin /\ row.by = by
  OBVIOUS
<1>3. row # None BY <1>1, NoneAssumption
<1> QED BY <1>1, <1>2, <1>3 DEF RowFine

\* A fine row is made of its columns.
LEMMA FineRowIs ==
  ASSUME NEW row, RowFine(row)
  PROVE  /\ row # None
         /\ row.quantity \in Int \ {0} /\ row.source \in {"manual", "bank"} /\ row.frozen \in BOOLEAN
         /\ row.pin \in [total : OrNull(Int), quantity : OrNull(Int)] /\ PinFine(row.pin)
         /\ row.by \in {"person", "bank", "several"}
         /\ row.frozen => row.source = "bank"
         /\ row.by = "person" => row.source = "manual" \/ row.frozen
         /\ row = [quantity |-> row.quantity, source |-> row.source, frozen |-> row.frozen,
                   pin |-> row.pin, by |-> row.by]
<1>1. row \in HoldingRow BY DEF RowFine
<1>2. row # None BY <1>1, NoneAssumption
<1> QED BY <1>1, <1>2 DEF RowFine, HoldingRow

\* Rows that agree in their columns, their source and who wrote them are one.
LEMMA SameRow ==
  ASSUME NEW x, RowFine(x), NEW y, RowFine(y), x.quantity = y.quantity, x.source = y.source,
         x.frozen = y.frozen, x.pin = y.pin, x.by = y.by
  PROVE  x = y
<1>1. x = [quantity |-> x.quantity, source |-> x.source, frozen |-> x.frozen, pin |-> x.pin, by |-> x.by]
  BY FineRowIs
<1>2. y = [quantity |-> y.quantity, source |-> y.source, frozen |-> y.frozen, pin |-> y.pin, by |-> y.by]
  BY FineRowIs
<1> QED BY <1>1, <1>2

\* No pin is a pin, and fine.
LEMMA NoPinIs == NoPin \in [total : OrNull(Int), quantity : OrNull(Int)] /\ PinFine(NoPin)
BY DEF NoPin, OrNull, PinFine

\* A row with somebody's quantity, no freeze and no pin.
LEMMA FreshRowIs ==
  ASSUME NEW q \in Int \ {0}, NEW source \in {"manual", "bank"}, NEW held \in BOOLEAN, ~held,
         NEW by, by = IF source = "manual" THEN "person" ELSE "bank"
  PROVE  LET row == [quantity |-> q, source |-> source, frozen |-> held, pin |-> NoPin, by |-> by] IN
         /\ RowFine(row) /\ row # None
         /\ row.quantity = q /\ row.source = source /\ row.frozen = held /\ row.pin = NoPin
BY NoPinIs, RowIs

\* Somebody's new row.
LEMMA NewRowIs ==
  ASSUME NEW q \in Int \ {0}, NEW source \in {"manual", "bank"}
  PROVE  LET row == Row(q, source) IN
         /\ RowFine(row) /\ row # None
         /\ row.quantity = q /\ row.source = source /\ row.frozen = FALSE /\ row.pin = NoPin
<1> DEFINE by == IF source = "manual" THEN "person" ELSE "bank"
           row(held) == [quantity |-> q, source |-> source, frozen |-> held, pin |-> NoPin, by |-> by]
<1>1. \A held \in BOOLEAN : ~held =>
        /\ RowFine(row(held)) /\ row(held) # None
        /\ row(held).quantity = q /\ row(held).source = source /\ row(held).frozen = held
        /\ row(held).pin = NoPin
  BY FreshRowIs
<1>2. Row(q, source) = row(FALSE) BY DEF Row
<1> HIDE DEF row
<1> QED BY <1>1, <1>2, Zenon

\* A person's quantity, over a row that is there.
LEMMA HoldIsFine ==
  ASSUME NEW row, RowFine(row), NEW q \in Int \ {0}
  PROVE  RowFine(Hold(row, q)) /\ Hold(row, q).source = row.source
<1> DEFINE held == row.source = "bank"
           after == [row EXCEPT !.quantity = q, !.by = "person", !.frozen = held]
<1>1. held \in BOOLEAN /\ (held <=> row.source = "bank") OBVIOUS
<1>2. row # None /\ row.source \in {"manual", "bank"}
      /\ row.pin \in [total : OrNull(Int), quantity : OrNull(Int)] /\ PinFine(row.pin)
      /\ row = [quantity |-> row.quantity, source |-> row.source, frozen |-> row.frozen,
                pin |-> row.pin, by |-> row.by]
  BY FineRowIs
<1>3. after = [quantity |-> q, source |-> row.source, frozen |-> held, pin |-> row.pin, by |-> "person"]
  <2> DEFINE one == [row EXCEPT !.quantity = q]
             two == [one EXCEPT !.by = "person"]
  <2>1. after = [two EXCEPT !.frozen = held] OBVIOUS
  <2>2. one = [quantity |-> q, source |-> row.source, frozen |-> row.frozen, pin |-> row.pin, by |-> row.by]
    BY <1>2
  <2> HIDE DEF one
  <2>3. two = [quantity |-> q, source |-> row.source, frozen |-> row.frozen, pin |-> row.pin, by |-> "person"]
    BY <2>2
  <2> HIDE DEF two, held
  <2> QED BY <2>1, <2>3
<1>4. Hold(row, q) = after BY <1>2 DEF Hold
<1> HIDE DEF held, after
<1>5. held => row.source = "bank" BY <1>1
<1>6. row.source = "manual" \/ held BY <1>1, <1>2
<1>7. RowFine(after) /\ after.source = row.source BY <1>1, <1>2, <1>3, <1>5, <1>6, RowIs
<1> QED BY <1>4, <1>7

\* A total pinned to a quantity that is not zero, or taken off.
LEMMA PinIsFine ==
  ASSUME NEW row, RowFine(row), NEW r, r.quantity \in Int, r.total \in Int \cup {None},
         r.total # None => r.quantity # 0
  PROVE  RowFine(Pin(row, r)) /\ Pin(row, r).source = row.source
<1> DEFINE pin == IF r.total = None THEN NoPin ELSE [total |-> r.total, quantity |-> r.quantity]
           after == [row EXCEPT !.pin = pin]
<1>1. pin \in [total : OrNull(Int), quantity : OrNull(Int)] /\ PinFine(pin)
  <2>1. CASE r.total = None BY <2>1, NoPinIs
  <2>2. CASE r.total # None BY <2>2 DEF OrNull, PinFine
  <2> QED BY <2>1, <2>2
<1>2. /\ row.quantity \in Int \ {0} /\ row.source \in {"manual", "bank"} /\ row.frozen \in BOOLEAN
      /\ row.by \in {"person", "bank", "several"}
      /\ row.frozen => row.source = "bank"
      /\ row.by = "person" => row.source = "manual" \/ row.frozen
      /\ row = [quantity |-> row.quantity, source |-> row.source, frozen |-> row.frozen,
                pin |-> row.pin, by |-> row.by]
  BY FineRowIs
<1>3. Pin(row, r) = after BY DEF Pin
<1> HIDE DEF pin
<1>4. after = [quantity |-> row.quantity, source |-> row.source, frozen |-> row.frozen,
               pin |-> pin, by |-> row.by]
  BY <1>2
<1> HIDE DEF after
<1>5. RowFine(after) /\ after.source = row.source BY <1>1, <1>2, <1>4, RowIs
<1> QED BY <1>3, <1>5

\* A row without its freeze and its pin.
LEMMA ThawedIsFine ==
  ASSUME NEW row, RowFine(row), NEW held \in BOOLEAN, ~held
  PROVE  LET after == [row EXCEPT !.frozen = held, !.pin = NoPin, !.by = "bank"] IN
         RowFine(after) /\ after.source = row.source
<1> DEFINE after == [row EXCEPT !.frozen = held, !.pin = NoPin, !.by = "bank"]
<1>1. /\ row.quantity \in Int \ {0} /\ row.source \in {"manual", "bank"}
      /\ row = [quantity |-> row.quantity, source |-> row.source, frozen |-> row.frozen,
                pin |-> row.pin, by |-> row.by]
  BY FineRowIs
<1>2. after = [quantity |-> row.quantity, source |-> row.source, frozen |-> held,
               pin |-> NoPin, by |-> "bank"]
  <2> DEFINE one == [row EXCEPT !.frozen = held]
             two == [one EXCEPT !.pin = NoPin]
  <2>1. after = [two EXCEPT !.by = "bank"] OBVIOUS
  <2>2. one = [quantity |-> row.quantity, source |-> row.source, frozen |-> held, pin |-> row.pin, by |-> row.by]
    BY <1>1
  <2> HIDE DEF one
  <2>3. two = [quantity |-> row.quantity, source |-> row.source, frozen |-> held, pin |-> NoPin, by |-> row.by]
    BY <2>2
  <2> HIDE DEF two
  <2> QED BY <2>1, <2>3
<1> HIDE DEF after
<1>3. RowFine(after) /\ after.source = row.source BY <1>1, <1>2, NoPinIs, RowIs
<1> QED BY <1>3 DEF after

\* A row given back to the bank.
LEMMA ResetIsFine ==
  ASSUME NEW row, RowFine(row)
  PROVE  RowFine(Reset(row)) /\ Reset(row).source = row.source
<1> DEFINE after(held) == [row EXCEPT !.frozen = held, !.pin = NoPin, !.by = "bank"]
<1>1. \A held \in BOOLEAN : ~held => RowFine(after(held)) /\ after(held).source = row.source
  BY ThawedIsFine
<1>2. Reset(row) = after(FALSE) BY DEF Reset
<1> HIDE DEF after
<1> QED BY <1>1, <1>2, Zenon

\* What is left of a row that was read, changed and is still its owner's, is fine if its
\* pin is whole; and it is what was written, if nothing else was.
LEMMA MergedIsFine ==
  ASSUME NEW was, RowFine(was), NEW new, RowFine(new), NEW now, RowFine(now),
         new.source = was.source, now.source = was.source
  PROVE  LET row == Merged(was, new, now) IN
         /\ PinIsWhole(row) => RowFine(row)
         /\ row.source = now.source /\ row # None
         /\ new.pin = was.pin => row.pin = now.pin
         /\ now = was => row = new
<1> DEFINE row == Merged(was, new, now)
           q == Column(was.quantity, new.quantity, now.quantity)
           f == Column(was.frozen, new.frozen, now.frozen)
           t == Column(was.pin.total, new.pin.total, now.pin.total)
           n == Column(was.pin.quantity, new.pin.quantity, now.pin.quantity)
           pin == [total |-> t, quantity |-> n]
           by == IF now = was THEN new.by
                 ELSE IF new.quantity = was.quantity /\ new.frozen = was.frozen THEN now.by
                 ELSE "several"
<1>1. row = [quantity |-> q, source |-> now.source, frozen |-> f, pin |-> pin, by |-> by]
  BY DEF Merged
<1>2. \A x \in {was, new, now} :
        /\ x # None
        /\ x.quantity \in Int \ {0} /\ x.source \in {"manual", "bank"} /\ x.frozen \in BOOLEAN
        /\ x.pin \in [total : OrNull(Int), quantity : OrNull(Int)] /\ PinFine(x.pin)
        /\ x.by \in {"person", "bank", "several"}
        /\ x.frozen => x.source = "bank"
        /\ x.by = "person" => x.source = "manual" \/ x.frozen
  BY FineRowIs
<1>3. \A x \in {was, new, now} : x.pin = [total |-> x.pin.total, quantity |-> x.pin.quantity]
        /\ x.pin.total \in OrNull(Int) /\ x.pin.quantity \in OrNull(Int)
  BY <1>2
<1>4. \A x \in {was, new, now} : (x.pin.total \in Int /\ x.pin.quantity \in Int \ {0})
                                 \/ (x.pin.total = None /\ x.pin.quantity = None)
  BY <1>2 DEF PinFine, NoPin
<1>5. q \in Int \ {0} /\ f \in BOOLEAN /\ (f => now.source = "bank") BY <1>2 DEF Column
<1>6. by \in {"person", "bank", "several"} /\ (by = "person" => now.source = "manual" \/ f)
  BY <1>2 DEF Column
<1>7. pin \in [total : OrNull(Int), quantity : OrNull(Int)] BY <1>3 DEF Column
<1>8. row # None
  <2>1. row.by \in {"person", "bank", "several"} /\ row.pin = pin /\ row.source = now.source BY <1>1, <1>6
  <2>2. row \in HoldingRow
    <3> HIDE DEF q, f, pin, by, row
    <3> QED BY <1>1, <1>2, <1>5, <1>6, <1>7 DEF HoldingRow
  <2> QED BY <2>2, NoneAssumption
<1>9. ASSUME PinIsWhole(row) PROVE RowFine(row)
  <2>1. t = None <=> n = None
    <3>1. row.pin.total = t /\ row.pin.quantity = n BY <1>1
    <3> QED BY <1>8, <1>9, <3>1 DEF PinIsWhole
  <2>2. PinFine(pin)
    <3>1. CASE t = None BY <2>1, <3>1 DEF PinFine, NoPin
    <3>2. CASE t # None
      <4>1. t \in Int /\ n \in Int \ {0}
        <5>1. n # None BY <2>1, <3>2
        <5> QED BY <1>4, <3>2, <5>1 DEF Column
      <4> QED BY <4>1 DEF PinFine
    <3> QED BY <3>1, <3>2
  <2> HIDE DEF q, f, pin, by, row
  <2> QED BY <1>1, <1>2, <1>5, <1>6, <1>7, <2>2, RowIs
<1>10. row.source = now.source BY <1>1
<1>11. ASSUME new.pin = was.pin PROVE row.pin = now.pin
  <2>1. t = now.pin.total /\ n = now.pin.quantity BY <1>11 DEF Column
  <2>2. now.pin = [total |-> now.pin.total, quantity |-> now.pin.quantity] BY <1>3
  <2> QED BY <1>1, <2>1, <2>2
<1>12. ASSUME now = was PROVE row = new
  <2>1. q = new.quantity /\ f = new.frozen /\ by = new.by BY <1>12 DEF Column
  <2>2. t = new.pin.total /\ n = new.pin.quantity BY <1>12 DEF Column
  <2>3. pin = new.pin BY <1>3, <2>2
  <2>4. new = [quantity |-> new.quantity, source |-> new.source, frozen |-> new.frozen,
               pin |-> new.pin, by |-> new.by]
    BY FineRowIs
  <2> QED BY <1>1, <2>1, <2>3, <2>4, <1>12
<1> HIDE DEF row
<1> QED BY <1>8, <1>9, <1>10, <1>11, <1>12 DEF row

\* What a row is after it was rewritten.
LEMMA RewrittenIsFine ==
  ASSUME NEW was, was = None \/ RowFine(was), NEW new, new = None \/ RowFine(new),
         NEW now, now = None \/ RowFine(now),
         was # None /\ new # None => new.source = was.source,
         was # None /\ now # None => now.source = was.source
  PROVE  LET row == Rewritten(was, new, now) IN
         /\ PinIsWhole(row) => row = None \/ RowFine(row)
         /\ row # None /\ now # None /\ was # None => row.source = now.source
         /\ row = None => now = None \/ new = None
         /\ was # None /\ new # None /\ now = None => row = None
         /\ was # None /\ new # None /\ now # None /\ new.pin = was.pin => row # None /\ row.pin = now.pin
         /\ was # None /\ now = was => row = IF Differs(was, new) THEN new ELSE was
         /\ was = None => row \in {new, now}
         /\ new = None => row \in {None, now}
         /\ ~Differs(was, new) => row = now
<1> DEFINE row == Rewritten(was, new, now)
<1>1. None = None OBVIOUS
<1>2. CASE ~Differs(was, new) \/ was = None \/ new = None \/ now = None
  <2>1. row = IF ~Differs(was, new) THEN now ELSE IF was = None \/ new = None THEN new ELSE None
    BY <1>2 DEF Rewritten
  <2>2. Differs(was, new) <=> (was = None) # (new = None) \/ (was # None /\ new # None /\ Columns(was) # Columns(new))
    BY DEF Differs
  <2> HIDE DEF row
  <2> QED BY <2>1, <2>2, <1>2 DEF row
<1>3. CASE Differs(was, new) /\ was # None /\ new # None /\ now # None
  <2>1. row = Merged(was, new, now) BY <1>3 DEF Rewritten
  <2>2. /\ PinIsWhole(row) => RowFine(row)
        /\ row.source = now.source /\ row # None
        /\ new.pin = was.pin => row.pin = now.pin
        /\ now = was => row = new
    BY <1>3, <2>1, MergedIsFine
  <2> HIDE DEF row
  <2> QED BY <2>2, <1>3 DEF row
<1> QED BY <1>2, <1>3

-----------------------------------------------------------------------------
(* What a request writes                                                   *)

\* A request in flight beside a book: what it read was fine, and what is not yet lost is
\* still there, whoever wrote it since.
RequestFine(b, x) ==
  LET r == x.request IN
  /\ r \in Request(Int)
  /\ r.kind \in RowKinds => x.was = None \/ RowFine(x.was)
  /\ r.kind = "price" => x.was \in Price \cup {None}
  /\ r.kind \in {"clear", "pin", "reset"} => x.was # None
  /\ r.kind = "pin" /\ r.total # None => r.quantity # 0
  /\ ~x.lost /\ r.kind # "list" => r.security \in b.listed
  /\ ~x.lost /\ r.kind \in RowKinds /\ x.was # None =>
       b.rows[Place(r)] # None /\ b.rows[Place(r)].source = x.was.source

\* A request about a row wants a fine one, of the same source as the one it read.
LEMMA WantedIsFine ==
  ASSUME NEW b, NEW x, RequestFine(b, x), x.request.kind \in RowKinds
  PROVE  /\ Wanted(x) = None \/ RowFine(Wanted(x))
         /\ x.was # None /\ Wanted(x) # None => Wanted(x).source = x.was.source
         /\ Wanted(x) = None => x.request.kind = "clear"
<1> DEFINE r == x.request
           was == x.was
           row == Wanted(x)
<1>1. /\ r \in Request(Int) /\ (was = None \/ RowFine(was)) /\ r.kind \in RowKinds
      /\ r.kind \in {"clear", "pin", "reset"} => was # None
      /\ r.kind = "pin" /\ r.total # None => r.quantity # 0
  BY DEF RequestFine
<1>2. r.kind = "hold" => r.quantity \in Int \ {0} BY <1>1, RequestIs
<1>3. r.kind = "pin" => r.quantity \in Int /\ r.total \in Int \cup {None} BY <1>1, RequestIs
<1>4. row = CASE r.kind = "hold"  -> Hold(was, r.quantity)
              [] r.kind = "pin"   -> Pin(was, r)
              [] r.kind = "reset" -> Reset(was)
              [] r.kind = "price" -> [price |-> r.price, source |-> "manual"]
              [] OTHER            -> None
  BY DEF Wanted
<1> HIDE DEF r, was, row
<1>5. ASSUME NEW z, RowFine(z) PROVE z # None BY <1>5, FineRowIs
<1>6. CASE r.kind = "hold" /\ was = None
  <2>1. row = Row(r.quantity, "manual") BY <1>4, <1>6 DEF Hold
  <2>2. RowFine(row) /\ row # None BY <1>2, <1>6, <2>1, NewRowIs
  <2> QED BY <1>6, <2>2 DEF r, was, row
<1>7. CASE r.kind = "hold" /\ was # None
  <2>1. row = Hold(was, r.quantity) BY <1>4, <1>7
  <2>2. RowFine(row) /\ row.source = was.source BY <1>1, <1>2, <1>7, <2>1, HoldIsFine
  <2> QED BY <1>5, <2>2 DEF r, was, row
<1>8. CASE r.kind = "pin"
  <2>1. row = Pin(was, r) BY <1>4, <1>8
  <2>2. RowFine(row) /\ row.source = was.source BY <1>1, <1>3, <1>8, <2>1, PinIsFine
  <2> QED BY <1>5, <2>2 DEF r, was, row
<1>9. CASE r.kind = "reset"
  <2>1. row = Reset(was) BY <1>4, <1>9
  <2>2. RowFine(row) /\ row.source = was.source BY <1>1, <1>9, <2>1, ResetIsFine
  <2> QED BY <1>5, <2>2 DEF r, was, row
<1>10. CASE r.kind = "clear"
  <2>1. row = None BY <1>4, <1>10
  <2> QED BY <1>10, <2>1 DEF r, was, row
<1> QED BY <1>1, <1>6, <1>7, <1>8, <1>9, <1>10 DEF RowKinds, r

\* A price over another is a price.
LEMMA RequotedIs ==
  ASSUME NEW was \in Price \cup {None}, NEW new, new = was \/ new \in Price, NEW now \in Price \cup {None}
  PROVE  /\ Requoted(was, new, now) \in Price \cup {None}
         /\ now = was => Requoted(was, new, now) = new
<1>1. CASE new = was \/ was = None \/ now = None BY <1>1 DEF Requoted
<1>2. CASE new # was /\ was # None /\ now # None
  <2> DEFINE p == Column(was.price, new.price, now.price)
             s == Column(was.source, new.source, now.source)
  <2>1. Requoted(was, new, now) = [price |-> p, source |-> s] BY <1>2 DEF Requoted
  <2>2. p \in Nat /\ s \in {"manual", "auto"} BY <1>2 DEF Column, Price
  <2>3. now = was => p = new.price /\ s = new.source BY DEF Column
  <2>4. new = [price |-> new.price, source |-> new.source] BY <1>2 DEF Price
  <2> HIDE DEF p, s
  <2> QED BY <2>1, <2>2, <2>3, <2>4 DEF Price
<1> QED BY <1>1, <1>2

\* What a request leaves of the one row it is about.
LEMMA RowRequestIs ==
  ASSUME NEW b, BookFine(b), NEW x, RequestFine(b, x), x.request.kind \in RowKinds, ~x.lost, ~Fails(b, x)
  PROVE  LET now == b.rows[Place(x.request)]
             row == Rewritten(x.was, Wanted(x), now)
         IN /\ row = None \/ RowFine(row)
            /\ row # None /\ now # None => row.source = now.source
<1> DEFINE r == x.request
           p == Place(r)
           now == b.rows[p]
           new == Wanted(x)
           row == Rewritten(x.was, new, now)
<1>1. r \in Request(Int) /\ (x.was = None \/ RowFine(x.was)) BY DEF RequestFine
<1>2. p \in Positions BY <1>1, RequestIs DEF PlaceKinds
<1>3. now = None \/ RowFine(now) BY <1>2 DEF BookFine
<1>4. /\ new = None \/ RowFine(new)
      /\ x.was # None /\ new # None => new.source = x.was.source
      /\ new = None => r.kind = "clear"
  BY WantedIsFine
<1>5. x.was # None /\ now # None => now.source = x.was.source BY DEF RequestFine
<1>6. x.was = None => r.kind = "hold" BY DEF RequestFine, RowKinds
<1>7. r.kind \notin {"price"} BY DEF RowKinds
<1>8. Sends(x) <=> Differs(x.was, new) BY <1>7 DEF Sends
<1>9. Differs(x.was, new) => PinIsWhole(row) /\ ~(x.was = None /\ now # None)
  BY <1>6, <1>8 DEF Fails, RowKinds
<1>10. x.was = None => Differs(x.was, new) BY <1>4, <1>6 DEF Differs
<1> HIDE DEF new, now, p, r
<1>11. /\ PinIsWhole(row) => row = None \/ RowFine(row)
       /\ row # None /\ now # None /\ x.was # None => row.source = now.source
       /\ ~Differs(x.was, new) => row = now
  BY <1>1, <1>3, <1>4, <1>5, RewrittenIsFine
<1> HIDE DEF row
<1>12. row = None \/ RowFine(row) BY <1>3, <1>9, <1>11
<1>13. row # None /\ now # None => row.source = now.source BY <1>9, <1>10, <1>11
<1> QED BY <1>12, <1>13 DEF row, now, new, p, r

\* What a request may change of a book.
Touches(b, c, r) ==
  /\ r.kind \in PlaceKinds =>
       /\ c.listed = b.listed /\ c.prices = b.prices
       /\ \A p \in Positions : p # Place(r) => c.rows[p] = b.rows[p] /\ c.trades[p] = b.trades[p]
  /\ r.kind = "price" =>
       /\ c.listed = b.listed /\ c.rows = b.rows /\ c.trades = b.trades
       /\ \A q \in Securities : q # r.security => c.prices[q] = b.prices[q]
  /\ r.kind = "drop" => c = b \/ c = Drop(b, r.security)
  /\ r.kind = "list" =>
       /\ c.listed = b.listed \cup {r.security}
       /\ c.rows = b.rows /\ c.trades = b.trades /\ c.prices = b.prices

\* What each request leaves: a fine book, and elsewhere what was there.
LEMMA EffectIs ==
  ASSUME NEW b, BookFine(b), NEW x, RequestFine(b, x)
  PROVE  /\ BookFine(Effect(b, x)) /\ Effect(b, x).rated = b.rated
         /\ SourcesStay(b, Effect(b, x))
         /\ Effect(b, x) = b \/ Touches(b, Effect(b, x), x.request)
<1> DEFINE r == x.request
           p == Place(r)
           c == Effect(b, x)
<1>1. b \in Book BY DEF BookFine
<1>2. r \in Request(Int) BY DEF RequestFine
<1>3. r.kind \in PlaceKinds => p \in Positions /\ p[2] = r.security BY <1>2, RequestIs
<1>4. CASE x.lost \/ Fails(b, x)
  <2>1. c = b BY <1>4 DEF Effect
  <2>2. SourcesStay(b, b) BY DEF SourcesStay
  <2> QED BY <2>1, <2>2
<1>5. ASSUME ~x.lost, ~Fails(b, x), r.kind \in RowKinds
      PROVE  BookFine(c) /\ c.rated = b.rated /\ SourcesStay(b, c) /\ Touches(b, c, r)
  <2> DEFINE row == Rewritten(x.was, Wanted(x), b.rows[p])
  <2>1. /\ row = None \/ RowFine(row)
        /\ row # None /\ b.rows[p] # None => row.source = b.rows[p].source
    BY <1>5, RowRequestIs
  <2>2. p \in Positions /\ p[2] \in b.listed BY <1>3, <1>5 DEF PlaceKinds, RowKinds, RequestFine
  <2>3. c = WithRow(b, p, row)
    <3>1. r.kind \notin {"price", "trade", "amend", "erase", "drop", "list"} BY <1>5 DEF RowKinds
    <3> QED BY <1>5, <3>1 DEF Effect, WithRow
  <2> HIDE DEF row, c, p
  <2>4. row \in HoldingRow \cup {None} BY <2>1 DEF RowFine
  <2>5. /\ c \in Book /\ c.listed = b.listed /\ c.trades = b.trades /\ c.prices = b.prices
        /\ c.rated = b.rated
        /\ \A q \in Positions : c.rows[q] = IF q = p THEN row ELSE b.rows[q]
    BY <1>1, <2>2, <2>3, <2>4, SetRowIs
  <2>6. BookFine(c) BY <2>1, <2>2, <2>5 DEF BookFine
  <2>7. SourcesStay(b, c) BY <2>1, <2>5 DEF SourcesStay
  <2>8. Touches(b, c, r)
    <3>1. r.kind \notin {"price", "drop", "list"} BY <1>5 DEF RowKinds
    <3> QED BY <2>5, <3>1 DEF Touches, p
  <2> QED BY <2>5, <2>6, <2>7, <2>8
<1>6. ASSUME ~x.lost, ~Fails(b, x), r.kind \in TradeKinds
      PROVE  BookFine(c) /\ c.rated = b.rated /\ SourcesStay(b, c) /\ Touches(b, c, r)
  <2> DEFINE now == b.trades[p]
             ts == CASE r.kind = "trade" -> now \cup {r.quantity}
                     [] r.kind = "amend" -> (now \ {r.quantity}) \cup {r.to}
                     [] OTHER -> now \ {r.quantity}
  <2>1. p \in Positions /\ p[2] \in b.listed BY <1>3, <1>6 DEF PlaceKinds, TradeKinds, RequestFine
  <2>2. now \in SUBSET Int /\ IsFiniteSet(now) BY <1>1, <2>1 DEF Book, BookFine
  <2>3. r.quantity \in Int /\ (r.kind = "amend" => r.to \in Int) BY <1>2, <1>6, RequestIs
  <2>4. c = WithTrades(b, p, ts)
    <3>1. r.kind \notin RowKinds \cup {"price"} BY <1>6 DEF RowKinds, TradeKinds
    <3>2. CASE r.kind = "trade"
      <4>1. c = [b EXCEPT !.trades[p] = now \cup {r.quantity}] BY <1>6, <3>1, <3>2 DEF Effect
      <4>2. ts = now \cup {r.quantity} BY <3>2
      <4> HIDE DEF c, ts
      <4> QED BY <4>1, <4>2 DEF WithTrades
    <3>3. CASE r.kind = "amend"
      <4>1. c = [b EXCEPT !.trades[p] = (now \ {r.quantity}) \cup {r.to}] BY <1>6, <3>1, <3>3 DEF Effect
      <4>2. ts = (now \ {r.quantity}) \cup {r.to} BY <3>3
      <4> HIDE DEF c, ts
      <4> QED BY <4>1, <4>2 DEF WithTrades
    <3>4. CASE r.kind = "erase"
      <4>1. c = [b EXCEPT !.trades[p] = now \ {r.quantity}] BY <1>6, <3>1, <3>4 DEF Effect
      <4>2. ts = now \ {r.quantity} BY <3>4
      <4> HIDE DEF c, ts
      <4> QED BY <4>1, <4>2 DEF WithTrades
    <3> QED BY <1>6, <3>2, <3>3, <3>4 DEF TradeKinds
  <2>5. ts \in SUBSET Int /\ IsFiniteSet(ts)
    <3>1. /\ IsFiniteSet(now \cup {r.quantity}) /\ IsFiniteSet(now \ {r.quantity})
      BY <2>2, FS_AddElement, FS_RemoveElement
    <3>2. IsFiniteSet((now \ {r.quantity}) \cup {r.to}) BY <3>1, FS_AddElement
    <3> HIDE DEF now
    <3>3. CASE r.kind = "trade" BY <2>2, <2>3, <3>1, <3>3
    <3>4. CASE r.kind = "amend" BY <2>2, <2>3, <3>2, <3>4
    <3>5. CASE r.kind = "erase" BY <2>2, <3>1, <3>5
    <3> QED BY <1>6, <3>3, <3>4, <3>5 DEF TradeKinds
  <2> HIDE DEF ts, c, p
  <2>6. /\ c \in Book /\ c.listed = b.listed /\ c.rows = b.rows /\ c.prices = b.prices
        /\ c.rated = b.rated
        /\ \A q \in Positions : c.trades[q] = IF q = p THEN ts ELSE b.trades[q]
    BY <1>1, <2>1, <2>4, <2>5, SetTradesIs
  <2>7. BookFine(c) BY <2>1, <2>5, <2>6 DEF BookFine
  <2>8. SourcesStay(b, c) BY <2>6 DEF SourcesStay
  <2>9. Touches(b, c, r)
    <3>1. r.kind \notin {"price", "drop", "list"} BY <1>6 DEF TradeKinds
    <3> QED BY <2>6, <3>1 DEF Touches, p
  <2> QED BY <2>6, <2>7, <2>8, <2>9
<1>7. ASSUME ~x.lost, ~Fails(b, x), r.kind = "price"
      PROVE  BookFine(c) /\ c.rated = b.rated /\ SourcesStay(b, c) /\ Touches(b, c, r)
  <2> DEFINE s == r.security
             d == r.day
             now == b.prices[s][d]
             new == [price |-> r.price, source |-> "manual"]
             entry == Requoted(x.was, new, now)
  <2>1. s \in Securities /\ d \in Days /\ r.price \in Nat BY <1>2, <1>7, RequestIs
  <2>2. now \in Price \cup {None} BY <1>1, <2>1 DEF Book
  <2>3. new \in Price BY <2>1 DEF Price
  <2>4. Wanted(x) = new BY <1>7 DEF Wanted
  <2>5. c = WithPrice(b, s, d, entry) BY <1>7, <2>4 DEF Effect, RowKinds, WithPrice
  <2>6. x.was \in Price \cup {None} BY <1>7 DEF RequestFine
  <2> HIDE DEF now, new, c, s, d
  <2>7. entry \in Price \cup {None} BY <2>2, <2>3, <2>6, RequotedIs
  <2> HIDE DEF entry
  <2>8. /\ c \in Book /\ c.listed = b.listed /\ c.rows = b.rows /\ c.trades = b.trades
        /\ c.rated = b.rated
        /\ \A q \in Securities : q # s => c.prices[q] = b.prices[q]
    BY <1>1, <2>1, <2>5, <2>7, SetPriceIs
  <2>9. BookFine(c) BY <2>8 DEF BookFine
  <2>10. SourcesStay(b, c) BY <2>8 DEF SourcesStay
  <2>11. Touches(b, c, r) BY <1>7, <2>8 DEF Touches, s, PlaceKinds, RowKinds, TradeKinds
  <2> QED BY <2>8, <2>9, <2>10, <2>11
<1>8. ASSUME ~x.lost, ~Fails(b, x), r.kind = "drop"
      PROVE  BookFine(c) /\ c.rated = b.rated /\ SourcesStay(b, c) /\ Touches(b, c, r)
  <2>1. r.security \in Securities BY <1>2, RequestIs
  <2>2. c = Drop(b, r.security) BY <1>8 DEF Effect, RowKinds
  <2> HIDE DEF c
  <2>3. /\ c \in Book /\ c.listed = b.listed \ {r.security} /\ c.rated = b.rated
        /\ \A q \in Positions :
             /\ q[2] = r.security => c.rows[q] = None /\ c.trades[q] = {}
             /\ q[2] # r.security => c.rows[q] = b.rows[q] /\ c.trades[q] = b.trades[q]
    BY <1>1, <2>1, <2>2, DropIs
  <2>4. BookFine(c)
    <3>1. IsFiniteSet({}) BY FS_EmptySet
    <3> QED BY <2>3, <3>1 DEF BookFine
  <2>5. SourcesStay(b, c) BY <2>3 DEF SourcesStay
  <2>6. Touches(b, c, r) BY <1>8, <2>2 DEF Touches, PlaceKinds, RowKinds, TradeKinds
  <2> QED BY <2>3, <2>4, <2>5, <2>6
<1>9. ASSUME ~x.lost, ~Fails(b, x), r.kind = "list"
      PROVE  BookFine(c) /\ c.rated = b.rated /\ SourcesStay(b, c) /\ Touches(b, c, r)
  <2> DEFINE listed == b.listed \cup {r.security}
  <2>1. listed \in SUBSET Securities BY <1>1, <1>2, RequestIs DEF Book
  <2>2. c = [b EXCEPT !.listed = listed] BY <1>9 DEF Effect, RowKinds
  <2>3. b.listed \subseteq listed OBVIOUS
  <2> HIDE DEF listed, c
  <2>4. /\ c \in Book /\ c.listed = listed /\ c.rows = b.rows /\ c.trades = b.trades
        /\ c.prices = b.prices /\ c.rated = b.rated
    BY <1>1, <2>1, <2>2 DEF Book
  <2>5. BookFine(c) BY <2>3, <2>4 DEF BookFine
  <2>6. SourcesStay(b, c) BY <2>4 DEF SourcesStay
  <2>7. Touches(b, c, r) BY <1>9, <2>4 DEF Touches, listed, PlaceKinds, RowKinds, TradeKinds
  <2> QED BY <2>4, <2>5, <2>6, <2>7
<1>10. r.kind \in RowKinds \cup TradeKinds \cup {"price", "drop", "list"} BY <1>2, RequestIs DEF PlaceKinds
<1> HIDE DEF c, r
<1> QED BY <1>4, <1>5, <1>6, <1>7, <1>8, <1>9, <1>10 DEF c, r

\* What became of a book leaves each request in flight what it read, or loses it.
LEMMA StaysFine ==
  ASSUME NEW b, NEW c, SourcesStay(b, c), NEW x, RequestFine(b, x),
         NEW y, y.request = x.request, y.was = x.was, y.lost <=> x.lost \/ Gone(c, x)
  PROVE  RequestFine(c, y)
<1> DEFINE r == x.request
<1>1. r \in Request(Int) BY DEF RequestFine
<1>2. ~y.lost /\ r.kind # "list" => r.security \in c.listed BY DEF Gone
<1>3. ASSUME ~y.lost, r.kind \in RowKinds, x.was # None
      PROVE  c.rows[Place(r)] # None /\ c.rows[Place(r)].source = x.was.source
  <2>1. Place(r) \in Positions BY <1>1, <1>3, RequestIs DEF PlaceKinds
  <2>2. r.kind # "list" BY <1>3 DEF RowKinds
  <2>3. c.rows[Place(r)] # None BY <1>3, <2>2 DEF Gone
  <2>4. b.rows[Place(r)] # None /\ b.rows[Place(r)].source = x.was.source BY <1>3 DEF RequestFine
  <2> QED BY <2>1, <2>3, <2>4 DEF SourcesStay
<1> QED BY <1>2, <1>3 DEF RequestFine

-----------------------------------------------------------------------------
(* Valuation                                                               *)

\* A position has a quantity, of its trades or of its row.
LEMMA QuantityInt ==
  ASSUME NEW b, BookFine(b), NEW p \in Positions PROVE Quantity(b, p) \in Int
<1>1. b.trades[p] \in SUBSET Int /\ IsFiniteSet(b.trades[p]) BY DEF BookFine, Book
<1>2. b.rows[p] # None => b.rows[p].quantity \in Int BY FineRowIs DEF BookFine
<1> DEFINE S == b.trades[p]
           f == [q \in S |-> q]
<1>3. f \in [S -> Int] BY <1>1
<1>4. Total(f) \in Int
  <2> HIDE DEF S, f
  <2>1. IsFiniteSet(S) BY <1>1 DEF S
  <2> QED BY <1>3, <2>1, TotalInt
<1>5. Quantity(b, p) = IF S # {} THEN Total(f) ELSE IF b.rows[p] # None THEN b.rows[p].quantity ELSE 0
  BY DEF Quantity
<1> HIDE DEF f, S
<1> QED BY <1>2, <1>4, <1>5

\* A quote is some day's price.
LEMMA QuoteInt ==
  ASSUME NEW b \in Book, NEW s \in Securities, NEW on \in Days, Quote(b, s, on) # None
  PROVE  Quote(b, s, on) \in Nat
<1> DEFINE priced == {d \in Days : d <= on /\ b.prices[s][d] # None}
<1>1. priced # {} /\ Quote(b, s, on) = b.prices[s][Max(priced)].price BY DEF Quote
<1>2. LastDay \in Nat /\ priced \in SUBSET (0..LastDay) BY SetsAssumption DEF Days
<1>3. \A d \in priced : b.prices[s][d] \in Price
  <2>1. b.prices[s] \in [Days -> Price \cup {None}] BY DEF Book
  <2> QED BY <2>1
<1> HIDE DEF priced
<1>4. \E x \in priced : \A y \in priced : x >= y BY <1>1, <1>2, GreatestOne
<1>5. Max(priced) \in priced BY <1>4 DEF Max
<1> QED BY <1>1, <1>3, <1>5 DEF Price

\* A value is a pinned total, or a quantity at a quote.
LEMMA ValueInt ==
  ASSUME NEW b, BookFine(b), NEW p \in Positions, NEW on \in Days, NativeValue(b, p, on) # None
  PROVE  NativeValue(b, p, on) \in Int
<1> DEFINE row == b.rows[p]
           qty == Quantity(b, p)
<1>1. b \in Book /\ p[2] \in Securities BY DEF BookFine, Positions
<1>2. qty \in Int BY QuantityInt
<1> HIDE DEF qty
<1>3. CASE row # None /\ row.pin # NoPin
  <2>1. row.pin.total \in Int /\ row.pin.quantity \in Int \ {0} BY <1>3 DEF BookFine, RowFine, PinFine
  <2>2. NativeValue(b, p, on) = (Size(row.pin.total) * qty) \div Size(row.pin.quantity)
    BY <1>3 DEF NativeValue, qty
  <2> DEFINE n == row.pin.total
             d == row.pin.quantity
  <2>3. n \in Int /\ d \in Int /\ d # 0 BY <2>1
  <2> HIDE DEF n, d
  <2>4. Size(n) \in Int /\ Size(d) \in Nat \ {0} BY <2>3 DEF Size
  <2>5. (Size(n) * qty) \div Size(d) \in Int BY <1>2, <2>4
  <2> QED BY <2>2, <2>5 DEF n, d
<1>4. CASE ~(row # None /\ row.pin # NoPin)
  <2>1. NativeValue(b, p, on) = IF Quote(b, p[2], on) = None THEN None ELSE qty * Quote(b, p[2], on)
    BY <1>4 DEF NativeValue, qty
  <2>2. Quote(b, p[2], on) \in Nat BY <1>1, <2>1, QuoteInt
  <2> QED BY <1>2, <2>1, <2>2
<1> QED BY <1>3, <1>4

\* An account is worth the sum of the values there are.
LEMMA WorthInt ==
  ASSUME NEW b, BookFine(b), NEW a \in Accounts, NEW on \in Days
  PROVE  Worth(b, a, on) \in Int
<1> DEFINE S == {q \in Held(b, a) : Valued(b, q, on, CurrencyOf[a])}
           f == [p \in S |-> NativeValue(b, p, on)]
<1>1. Positions = Accounts \X Securities BY DEF Positions
<1>2. IsFiniteSet(Positions) BY <1>1, SetsAssumption, FS_Product
<1>3. S \in SUBSET Positions BY DEF Held
<1>4. IsFiniteSet(S)
  <2> HIDE DEF S
  <2> QED BY <1>2, <1>3, FS_Subset
<1>5. \A p \in S : NativeValue(b, p, on) \in Int BY <1>3, ValueInt DEF Valued
<1>6. f \in [S -> Int] BY <1>5
<1>7. Worth(b, a, on) = Total(f) BY DEF Worth
<1> HIDE DEF S, f
<1> QED BY <1>4, <1>6, <1>7, TotalInt

\* What an account is worth, and whether it is whole, are its own held positions' rows, trades
\* and prices.
LEMMA WorthDepends ==
  ASSUME NEW b, NEW c, NEW a, NEW on, c.rated = b.rated,
         \A p \in Positions : p[1] = a =>
           /\ Quantity(c, p) = Quantity(b, p)
           /\ Quantity(b, p) # 0 => c.rows[p] = b.rows[p] /\ c.prices[p[2]] = b.prices[p[2]]
  PROVE  Worth(c, a, on) = Worth(b, a, on)
<1>1. Held(c, a) = Held(b, a) BY DEF Held
<1>2. \A p \in Held(b, a) : /\ p \in Positions /\ Quantity(c, p) = Quantity(b, p)
                            /\ c.rows[p] = b.rows[p] /\ c.prices[p[2]] = b.prices[p[2]]
  BY DEF Held
<1>3. \A p \in Held(b, a) : NativeValue(c, p, on) = NativeValue(b, p, on)
  <2> SUFFICES ASSUME NEW p \in Held(b, a) PROVE NativeValue(c, p, on) = NativeValue(b, p, on)
    OBVIOUS
  <2>1. p \in Positions /\ Quantity(c, p) = Quantity(b, p) /\ c.rows[p] = b.rows[p]
        /\ c.prices[p[2]] = b.prices[p[2]]
    BY <1>2
  <2>2. Quote(c, p[2], on) = Quote(b, p[2], on) BY <2>1 DEF Quote
  <2> QED BY <2>1, <2>2 DEF NativeValue
<1>4. \A p \in Held(b, a) : Valued(c, p, on, CurrencyOf[a]) <=> Valued(b, p, on, CurrencyOf[a])
  BY <1>3 DEF Valued, Converts
<1> DEFINE S == {q \in Held(b, a) : Valued(b, q, on, CurrencyOf[a])}
           R == {q \in Held(c, a) : Valued(c, q, on, CurrencyOf[a])}
           f == [p \in S |-> NativeValue(b, p, on)]
           g == [p \in R |-> NativeValue(c, p, on)]
<1>5. R = S BY <1>1, <1>4
<1>6. \A p \in S : NativeValue(c, p, on) = NativeValue(b, p, on) BY <1>3
<1>7. g = f
  <2> HIDE DEF S, R
  <2> QED BY <1>5, <1>6
<1>8. Worth(c, a, on) = Total(g) /\ Worth(b, a, on) = Total(f) BY DEF Worth
<1> QED BY <1>7, <1>8

\* An account that a request does not affect is worth what it was.
LEMMA UnaffectedKeepsItsWorth ==
  ASSUME NEW b, BookFine(b), NEW x, RequestFine(b, x),
         NEW a \in Accounts, a \notin Affected(b, x.request), NEW on
  PROVE  Worth(Effect(b, x), a, on) = Worth(b, a, on)
<1> DEFINE r == x.request
           c == Effect(b, x)
<1>1. b \in Book BY DEF BookFine
<1>2. c.rated = b.rated /\ (c = b \/ Touches(b, c, r)) BY EffectIs
<1>3. r \in Request(Int) BY DEF RequestFine
<1>4. r.security \in Securities /\ r.kind \in PlaceKinds \cup {"price", "drop", "list"}
      /\ (r.kind \in PlaceKinds => Place(r)[1] = r.account)
  BY <1>3, RequestIs
<1>5. /\ r.kind \in {"price", "drop"} => b.rows[<<a, r.security>>] = None /\ b.trades[<<a, r.security>>] = {}
      /\ r.kind \in PlaceKinds => r.account # a
  BY DEF Affected, PlaceKinds, RowKinds, TradeKinds
<1> HIDE DEF c, r
<1>6. CASE c = b BY <1>6 DEF c
<1>7. CASE Touches(b, c, r)
  <2>1. ASSUME NEW p \in Positions, p[1] = a
        PROVE  /\ Quantity(c, p) = Quantity(b, p)
               /\ Quantity(b, p) # 0 => c.rows[p] = b.rows[p] /\ c.prices[p[2]] = b.prices[p[2]]
    <3>1. p = <<a, p[2]>> /\ p[2] \in Securities BY <2>1 DEF Positions
    <3>2. CASE r.kind \in {"price", "drop"} /\ p[2] = r.security
      <4>1. b.rows[p] = None /\ b.trades[p] = {} BY <1>5, <3>1, <3>2
      <4>2. c.rows[p] = None /\ c.trades[p] = {}
        <5>1. CASE r.kind = "price" BY <1>7, <4>1, <5>1 DEF Touches
        <5>2. CASE r.kind = "drop"
          <6>1. c = b \/ c = Drop(b, r.security) BY <1>7, <5>2 DEF Touches
          <6> QED BY <1>1, <1>4, <3>2, <4>1, <6>1, DropIs
        <5> QED BY <3>2, <5>1, <5>2
      <4> QED BY <4>1, <4>2 DEF Quantity
    <3>3. CASE ~(r.kind \in {"price", "drop"} /\ p[2] = r.security)
      <4>1. c.rows[p] = b.rows[p] /\ c.trades[p] = b.trades[p] /\ c.prices[p[2]] = b.prices[p[2]]
        <5>1. CASE r.kind \in PlaceKinds
          <6>1. p # Place(r) BY <1>4, <1>5, <2>1, <5>1
          <6> QED BY <1>7, <5>1, <6>1 DEF Touches
        <5>2. CASE r.kind = "price" BY <1>7, <3>1, <3>3, <5>2 DEF Touches
        <5>3. CASE r.kind = "drop"
          <6>1. c = b \/ c = Drop(b, r.security) BY <1>7, <5>3 DEF Touches
          <6>2. p[2] # r.security BY <3>3, <5>3
          <6>3. CASE c = b BY <6>3
          <6>4. CASE c = Drop(b, r.security) BY <1>1, <1>4, <3>1, <6>2, <6>4, DropIs
          <6> QED BY <6>1, <6>3, <6>4
        <5>4. CASE r.kind = "list" BY <1>7, <5>4 DEF Touches
        <5> QED BY <1>4, <5>1, <5>2, <5>3, <5>4
      <4> QED BY <4>1 DEF Quantity
    <3> QED BY <3>2, <3>3
  <2> QED BY <1>2, <2>1, WorthDepends DEF c
<1> QED BY <1>2, <1>6, <1>7

-----------------------------------------------------------------------------
(* The bank's list                                                         *)

\* A line of the bank's list names a security, a quantity other than zero and a price.
LEMMA ListIs ==
  ASSUME NEW list \in BankLists
  PROVE  /\ DOMAIN list \subseteq Securities
         /\ \A s \in DOMAIN list : list[s].quantity \in Int \ {0} /\ list[s].price \in Nat
<1>1. DOMAIN list \subseteq Securities /\ list \in [DOMAIN list -> Line] BY BankListsAssumption
<1> QED BY <1>1 DEF Line

\* A sync in flight beside a book: the rows it read were fine, and those that are not yet
\* lost are still there, whoever wrote them since.
MirrorFine(b, sync) ==
  LET m == sync.read IN
  /\ m.account \in Accounts /\ m.list \in BankLists /\ m.on \in Days
  /\ \A s \in Securities :
       /\ m.rows[s] = None \/ RowFine(m.rows[s])
       /\ s \notin sync.lost /\ m.rows[s] # None =>
            /\ b.rows[<<m.account, s>>] # None
            /\ b.rows[<<m.account, s>>].source = m.rows[s].source
  /\ \A s \in DOMAIN m.list : m.prices[s] \in Price \cup {None}

\* The row a sync makes of the one it read.
LEMMA LandedIs ==
  ASSUME NEW m, m.list \in BankLists, NEW s \in Securities, m.rows[s] = None \/ RowFine(m.rows[s])
  PROVE  LET was == m.rows[s]
             new == Landed(m, s)
         IN /\ new = None \/ RowFine(new)
            /\ was # None /\ new # None =>
                 new.source = was.source /\ new.pin = was.pin /\ new.frozen = was.frozen
            /\ was = None /\ new # None => s \in Lines(m)
            /\ was # None /\ (was.source = "manual" \/ was.frozen) => new = was
            /\ was # None /\ s \in DOMAIN m.list \ m.traded => new # None
            /\ was # None /\ was.source = "bank" /\ ~was.frozen /\ s \notin Lines(m) => new = None
            /\ s \in Lines(m) /\ (was # None => ~was.frozen)
                 => new # None /\ new.source = "bank" /\ ~new.frozen /\ new.quantity = m.list[s].quantity
<1> DEFINE was == m.rows[s]
           new == Landed(m, s)
           q == m.list[s].quantity
           kept == TheirsToKeep(m, s)
<1>1. new = IF s \in Removed(m) THEN None
            ELSE IF s \notin Lines(m) \/ (was # None /\ was.frozen) THEN was
            ELSE IF was = None THEN Row(q, "bank")
            ELSE [was EXCEPT !.quantity = q, !.by = "bank"]
  BY DEF Landed
<1>2. s \in Removed(m) <=> was # None /\ was.source = "bank" /\ ~was.frozen /\ s \notin Lines(m)
  BY DEF Removed
<1>3. s \in Lines(m) <=> s \in DOMAIN m.list /\ s \notin m.traded /\ ~(was # None /\ was.source = "manual")
  BY DEF Lines, TheirsToKeep
<1>4. s \in Lines(m) => q \in Int \ {0} BY <1>3, ListIs
<1>5. was # None => RowFine(was) /\ was.source \in {"manual", "bank"} /\ (was.frozen => was.source = "bank")
  BY FineRowIs
<1> HIDE DEF new, q
<1>6. CASE s \in Lines(m) /\ was = None
  <2>1. new = Row(q, "bank") BY <1>1, <1>2, <1>6
  <2>2. RowFine(new) /\ new # None /\ new.quantity = q /\ new.source = "bank" /\ new.frozen = FALSE
    BY <1>4, <1>6, <2>1, NewRowIs
  <2> QED BY <1>6, <2>2 DEF new, q
<1>7. CASE s \in Lines(m) /\ was # None /\ ~was.frozen
  <2> HIDE DEF was
  <2>1. new = [was EXCEPT !.quantity = q, !.by = "bank"] BY <1>1, <1>2, <1>7
  <2>2. /\ was.source \in {"manual", "bank"} /\ was.frozen \in BOOLEAN
        /\ was.pin \in [total : OrNull(Int), quantity : OrNull(Int)] /\ PinFine(was.pin)
        /\ was.frozen => was.source = "bank"
        /\ was = [quantity |-> was.quantity, source |-> was.source, frozen |-> was.frozen,
                  pin |-> was.pin, by |-> was.by]
    BY <1>5, <1>7, FineRowIs
  <2>3. new = [quantity |-> q, source |-> was.source, frozen |-> was.frozen, pin |-> was.pin, by |-> "bank"]
    <3> DEFINE one == [was EXCEPT !.quantity = q]
    <3>1. new = [one EXCEPT !.by = "bank"] BY <2>1
    <3>2. one = [quantity |-> q, source |-> was.source, frozen |-> was.frozen, pin |-> was.pin, by |-> was.by]
      BY <2>2
    <3> HIDE DEF one
    <3> QED BY <3>1, <3>2
  <2>4. /\ RowFine(new) /\ new # None
        /\ new.quantity = q /\ new.source = was.source /\ new.frozen = was.frozen /\ new.pin = was.pin
    BY <1>4, <1>7, <2>2, <2>3, RowIs
  <2>5. was.source = "bank" BY <1>3, <1>5, <1>7 DEF was
  <2> QED BY <1>7, <2>4, <2>5 DEF new, was, q
<1>8. CASE s \in Removed(m)
  <2>1. new = None BY <1>1, <1>8
  <2>2. s \notin Lines(m) /\ was # None /\ was.source = "bank" /\ ~was.frozen BY <1>2, <1>8
  <2>3. s \notin DOMAIN m.list \ m.traded BY <1>3, <2>2
  <2> QED BY <2>1, <2>2, <2>3 DEF new
<1>9. CASE s \notin Removed(m) /\ (s \notin Lines(m) \/ (was # None /\ was.frozen))
  <2>1. new = was BY <1>1, <1>9
  <2> HIDE DEF was
  <2>2. new = None \/ RowFine(new) BY <1>5, <2>1
  <2>3. ~(was # None /\ was.source = "bank" /\ ~was.frozen /\ s \notin Lines(m)) BY <1>2, <1>9 DEF was
  <2>4. ~(s \in Lines(m) /\ (was # None => ~was.frozen)) BY <1>9 DEF was
  <2> QED BY <2>1, <2>2, <2>3, <2>4 DEF new, was
<1> QED BY <1>6, <1>7, <1>8, <1>9

\* The price a sync makes of the one it read.
LEMMA PricedIs ==
  ASSUME NEW m, m.list \in BankLists, NEW s \in DOMAIN m.list
  PROVE  Priced(m, s) = m.prices[s] \/ Priced(m, s) \in Price
<1>1. m.list[s].price \in Nat BY ListIs
<1> QED BY <1>1 DEF Priced, Price

\* A row the sync is about, after it.
LEMMA RowAfterSync ==
  ASSUME NEW b, BookFine(b), NEW sync, MirrorFine(b, sync), NEW s \in Securities, s \notin sync.lost
  PROVE  LET m   == sync.read
             now == b.rows[<<m.account, s>>]
             row == Rewritten(m.rows[s], Landed(m, s), now)
         IN /\ row = None \/ RowFine(row)
            /\ row # None => now # None \/ s \in DOMAIN m.list
            /\ row # None /\ now # None /\ m.rows[s] # None => row.source = now.source
            /\ row # None /\ now # None /\ m.rows[s] = None /\ row # now => Landed(m, s) # None /\ s \in Rewrites(m)
            /\ s \in DOMAIN m.list \ m.traded /\ m.rows[s] # None => row # None /\ row.pin = now.pin
            /\ now # None /\ now = m.rows[s] /\ now.by = "person" => row = now
<1> DEFINE m == sync.read
           was == m.rows[s]
           new == Landed(m, s)
           now == b.rows[<<m.account, s>>]
           row == Rewritten(was, new, now)
<1>1. m.list \in BankLists /\ (was = None \/ RowFine(was))
      /\ (was # None => now # None /\ now.source = was.source)
  BY DEF MirrorFine
<1>2. now = None \/ RowFine(now)
  <2>1. <<m.account, s>> \in Positions BY DEF MirrorFine, Positions
  <2> QED BY <2>1 DEF BookFine
<1>3. /\ new = None \/ RowFine(new)
      /\ was # None /\ new # None => new.source = was.source /\ new.pin = was.pin
      /\ was = None /\ new # None => s \in Lines(m)
      /\ was # None /\ (was.source = "manual" \/ was.frozen) => new = was
      /\ was # None /\ s \in DOMAIN m.list \ m.traded => new # None
  BY <1>1, LandedIs
<1>4. s \in Rewrites(m) <=> Differs(was, new) BY DEF Rewrites
<1>5. s \in Lines(m) => s \in DOMAIN m.list BY DEF Lines
<1>6. now # None => PinFine(now.pin) /\ (now.by = "person" => now.source = "manual" \/ now.frozen)
  BY <1>2 DEF RowFine
<1> HIDE DEF was, new, now
<1>7. /\ PinIsWhole(row) => row = None \/ RowFine(row)
      /\ row # None /\ now # None /\ was # None => row.source = now.source
      /\ was # None /\ new # None /\ now # None /\ new.pin = was.pin => row # None /\ row.pin = now.pin
      /\ was = None => row \in {new, now}
      /\ new = None => row \in {None, now}
      /\ ~Differs(was, new) => row = now
  BY <1>1, <1>2, <1>3, RewrittenIsFine
<1>8. was = new => ~Differs(was, new) BY DEF Differs
<1> HIDE DEF row
<1>9. row = None \/ RowFine(row)
  <2>1. CASE was = None \/ new = None BY <1>2, <1>3, <1>7, <2>1
  <2>2. CASE was # None /\ new # None
    <3>1. row.pin = now.pin /\ now # None BY <1>1, <1>3, <1>7, <2>2
    <3>2. PinIsWhole(row) BY <1>6, <3>1, NoneAssumption DEF PinIsWhole, PinFine, NoPin
    <3> QED BY <1>7, <3>2
  <2> QED BY <2>1, <2>2
<1>10. row # None => now # None \/ s \in DOMAIN m.list BY <1>1, <1>3, <1>5, <1>7
<1>11. row # None /\ now # None /\ was # None => row.source = now.source BY <1>7
<1>12. row # None /\ now # None /\ was = None /\ row # now => new # None /\ Differs(was, new) BY <1>7
<1>13. s \in DOMAIN m.list \ m.traded /\ was # None => row # None /\ row.pin = now.pin BY <1>1, <1>3, <1>7
<1>14. now # None /\ now = was /\ now.by = "person" => row = now BY <1>3, <1>6, <1>7, <1>8
<1> QED BY <1>4, <1>9, <1>10, <1>11, <1>12, <1>13, <1>14 DEF row, was, new, now

\* The book after a sync.
LEMMA MirroredIs ==
  ASSUME NEW b, BookFine(b), NEW sync, MirrorFine(b, sync)
  PROVE  LET m     == sync.read
             after == Mirrored(b, sync)
         IN /\ BookFine(after)
            /\ after.listed = b.listed \cup DOMAIN m.list /\ after.trades = b.trades
            /\ after.rated = b.rated
            /\ \A p \in Positions :
                 after.rows[p] = IF p[1] = m.account /\ p[2] \notin sync.lost
                                 THEN Rewritten(m.rows[p[2]], Landed(m, p[2]), b.rows[p]) ELSE b.rows[p]
            /\ \A s \in Securities :
                 after.prices[s] = IF s \in Reprices(m)
                                   THEN [b.prices[s] EXCEPT ![m.on] = Requoted(m.prices[s], Priced(m, s), @)]
                                   ELSE b.prices[s]
<1> DEFINE m == sync.read
           after == Mirrored(b, sync)
           listed == b.listed \cup DOMAIN m.list
           rows == [p \in Positions |->
                      IF p[1] = m.account /\ p[2] \notin sync.lost
                      THEN Rewritten(m.rows[p[2]], Landed(m, p[2]), b.rows[p]) ELSE b.rows[p]]
           prices == [s \in Securities |->
                        IF s \in Reprices(m)
                        THEN [b.prices[s] EXCEPT ![m.on] = Requoted(m.prices[s], Priced(m, s), @)]
                        ELSE b.prices[s]]
<1>1. after = [listed |-> listed, trades |-> b.trades, rows |-> rows, prices |-> prices, rated |-> b.rated]
  BY DEF Mirrored
<1>2. b \in Book /\ m.list \in BankLists /\ m.on \in Days BY DEF BookFine, MirrorFine
<1>3. listed \in SUBSET Securities BY <1>2, ListIs DEF Book
<1>4. ASSUME NEW p \in Positions
      PROVE  /\ rows[p] = None \/ RowFine(rows[p])
             /\ rows[p] # None => p[2] \in listed
  <2>1. b.rows[p] = None \/ RowFine(b.rows[p]) BY DEF BookFine
  <2>2. b.rows[p] # None => p[2] \in b.listed BY DEF BookFine
  <2>3. CASE p[1] = m.account /\ p[2] \notin sync.lost
    <3> DEFINE s == p[2]
               row == Rewritten(m.rows[s], Landed(m, s), b.rows[<<m.account, s>>])
    <3>1. s \in Securities /\ p = <<m.account, s>> BY <2>3 DEF Positions
    <3>2. rows[p] = row BY <2>3, <3>1
    <3>3. /\ row = None \/ RowFine(row)
          /\ row # None => b.rows[<<m.account, s>>] # None \/ s \in DOMAIN m.list
      BY <2>3, <3>1, RowAfterSync
    <3> HIDE DEF row, rows
    <3> QED BY <2>2, <3>1, <3>2, <3>3
  <2>4. CASE ~(p[1] = m.account /\ p[2] \notin sync.lost)
    <3>1. rows[p] = b.rows[p] BY <2>4
    <3> QED BY <2>1, <2>2, <3>1
  <2> QED BY <2>3, <2>4
<1>5. rows \in [Positions -> HoldingRow \cup {None}]
  <2>1. \A p \in Positions : rows[p] \in HoldingRow \cup {None} BY <1>4 DEF RowFine
  <2>2. DOMAIN rows = Positions /\ rows = [p \in Positions |-> rows[p]] OBVIOUS
  <2> HIDE DEF rows
  <2> QED BY <2>1, <2>2
<1>6. prices \in [Securities -> [Days -> Price \cup {None}]]
  <2> SUFFICES ASSUME NEW s \in Securities PROVE prices[s] \in [Days -> Price \cup {None}] OBVIOUS
  <2> DEFINE now == b.prices[s]
  <2>1. now \in [Days -> Price \cup {None}] BY <1>2 DEF Book
  <2>2. CASE s \in Reprices(m)
    <3> DEFINE entry == Requoted(m.prices[s], Priced(m, s), now[m.on])
    <3>1. s \in DOMAIN m.list BY <2>2 DEF Reprices
    <3>2. m.prices[s] \in Price \cup {None} BY <3>1 DEF MirrorFine
    <3>3. Priced(m, s) = m.prices[s] \/ Priced(m, s) \in Price BY <1>2, <3>1, PricedIs
    <3>4. now[m.on] \in Price \cup {None} BY <1>2, <2>1
    <3>5. entry \in Price \cup {None}
      <4> HIDE DEF now
      <4> QED BY <3>2, <3>3, <3>4, RequotedIs
    <3>6. prices[s] = [now EXCEPT ![m.on] = entry] BY <2>2
    <3> HIDE DEF entry, now, prices
    <3> QED BY <2>1, <3>5, <3>6
  <2>3. CASE s \notin Reprices(m) BY <2>1, <2>3
  <2> QED BY <2>2, <2>3
<1>7. /\ \A p \in Positions :
           rows[p] = IF p[1] = m.account /\ p[2] \notin sync.lost
                     THEN Rewritten(m.rows[p[2]], Landed(m, p[2]), b.rows[p]) ELSE b.rows[p]
      /\ \A s \in Securities :
           prices[s] = IF s \in Reprices(m)
                       THEN [b.prices[s] EXCEPT ![m.on] = Requoted(m.prices[s], Priced(m, s), @)]
                       ELSE b.prices[s]
  OBVIOUS
<1>8. b.trades \in [Positions -> SUBSET Int] /\ b.rated \in SUBSET {CurrencyOf[s] : s \in Securities}
  BY <1>2 DEF Book
<1> HIDE DEF rows, prices, listed, after
<1>9. /\ after \in Book /\ after.listed = listed /\ after.trades = b.trades /\ after.rated = b.rated
      /\ after.rows = rows /\ after.prices = prices
  BY <1>1, <1>3, <1>5, <1>6, <1>8 DEF Book
<1>10. \A p \in Positions : IsFiniteSet(b.trades[p]) /\ (p[2] \notin listed => b.trades[p] = {})
  BY DEF BookFine, listed
<1>11. BookFine(after) BY <1>4, <1>9, <1>10 DEF BookFine
<1> QED BY <1>7, <1>9, <1>11 DEF listed, after

\* A sync that is not refused leaves a row that stays with its owner.
LEMMA MirrorKeepsSources ==
  ASSUME NEW b, BookFine(b), NEW sync, MirrorFine(b, sync), ~Refused(b, sync)
  PROVE  SourcesStay(b, Mirrored(b, sync))
<1> DEFINE m == sync.read
           after == Mirrored(b, sync)
<1> SUFFICES ASSUME NEW p \in Positions, b.rows[p] # None, after.rows[p] # None
             PROVE  after.rows[p].source = b.rows[p].source
  BY DEF SourcesStay
<1> DEFINE s == p[2]
           now == b.rows[p]
           row == Rewritten(m.rows[s], Landed(m, s), now)
<1>1. after.rows[p] = IF p[1] = m.account /\ s \notin sync.lost THEN row ELSE now BY MirroredIs
<1>2. CASE p[1] = m.account /\ s \notin sync.lost
  <2>1. p = <<m.account, s>> /\ s \in Securities BY <1>2 DEF Positions
  <2>2. /\ row # None /\ now # None /\ m.rows[s] # None => row.source = now.source
        /\ row # None /\ now # None /\ m.rows[s] = None /\ row # now => Landed(m, s) # None /\ s \in Rewrites(m)
    BY <1>2, <2>1, RowAfterSync
  <2>3. ~(m.rows[s] = None /\ Landed(m, s) # None /\ s \in Rewrites(m)) BY <2>1 DEF Refused
  <2> HIDE DEF row, after
  <2> QED BY <1>1, <1>2, <2>2, <2>3
<1>3. CASE ~(p[1] = m.account /\ s \notin sync.lost) BY <1>1, <1>3
<1> QED BY <1>2, <1>3

\* Hand work survives a sync, whatever was committed since it read.
LEMMA HandWorkStays ==
  ASSUME BookFine(book), mirror # None => MirrorFine(book, mirror) PROVE HandWorkSurvives
<1> SUFFICES ASSUME mirror # None, NEW p \in Positions
             PROVE  LET m     == mirror.read
                        after == Mirrored(book, mirror)
                        row   == book.rows[p]
                        s     == p[2]
                        mine  == p[1] = m.account
                    IN /\ row # None /\ (mine => row.by = "person" /\ row = m.rows[s]) => after.rows[p] = row
                       /\ row # None /\ mine /\ s \in DOMAIN m.list \ (m.traded \cup mirror.lost) /\ m.rows[s] # None
                            => after.rows[p] # None /\ after.rows[p].pin = row.pin
                       /\ s \in DOMAIN m.list /\ m.prices[s] # None
                            /\ m.prices[s].source = "manual" /\ book.prices[s][m.on] = m.prices[s]
                            => after.prices[s] = book.prices[s]
  BY DEF HandWorkSurvives
<1> DEFINE m     == mirror.read
           after == Mirrored(book, mirror)
           row   == book.rows[p]
           s     == p[2]
           new   == Rewritten(m.rows[s], Landed(m, s), row)
<1>1. /\ after.rows[p] = IF p[1] = m.account /\ s \notin mirror.lost THEN new ELSE row
      /\ after.prices[s] = IF s \in Reprices(m)
                           THEN [book.prices[s] EXCEPT ![m.on] = Requoted(m.prices[s], Priced(m, s), @)]
                           ELSE book.prices[s]
  <2>1. s \in Securities BY DEF Positions
  <2> QED BY <2>1, MirroredIs
<1>2. ASSUME p[1] = m.account, s \notin mirror.lost
      PROVE  /\ s \in DOMAIN m.list \ m.traded /\ m.rows[s] # None => new # None /\ new.pin = row.pin
             /\ row # None /\ row = m.rows[s] /\ row.by = "person" => new = row
  <2>1. p = <<m.account, s>> /\ s \in Securities BY <1>2 DEF Positions
  <2> QED BY <1>2, <2>1, RowAfterSync
<1>3. m.prices[s] # None /\ m.prices[s].source = "manual" => s \notin Reprices(m)
  BY DEF Reprices, Priced
<1> HIDE DEF after, new
<1>4. row # None /\ (p[1] = m.account => row.by = "person" /\ row = m.rows[s]) => after.rows[p] = row
  BY <1>1, <1>2
<1>5. p[1] = m.account /\ s \in DOMAIN m.list \ (m.traded \cup mirror.lost) /\ m.rows[s] # None
        => after.rows[p] # None /\ after.rows[p].pin = row.pin
  BY <1>1, <1>2
<1> QED BY <1>1, <1>3, <1>4, <1>5 DEF after

\* A sync of what it just read.
Current(b, sync, a, list, on) == sync.read = Reading(b, a, list, on) /\ sync.lost = {}

\* What a sync reads of a fine book is fine beside it.
LEMMA ReadingIsFine ==
  ASSUME NEW b, BookFine(b), NEW a \in Accounts, NEW list \in BankLists, NEW on \in Days,
         NEW sync, sync.read = Reading(b, a, list, on)
  PROVE  /\ MirrorFine(b, sync)
         /\ sync.read.account = a /\ sync.read.list = list /\ sync.read.on = on
         /\ \A s \in Securities : sync.read.rows[s] = b.rows[<<a, s>>]
         /\ \A s \in Securities : s \in sync.read.traded <=> b.trades[<<a, s>>] # {}
         /\ \A s \in DOMAIN list : sync.read.prices[s] = b.prices[s][on]
<1> DEFINE m == Reading(b, a, list, on)
<1>1. /\ m.account = a /\ m.list = list /\ m.on = on
      /\ \A s \in Securities : m.rows[s] = b.rows[<<a, s>>]
      /\ \A s \in Securities : s \in m.traded <=> b.trades[<<a, s>>] # {}
      /\ \A s \in DOMAIN list : m.prices[s] = b.prices[s][on]
  BY DEF Reading
<1>2. \A s \in Securities : <<a, s>> \in Positions BY DEF Positions
<1>3. \A s \in Securities : b.rows[<<a, s>>] = None \/ RowFine(b.rows[<<a, s>>]) BY <1>2 DEF BookFine
<1>4. \A s \in DOMAIN list : b.prices[s][on] \in Price \cup {None}
  BY ListIs DEF BookFine, Book
<1> HIDE DEF m
<1>5. sync.read = m BY DEF m
<1>6. MirrorFine(b, sync) BY <1>1, <1>3, <1>4, <1>5 DEF MirrorFine
<1> QED BY <1>1, <1>5, <1>6

\* A row after a sync that nothing overtook: the bank's are its list, a person's stay theirs.
LEMMA CurrentRowIs ==
  ASSUME NEW b, BookFine(b), NEW a \in Accounts, NEW list \in BankLists, NEW on \in Days,
         NEW sync, Current(b, sync, a, list, on), NEW s \in Securities
  PROVE  LET m   == sync.read
             was == b.rows[<<a, s>>]
             is  == Mirrored(b, sync).rows[<<a, s>>]
         IN /\ is # None /\ is.source = "bank" /\ ~is.frozen => s \in Lines(m) /\ is.quantity = list[s].quantity
            /\ s \in Lines(m) => is # None
            /\ s \in DOMAIN list => is # None \/ b.trades[<<a, s>>] # {}
            /\ is # None /\ is.source = "manual" <=> was # None /\ was.source = "manual"
<1> DEFINE m   == sync.read
           was == b.rows[<<a, s>>]
           new == Landed(m, s)
           is  == Mirrored(b, sync).rows[<<a, s>>]
<1>1. /\ MirrorFine(b, sync) /\ m.account = a /\ m.list = list /\ m.rows[s] = was /\ sync.lost = {}
      /\ s \in m.traded <=> b.trades[<<a, s>>] # {}
  BY ReadingIsFine DEF Current
<1>2. <<a, s>> \in Positions BY DEF Positions
<1>3. is = Rewritten(was, new, was) BY <1>1, <1>2, MirroredIs
<1>4. was = None \/ RowFine(was) BY <1>2 DEF BookFine
<1>5. /\ new = None \/ RowFine(new)
      /\ was # None /\ new # None => new.source = was.source /\ new.frozen = was.frozen
      /\ was = None /\ new # None => s \in Lines(m)
      /\ was # None /\ (was.source = "manual" \/ was.frozen) => new = was
      /\ was # None /\ s \in DOMAIN list \ m.traded => new # None
      /\ was # None /\ was.source = "bank" /\ ~was.frozen /\ s \notin Lines(m) => new = None
      /\ s \in Lines(m) /\ (was # None => ~was.frozen)
           => new # None /\ new.source = "bank" /\ ~new.frozen /\ new.quantity = list[s].quantity
  BY <1>1, <1>4, LandedIs
<1>6. s \in Lines(m) <=> s \in DOMAIN list /\ s \notin m.traded /\ ~(was # None /\ was.source = "manual")
  BY <1>1 DEF Lines, TheirsToKeep
<1>7. Differs(was, new) <=> (was = None) # (new = None) \/ (was # None /\ new # None /\ Columns(was) # Columns(new))
  BY DEF Differs
<1>8. was # None => was.source \in {"manual", "bank"} BY <1>4, FineRowIs
<1> HIDE DEF new, was, is
<1>9. is = IF Differs(was, new) THEN new ELSE was
  <2>1. CASE was # None BY <1>3, <1>4, <1>5, <2>1, RewrittenIsFine
  <2>2. CASE was = None BY <1>3, <2>2 DEF Rewritten
  <2> QED BY <2>1, <2>2
<1>10. was # None /\ new # None /\ Columns(was) = Columns(new) => was.quantity = new.quantity
  BY DEF Columns
<1>11. \/ is = new
       \/ is = was /\ was # None /\ new # None /\ was.quantity = new.quantity
  BY <1>7, <1>9, <1>10
<1>12. is # None /\ is.source = "bank" /\ ~is.frozen => s \in Lines(m) /\ is.quantity = list[s].quantity
  <2> SUFFICES ASSUME is # None, is.source = "bank", ~is.frozen
               PROVE  s \in Lines(m) /\ is.quantity = list[s].quantity
    OBVIOUS
  <2>1. new # None /\ is.quantity = new.quantity BY <1>11
  <2>2. was # None => was.source = "bank" /\ ~was.frozen BY <1>5, <1>11, <2>1
  <2>3. s \in Lines(m) BY <1>5, <2>1, <2>2
  <2> QED BY <1>5, <2>1, <2>2, <2>3
<1>13. s \in Lines(m) => is # None BY <1>5, <1>6, <1>8, <1>11
<1>14. s \in DOMAIN list => is # None \/ b.trades[<<a, s>>] # {}
  <2>1. s \in DOMAIN list /\ s \notin m.traded /\ s \notin Lines(m) => was # None BY <1>6
  <2> QED BY <1>1, <1>5, <1>11, <1>13, <2>1
<1>15. is # None /\ is.source = "manual" <=> was # None /\ was.source = "manual"
  <2>1. ASSUME was # None, was.source = "manual" PROVE is = was BY <1>5, <1>11, <2>1
  <2>2. ASSUME is # None, is.source = "manual" PROVE was # None /\ was.source = "manual"
    <3>1. CASE was = None
      <4>1. is = new /\ s \in Lines(m) BY <1>5, <1>11, <2>2, <3>1
      <4> QED BY <1>5, <2>2, <3>1, <4>1
    <3>2. CASE was # None BY <1>5, <1>11, <2>2, <3>2
    <3> QED BY <3>1, <3>2
  <2> QED BY <2>1, <2>2
<1> QED BY <1>12, <1>13, <1>14, <1>15 DEF is, was

\* A list that comes again changes nothing.
LEMMA AgainIsTheSame ==
  ASSUME NEW b, BookFine(b), NEW a \in Accounts, NEW list \in BankLists, NEW on \in Days,
         NEW sync, Current(b, sync, a, list, on),
         NEW again, Current(Mirrored(b, sync), again, a, list, on)
  PROVE  Mirrored(Mirrored(b, sync), again) = Mirrored(b, sync)
<1> DEFINE c == Mirrored(b, sync)
           d == Mirrored(c, again)
           m == sync.read
           n == again.read
<1>1. /\ MirrorFine(b, sync) /\ m.account = a /\ m.list = list /\ m.on = on /\ sync.lost = {}
      /\ \A s \in Securities : m.rows[s] = b.rows[<<a, s>>]
      /\ \A s \in Securities : s \in m.traded <=> b.trades[<<a, s>>] # {}
      /\ \A s \in DOMAIN list : m.prices[s] = b.prices[s][on]
  BY ReadingIsFine DEF Current
<1>2. /\ BookFine(c) /\ c.listed = b.listed \cup DOMAIN list /\ c.trades = b.trades /\ c.rated = b.rated
      /\ \A s \in Securities :
           c.prices[s] = IF s \in Reprices(m)
                         THEN [b.prices[s] EXCEPT ![on] = Requoted(m.prices[s], Priced(m, s), @)]
                         ELSE b.prices[s]
  BY <1>1, MirroredIs
<1>3. \A s \in Securities :
        LET was == b.rows[<<a, s>>]
            is  == c.rows[<<a, s>>]
        IN /\ is # None /\ is.source = "bank" /\ ~is.frozen => s \in Lines(m) /\ is.quantity = list[s].quantity
           /\ s \in Lines(m) => is # None
           /\ is # None /\ is.source = "manual" <=> was # None /\ was.source = "manual"
  BY CurrentRowIs
<1>4. Current(c, again, a, list, on) OBVIOUS
<1> HIDE DEF c
<1>5. /\ MirrorFine(c, again) /\ n.account = a /\ n.list = list /\ n.on = on /\ again.lost = {}
      /\ \A s \in Securities : n.rows[s] = c.rows[<<a, s>>]
      /\ \A s \in Securities : s \in n.traded <=> c.trades[<<a, s>>] # {}
      /\ \A s \in DOMAIN list : n.prices[s] = c.prices[s][on]
  BY <1>2, <1>4, ReadingIsFine DEF Current
<1>6. /\ BookFine(d) /\ d.listed = c.listed \cup DOMAIN list /\ d.trades = c.trades /\ d.rated = c.rated
      /\ \A p \in Positions :
           d.rows[p] = IF p[1] = a /\ p[2] \notin again.lost
                       THEN Rewritten(n.rows[p[2]], Landed(n, p[2]), c.rows[p]) ELSE c.rows[p]
      /\ \A s \in Securities :
           d.prices[s] = IF s \in Reprices(n)
                         THEN [c.prices[s] EXCEPT ![on] = Requoted(n.prices[s], Priced(n, s), @)]
                         ELSE c.prices[s]
  BY <1>2, <1>5, MirroredIs
<1>7. DOMAIN list \subseteq Securities BY ListIs
<1> HIDE DEF d, m, n
<1>8. \A s \in Securities : s \in Lines(n) <=> s \in Lines(m)
  <2> SUFFICES ASSUME NEW s \in Securities PROVE s \in Lines(n) <=> s \in Lines(m) OBVIOUS
  <2>1. s \in Lines(n) <=> s \in DOMAIN list /\ s \notin n.traded /\ ~(n.rows[s] # None /\ n.rows[s].source = "manual")
    BY <1>5 DEF Lines, TheirsToKeep
  <2>2. s \in Lines(m) <=> s \in DOMAIN list /\ s \notin m.traded /\ ~(m.rows[s] # None /\ m.rows[s].source = "manual")
    BY <1>1 DEF Lines, TheirsToKeep
  <2>3. s \in n.traded <=> s \in m.traded BY <1>1, <1>2, <1>5
  <2>4. n.rows[s] = c.rows[<<a, s>>] /\ m.rows[s] = b.rows[<<a, s>>] BY <1>1, <1>5
  <2> QED BY <1>3, <2>1, <2>2, <2>3, <2>4
<1>9. \A p \in Positions : d.rows[p] = c.rows[p]
  <2> SUFFICES ASSUME NEW p \in Positions, p[1] = a PROVE d.rows[p] = c.rows[p] BY <1>6
  <2> DEFINE s == p[2]
             is == c.rows[p]
             new == Landed(n, s)
  <2>1. s \in Securities /\ p = <<a, s>> BY DEF Positions
  <2>2. n.rows[s] = is /\ d.rows[p] = Rewritten(is, new, is) BY <1>5, <1>6, <2>1
  <2>3. is = None \/ RowFine(is) BY <1>2 DEF BookFine
  <2>4. /\ is # None /\ new # None => new.pin = is.pin /\ new.frozen = is.frozen
        /\ is = None /\ new # None => s \in Lines(n)
        /\ is # None /\ (is.source = "manual" \/ is.frozen) => new = is
        /\ s \in Lines(n) /\ (is # None => ~is.frozen) => new # None /\ new.quantity = list[s].quantity
    BY <1>5, <2>1, <2>2, <2>3, LandedIs
  <2>5. /\ is # None /\ is.source = "bank" /\ ~is.frozen => s \in Lines(n) /\ is.quantity = list[s].quantity
        /\ s \in Lines(n) => is # None
    BY <1>3, <1>8, <2>1
  <2>6. is # None => is.source \in {"manual", "bank"} BY <2>3, FineRowIs
  <2> HIDE DEF new, is
  <2>7. ~Differs(is, new)
    <3>1. CASE is = None BY <2>4, <2>5, <3>1 DEF Differs
    <3>2. CASE is # None /\ (is.source = "manual" \/ is.frozen) BY <2>4, <3>2 DEF Differs
    <3>3. CASE is # None /\ is.source = "bank" /\ ~is.frozen
      <4>1. new # None /\ new.quantity = is.quantity /\ new.pin = is.pin /\ new.frozen = is.frozen
        BY <2>4, <2>5, <3>3
      <4> QED BY <3>3, <4>1 DEF Differs, Columns
    <3> QED BY <2>6, <3>1, <3>2, <3>3
  <2>8. Rewritten(is, new, is) = is BY <2>7 DEF Rewritten
  <2> QED BY <2>2, <2>8 DEF is
<1>10. Reprices(n) = {}
  <2> SUFFICES ASSUME NEW s \in DOMAIN list PROVE Priced(n, s) = n.prices[s] BY <1>5 DEF Reprices
  <2> DEFINE was == b.prices[s][on]
  <2>1. s \in Securities /\ b.prices[s] \in [Days -> Price \cup {None}] BY <1>7 DEF BookFine, Book
  <2>2. was \in Price \cup {None} /\ m.prices[s] = was BY <1>1, <2>1
  <2>3. c.prices[s] = IF s \in Reprices(m) THEN [b.prices[s] EXCEPT ![on] = Requoted(m.prices[s], Priced(m, s), was)]
                      ELSE b.prices[s]
    BY <1>2, <2>1
  <2>4. s \in Reprices(m) <=> Priced(m, s) # was BY <1>1, <2>2 DEF Reprices
  <2>5. Priced(m, s) = was \/ Priced(m, s) \in Price BY <1>1, <2>2, PricedIs
  <2>6. Requoted(was, Priced(m, s), was) = Priced(m, s)
    <3> HIDE DEF was
    <3> QED BY <2>2, <2>5, RequotedIs
  <2>7. c.prices[s][on] = Priced(m, s)
    <3>1. CASE s \in Reprices(m) BY <2>1, <2>2, <2>3, <2>6, <3>1
    <3>2. CASE s \notin Reprices(m) BY <2>3, <2>4, <3>2
    <3> QED BY <3>1, <3>2
  <2> HIDE DEF was
  <2>8. n.prices[s] = Priced(m, s) BY <1>5, <2>7
  <2>9. s \in Lines(n) <=> s \in Lines(m) BY <1>8, <2>1
  <2> DEFINE entry == [price |-> list[s].price, source |-> "auto"]
             is == n.prices[s]
  <2>10. is = IF s \notin Lines(m) \/ (was # None /\ was.source = "manual") THEN was ELSE entry
    BY <1>1, <2>2, <2>8 DEF Priced
  <2>11. Priced(n, s) = IF s \notin Lines(m) \/ (is # None /\ is.source = "manual") THEN is ELSE entry
    BY <1>5, <2>9 DEF Priced
  <2> HIDE DEF is, entry
  <2>12. Priced(n, s) = is BY <2>10, <2>11
  <2> QED BY <2>12 DEF is
<1>11. d = c
  <2>1. d.listed = c.listed /\ d.rated = c.rated /\ d.trades = c.trades BY <1>2, <1>6
  <2>2. d \in Book /\ c \in Book BY <1>2, <1>6 DEF BookFine
  <2>3. d.rows = c.rows BY <1>9, <2>2 DEF Book
  <2>4. \A s \in Securities : d.prices[s] = c.prices[s] BY <1>6, <1>10
  <2>5. d.prices = c.prices BY <2>2, <2>4 DEF Book
  <2>6. \A x \in Book : x = [listed |-> x.listed, rows |-> x.rows, trades |-> x.trades, prices |-> x.prices,
                             rated |-> x.rated]
    BY DEF Book
  <2> QED BY <2>1, <2>2, <2>3, <2>5, <2>6
<1> QED BY <1>11 DEF c, d

\* SyncMirrorsTheBank holds of every fine book.
LEMMA SyncMirrors ==
  ASSUME BookFine(book), mirror # None => MirrorFine(book, mirror)
  PROVE  SyncMirrorsTheBank
<1> DEFINE a == mirror.read.account
           list == mirror.read.list
           on == mirror.read.on
           after == Mirrored(book, mirror)
           again == [read |-> Reading(after, a, list, on), lost |-> {}, dropped |-> {}]
           bank == {p \in Positions : p[1] = a /\ after.rows[p] # None
                                     /\ after.rows[p].source = "bank" /\ ~after.rows[p].frozen}
<1> SUFFICES ASSUME mirror # None, Reading(book, a, list, on) = mirror.read, mirror.lost = {}
             PROVE  /\ \A p \in bank : p[2] \in DOMAIN list /\ after.rows[p].quantity = list[p[2]].quantity
                    /\ \A s \in DOMAIN list : after.rows[<<a, s>>] # None \/ book.trades[<<a, s>>] # {}
                    /\ Mirrored(after, again) = after
  BY DEF SyncMirrorsTheBank
<1>1. a \in Accounts /\ list \in BankLists /\ on \in Days BY DEF MirrorFine
<1>2. Current(book, mirror, a, list, on) BY DEF Current
<1>3. Current(after, again, a, list, on) BY DEF Current
<1>4. DOMAIN list \subseteq Securities BY <1>1, ListIs
<1> HIDE DEF a, list, on, again
<1>5. \A s \in Securities :
        LET is == after.rows[<<a, s>>]
        IN /\ is # None /\ is.source = "bank" /\ ~is.frozen => s \in Lines(mirror.read) /\ is.quantity = list[s].quantity
           /\ s \in DOMAIN list => is # None \/ book.trades[<<a, s>>] # {}
  BY <1>1, <1>2, CurrentRowIs
<1>6. Mirrored(after, again) = after BY <1>1, <1>2, <1>3, AgainIsTheSame
<1>7. ASSUME NEW p \in bank PROVE p[2] \in DOMAIN list /\ after.rows[p].quantity = list[p[2]].quantity
  <2> HIDE DEF after
  <2>1. p = <<a, p[2]>> /\ p[2] \in Securities /\ after.rows[p] # None
        /\ after.rows[p].source = "bank" /\ ~after.rows[p].frozen
    BY DEF Positions
  <2>2. p[2] \in Lines(mirror.read) /\ after.rows[p].quantity = list[p[2]].quantity BY <1>5, <2>1
  <2>3. Lines(mirror.read) \subseteq DOMAIN list BY DEF Lines, list
  <2> QED BY <2>2, <2>3
<1> HIDE DEF after
<1> QED BY <1>4, <1>5, <1>6, <1>7

-----------------------------------------------------------------------------
(* The requests in flight                                                  *)

\* Balances a request computed, and may file.
PlanFine(plan) ==
  \A a \in DOMAIN plan :
    /\ a \in Derived /\ plan[a].is \in Int
    /\ plan[a].day \in Days \cup {None} /\ plan[a].whole \in BOOLEAN
    /\ CurrencyOf[a] = Base /\ plan[a].day # None => plan[a].whole

\* A client, beside this book, this day and these balances: whatever it read, the balances
\* it computed are those of the book there is, unless it is late.
ClientFine(x, b, on, had) ==
  /\ x.request = None => x = Idle
  /\ x.request # None =>
       /\ RequestFine(b, x)
       /\ x.request.kind = "drop" /\ ~x.late => x.holders = Affected(b, x.request)
       /\ x.written => PlanFine(x.plan) /\ (~x.late => x.plan = Plan(b, x, on, had))

PositionsInv ==
  /\ BookFine(book)
  /\ today \in Days
  /\ balance \in [Derived -> Int]
  /\ filed \in [Derived -> [Days -> BOOLEAN \cup {None}]]
  /\ FiledIsWhole
  /\ clients = [c \in Clients |-> clients[c]]
  /\ \A c \in Clients : ClientFine(clients[c], book, today, balance)
  /\ mirror # None => MirrorFine(book, mirror)

\* What a request computes to file is whole, where it files a day of the base currency.
LEMMA PlanIsFine ==
  ASSUME NEW b, BookFine(b), NEW x, RequestFine(b, x), NEW on \in Days, NEW had
  PROVE  PlanFine(Plan(b, x, on, had))
<1> DEFINE c == Effect(b, x)
           plan == Plan(b, x, on, had)
<1>1. BookFine(c) BY EffectIs
<1> SUFFICES ASSUME NEW a \in DOMAIN plan
             PROVE  /\ a \in Derived /\ plan[a].is \in Int
                    /\ plan[a].day \in Days \cup {None} /\ plan[a].whole \in BOOLEAN
                    /\ CurrencyOf[a] = Base /\ plan[a].day # None => plan[a].whole
  BY DEF PlanFine
<1>2. a \in Derived /\ a \in Accounts /\ plan[a] = Revalued(c, a, on, had[a])
  BY SetsAssumption DEF Plan
<1> DEFINE whole == \A p \in Held(c, a) : Valued(c, p, on, CurrencyOf[a])
           day == IF FullyValued(c, a, on) THEN on ELSE None
<1>3. plan[a] = [was |-> had[a], is |-> Worth(c, a, on), day |-> day, whole |-> whole]
  BY <1>2 DEF Revalued
<1>4. Worth(c, a, on) \in Int
  <2> HIDE DEF c
  <2> QED BY <1>1, <1>2, WorthInt
<1>5. whole \in BOOLEAN OBVIOUS
<1>6. CurrencyOf[a] = Base /\ day # None => whole BY DEF FullyValued
<1>7. day \in Days \cup {None} OBVIOUS
<1> HIDE DEF whole, day, plan
<1>8. plan[a].is = Worth(c, a, on) /\ plan[a].day = day BY <1>3
<1>9. plan[a].whole = whole BY <1>3
<1>10. plan[a].whole \in BOOLEAN BY <1>5, <1>9
<1>11. CurrencyOf[a] = Base /\ plan[a].day # None => plan[a].whole BY <1>6, <1>8, <1>9
<1> QED BY <1>2, <1>4, <1>7, <1>8, <1>10, <1>11

\* What a request does, and plans, is what it asks, what it read, whether that is lost and
\* who held its security.
LEMMA SamePlan ==
  ASSUME NEW b, NEW x, NEW y, y.request = x.request, y.was = x.was, y.lost = x.lost, y.holders = x.holders
  PROVE  \A on, had : Plan(b, y, on, had) = Plan(b, x, on, had)
<1>1. Wanted(y) = Wanted(x) BY DEF Wanted
<1>2. Sends(y) <=> Sends(x) BY <1>1 DEF Sends
<1>3. Fails(b, y) <=> Fails(b, x) BY <1>1, <1>2 DEF Fails
<1> DEFINE Of(r, was, row) ==
             CASE r.kind \in RowKinds -> [b EXCEPT !.rows[Place(r)] = Rewritten(was, row, @)]
               [] r.kind = "price" -> [b EXCEPT !.prices[r.security][r.day] = Requoted(was, row, @)]
               [] r.kind = "trade" -> [b EXCEPT !.trades[Place(r)] = @ \cup {r.quantity}]
               [] r.kind = "amend" -> [b EXCEPT !.trades[Place(r)] = (@ \ {r.quantity}) \cup {r.to}]
               [] r.kind = "erase" -> [b EXCEPT !.trades[Place(r)] = @ \ {r.quantity}]
               [] r.kind = "drop"  -> Drop(b, r.security)
               [] r.kind = "list"  -> [b EXCEPT !.listed = @ \cup {r.security}]
<1>4. Effect(b, y) = IF y.lost \/ Fails(b, y) THEN b ELSE Of(y.request, y.was, Wanted(y)) BY DEF Effect
<1>5. Effect(b, x) = IF x.lost \/ Fails(b, x) THEN b ELSE Of(x.request, x.was, Wanted(x)) BY DEF Effect
<1> HIDE DEF Of
<1>6. Effect(b, y) = Effect(b, x) BY <1>1, <1>3, <1>4, <1>5
<1> QED BY <1>6 DEF Plan

\* A client that asks for nothing is fine beside any book.
LEMMA IdleIsFine == (\A b, on, had : ClientFine(Idle, b, on, had)) /\ Idle.request = None
BY DEF ClientFine, Idle, Client

\* What overtaking makes of a client: its request and its plan stay, and what it read of
\* what is gone is lost.
LEMMA OvertakenIs ==
  ASSUME NEW c, NEW d \in Clients
  PROVE  LET x == clients[d]
             y == Overtaken(c)[d]
         IN /\ Overtaken(c) = [e \in Clients |-> Overtaken(c)[e]]
            /\ x.request = None => y = Idle
            /\ x.request # None =>
                 /\ y.request = x.request /\ y.was = x.was /\ y.holders = x.holders /\ y.plan = x.plan
                 /\ y.lost <=> x.lost \/ Gone(c, x)
                 /\ y.written <=> x.written
                 /\ x.written => y.late
                 /\ x.request.kind = "drop" /\ ~y.late => y.holders = Affected(c, y.request)
<1> DEFINE x == clients[d]
           y == Overtaken(c)[d]
           lost == x.lost \/ Gone(c, x)
           late == x.late \/ x.written \/ (x.request.kind = "drop" /\ x.holders # Affected(c, x.request))
<1>1. y = IF x.request = None THEN Idle
          ELSE Client(x.request, x.was, x.holders, lost, x.written, x.plan, late)
  BY DEF Overtaken
<1>2. Overtaken(c) = [e \in Clients |-> Overtaken(c)[e]] BY DEF Overtaken
<1>3. ASSUME x.request # None
      PROVE  /\ y.request = x.request /\ y.was = x.was /\ y.holders = x.holders /\ y.plan = x.plan
             /\ y.lost <=> lost
             /\ y.written <=> x.written
             /\ y.late <=> late
  <2> DEFINE z(l, h) == Client(x.request, x.was, x.holders, l, x.written, x.plan, h)
  <2>1. \A l, h \in BOOLEAN :
          /\ z(l, h).request = x.request /\ z(l, h).was = x.was /\ z(l, h).holders = x.holders
          /\ z(l, h).plan = x.plan
          /\ z(l, h).lost <=> l
          /\ z(l, h).written <=> x.written
          /\ z(l, h).late <=> h
    BY DEF Client
  <2>2. y = z(lost, late) BY <1>1, <1>3
  <2>3. lost \in BOOLEAN /\ late \in BOOLEAN OBVIOUS
  <2> HIDE DEF z, lost, late, x, y
  <2> QED BY <2>1, <2>2, <2>3
<1>4. x.request # None /\ x.written => y.late BY <1>3
<1>5. x.request # None /\ x.request.kind = "drop" /\ ~y.late => y.holders = Affected(c, y.request) BY <1>3
<1> HIDE DEF y
<1> QED BY <1>1, <1>2, <1>3, <1>4, <1>5 DEF y

\* A client is fine beside whatever overtook it.
LEMMA OvertakenIsFine ==
  ASSUME PositionsInv, NEW d \in Clients, NEW c, SourcesStay(book, c), NEW on, NEW had
  PROVE  ClientFine(Overtaken(c)[d], c, on, had)
<1> DEFINE x == clients[d]
           y == Overtaken(c)[d]
<1>1. /\ x.request = None => y = Idle
      /\ x.request # None =>
           /\ y.request = x.request /\ y.was = x.was /\ y.plan = x.plan
           /\ y.lost <=> x.lost \/ Gone(c, x)
           /\ y.written <=> x.written
           /\ x.written => y.late
           /\ x.request.kind = "drop" /\ ~y.late => y.holders = Affected(c, y.request)
  BY OvertakenIs
<1>2. x.request # None => RequestFine(book, x) /\ (x.written => PlanFine(x.plan))
  BY DEF PositionsInv, ClientFine
<1> HIDE DEF x, y
<1>3. CASE x.request = None BY <1>1, <1>3, IdleIsFine DEF x, y
<1>4. CASE x.request # None
  <2>1. RequestFine(c, y) BY <1>1, <1>2, <1>4, StaysFine
  <2>2. ClientFine(y, c, on, had) BY <1>1, <1>2, <1>4, <2>1 DEF ClientFine
  <2> QED BY <2>2 DEF y
<1> QED BY <1>3, <1>4

\* A sync in flight is fine beside whatever passed it.
LEMMA PassedIsFine ==
  ASSUME PositionsInv, NEW c, SourcesStay(book, c)
  PROVE  Passed(c) # None => MirrorFine(c, Passed(c))
<1> SUFFICES ASSUME mirror # None PROVE MirrorFine(c, Passed(c)) BY DEF Passed
<1> DEFINE m == mirror.read
           sync == Passed(c)
           gone == {s \in Securities : m.rows[s] # None /\ c.rows[<<m.account, s>>] = None}
<1>1. sync.read = m /\ sync.lost = mirror.lost \cup gone BY DEF Passed
<1>2. /\ m.account \in Accounts /\ m.list \in BankLists /\ m.on \in Days
      /\ \A s \in Securities :
           /\ m.rows[s] = None \/ RowFine(m.rows[s])
           /\ s \notin mirror.lost /\ m.rows[s] # None =>
                /\ book.rows[<<m.account, s>>] # None
                /\ book.rows[<<m.account, s>>].source = m.rows[s].source
      /\ \A s \in DOMAIN m.list : m.prices[s] \in Price \cup {None}
  BY DEF PositionsInv, MirrorFine
<1>3. ASSUME NEW s \in Securities, s \notin sync.lost, m.rows[s] # None
      PROVE  c.rows[<<m.account, s>>] # None /\ c.rows[<<m.account, s>>].source = m.rows[s].source
  <2>1. <<m.account, s>> \in Positions BY <1>2 DEF Positions
  <2>2. s \notin mirror.lost /\ c.rows[<<m.account, s>>] # None BY <1>1, <1>3
  <2> QED BY <1>2, <1>3, <2>1, <2>2 DEF SourcesStay
<1> HIDE DEF m, sync, gone
<1>4. MirrorFine(c, sync) BY <1>1, <1>2, <1>3 DEF MirrorFine
<1> QED BY <1>4 DEF sync

-----------------------------------------------------------------------------
(* The steps                                                               *)

\* Nothing is held at first and nothing is in flight.
LEMMA PositionsStart == Init => PositionsInv
<1> SUFFICES ASSUME Init PROVE PositionsInv OBVIOUS
<1>1. BookFine(book)
  <2> DEFINE rows == [p \in Positions |-> None]
             trs == [p \in Positions |-> {}]
             prices == [s \in Securities |-> [d \in Days |-> None]]
             b == [listed |-> Securities, rows |-> rows, trades |-> trs, prices |-> prices, rated |-> {}]
  <2>1. book = b BY DEF Init
  <2>2. /\ rows \in [Positions -> HoldingRow \cup {None}] /\ \A p \in Positions : rows[p] = None
        /\ trs \in [Positions -> SUBSET Int] /\ \A p \in Positions : trs[p] = {}
    OBVIOUS
  <2>3. prices \in [Securities -> [Days -> Price \cup {None}]] OBVIOUS
  <2>4. IsFiniteSet({}) BY FS_EmptySet
  <2> HIDE DEF rows, trs, prices
  <2>5. b \in Book BY <2>2, <2>3 DEF Book
  <2>6. b.rows = rows /\ b.trades = trs OBVIOUS
  <2> HIDE DEF b
  <2> QED BY <2>1, <2>2, <2>4, <2>5, <2>6 DEF BookFine
<1>2. today \in Days BY SetsAssumption DEF Init, Days
<1>3. balance \in [Derived -> Int] BY DEF Init
<1>4. filed \in [Derived -> [Days -> BOOLEAN \cup {None}]] BY DEF Init
<1>5. FiledIsWhole
  <2>1. \A a \in Derived, d \in Days : filed[a][d] = None BY DEF Init
  <2>2. None # FALSE BY NoneAssumption
  <2> QED BY <2>1, <2>2 DEF FiledIsWhole
<1>6. clients = [c \in Clients |-> Idle] BY DEF Init
<1>7. \A c \in Clients : clients[c] = Idle BY <1>6
<1>8. clients = [c \in Clients |-> clients[c]] BY <1>6
<1>9. \A c \in Clients : ClientFine(clients[c], book, today, balance) BY <1>7, IdleIsFine
<1>10. mirror = None BY DEF Init
<1> QED BY <1>1, <1>2, <1>3, <1>4, <1>5, <1>8, <1>9, <1>10 DEF PositionsInv

\* What a person asks, with what it read, is a request fine beside the book it was read from.
LEMMA ReadIs ==
  ASSUME BookFine(book), NEW asks \in Requests, Accepted(book, Read(book, asks)),
         NEW x, x.request = Read(book, asks), x.was = Seen(book, Read(book, asks))
  PROVE  RequestFine(book, x)
<1> DEFINE r == Read(book, asks)
<1>1. asks \in Request({0}) BY RequestsAssumption
<1>2. r \in Request(Int) /\ (r.kind = "pin" => r.quantity = Quantity(book, Place(r)))
  <2>1. CASE asks.kind = "pin"
    <3> DEFINE q == Quantity(book, Place(asks))
    <3>1. asks \in Pins({0}) BY <1>1, <2>1 DEF Request, Asks, Prices, Amends
    <3>2. Place(asks) \in Positions BY <3>1 DEF Pins, Place, Positions
    <3>3. q \in Int BY <3>2, QuantityInt
    <3>4. r = [asks EXCEPT !.quantity = q] BY <2>1 DEF Read
    <3> HIDE DEF q, r
    <3>5. r \in Pins(Int) /\ r.quantity = q /\ r.account = asks.account /\ r.security = asks.security
      BY <3>1, <3>3, <3>4 DEF Pins
    <3> QED BY <3>5 DEF Request, Place, q
  <2>2. CASE asks.kind # "pin"
    <3>1. r = asks BY <2>2 DEF Read
    <3>2. asks \in Request(Int) BY <1>1, <2>2 DEF Request, Pins
    <3> QED BY <2>2, <3>1, <3>2
  <2> QED BY <2>1, <2>2
<1>3. x.request = r /\ x.was = Seen(book, r) /\ Accepted(book, r) OBVIOUS
<1> HIDE DEF r
<1>4. r.kind \in PlaceKinds => Place(r) \in Positions BY <1>2, RequestIs
<1>5. r.kind = "price" => r.security \in Securities /\ r.day \in Days BY <1>2, RequestIs
<1>6. ASSUME r.kind \in RowKinds PROVE x.was = book.rows[Place(r)] /\ (x.was = None \/ RowFine(x.was))
  <2>1. x.was = book.rows[Place(r)] BY <1>3, <1>6 DEF Seen
  <2>2. Place(r) \in Positions BY <1>4, <1>6 DEF PlaceKinds
  <2> QED BY <2>1, <2>2 DEF BookFine
<1>7. ASSUME r.kind = "price" PROVE x.was \in Price \cup {None}
  <2>1. x.was = book.prices[r.security][r.day] BY <1>3, <1>7 DEF Seen, RowKinds
  <2> QED BY <1>5, <1>7, <2>1 DEF BookFine, Book
<1>8. r.kind \in {"clear", "pin", "reset"} => x.was # None
  BY <1>3, <1>6 DEF Accepted, RowKinds
<1>9. r.kind = "pin" /\ r.total # None => r.quantity # 0 BY <1>2, <1>3 DEF Accepted
<1>10. r.kind # "list" => r.security \in book.listed BY <1>2, <1>3, RequestIs DEF Accepted
<1> QED BY <1>2, <1>3, <1>6, <1>7, <1>8, <1>9, <1>10 DEF RequestFine

\* A step of one client that leaves the book, the day and the balances alone.
LEMMA OneClientKeeps ==
  ASSUME PositionsInv, NEW c \in Clients, NEW mine, ClientFine(mine, book, today, balance),
         clients' = [clients EXCEPT ![c] = mine], UNCHANGED <<book, today, balance, filed, mirror>>
  PROVE  PositionsInv'
<1>1. clients = [d \in Clients |-> clients[d]] BY DEF PositionsInv
<1>2. clients' = [d \in Clients |-> clients'[d]] /\ clients'[c] = mine
      /\ \A d \in Clients : d # c => clients'[d] = clients[d]
  BY <1>1
<1>3. \A d \in Clients : ClientFine(clients'[d], book, today, balance) BY <1>2 DEF PositionsInv
<1>4. FiledIsWhole' BY DEF PositionsInv, FiledIsWhole
<1>5. mirror' # None => MirrorFine(book', mirror') BY DEF PositionsInv
<1>6. UNCHANGED <<book, today, balance, filed>> OBVIOUS
<1> QED BY <1>2, <1>3, <1>4, <1>5, <1>6 DEF PositionsInv

\* A step that others may be overtaken by, when what stays in the book stays its owner's.
LEMMA OvertakingKeeps ==
  ASSUME PositionsInv, BookFine(book'), SourcesStay(book, book'), today' \in Days,
         balance' \in [Derived -> Int], filed' \in [Derived -> [Days -> BOOLEAN \cup {None}]],
         FiledIsWhole', mirror' # None => MirrorFine(book', mirror'),
         clients' = [d \in Clients |-> clients'[d]],
         \A d \in Clients : clients'[d] = Idle \/ clients'[d] = Overtaken(book')[d]
  PROVE  PositionsInv'
<1>1. ASSUME NEW d \in Clients PROVE ClientFine(clients'[d], book', today', balance')
  <2>1. ClientFine(Overtaken(book')[d], book', today', balance') BY OvertakenIsFine
  <2>2. ClientFine(Idle, book', today', balance') BY IdleIsFine
  <2> QED BY <2>1, <2>2
<1> QED BY <1>1 DEF PositionsInv

\* A request that asks is fine, and has written nothing.
LEMMA AskKeeps ==
  ASSUME PositionsInv, NEW c \in Clients, NEW asks \in Requests, Ask(c, asks)
  PROVE  PositionsInv'
<1> DEFINE r == Read(book, asks)
           mine == Client(r, Seen(book, r), Affected(book, r), FALSE, FALSE, None, FALSE)
<1>1. mine.request = r /\ mine.was = Seen(book, r) /\ mine.holders = Affected(book, r) /\ ~mine.written
  BY DEF Client
<1>2. BookFine(book) /\ Accepted(book, r) BY DEF PositionsInv, Ask
<1>3. clients' = [clients EXCEPT ![c] = mine] /\ UNCHANGED <<book, today, balance, filed, mirror>>
  BY DEF Ask
<1> HIDE DEF mine
<1>4. RequestFine(book, mine) BY <1>1, <1>2, ReadIs
<1>5. mine.request # None BY <1>4, NoneAssumption DEF RequestFine
<1>6. ClientFine(mine, book, today, balance) BY <1>1, <1>4, <1>5 DEF ClientFine
<1> QED BY <1>3, <1>6, OneClientKeeps

\* A request that writes plans from this book, and is no later than it was.
LEMMA WriteKeeps ==
  ASSUME PositionsInv, NEW c \in Clients, Write(c)
  PROVE  PositionsInv'
<1> DEFINE x == clients[c]
           plan == Plan(book, x, today, balance)
           mine == Client(x.request, x.was, x.holders, x.lost, TRUE, plan, x.late)
<1>1. /\ mine.request = x.request /\ mine.was = x.was /\ mine.holders = x.holders /\ mine.lost = x.lost
      /\ mine.plan = plan /\ mine.late = x.late
  BY DEF Client
<1>2. x.request # None /\ BookFine(book) /\ today \in Days /\ RequestFine(book, x)
      /\ (x.request.kind = "drop" /\ ~x.late => x.holders = Affected(book, x.request))
  BY DEF PositionsInv, Write, ClientFine
<1>3. clients' = [clients EXCEPT ![c] = mine] /\ UNCHANGED <<book, today, balance, filed, mirror>>
  BY DEF Write
<1> HIDE DEF mine, x
<1>4. PlanFine(plan) BY <1>2, PlanIsFine
<1>5. Plan(book, mine, today, balance) = plan BY <1>1, SamePlan
<1>6. RequestFine(book, mine) BY <1>1, <1>2 DEF RequestFine
<1>7. ClientFine(mine, book, today, balance) BY <1>1, <1>2, <1>4, <1>5, <1>6 DEF ClientFine
<1> QED BY <1>3, <1>7, OneClientKeeps

\* A request that fails leaves nothing.
LEMMA FailKeeps ==
  ASSUME PositionsInv, NEW c \in Clients, Fail(c)
  PROVE  PositionsInv'
<1>1. clients' = [clients EXCEPT ![c] = Idle] /\ UNCHANGED <<book, today, balance, filed, mirror>>
  BY DEF Fail
<1>2. ClientFine(Idle, book, today, balance) BY IdleIsFine
<1> QED BY <1>1, <1>2, OneClientKeeps

\* A commit applies the request to the book there is, files its plan and overtakes the rest.
LEMMA CommitKeeps ==
  ASSUME PositionsInv, NEW c \in Clients, Commit(c)
  PROVE  PositionsInv'
<1> DEFINE x == clients[c]
           plan == clients[c].plan
           b == Effect(book, x)
<1>1. BookFine(book) /\ today \in Days BY DEF PositionsInv
<1>2. /\ x.written /\ book' = b /\ clients' = [Overtaken(b) EXCEPT ![c] = Idle]
      /\ mirror' = Passed(b) /\ UNCHANGED <<today, asked>>
  BY DEF Commit
<1>3. RequestFine(book, x) /\ PlanFine(plan)
  <2>1. x.request # None
    <3> SUFFICES ASSUME x.request = None PROVE FALSE OBVIOUS
    <3>1. x = Idle BY DEF PositionsInv, ClientFine
    <3>2. ~Idle.written BY DEF Idle, Client
    <3> QED BY <1>2, <3>1, <3>2
  <2> QED BY <1>2, <2>1 DEF PositionsInv, ClientFine
<1>4. BookFine(b) /\ SourcesStay(book, b) BY <1>1, <1>3, EffectIs
<1>5. balance' = [a \in Derived |-> IF a \in DOMAIN plan /\ plan[a].is # plan[a].was
                                    THEN plan[a].is ELSE balance[a]]
  BY DEF Commit
<1>6. filed' = [a \in Derived |-> IF a \in DOMAIN plan /\ plan[a].day # None
                                  THEN [filed[a] EXCEPT ![plan[a].day] = plan[a].whole]
                                  ELSE filed[a]]
  BY DEF Commit
<1> HIDE DEF x, plan, b
<1>7. balance' \in [Derived -> Int] BY <1>3, <1>5 DEF PlanFine, PositionsInv
<1>8. /\ filed' \in [Derived -> [Days -> BOOLEAN \cup {None}]]
      /\ FiledIsWhole'
  <2>1. filed \in [Derived -> [Days -> BOOLEAN \cup {None}]] /\ FiledIsWhole BY DEF PositionsInv
  <2>2. ASSUME NEW a \in Derived
        PROVE  /\ filed'[a] \in [Days -> BOOLEAN \cup {None}]
               /\ CurrencyOf[a] = Base => \A d \in Days : filed'[a][d] # FALSE
    <3> DEFINE day == plan[a].day
               whole == plan[a].whole
               was == filed[a]
    <3>1. was \in [Days -> BOOLEAN \cup {None}] /\ (CurrencyOf[a] = Base => \A d \in Days : was[d] # FALSE)
      BY <2>1 DEF FiledIsWhole
    <3>2. CASE a \in DOMAIN plan /\ day # None
      <4>1. day \in Days /\ whole \in BOOLEAN /\ (CurrencyOf[a] = Base => whole)
        BY <1>3, <3>2 DEF PlanFine
      <4>2. filed'[a] = [was EXCEPT ![day] = whole] BY <1>6, <3>2
      <4> HIDE DEF day, whole, was
      <4>3. filed'[a] \in [Days -> BOOLEAN \cup {None}] BY <3>1, <4>1, <4>2
      <4>4. \A d \in Days : filed'[a][d] = IF d = day THEN whole ELSE was[d] BY <3>1, <4>1, <4>2
      <4>5. CurrencyOf[a] = Base => \A d \in Days : filed'[a][d] # FALSE BY <3>1, <4>1, <4>4
      <4> QED BY <4>3, <4>5
    <3>3. CASE ~(a \in DOMAIN plan /\ day # None)
      <4>1. filed'[a] = was BY <1>6, <3>3
      <4> QED BY <3>1, <4>1
    <3> QED BY <3>2, <3>3
  <2>3. DOMAIN filed' = Derived /\ filed' = [a \in Derived |-> filed'[a]] BY <1>6
  <2>4. filed' \in [Derived -> [Days -> BOOLEAN \cup {None}]] BY <2>2, <2>3
  <2>5. FiledIsWhole' BY <2>2 DEF FiledIsWhole
  <2> QED BY <2>4, <2>5
<1>9. clients' = [d \in Clients |-> clients'[d]]
      /\ \A d \in Clients : clients'[d] = Idle \/ clients'[d] = Overtaken(b)[d]
  <2> DEFINE o == Overtaken(b)
  <2>1. o = [d \in Clients |-> o[d]] /\ clients' = [o EXCEPT ![c] = Idle] BY <1>2, OvertakenIs
  <2> HIDE DEF o
  <2>2. clients' = [d \in Clients |-> clients'[d]]
        /\ \A d \in Clients : clients'[d] = Idle \/ clients'[d] = o[d]
    BY <2>1
  <2> QED BY <2>2 DEF o
<1>10. mirror' # None => MirrorFine(book', mirror') BY <1>2, <1>4, PassedIsFine
<1>11. BookFine(book') /\ SourcesStay(book, book') /\ today' \in Days BY <1>1, <1>2, <1>4
<1>12. \A d \in Clients : clients'[d] = Idle \/ clients'[d] = Overtaken(book')[d] BY <1>2, <1>9
<1> QED BY <1>7, <1>8, <1>9, <1>10, <1>11, <1>12, OvertakingKeeps

\* What a sync reads is fine beside the book it was read from.
LEMMA SyncReadsKeeps ==
  ASSUME PositionsInv, NEW a \in Accounts, NEW list \in BankLists, SyncReads(a, list)
  PROVE  PositionsInv'
<1>1. BookFine(book) /\ today \in Days BY DEF PositionsInv
<1>2. UNCHANGED <<book, today, balance, filed, clients>> BY DEF SyncReads
<1>3. mirror'.read = Reading(book, a, list, today) BY DEF SyncReads
<1>4. MirrorFine(book, mirror') BY <1>1, <1>3, ReadingIsFine
<1>5. FiledIsWhole' BY <1>2 DEF PositionsInv, FiledIsWhole
<1> QED BY <1>2, <1>4, <1>5 DEF PositionsInv

\* A sync that writes leaves a fine book, whatever was committed since it read.
LEMMA SyncWritesKeeps ==
  ASSUME PositionsInv, SyncWrites
  PROVE  PositionsInv'
<1>1. BookFine(book) /\ MirrorFine(book, mirror) /\ ~Refused(book, mirror)
  BY DEF PositionsInv, SyncWrites
<1>2. book' = Mirrored(book, mirror) /\ clients' = Overtaken(book') /\ mirror' = None
      /\ UNCHANGED <<today, balance, filed>>
  BY DEF SyncWrites
<1>3. BookFine(book') /\ SourcesStay(book, book') BY <1>1, <1>2, MirroredIs, MirrorKeepsSources
<1>4. FiledIsWhole' BY <1>2 DEF PositionsInv, FiledIsWhole
<1>5. today' \in Days /\ balance' \in [Derived -> Int]
      /\ filed' \in [Derived -> [Days -> BOOLEAN \cup {None}]]
  BY <1>2 DEF PositionsInv
<1>6. clients' = [d \in Clients |-> clients'[d]] BY <1>2 DEF Overtaken
<1> QED BY <1>2, <1>3, <1>4, <1>5, <1>6, OvertakingKeeps

\* One that fails leaves nothing.
LEMMA SyncFailsKeeps ==
  ASSUME PositionsInv, SyncFails
  PROVE  PositionsInv'
<1>1. mirror' = None /\ UNCHANGED <<book, today, balance, filed, clients>> BY DEF SyncFails
<1>2. FiledIsWhole' BY <1>1 DEF PositionsInv, FiledIsWhole
<1> QED BY <1>1, <1>2 DEF PositionsInv

\* A day that ends overtakes every request, and writes nothing.
LEMMA NextDayKeeps ==
  ASSUME PositionsInv, NextDay PROVE PositionsInv'
<1>1. today' \in Days BY SetsAssumption DEF PositionsInv, NextDay, Days
<1>2. clients' = Overtaken(book') /\ UNCHANGED <<book, balance, filed, mirror>> BY DEF NextDay
<1>3. BookFine(book') /\ SourcesStay(book, book') BY <1>2 DEF PositionsInv, SourcesStay
<1>4. FiledIsWhole' BY <1>2 DEF PositionsInv, FiledIsWhole
<1>5. balance' \in [Derived -> Int] /\ filed' \in [Derived -> [Days -> BOOLEAN \cup {None}]]
      /\ (mirror' # None => MirrorFine(book', mirror'))
  BY <1>2 DEF PositionsInv
<1>6. clients' = [d \in Clients |-> clients'[d]] BY <1>2 DEF Overtaken
<1> QED BY <1>1, <1>2, <1>3, <1>4, <1>5, <1>6, OvertakingKeeps

\* A rate that is stated overtakes every request, and moves no row.
LEMMA StateRateKeeps ==
  ASSUME PositionsInv, NEW s \in Securities, StateRate(CurrencyOf[s]) PROVE PositionsInv'
<1> DEFINE known == book.rated \cup {CurrencyOf[s]}
           b == [book EXCEPT !.rated = known]
<1>1. BookFine(book) /\ book \in Book BY DEF PositionsInv, BookFine
<1>2. book' = b /\ clients' = Overtaken(book') /\ UNCHANGED <<today, balance, filed, mirror>>
  BY DEF StateRate
<1>3. known \in SUBSET {CurrencyOf[t] : t \in Securities} BY <1>1 DEF Book
<1> HIDE DEF known
<1>4. b \in Book /\ b.listed = book.listed /\ b.rows = book.rows /\ b.trades = book.trades
  BY <1>1, <1>3 DEF Book
<1> HIDE DEF b
<1>5. BookFine(book') /\ SourcesStay(book, book') BY <1>1, <1>2, <1>4 DEF BookFine, SourcesStay
<1>6. FiledIsWhole' BY <1>2 DEF PositionsInv, FiledIsWhole
<1>7. mirror' # None => MirrorFine(book', mirror') BY <1>2, <1>4 DEF PositionsInv, MirrorFine
<1>8. today' \in Days /\ balance' \in [Derived -> Int]
      /\ filed' \in [Derived -> [Days -> BOOLEAN \cup {None}]]
  BY <1>2 DEF PositionsInv
<1>9. clients' = [d \in Clients |-> clients'[d]] BY <1>2 DEF Overtaken
<1> QED BY <1>2, <1>5, <1>6, <1>7, <1>8, <1>9, OvertakingKeeps

\* Every step keeps the invariant.
LEMMA PositionsStep ==
  ASSUME PositionsInv, [Next]_vars PROVE PositionsInv'
<1>1. CASE UNCHANGED vars BY <1>1 DEF PositionsInv, FiledIsWhole, vars
<1> QED BY <1>1, AskKeeps, WriteKeeps, FailKeeps, CommitKeeps, SyncReadsKeeps, SyncWritesKeeps,
           SyncFailsKeeps, NextDayKeeps, StateRateKeeps DEF Next

\* The invariant says what is promised of the book, the filed balances and the bank's rows.
LEMMA PositionsAreSound ==
  ASSUME PositionsInv PROVE MirrorIsSound
<1>1. BookFine(book) /\ today \in Days /\ FiledIsWhole /\ balance \in [Derived -> Int]
      /\ (mirror # None => MirrorFine(book, mirror))
  BY DEF PositionsInv
<1>2. TypeOK
  <2>1. ASSUME NEW row, RowFine(row), row.pin # NoPin
        PROVE  row.pin.total # None /\ row.pin.quantity \notin {None, 0}
    BY <2>1, NoneAssumption DEF RowFine, PinFine
  <2>2. \A p \in Positions :
          /\ book.rows[p] # None =>
               /\ RowFine(book.rows[p])
               /\ book.rows[p].quantity # 0
               /\ book.rows[p].source \in {"manual", "bank"}
               /\ book.rows[p].frozen => book.rows[p].source = "bank"
          /\ p[2] \notin book.listed => book.rows[p] = None /\ book.trades[p] = {}
    BY <1>1, FineRowIs DEF BookFine
  <2>3. book.listed \subseteq Securities BY <1>1 DEF BookFine, Book
  <2>4. \A a \in Derived : balance[a] \in Int BY <1>1
  <2> QED BY <1>1, <2>1, <2>2, <2>3, <2>4 DEF TypeOK
<1>3. HandWorkSurvives BY <1>1, HandWorkStays
<1>4. SyncMirrorsTheBank BY <1>1, SyncMirrors
<1> QED BY <1>1, <1>2, <1>3, <1>4 DEF MirrorIsSound

\* A commit of what nothing overtook leaves each moved balance at its positions' worth.
LEMMA CommitFollows ==
  ASSUME PositionsInv, NEW c \in Clients, Commit(c), ~clients[c].late, NEW a \in Derived,
         Worth(book', a, today) # Worth(book, a, today)
  PROVE  balance'[a] = Worth(book', a, today)
<1> DEFINE x == clients[c]
           r == x.request
           plan == x.plan
           b == Effect(book, x)
<1>1. x.written /\ book' = b BY DEF Commit
<1>2. /\ BookFine(book) /\ RequestFine(book, x) /\ plan = Plan(book, x, today, balance)
      /\ r.kind = "drop" => x.holders = Affected(book, r)
  <2>1. r # None
    <3> SUFFICES ASSUME r = None PROVE FALSE OBVIOUS
    <3>1. x = Idle BY DEF PositionsInv, ClientFine
    <3>2. ~Idle.written BY DEF Idle, Client
    <3> QED BY <1>1, <3>1, <3>2
  <2> QED BY <1>1, <2>1 DEF PositionsInv, ClientFine
<1>3. balance' = [y \in Derived |-> IF y \in DOMAIN plan /\ plan[y].is # plan[y].was
                                    THEN plan[y].is ELSE balance[y]]
  BY DEF Commit
<1>4. a \in Accounts BY SetsAssumption
<1>5. Worth(b, a, today) # Worth(book, a, today) BY <1>1
<1>6. a \in Affected(book, r)
  <2> HIDE DEF x
  <2> QED BY <1>2, <1>4, <1>5, UnaffectedKeepsItsWorth DEF b
<1>7. a \in DOMAIN plan /\ plan[a] = Revalued(b, a, today, balance[a])
  <2> HIDE DEF x
  <2>1. a \in Derived \cap (IF r.kind = "drop" THEN x.holders ELSE Affected(book, r)) BY <1>2, <1>6
  <2> QED BY <1>2, <2>1 DEF Plan, r, b
<1>8. plan[a].is = Worth(b, a, today) /\ plan[a].was = balance[a] BY <1>7 DEF Revalued
<1> HIDE DEF plan, b
<1>9. balance'[a] = Worth(b, a, today) BY <1>3, <1>7, <1>8
<1> QED BY <1>1, <1>9

\* Only its commit takes a request that has written out of flight.
LEMMA OnlyCommitsEnd ==
  ASSUME PositionsInv, [Next]_vars, NEW c \in Clients, clients[c].written, clients'[c].request = None
  PROVE  Commit(c)
<1>1. clients[c].request # None
  <2> SUFFICES ASSUME clients[c].request = None PROVE FALSE OBVIOUS
  <2>1. clients[c] = Idle BY DEF PositionsInv, ClientFine
  <2>2. ~Idle.written BY DEF Idle, Client
  <2> QED BY <2>1, <2>2
<1>2. clients = [d \in Clients |-> clients[d]] BY DEF PositionsInv
<1>3. ASSUME NEW b PROVE Overtaken(b) = [d \in Clients |-> Overtaken(b)[d]] /\ Overtaken(b)[c].request # None
  BY <1>1, OvertakenIs
<1>4. ASSUME NEW d \in Clients, d # c, Commit(d) PROVE FALSE
  <2> DEFINE o == Overtaken(book')
  <2>1. clients' = [o EXCEPT ![d] = Idle] BY <1>4 DEF Commit
  <2>2. o = [e \in Clients |-> o[e]] /\ o[c].request # None BY <1>3
  <2> HIDE DEF o
  <2>3. clients'[c] = o[c] BY <1>4, <2>1, <2>2
  <2> QED BY <2>2, <2>3
<1>5. ASSUME NEW d \in Clients, NEW asks \in Requests, Ask(d, asks) PROVE FALSE
  <2>1. clients[d].request = None BY <1>5 DEF Ask
  <2>2. clients'[c] = clients[c] BY <1>1, <1>2, <1>5, <2>1 DEF Ask
  <2> QED BY <1>1, <2>2
<1>6. ASSUME NEW d \in Clients, Write(d) \/ Fail(d) PROVE FALSE
  <2>1. ~clients[d].written BY <1>6 DEF Write, Fail
  <2>2. d # c BY <2>1
  <2>3. clients'[c] = clients[c] BY <1>2, <1>6, <2>2 DEF Write, Fail
  <2> QED BY <1>1, <2>3
<1>7. ASSUME NEW b, clients' = Overtaken(b) PROVE FALSE BY <1>3, <1>7
<1>8. ~(UNCHANGED clients) BY <1>1
<1> QED BY <1>4, <1>5, <1>6, <1>7, <1>8 DEF Next, SyncReads, SyncWrites, SyncFails, NextDay, StateRate, vars

-----------------------------------------------------------------------------
(* The theorems                                                            *)

\* PositionsInv is inductive: the books, the filed balances, every request and the sync in flight
\* stay fine under requests and syncs that read and write at different moments, new days and new
\* rates.
THEOREM PositionsInductive == Spec => []PositionsInv
<1>1. Init => PositionsInv BY PositionsStart
<1>2. PositionsInv /\ [Next]_vars => PositionsInv' BY PositionsStep
<1> QED BY <1>1, <1>2, PTL DEF Spec

\* Filed balances value every position, the bank's rows are its list after a sync that nothing
\* overtook, and hand work that was there when it read survives it.
THEOREM MirrorIsSoundForAll == InvestmentsSpec => []MirrorIsSound
<1>1. PositionsInv => MirrorIsSound BY PositionsAreSound
<1> QED BY <1>1, PositionsInductive, PTL DEF InvestmentsSpec

\* Whatever is recorded, amended, forgotten and typed, the trades are trades and the typed row is one.
THEOREM HistoryInductive == HistorySpec => []HistoryTypeOK
<1>1. HistoryInit => HistoryTypeOK BY HistoryStarts
<1>2. HistoryTypeOK /\ [HistoryNext]_historyVars => HistoryTypeOK' BY HistoryStep
<1> QED BY <1>1, <1>2, PTL DEF HistorySpec

\* Whatever trades are recorded, amended and forgotten, and in whatever order, their fold is an
\* average-cost account.
THEOREM FoldIsSoundForAll == InvestmentsSpec => []FoldIsSound
<1>1. HistoryTypeOK => FoldIsSound BY FoldsAreSound DEF FoldIsSound
<1> QED BY <1>1, HistoryInductive, PTL DEF InvestmentsSpec

\* What was typed waits behind the trades, and balances follow their positions.
THEOREM PositionsAreKeptForAll == InvestmentsSpec => PositionsAreKept
<1>1. [HistoryNext]_historyVars => [trades # <<>> /\ typed # Null => typed' \in {typed, Null}]_historyVars
  BY TypedWaits
<1>2. PositionsInv /\ [Next]_vars =>
        [\A c \in Clients :
           clients[c].written /\ clients'[c].request = None /\ ~clients[c].late =>
             \A a \in Derived :
               Worth(book', a, today) # Worth(book, a, today)
                 => balance'[a] = Worth(book', a, today)]_vars
  <2> SUFFICES ASSUME PositionsInv, [Next]_vars, NEW c \in Clients,
                      clients[c].written, clients'[c].request = None, ~clients[c].late,
                      NEW a \in Derived, Worth(book', a, today) # Worth(book, a, today)
               PROVE  balance'[a] = Worth(book', a, today)
    OBVIOUS
  <2>1. Commit(c) BY OnlyCommitsEnd
  <2> QED BY <2>1, CommitFollows
<1>3. HistorySpec => TypedWaitsBehindTrades BY <1>1, PTL DEF HistorySpec, TypedWaitsBehindTrades
<1>4. Spec => BalanceFollowsPositions
  BY <1>2, PositionsInductive, PTL DEF Spec, BalanceFollowsPositions
<1> QED BY <1>3, <1>4, PTL DEF InvestmentsSpec, PositionsAreKept

=============================================================================
