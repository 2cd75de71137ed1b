--------------------------- MODULE LedgerRowProofs ---------------------------
(***************************************************************************)
(* One ledger row, proved for any amounts, rates, rules, splits and any    *)
(* writers that overlap.  Money is conserved: what an allocation gives the *)
(* parts adds up, so a split row's legs follow it in both currencies.  What*)
(* a person decided, only a writer that had not seen it may undo.          *)
(***************************************************************************)
EXTENDS LedgerRow, Recursion, SequenceTheorems

-----------------------------------------------------------------------------
(* Sums                                                                    *)

LEMMA SumBySum ==
  ASSUME NEW s \in Seq(Int)
  PROVE  /\ Sums(s)[0] = 0
         /\ \A n \in 1..Len(s) : Sums(s)[n] = Sums(s)[n - 1] + s[n]
<1> DEFINE N == Len(s)
           G == [x \in (1..N) \X Int |-> x[2] + s[x[1]]]
<1>1. N \in Nat /\ \A n \in 1..N : s[n] \in Int OBVIOUS
<1>2. G \in [(1..N) \X Int -> Int]
  <2> HIDE DEF N
  <2> QED BY <1>1
<1>3. \A n \in 1..N, acc \in Int : G[<<n, acc>>] = acc + s[n] OBVIOUS
<1> HIDE DEF G
<1>4. PICK f : Follows(f, N, Int, 0, G)
  <2> DEFINE T == Int
  <2>1. G \in Steps(N, T) BY <1>2 DEF Steps
  <2>2. N \in Nat /\ 0 \in T BY <1>1
  <2> HIDE DEF N, T
  <2>3. \E f : Follows(f, N, T, 0, G) BY <2>1, <2>2, Recursion
  <2> QED BY <2>3 DEF T
<1> DEFINE Body(t) == [n \in 0..N |-> IF n = 0 THEN 0 ELSE t[n - 1] + s[n]]
<1>5. f = Body(f)
  <2>1. ASSUME NEW k \in 1..N PROVE f[k] = f[k - 1] + s[k]
    <3>1. k - 1 \in 0..N BY <1>1
    <3> QED BY <3>1, <1>3, <1>4 DEF Follows
  <2> HIDE DEF N
  <2> QED BY <2>1, <1>1, <1>4 DEF Follows
<1>6. Sums(s) = CHOOSE t : t = Body(t) BY DEF Sums
<1> HIDE DEF Body
<1>7. Sums(s) = Body(Sums(s)) BY <1>5, <1>6
<1> QED BY <1>1, <1>7, SMTT(30) DEF Body

LEMMA SumsAreInt ==
  ASSUME NEW s \in Seq(Int)
  PROVE  /\ \A n \in 0..Len(s) : Sums(s)[n] \in Int
         /\ Total(s) \in Int
<1> DEFINE N == Len(s)
           S == {n \in 0..N : Sums(s)[n] \in Int}
<1>1. N \in Nat /\ \A n \in 1..N : s[n] \in Int OBVIOUS
<1>2. 0 \in S BY <1>1, SumBySum
<1>3. \A k \in 0..(N - 1) : k \in S => k + 1 \in S
  <2> SUFFICES ASSUME NEW k \in 0..(N - 1), k \in S PROVE k + 1 \in S OBVIOUS
  <2>1. k + 1 \in 1..N /\ k + 1 - 1 = k BY <1>1
  <2>2. Sums(s)[k + 1] = Sums(s)[k] + s[k + 1] BY <2>1, SumBySum
  <2> QED BY <1>1, <2>1, <2>2
<1> HIDE DEF S
<1>4. \A k \in 0..N : k \in S BY <1>1, <1>2, <1>3, UpTo
<1> QED BY <1>1, <1>4 DEF S, Total

\* Two sequences that agree up to a place have the same sums up to it.
LEMMA SameSums ==
  ASSUME NEW s \in Seq(Int), NEW t \in Seq(Int), NEW m \in 0..Len(s), m <= Len(t),
         \A n \in 1..m : t[n] = s[n]
  PROVE  Sums(t)[m] = Sums(s)[m]
<1> DEFINE S == {n \in 0..m : Sums(t)[n] = Sums(s)[n]}
<1>1. m \in Nat /\ Len(s) \in Nat /\ Len(t) \in Nat OBVIOUS
<1>2. 0 \in S BY <1>1, SumBySum
<1>3. \A k \in 0..(m - 1) : k \in S => k + 1 \in S
  <2> SUFFICES ASSUME NEW k \in 0..(m - 1), k \in S PROVE k + 1 \in S OBVIOUS
  <2>1. k + 1 \in 1..m /\ k + 1 - 1 = k /\ k + 1 \in 1..Len(s) /\ k + 1 \in 1..Len(t) BY <1>1
  <2>2. Sums(s)[k + 1] = Sums(s)[k] + s[k + 1] BY <2>1, SumBySum
  <2>3. Sums(t)[k + 1] = Sums(t)[k] + t[k + 1] BY <2>1, SumBySum
  <2> QED BY <2>1, <2>2, <2>3
<1> HIDE DEF S
<1>4. \A k \in 0..m : k \in S BY <1>1, <1>2, <1>3, UpTo
<1> QED BY <1>1, <1>4 DEF S

\* What one of the parts is given, the sum is given.
LEMMA SumMoved ==
  ASSUME NEW s \in Seq(Int), NEW t \in Seq(Int), Len(t) = Len(s),
         NEW i \in 1..Len(s), NEW d \in Int, t[i] = s[i] + d,
         \A j \in 1..Len(s) : j # i => t[j] = s[j]
  PROVE  Total(t) = Total(s) + d
<1> DEFINE N == Len(s)
           S == {n \in 0..N : Sums(t)[n] = Sums(s)[n] + (IF i <= n THEN d ELSE 0)}
<1>1. N \in Nat /\ \A n \in 1..N : s[n] \in Int /\ t[n] \in Int OBVIOUS
<1>2. 0 \in S BY <1>1, SumBySum
<1>3. \A k \in 0..(N - 1) : k \in S => k + 1 \in S
  <2> SUFFICES ASSUME NEW k \in 0..(N - 1), k \in S PROVE k + 1 \in S OBVIOUS
  <2>1. k + 1 \in 1..N /\ k + 1 - 1 = k /\ k \in 0..N BY <1>1
  <2>2. Sums(t)[k] = Sums(s)[k] + (IF i <= k THEN d ELSE 0) OBVIOUS
  <2> HIDE DEF S
  <2>3. Sums(s)[k + 1] = Sums(s)[k] + s[k + 1]
    <3>1. \A n \in 1..Len(s) : Sums(s)[n] = Sums(s)[n - 1] + s[n] BY SumBySum
    <3> QED BY <2>1, <3>1
  <2>4. Sums(t)[k + 1] = Sums(t)[k] + t[k + 1]
    <3>1. \A n \in 1..Len(t) : Sums(t)[n] = Sums(t)[n - 1] + t[n] BY SumBySum
    <3> QED BY <2>1, <3>1
  <2>5. Sums(s)[k] \in Int /\ s[k + 1] \in Int BY <1>1, <2>1, SumsAreInt
  <2>6. Sums(t)[k + 1] = Sums(s)[k + 1] + (IF i <= k + 1 THEN d ELSE 0)
    <3> DEFINE a == Sums(s)[k]
               b == s[k + 1]
    <3>0. i \in Int /\ k \in Int /\ a \in Int /\ b \in Int BY <1>1, <2>1, <2>5
    <3>1. CASE k + 1 = i
      <4>1. t[k + 1] = b + d /\ ~(i <= k) /\ i <= k + 1 BY <3>0, <3>1, SMTT(30)
      <4>2. Sums(t)[k + 1] = a + (b + d) BY <2>2, <2>4, <3>0, <4>1
      <4> HIDE DEF a, b
      <4> QED BY <2>3, <3>0, <4>1, <4>2, SMTT(30) DEF a, b
    <3>2. CASE k + 1 # i
      <4>1. t[k + 1] = b /\ (i <= k <=> i <= k + 1) BY <2>1, <3>0, <3>2
      <4> QED BY <2>2, <2>3, <2>4, <3>0, <4>1, SMTT(30)
    <3> QED BY <3>1, <3>2
  <2> QED BY <1>1, <2>1, <2>6 DEF S
<1> HIDE DEF S
<1>4. \A k \in 0..N : k \in S BY <1>1, <1>2, <1>3, UpTo
<1>5. N \in S /\ i <= N BY <1>1, <1>4
<1> QED BY <1>5 DEF S, Total

\* Positive parts have a positive sum.
LEMMA SumIsPositive ==
  ASSUME NEW s \in Seq(Int), s # <<>>, \A n \in 1..Len(s) : s[n] > 0
  PROVE  Total(s) > 0
<1> DEFINE N == Len(s)
           S == {n \in 0..N : Sums(s)[n] >= n}
<1>1. N \in Nat \ {0} /\ \A n \in 1..N : s[n] \in Int BY EmptySeq
<1>2. 0 \in S BY <1>1, SumBySum
<1>3. \A k \in 0..(N - 1) : k \in S => k + 1 \in S
  <2> SUFFICES ASSUME NEW k \in 0..(N - 1), k \in S PROVE k + 1 \in S OBVIOUS
  <2>1. k + 1 \in 1..N /\ k + 1 - 1 = k BY <1>1
  <2>2. Sums(s)[k + 1] = Sums(s)[k] + s[k + 1] BY <2>1, SumBySum
  <2>3. Sums(s)[k] \in Int /\ s[k + 1] \in Int BY <1>1, <2>1, SumsAreInt
  <2> QED BY <2>1, <2>2, <2>3
<1> HIDE DEF S
<1>4. \A k \in 0..N : k \in S BY <1>1, <1>2, <1>3, UpTo
<1>5. N \in S BY <1>1, <1>4
<1> QED BY <1>1, <1>5, SumsAreInt DEF S, Total

-----------------------------------------------------------------------------
(* Money                                                                   *)

LEMMA RoundedIsInt ==
  ASSUME NEW n \in Int, NEW d \in Nat \ {0}
  PROVE  RoundHalfUp(n, d) \in Int
<1>1. 2 * d \in Nat \ {0} /\ 2 * n + d \in Int /\ 2 * (-n) + d \in Int OBVIOUS
<1>2. \A a \in Int, b \in Nat \ {0} : a \div b \in Int OBVIOUS
<1>3. (2 * n + d) \div (2 * d) \in Int /\ (2 * (-n) + d) \div (2 * d) \in Int BY <1>1, <1>2
<1> QED BY <1>3 DEF RoundHalfUp

\* Some part is the greatest, and the earliest of those.
LEMMA RemainderHasAPlace ==
  ASSUME NEW s \in Seq(Int), s # <<>>
  PROVE  RemainderAt(s) \in 1..Len(s)
<1> DEFINE N == Len(s)
           First(i, n) == \A j \in 1..n : s[i] > s[j] \/ (s[i] = s[j] /\ i <= j)
           S == {n \in 0..N : n = 0 \/ \E i \in 1..n : First(i, n)}
<1>1. N \in Nat \ {0} /\ \A n \in 1..N : s[n] \in Int BY EmptySeq
<1>2. 0 \in S BY <1>1
<1>3. \A k \in 0..(N - 1) : k \in S => k + 1 \in S
  <2> SUFFICES ASSUME NEW k \in 0..(N - 1), k \in S PROVE k + 1 \in S OBVIOUS
  <2>1. k + 1 \in 1..N BY <1>1
  <2>2. CASE k = 0
    <3>1. First(1, 1) BY <1>1
    <3> QED BY <2>1, <2>2, <3>1
  <2>3. CASE k # 0
    <3>1. PICK i \in 1..k : First(i, k) BY <2>3
    <3>2. i \in 1..N /\ \A j \in 1..k : j \in 1..N BY <1>1
    <3>3. CASE s[i] >= s[k + 1]
      <4>1. First(i, k + 1) BY <1>1, <2>1, <3>1, <3>2, <3>3
      <4>2. i \in 1..(k + 1) /\ k + 1 \in 0..N BY <2>1
      <4> HIDE DEF First
      <4> QED BY <4>1, <4>2
    <3>4. CASE s[k + 1] > s[i]
      <4>1. First(k + 1, k + 1) BY <1>1, <2>1, <3>1, <3>2, <3>4
      <4>2. k + 1 \in 1..(k + 1) /\ k + 1 \in 0..N BY <2>1
      <4> HIDE DEF First
      <4> QED BY <4>1, <4>2
    <3>5. s[i] \in Int /\ s[k + 1] \in Int BY <1>1, <2>1, <3>2
    <3>6. s[i] >= s[k + 1] \/ s[k + 1] > s[i] BY <3>5
    <3> QED BY <3>3, <3>4, <3>6
  <2> QED BY <2>2, <2>3
<1> HIDE DEF S
<1>4. \A k \in 0..N : k \in S BY <1>1, <1>2, <1>3, UpTo
<1>5. PICK i \in 1..N : First(i, N)
  <2>1. N \in S /\ N # 0 BY <1>1, <1>4
  <2> HIDE DEF First
  <2> QED BY <2>1 DEF S
<1>6. DOMAIN s = 1..N OBVIOUS
<1> QED BY <1>5, <1>6 DEF RemainderAt

\* What an allocation gives the parts adds up to what was allocated.
LEMMA AllocateAddsUp ==
  ASSUME NEW total \in Int, NEW weights \in Seq(Int) \ {<<>>}, Total(weights) > 0
  PROVE  /\ Allocate(total, weights) \in Seq(Int)
         /\ Len(Allocate(total, weights)) = Len(weights)
         /\ Total(Allocate(total, weights)) = total
<1> DEFINE N == Len(weights)
           W == Total(weights)
           part(i) == Minor * RoundHalfUp(total * weights[i], W * Minor)
           rounded == [i \in DOMAIN weights |-> part(i)]
           given == [rounded EXCEPT ![RemainderAt(rounded)] = @ + total - Total(rounded)]
<1>1. N \in Nat \ {0} /\ DOMAIN weights = 1..N /\ \A n \in 1..N : weights[n] \in Int BY EmptySeq
<1>2. W \in Int /\ W > 0 BY SumsAreInt
<1>3. Minor \in Nat \ {0} /\ W * Minor \in Nat \ {0}
  <2> HIDE DEF W
  <2>1. Minor \in Nat \ {0} BY MoneyAssumption
  <2>2. \A a, b \in Nat \ {0} : a * b \in Nat \ {0} OBVIOUS
  <2> QED BY <1>2, <2>1, <2>2
<1>4. \A i \in 1..N : part(i) \in Int
  <2> HIDE DEF W, N
  <2>1. \A i \in 1..N : total * weights[i] \in Int BY <1>1
  <2>2. \A a \in Int : Minor * a \in Int BY <1>3
  <2> QED BY <1>3, <2>1, <2>2, RoundedIsInt
<1> HIDE DEF part, W
<1>5. rounded = [i \in 1..N |-> part(i)] BY <1>1
<1>6. rounded \in Seq(Int) /\ Len(rounded) = N /\ rounded # <<>>
  <2> HIDE DEF N
  <2> QED BY <1>1, <1>4, <1>5, IsASeq, LenProperties, EmptySeq
<1> HIDE DEF rounded, N
<1>7. RemainderAt(rounded) \in 1..N BY <1>6, RemainderHasAPlace
<1>8. Total(rounded) \in Int BY <1>6, SumsAreInt
<1> DEFINE k == RemainderAt(rounded)
           d == total - Total(rounded)
<1>9. rounded[k] \in Int /\ d \in Int /\ rounded[k] + total - Total(rounded) = rounded[k] + d
      /\ rounded[k] + d \in Int
  BY <1>1, <1>6, <1>7, <1>8
<1>10. given = [rounded EXCEPT ![k] = rounded[k] + d] BY <1>9
<1> HIDE DEF d, k, given
<1>11. given \in Seq(Int) /\ Len(given) = N /\ k \in 1..N BY <1>6, <1>7, <1>9, <1>10, ExceptSeq DEF k
<1>12. given[k] = rounded[k] + d /\ \A j \in 1..N : j # k => given[j] = rounded[j]
  BY <1>6, <1>10, <1>11
<1>13. Total(given) = Total(rounded) + d
  <2>1. rounded \in Seq(Int) /\ given \in Seq(Int) /\ Len(given) = Len(rounded) BY <1>6, <1>11
  <2>2. k \in 1..Len(rounded) /\ d \in Int BY <1>6, <1>9, <1>11
  <2>3. \A j \in 1..Len(rounded) : j # k => given[j] = rounded[j] BY <1>6, <1>12
  <2> QED BY <1>12, <2>1, <2>2, <2>3, SumMoved
<1>14. Total(given) = total BY <1>8, <1>13 DEF d
<1>15. Allocate(total, weights) = given BY DEF Allocate, given, rounded, part, W
<1> QED BY <1>11, <1>14, <1>15 DEF N

LEMMA WeightsArePositive ==
  ASSUME NEW natives \in Seq(Int) \ {<<>>}
  PROVE  /\ Weights(natives) \in Seq(Int) \ {<<>>}
         /\ Len(Weights(natives)) = Len(natives)
         /\ Total(Weights(natives)) > 0
<1> DEFINE N == Len(natives)
           weight(i) == IF natives[i] = 0 THEN 1 ELSE Abs(natives[i])
<1>1. N \in Nat \ {0} /\ DOMAIN natives = 1..N /\ \A n \in 1..N : natives[n] \in Int BY EmptySeq
<1>2. \A i \in 1..N : weight(i) \in Int /\ weight(i) > 0
  <2> HIDE DEF N
  <2> QED BY <1>1 DEF Abs
<1> HIDE DEF weight
<1>3. Weights(natives) = [i \in 1..N |-> weight(i)] BY <1>1 DEF Weights, weight
<1> HIDE DEF N
<1>4. Weights(natives) \in Seq(Int) /\ Len(Weights(natives)) = N
  BY <1>1, <1>2, <1>3, IsASeq, LenProperties
<1>5. Weights(natives) # <<>> BY <1>1, <1>4, EmptySeq
<1>6. \A n \in 1..Len(Weights(natives)) : Weights(natives)[n] > 0 BY <1>2, <1>3, <1>4
<1> QED BY <1>4, <1>5, <1>6, SumIsPositive DEF N

\* A base amount shared among legs adds up to itself; one there is none of, to none.
LEMMA SharedAddsUp ==
  ASSUME NEW base \in Int \cup {None}, NEW natives \in Seq(Int) \ {<<>>}
  PROVE  /\ Shared(base, natives) \in Seq(Int \cup {None})
         /\ Len(Shared(base, natives)) = Len(natives)
         /\ base = None => \A i \in 1..Len(natives) : Shared(base, natives)[i] = None
         /\ base # None => /\ Shared(base, natives) \in Seq(Int)
                           /\ Total(Shared(base, natives)) = base
<1> DEFINE N == Len(natives)
<1>1. N \in Nat \ {0} /\ DOMAIN natives = 1..N BY EmptySeq
<1>2. CASE base = None
  <2>1. Shared(base, natives) = [i \in 1..N |-> None] BY <1>1, <1>2 DEF Shared
  <2> HIDE DEF N
  <2>2. Shared(base, natives) \in Seq(Int \cup {None}) /\ Len(Shared(base, natives)) = N
    BY <1>1, <2>1, IsASeq, LenProperties
  <2> QED BY <1>2, <2>1, <2>2 DEF N
<1>3. CASE base # None
  <2>1. base \in Int /\ Shared(base, natives) = Allocate(base, Weights(natives))
    BY <1>3 DEF Shared
  <2>2. /\ Shared(base, natives) \in Seq(Int)
        /\ Len(Shared(base, natives)) = N
        /\ Total(Shared(base, natives)) = base
    BY <2>1, AllocateAddsUp, WeightsArePositive
  <2>3. Shared(base, natives) \in Seq(Int \cup {None}) BY <2>2, SeqMonotonic
  <2> QED BY <1>3, <2>2, <2>3
<1> QED BY <1>2, <1>3

\* Among days up to a day there is a last.
LEMMA LastDay ==
  ASSUME NEW n \in Nat, NEW S \in SUBSET (0..n), S # {}
  PROVE  \E d \in S : \A e \in S : e <= d
<1> DEFINE HasLast(A) == \E d \in A : \A e \in A : e <= d
           T == {k \in 0..n : \A A \in SUBSET (0..k) : A # {} => HasLast(A)}
<1>1. 0 \in T
  <2>1. \A A \in SUBSET (0..0) : A # {} => 0 \in A /\ \A e \in A : e <= 0
    <3> SUFFICES ASSUME NEW A \in SUBSET (0..0), A # {}
                 PROVE  0 \in A /\ \A e \in A : e <= 0
      OBVIOUS
    <3>1. \A e \in A : e = 0 OBVIOUS
    <3>2. PICK e \in A : TRUE OBVIOUS
    <3> QED BY <3>1, <3>2
  <2>2. \A A \in SUBSET (0..0) : A # {} => HasLast(A) BY <2>1
  <2> QED BY <2>2
<1>2. \A k \in 0..(n - 1) : k \in T => k + 1 \in T
  <2> SUFFICES ASSUME NEW k \in 0..(n - 1), k \in T PROVE k + 1 \in T OBVIOUS
  <2>1. \A A \in SUBSET (0..k) : A # {} => HasLast(A) OBVIOUS
  <2>2. ASSUME NEW A \in SUBSET (0..(k + 1)), A # {} PROVE HasLast(A)
    <3>1. CASE k + 1 \in A
      <4>1. \A e \in A : e <= k + 1 OBVIOUS
      <4> QED BY <3>1, <4>1
    <3>2. CASE k + 1 \notin A
      <4>1. A \in SUBSET (0..k) BY <3>2
      <4> QED BY <2>1, <2>2, <4>1
    <3> QED BY <3>1, <3>2
  <2> HIDE DEF HasLast
  <2> QED BY <2>2
<1> HIDE DEF T
<1>3. n \in T BY <1>1, <1>2, UpTo
<1> QED BY <1>3 DEF T

LEMMA ToBaseIs ==
  ASSUME NEW amount \in Int, NEW day \in Days, NEW table \in [Days -> Quotes \cup {None}]
  PROVE  ToBase(amount, day, table) \in Int \cup {None}
<1> DEFINE stated == {d \in Days : d <= day /\ table[d] # None}
           last == CHOOSE d \in stated : \A e \in stated : e <= d
<1>1. CASE stated = {} BY <1>1 DEF ToBase
<1>2. CASE stated # {}
  <2>1. day \in Nat /\ stated \in SUBSET (0..day)
    <3>1. day \in Nat BY DaysAssumption
    <3>2. \A d \in stated : d \in Nat /\ d <= day BY DaysAssumption
    <3>3. \A d \in stated : d \in 0..day BY <3>1, <3>2
    <3> QED BY <3>1, <3>3
  <2>2. last \in stated
    <3> HIDE DEF stated
    <3> QED BY <1>2, <2>1, LastDay
  <2>3. table[last] \in Quotes BY <2>2
  <2>4. table[last][1] \in Int /\ table[last][2] \in Nat \ {0} BY <2>3, MoneyAssumption
  <2>5. amount * table[last][1] \in Int
    <3> HIDE DEF last
    <3> QED BY <2>4
  <2>6. RoundHalfUp(amount * table[last][1], table[last][2]) \in Int
    BY <2>4, <2>5, RoundedIsInt
  <2>7. ToBase(amount, day, table) = RoundHalfUp(amount * table[last][1], table[last][2])
    BY <1>2 DEF ToBase
  <2> QED BY <2>6, <2>7
<1> QED BY <1>1, <1>2

-----------------------------------------------------------------------------
(* Splits                                                                  *)

\* Legs before they are stored.
Plain == [amount : Int, category : Values("category")]

\* What a split's setter changes of a row, and that its legs carry its base amount.
SplitOf(r, q, legs, owner) ==
  /\ q \in Row
  /\ q.amount = r.amount /\ q.day = r.day /\ q.base = r.base /\ q.synced = r.synced
  /\ q.values = r.values
  /\ q.sources = [r.sources EXCEPT !["splits"] = owner]
  /\ Len(q.legs) = Len(legs)
  /\ \A i \in 1..Len(legs) : q.legs[i].amount = legs[i].amount /\ q.legs[i].category = legs[i].category
  /\ BasesAddUp(q)

LEMMA NativesAre ==
  ASSUME NEW S, \A leg \in S : leg.amount \in Int, NEW legs \in Seq(S)
  PROVE  /\ Natives(legs) \in Seq(Int)
         /\ Len(Natives(legs)) = Len(legs)
         /\ legs # <<>> => Natives(legs) # <<>>
         /\ \A i \in 1..Len(legs) : Natives(legs)[i] = legs[i].amount
<1> DEFINE N == Len(legs)
           e(i) == legs[i].amount
<1>1. N \in Nat /\ DOMAIN legs = 1..N /\ \A n \in 1..N : e(n) \in Int BY ElementOfSeq
<1>2. Natives(legs) = [i \in 1..N |-> e(i)] BY <1>1 DEF Natives
<1> HIDE DEF e, N
<1>3. Natives(legs) \in Seq(Int) /\ Len(Natives(legs)) = N BY <1>1, <1>2, IsASeq, LenProperties
<1>4. legs # <<>> => Natives(legs) # <<>> BY <1>3, EmptySeq DEF N
<1> QED BY <1>1, <1>2, <1>3, <1>4 DEF N, e

\* Storing legs is a split, whoever asks for it.
LEMMA SetSplitsIs ==
  ASSUME NEW r \in Row, NEW legs \in Seq(Plain), NEW owner \in Sources
  PROVE  SplitOf(r, SetSplits(r, legs, owner), legs, owner)
<1> DEFINE N == Len(legs)
           bases == Shared(r.base, Natives(legs))
           leg(i) == [amount |-> legs[i].amount, base |-> bases[i], category |-> legs[i].category]
           stored == [i \in DOMAIN legs |-> leg(i)]
           q == SetSplits(r, legs, owner)
<1>1. N \in Nat /\ DOMAIN legs = 1..N /\ \A i \in 1..N : legs[i] \in Plain BY ElementOfSeq
<1>2. r.base \in Int \cup {None} BY DEF Row
<1>3. Natives(legs) \in Seq(Int) /\ Len(Natives(legs)) = N
  BY NativesAre DEF Plain
<1>4. legs # <<>> =>
        /\ bases \in Seq(Int \cup {None})
        /\ Len(bases) = N
        /\ r.base = None => \A i \in 1..N : bases[i] = None
        /\ r.base # None => bases \in Seq(Int) /\ Total(bases) = r.base
  <2> SUFFICES ASSUME legs # <<>>
               PROVE  /\ bases \in Seq(Int \cup {None})
                      /\ Len(bases) = N
                      /\ r.base = None => \A i \in 1..N : bases[i] = None
                      /\ r.base # None => bases \in Seq(Int) /\ Total(bases) = r.base
    OBVIOUS
  <2>1. Natives(legs) \in Seq(Int) \ {<<>>} BY <1>3, NativesAre DEF Plain
  <2> QED BY <1>2, <1>3, <2>1, SharedAddsUp
<1> HIDE DEF bases
<1>5. \A i \in 1..N : leg(i) \in Leg
  <2> SUFFICES ASSUME NEW i \in 1..N PROVE leg(i) \in Leg OBVIOUS
  <2>1. legs # <<>> BY <1>1, EmptySeq
  <2>2. bases[i] \in Int \cup {None} BY <1>4, <2>1
  <2> QED BY <1>1, <2>2 DEF Leg, Plain
<1> HIDE DEF leg, N
<1>6. stored = [i \in 1..N |-> leg(i)] BY <1>1
<1> HIDE DEF stored
<1>7. stored \in Seq(Leg) /\ Len(stored) = N BY <1>1, <1>5, <1>6, IsASeq, LenProperties
<1>8. stored # <<>> <=> legs # <<>> BY <1>1, <1>7, EmptySeq DEF N
<1>9. q = [r EXCEPT !.legs = stored, !.isSplitParent = legs # <<>>,
                    !.sources = [@ EXCEPT !["splits"] = owner]]
  BY DEF SetSplits, stored, leg, bases
<1> HIDE DEF q
<1>10. /\ q.amount = r.amount /\ q.day = r.day /\ q.base = r.base /\ q.synced = r.synced
       /\ q.values = r.values /\ q.legs = stored /\ q.isSplitParent = (legs # <<>>)
       /\ q.sources = [r.sources EXCEPT !["splits"] = owner]
  BY <1>9 DEF Row
<1>11. q \in Row
  <2>1. q.sources \in [Fields \cup {"amount", "day", "splits"} -> Sources] BY <1>10 DEF Row
  <2>2. q = [amount |-> q.amount, day |-> q.day, base |-> q.base, legs |-> q.legs,
             isSplitParent |-> q.isSplitParent, synced |-> q.synced, values |-> q.values,
             sources |-> q.sources]
    BY <1>9 DEF Row
  <2> QED BY <1>7, <1>8, <1>10, <2>1, <2>2 DEF Row
<1>12. \A i \in 1..N : q.legs[i].amount = legs[i].amount /\ q.legs[i].category = legs[i].category
                       /\ q.legs[i].base = bases[i]
  BY <1>6, <1>10 DEF leg
<1>13. BasesAddUp(q)
  <2> SUFFICES ASSUME q.legs # <<>>
               PROVE  IF q.base = None THEN \A i \in DOMAIN q.legs : q.legs[i].base = None
                      ELSE /\ \A i \in DOMAIN q.legs : q.legs[i].base # None
                           /\ Total(Bases(q.legs)) = q.base
    BY DEF BasesAddUp
  <2>1. DOMAIN q.legs = 1..N BY <1>6, <1>10
  <2>2. CASE q.base = None BY <1>4, <1>8, <1>10, <1>12, <2>1, <2>2
  <2>3. CASE q.base # None
    <3>1. bases \in Seq(Int) /\ Len(bases) = N /\ Total(bases) = q.base
      BY <1>4, <1>8, <1>10, <2>3
    <3>2. DOMAIN bases = 1..N /\ bases = [i \in 1..N |-> bases[i]] BY <3>1
    <3>3. Bases(q.legs) = bases BY <1>12, <2>1, <3>2 DEF Bases
    <3>4. \A i \in 1..N : q.legs[i].base # None BY <1>12, <3>1, NullAssumption
    <3> QED BY <2>1, <2>3, <3>1, <3>3, <3>4
  <2> QED BY <2>2, <2>3
<1>14. Len(q.legs) = Len(legs) BY <1>7, <1>10 DEF N
<1> QED BY <1>10, <1>11, <1>12, <1>13, <1>14 DEF SplitOf, q, N

-----------------------------------------------------------------------------
(* Rules                                                                   *)

NoSplits == \A i \in DOMAIN Rules : "split" \notin DOMAIN Rules[i].set

\* What rules may make of a row: what a person decided stands, and so do the legs,
\* unless they are made anew and add up.
Ruled(r, q) ==
  /\ q \in Row
  /\ q.amount = r.amount /\ q.day = r.day /\ q.base = r.base /\ q.synced = r.synced
  /\ \A f \in Fields : r.sources[f] = "user" => q.values[f] = r.values[f] /\ q.sources[f] = "user"
  /\ r.sources["splits"] = "user" => q.legs = r.legs /\ q.sources["splits"] = "user"
  /\ q.legs = r.legs \/ LegsAddUp(q)
  /\ NoSplits => q.legs = r.legs

LEMMA RuledAgain ==
  ASSUME NEW r, NEW q, NEW p, Ruled(r, q), Ruled(q, p)
  PROVE  Ruled(r, p)
<1>1. LegsAddUp(q) /\ p.legs = q.legs => LegsAddUp(p) BY DEF Ruled, LegsAddUp, BasesAddUp
<1>2. p.legs = r.legs \/ LegsAddUp(p) BY <1>1 DEF Ruled
<1> QED BY <1>2 DEF Ruled

Acc == [row : Row, changed : SUBSET {"category", "merchant", "splits"}]

LEMMA SetIs ==
  ASSUME NEW r \in Row, NEW f \in Fields, NEW value \in Values(f)
  PROVE  /\ Set(r, f, value) \in Row
         /\ \A n \in {"amount", "day", "base", "synced", "legs", "isSplitParent"} :
              Set(r, f, value)[n] = r[n]
         /\ Set(r, f, value).values = [r.values EXCEPT ![f] = value]
         /\ Set(r, f, value).sources = [r.sources EXCEPT ![f] = "rule"]
<1> DEFINE q == Set(r, f, value)
<1>1. q = [r EXCEPT !.values = [@ EXCEPT ![f] = value], !.sources = [@ EXCEPT ![f] = "rule"]]
  BY DEF Set
<1> HIDE DEF q
<1>2. /\ q.amount = r.amount /\ q.day = r.day /\ q.base = r.base /\ q.synced = r.synced
      /\ q.legs = r.legs /\ q.isSplitParent = r.isSplitParent
      /\ q.values = [r.values EXCEPT ![f] = value]
      /\ q.sources = [r.sources EXCEPT ![f] = "rule"]
  BY <1>1 DEF Row
<1>3. q.sources \in [Fields \cup {"amount", "day", "splits"} -> Sources]
  BY <1>2 DEF Row, Sources, Fields
<1>4. /\ value \in Categories \cup Merchants \cup {None}
      /\ q.values \in [Fields -> Categories \cup Merchants \cup {None}]
      /\ \A g \in Fields : q.values[g] \in Values(g)
  <2>1. value \in Categories \cup Merchants \cup {None} BY DEF Values, Fields
  <2>2. r.values \in [Fields -> Categories \cup Merchants \cup {None}] BY DEF Row
  <2>3. \A g \in Fields : r.values[g] \in Values(g) BY DEF Row
  <2> QED BY <1>2, <2>1, <2>2, <2>3
<1>5. q = [amount |-> q.amount, day |-> q.day, base |-> q.base, legs |-> q.legs,
           isSplitParent |-> q.isSplitParent, synced |-> q.synced, values |-> q.values,
           sources |-> q.sources]
  BY <1>1 DEF Row
<1>6. q \in Row BY <1>2, <1>3, <1>4, <1>5 DEF Row
<1> QED BY <1>2, <1>6 DEF q

LEMMA WriteIs ==
  ASSUME NEW acc \in Acc, NEW f \in Fields, NEW value \in Values(f)
  PROVE  /\ Write(acc, f, value) \in Acc
         /\ Ruled(acc.row, Write(acc, f, value).row)
         /\ Write(acc, f, value).row.legs = acc.row.legs
<1>1. acc.row \in Row /\ acc.changed \in SUBSET {"category", "merchant", "splits"} BY DEF Acc
<1>2. CASE Write(acc, f, value) = acc BY <1>1, <1>2 DEF Ruled
<1>3. CASE Write(acc, f, value) # acc
  <2> DEFINE q == Set(acc.row, f, value)
  <2>1. Write(acc, f, value) = [row |-> q, changed |-> acc.changed \cup {f}]
        /\ acc.row.sources[f] # "user"
    BY <1>3 DEF Write, Wrote
  <2>2. /\ q \in Row
        /\ \A n \in {"amount", "day", "base", "synced", "legs", "isSplitParent"} : q[n] = acc.row[n]
        /\ q.values = [acc.row.values EXCEPT ![f] = value]
        /\ q.sources = [acc.row.sources EXCEPT ![f] = "rule"]
    BY <1>1, SetIs
  <2> HIDE DEF q
  <2>3. Write(acc, f, value) \in Acc BY <1>1, <2>1, <2>2 DEF Acc, Fields
  <2>4. \A g \in Fields : acc.row.sources[g] = "user"
                            => q.values[g] = acc.row.values[g] /\ q.sources[g] = "user"
    BY <1>1, <2>1, <2>2 DEF Row
  <2>5. q.sources["splits"] = acc.row.sources["splits"] BY <1>1, <2>2 DEF Row, Fields
  <2>6. Ruled(acc.row, q) BY <2>2, <2>4, <2>5 DEF Ruled
  <2> QED BY <2>1, <2>2, <2>3, <2>6
<1> QED BY <1>2, <1>3

\* The legs of a rule add up to the amount, or there are none that fit it.
LEMMA ResolvedIs ==
  ASSUME NEW legs, legs \in Seq(ToSet(legs)) \ {<<>>}, NEW amount \in Int,
         \A i \in DOMAIN legs : legs[i].category \in Values("category"),
         \A i \in DOMAIN Front(legs) : LegOK(legs[i]),
         ResolvedLegs(legs, amount) # None
  PROVE  /\ ResolvedLegs(legs, amount) \in Seq(Plain) \ {<<>>}
         /\ Total(Natives(ResolvedLegs(legs, amount))) = amount
<1> DEFINE N == Len(legs)
           takes(i) == LegAmount(Front(legs)[i], amount)
           fixed == [i \in DOMAIN Front(legs) |-> takes(i)]
           leg(i) == [amount |-> IF i = N THEN amount - Total(fixed) ELSE LegAmount(legs[i], amount),
                      category |-> legs[i].category]
           R == ResolvedLegs(legs, amount)
<1>1. N \in Nat \ {0} /\ DOMAIN legs = 1..N BY EmptySeq
<1>2. DOMAIN Front(legs) = 1..(N - 1) /\ \A i \in 1..(N - 1) : Front(legs)[i] = legs[i]
  <2> DEFINE S == ToSet(legs)
  <2>1. legs \in Seq(S) OBVIOUS
  <2> HIDE DEF S
  <2>2. Front(legs) = SubSeq(legs, 1, N - 1) BY DEF Front
  <2>3. Front(legs) \in Seq(S) /\ Len(Front(legs)) = N - 1
        /\ \A i \in 1..(N - 1) : Front(legs)[i] = legs[i]
    BY <1>1, <2>1, <2>2, SubSeqProperties
  <2> QED BY <2>3
<1>3. \A i \in 1..(N - 1) : takes(i) \in Int /\ takes(i) = LegAmount(legs[i], amount)
  <2> SUFFICES ASSUME NEW i \in 1..(N - 1)
               PROVE  takes(i) \in Int /\ takes(i) = LegAmount(legs[i], amount)
    OBVIOUS
  <2>1. Front(legs)[i] = legs[i] /\ LegOK(legs[i]) BY <1>2
  <2>2. CASE "share" \in DOMAIN legs[i]
    <3>1. legs[i].share[1] \in Int /\ legs[i].share[2] \in Nat \ {0} BY <2>1, <2>2 DEF LegOK
    <3>2. Minor \in Nat \ {0} BY MoneyAssumption
    <3>3. \A a, b \in Int : a * b \in Int OBVIOUS
    <3>4. \A a, b \in Nat \ {0} : a * b \in Nat \ {0} OBVIOUS
    <3>5. Minor * RoundHalfUp(amount * legs[i].share[1], legs[i].share[2] * Minor) \in Int
      <4> DEFINE a == amount * legs[i].share[1]
                 b == legs[i].share[2] * Minor
      <4>1. a \in Int BY <3>1, <3>3
      <4>2. b \in Nat \ {0} BY <3>1, <3>2, <3>4
      <4> HIDE DEF a, b
      <4>3. RoundHalfUp(a, b) \in Int BY <4>1, <4>2, RoundedIsInt
      <4>4. Minor * RoundHalfUp(a, b) \in Int BY <3>2, <3>3, <4>3
      <4> QED BY <4>4 DEF a, b
    <3> QED BY <2>1, <2>2, <3>5 DEF LegAmount
  <2>3. CASE "share" \notin DOMAIN legs[i] BY <2>1, <2>3 DEF LegOK, LegAmount
  <2> QED BY <2>2, <2>3
<1>4. R = [i \in DOMAIN legs |-> leg(i)] BY DEF ResolvedLegs
<1> HIDE DEF takes
<1>5. fixed = [i \in 1..(N - 1) |-> takes(i)] BY <1>2
<1> HIDE DEF N, fixed, R
<1>6. fixed \in Seq(Int) /\ Len(fixed) = N - 1
  <2>1. N - 1 \in Nat BY <1>1
  <2> QED BY <1>3, <1>5, <2>1, IsASeq, LenProperties
<1>7. Total(fixed) \in Int BY <1>6, SumsAreInt
<1>8. \A i \in 1..N : leg(i) \in Plain
  <2> SUFFICES ASSUME NEW i \in 1..N PROVE leg(i) \in Plain OBVIOUS
  <2>1. i # N => i \in 1..(N - 1) BY <1>1
  <2>2. (IF i = N THEN amount - Total(fixed) ELSE LegAmount(legs[i], amount)) \in Int
    BY <1>3, <1>7, <2>1
  <2> QED BY <1>1, <2>2 DEF Plain
<1> HIDE DEF leg
<1>9. R \in Seq(Plain) /\ Len(R) = N BY <1>1, <1>4, <1>8, IsASeq, LenProperties
<1>10. R # <<>> BY <1>1, <1>9, EmptySeq
<1>11. /\ Natives(R) \in Seq(Int) /\ Len(Natives(R)) = N
       /\ \A i \in 1..N : Natives(R)[i] = R[i].amount
  BY <1>9, NativesAre DEF Plain
<1>12. /\ \A i \in 1..(N - 1) : Natives(R)[i] = fixed[i]
       /\ Natives(R)[N] = amount - Total(fixed)
  <2>1. \A i \in 1..N : Natives(R)[i] = leg(i).amount BY <1>1, <1>4, <1>11
  <2>2. \A i \in 1..(N - 1) : i \in 1..N /\ i # N BY <1>1
  <2> QED BY <1>1, <1>3, <1>5, <2>1, <2>2 DEF leg
<1>13. Sums(Natives(R))[N - 1] = Sums(fixed)[N - 1]
  <2>1. N - 1 \in 0..Len(fixed) /\ N - 1 <= Len(Natives(R)) BY <1>1, <1>6, <1>11
  <2> QED BY <1>6, <1>11, <1>12, <2>1, SameSums
<1>14. Sums(Natives(R))[N] = Sums(Natives(R))[N - 1] + Natives(R)[N]
  <2>1. \A n \in 1..Len(Natives(R)) :
          Sums(Natives(R))[n] = Sums(Natives(R))[n - 1] + Natives(R)[n] BY <1>11, SumBySum
  <2> QED BY <1>1, <1>11, <2>1
<1>15. Total(Natives(R)) = Total(fixed) + (amount - Total(fixed))
  BY <1>6, <1>11, <1>12, <1>13, <1>14 DEF Total
<1>16. Total(Natives(R)) = amount BY <1>7, <1>15
<1> QED BY <1>9, <1>10, <1>16 DEF R

\* A rule's split is a person's, or the one it was, or a new one that adds up.
LEMMA ApplySplitIs ==
  ASSUME NEW acc \in Acc, NEW i \in DOMAIN Rules, "split" \in DOMAIN Rules[i].set
  PROVE  /\ ApplySplit(acc, Rules[i].set.split) \in Acc
         /\ Ruled(acc.row, ApplySplit(acc, Rules[i].set.split).row)
         /\ ApplySplit(acc, Rules[i].set.split).row.values = acc.row.values
         /\ \A f \in Fields :
              ApplySplit(acc, Rules[i].set.split).row.sources[f] = acc.row.sources[f]
<1> DEFINE legs == Rules[i].set.split
           resolved == ResolvedLegs(legs, acc.row.amount)
           new == IF resolved = None THEN <<>> ELSE resolved
           after == ApplySplit(acc, legs)
<1>1. acc.row \in Row /\ acc.changed \in SUBSET {"category", "merchant", "splits"} BY DEF Acc
<1>2. acc.row.amount \in Int BY <1>1, MoneyAssumption DEF Row
<1>3. /\ legs \in Seq(ToSet(legs)) \ {<<>>}
      /\ \A k \in DOMAIN legs : legs[k].category \in Values("category")
      /\ \A k \in DOMAIN Front(legs) : LegOK(legs[k])
  BY RulesAssumption DEF RuleOK
<1> HIDE DEF legs
<1>4. resolved # None => resolved \in Seq(Plain) \ {<<>>} /\ Total(Natives(resolved)) = acc.row.amount
  BY <1>2, <1>3, ResolvedIs
<1> HIDE DEF resolved
<1>5. CASE after = acc
  <2>1. after \in Acc /\ Ruled(acc.row, after.row) BY <1>1, <1>5 DEF Ruled
  <2> QED BY <1>5, <2>1 DEF legs
<1>6. CASE after # acc
  <2> DEFINE q == SetSplits(acc.row, new, "rule")
  <2>1. after = [row |-> q, changed |-> acc.changed \cup {"splits"}]
        /\ acc.row.sources["splits"] # "user"
    BY <1>6 DEF ApplySplit, Wrote, resolved
  <2>2. new \in Seq(Plain) BY <1>4, EmptySeq
  <2>3. SplitOf(acc.row, q, new, "rule") BY <1>1, <2>2, SetSplitsIs DEF Sources
  <2> HIDE DEF q, after
  <2>4. q \in Row BY <2>3 DEF SplitOf
  <2>5. after \in Acc BY <1>1, <2>1, <2>4 DEF Acc
  <2>6. \A f \in Fields : q.sources[f] = acc.row.sources[f]
    BY <1>1, <2>3 DEF SplitOf, Row, Fields
  <2>7. LegsAddUp(q)
    <3> SUFFICES ASSUME q.legs # <<>> PROVE Total(Natives(q.legs)) = q.amount
      BY <2>3 DEF SplitOf, LegsAddUp
    <3>1. q.legs \in Seq(Leg) BY <2>4 DEF Row
    <3>2. Len(q.legs) = Len(new) BY <2>3 DEF SplitOf
    <3>3. new # <<>>
      <4> SUFFICES ASSUME new = <<>> PROVE FALSE OBVIOUS
      <4>1. Len(q.legs) = 0 BY <3>2, EmptySeq
      <4> QED BY <3>1, <4>1, EmptySeq
    <3>4. resolved # None /\ new = resolved BY <3>3
    <3>5. /\ Len(Natives(new)) = Len(new) /\ Natives(new) \in Seq(Int)
          /\ \A k \in 1..Len(new) : Natives(new)[k] = new[k].amount
      <4> HIDE DEF new
      <4> QED BY <2>2, NativesAre DEF Plain
    <3>6. /\ Len(Natives(q.legs)) = Len(q.legs) /\ Natives(q.legs) \in Seq(Int)
          /\ \A k \in 1..Len(q.legs) : Natives(q.legs)[k] = q.legs[k].amount
      BY <3>1, NativesAre DEF Leg
    <3>7. \A k \in 1..Len(new) : Natives(q.legs)[k] = Natives(new)[k]
      BY <2>3, <3>2, <3>5, <3>6 DEF SplitOf
    <3>8. Natives(q.legs) = Natives(new)
      <4> HIDE DEF new
      <4> QED BY <3>2, <3>5, <3>6, <3>7, SeqEqual
    <3> QED BY <1>4, <2>3, <3>4, <3>8 DEF SplitOf
  <2>8. NoSplits => FALSE BY DEF NoSplits
  <2>9. Ruled(acc.row, q)
    <3>1. q.values = acc.row.values /\ q.amount = acc.row.amount /\ q.day = acc.row.day
          /\ q.base = acc.row.base /\ q.synced = acc.row.synced
      BY <2>3 DEF SplitOf
    <3> QED BY <2>1, <2>4, <2>6, <2>7, <2>8, <3>1 DEF Ruled
  <2>10. q.values = acc.row.values BY <2>3 DEF SplitOf
  <2> QED BY <2>1, <2>5, <2>6, <2>9, <2>10 DEF after, legs
<1> QED BY <1>5, <1>6

LEMMA ApplyRuleIs ==
  ASSUME NEW acc \in Acc, NEW i \in DOMAIN Rules
  PROVE  ApplyRule(acc, Rules[i]) \in Acc /\ Ruled(acc.row, ApplyRule(acc, Rules[i]).row)
<1> DEFINE set == Rules[i].set
           write(a, f) == IF f \in DOMAIN set THEN Write(a, f, set[f]) ELSE a
           filed == write(acc, "category")
           written == write(filed, "merchant")
<1>1. \A f \in Fields : f \in DOMAIN set => set[f] \in Values(f) BY RulesAssumption DEF RuleOK
<1>2. \A a \in Acc : Ruled(a.row, a.row) BY DEF Acc, Ruled
<1>3. ASSUME NEW a \in Acc, NEW f \in Fields
      PROVE  write(a, f) \in Acc /\ Ruled(a.row, write(a, f).row)
  BY <1>1, <1>2, WriteIs
<1>4. filed \in Acc /\ Ruled(acc.row, filed.row) BY <1>3 DEF Fields
<1>5. written \in Acc /\ Ruled(filed.row, written.row)
  <2> HIDE DEF filed, write
  <2> QED BY <1>3, <1>4 DEF Fields
<1>6. Ruled(acc.row, written.row)
  <2> HIDE DEF filed, written
  <2> QED BY <1>4, <1>5, RuledAgain
<1>7. ApplyRule(acc, Rules[i]) = IF ~Matches(Rules[i], acc.row) THEN acc
                                 ELSE IF "split" \in DOMAIN set THEN ApplySplit(written, set.split)
                                 ELSE written
  BY DEF ApplyRule
<1> HIDE DEF written
<1>8. CASE ~Matches(Rules[i], acc.row) BY <1>2, <1>7, <1>8
<1>9. CASE Matches(Rules[i], acc.row) /\ "split" \in DOMAIN set
  <2> DEFINE p == ApplySplit(written, set.split)
  <2>1. p \in Acc /\ Ruled(written.row, p.row) BY <1>5, <1>9, ApplySplitIs
  <2> HIDE DEF p
  <2>2. Ruled(acc.row, p.row) BY <1>6, <2>1, RuledAgain
  <2> QED BY <1>7, <1>9, <2>1, <2>2 DEF p
<1>10. CASE Matches(Rules[i], acc.row) /\ "split" \notin DOMAIN set BY <1>5, <1>6, <1>7, <1>10
<1> QED BY <1>8, <1>9, <1>10

\* A pass is what its equations say.
LEMMA PassByPass ==
  ASSUME NEW r \in Row
  PROVE  /\ Passes(r)[0] = [row |-> r, changed |-> {}]
         /\ \A n \in 1..Len(Rules) :
              Passes(r)[n] = IF n \in enabled THEN ApplyRule(Passes(r)[n - 1], Rules[n])
                             ELSE Passes(r)[n - 1]
<1> DEFINE N == Len(Rules)
           start == [row |-> r, changed |-> {}]
           step(acc, n) == IF n \in enabled THEN ApplyRule(acc, Rules[n]) ELSE acc
           G == [x \in (1..N) \X Acc |-> step(x[2], x[1])]
<1>1. N \in Nat /\ DOMAIN Rules = 1..N
  <2> DEFINE S == ToSet(Rules)
  <2>1. Rules \in Seq(S) BY RulesAssumption
  <2> HIDE DEF S
  <2> QED BY <2>1
<1>2. start \in Acc BY DEF Acc
<1>3. \A n \in 1..N, acc \in Acc : step(acc, n) \in Acc BY <1>1, ApplyRuleIs
<1>4. G \in [(1..N) \X Acc -> Acc]
  <2> HIDE DEF N, step
  <2> QED BY <1>3
<1>5. \A n \in 1..N, acc \in Acc : G[<<n, acc>>] = step(acc, n) OBVIOUS
<1> HIDE DEF G, step, start
<1>6. PICK f : Follows(f, N, Acc, start, G)
  <2>1. G \in Steps(N, Acc) BY <1>4 DEF Steps
  <2> HIDE DEF N
  <2> QED BY <1>1, <1>2, <2>1, Recursion
<1> DEFINE Body(t) == [n \in 0..N |-> IF n = 0 THEN start ELSE step(t[n - 1], n)]
<1>7. f = Body(f)
  <2>1. ASSUME NEW k \in 1..N PROVE f[k] = step(f[k - 1], k)
    <3>1. k - 1 \in 0..N BY <1>1
    <3> QED BY <3>1, <1>5, <1>6 DEF Follows
  <2> HIDE DEF N
  <2> QED BY <2>1, <1>1, <1>6 DEF Follows
<1>8. Passes(r) = CHOOSE t : t = Body(t) BY DEF Passes, start, step
<1> HIDE DEF Body
<1>9. Passes(r) = Body(Passes(r)) BY <1>7, <1>8
<1>10. Passes(r)[0] = start BY <1>1, <1>9 DEF Body
<1>11. \A n \in 1..N : Passes(r)[n] = step(Passes(r)[n - 1], n)
  <2>1. \A n \in 1..N : n \in 0..N /\ n # 0 BY <1>1
  <2> QED BY <1>9, <2>1 DEF Body
<1> QED BY <1>10, <1>11 DEF start, step

LEMMA PassesAre ==
  ASSUME NEW r \in Row
  PROVE  \A n \in 0..Len(Rules) : Passes(r)[n] \in Acc /\ Ruled(r, Passes(r)[n].row)
<1> DEFINE N == Len(Rules)
           S == {n \in 0..N : Passes(r)[n] \in Acc /\ Ruled(r, Passes(r)[n].row)}
<1>1. N \in Nat /\ DOMAIN Rules = 1..N
  <2> DEFINE T == ToSet(Rules)
  <2>1. Rules \in Seq(T) BY RulesAssumption
  <2> HIDE DEF T
  <2> QED BY <2>1
<1>2. 0 \in S
  <2>1. Passes(r)[0] = [row |-> r, changed |-> {}] BY PassByPass
  <2> QED BY <1>1, <2>1 DEF Acc, Ruled
<1>3. \A k \in 0..(N - 1) : k \in S => k + 1 \in S
  <2> SUFFICES ASSUME NEW k \in 0..(N - 1), k \in S PROVE k + 1 \in S OBVIOUS
  <2>1. k + 1 \in 1..N /\ k + 1 - 1 = k BY <1>1
  <2>2. Passes(r)[k + 1] = IF k + 1 \in enabled THEN ApplyRule(Passes(r)[k], Rules[k + 1])
                           ELSE Passes(r)[k]
    <3>1. \A n \in 1..N : Passes(r)[n] = IF n \in enabled THEN ApplyRule(Passes(r)[n - 1], Rules[n])
                                         ELSE Passes(r)[n - 1]
      BY PassByPass
    <3> QED BY <2>1, <3>1
  <2>3. Passes(r)[k] \in Acc /\ Ruled(r, Passes(r)[k].row) OBVIOUS
  <2>4. Passes(r)[k + 1] \in Acc /\ Ruled(Passes(r)[k].row, Passes(r)[k + 1].row)
    <3>1. Ruled(Passes(r)[k].row, Passes(r)[k].row) BY <2>3 DEF Acc, Ruled
    <3> HIDE DEF S, N
    <3> QED BY <1>1, <2>1, <2>2, <2>3, <3>1, ApplyRuleIs
  <2>5. Ruled(r, Passes(r)[k + 1].row)
    <3> HIDE DEF S
    <3> QED BY <2>3, <2>4, RuledAgain
  <2> QED BY <2>1, <2>4, <2>5
<1> HIDE DEF S
<1>4. \A k \in 0..N : k \in S BY <1>1, <1>2, <1>3, UpTo
<1> QED BY <1>4 DEF S

LEMMA AppliedIs ==
  ASSUME NEW r \in Row
  PROVE  Applied(r) \in Row /\ Ruled(r, Applied(r))
<1>1. Len(Rules) \in Nat
  <2> DEFINE T == ToSet(Rules)
  <2>1. Rules \in Seq(T) BY RulesAssumption
  <2> HIDE DEF T
  <2> QED BY <2>1
<1>2. Pass(r) \in Acc /\ Ruled(r, Pass(r).row) BY <1>1, PassesAre DEF Pass
<1> QED BY <1>2 DEF Applied, Acc

-----------------------------------------------------------------------------
(* What each writer makes of a row                                         *)

Marks == Fields \cup {"amount", "day", "splits"}

LEMMA MarkIs ==
  ASSUME NEW r \in Row, NEW fields, NEW source \in Sources
  PROVE  /\ Mark(r, fields, source) \in Row
         /\ \A n \in {"amount", "day", "base", "synced", "legs", "isSplitParent", "values"} :
              Mark(r, fields, source)[n] = r[n]
         /\ \A f \in Marks : Mark(r, fields, source).sources[f]
                               = IF f \in fields THEN source ELSE r.sources[f]
<1> DEFINE q == Mark(r, fields, source)
<1>1. DOMAIN r.sources = Marks /\ r.sources \in [Marks -> Sources] BY DEF Row, Marks
<1>2. q = [r EXCEPT !.sources = [f \in DOMAIN @ |-> IF f \in fields THEN source ELSE @[f]]]
  BY DEF Mark
<1> HIDE DEF q
<1>3. /\ q.amount = r.amount /\ q.day = r.day /\ q.base = r.base /\ q.synced = r.synced
      /\ q.legs = r.legs /\ q.isSplitParent = r.isSplitParent /\ q.values = r.values
      /\ q.sources = [f \in Marks |-> IF f \in fields THEN source ELSE r.sources[f]]
  BY <1>1, <1>2 DEF Row
<1>4. q.sources \in [Marks -> Sources] BY <1>1, <1>3
<1>5. q = [amount |-> q.amount, day |-> q.day, base |-> q.base, legs |-> q.legs,
           isSplitParent |-> q.isSplitParent, synced |-> q.synced, values |-> q.values,
           sources |-> q.sources]
  BY <1>2 DEF Row
<1>6. q \in Row BY <1>3, <1>4, <1>5 DEF Row, Marks
<1> QED BY <1>3, <1>6 DEF q

\* A base amount given to the legs that are there: they still divide the row as they
\* did, and add up to it.
LEMMA RebasedIs ==
  ASSUME NEW legs \in Seq(Leg), NEW base \in Int \cup {None}
  PROVE  LET L == Rebased(legs, Shared(base, Natives(legs))) IN
         /\ L \in Seq(Leg)
         /\ L # <<>> <=> legs # <<>>
         /\ Natives(L) = Natives(legs)
         /\ \A q : q.legs = L /\ q.base = base => BasesAddUp(q)
<1> DEFINE N == Len(legs)
           bases == Shared(base, Natives(legs))
           leg(i) == [legs[i] EXCEPT !.base = bases[i]]
           L == Rebased(legs, bases)
<1>1. N \in Nat /\ DOMAIN legs = 1..N /\ \A i \in 1..N : legs[i] \in Leg BY ElementOfSeq
<1>2. /\ Natives(legs) \in Seq(Int) /\ Len(Natives(legs)) = N
      /\ legs # <<>> => Natives(legs) # <<>>
      /\ \A i \in 1..N : Natives(legs)[i] = legs[i].amount
  BY NativesAre DEF Leg
<1>3. legs # <<>> =>
        /\ bases \in Seq(Int \cup {None})
        /\ Len(bases) = N
        /\ base = None => \A i \in 1..N : bases[i] = None
        /\ base # None => bases \in Seq(Int) /\ Total(bases) = base
  <2> SUFFICES ASSUME legs # <<>>
               PROVE  /\ bases \in Seq(Int \cup {None})
                      /\ Len(bases) = N
                      /\ base = None => \A i \in 1..N : bases[i] = None
                      /\ base # None => bases \in Seq(Int) /\ Total(bases) = base
    OBVIOUS
  <2>1. Natives(legs) \in Seq(Int) \ {<<>>} BY <1>2
  <2> QED BY <1>2, <2>1, SharedAddsUp
<1>4. L = [i \in 1..N |-> leg(i)] BY <1>1 DEF Rebased
<1> HIDE DEF bases, L
<1>5. \A i \in 1..N : /\ leg(i) \in Leg /\ leg(i).amount = legs[i].amount
                      /\ leg(i).base = bases[i]
  <2> SUFFICES ASSUME NEW i \in 1..N
               PROVE  leg(i) \in Leg /\ leg(i).amount = legs[i].amount /\ leg(i).base = bases[i]
    OBVIOUS
  <2>1. legs # <<>> BY <1>1, EmptySeq
  <2>2. bases[i] \in Int \cup {None} BY <1>3, <2>1
  <2>3. legs[i] \in Leg BY <1>1
  <2> QED BY <2>2, <2>3 DEF Leg
<1> HIDE DEF leg, N
<1>6. L \in Seq(Leg) /\ Len(L) = N BY <1>1, <1>4, <1>5, IsASeq, LenProperties
<1>7. L # <<>> <=> legs # <<>> BY <1>1, <1>6, EmptySeq DEF N
<1>8. Natives(L) = Natives(legs)
  <2>1. /\ Natives(L) \in Seq(Int) /\ Len(Natives(L)) = N
        /\ \A i \in 1..N : Natives(L)[i] = L[i].amount
    BY <1>6, NativesAre DEF Leg
  <2>2. \A i \in 1..N : Natives(L)[i] = Natives(legs)[i] BY <1>2, <1>4, <1>5, <2>1 DEF N
  <2> QED BY <1>2, <2>1, <2>2, SeqEqual DEF N
<1>9. ASSUME NEW q, q.legs = L, q.base = base PROVE BasesAddUp(q)
  <2> SUFFICES ASSUME L # <<>>
               PROVE  IF base = None THEN \A i \in DOMAIN L : L[i].base = None
                      ELSE (\A i \in DOMAIN L : L[i].base # None) /\ Total(Bases(L)) = base
    BY <1>9 DEF BasesAddUp
  <2>1. DOMAIN L = 1..N /\ \A i \in 1..N : L[i].base = bases[i] BY <1>4, <1>5
  <2>2. CASE base = None BY <1>3, <1>7, <2>1, <2>2 DEF N
  <2>3. CASE base # None
    <3>1. bases \in Seq(Int) /\ Len(bases) = N /\ Total(bases) = base BY <1>3, <1>7, <2>3
    <3>2. DOMAIN bases = 1..N /\ bases = [i \in 1..N |-> bases[i]] BY <3>1
    <3>3. Bases(L) = bases BY <2>1, <3>2 DEF Bases
    <3>4. \A i \in 1..N : L[i].base # None BY <2>1, <3>1, NullAssumption
    <3> QED BY <2>1, <2>3, <3>1, <3>3, <3>4
  <2> QED BY <2>2, <2>3
<1> QED BY <1>6, <1>7, <1>8, <1>9 DEF L, bases

\* What the people who edit a row type into it, before what follows from that.
Typed(r, patch) ==
  [r EXCEPT !.amount = IF patch.amount = Unset THEN @ ELSE patch.amount,
            !.day = IF patch.day = Unset THEN @ ELSE patch.day,
            !.values = [f \in Fields |-> IF patch[f] = Unset THEN @[f] ELSE patch[f]]]

LEMMA TypedIs ==
  ASSUME NEW r \in Row, NEW patch \in Patches
  PROVE  /\ Typed(r, patch) \in Row
         /\ \A n \in {"base", "synced", "legs", "isSplitParent", "sources"} :
              Typed(r, patch)[n] = r[n]
         /\ Typed(r, patch).amount = IF patch.amount = Unset THEN r.amount ELSE patch.amount
         /\ Typed(r, patch).day = IF patch.day = Unset THEN r.day ELSE patch.day
<1> DEFINE q == Typed(r, patch)
<1>1. /\ patch.amount \in Amounts \cup {Unset} /\ patch.day \in Days \cup {Unset}
      /\ \A f \in Fields : patch[f] \in Values(f) \cup {Unset}
  BY DEF Patches, Fields
<1>2. /\ q.base = r.base /\ q.synced = r.synced
      /\ q.legs = r.legs /\ q.isSplitParent = r.isSplitParent /\ q.sources = r.sources
      /\ q.amount = IF patch.amount = Unset THEN r.amount ELSE patch.amount
      /\ q.day = IF patch.day = Unset THEN r.day ELSE patch.day
      /\ q.values = [f \in Fields |-> IF patch[f] = Unset THEN r.values[f] ELSE patch[f]]
  BY DEF Typed, Row
<1>3. q = [amount |-> q.amount, day |-> q.day, base |-> q.base, legs |-> q.legs,
           isSplitParent |-> q.isSplitParent, synced |-> q.synced, values |-> q.values,
           sources |-> q.sources]
  <2> DEFINE a == IF patch.amount = Unset THEN r.amount ELSE patch.amount
             d == IF patch.day = Unset THEN r.day ELSE patch.day
             v == [f \in Fields |-> IF patch[f] = Unset THEN r.values[f] ELSE patch[f]]
  <2>1. q = [r EXCEPT !.amount = a, !.day = d, !.values = v] BY DEF Typed
  <2> HIDE DEF a, d, v, q
  <2> QED BY <2>1 DEF Row
<1> HIDE DEF q
<1>4. \A f \in Fields : q.values[f] \in Values(f) BY <1>1, <1>2 DEF Row
<1>5. q.values \in [Fields -> Categories \cup Merchants \cup {None}]
  <2>1. \A f \in Fields : Values(f) \subseteq Categories \cup Merchants \cup {None}
    BY DEF Values, Fields
  <2>2. \A f \in Fields : q.values[f] \in Categories \cup Merchants \cup {None} BY <1>4, <2>1
  <2>3. q.values = [f \in Fields |-> q.values[f]] BY <1>2
  <2> QED BY <2>2, <2>3
<1>6. q \in Row BY <1>1, <1>2, <1>3, <1>4, <1>5 DEF Row
<1> QED BY <1>2, <1>6 DEF q

LEMMA BasedIs ==
  ASSUME NEW r \in Row, NEW base \in Int \cup {None}
  PROVE  /\ [r EXCEPT !.base = base] \in Row
         /\ \A n \in {"amount", "day", "synced", "legs", "isSplitParent", "sources", "values"} :
              [r EXCEPT !.base = base][n] = r[n]
         /\ [r EXCEPT !.base = base].base = base
BY DEF Row

LEMMA RelegIs ==
  ASSUME NEW r \in Row, NEW legs \in Seq(Leg), legs # <<>> <=> r.legs # <<>>
  PROVE  /\ [r EXCEPT !.legs = legs] \in Row
         /\ \A n \in {"amount", "day", "base", "synced", "isSplitParent", "sources", "values"} :
              [r EXCEPT !.legs = legs][n] = r[n]
         /\ [r EXCEPT !.legs = legs].legs = legs
BY DEF Row

\* What an edit may make of a row q that was r: a person's split stands, what added up
\* still does, and what is worth what it was is.
Edited(r, q, patch) ==
  /\ q \in Row
  /\ r.sources["splits"] = "user" => Natives(q.legs) = Natives(r.legs) /\ q.sources["splits"] = "user"
  /\ LegsAddUp(r) => LegsAddUp(q)
  /\ q = r \/ q.base = ToBase(q.amount, q.day, rates)
     \/ (q.base = r.base /\ q.amount = r.amount /\ q.day = r.day)
  /\ patch.amount = Unset /\ patch.day = Unset =>
       q.amount = r.amount /\ q.day = r.day /\ q.base = r.base /\ q.legs = r.legs

LEMMA PatchedIs ==
  ASSUME rates \in [Days -> Quotes \cup {None}], NEW r \in Row, NEW patch \in Patches
  PROVE  Edited(r, Patched(r, patch), patch)
<1> DEFINE edited == Mark(Typed(r, patch), Sent(patch), "user")
           moves == patch.amount # Unset /\ patch.amount # r.amount
           theirs == moves /\ r.legs # <<>> /\ r.sources["splits"] # "rule"
           ruleSplit == moves /\ r.sources["splits"] = "rule"
           base == ToBase(edited.amount, edited.day, rates)
           based == IF Recomputes(patch) THEN [edited EXCEPT !.base = base] ELSE edited
           realloc == Recomputes(patch) /\ r.legs # <<>> /\ ~ruleSplit
           asked == Applied(based)
           L == Rebased(based.legs, Shared(based.base, Natives(based.legs)))
           shared == [based EXCEPT !.legs = L]
           q == Patched(r, patch)
<1>1. q = CASE theirs -> r
            [] ~theirs /\ ruleSplit ->
                 IF asked.legs # <<>> /\ Total(Natives(asked.legs)) # asked.amount THEN r ELSE asked
            [] ~theirs /\ realloc -> IF based.base = None THEN r ELSE shared
            [] OTHER -> based
  BY DEF Patched, Typed
<1>2. "splits" \notin Sent(patch) BY DEF Sent, Patches
<1>3. /\ edited \in Row /\ edited.base = r.base /\ edited.legs = r.legs
      /\ edited.amount = IF patch.amount = Unset THEN r.amount ELSE patch.amount
      /\ edited.day = IF patch.day = Unset THEN r.day ELSE patch.day
      /\ edited.sources["splits"] = r.sources["splits"]
  <2> DEFINE t == Typed(r, patch)
  <2>1. /\ t \in Row /\ t.base = r.base /\ t.legs = r.legs /\ t.sources = r.sources
        /\ t.amount = IF patch.amount = Unset THEN r.amount ELSE patch.amount
        /\ t.day = IF patch.day = Unset THEN r.day ELSE patch.day
    BY TypedIs
  <2> HIDE DEF t
  <2>2. "user" \in Sources BY DEF Sources
  <2>3. "splits" \in Marks BY DEF Marks
  <2>4. /\ Mark(t, Sent(patch), "user") \in Row
        /\ \A n \in {"amount", "day", "base", "synced", "legs", "isSplitParent", "values"} :
             Mark(t, Sent(patch), "user")[n] = t[n]
        /\ \A f \in Marks : Mark(t, Sent(patch), "user").sources[f]
                              = IF f \in Sent(patch) THEN "user" ELSE t.sources[f]
    BY <2>1, <2>2, MarkIs
  <2>5. Mark(t, Sent(patch), "user").sources["splits"] = t.sources["splits"] BY <1>2, <2>3, <2>4
  <2> QED BY <2>1, <2>4, <2>5 DEF t
<1> HIDE DEF edited
<1>4. base \in Int \cup {None}
  <2>1. edited.amount \in Int /\ edited.day \in Days BY <1>3, MoneyAssumption DEF Row
  <2> QED BY <2>1, ToBaseIs
<1>5. /\ based \in Row /\ based.legs = r.legs /\ based.amount = edited.amount
      /\ based.day = edited.day /\ based.sources["splits"] = r.sources["splits"]
      /\ based.base = IF Recomputes(patch) THEN base ELSE r.base
  <2> HIDE DEF base
  <2>1. CASE Recomputes(patch) BY <1>3, <1>4, <2>1, BasedIs
  <2>2. CASE ~Recomputes(patch) BY <1>3, <2>2
  <2> QED BY <2>1, <2>2
<1>6. /\ Recomputes(patch) => based.base = ToBase(based.amount, based.day, rates)
      /\ ~Recomputes(patch) => based.base = r.base /\ based.amount = r.amount /\ based.day = r.day
  BY <1>3, <1>5 DEF Recomputes
<1>7. moves => Recomputes(patch) BY DEF Recomputes
<1>8. ~moves => based.amount = r.amount BY <1>3, <1>5
<1>9. patch.amount = Unset /\ patch.day = Unset => ~Recomputes(patch) BY DEF Recomputes
<1> HIDE DEF based, moves, q
<1>10. CASE q = r BY <1>10 DEF Edited, q
<1>11. CASE q # r /\ ruleSplit
  <2>1. q = asked /\ (asked.legs # <<>> => Total(Natives(asked.legs)) = asked.amount)
    BY <1>1, <1>11
  <2>2. Ruled(based, q) BY <1>5, <2>1, AppliedIs
  <2>3. r.sources["splits"] = "rule" BY <1>11
  <2>4. ASSUME LegsAddUp(r) PROVE LegsAddUp(q)
    <3>1. CASE LegsAddUp(q) BY <3>1
    <3>2. CASE q.legs = based.legs
      <4>1. q.legs = r.legs /\ q.amount = based.amount BY <1>5, <2>2, <3>2 DEF Ruled
      <4>2. based.amount # r.amount BY <1>3, <1>5, <1>11 DEF moves
      <4>3. r.legs = <<>> BY <2>1, <2>4, <4>1, <4>2 DEF LegsAddUp
      <4> QED BY <4>1, <4>3 DEF LegsAddUp, BasesAddUp
    <3> QED BY <2>2, <3>1, <3>2 DEF Ruled
  <2>5. q.base = ToBase(q.amount, q.day, rates)
    <3>1. based.base = ToBase(based.amount, based.day, rates) BY <1>6, <1>7, <1>11
    <3>2. q.base = based.base /\ q.amount = based.amount /\ q.day = based.day BY <2>2 DEF Ruled
    <3> QED BY <3>1, <3>2
  <2>6. Recomputes(patch) BY <1>7, <1>11
  <2> QED BY <1>9, <2>2, <2>3, <2>4, <2>5, <2>6 DEF Edited, Ruled, q
<1>12. CASE q # r /\ ~ruleSplit /\ realloc
  <2>1. q = shared /\ based.base # None /\ ~theirs BY <1>1, <1>12
  <2>2. based.legs \in Seq(Leg) /\ based.base \in Int \cup {None} BY <1>5 DEF Row
  <2>3. /\ L \in Seq(Leg) /\ (L # <<>> <=> based.legs # <<>>) /\ Natives(L) = Natives(based.legs)
        /\ \A x : x.legs = L /\ x.base = based.base => BasesAddUp(x)
    BY <2>2, RebasedIs
  <2> HIDE DEF L
  <2>4. /\ q \in Row /\ q.legs = L /\ q.base = based.base /\ q.amount = based.amount
        /\ q.day = based.day /\ q.sources = based.sources
    BY <1>5, <2>1, <2>3, RelegIs
  <2>5. ~moves /\ Recomputes(patch) BY <1>12, <2>1
  <2>6. LegsAddUp(r) => LegsAddUp(q)
    BY <1>5, <1>8, <1>12, <2>3, <2>4, <2>5 DEF LegsAddUp
  <2>7. q.base = ToBase(q.amount, q.day, rates) BY <1>6, <2>4, <2>5
  <2> QED BY <1>5, <1>9, <2>3, <2>4, <2>5, <2>6, <2>7 DEF Edited, q
<1>13. CASE q # r /\ ~ruleSplit /\ ~realloc
  <2>1. q = based /\ ~theirs BY <1>1, <1>13
  <2>2. ASSUME LegsAddUp(r) PROVE LegsAddUp(q)
    <3>1. CASE r.legs = <<>> BY <1>5, <2>1, <3>1 DEF LegsAddUp, BasesAddUp
    <3>2. CASE r.legs # <<>>
      <4>1. ~Recomputes(patch) BY <1>13, <3>2
      <4> QED BY <1>5, <1>6, <2>1, <2>2, <4>1 DEF LegsAddUp, BasesAddUp
    <3> QED BY <3>1, <3>2
  <2>3. q.base = ToBase(q.amount, q.day, rates)
        \/ (q.base = r.base /\ q.amount = r.amount /\ q.day = r.day)
    BY <1>6, <2>1
  <2>4. q.legs = r.legs BY <1>5, <2>1
  <2> QED BY <1>5, <1>6, <1>9, <2>1, <2>2, <2>3, <2>4 DEF Edited, q
<1> QED BY <1>10, <1>11, <1>12, <1>13 DEF q

\* What people decided of a row stands.
Stands(r, q) ==
  /\ \A f \in Fields : r.sources[f] = "user" => q.values[f] = r.values[f] /\ q.sources[f] = "user"
  /\ r.sources["splits"] = "user" => Natives(q.legs) = Natives(r.legs) /\ q.sources["splits"] = "user"

LEMMA RuledStands == ASSUME NEW r, NEW q, Ruled(r, q) PROVE Stands(r, q)
BY DEF Ruled, Stands

LEMMA ProvidedIs ==
  ASSUME NEW r \in Row, NEW report \in Reports
  PROVE  /\ Provided(r, report) \in Row
         /\ Stands(r, Provided(r, report))
         /\ NoSplits => Provided(r, report).legs = r.legs
<1> DEFINE open(f) == r.sources[f] \notin {"user", "rule"}
           changed == {f \in {"amount", "day"} : open(f) /\ r[f] # report[f]} \cup
                      {f \in {"merchant"} : open(f) /\ r.values[f] # report[f]}
           a == IF "amount" \in changed THEN report.amount ELSE r.amount
           d == IF "day" \in changed THEN report.day ELSE r.day
           v == [f \in Fields |-> IF f \in changed THEN report[f] ELSE r.values[f]]
           taken == [r EXCEPT !.amount = a, !.day = d, !.values = v]
           marked == Mark(taken, changed, "provider")
           q == Provided(r, report)
<1>1. q = IF changed = {} THEN r ELSE Applied(marked) BY DEF Provided
<1>2. \A f \in changed : f \in {"amount", "day", "merchant"} /\ r.sources[f] # "user" OBVIOUS
<1>3. report.amount \in Amounts /\ report.day \in Days /\ report.merchant \in Merchants
  BY DEF Reports
<1> HIDE DEF changed
<1>4. a \in Amounts /\ d \in Days BY <1>3 DEF Row
<1>5. \A f \in Fields : f \in changed => f = "merchant" BY <1>2 DEF Fields
<1>6. \A f \in Fields : v[f] \in Values(f)
  BY <1>3, <1>5 DEF Row, Values
<1>7. v \in [Fields -> Categories \cup Merchants \cup {None}]
  <2>1. \A f \in Fields : v[f] \in Categories \cup Merchants \cup {None}
    BY <1>6 DEF Values, Fields
  <2>2. v = [f \in Fields |-> v[f]] OBVIOUS
  <2> HIDE DEF v
  <2> QED BY <2>1, <2>2
<1>8. \A f \in Fields : r.sources[f] = "user" => v[f] = r.values[f] BY <1>2
<1> HIDE DEF a, d, v, q
<1>9. /\ taken \in Row /\ taken.legs = r.legs /\ taken.sources = r.sources /\ taken.values = v
  BY <1>4, <1>6, <1>7 DEF Row
<1> HIDE DEF taken
<1>10. /\ marked \in Row /\ marked.legs = r.legs /\ marked.values = v
       /\ \A f \in Marks : r.sources[f] = "user" => marked.sources[f] = "user"
  <2>1. "provider" \in Sources BY DEF Sources
  <2>2. /\ marked \in Row
        /\ \A n \in {"amount", "day", "base", "synced", "legs", "isSplitParent", "values"} :
             marked[n] = taken[n]
        /\ \A f \in Marks : marked.sources[f] = IF f \in changed THEN "provider" ELSE taken.sources[f]
    BY <1>9, <2>1, MarkIs
  <2> HIDE DEF marked
  <2> QED BY <1>2, <1>9, <2>2
<1> HIDE DEF marked
<1>11. CASE changed = {} BY <1>1, <1>11 DEF Stands, q
<1>12. CASE changed # {}
  <2>1. q = Applied(marked) BY <1>1, <1>12
  <2>2. q \in Row /\ Ruled(marked, q) BY <1>10, <2>1, AppliedIs
  <2>3. Stands(r, q) BY <1>8, <1>10, <2>2 DEF Ruled, Stands, Marks
  <2>4. NoSplits => q.legs = r.legs BY <1>10, <2>2 DEF Ruled
  <2> QED BY <2>2, <2>3, <2>4 DEF q
<1> QED BY <1>11, <1>12

LEMMA NewRowIs ==
  ASSUME rates \in [Days -> Quotes \cup {None}],
         NEW amount \in Amounts, NEW day \in Days, NEW synced \in BOOLEAN,
         NEW values \in [Fields -> Categories \cup Merchants \cup {None}],
         \A f \in Fields : values[f] \in Values(f), NEW source \in Sources
  PROVE  NewRow(amount, day, values, synced, source) \in Row
<1> DEFINE base == ToBase(amount, day, rates)
           fields == {"amount"} \cup (IF synced THEN {"day"} ELSE {})
                       \cup {f \in Fields : values[f] # None}
           r == [amount |-> amount, day |-> day, base |-> base, legs |-> <<>>,
                 isSplitParent |-> FALSE, synced |-> synced, values |-> values,
                 sources |-> [f \in Fields \cup {"amount", "day", "splits"} |-> "none"]]
<1>1. base \in Int \cup {None} BY MoneyAssumption, ToBaseIs
<1>2. NewRow(amount, day, values, synced, source) = Mark(r, fields, source) BY DEF NewRow
<1> HIDE DEF base, fields
<1>3. <<>> \in Seq(Leg) BY EmptySeq
<1>4. r \in Row BY <1>1, <1>3 DEF Row, Sources
<1> HIDE DEF r
<1> QED BY <1>2, <1>4, MarkIs

LEMMA RecomputedIs ==
  ASSUME NEW r \in Row, NEW table \in [Days -> Quotes \cup {None}]
  PROVE  LET q == Recomputed(r, table) IN
         /\ q \in Row
         /\ \A n \in {"amount", "day", "synced", "isSplitParent", "sources", "values"} : q[n] = r[n]
         /\ Natives(q.legs) = Natives(r.legs)
         /\ q.legs # <<>> <=> r.legs # <<>>
         /\ q.base = ToBase(r.amount, r.day, table)
         /\ BasesAddUp(q)
         /\ LegsAddUp(r) => LegsAddUp(q)
<1> DEFINE base == ToBase(r.amount, r.day, table)
           L == Rebased(r.legs, Shared(base, Natives(r.legs)))
           q == Recomputed(r, table)
<1>1. r.amount \in Int /\ r.day \in Days /\ r.legs \in Seq(Leg) BY MoneyAssumption DEF Row
<1>2. base \in Int \cup {None} BY <1>1, ToBaseIs
<1>3. q = [r EXCEPT !.base = base, !.legs = L] BY DEF Recomputed
<1> HIDE DEF base, q
<1>4. /\ L \in Seq(Leg) /\ (L # <<>> <=> r.legs # <<>>) /\ Natives(L) = Natives(r.legs)
      /\ \A x : x.legs = L /\ x.base = base => BasesAddUp(x)
  BY <1>1, <1>2, RebasedIs
<1> HIDE DEF L
<1>5. /\ q.amount = r.amount /\ q.day = r.day /\ q.synced = r.synced /\ q.sources = r.sources
      /\ q.values = r.values /\ q.isSplitParent = r.isSplitParent
      /\ q.base = base /\ q.legs = L
  BY <1>3 DEF Row
<1>6. q \in Row BY <1>2, <1>3, <1>4 DEF Row
<1>7. BasesAddUp(q) BY <1>4, <1>5
<1>8. LegsAddUp(r) => LegsAddUp(q) BY <1>4, <1>5, <1>7 DEF LegsAddUp
<1> QED BY <1>4, <1>5, <1>6, <1>7, <1>8 DEF q, base

\* A flush writes what the writer changed, and keeps the rest of what is there.
LEMMA FlushedIs ==
  ASSUME NEW now \in Row, NEW was \in Row, NEW made \in Row, made.legs = was.legs
  PROVE  LET q == Flushed(now, was, made) IN
         /\ q \in Row
         /\ q.legs = now.legs
         /\ \A n \in {"amount", "day", "base", "sources"} :
              q[n] = IF made[n] = was[n] THEN now[n] ELSE made[n]
         /\ \A f \in Fields :
              q.values[f] = IF made.values[f] = was.values[f] THEN now.values[f] ELSE made.values[f]
<1> DEFINE w == Written(now, was, made)
           v == Written(now.values, was.values, made.values)
           q == Flushed(now, was, made)
           pick(n) == IF made[n] = was[n] THEN now[n] ELSE made[n]
<1>1. w = [n \in DOMAIN now |-> pick(n)] BY DEF Written
<1>2. w = [amount |-> pick("amount"), day |-> pick("day"), base |-> pick("base"),
           legs |-> now.legs, isSplitParent |-> now.isSplitParent, synced |-> pick("synced"),
           values |-> pick("values"), sources |-> pick("sources")]
  <2>1. made.isSplitParent = was.isSplitParent BY DEF Row
  <2>2. DOMAIN now = {"amount", "day", "base", "legs", "isSplitParent", "synced", "values", "sources"}
    BY DEF Row
  <2>3. pick("legs") = now.legs /\ pick("isSplitParent") = now.isSplitParent BY <2>1
  <2> HIDE DEF pick
  <2> QED BY <1>1, <2>2, <2>3
<1>3. /\ v = [f \in Fields |-> IF made.values[f] = was.values[f] THEN now.values[f]
                               ELSE made.values[f]]
      /\ v \in [Fields -> Categories \cup Merchants \cup {None}]
      /\ \A f \in Fields : v[f] \in Values(f)
  BY DEF Written, Row
<1>4. /\ pick("amount") \in Amounts /\ pick("day") \in Days /\ pick("base") \in Int \cup {None}
      /\ pick("synced") \in BOOLEAN
      /\ pick("sources") \in [Fields \cup {"amount", "day", "splits"} -> Sources]
  BY DEF Row
<1>5. now.legs \in Seq(Leg) /\ now.isSplitParent \in BOOLEAN
      /\ (now.isSplitParent <=> now.legs # <<>>)
  BY DEF Row
<1>6. q = [w EXCEPT !.values = v] BY DEF Flushed
<1> HIDE DEF w, v, q, pick
<1>7. q = [amount |-> pick("amount"), day |-> pick("day"), base |-> pick("base"),
           legs |-> now.legs, isSplitParent |-> now.isSplitParent, synced |-> pick("synced"),
           values |-> v, sources |-> pick("sources")]
  BY <1>2, <1>6
<1>8. q \in Row BY <1>3, <1>4, <1>5, <1>7 DEF Row
<1>9. q.legs = now.legs /\ q.amount = pick("amount") /\ q.day = pick("day")
      /\ q.base = pick("base") /\ q.sources = pick("sources") /\ q.values = v
  BY <1>7
<1> QED BY <1>3, <1>8, <1>9 DEF q, pick

-----------------------------------------------------------------------------
(* The invariant, and what a step may do                                   *)

IInv == TypeOK /\ (held # None => held.by \in Overlaps)

\* What a step may do to the row.
Good == LegsFollowParent /\ BaseFollowsAmount /\ OnlyLateWritersUndo /\ HumanSplitStands

LEMMA RowIs ==
  ASSUME TypeOK, row # None
  PROVE  /\ row \in Row
         /\ row.legs \in Seq(Leg)
         /\ row.amount \in Int
         /\ row.day \in Days
         /\ rates \in [Days -> Quotes \cup {None}]
BY MoneyAssumption DEF TypeOK, Row

\* A step that leaves a row there where what people decided stands.
LEMMA StandingStep ==
  ASSUME Stands(row, row')
  PROVE  OnlyLateWritersUndo /\ HumanSplitStands
BY DEF Stands, OnlyLateWritersUndo, HumanSplitStands, Kept

LEMMA RowStep ==
  ASSUME IInv, row' # None => row' \in Row, held # None => row' # None,
         UNCHANGED <<enabled, rates, held>>
  PROVE  IInv'
BY DEF IInv, TypeOK

LEMMA SplitIsGood ==
  ASSUME IInv, row # None, NEW parts \in Seq(Int) \ {<<>>}, Total(parts) = row.amount,
         row' = SetSplits(row, Uncategorized(parts), "user"), PersonSplits,
         UNCHANGED <<enabled, rates, held>>
  PROVE  IInv' /\ Good
<1> DEFINE legs == Uncategorized(parts)
           N == Len(parts)
<1>1. row \in Row BY RowIs DEF IInv
<1>2. N \in Nat \ {0} /\ DOMAIN parts = 1..N /\ \A i \in 1..N : parts[i] \in Int BY EmptySeq
<1>3. legs \in Seq(Plain) /\ Len(legs) = N /\ \A i \in 1..N : legs[i].amount = parts[i]
  <2> DEFINE leg(i) == [amount |-> parts[i], category |-> None]
  <2>1. legs = [i \in 1..N |-> leg(i)] BY <1>2 DEF Uncategorized
  <2>2. \A i \in 1..N : leg(i) \in Plain BY <1>2 DEF Plain, Values
  <2>3. \A i \in 1..N : leg(i).amount = parts[i] OBVIOUS
  <2> HIDE DEF legs, leg, N
  <2> QED BY <1>2, <2>1, <2>2, <2>3, IsASeq, LenProperties
<1> HIDE DEF legs
<1>4. SplitOf(row, row', legs, "user") BY <1>1, <1>3, SetSplitsIs DEF Sources, legs
<1>5. row' \in Row /\ row' # None BY <1>4, NullAssumption DEF SplitOf
<1>6. IInv' BY <1>5, RowStep
<1>7. Natives(row'.legs) = parts
  <2>1. row'.legs \in Seq(Leg) /\ Len(row'.legs) = N BY <1>3, <1>4 DEF SplitOf, Row
  <2>2. /\ Natives(row'.legs) \in Seq(Int) /\ Len(Natives(row'.legs)) = N
        /\ \A i \in 1..N : Natives(row'.legs)[i] = row'.legs[i].amount
    BY <2>1, NativesAre DEF Leg
  <2>3. \A i \in 1..N : Natives(row'.legs)[i] = parts[i] BY <1>3, <1>4, <2>2 DEF SplitOf
  <2> QED BY <2>2, <2>3, SeqEqual
<1>8. LegsAddUp(row') BY <1>4, <1>7 DEF SplitOf, LegsAddUp
<1>9. WorthItsAmount(row) => row'.base = ToBase(row'.amount, row'.day, rates')
  BY <1>4 DEF SplitOf, WorthItsAmount
<1>10. OnlyLateWritersUndo
  <2>1. \A f \in Fields : row'.values[f] = row.values[f] /\ row'.sources[f] = row.sources[f]
    BY <1>1, <1>4 DEF SplitOf, Row, Fields
  <2> QED BY <2>1 DEF OnlyLateWritersUndo, Kept
<1> QED BY <1>6, <1>8, <1>9, <1>10
        DEF Good, LegsFollowParent, BaseFollowsAmount, HumanSplitStands

LEMMA CreateInv ==
  ASSUME IInv, NEW a \in Amounts, NEW d \in Days, NEW c \in Values("category"), Create(a, d, c)
  PROVE  IInv' /\ Good
<1> DEFINE values == [category |-> c, merchant |-> None]
           new == NewRow(a, d, values, FALSE, "user")
<1>1. row = None /\ held = None /\ row' = Applied(new) /\ UNCHANGED <<enabled, rates, held>>
  BY DEF Create, IInv, TypeOK
<1>2. values \in [Fields -> Categories \cup Merchants \cup {None}]
      /\ \A f \in Fields : values[f] \in Values(f)
  BY DEF Fields, Values
<1>3. rates \in [Days -> Quotes \cup {None}] BY DEF IInv, TypeOK
<1> HIDE DEF values
<1>4. new \in Row BY <1>2, <1>3, NewRowIs DEF Sources
<1> HIDE DEF new
<1>5. row' \in Row BY <1>1, <1>4, AppliedIs
<1>6. IInv' BY <1>1, <1>5, RowStep
<1> QED BY <1>1, <1>6 DEF Good, LegsFollowParent, BaseFollowsAmount, OnlyLateWritersUndo,
                          HumanSplitStands

LEMMA SyncInv ==
  ASSUME IInv, NEW report \in Reports, Sync(report)
  PROVE  IInv' /\ Good
<1>1. UNCHANGED <<enabled, rates, held>> BY DEF Sync
<1>2. LegsFollowParent /\ BaseFollowsAmount
  BY DEF LegsFollowParent, BaseFollowsAmount, SyncLands
<1>3. CASE row = None
  <2> DEFINE values == [category |-> None, merchant |-> report.merchant]
             new == NewRow(report.amount, report.day, values, TRUE, "provider")
  <2>1. held = None /\ row' = Applied(new) BY <1>3 DEF Sync, IInv, TypeOK
  <2>2. /\ report.amount \in Amounts /\ report.day \in Days
        /\ values \in [Fields -> Categories \cup Merchants \cup {None}]
        /\ \A f \in Fields : values[f] \in Values(f)
    BY DEF Fields, Values, Reports
  <2>3. rates \in [Days -> Quotes \cup {None}] BY DEF IInv, TypeOK
  <2> HIDE DEF values
  <2>4. new \in Row BY <2>2, <2>3, NewRowIs DEF Sources
  <2> HIDE DEF new
  <2>5. row' \in Row BY <2>1, <2>4, AppliedIs
  <2>6. IInv' BY <1>1, <2>1, <2>5, RowStep
  <2> QED BY <1>2, <1>3, <2>6 DEF Good, OnlyLateWritersUndo, HumanSplitStands
<1>4. CASE row # None
  <2>1. row' = Provided(row, report) BY <1>4 DEF Sync
  <2>2. row' \in Row /\ Stands(row, row') BY <1>4, <2>1, RowIs, ProvidedIs DEF IInv
  <2>3. row' # None BY <2>2, NullAssumption
  <2>4. IInv' BY <1>1, <2>2, <2>3, RowStep
  <2> QED BY <1>2, <2>2, <2>4, StandingStep DEF Good
<1> QED BY <1>3, <1>4

LEMMA PatchInv ==
  ASSUME IInv, NEW patch \in Patches, Patch(patch)
  PROVE  IInv' /\ Good
<1>1. row # None /\ row' = Patched(row, patch) /\ UNCHANGED <<enabled, rates, held>> BY DEF Patch
<1>2. row \in Row /\ rates \in [Days -> Quotes \cup {None}] BY <1>1, RowIs DEF IInv
<1>3. Edited(row, row', patch) BY <1>1, <1>2, PatchedIs
<1>4. row' \in Row /\ row' # None BY <1>3, NullAssumption DEF Edited
<1>5. IInv' BY <1>1, <1>4, RowStep
<1>6. LegsFollowParent BY <1>3 DEF Edited, LegsFollowParent
<1>7. BaseFollowsAmount BY <1>1, <1>3 DEF Edited, BaseFollowsAmount, WorthItsAmount
<1>8. OnlyLateWritersUndo BY DEF OnlyLateWritersUndo, PersonEdits
<1>9. HumanSplitStands BY <1>3 DEF Edited, HumanSplitStands
<1> QED BY <1>5, <1>6, <1>7, <1>8, <1>9 DEF Good

LEMMA PersonSplitsInv ==
  ASSUME IInv, PersonSplits
  PROVE  IInv' /\ Good
<1>1. ASSUME NEW weights \in Shares, SplitByShare(weights) PROVE IInv' /\ Good
  <2> DEFINE parts == Allocate(row.amount, weights)
  <2>1. row # None /\ row' = SetSplits(row, Uncategorized(parts), "user")
        /\ UNCHANGED <<enabled, rates, held>>
    BY <1>1 DEF SplitByShare
  <2>2. row.amount \in Int BY <2>1, RowIs DEF IInv
  <2>3. weights \in Seq(Int) \ {<<>>} /\ Total(weights) > 0 BY SplitsAssumption
  <2>4. parts \in Seq(Int) /\ Len(parts) = Len(weights) /\ Total(parts) = row.amount
    BY <2>2, <2>3, AllocateAddsUp
  <2> HIDE DEF parts
  <2>5. parts # <<>> BY <2>3, <2>4, EmptySeq
  <2> QED BY <2>1, <2>4, <2>5, SplitIsGood
<1>2. ASSUME NEW parts \in Parts, SplitByAmount(parts) PROVE IInv' /\ Good
  BY <1>2, SplitIsGood, SplitsAssumption DEF SplitByAmount
<1>3. ASSUME Unsplit PROVE IInv' /\ Good
  <2>1. row # None /\ row' = [row EXCEPT !.legs = <<>>, !.isSplitParent = FALSE]
        /\ UNCHANGED <<enabled, rates, held>>
    BY <1>3 DEF Unsplit
  <2>2. row \in Row BY <2>1, RowIs DEF IInv
  <2>3. <<>> \in Seq(Leg) BY EmptySeq
  <2>4. /\ row' \in Row /\ row'.legs = <<>> /\ row'.amount = row.amount /\ row'.base = row.base
        /\ row'.day = row.day /\ row'.values = row.values /\ row'.sources = row.sources
    BY <2>1, <2>2, <2>3 DEF Row
  <2>5. IInv' BY <2>1, <2>4, NullAssumption, RowStep
  <2>6. LegsAddUp(row') BY <2>4 DEF LegsAddUp, BasesAddUp
  <2>7. BaseFollowsAmount BY <2>1, <2>4 DEF BaseFollowsAmount, WorthItsAmount
  <2>8. OnlyLateWritersUndo BY <2>4 DEF OnlyLateWritersUndo, Kept
  <2> QED BY <2>5, <2>6, <2>7, <2>8 DEF Good, LegsFollowParent, HumanSplitStands
<1> QED BY <1>1, <1>2, <1>3 DEF PersonSplits

LEMMA DeleteInv ==
  ASSUME IInv, Delete
  PROVE  IInv' /\ Good
<1>1. row' = None /\ held' = None /\ UNCHANGED <<enabled, rates>> BY DEF Delete
<1>2. IInv' BY <1>1 DEF IInv, TypeOK
<1> QED BY <1>1, <1>2 DEF Good, LegsFollowParent, BaseFollowsAmount, OnlyLateWritersUndo,
                          HumanSplitStands

LEMMA ApplyRulesInv ==
  ASSUME IInv, ApplyRules
  PROVE  IInv' /\ Good
<1>1. row # None /\ row' = Applied(row) /\ UNCHANGED <<enabled, rates, held>> BY DEF ApplyRules
<1>2. row' \in Row /\ Ruled(row, row') BY <1>1, RowIs, AppliedIs DEF IInv
<1>3. IInv' BY <1>1, <1>2, NullAssumption, RowStep
<1>4. LegsFollowParent BY <1>2 DEF Ruled, LegsFollowParent, LegsAddUp, BasesAddUp
<1>5. BaseFollowsAmount BY <1>1, <1>2 DEF Ruled, BaseFollowsAmount, WorthItsAmount
<1> QED BY <1>2, <1>3, <1>4, <1>5, RuledStands, StandingStep DEF Good

\* A step that leaves the row alone.
LEMMA SameRow ==
  ASSUME row' = row
  PROVE  Good
<1>1. OnlyLateWritersUndo /\ HumanSplitStands BY StandingStep DEF Stands
<1> QED BY <1>1 DEF Good, LegsFollowParent, BaseFollowsAmount

LEMMA ToggleInv ==
  ASSUME IInv, NEW i \in DOMAIN Rules, Toggle(i)
  PROVE  IInv' /\ Good
<1>1. row' = row /\ UNCHANGED <<rates, held>> /\ enabled' \subseteq DOMAIN Rules
  BY DEF Toggle, IInv, TypeOK
<1> QED BY <1>1, SameRow DEF IInv, TypeOK

LEMMA RecomputedGood ==
  ASSUME IInv, row # None, rates' \in [Days -> Quotes \cup {None}], row' = Recomputed(row, rates'),
         UNCHANGED <<enabled, held>>
  PROVE  IInv' /\ Good
<1>1. row \in Row BY RowIs DEF IInv
<1>2. /\ row' \in Row
      /\ row'.amount = row.amount /\ row'.day = row.day
      /\ row'.sources = row.sources /\ row'.values = row.values
      /\ Natives(row'.legs) = Natives(row.legs)
      /\ row'.base = ToBase(row.amount, row.day, rates')
      /\ LegsAddUp(row) => LegsAddUp(row')
  BY <1>1, RecomputedIs
<1>3. IInv' BY <1>2, NullAssumption DEF IInv, TypeOK
<1>4. Stands(row, row') BY <1>2 DEF Stands
<1> QED BY <1>2, <1>3, <1>4, StandingStep DEF Good, LegsFollowParent, BaseFollowsAmount

LEMMA StateRateInv ==
  ASSUME IInv, NEW d \in Days, NEW q \in Quotes, StateRate(d, q) \/ StateRateElsewhere(d, q)
  PROVE  IInv' /\ Good
<1>1. rates' = [rates EXCEPT ![d] = q] /\ UNCHANGED <<enabled, held>>
  BY DEF StateRate, StateRateElsewhere
<1>2. rates' \in [Days -> Quotes \cup {None}] BY <1>1 DEF IInv, TypeOK
<1>3. CASE row' = row BY <1>1, <1>2, <1>3, SameRow DEF IInv, TypeOK
<1>4. CASE row' # row
  <2>1. row # None /\ row' = Recomputed(row, rates') BY <1>4 DEF StateRate, StateRateElsewhere
  <2> QED BY <1>1, <1>2, <2>1, RecomputedGood
<1> QED BY <1>3, <1>4

LEMMA RecomputeInv ==
  ASSUME IInv, Recompute
  PROVE  IInv' /\ Good
<1>1. row # None /\ row' = Recomputed(row, rates') /\ UNCHANGED <<enabled, rates, held>>
  BY DEF Recompute
<1>2. rates' \in [Days -> Quotes \cup {None}] BY <1>1 DEF IInv, TypeOK
<1> QED BY <1>1, <1>2, RecomputedGood

-----------------------------------------------------------------------------
(* Writers that overlap                                                    *)

LEMMA LoadInv ==
  ASSUME IInv, NEW by \in Overlaps, Load(by)
  PROVE  IInv' /\ Good
<1>1. row # None /\ held' = [by |-> by, row |-> row] /\ UNCHANGED <<row, enabled, rates>>
  BY DEF Load
<1>2. held' \in [by : Writers, row : Row] /\ held'.by \in Overlaps
  BY <1>1, OverlapsAssumption DEF IInv, TypeOK
<1>3. IInv' BY <1>1, <1>2 DEF IInv, TypeOK
<1> QED BY <1>1, <1>3, SameRow

\* What a flush may make of a row, when the writer left the legs it had loaded alone.
LEMMA LandIs ==
  ASSUME IInv, held # None, NEW made \in Row, made.legs = held.row.legs, Land(made)
  PROVE  /\ row # None /\ row \in Row /\ held.row \in Row
         /\ IInv'
         /\ row'.legs = row.legs
         /\ \A n \in {"amount", "day", "base", "sources"} :
              row'[n] = IF made[n] = held.row[n] THEN row[n] ELSE made[n]
         /\ \A f \in Fields :
              row'.values[f] = IF made.values[f] = held.row.values[f] THEN row.values[f]
                               ELSE made.values[f]
         /\ Lands
         /\ rates' = rates
<1>1. row' = Flushed(row, held.row, made) /\ held' = None /\ UNCHANGED <<enabled, rates>>
  BY DEF Land
<1>2. row # None /\ row \in Row /\ held.row \in Row BY DEF IInv, TypeOK
<1>3. /\ row' \in Row
      /\ row'.legs = row.legs
      /\ \A n \in {"amount", "day", "base", "sources"} :
           row'[n] = IF made[n] = held.row[n] THEN row[n] ELSE made[n]
      /\ \A f \in Fields :
           row'.values[f] = IF made.values[f] = held.row.values[f] THEN row.values[f]
                            ELSE made.values[f]
  BY <1>1, <1>2, FlushedIs
<1>4. row' # None BY <1>3, NullAssumption
<1>5. IInv' BY <1>1, <1>3 DEF IInv, TypeOK
<1> QED BY <1>1, <1>2, <1>3, <1>4, <1>5 DEF Lands

\* What people decided before the writer loaded the row stands.
LEMMA LateWriterStands ==
  ASSUME IInv, held # None, NEW made \in Row, made.legs = held.row.legs, Land(made),
         Stands(held.row, made)
  PROVE  OnlyLateWritersUndo /\ HumanSplitStands
<1>1. /\ Lands /\ row \in Row /\ held.row \in Row
      /\ row'.legs = row.legs
      /\ row'.sources = IF made.sources = held.row.sources THEN row.sources ELSE made.sources
      /\ \A f \in Fields :
           row'.values[f] = IF made.values[f] = held.row.values[f] THEN row.values[f]
                            ELSE made.values[f]
  BY LandIs
<1>2. OnlyLateWritersUndo
  <2> SUFFICES ASSUME NEW f \in Fields, row.sources[f] = "user", held.row.sources[f] = "user"
               PROVE  Kept(f)
    BY <1>1 DEF OnlyLateWritersUndo
  <2>1. made.values[f] = held.row.values[f] /\ made.sources[f] = "user" BY DEF Stands
  <2>2. row'.values[f] = row.values[f] BY <1>1, <2>1
  <2>3. row'.sources[f] = "user" BY <1>1, <2>1
  <2> QED BY <2>2, <2>3 DEF Kept
<1>3. HumanSplitStands
  <2> SUFFICES ASSUME row.sources["splits"] = "user", held.row.sources["splits"] = "user"
               PROVE  row'.sources["splits"] = "user"
    BY <1>1 DEF HumanSplitStands
  <2>1. made.sources["splits"] = "user" BY DEF Stands
  <2> QED BY <1>1, <2>1
<1> QED BY <1>2, <1>3

\* A writer that left the money alone leaves what it adds up to alone.
LEMMA LateWriterCaches ==
  ASSUME IInv, held # None, NEW made \in Row, made.legs = held.row.legs, Land(made),
         made.amount = held.row.amount, made.day = held.row.day, made.base = held.row.base
  PROVE  LegsFollowParent /\ BaseFollowsAmount
<1>1. row'.legs = row.legs /\ row'.amount = row.amount /\ row'.day = row.day
      /\ row'.base = row.base /\ rates' = rates
  BY LandIs
<1> QED BY <1>1 DEF LegsFollowParent, BaseFollowsAmount, WorthItsAmount, LegsAddUp, BasesAddUp

LEMMA OverlapInv ==
  ASSUME IInv, Overlap
  PROVE  IInv' /\ Good
<1>1. ASSUME held # None PROVE /\ NoSplits /\ held.row \in Row
                               /\ \A sent \in Sendable : {"amount", "day"} \cap sent = {}
  BY <1>1, OverlapsAssumption DEF IInv, TypeOK, NoSplits
<1>2. ASSUME NEW report \in Reports, held # None, held.by = "sync", Land(Provided(held.row, report))
      PROVE  IInv' /\ Good
  <2> DEFINE made == Provided(held.row, report)
  <2>1. made \in Row /\ Stands(held.row, made) /\ made.legs = held.row.legs
    BY <1>1, <1>2, ProvidedIs
  <2> HIDE DEF made
  <2>2. Land(made) BY <1>2 DEF made
  <2>3. Lands /\ IInv' BY <1>2, <2>1, <2>2, LandIs
  <2>4. LegsFollowParent /\ BaseFollowsAmount
    BY <1>2, <2>3 DEF LegsFollowParent, BaseFollowsAmount, SyncLands
  <2> QED BY <1>2, <2>1, <2>2, <2>3, <2>4, LateWriterStands DEF Good
<1>3. ASSUME held # None, Land(Applied(held.row)) PROVE IInv' /\ Good
  <2> DEFINE made == Applied(held.row)
  <2>1. made \in Row /\ Ruled(held.row, made) BY <1>1, <1>3, AppliedIs
  <2>2. Stands(held.row, made) BY <2>1, RuledStands
  <2>3. made.legs = held.row.legs /\ made.amount = held.row.amount /\ made.day = held.row.day
        /\ made.base = held.row.base
    BY <1>1, <1>3, <2>1 DEF Ruled
  <2> HIDE DEF made
  <2>4. Land(made) BY <1>3 DEF made
  <2> QED BY <1>3, <2>1, <2>2, <2>3, <2>4, LandIs, LateWriterStands, LateWriterCaches DEF Good
<1>4. ASSUME NEW patch \in Patches, held # None, held.by = "patch", Land(Patched(held.row, patch))
      PROVE  IInv' /\ Good
  <2> DEFINE made == Patched(held.row, patch)
  <2>1. Edited(held.row, made, patch)
    <3>1. rates \in [Days -> Quotes \cup {None}] BY DEF IInv, TypeOK
    <3> QED BY <1>1, <1>4, <3>1, PatchedIs
  <2>2. patch.amount = Unset /\ patch.day = Unset
    <3>1. Sent(patch) \in Sendable /\ {"amount", "day"} \subseteq DOMAIN patch BY DEF Patches
    <3>2. {"amount", "day"} \cap Sent(patch) = {} BY <1>1, <1>4, <3>1
    <3> QED BY <3>1, <3>2 DEF Sent
  <2>3. made \in Row /\ made.legs = held.row.legs /\ made.amount = held.row.amount
        /\ made.day = held.row.day /\ made.base = held.row.base
    BY <2>1, <2>2 DEF Edited
  <2>4. held.row.sources["splits"] = "user" => made.sources["splits"] = "user"
    BY <2>1 DEF Edited
  <2> HIDE DEF made
  <2>5. Land(made) BY <1>4 DEF made
  <2>6. /\ IInv' /\ Lands /\ row'.legs = row.legs
        /\ row'.sources = IF made.sources = held.row.sources THEN row.sources ELSE made.sources
    BY <1>4, <2>3, <2>5, LandIs
  <2>7. OnlyLateWritersUndo BY <1>4, <2>6 DEF OnlyLateWritersUndo, PersonEdits
  <2>8. HumanSplitStands BY <2>4, <2>6 DEF HumanSplitStands
  <2> QED BY <1>4, <2>3, <2>5, <2>6, <2>7, <2>8, LateWriterCaches DEF Good
<1> QED BY <1>2, <1>3, <1>4, LoadInv DEF Overlap, LandSync, LandRules, LandPatch

-----------------------------------------------------------------------------
(* The rules once more                                                     *)

\* What a rule would leave alone: it has nothing more to do to a row.
SplitStands(legs, r) ==
  LET resolved == ResolvedLegs(legs, r.amount) IN
  \/ r.sources["splits"] = "user"
  \/ resolved = None /\ r.legs = <<>>
  \/ resolved # None /\ SameLegs(r.legs, resolved)
Done(i, r) ==
  /\ \A f \in Fields \cap WritesOf(i) : r.sources[f] = "user" \/ r.values[f] = Rules[i].set[f]
  /\ "split" \in WritesOf(i) => SplitStands(Rules[i].set.split, r)

LEMMA WriteTouches ==
  ASSUME NEW acc \in Acc, NEW f \in Fields, NEW value \in Values(f)
  PROVE  LET q == Write(acc, f, value).row IN
         /\ \A g \in Fields \ {f} :
              q.values[g] = acc.row.values[g] /\ q.sources[g] = acc.row.sources[g]
         /\ q.sources["splits"] = acc.row.sources["splits"]
         /\ q.sources[f] = "user" \/ q.values[f] = value
         /\ q.amount = acc.row.amount /\ q.legs = acc.row.legs
<1>1. acc.row \in Row BY DEF Acc
<1>2. /\ Set(acc.row, f, value).values = [acc.row.values EXCEPT ![f] = value]
      /\ Set(acc.row, f, value).sources = [acc.row.sources EXCEPT ![f] = "rule"]
  <2> DEFINE r == acc.row
  <2>1. r \in Row BY <1>1
  <2> HIDE DEF r
  <2>2. /\ Set(r, f, value).values = [r.values EXCEPT ![f] = value]
        /\ Set(r, f, value).sources = [r.sources EXCEPT ![f] = "rule"]
    BY <2>1, SetIs
  <2> QED BY <2>2 DEF r
<1>3. CASE Write(acc, f, value) = acc
  <2>1. acc.row.sources[f] = "user" \/ acc.row.values[f] = value
    <3> SUFFICES ASSUME acc.row.sources[f] # "user", acc.row.values[f] # value PROVE FALSE OBVIOUS
    <3> DEFINE q == Set(acc.row, f, value)
    <3>1. acc = [row |-> q, changed |-> acc.changed \cup {f}] BY <1>3 DEF Write, Wrote
    <3>2. acc.row = q
      <4> HIDE DEF q
      <4> QED BY <3>1
    <3>3. q.values = [acc.row.values EXCEPT ![f] = value] BY <1>2
    <3> HIDE DEF q
    <3> QED BY <1>1, <3>2, <3>3 DEF Row
  <2> QED BY <1>3, <2>1
<1>4. CASE Write(acc, f, value) # acc
  <2> DEFINE q == Set(acc.row, f, value)
  <2>1. Write(acc, f, value) = [row |-> q, changed |-> acc.changed \cup {f}]
    BY <1>4 DEF Write, Wrote
  <2>2. /\ q.amount = acc.row.amount /\ q.legs = acc.row.legs
        /\ q.values = [acc.row.values EXCEPT ![f] = value]
        /\ q.sources = [acc.row.sources EXCEPT ![f] = "rule"]
    BY <1>1, SetIs
  <2> HIDE DEF q
  <2>3. Write(acc, f, value).row = q BY <2>1
  <2>4. q.sources["splits"] = acc.row.sources["splits"] BY <1>1, <2>2 DEF Row, Fields
  <2>5. q.values[f] = value BY <1>1, <2>2 DEF Row
  <2>6. \A g \in Fields \ {f} :
          q.values[g] = acc.row.values[g] /\ q.sources[g] = acc.row.sources[g]
    BY <1>1, <2>2 DEF Row
  <2> QED BY <2>2, <2>3, <2>4, <2>5, <2>6
<1> QED BY <1>3, <1>4

\* Legs stored as they were resolved are the same legs.
LEMMA StoredAreSame ==
  ASSUME NEW stored \in Seq(Leg), NEW legs \in Seq(Plain), Len(stored) = Len(legs),
         \A i \in 1..Len(legs) : stored[i].amount = legs[i].amount
                                 /\ stored[i].category = legs[i].category
  PROVE  SameLegs(stored, legs)
<1> DEFINE plain == [i \in DOMAIN stored |->
                      [amount |-> stored[i].amount, category |-> stored[i].category]]
<1>1. DOMAIN stored = 1..Len(legs) /\ DOMAIN legs = 1..Len(legs) OBVIOUS
<1>2. \A i \in 1..Len(legs) : legs[i] = [amount |-> legs[i].amount, category |-> legs[i].category]
  <2>1. \A leg \in Plain : leg = [amount |-> leg.amount, category |-> leg.category] BY DEF Plain
  <2>2. \A i \in 1..Len(legs) : legs[i] \in Plain BY ElementOfSeq
  <2> QED BY <2>1, <2>2
<1>3. \A i \in 1..Len(legs) : plain[i] = legs[i] BY <1>1, <1>2
<1>4. plain = legs
  <2>1. plain = [i \in 1..Len(legs) |-> plain[i]] BY <1>1
  <2>2. legs = [i \in 1..Len(legs) |-> legs[i]] OBVIOUS
  <2> HIDE DEF plain
  <2> QED BY <1>3, <2>1, <2>2
<1> QED BY <1>4 DEF SameLegs

LEMMA SplitIsDone ==
  ASSUME NEW acc \in Acc, NEW i \in DOMAIN Rules, "split" \in DOMAIN Rules[i].set
  PROVE  SplitStands(Rules[i].set.split, ApplySplit(acc, Rules[i].set.split).row)
<1> DEFINE legs == Rules[i].set.split
           resolved == ResolvedLegs(legs, acc.row.amount)
           new == IF resolved = None THEN <<>> ELSE resolved
           after == ApplySplit(acc, legs)
           q == SetSplits(acc.row, new, "rule")
<1>1. acc.row \in Row /\ acc.row.amount \in Int BY MoneyAssumption DEF Acc, Row
<1>2. /\ legs \in Seq(ToSet(legs)) \ {<<>>}
      /\ \A k \in DOMAIN legs : legs[k].category \in Values("category")
      /\ \A k \in DOMAIN Front(legs) : LegOK(legs[k])
  BY RulesAssumption DEF RuleOK
<1> HIDE DEF legs
<1>3. resolved # None => resolved \in Seq(Plain) \ {<<>>} BY <1>1, <1>2, ResolvedIs
<1>4. CASE SplitStands(legs, acc.row)
  <2>1. after = acc BY <1>4 DEF ApplySplit, SplitStands
  <2> QED BY <1>4, <2>1 DEF legs
<1>5. CASE ~SplitStands(legs, acc.row)
  <2>1. after = [row |-> q, changed |-> acc.changed \cup {"splits"}]
    BY <1>5 DEF ApplySplit, SplitStands, Wrote
  <2> HIDE DEF resolved
  <2>2. new \in Seq(Plain) BY <1>3, EmptySeq
  <2>3. SplitOf(acc.row, q, new, "rule") BY <1>1, <2>2, SetSplitsIs DEF Sources
  <2> HIDE DEF q, after
  <2>4. /\ q.amount = acc.row.amount /\ q.legs \in Seq(Leg) /\ Len(q.legs) = Len(new)
        /\ \A k \in 1..Len(new) : q.legs[k].amount = new[k].amount
                                  /\ q.legs[k].category = new[k].category
    BY <2>3 DEF SplitOf, Row
  <2>5. CASE resolved = None
    <3>1. Len(q.legs) = 0 BY <2>4, <2>5, EmptySeq
    <3>2. q.legs = <<>> BY <2>4, <3>1, EmptySeq
    <3> QED BY <2>1, <2>4, <2>5, <3>2 DEF SplitStands, resolved, after, legs
  <2>6. CASE resolved # None
    <3>1. SameLegs(q.legs, new)
      <4> HIDE DEF new
      <4> QED BY <2>2, <2>4, StoredAreSame
    <3> QED BY <2>1, <2>4, <2>6, <3>1 DEF SplitStands, resolved, after, legs
  <2> QED BY <2>5, <2>6
<1> QED BY <1>4, <1>5 DEF legs

\* A rule that matches has nothing more to do, and one rule leaves alone what it does
\* not write.
LEMMA ApplyRuleTouches ==
  ASSUME NEW acc \in Acc, NEW i \in DOMAIN Rules
  PROVE  LET q == ApplyRule(acc, Rules[i]).row IN
         /\ q.amount = acc.row.amount
         /\ \A f \in Fields \ WritesOf(i) :
              q.values[f] = acc.row.values[f] /\ q.sources[f] = acc.row.sources[f]
         /\ "split" \notin WritesOf(i) =>
              q.legs = acc.row.legs /\ q.sources["splits"] = acc.row.sources["splits"]
         /\ Matches(Rules[i], acc.row) => Done(i, q)
<1> DEFINE set == Rules[i].set
           write(a, f) == IF f \in DOMAIN set THEN Write(a, f, set[f]) ELSE a
           filed == write(acc, "category")
           written == write(filed, "merchant")
           after == ApplyRule(acc, Rules[i])
<1>1. \A f \in Fields : f \in DOMAIN set => set[f] \in Values(f) BY RulesAssumption DEF RuleOK
<1>2. ASSUME NEW a \in Acc, NEW f \in Fields
      PROVE  /\ write(a, f) \in Acc
             /\ \A g \in Fields : g # f \/ f \notin DOMAIN set =>
                  /\ write(a, f).row.values[g] = a.row.values[g]
                  /\ write(a, f).row.sources[g] = a.row.sources[g]
             /\ write(a, f).row.sources["splits"] = a.row.sources["splits"]
             /\ f \in DOMAIN set => \/ write(a, f).row.sources[f] = "user"
                                    \/ write(a, f).row.values[f] = set[f]
             /\ write(a, f).row.amount = a.row.amount
             /\ write(a, f).row.legs = a.row.legs
  <2>1. CASE f \in DOMAIN set
    <3>1. set[f] \in Values(f) BY <1>1, <2>1
    <3>2. write(a, f) = Write(a, f, set[f]) BY <2>1
    <3> DEFINE value == set[f]
    <3> HIDE DEF value, write, set
    <3>3. Write(a, f, value) \in Acc BY <3>1, WriteIs DEF value
    <3>4. LET q == Write(a, f, value).row IN
          /\ \A g \in Fields \ {f} :
               q.values[g] = a.row.values[g] /\ q.sources[g] = a.row.sources[g]
          /\ q.sources["splits"] = a.row.sources["splits"]
          /\ q.sources[f] = "user" \/ q.values[f] = value
          /\ q.amount = a.row.amount /\ q.legs = a.row.legs
      BY <3>1, WriteTouches DEF value
    <3> QED BY <2>1, <3>2, <3>3, <3>4 DEF value
  <2>2. CASE f \notin DOMAIN set BY <2>2
  <2> QED BY <2>1, <2>2
<1>3. after = IF ~Matches(Rules[i], acc.row) THEN acc
              ELSE IF "split" \in DOMAIN set THEN ApplySplit(written, set.split)
              ELSE written
  BY DEF ApplyRule
<1>4. WritesOf(i) = DOMAIN set BY DEF WritesOf
<1> HIDE DEF write, after, set
<1>5. /\ filed \in Acc
      /\ \A g \in Fields : g # "category" \/ "category" \notin DOMAIN set =>
           filed.row.values[g] = acc.row.values[g] /\ filed.row.sources[g] = acc.row.sources[g]
      /\ filed.row.sources["splits"] = acc.row.sources["splits"]
      /\ "category" \in DOMAIN set => \/ filed.row.sources["category"] = "user"
                                      \/ filed.row.values["category"] = set["category"]
      /\ filed.row.amount = acc.row.amount
      /\ filed.row.legs = acc.row.legs
  BY <1>2 DEF Fields
<1> HIDE DEF filed
<1>6. /\ written \in Acc
      /\ \A g \in Fields : g # "merchant" \/ "merchant" \notin DOMAIN set =>
           written.row.values[g] = filed.row.values[g] /\ written.row.sources[g] = filed.row.sources[g]
      /\ written.row.sources["splits"] = filed.row.sources["splits"]
      /\ "merchant" \in DOMAIN set => \/ written.row.sources["merchant"] = "user"
                                      \/ written.row.values["merchant"] = set["merchant"]
      /\ written.row.amount = filed.row.amount
      /\ written.row.legs = filed.row.legs
  BY <1>2, <1>5 DEF Fields
<1> HIDE DEF written
<1>7. \A f \in Fields \ DOMAIN set :
        written.row.values[f] = acc.row.values[f] /\ written.row.sources[f] = acc.row.sources[f]
  BY <1>5, <1>6 DEF Fields
<1>8. \A f \in Fields \cap DOMAIN set :
        written.row.sources[f] = "user" \/ written.row.values[f] = set[f]
  BY <1>5, <1>6 DEF Fields
<1>9. CASE ~Matches(Rules[i], acc.row) BY <1>3, <1>9 DEF after
<1>10. CASE Matches(Rules[i], acc.row) /\ "split" \in DOMAIN set
  <2> DEFINE p == ApplySplit(written, set.split)
  <2>1. /\ Ruled(written.row, p.row) /\ p.row.values = written.row.values
        /\ \A f \in Fields : p.row.sources[f] = written.row.sources[f]
    BY <1>6, <1>10, ApplySplitIs DEF set
  <2>2. SplitStands(set.split, p.row) BY <1>6, <1>10, SplitIsDone DEF set
  <2> HIDE DEF p
  <2>3. Done(i, p.row) BY <1>4, <1>8, <2>1, <2>2 DEF Done, set
  <2>4. p.row.amount = acc.row.amount BY <1>5, <1>6, <2>1 DEF Ruled
  <2>5. after = p BY <1>3, <1>10 DEF p
  <2> QED BY <1>4, <1>7, <1>10, <2>1, <2>3, <2>4, <2>5 DEF after
<1>11. CASE Matches(Rules[i], acc.row) /\ "split" \notin DOMAIN set
  <2>1. after = written BY <1>3, <1>11
  <2>2. Done(i, written.row) BY <1>4, <1>8, <1>11 DEF Done, set
  <2> QED BY <1>4, <1>5, <1>6, <1>7, <1>11, <2>1, <2>2 DEF after
<1> QED BY <1>9, <1>10, <1>11

LEMMA RulesAreASeq == Len(Rules) \in Nat /\ DOMAIN Rules = 1..Len(Rules)
<1> DEFINE S == ToSet(Rules)
<1>1. Rules \in Seq(S) BY RulesAssumption
<1> HIDE DEF S
<1> QED BY <1>1

\* Two rows that differ in nothing an enabled rule reads match the same rules.
SameReads(r, q) ==
  /\ q.amount = r.amount
  /\ \A f \in Fields, i \in enabled : f \in ReadsOf(i) => q.values[f] = r.values[f]

LEMMA SameMatches ==
  ASSUME NEW r, NEW q, SameReads(r, q), NEW i \in enabled
  PROVE  Matches(Rules[i], q) <=> Matches(Rules[i], r)
BY DEF SameReads, Matches, ReadsOf

\* After each rule of a first pass over rules that do not touch one another, those that
\* matched have nothing more to do.
LEMMA DoneByDone ==
  ASSUME NEW r \in Row, enabled \subseteq DOMAIN Rules, ConflictFree(r)
  PROVE  \A n \in 0..Len(Rules) :
           /\ SameReads(r, Passes(r)[n].row)
           /\ \A i \in enabled \cap 1..n : Matches(Rules[i], r) => Done(i, Passes(r)[n].row)
<1> DEFINE N == Len(Rules)
           A == Passes(r)
           Clear(n) == \A i \in enabled \cap 1..n : Matches(Rules[i], r) => Done(i, A[n].row)
           S == {n \in 0..N : SameReads(r, A[n].row) /\ Clear(n)}
<1>1. N \in Nat /\ DOMAIN Rules = 1..N BY RulesAreASeq
<1>2. /\ A[0] = [row |-> r, changed |-> {}]
      /\ \A n \in 1..N : A[n] = IF n \in enabled THEN ApplyRule(A[n - 1], Rules[n]) ELSE A[n - 1]
  BY PassByPass
<1>3. \A n \in 0..N : A[n] \in Acc BY PassesAre
<1>4. \A i, j \in enabled : ReadsOf(i) \cap WritesOf(j) = {} BY DEF ConflictFree
<1>5. \A i, j \in enabled : Matches(Rules[i], r) /\ Matches(Rules[j], r) /\ i # j
                              => WritesOf(i) \cap WritesOf(j) = {}
  BY DEF ConflictFree
<1> HIDE DEF A
<1>6. 0 \in S BY <1>1, <1>2 DEF SameReads
<1>7. \A k \in 0..(N - 1) : k \in S => k + 1 \in S
  <2> SUFFICES ASSUME NEW k \in 0..(N - 1), k \in S PROVE k + 1 \in S OBVIOUS
  <2> DEFINE acc == A[k]
             q == A[k + 1].row
             i == k + 1
  <2>1. i \in 1..N /\ i - 1 = k /\ k \in 0..N BY <1>1
  <2>2. SameReads(r, acc.row) /\ Clear(k) OBVIOUS
  <2>3. acc \in Acc BY <1>3, <2>1
  <2>4. A[i] = IF i \in enabled THEN ApplyRule(acc, Rules[i]) ELSE acc BY <1>2, <2>1
  <2> HIDE DEF S, Clear
  <2>5. ASSUME A[i] = acc, i \in enabled => ~Matches(Rules[i], r) PROVE i \in S
    <3>1. Clear(i)
      <4>1. \A j \in 1..i : j \in 1..k \/ j = i BY <2>1
      <4> QED BY <2>2, <2>5, <4>1 DEF Clear
    <3> QED BY <2>1, <2>2, <2>5, <3>1 DEF S
  <2>6. CASE i \notin enabled BY <2>4, <2>5, <2>6
  <2>7. CASE i \in enabled /\ ~Matches(Rules[i], r)
    <3>1. ~Matches(Rules[i], acc.row) BY <2>2, <2>7, SameMatches
    <3>2. A[i] = acc BY <2>4, <2>7, <3>1 DEF ApplyRule
    <3> QED BY <2>5, <2>7, <3>2
  <2>8. CASE i \in enabled /\ Matches(Rules[i], r)
    <3>1. A[i] = ApplyRule(acc, Rules[i]) /\ Matches(Rules[i], acc.row)
      BY <2>2, <2>4, <2>8, SameMatches
    <3>2. /\ q.amount = acc.row.amount
          /\ \A f \in Fields \ WritesOf(i) :
               q.values[f] = acc.row.values[f] /\ q.sources[f] = acc.row.sources[f]
          /\ "split" \notin WritesOf(i) =>
               q.legs = acc.row.legs /\ q.sources["splits"] = acc.row.sources["splits"]
          /\ Done(i, q)
      BY <1>1, <2>1, <2>3, <3>1, ApplyRuleTouches
    <3> HIDE DEF q, acc, i
    <3>3. SameReads(r, q)
      <4>1. \A f \in Fields, j \in enabled : f \in ReadsOf(j) => f \notin WritesOf(i)
        BY <1>4, <2>8
      <4> QED BY <2>2, <3>2, <4>1 DEF SameReads
    <3>4. ASSUME NEW j \in enabled \cap 1..k, Matches(Rules[j], r) PROVE Done(j, q)
      <4>1. Done(j, acc.row) BY <2>2, <3>4 DEF Clear, acc
      <4>2. j # i BY <2>1 DEF i
      <4>3. WritesOf(j) \cap WritesOf(i) = {} BY <1>5, <2>8, <3>4, <4>2
      <4>4. \A f \in Fields \cap WritesOf(j) : q.sources[f] = "user" \/ q.values[f] = Rules[j].set[f]
        BY <3>2, <4>1, <4>3 DEF Done
      <4>5. ASSUME "split" \in WritesOf(j) PROVE SplitStands(Rules[j].set.split, q)
        <5>1. q.legs = acc.row.legs /\ q.sources["splits"] = acc.row.sources["splits"]
              /\ q.amount = acc.row.amount
          BY <3>2, <4>3, <4>5
        <5>2. SplitStands(Rules[j].set.split, acc.row) BY <4>1, <4>5 DEF Done
        <5> QED BY <5>1, <5>2 DEF SplitStands
      <4> QED BY <4>4, <4>5 DEF Done
    <3>5. Clear(i)
      <4>1. \A j \in 1..i : j \in 1..k \/ j = i BY <2>1 DEF i
      <4> QED BY <3>2, <3>4, <4>1 DEF Clear, q, i
    <3> QED BY <2>1, <3>3, <3>5 DEF S, q, i
  <2> QED BY <2>6, <2>7, <2>8
<1> HIDE DEF S
<1>8. \A k \in 0..N : k \in S BY <1>1, <1>6, <1>7, UpTo
<1> QED BY <1>8 DEF S, A

LEMMA DoneIsNoop ==
  ASSUME NEW acc \in Acc, NEW i \in DOMAIN Rules, Matches(Rules[i], acc.row) => Done(i, acc.row)
  PROVE  ApplyRule(acc, Rules[i]) = acc
<1> DEFINE set == Rules[i].set
<1>1. CASE ~Matches(Rules[i], acc.row) BY <1>1 DEF ApplyRule
<1>2. CASE Matches(Rules[i], acc.row)
  <2>1. \A f \in Fields : f \in DOMAIN set => Write(acc, f, set[f]) = acc
    BY <1>2 DEF Done, WritesOf, Write
  <2>2. "split" \in DOMAIN set => ApplySplit(acc, set.split) = acc
    BY <1>2 DEF Done, WritesOf, ApplySplit, SplitStands
  <2> QED BY <1>2, <2>1, <2>2 DEF ApplyRule, Fields
<1> QED BY <1>1, <1>2

LEMMA SecondPassIsNoop ==
  ASSUME IInv, row # None, ConflictFree(row)
  PROVE  Pass(Applied(row)).changed = {}
<1> DEFINE N == Len(Rules)
           R == Applied(row)
           B == Passes(R)
           start == [row |-> R, changed |-> {}]
           S == {n \in 0..N : B[n] = start}
<1>1. N \in Nat /\ DOMAIN Rules = 1..N BY RulesAreASeq
<1>2. row \in Row /\ enabled \subseteq DOMAIN Rules BY RowIs DEF IInv, TypeOK
<1>3. R \in Row BY <1>2, AppliedIs
<1>4. /\ SameReads(row, R)
      /\ \A i \in enabled \cap 1..N : Matches(Rules[i], row) => Done(i, R)
  BY <1>1, <1>2, DoneByDone DEF Applied, Pass
<1> HIDE DEF R
<1>5. /\ B[0] = start
      /\ \A n \in 1..N : B[n] = IF n \in enabled THEN ApplyRule(B[n - 1], Rules[n]) ELSE B[n - 1]
  BY <1>3, PassByPass
<1>6. start \in Acc BY <1>3 DEF Acc
<1>7. \A i \in enabled : ApplyRule(start, Rules[i]) = start
  <2> SUFFICES ASSUME NEW i \in enabled PROVE ApplyRule(start, Rules[i]) = start OBVIOUS
  <2>1. i \in DOMAIN Rules /\ i \in 1..N BY <1>1, <1>2
  <2>2. Matches(Rules[i], R) => Done(i, R) BY <1>4, <2>1, SameMatches
  <2>3. start.row = R OBVIOUS
  <2> HIDE DEF start
  <2> QED BY <1>6, <2>1, <2>2, <2>3, DoneIsNoop
<1> HIDE DEF B, start
<1>8. 0 \in S BY <1>1, <1>5
<1>9. \A k \in 0..(N - 1) : k \in S => k + 1 \in S
  <2> SUFFICES ASSUME NEW k \in 0..(N - 1), k \in S PROVE k + 1 \in S OBVIOUS
  <2>1. k + 1 \in 1..N /\ k + 1 - 1 = k BY <1>1
  <2>2. B[k + 1] = IF k + 1 \in enabled THEN ApplyRule(B[k], Rules[k + 1]) ELSE B[k]
    BY <1>5, <2>1
  <2> QED BY <1>7, <2>1, <2>2
<1> HIDE DEF S
<1>10. N \in S
  <2>1. \A k \in 0..N : k \in S
    <3> HIDE DEF N
    <3> QED BY <1>1, <1>8, <1>9, UpTo
  <2> QED BY <1>1, <2>1
<1>11. B[N] = start BY <1>10 DEF S
<1> QED BY <1>11 DEF Pass, B, R, start

-----------------------------------------------------------------------------
(* Theorems                                                                *)

LEMMA InitInv == Init => IInv
BY DEF Init, IInv, TypeOK

LEMMA NextInv == IInv /\ [Next]_vars => IInv' /\ Good
<1> SUFFICES ASSUME IInv, [Next]_vars PROVE IInv' /\ Good OBVIOUS
<1>1. CASE UNCHANGED vars
  <2>1. row' = row /\ UNCHANGED <<enabled, rates, held>> BY <1>1 DEF vars
  <2> QED BY <2>1, SameRow DEF IInv, TypeOK
<1>2. ASSUME NEW d \in Rated, NEW q \in Quotes, StateRate(d, q) \/ StateRateElsewhere(d, q)
      PROVE  IInv' /\ Good
  <2>1. d \in Days BY DaysAssumption
  <2> QED BY <1>2, <2>1, StateRateInv
<1> QED BY <1>1, <1>2, CreateInv, SyncInv, PatchInv, PersonSplitsInv, DeleteInv, ApplyRulesInv,
           ToggleInv, RecomputeInv, OverlapInv
        DEF Next

\* Every row is well formed, and a writer in hand is one that may overlap.
THEOREM Inductive == Spec => []IInv
<1> QED BY InitInv, NextInv, PTL DEF Spec

\* Money is conserved: whatever people, rules and rates do, in any order and with any
\* amounts, a split row's legs keep adding up to it in both currencies, and its base
\* amount stays its amount at its day's rate; a sync and another household's rate are
\* the exceptions.
THEOREM CachesStayRightForAll == Spec => CachesStayRight
<1>1. IInv /\ [Next]_vars => [LegsFollowParent /\ BaseFollowsAmount]_vars BY NextInv DEF Good
<1> QED BY <1>1, Inductive, PTL DEF Spec, CachesStayRight

\* What people set, and how they split, only a writer that loaded the row before they did
\* writes over, and it re-draws no split.
THEOREM PeopleDecideForAll == Spec => PeopleDecide
<1>1. IInv /\ [Next]_vars => [OnlyLateWritersUndo /\ HumanSplitStands]_vars BY NextInv DEF Good
<1> QED BY <1>1, Inductive, PTL DEF Spec, PeopleDecide

\* Where no writers overlap, what a person set only a person changes.
THEOREM PeopleAreHeardAlone ==
  ASSUME Overlaps = {}
  PROVE  Spec => [][UserFieldsStand]_vars
<1>1. ASSUME IInv, [Next]_vars PROVE [UserFieldsStand]_vars
  <2>1. OnlyLateWritersUndo BY <1>1, NextInv DEF Good
  <2>2. ~Lands BY <1>1 DEF IInv, Lands
  <2> QED BY <2>1, <2>2 DEF OnlyLateWritersUndo, UserFieldsStand
<1> QED BY <1>1, Inductive, PTL DEF Spec

\* A recompute repairs whatever a cache has come to, and applying rules that do not touch
\* one another twice changes nothing the second time.
THEOREM RunsAgainForAll == Spec => []RunsAgain
<1>1. ASSUME IInv PROVE RecomputeRepairs
  <2> SUFFICES ASSUME row # None
               PROVE  LET r == Recomputed(row, rates) IN
                      /\ WorthItsAmount(r)
                      /\ BasesAddUp(r)
                      /\ Natives(r.legs) = Natives(row.legs)
    BY DEF RecomputeRepairs
  <2>1. row \in Row /\ rates \in [Days -> Quotes \cup {None}] BY <1>1, RowIs DEF IInv
  <2> DEFINE r == Recomputed(row, rates)
  <2>2. /\ r.amount = row.amount /\ r.day = row.day /\ r.base = ToBase(row.amount, row.day, rates)
        /\ BasesAddUp(r) /\ Natives(r.legs) = Natives(row.legs)
    BY <2>1, RecomputedIs
  <2> HIDE DEF r
  <2>3. WorthItsAmount(r) BY <2>2 DEF WorthItsAmount
  <2> QED BY <2>2, <2>3 DEF r
<1>2. IInv => RunsAgain BY <1>1, SecondPassIsNoop DEF IInv, RunsAgain, SecondApplyIsNoop
<1> QED BY <1>2, Inductive, PTL
=============================================================================
