------------------------------ MODULE Recursion ------------------------------
(***************************************************************************)
(* Induction over an interval of numbers, and the existence of functions   *)
(* defined by recursion over one, in the form the proofs about passes need:*)
(* sets and functions where the library's theorems take operators.  And    *)
(* sums over a finite set, which the library defines by such a recursion.  *)
(***************************************************************************)
EXTENDS Integers, FiniteSetTheorems, WellFoundedInduction, TLAPS

\* A nonempty family of subsets of a finite set has a least member.
LEMMA LeastMember ==
  ASSUME NEW S, IsFiniteSet(S), NEW F \in SUBSET (SUBSET S), F # {}
  PROVE  \E A \in F : \A B \in F : ~(B \subseteq A /\ B # A)
<1>1. IsWellFoundedOn(StrictSubsetOrdering(S), SUBSET S)
  BY FS_StrictSubsetOrderingWellFounded, FS_FiniteSubsetsOfFinite
<1>2. \E A \in F : \A B \in F : ~(<<B, A>> \in StrictSubsetOrdering(S))
  <2> HIDE DEF StrictSubsetOrdering
  <2> QED BY <1>1, WFMin
<1>3. \A A, B \in SUBSET S : <<B, A>> \in StrictSubsetOrdering(S) <=> (B \subseteq A /\ B # A)
  BY DEF StrictSubsetOrdering
<1> QED BY <1>2, <1>3

\* A set that has 0, and with each number below n the next, has every number up to n.
THEOREM UpTo ==
  ASSUME NEW n \in Nat, NEW S, 0 \in S, \A k \in 0..(n - 1) : k \in S => k + 1 \in S
  PROVE  \A k \in 0..n : k \in S
<1> SUFFICES ASSUME NEW m \in 0..n, m \notin S PROVE FALSE OBVIOUS
<1> DEFINE F == {A \in SUBSET (0..n) : \E k \in 0..n : A = 0..k /\ k \notin S}
<1>1. F # {} /\ F \in SUBSET (SUBSET (0..n))
  <2>1. 0..m \in SUBSET (0..n) OBVIOUS
  <2>2. 0..m \in F BY <2>1
  <2> QED BY <2>2
<1>2. IsFiniteSet(0..n) BY FS_Interval
<1>3. PICK A \in F : \A B \in F : ~(B \subseteq A /\ B # A)
  <2> DEFINE I == 0..n
  <2>1. IsFiniteSet(I) /\ F \in SUBSET (SUBSET I) /\ F # {} BY <1>1, <1>2
  <2> HIDE DEF F, I
  <2> QED BY <2>1, LeastMember
<1>4. PICK k \in 0..n : A = 0..k /\ k \notin S OBVIOUS
<1>5. k # 0 /\ k - 1 \in 0..(n - 1) BY <1>4
<1>6. k - 1 \in S
  <2> SUFFICES ASSUME k - 1 \notin S PROVE FALSE OBVIOUS
  <2>1. 0..(k - 1) \in F BY <1>5
  <2>2. 0..(k - 1) \subseteq A /\ 0..(k - 1) # A BY <1>4, <1>5
  <2> QED BY <1>3, <2>1, <2>2
<1> QED BY <1>4, <1>5, <1>6

\* A set of numbers up to n has a greatest one.
THEOREM GreatestOne ==
  ASSUME NEW n \in Nat, NEW S \in SUBSET (0..n), S # {}
  PROVE  \E x \in S : \A y \in S : x >= y
<1> DEFINE T == 0..n
           F == {k..n : k \in S}
<1>1. IsFiniteSet(T) BY FS_Interval, 0 \in Int, n \in Int
<1>2. F \in SUBSET (SUBSET T) /\ F # {}
  <2>1. \A k \in S : k..n \in SUBSET T OBVIOUS
  <2>2. F \subseteq SUBSET T BY <2>1
  <2>3. F # {} OBVIOUS
  <2> QED BY <2>2, <2>3
<1>3. PICK A \in F : \A B \in F : ~(B \subseteq A /\ B # A)
  <2> HIDE DEF F, T
  <2> QED BY <1>1, <1>2, LeastMember
<1>4. PICK x \in S : A = x..n BY <1>3
<1>5. ASSUME NEW y \in S PROVE x >= y
  <2> SUFFICES ASSUME x < y PROVE FALSE OBVIOUS
  <2>1. y..n \in F /\ y..n \subseteq A /\ x \in A /\ x \notin y..n BY <1>4
  <2> QED BY <1>3, <2>1
<1> QED BY <1>5

\* and a least one.
LEMMA LeastOne ==
  ASSUME NEW n \in Nat, NEW S \in SUBSET (0..n), S # {}
  PROVE  \E x \in S : \A y \in S : x <= y
<1> DEFINE T == {n - x : x \in S}
<1>1. T \in SUBSET (0..n) /\ T # {} OBVIOUS
<1>2. PICK z \in T : \A y \in T : z >= y BY <1>1, GreatestOne
<1>3. PICK x \in S : z = n - x BY <1>2
<1>4. ASSUME NEW y \in S PROVE x <= y
  <2>1. n - y \in T /\ z >= n - y BY <1>2
  <2> QED BY <1>3, <2>1
<1> QED BY <1>4

\* A step function over 1..n and T, and a function that follows it from start.
Steps(n, T) == [(1..n) \X T -> T]
Follows(f, n, T, start, G) ==
  f \in [0..n -> T] /\ f[0] = start /\ \A k \in 1..n : f[k] = G[<<k, f[k - 1]>>]

\* The function a recursion over 0..n describes exists: it starts where start says, and
\* the k-th step is G's of the one before.
THEOREM Recursion ==
  ASSUME NEW n \in Nat, NEW T, NEW start \in T, NEW G \in Steps(n, T)
  PROVE  \E f : Follows(f, n, T, start, G)
<1> USE DEF Steps, Follows
<1> DEFINE Upto(f, m) == f[0] = start /\ \A k \in 1..m : f[k] = G[<<k, f[k - 1]>>]
           S == {m \in 0..n : \E f \in [0..m -> T] : Upto(f, m)}
<1>1. 0 \in S
  <2> DEFINE first == [k \in 0..0 |-> start]
  <2>1. first \in [0..0 -> T] OBVIOUS
  <2>2. Upto(first, 0) OBVIOUS
  <2> HIDE DEF first, Upto
  <2> QED BY <2>1, <2>2
<1>2. \A m \in 0..(n - 1) : m \in S => m + 1 \in S
  <2> SUFFICES ASSUME NEW m \in 0..(n - 1), m \in S PROVE m + 1 \in S OBVIOUS
  <2>1. PICK f \in [0..m -> T] : Upto(f, m) OBVIOUS
  <2> DEFINE next == G[<<m + 1, f[m]>>]
             g == [k \in 0..(m + 1) |-> IF k = m + 1 THEN next ELSE f[k]]
  <2>2. next \in T
    <3>1. m + 1 \in 1..n /\ f[m] \in T OBVIOUS
    <3>2. <<m + 1, f[m]>> \in (1..n) \X T BY <3>1
    <3> QED BY <3>2
  <2>3. g \in [0..(m + 1) -> T]
    <3>1. \A k \in 0..(m + 1) : k # m + 1 => k \in 0..m OBVIOUS
    <3> QED BY <2>2, <3>1
  <2>4. Upto(g, m + 1)
    <3>1. g[0] = start BY <2>1
    <3>2. \A k \in 1..m : g[k] = f[k] /\ g[k - 1] = f[k - 1] OBVIOUS
    <3>3. g[m + 1] = next /\ g[m] = f[m] OBVIOUS
    <3>4. ASSUME NEW k \in 1..(m + 1) PROVE g[k] = G[<<k, g[k - 1]>>]
      <4> HIDE DEF g
      <4>1. CASE k = m + 1
        <5>1. k - 1 = m BY <4>1
        <5> QED BY <4>1, <5>1, <3>3
      <4>2. CASE k \in 1..m BY <4>2, <3>2, <2>1
      <4> QED BY <4>1, <4>2
    <3> HIDE DEF g
    <3> QED BY <3>1, <3>4
  <2> HIDE DEF g, Upto
  <2>5. m + 1 \in 0..n OBVIOUS
  <2> QED BY <2>3, <2>4, <2>5
<1> HIDE DEF S
<1>3. n \in S BY <1>1, <1>2, UpTo
<1> QED BY <1>3 DEF S

-----------------------------------------------------------------------------
(* Sums over a finite set                                                  *)

Pick(s) == CHOOSE y \in s : TRUE

\* A sum as the library's fold takes it: one member at a time.
SumStep(f, S, g) ==
  [s \in SUBSET S |-> IF s = {} THEN 0 ELSE f[Pick(s)] + g[s \ {Pick(s)}]]

SumOver(f, S) == (CHOOSE g : g = SumStep(f, S, g))[S]

IntOn(f, S) == \A x \in S : f[x] \in Int

\* What that recursion takes from a set leaves one member fewer.
LEMMA OneLess ==
  ASSUME NEW S, IsFiniteSet(S), NEW s \in SUBSET S, s # {}
  PROVE  /\ Pick(s) \in s /\ s \ {Pick(s)} \in SUBSET S
         /\ Cardinality(s) \in Nat /\ Cardinality(s \ {Pick(s)}) \in Nat
         /\ Cardinality(s \ {Pick(s)}) = Cardinality(s) - 1
<1>1. Pick(s) \in s BY DEF Pick
<1>2. IsFiniteSet(s) BY FS_Subset
<1> QED BY <1>1, <1>2, FS_RemoveElement, FS_CardinalityType

\* The recursion has a solution: as many steps as there are members find it.
LEMMA SumThere ==
  ASSUME NEW S, IsFiniteSet(S), NEW f, IntOn(f, S)
  PROVE  \E g \in [SUBSET S -> Int] : g = SumStep(f, S, g)
<1> DEFINE N == Cardinality(S)
           T == [SUBSET S -> Int]
           Small(k) == {s \in SUBSET S : Cardinality(s) <= k}
<1>1. N \in Nat /\ \A s \in SUBSET S : Cardinality(s) \in Nat /\ Cardinality(s) <= N
  BY FS_CardinalityType, FS_Subset
<1>2. \A s \in SUBSET S : s # {} =>
        /\ Pick(s) \in s /\ s \ {Pick(s)} \in SUBSET S
        /\ Cardinality(s \ {Pick(s)}) = Cardinality(s) - 1
  BY OneLess
<1>4. \A g : /\ SumStep(f, S, g)[{}] = 0
            /\ \A s \in SUBSET S : s # {} => SumStep(f, S, g)[s] = f[Pick(s)] + g[s \ {Pick(s)}]
  <2>1. \A g : \A s \in SUBSET S : SumStep(f, S, g)[s] = IF s = {} THEN 0 ELSE f[Pick(s)] + g[s \ {Pick(s)}]
    BY DEF SumStep
  <2>2. {} \in SUBSET S OBVIOUS
  <2> QED BY <2>1, <2>2
<1>5. \A g \in T : SumStep(f, S, g) \in T
  <2> SUFFICES ASSUME NEW g \in T, NEW s \in SUBSET S PROVE SumStep(f, S, g)[s] \in Int
    BY DEF SumStep
  <2>1. CASE s = {} BY <1>4, <2>1
  <2>2. CASE s # {}
    <3>1. f[Pick(s)] \in Int /\ g[s \ {Pick(s)}] \in Int BY <1>2, <2>2 DEF IntOn
    <3>2. SumStep(f, S, g)[s] = f[Pick(s)] + g[s \ {Pick(s)}] BY <1>4, <2>2
    <3> QED BY <3>1, <3>2
  <2> QED BY <2>1, <2>2
<1> DEFINE start == [s \in SUBSET S |-> 0]
           G == [kg \in (1..(N + 1)) \X T |-> SumStep(f, S, kg[2])]
<1>6. start \in T OBVIOUS
<1>7. G \in Steps(N + 1, T) BY <1>5 DEF Steps
<1>8. PICK F : Follows(F, N + 1, T, start, G)
  <2> HIDE DEF start, G, T
  <2> QED BY <1>1, <1>6, <1>7, Recursion
<1>9. F[0] = start /\ \A k \in 0..(N + 1) : F[k] \in T
  <2> HIDE DEF T, start
  <2> QED BY <1>8 DEF Follows
<1>10. \A k \in 0..N : F[k + 1] = SumStep(f, S, F[k])
  <2> SUFFICES ASSUME NEW k \in 0..N PROVE F[k + 1] = SumStep(f, S, F[k]) OBVIOUS
  <2>1. k + 1 \in 1..(N + 1) /\ k \in 0..(N + 1) /\ (k + 1) - 1 = k BY <1>1
  <2>2. F[k] \in T BY <1>9, <2>1
  <2>3. F[k + 1] = G[<<k + 1, F[k]>>] BY <1>8, <2>1 DEF Follows
  <2> HIDE DEF T
  <2>4. <<k + 1, F[k]>> \in (1..(N + 1)) \X T BY <2>1, <2>2
  <2> QED BY <2>3, <2>4
<1> DEFINE Settled == {k \in 0..N : \A s \in Small(k) : F[k + 1][s] = F[k][s]}
<1> HIDE DEF start, G, T
<1>11. 0 \in Settled
  <2> SUFFICES ASSUME NEW s \in Small(0) PROVE F[1][s] = F[0][s]
    BY <1>1
  <2>1. s = {}
    <3> SUFFICES ASSUME s # {} PROVE FALSE OBVIOUS
    <3>1. s \in SUBSET S /\ Cardinality(s) <= 0 OBVIOUS
    <3>2. Cardinality(s) \in Nat /\ Cardinality(s \ {Pick(s)}) \in Nat BY <1>1, <1>2, <3>1
    <3>3. Cardinality(s \ {Pick(s)}) = Cardinality(s) - 1 BY <1>2, <3>1
    <3> HIDE DEF Small
    <3> QED BY <3>1, <3>2, <3>3
  <2>2. F[1] = SumStep(f, S, F[0]) BY <1>1, <1>10
  <2> QED BY <1>4, <1>9, <2>1, <2>2 DEF start
<1>12. \A k \in 0..(N - 1) : k \in Settled => k + 1 \in Settled
  <2> SUFFICES ASSUME NEW k \in 0..(N - 1), k \in Settled, NEW s \in Small(k + 1)
               PROVE  F[(k + 1) + 1][s] = F[k + 1][s]
    BY <1>1
  <2>1. F[(k + 1) + 1] = SumStep(f, S, F[k + 1]) /\ F[k + 1] = SumStep(f, S, F[k]) BY <1>1, <1>10
  <2>2. CASE s = {} BY <1>4, <2>1, <2>2
  <2>3. CASE s # {}
    <3>1. s \ {Pick(s)} \in Small(k) BY <1>1, <1>2, <2>3
    <3>2. F[k + 1][s \ {Pick(s)}] = F[k][s \ {Pick(s)}] BY <3>1
    <3>3. F[(k + 1) + 1][s] = f[Pick(s)] + F[k + 1][s \ {Pick(s)}] BY <1>4, <2>1, <2>3
    <3>4. F[k + 1][s] = f[Pick(s)] + F[k][s \ {Pick(s)}] BY <1>4, <2>1, <2>3
    <3> QED BY <3>2, <3>3, <3>4
  <2> QED BY <2>2, <2>3
<1>13. N \in Settled
  <2> HIDE DEF Settled
  <2> QED BY <1>1, <1>11, <1>12, UpTo
<1>14. \A s \in SUBSET S : F[N + 1][s] = F[N][s] BY <1>1, <1>13
<1>15. F[N + 1] = F[N] BY <1>1, <1>9, <1>14 DEF T
<1>16. F[N] \in T /\ F[N] = SumStep(f, S, F[N])
  <2>1. N \in 0..(N + 1) /\ N \in 0..N BY <1>1
  <2> HIDE DEF N, T
  <2> QED BY <1>9, <1>10, <1>15, <2>1
<1> QED BY <1>16 DEF T

\* and no other.
LEMMA SumUnique ==
  ASSUME NEW S, IsFiniteSet(S), NEW f, NEW g, NEW h, g = SumStep(f, S, g), h = SumStep(f, S, h)
  PROVE  \A s \in SUBSET S : g[s] = h[s]
<1> DEFINE F == {s \in SUBSET S : g[s] # h[s]}
<1> SUFFICES ASSUME F # {} PROVE FALSE OBVIOUS
<1>1. PICK A \in F : \A B \in F : ~(B \subseteq A /\ B # A)
  <2>1. F \in SUBSET (SUBSET S) OBVIOUS
  <2> HIDE DEF F
  <2> QED BY <2>1, LeastMember
<1>2. \A s \in SUBSET S : /\ g[s] = IF s = {} THEN 0 ELSE f[Pick(s)] + g[s \ {Pick(s)}]
                         /\ h[s] = IF s = {} THEN 0 ELSE f[Pick(s)] + h[s \ {Pick(s)}]
  BY DEF SumStep
<1>3. A # {} BY <1>1, <1>2
<1>4. Pick(A) \in A BY <1>3 DEF Pick
<1>5. A \ {Pick(A)} \notin F BY <1>1, <1>4
<1>6. g[A \ {Pick(A)}] = h[A \ {Pick(A)}] BY <1>5
<1> QED BY <1>1, <1>2, <1>3, <1>6

\* So a solution gives the sum, of the set it is of and of each that is in it.
LEMMA SumIs ==
  ASSUME NEW S, IsFiniteSet(S), NEW f, IntOn(f, S), NEW g, g = SumStep(f, S, g)
  PROVE  \A s \in SUBSET S : g[s] = SumOver(f, s)
<1> SUFFICES ASSUME NEW s \in SUBSET S PROVE g[s] = SumOver(f, s) OBVIOUS
<1>1. IsFiniteSet(s) /\ IntOn(f, s) BY FS_Subset DEF IntOn
<1>2. PICK h : h = (CHOOSE i : i = SumStep(f, s, i)) OBVIOUS
<1>3. h = SumStep(f, s, h)
  <2>1. \E i : i = SumStep(f, s, i) BY <1>1, SumThere
  <2> QED BY <1>2, <2>1
<1> DEFINE own == [t \in SUBSET s |-> g[t]]
<1>4. own = SumStep(f, s, own)
  <2>1. \A t \in SUBSET s : t \in SUBSET S /\ g[t] = IF t = {} THEN 0 ELSE f[Pick(t)] + g[t \ {Pick(t)}]
    BY DEF SumStep
  <2>2. \A t \in SUBSET s : own[t \ {Pick(t)}] = g[t \ {Pick(t)}]
    OBVIOUS
  <2>3. \A t \in SUBSET s : own[t] = IF t = {} THEN 0 ELSE f[Pick(t)] + own[t \ {Pick(t)}]
    BY <2>1, <2>2
  <2> HIDE DEF own
  <2>4. \A t \in SUBSET s : own[t] = SumStep(f, s, own)[t]
    BY <2>3 DEF SumStep
  <2>5. DOMAIN own = SUBSET s /\ own = [t \in DOMAIN own |-> own[t]]
    BY DEF own
  <2>6. SumStep(f, s, own) = [t \in SUBSET s |-> SumStep(f, s, own)[t]]
    BY DEF SumStep
  <2> QED BY <2>4, <2>5, <2>6
<1>5. h[s] = own[s]
  <2> HIDE DEF own
  <2> QED BY <1>1, <1>3, <1>4, SumUnique
<1> QED BY <1>2, <1>5 DEF SumOver

LEMMA SumRules ==
  ASSUME NEW S, IsFiniteSet(S), NEW f, IntOn(f, S)
  PROVE  /\ SumOver(f, {}) = 0
         /\ \A s \in SUBSET S :
              /\ SumOver(f, s) \in Int
              /\ s # {} => SumOver(f, s) = f[Pick(s)] + SumOver(f, s \ {Pick(s)})
<1>1. PICK g \in [SUBSET S -> Int] : g = SumStep(f, S, g) BY SumThere
<1>2. \A s \in SUBSET S : g[s] = SumOver(f, s) BY <1>1, SumIs
<1>3. \A s \in SUBSET S : g[s] = IF s = {} THEN 0 ELSE f[Pick(s)] + g[s \ {Pick(s)}]
  BY <1>1 DEF SumStep
<1>4. {} \in SUBSET S /\ \A s \in SUBSET S : s \ {Pick(s)} \in SUBSET S OBVIOUS
<1>5. SumOver(f, {}) = 0 BY <1>2, <1>3, <1>4
<1>6. ASSUME NEW s \in SUBSET S PROVE SumOver(f, s) \in Int BY <1>1, <1>2
<1>7. ASSUME NEW s \in SUBSET S, s # {} PROVE SumOver(f, s) = f[Pick(s)] + SumOver(f, s \ {Pick(s)})
  <2>1. SumOver(f, s) = g[s] /\ SumOver(f, s \ {Pick(s)}) = g[s \ {Pick(s)}] BY <1>2, <1>4
  <2> QED BY <1>3, <1>7, <2>1
<1> QED BY <1>5, <1>6, <1>7

\* Whichever member is taken first.
LEMMA SumAdd ==
  ASSUME NEW S, IsFiniteSet(S), NEW f, IntOn(f, S)
  PROVE  \A s \in SUBSET S : \A x \in s : SumOver(f, s) = f[x] + SumOver(f, s \ {x})
<1> DEFINE F == {s \in SUBSET S : \E x \in s : SumOver(f, s) # f[x] + SumOver(f, s \ {x})}
<1> SUFFICES ASSUME F # {} PROVE FALSE OBVIOUS
<1>1. PICK A \in F : \A B \in F : ~(B \subseteq A /\ B # A)
  <2>1. F \in SUBSET (SUBSET S) OBVIOUS
  <2> HIDE DEF F
  <2> QED BY <2>1, LeastMember
<1>2. PICK x \in A : SumOver(f, A) # f[x] + SumOver(f, A \ {x}) BY <1>1
<1>3. \A s \in SUBSET S : SumOver(f, s) \in Int /\ (s # {} => SumOver(f, s) = f[Pick(s)] + SumOver(f, s \ {Pick(s)})) BY SumRules
<1>4. \A s \in SUBSET S : s # A /\ s \subseteq A => \A y \in s : SumOver(f, s) = f[y] + SumOver(f, s \ {y})
  BY <1>1
<1> DEFINE c == Pick(A)
           rest == (A \ {c}) \ {x}
<1>5. A \in SUBSET S /\ c \in A BY <1>1, <1>2 DEF Pick
<1> HIDE DEF F
<1>6. SumOver(f, A) = f[c] + SumOver(f, A \ {c}) BY <1>2, <1>3, <1>5
<1>7. c # x BY <1>2, <1>6
<1> HIDE DEF c
<1>8. A \ {c} \in SUBSET S /\ A \ {x} \in SUBSET S /\ A \ {c} # A /\ A \ {x} # A /\ x \in A \ {c} /\ c \in A \ {x}
  BY <1>2, <1>5, <1>7
<1>9. SumOver(f, A \ {c}) = f[x] + SumOver(f, rest) BY <1>4, <1>8
<1>10. SumOver(f, A \ {x}) = f[c] + SumOver(f, rest)
  <2>1. (A \ {x}) \ {c} = rest OBVIOUS
  <2> QED BY <1>4, <1>8, <2>1
<1>11. f[c] \in Int /\ f[x] \in Int /\ SumOver(f, rest) \in Int
  <2>1. rest \in SUBSET S BY <1>8
  <2> HIDE DEF rest
  <2> QED BY <1>2, <1>3, <1>5, <2>1 DEF IntOn
<1> HIDE DEF rest
<1> QED BY <1>2, <1>6, <1>9, <1>10, <1>11

\* A sum over two parts is the sum of theirs.
LEMMA SumUnion ==
  ASSUME NEW S, IsFiniteSet(S), NEW f, IntOn(f, S), NEW P \in SUBSET S, NEW Q \in SUBSET S, P \cap Q = {}
  PROVE  SumOver(f, P \cup Q) = SumOver(f, P) + SumOver(f, Q)
<1> DEFINE F == {s \in SUBSET P : SumOver(f, s \cup Q) # SumOver(f, s) + SumOver(f, Q)}
<1> SUFFICES ASSUME F # {} PROVE FALSE
  <2>1. P \in SUBSET P OBVIOUS
  <2> QED BY <2>1
<1>1. IsFiniteSet(P) BY FS_Subset
<1>2. PICK A \in F : \A B \in F : ~(B \subseteq A /\ B # A)
  <2>1. F \in SUBSET (SUBSET P) OBVIOUS
  <2> HIDE DEF F
  <2> QED BY <1>1, <2>1, LeastMember
<1>3. A \in SUBSET P /\ SumOver(f, A \cup Q) # SumOver(f, A) + SumOver(f, Q) OBVIOUS
<1>4. \A s \in SUBSET P : s \subseteq A /\ s # A => SumOver(f, s \cup Q) = SumOver(f, s) + SumOver(f, Q) BY <1>2
<1> HIDE DEF F
<1>5. SumOver(f, {}) = 0 /\ \A s \in SUBSET S : SumOver(f, s) \in Int BY SumRules
<1>6. A # {}
  <2>1. {} \cup Q = Q OBVIOUS
  <2>2. SumOver(f, Q) \in Int BY <1>5
  <2> QED BY <1>3, <1>5, <2>1, <2>2
<1>7. PICK x \in A : TRUE BY <1>6
<1>8. /\ A \cup Q \in SUBSET S /\ A \in SUBSET S /\ A \ {x} \in SUBSET S /\ x \in S /\ x \in A \cup Q
      /\ (A \cup Q) \ {x} = (A \ {x}) \cup Q
      /\ A \ {x} \in SUBSET P /\ A \ {x} \subseteq A /\ A \ {x} # A
  BY <1>3, <1>7
<1>9. /\ SumOver(f, A \cup Q) = f[x] + SumOver(f, (A \cup Q) \ {x})
      /\ SumOver(f, A) = f[x] + SumOver(f, A \ {x})
  BY <1>7, <1>8, SumAdd
<1>10. SumOver(f, (A \ {x}) \cup Q) = SumOver(f, A \ {x}) + SumOver(f, Q) BY <1>4, <1>8
<1>11. f[x] \in Int /\ SumOver(f, A \ {x}) \in Int /\ SumOver(f, Q) \in Int BY <1>5, <1>8 DEF IntOn
<1>12. SumOver(f, (A \cup Q) \ {x}) = SumOver(f, (A \ {x}) \cup Q) BY <1>8
<1> QED BY <1>3, <1>9, <1>10, <1>11, <1>12

\* The same numbers have the same sum.
LEMMA SumSame ==
  ASSUME NEW S, IsFiniteSet(S), NEW f, IntOn(f, S), NEW h, \A x \in S : h[x] = f[x]
  PROVE  SumOver(h, S) = SumOver(f, S)
<1> DEFINE F == {s \in SUBSET S : SumOver(h, s) # SumOver(f, s)}
<1> SUFFICES ASSUME F # {} PROVE FALSE OBVIOUS
<1>1. PICK A \in F : \A B \in F : ~(B \subseteq A /\ B # A)
  <2>1. F \in SUBSET (SUBSET S) OBVIOUS
  <2> HIDE DEF F
  <2> QED BY <2>1, LeastMember
<1>2. IntOn(h, S) BY DEF IntOn
<1>3. A # {}
  <2>1. SumOver(h, {}) = 0 /\ SumOver(f, {}) = 0
    <3> HIDE DEF F
    <3> QED BY <1>2, SumRules
  <2> QED BY <2>1
<1>4. PICK x : x \in A BY <1>3
<1>5. A \in SUBSET S /\ SumOver(h, A) # SumOver(f, A) OBVIOUS
<1>6. SumOver(h, A \ {x}) = SumOver(f, A \ {x}) BY <1>1, <1>4
<1> HIDE DEF F
<1>7. SumOver(h, A) = h[x] + SumOver(h, A \ {x}) /\ SumOver(f, A) = f[x] + SumOver(f, A \ {x})
  BY <1>2, <1>4, <1>5, SumAdd
<1> QED BY <1>4, <1>5, <1>6, <1>7

\* The opposite numbers have the opposite sum.
LEMMA SumOpposite ==
  ASSUME NEW S, IsFiniteSet(S), NEW f, IntOn(f, S), NEW h, \A x \in S : h[x] = -f[x]
  PROVE  SumOver(h, S) = -SumOver(f, S)
<1> DEFINE F == {s \in SUBSET S : SumOver(h, s) # -SumOver(f, s)}
<1> SUFFICES ASSUME F # {} PROVE FALSE OBVIOUS
<1>1. PICK A \in F : \A B \in F : ~(B \subseteq A /\ B # A)
  <2>1. F \in SUBSET (SUBSET S) OBVIOUS
  <2> HIDE DEF F
  <2> QED BY <2>1, LeastMember
<1>2. IntOn(h, S) BY DEF IntOn
<1>3. A # {}
  <2>1. SumOver(h, {}) = 0 /\ SumOver(f, {}) = 0
    <3> HIDE DEF F
    <3> QED BY <1>2, SumRules
  <2> QED BY <2>1
<1>4. PICK x : x \in A BY <1>3
<1>5. A \in SUBSET S /\ SumOver(h, A) # -SumOver(f, A) OBVIOUS
<1>6. SumOver(h, A \ {x}) = -SumOver(f, A \ {x}) BY <1>1, <1>4
<1> HIDE DEF F
<1>7. SumOver(h, A) = h[x] + SumOver(h, A \ {x}) /\ SumOver(f, A) = f[x] + SumOver(f, A \ {x})
  BY <1>2, <1>4, <1>5, SumAdd
<1>8. h[x] = -f[x] /\ f[x] \in Int /\ SumOver(f, A \ {x}) \in Int
  <2>1. A \ {x} \in SUBSET S /\ x \in S BY <1>4, <1>5
  <2> QED BY <2>1, SumRules DEF IntOn
<1> QED BY <1>5, <1>6, <1>7, <1>8

\* A part of what is nowhere negative is at most the whole.
LEMMA SumPart ==
  ASSUME NEW S, IsFiniteSet(S), NEW f, IntOn(f, S), \A x \in S : f[x] >= 0
  PROVE  \A s \in SUBSET S : SumOver(f, s) \in Nat /\ SumOver(f, s) <= SumOver(f, S)
<1>1. ASSUME NEW t \in SUBSET S PROVE \A s \in SUBSET t : SumOver(f, s) <= SumOver(f, t)
  <2> DEFINE F == {u \in SUBSET t : \E s \in SUBSET u : ~(SumOver(f, s) <= SumOver(f, u))}
  <2> SUFFICES ASSUME F # {} PROVE FALSE OBVIOUS
  <2>0. IsFiniteSet(t) BY FS_Subset
  <2>1. PICK A \in F : \A B \in F : ~(B \subseteq A /\ B # A)
    <3>1. F \in SUBSET (SUBSET t) OBVIOUS
    <3> HIDE DEF F
    <3> QED BY <2>0, <3>1, LeastMember
  <2>2. PICK s \in SUBSET A : ~(SumOver(f, s) <= SumOver(f, A)) OBVIOUS
  <2>3. A \in SUBSET S /\ s \in SUBSET S OBVIOUS
  <2>4. \A u \in SUBSET A : u # A => \A r \in SUBSET u : SumOver(f, r) <= SumOver(f, u) BY <2>1
  <2> HIDE DEF F
  <2>5. \A u \in SUBSET S : SumOver(f, u) \in Int BY SumRules
  <2>6. s # A BY <2>2, <2>3, <2>5
  <2>7. PICK x \in A : x \notin s BY <2>2, <2>6
  <2>8. SumOver(f, A) = f[x] + SumOver(f, A \ {x}) BY <2>3, <2>7, SumAdd
  <2>9. SumOver(f, s) <= SumOver(f, A \ {x}) BY <2>4, <2>7
  <2>10. f[x] >= 0 /\ f[x] \in Int /\ A \ {x} \in SUBSET S BY <2>3, <2>7 DEF IntOn
  <2>11. SumOver(f, A) \in Int /\ SumOver(f, s) \in Int /\ SumOver(f, A \ {x}) \in Int BY <2>3, <2>5, <2>10
  <2> QED BY <2>2, <2>8, <2>9, <2>10, <2>11
<1>2. SumOver(f, {}) = 0 /\ \A s \in SUBSET S : SumOver(f, s) \in Int BY SumRules
<1> SUFFICES ASSUME NEW s \in SUBSET S PROVE SumOver(f, s) \in Nat /\ SumOver(f, s) <= SumOver(f, S) OBVIOUS
<1>3. SumOver(f, {}) <= SumOver(f, s) /\ SumOver(f, s) <= SumOver(f, S)
  <2>1. {} \in SUBSET s /\ S \in SUBSET S OBVIOUS
  <2> QED BY <1>1, <2>1
<1> QED BY <1>2, <1>3

Keyed(S, k, n) == {x \in S : k[x] = n}

\* What is added up by keys comes to the same.
LEMMA SumParts ==
  ASSUME NEW S, IsFiniteSet(S), NEW f, IntOn(f, S), NEW K, IsFiniteSet(K), NEW k, \A x \in S : k[x] \in K,
         NEW h, \A n \in K : h[n] = SumOver(f, Keyed(S, k, n))
  PROVE  IntOn(h, K) /\ SumOver(h, K) = SumOver(f, S)
<1> DEFINE Of(L) == {x \in S : k[x] \in L}
           F == {L \in SUBSET K : SumOver(h, L) # SumOver(f, Of(L))}
<1>1. IntOn(h, K)
  <2>1. \A n \in K : Keyed(S, k, n) \in SUBSET S BY DEF Keyed
  <2>2. \A s \in SUBSET S : SumOver(f, s) \in Int BY SumRules
  <2> QED BY <2>1, <2>2 DEF IntOn
<1>2. Of(K) = S OBVIOUS
<1> SUFFICES ASSUME F # {} PROVE FALSE
  <2>1. K \in SUBSET K OBVIOUS
  <2> HIDE DEF Of
  <2> QED BY <1>1, <1>2, <2>1
<1>3. PICK L \in F : \A M \in F : ~(M \subseteq L /\ M # L)
  <2>1. F \in SUBSET (SUBSET K) OBVIOUS
  <2> HIDE DEF F
  <2> QED BY <2>1, LeastMember
<1>4. L \in SUBSET K /\ SumOver(h, L) # SumOver(f, Of(L)) OBVIOUS
<1>5. \A M \in SUBSET K : M \subseteq L /\ M # L => SumOver(h, M) = SumOver(f, Of(M)) BY <1>3
<1> HIDE DEF F
<1>6. L # {}
  <2>1. Of({}) = {} OBVIOUS
  <2>2. SumOver(h, {}) = 0 /\ SumOver(f, {}) = 0 BY <1>1, SumRules
  <2> QED BY <1>4, <2>1, <2>2
<1>7. PICK n \in L : TRUE BY <1>6
<1> DEFINE own == Keyed(S, k, n)
<1>8. SumOver(h, L) = SumOver(f, own) + SumOver(f, Of(L \ {n}))
  <2>1. SumOver(h, L) = h[n] + SumOver(h, L \ {n}) BY <1>1, <1>4, <1>7, SumAdd
  <2>2. SumOver(h, L \ {n}) = SumOver(f, Of(L \ {n}))
    <3>1. L \ {n} \in SUBSET K /\ L \ {n} \subseteq L /\ L \ {n} # L BY <1>4, <1>7
    <3> HIDE DEF Of
    <3> QED BY <1>5, <3>1
  <2>3. h[n] = SumOver(f, own) BY <1>4, <1>7
  <2> QED BY <2>1, <2>2, <2>3
<1>9. Of(L) = own \cup Of(L \ {n}) /\ own \cap Of(L \ {n}) = {} /\ own \in SUBSET S /\ Of(L \ {n}) \in SUBSET S
  BY <1>7 DEF Keyed
<1> HIDE DEF own, Of
<1> DEFINE others == Of(L \ {n})
<1>10. SumOver(f, Of(L)) = SumOver(f, own) + SumOver(f, Of(L \ {n}))
  <2>1. own \in SUBSET S /\ others \in SUBSET S /\ own \cap others = {} BY <1>9
  <2> HIDE DEF others
  <2>2. SumOver(f, own \cup others) = SumOver(f, own) + SumOver(f, others) BY <2>1, SumUnion
  <2> QED BY <1>9, <2>2 DEF others
<1> QED BY <1>4, <1>8, <1>10
\* Sums add up member by member.
LEMMA SumPlus ==
  ASSUME NEW S, IsFiniteSet(S), NEW f, IntOn(f, S), NEW e, IntOn(e, S), NEW h, \A x \in S : h[x] = f[x] + e[x]
  PROVE  IntOn(h, S) /\ SumOver(h, S) = SumOver(f, S) + SumOver(e, S)
<1> DEFINE F == {s \in SUBSET S : SumOver(h, s) # SumOver(f, s) + SumOver(e, s)}
<1>2. IntOn(h, S) BY DEF IntOn
<1> SUFFICES ASSUME F # {} PROVE FALSE BY <1>2
<1>1. PICK A \in F : \A B \in F : ~(B \subseteq A /\ B # A)
  <2>1. F \in SUBSET (SUBSET S) OBVIOUS
  <2> HIDE DEF F
  <2> QED BY <2>1, LeastMember
<1>3. A # {}
  <2>1. SumOver(h, {}) = 0 /\ SumOver(f, {}) = 0 /\ SumOver(e, {}) = 0
    <3> HIDE DEF F
    <3> QED BY <1>2, SumRules
  <2> QED BY <2>1
<1>4. PICK x : x \in A BY <1>3
<1>5. A \in SUBSET S /\ SumOver(h, A) # SumOver(f, A) + SumOver(e, A) OBVIOUS
<1>6. SumOver(h, A \ {x}) = SumOver(f, A \ {x}) + SumOver(e, A \ {x}) BY <1>1, <1>4
<1> HIDE DEF F
<1>7. /\ SumOver(h, A) = h[x] + SumOver(h, A \ {x}) /\ SumOver(f, A) = f[x] + SumOver(f, A \ {x})
      /\ SumOver(e, A) = e[x] + SumOver(e, A \ {x})
  BY <1>2, <1>4, <1>5, SumAdd
<1>8. /\ h[x] = f[x] + e[x] /\ f[x] \in Int /\ e[x] \in Int
      /\ SumOver(f, A \ {x}) \in Int /\ SumOver(e, A \ {x}) \in Int
  <2>1. A \ {x} \in SUBSET S /\ x \in S BY <1>4, <1>5
  <2> QED BY <2>1, SumRules DEF IntOn
<1> QED BY <1>5, <1>6, <1>7, <1>8

\* A sum of multiples is the multiple of the sum.
LEMMA SumScaled ==
  ASSUME NEW S, IsFiniteSet(S), NEW f, IntOn(f, S), NEW c \in Int, NEW h, \A x \in S : h[x] = c * f[x]
  PROVE  IntOn(h, S) /\ SumOver(h, S) = c * SumOver(f, S)
<1> DEFINE F == {s \in SUBSET S : SumOver(h, s) # c * SumOver(f, s)}
<1>2. IntOn(h, S) BY DEF IntOn
<1> SUFFICES ASSUME F # {} PROVE FALSE BY <1>2
<1>1. PICK A \in F : \A B \in F : ~(B \subseteq A /\ B # A)
  <2>1. F \in SUBSET (SUBSET S) OBVIOUS
  <2> HIDE DEF F
  <2> QED BY <2>1, LeastMember
<1>3. A # {}
  <2>1. SumOver(h, {}) = 0 /\ SumOver(f, {}) = 0
    <3> HIDE DEF F
    <3> QED BY <1>2, SumRules
  <2> QED BY <2>1
<1>4. PICK x : x \in A BY <1>3
<1>5. A \in SUBSET S /\ SumOver(h, A) # c * SumOver(f, A) OBVIOUS
<1>6. SumOver(h, A \ {x}) = c * SumOver(f, A \ {x}) BY <1>1, <1>4
<1> HIDE DEF F
<1>7. SumOver(h, A) = h[x] + SumOver(h, A \ {x}) /\ SumOver(f, A) = f[x] + SumOver(f, A \ {x})
  BY <1>2, <1>4, <1>5, SumAdd
<1>8. h[x] = c * f[x] /\ f[x] \in Int /\ SumOver(f, A \ {x}) \in Int
  <2>1. A \ {x} \in SUBSET S /\ x \in S BY <1>4, <1>5
  <2> QED BY <2>1, SumRules DEF IntOn
<1>9. ASSUME NEW p \in Int, NEW q \in Int PROVE c * (p + q) = c * p + c * q OBVIOUS
<1> QED BY <1>5, <1>6, <1>7, <1>8, <1>9

\* What is nowhere anything but zero comes to zero.
LEMMA SumNothing ==
  ASSUME NEW S, IsFiniteSet(S), NEW f, \A x \in S : f[x] = 0
  PROVE  SumOver(f, S) = 0
<1>1. IntOn(f, S) /\ \A x \in S : f[x] = 0 * f[x] BY DEF IntOn
<1>2. SumOver(f, S) = 0 * SumOver(f, S) BY <1>1, 0 \in Int, SumScaled
<1>3. SumOver(f, S) \in Int BY <1>1, SumRules
<1> QED BY <1>2, <1>3

\* ... and may be left out of a sum.
LEMMA SumWithin ==
  ASSUME NEW S, IsFiniteSet(S), NEW f, IntOn(f, S), NEW T \in SUBSET S, \A x \in S \ T : f[x] = 0
  PROVE  SumOver(f, S) = SumOver(f, T)
<1> DEFINE R == S \ T
<1>1. R \in SUBSET S /\ T \cap R = {} /\ T \cup R = S /\ IsFiniteSet(R) BY FS_Subset
<1>2. \A x \in R : f[x] = 0 OBVIOUS
<1> HIDE DEF R
<1>3. SumOver(f, R) = 0 BY <1>1, <1>2, SumNothing
<1>4. SumOver(f, T) \in Int BY SumRules
<1>5. SumOver(f, S) = SumOver(f, T) + SumOver(f, R) BY <1>1, SumUnion
<1> QED BY <1>3, <1>4, <1>5

\* Numbers that change places keep their sum.
LEMMA SumAlong ==
  ASSUME NEW S, IsFiniteSet(S), NEW f, IntOn(f, S), NEW K, NEW k, k \in Bijection(S, K),
         NEW h, \A x \in S : h[k[x]] = f[x]
  PROVE  IntOn(h, K) /\ SumOver(h, K) = SumOver(f, S)
<1>1. IsFiniteSet(K) /\ \A x \in S : k[x] \in K
  BY FS_Surjection DEF Bijection, Surjection, Injection
<1>2. ASSUME NEW n \in K PROVE h[n] = SumOver(f, Keyed(S, k, n))
  <2>1. PICK x \in S : k[x] = n BY DEF Bijection, Surjection
  <2>2. Keyed(S, k, n) = {x} BY <2>1 DEF Keyed, Bijection, Injection, IsInjective
  <2> DEFINE one == {x}
             none == one \ {x}
  <2>3. SumOver(f, one) = f[x] + SumOver(f, none)
    <3>1. one \in SUBSET S /\ x \in one OBVIOUS
    <3> HIDE DEF one
    <3> QED BY <3>1, SumAdd DEF none
  <2>4. none = {} /\ SumOver(f, {}) = 0 /\ f[x] \in Int BY SumRules DEF IntOn
  <2>5. SumOver(f, one) = f[x] BY <2>3, <2>4
  <2>6. h[n] = f[x] BY <2>1
  <2> QED BY <2>2, <2>5, <2>6
<1> QED BY <1>1, <1>2, SumParts
=============================================================================
