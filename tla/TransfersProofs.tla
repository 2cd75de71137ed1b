--------------------------- MODULE TransfersProofs ---------------------------
(***************************************************************************)
(* What holds of transfers for any ledger, any requests and any limits:    *)
(* the chunked pass links what the picker would, row by row; a group is a  *)
(* pair of legs on two accounts; and only a request that had not seen a    *)
(* group can part its legs.                                                *)
(***************************************************************************)
EXTENDS Transfers, Recursion

-----------------------------------------------------------------------------
(* The inductive invariant                                                 *)

Used == {g \in Groups : groups[g].state # "unused"}

\* Groups are numbered in the order they are made.
InOrder == \E k \in 0..MaxGroups : Used = 1..k

\* What a request has read of a pair still holds of it, unless a leg is gone or repriced.
Holds(pair, moved) ==
  /\ AccountOf[pair.from] # AccountOf[pair.to]
  /\ /\ txns[pair.from].state # "deleted"
     /\ txns[pair.to].state # "deleted"
     /\ {pair.from, pair.to} \cap moved = {}
     => /\ OppositeSigns(pair.from, pair.to)
        /\ pair.cost = ResidualBase(pair.from, pair.to)

\* What the rows of a link, and of an unlink, are in now is not what the request saw,
\* but for the group it takes apart.
Unseen(client) ==
  /\ client.saw \subseteq Used
  /\ \A t \in PlanLegs(client.plan) : txns[t].group \notin client.saw
  /\ \A t \in client.legs : txns[t].group = client.group \/ txns[t].group \notin client.saw

Remembers(client) ==
  /\ client.op = "unlink" => client.group \in Used
  /\ Unseen(client)
  /\ \A i \in DOMAIN client.plan : Holds(client.plan[i], client.moved)

RequestsRemember == \A c \in Clients : Remembers(clients[c])

IInv == TypeOK /\ InOrder /\ RequestsRemember /\ GroupsAreTransfers

-----------------------------------------------------------------------------
(* Plans                                                                   *)

LEMMA NoneIsNoRow == None \notin Txns /\ None \notin Groups
<1>1. \A x \in Int : x # None BY NullAssumption
<1>2. Txns \subseteq Int BY TxnsAssumption
<1>3. Groups \subseteq Int BY DEF Groups
<1> QED BY <1>1, <1>2, <1>3

LEMMA LegsOfNothing == PlanLegs(<<>>) = {}
BY DEF PlanLegs

\* A link more is two legs more.
LEMMA LegsOfOneMore ==
  ASSUME NEW plan \in Seq(Pairs), NEW pair \in Pairs
  PROVE  /\ Append(plan, pair) \in Seq(Pairs)
         /\ PlanLegs(Append(plan, pair)) = PlanLegs(plan) \cup {pair.from, pair.to}
<1> DEFINE more == Append(plan, pair)
<1>1. more \in Seq(Pairs) /\ Len(more) = Len(plan) + 1 OBVIOUS
<1>2. DOMAIN more = 1..(Len(plan) + 1) /\ DOMAIN plan = 1..Len(plan) OBVIOUS
<1>3. more[Len(plan) + 1] = pair /\ \A i \in DOMAIN plan : more[i] = plan[i] OBVIOUS
<1> HIDE DEF more
<1>4. PlanLegs(more) \subseteq PlanLegs(plan) \cup {pair.from, pair.to}
  <2> SUFFICES ASSUME NEW i \in DOMAIN more, NEW t \in {more[i].from, more[i].to}
               PROVE  t \in PlanLegs(plan) \cup {pair.from, pair.to}
    BY DEF PlanLegs
  <2>1. CASE i = Len(plan) + 1 BY <2>1, <1>3
  <2>2. CASE i \in DOMAIN plan BY <2>2, <1>3 DEF PlanLegs
  <2> QED BY <2>1, <2>2, <1>2
<1>5. PlanLegs(plan) \cup {pair.from, pair.to} \subseteq PlanLegs(more)
  <2>1. {pair.from, pair.to} \subseteq PlanLegs(more) BY <1>2, <1>3 DEF PlanLegs
  <2>2. ASSUME NEW i \in DOMAIN plan, NEW t \in {plan[i].from, plan[i].to}
        PROVE  t \in PlanLegs(more)
    <3>1. i \in DOMAIN more /\ t \in {more[i].from, more[i].to} BY <1>2, <1>3
    <3> QED BY <3>1 DEF PlanLegs
  <2> QED BY <2>1, <2>2 DEF PlanLegs
<1> QED BY <1>1, <1>4, <1>5 DEF more

LEMMA LegsAreRows ==
  ASSUME NEW plan \in Seq(Pairs)
  PROVE  /\ PlanLegs(plan) \subseteq Txns
         /\ \A i \in DOMAIN plan : /\ plan[i] \in Pairs
                                   /\ plan[i].from \in PlanLegs(plan)
                                   /\ plan[i].to \in PlanLegs(plan)
<1>1. \A i \in DOMAIN plan : plan[i] \in Pairs OBVIOUS
<1> QED BY <1>1 DEF PlanLegs, Pairs

\* The matcher links a row that it was offered, or none.
LEMMA ChosenIsOffered ==
  ASSUME NEW s, NEW S
  PROVE  ClosestUnambiguous(s, S) = None \/ ClosestUnambiguous(s, S) \in S
BY DEF ClosestUnambiguous

LEMMA FirstAreSome == \A s, S : First(s, S) \subseteq S
BY DEF First

-----------------------------------------------------------------------------
(* A pass, turn by turn                                                    *)

Acc == [asked : SUBSET Txns, taken : SUBSET Txns, plan : Seq(Pairs)]
NoTurn == [asked |-> {}, taken |-> {}, plan |-> <<>>]

\* Two rows that can be each other's leg, as link_transfer asks of them.
Fits(s, o) == s \in Live /\ CanLink(s, o)

LEMMA ResidualType ==
  ASSUME TypeOK, NEW s \in Txns, NEW o \in Txns
  PROVE  ResidualBase(s, o) \in Int \cup {None}
BY DEF TypeOK, Txn, ResidualBase

\* Whatever an ungrouped row may be offered fits it.
LEMMA CandidatesFit ==
  ASSUME TypeOK, NEW s \in Live, txns[s].group = None, NEW taken,
         NEW o \in Candidates(s, taken)
  PROVE  o \in Txns /\ o \notin taken /\ CanLink(s, o)
BY DEF Candidates, CanLink, Free, Live

LEMMA ResolveType ==
  ASSUME TypeOK, NEW acc \in Acc, NEW n, NEW s \in Live
  PROVE  Resolve(acc, n, s) \in Acc
<1> DEFINE asked == IF (n - 1) % Chunk = 0 THEN acc.taken ELSE acc.asked
           rows == ChunkRows(s, asked)
           chosen == IF s \in acc.taken THEN None
                     ELSE ClosestUnambiguous(s, StillOffered(s, rows, acc.taken))
<1>1. acc.taken \subseteq Txns /\ acc.asked \subseteq Txns /\ acc.plan \in Seq(Pairs)
  BY DEF Acc
<1>2. s \in Txns BY DEF Live
<1>3. rows \subseteq Txns BY DEF ChunkRows, Candidates, Live
<1>4. chosen = None \/ chosen \in Txns
  <2> HIDE DEF rows
  <2> QED BY <1>3, ChosenIsOffered, FirstAreSome DEF StillOffered
<1>5. asked \subseteq Txns BY <1>1
<1> HIDE DEF asked, rows, chosen
<1>6. CASE chosen = None
  <2>1. Resolve(acc, n, s) = [asked |-> asked, taken |-> acc.taken, plan |-> acc.plan]
    BY <1>6 DEF Resolve, asked, rows, chosen
  <2> QED BY <2>1, <1>1, <1>5 DEF Acc
<1>7. CASE chosen # None
  <2>1. Resolve(acc, n, s) = [asked |-> asked, taken |-> acc.taken \cup {s, chosen},
                              plan |-> Append(acc.plan, Pair(s, chosen))]
    BY <1>7 DEF Resolve, asked, rows, chosen
  <2>2. Pair(s, chosen) \in Pairs
    BY <1>2, <1>4, <1>7, ResidualType DEF Pair, Pairs
  <2>3. Append(acc.plan, Pair(s, chosen)) \in Seq(Pairs) BY <2>2, <1>1
  <2> QED BY <2>1, <2>3, <1>1, <1>2, <1>4, <1>5, <1>7 DEF Acc
<1> QED BY <1>6, <1>7

LEMMA PickedType ==
  ASSUME TypeOK, NEW plan \in Seq(Pairs), NEW s \in Live
  PROVE  Picked(plan, s) \in Seq(Pairs)
<1> DEFINE chosen == ClosestUnambiguous(s, Offered(s, PlanLegs(plan)))
<1>1. s \in Txns BY DEF Live
<1>2. Offered(s, PlanLegs(plan)) \subseteq Txns
  BY FirstAreSome DEF Offered, Candidates, Live
<1>3. chosen = None \/ chosen \in Txns BY <1>2, ChosenIsOffered
<1> HIDE DEF chosen
<1>4. chosen # None => Pair(s, chosen) \in Pairs
  BY <1>1, <1>3, ResidualType DEF Pair, Pairs
<1>5. Picked(plan, s) = IF chosen = None THEN plan ELSE Append(plan, Pair(s, chosen))
  BY DEF Picked, chosen
<1> QED BY <1>4, <1>5

\* The two recursions are what their equations say.
LEMMA TurnByTurn ==
  ASSUME TypeOK, NEW order \in Seq(Live)
  PROVE  /\ Turns(order)[0] = NoTurn
         /\ \A n \in 1..Len(order) :
              Turns(order)[n] = Resolve(Turns(order)[n - 1], n, order[n])
<1> DEFINE N == Len(order)
           G == [x \in (1..N) \X Acc |-> Resolve(x[2], x[1], order[x[1]])]
<1>1. N \in Nat /\ \A n \in 1..N : order[n] \in Live OBVIOUS
<1>2. NoTurn \in Acc BY DEF NoTurn, Acc
<1>3. G \in [(1..N) \X Acc -> Acc]
  <2> HIDE DEF N
  <2> QED BY <1>1, ResolveType
<1>4. \A n \in 1..N, acc \in Acc : G[<<n, acc>>] = Resolve(acc, n, order[n]) OBVIOUS
<1> HIDE DEF G
<1>5. PICK f : Follows(f, N, Acc, NoTurn, G)
  <2>1. G \in Steps(N, Acc) BY <1>3 DEF Steps
  <2> HIDE DEF N
  <2> QED BY <1>1, <1>2, <2>1, Recursion
<1> DEFINE Body(t) == [n \in 0..N |-> IF n = 0 THEN NoTurn ELSE Resolve(t[n - 1], n, order[n])]
<1>6. f = Body(f)
  <2>1. \A k \in 1..N : f[k] = Resolve(f[k - 1], k, order[k])
    <3> SUFFICES ASSUME NEW k \in 1..N PROVE f[k] = Resolve(f[k - 1], k, order[k]) OBVIOUS
    <3>1. k - 1 \in 0..N BY <1>1
    <3> QED BY <3>1, <1>4, <1>5 DEF Follows
  <2> HIDE DEF N
  <2> QED BY <2>1, <1>1, <1>5 DEF Follows
<1>7. Turns(order) = CHOOSE t : t = Body(t) BY DEF Turns, NoTurn
<1> HIDE DEF Body
<1>8. Turns(order) = Body(Turns(order)) BY <1>6, <1>7
<1> QED BY <1>1, <1>8 DEF Body

LEMMA PickByPick ==
  ASSUME TypeOK, NEW order \in Seq(Live)
  PROVE  /\ Picks(order)[0] = <<>>
         /\ \A n \in 1..Len(order) :
              Picks(order)[n] = Picked(Picks(order)[n - 1], order[n])
<1> DEFINE N == Len(order)
           T == Seq(Pairs)
           G == [x \in (1..N) \X T |-> Picked(x[2], order[x[1]])]
<1>1. N \in Nat /\ \A n \in 1..N : order[n] \in Live OBVIOUS
<1>2. <<>> \in T OBVIOUS
<1>3. G \in [(1..N) \X T -> T]
  <2>1. \A plan \in T, s \in Live : Picked(plan, s) \in T BY PickedType
  <2> HIDE DEF N, T
  <2> QED BY <1>1, <2>1
<1>4. \A n \in 1..N, plan \in T : G[<<n, plan>>] = Picked(plan, order[n]) OBVIOUS
<1> HIDE DEF G, T
<1>5. PICK f : Follows(f, N, T, <<>>, G)
  <2>1. G \in Steps(N, T) BY <1>3 DEF Steps
  <2> HIDE DEF N
  <2> QED BY <1>1, <1>2, <2>1, Recursion
<1> DEFINE Body(t) == [n \in 0..N |-> IF n = 0 THEN <<>> ELSE Picked(t[n - 1], order[n])]
<1>6. f = Body(f)
  <2>1. \A k \in 1..N : f[k] = Picked(f[k - 1], order[k])
    <3> SUFFICES ASSUME NEW k \in 1..N PROVE f[k] = Picked(f[k - 1], order[k]) OBVIOUS
    <3>1. k - 1 \in 0..N BY <1>1
    <3> QED BY <3>1, <1>4, <1>5 DEF Follows
  <2> HIDE DEF N
  <2> QED BY <2>1, <1>1, <1>5 DEF Follows
<1>7. Picks(order) = CHOOSE t : t = Body(t) BY DEF Picks
<1> HIDE DEF Body
<1>8. Picks(order) = Body(Picks(order)) BY <1>6, <1>7
<1> QED BY <1>1, <1>8 DEF Body

\* What is known of a pass after each turn: it has taken exactly the legs it links, and
\* its chunk was asked about when it had taken no more than that.
InStep(acc) == acc \in Acc /\ acc.taken = PlanLegs(acc.plan) /\ acc.asked \subseteq acc.taken

\* A row that was free when the chunk was asked about and is not taken since is one the
\* picker would find now: the turn links what the picker would choose.
LEMMA SameTurn ==
  ASSUME TypeOK, NEW acc, InStep(acc), NEW n, NEW s \in Live
  PROVE  /\ InStep(Resolve(acc, n, s))
         /\ Resolve(acc, n, s).plan = Picked(acc.plan, s)
<1> DEFINE asked == IF (n - 1) % Chunk = 0 THEN acc.taken ELSE acc.asked
           rows == ChunkRows(s, asked)
           chosen == IF s \in acc.taken THEN None
                     ELSE ClosestUnambiguous(s, StillOffered(s, rows, acc.taken))
           picked == ClosestUnambiguous(s, Offered(s, acc.taken))
<1>1. acc \in Acc /\ acc.taken \subseteq Txns /\ acc.plan \in Seq(Pairs)
  BY DEF InStep, Acc
<1>2. asked \subseteq acc.taken BY DEF InStep
<1>3. s \in Txns BY DEF Live
<1>4. Resolve(acc, n, s) \in Acc BY <1>1, ResolveType
<1>5. ClosestUnambiguous(s, {}) = None BY DEF ClosestUnambiguous
<1>6. Resolve(acc, n, s) =
        [asked |-> asked, taken |-> acc.taken \cup (IF chosen = None THEN {} ELSE {s, chosen}),
         plan |-> IF chosen = None THEN acc.plan ELSE Append(acc.plan, Pair(s, chosen))]
  BY DEF Resolve
<1> HIDE DEF asked, rows, chosen
<1>7. chosen = picked
  <2>1. CASE s \in acc.taken
    <3>1. Offered(s, acc.taken) = {} BY <2>1 DEF Offered
    <3> QED BY <2>1, <3>1, <1>5 DEF chosen
  <2>2. CASE s \notin acc.taken /\ txns[s].group # None
    <3>1. Offered(s, acc.taken) = {} BY <2>2 DEF Offered
    <3>2. rows = {} BY <2>2 DEF rows, ChunkRows
    <3>3. StillOffered(s, rows, acc.taken) = {} BY <3>2, FirstAreSome DEF StillOffered
    <3> QED BY <2>2, <3>1, <3>3, <1>5 DEF chosen
  <2>3. CASE s \notin acc.taken /\ txns[s].group = None
    <3>1. s \notin asked BY <2>3, <1>2
    <3>2. rows = Candidates(s, asked) BY <2>3, <3>1 DEF rows, ChunkRows
    <3>3. rows \ acc.taken = Candidates(s, acc.taken)
      BY <3>2, <1>2 DEF Candidates
    <3>4. StillOffered(s, rows, acc.taken) = First(s, Candidates(s, acc.taken))
      BY <3>3 DEF StillOffered
    <3>5. CASE txns[s].amount = 0
      <4>1. Candidates(s, acc.taken) = {} BY <3>5 DEF Candidates, OppositeSigns
      <4>2. First(s, Candidates(s, acc.taken)) = {} BY <4>1, FirstAreSome
      <4>3. Offered(s, acc.taken) = {} BY <3>5 DEF Offered
      <4> QED BY <2>3, <3>4, <4>2, <4>3 DEF chosen
    <3>6. CASE txns[s].amount # 0
      <4>1. Offered(s, acc.taken) = First(s, Candidates(s, acc.taken))
        BY <3>6, <2>3 DEF Offered
      <4> QED BY <2>3, <3>4, <4>1 DEF chosen
    <3> QED BY <3>5, <3>6
  <2> QED BY <2>1, <2>2, <2>3
<1>8. Picked(acc.plan, s) = IF picked = None THEN acc.plan ELSE Append(acc.plan, Pair(s, picked))
  BY DEF Picked, InStep
<1>9. Resolve(acc, n, s).plan = Picked(acc.plan, s) BY <1>6, <1>7, <1>8
<1>10. Resolve(acc, n, s).taken = PlanLegs(Resolve(acc, n, s).plan)
  <2>1. CASE chosen = None BY <2>1, <1>6 DEF InStep
  <2>2. CASE chosen # None
    <3>1. chosen \in Txns
      <4>1. Offered(s, acc.taken) \subseteq Txns
        BY FirstAreSome DEF Offered, Candidates, Live
      <4> QED BY <2>2, <4>1, <1>7, ChosenIsOffered
    <3>2. Pair(s, chosen) \in Pairs BY <1>3, <3>1, ResidualType DEF Pair, Pairs
    <3>3. Pair(s, chosen).from = s /\ Pair(s, chosen).to = chosen BY DEF Pair
    <3>4. PlanLegs(Append(acc.plan, Pair(s, chosen))) = PlanLegs(acc.plan) \cup {s, chosen}
      BY <3>2, <3>3, <1>1, LegsOfOneMore
    <3> QED BY <2>2, <3>4, <1>6 DEF InStep
  <2> QED BY <2>1, <2>2
<1>11. Resolve(acc, n, s).asked \subseteq Resolve(acc, n, s).taken BY <1>2, <1>6
<1> QED BY <1>4, <1>9, <1>10, <1>11 DEF InStep

\* After every turn, the pass has planned what the picker has picked.
LEMMA TurnsArePicks ==
  ASSUME TypeOK, NEW order \in Seq(Live)
  PROVE  \A n \in 0..Len(order) : /\ InStep(Turns(order)[n])
                                  /\ Turns(order)[n].plan = Picks(order)[n]
<1> DEFINE N == Len(order)
           S == {n \in 0..N : InStep(Turns(order)[n]) /\ Turns(order)[n].plan = Picks(order)[n]}
<1>1. N \in Nat /\ \A n \in 1..N : order[n] \in Live OBVIOUS
<1>2. 0 \in S
  <2>1. InStep(NoTurn) BY LegsOfNothing DEF InStep, NoTurn, Acc
  <2>2. NoTurn.plan = <<>> BY DEF NoTurn
  <2> QED BY <1>1, <2>1, <2>2, TurnByTurn, PickByPick
<1>3. \A k \in 0..(N - 1) : k \in S => k + 1 \in S
  <2> SUFFICES ASSUME NEW k \in 0..(N - 1), k \in S PROVE k + 1 \in S OBVIOUS
  <2>1. k + 1 \in 1..N /\ k + 1 \in 0..N /\ (k + 1) - 1 = k BY <1>1
  <2>2. Turns(order)[k + 1] = Resolve(Turns(order)[k], k + 1, order[k + 1])
    BY <2>1, TurnByTurn
  <2>3. Picks(order)[k + 1] = Picked(Picks(order)[k], order[k + 1])
    BY <2>1, PickByPick
  <2>4. order[k + 1] \in Live BY <1>1, <2>1
  <2>5. /\ InStep(Turns(order)[k + 1])
        /\ Turns(order)[k + 1].plan = Picked(Turns(order)[k].plan, order[k + 1])
    BY <2>2, <2>4, SameTurn
  <2> QED BY <2>1, <2>3, <2>5
<1> HIDE DEF S
<1>4. \A n \in 0..N : n \in S BY <1>1, <1>2, <1>3, UpTo
<1> QED BY <1>4 DEF S

LEMMA TouchedAreLive ==
  ASSUME NEW order \in Touched
  PROVE  order \in Seq(Live)
<1>1. PICK S \in SUBSET Live : order \in SetToSeqs(S) BY DEF Touched
<1>2. IsFiniteSet(S)
  <2>1. S \subseteq Txns BY DEF Live
  <2> QED BY <2>1, TxnsAssumption, FS_Subset
<1>3. Cardinality(S) \in Nat BY <1>2, FS_CardinalityType
<1>4. order \in [1..Cardinality(S) -> S] BY <1>1 DEF SetToSeqs
<1>5. order \in Seq(S) BY <1>3, <1>4
<1> QED BY <1>5

\* Wherever the pass is cut into chunks, whatever the caps and the rows.
LEMMA PassIsPicker ==
  ASSUME TypeOK, NEW order \in Touched
  PROVE  MatchPass(order) = PickerPass(order)
<1>1. order \in Seq(Live) BY TouchedAreLive
<1>2. Len(order) \in 0..Len(order) BY <1>1
<1>3. Turns(order)[Len(order)].plan = Picks(order)[Len(order)]
  BY <1>1, <1>2, TurnsArePicks
<1> QED BY <1>3 DEF MatchPass, PickerPass

\* Every link a pass plans is one link_transfer would accept, at the cost it would store.
Acceptable(plan) ==
  \A i \in DOMAIN plan : /\ Fits(plan[i].from, plan[i].to)
                         /\ plan[i].cost = ResidualBase(plan[i].from, plan[i].to)

LEMMA PickedAccepts ==
  ASSUME TypeOK, NEW plan \in Seq(Pairs), Acceptable(plan), NEW s \in Live
  PROVE  Acceptable(Picked(plan, s))
<1> DEFINE chosen == ClosestUnambiguous(s, Offered(s, PlanLegs(plan)))
           more == Append(plan, Pair(s, chosen))
<1>1. CASE chosen = None BY <1>1 DEF Picked
<1>2. CASE chosen # None
  <2>1. chosen \in Offered(s, PlanLegs(plan)) BY <1>2, ChosenIsOffered
  <2>2. txns[s].group = None /\ chosen \in Candidates(s, PlanLegs(plan))
    BY <2>1, FirstAreSome DEF Offered
  <2>3. chosen \in Txns /\ Fits(s, chosen) BY <2>2, CandidatesFit DEF Fits
  <2>4. s \in Txns BY DEF Live
  <2> HIDE DEF chosen
  <2>5. Pair(s, chosen) \in Pairs BY <2>3, <2>4, ResidualType DEF Pair, Pairs
  <2>6. DOMAIN more = 1..(Len(plan) + 1) /\ DOMAIN plan = 1..Len(plan) BY <2>5
  <2>7. more[Len(plan) + 1] = Pair(s, chosen) /\ \A i \in DOMAIN plan : more[i] = plan[i]
    BY <2>5
  <2> HIDE DEF more
  <2>8. Acceptable(more)
    <3> SUFFICES ASSUME NEW i \in DOMAIN more
                 PROVE  /\ Fits(more[i].from, more[i].to)
                        /\ more[i].cost = ResidualBase(more[i].from, more[i].to)
      BY DEF Acceptable
    <3>1. CASE i = Len(plan) + 1 BY <3>1, <2>7, <2>3 DEF Pair
    <3>2. CASE i \in DOMAIN plan BY <3>2, <2>7 DEF Acceptable
    <3> QED BY <3>1, <3>2, <2>6
  <2>9. Picked(plan, s) = more BY <1>2 DEF Picked, chosen, more
  <2> QED BY <2>8, <2>9
<1> QED BY <1>1, <1>2

LEMMA PassAccepts ==
  ASSUME TypeOK, NEW order \in Touched
  PROVE  MatchPass(order) \in Seq(Pairs) /\ Acceptable(MatchPass(order))
<1> DEFINE N == Len(order)
           S == {n \in 0..N : Acceptable(Picks(order)[n])}
<1>1. order \in Seq(Live) BY TouchedAreLive
<1>2. N \in Nat /\ \A n \in 1..N : order[n] \in Live BY <1>1
<1>3. \A n \in 0..N : Picks(order)[n] \in Seq(Pairs) /\ Picks(order)[n] = Turns(order)[n].plan
  BY <1>1, TurnsArePicks DEF InStep, Acc
<1>4. 0 \in S
  <2>1. Acceptable(<<>>) BY DEF Acceptable
  <2> QED BY <2>1, <1>1, <1>2, PickByPick
<1>5. \A k \in 0..(N - 1) : k \in S => k + 1 \in S
  <2> SUFFICES ASSUME NEW k \in 0..(N - 1), k \in S PROVE k + 1 \in S OBVIOUS
  <2>1. k \in 0..N /\ k + 1 \in 1..N /\ k + 1 \in 0..N /\ (k + 1) - 1 = k BY <1>2
  <2>2. Picks(order)[k + 1] = Picked(Picks(order)[k], order[k + 1])
    BY <2>1, <1>1, PickByPick
  <2>3. order[k + 1] \in Live /\ Picks(order)[k] \in Seq(Pairs) BY <1>2, <1>3, <2>1
  <2>4. Acceptable(Picks(order)[k]) OBVIOUS
  <2>5. Acceptable(Picks(order)[k + 1]) BY <2>2, <2>3, <2>4, PickedAccepts
  <2> QED BY <2>1, <2>5
<1> HIDE DEF S
<1>6. \A n \in 0..N : n \in S BY <1>2, <1>4, <1>5, UpTo
<1>7. N \in 0..N /\ N \in S BY <1>2, <1>6
<1> QED BY <1>3, <1>7 DEF S, MatchPass

-----------------------------------------------------------------------------
(* The steps                                                               *)

LEMMA UsedAreGroups == Used \subseteq Groups /\ Existing \subseteq Used
BY DEF Used, Existing

\* What a request remembers is untouched by a step that changes no row and no group.
LEMMA RemembersStill ==
  ASSUME NEW client, Remembers(client), txns' = txns, groups' = groups
  PROVE  Remembers(client)'
<1>1. Used' = Used BY DEF Used
<1>2. Unseen(client)' BY <1>1 DEF Unseen, Remembers
<1>3. \A i \in DOMAIN client.plan : Holds(client.plan[i], client.moved)'
  BY DEF Holds, OppositeSigns, ResidualBase, Remembers
<1> QED BY <1>1, <1>2, <1>3 DEF Remembers

\* A request begins with what it has read.
LEMMA BeginInv ==
  ASSUME IInv, NEW c \in Clients, NEW client \in Request, Begin(c, client),
         Remembers(client)
  PROVE  IInv'
<1>1. txns' = txns /\ groups' = groups BY DEF Begin
<1>2. clients' = [clients EXCEPT ![c] = client] BY DEF Begin
<1>3. TypeOK'
  <2>1. clients' \in [Clients -> Request] BY <1>2 DEF IInv, TypeOK
  <2> QED BY <1>1, <2>1 DEF IInv, TypeOK, Live, Existing
<1>4. InOrder' BY <1>1 DEF IInv, InOrder, Used
<1>5. RequestsRemember'
  <2> SUFFICES ASSUME NEW d \in Clients PROVE Remembers(clients[d])'
    BY DEF RequestsRemember
  <2>1. PICK r : r = clients'[d] OBVIOUS
  <2>2. Remembers(r) BY <1>2, <2>1 DEF IInv, RequestsRemember, TypeOK
  <2>3. Remembers(r)' BY <1>1, <2>2, RemembersStill
  <2> QED BY <2>1, <2>3 DEF Remembers, Unseen, Holds
<1>6. GroupsAreTransfers'
  BY <1>1 DEF IInv, GroupsAreTransfers, Existing, Legs, Live, OppositeSigns, ResidualBase
<1> QED BY <1>3, <1>4, <1>5, <1>6 DEF IInv

\* A link that was just read is remembered as it is.
LEMMA PlannedRemembers ==
  ASSUME IInv, NEW plan \in Seq(Pairs), Acceptable(plan)
  PROVE  Linking(plan) \in Request /\ Remembers(Linking(plan))
<1> DEFINE client == Linking(plan)
<1>1. client = [op |-> "link", plan |-> plan, group |-> None, legs |-> {},
                saw |-> Existing, moved |-> {}]
  BY DEF Linking
<1>2. Existing \subseteq Groups BY DEF Existing
<1>3. client \in Request BY <1>1, <1>2 DEF Request
<1> HIDE DEF client
<1>4. client.saw \subseteq Used BY <1>1, UsedAreGroups
<1>5. ASSUME NEW t \in PlanLegs(client.plan) PROVE txns[t].group \notin client.saw
  <2>1. PICK i \in DOMAIN plan : t \in {plan[i].from, plan[i].to}
    BY <1>1 DEF PlanLegs
  <2>2. txns[t].group = None BY <2>1 DEF Acceptable, Fits, CanLink, Free
  <2> QED BY <2>2, <1>1, <1>2, NoneIsNoRow
<1>6. Unseen(client) BY <1>1, <1>4, <1>5 DEF Unseen
<1>7. ASSUME NEW i \in DOMAIN client.plan PROVE Holds(client.plan[i], client.moved)
  BY <1>1 DEF Acceptable, Fits, CanLink, Holds
<1>8. Remembers(client) BY <1>1, <1>6, <1>7 DEF Remembers
<1> QED BY <1>3, <1>8 DEF client

LEMMA LinkReadInv ==
  ASSUME IInv, NEW c \in Clients, NEW a \in Txns, NEW b \in Txns, LinkRead(c, a, b)
  PROVE  IInv'
<1> DEFINE plan == <<Pair(a, b)>>
<1>1. TypeOK BY DEF IInv
<1>2. Pair(a, b) \in Pairs BY <1>1, ResidualType DEF Pair, Pairs
<1>3. plan \in Seq(Pairs) /\ DOMAIN plan = {1} /\ plan[1] = Pair(a, b) BY <1>2
<1>4. Acceptable(plan)
  <2>1. Fits(a, b) BY DEF LinkRead, Fits, CanLink, Free
  <2> HIDE DEF plan
  <2> QED BY <2>1, <1>3 DEF Acceptable, Pair
<1>5. Begin(c, Linking(plan))
  BY DEF LinkRead
<1> HIDE DEF plan
<1> QED BY <1>3, <1>4, <1>5, PlannedRemembers, BeginInv

LEMMA MatchReadInv ==
  ASSUME IInv, NEW c \in Clients, MatchRead(c)
  PROVE  IInv'
<1>1. PICK order \in Touched :Begin(c, Linking(MatchPass(order)))
  BY DEF MatchRead
<1>2. MatchPass(order) \in Seq(Pairs) /\ Acceptable(MatchPass(order))
  BY PassAccepts DEF IInv
<1> QED BY <1>1, <1>2, PlannedRemembers, BeginInv

LEMMA UnlinkReadInv ==
  ASSUME IInv, NEW c \in Clients, NEW g \in Groups, UnlinkRead(c, g)
  PROVE  IInv'
<1> DEFINE client == Unlinking(g)
<1>1. client = [op |-> "unlink", plan |-> <<>>, group |-> g, legs |-> Legs(g),
                saw |-> Existing, moved |-> {}]
  BY DEF Unlinking
<1>2. Existing \subseteq Groups /\ Legs(g) \subseteq Txns BY DEF Existing, Legs, Live
<1>3. Begin(c, client) /\ g \in Existing BY DEF UnlinkRead
<1>4. <<>> \in Seq(Pairs) /\ DOMAIN <<>> = {} OBVIOUS
<1>5. client \in Request BY <1>1, <1>2, <1>4 DEF Request
<1> HIDE DEF client
<1>6. Remembers(client)
  <2>1. \A t \in Legs(g) : txns[t].group = g BY DEF Legs
  <2>2. Unseen(client) BY <1>1, <2>1, LegsOfNothing, UsedAreGroups DEF Unseen
  <2> QED BY <1>1, <1>3, <1>4, <2>2, UsedAreGroups DEF Remembers
<1> QED BY <1>3, <1>5, <1>6, BeginInv

\* A step that only moves rows to groups nobody has seen, or to none.
Regroups ==
  /\ Used \subseteq Used'
  /\ \A t \in Txns : /\ txns'[t].state = txns[t].state
                     /\ txns'[t].amount = txns[t].amount
                     /\ txns'[t].base = txns[t].base
                     /\ txns'[t].group = txns[t].group \/ txns'[t].group \notin Used

LEMMA RegroupedHolds ==
  ASSUME Regroups, NEW pair \in Pairs, NEW moved, Holds(pair, moved)
  PROVE  Holds(pair, moved)'
<1> DEFINE a == pair.from
           b == pair.to
<1>1. a \in Txns /\ b \in Txns BY DEF Pairs
<1>2. /\ txns'[a].state = txns[a].state /\ txns'[b].state = txns[b].state
      /\ txns'[a].amount = txns[a].amount /\ txns'[b].amount = txns[b].amount
      /\ txns'[a].base = txns[a].base /\ txns'[b].base = txns[b].base
  BY <1>1 DEF Regroups
<1> QED BY <1>2 DEF Holds, OppositeSigns, ResidualBase

LEMMA RegroupedRemember ==
  ASSUME IInv, NEW c \in Clients, Regroups, clients' = [clients EXCEPT ![c] = Idle]
  PROVE  RequestsRemember' /\ clients' \in [Clients -> Request]
<1>1. Idle \in Request
  <2>1. <<>> \in Seq(Pairs) OBVIOUS
  <2> QED BY <2>1 DEF Idle, Request
<1>2. clients' \in [Clients -> Request] BY <1>1 DEF IInv, TypeOK
<1>3. ASSUME NEW d \in Clients PROVE Remembers(clients[d])'
  <2>1. PICK r : r = clients'[d] OBVIOUS
  <2>2. r \in Request /\ Remembers(r)
    <3>1. CASE d = c
      <4>1. r = Idle BY <2>1, <3>1 DEF IInv, TypeOK
      <4>2. DOMAIN r.plan = {} /\ PlanLegs(r.plan) = {} /\ r.legs = {} /\ r.saw = {}
        BY <4>1, LegsOfNothing DEF Idle
      <4>3. r.op # "unlink" BY <4>1 DEF Idle
      <4> QED BY <4>1, <4>2, <4>3, <1>1 DEF Remembers, Unseen
    <3>2. CASE d # c
      <4>1. r = clients[d] BY <2>1, <3>2 DEF IInv, TypeOK
      <4> QED BY <4>1 DEF IInv, TypeOK, RequestsRemember
    <3> QED BY <3>1, <3>2
  <2>3. r.plan \in Seq(Pairs) /\ r.legs \subseteq Txns BY <2>2 DEF Request
  <2>4. Unseen(r)'
    <3>1. r.saw \subseteq Used BY <2>2 DEF Remembers, Unseen
    <3>2. ASSUME NEW t \in PlanLegs(r.plan) PROVE txns'[t].group \notin r.saw
      <4>1. t \in Txns BY <2>3, LegsAreRows
      <4>2. txns[t].group \notin r.saw BY <2>2 DEF Remembers, Unseen
      <4> QED BY <4>1, <4>2, <3>1 DEF Regroups
    <3>3. ASSUME NEW t \in r.legs
          PROVE  txns'[t].group = r.group \/ txns'[t].group \notin r.saw
      <4>1. t \in Txns BY <2>3
      <4>2. txns[t].group = r.group \/ txns[t].group \notin r.saw
        BY <2>2 DEF Remembers, Unseen
      <4> QED BY <4>1, <4>2, <3>1 DEF Regroups
    <3> QED BY <3>1, <3>2, <3>3 DEF Unseen, Regroups
  <2>5. ASSUME NEW i \in DOMAIN r.plan PROVE Holds(r.plan[i], r.moved)'
    <3>1. r.plan[i] \in Pairs BY <2>3
    <3>2. Holds(r.plan[i], r.moved) BY <2>2 DEF Remembers
    <3> QED BY <3>1, <3>2, RegroupedHolds
  <2>6. r.op = "unlink" => r.group \in Used' BY <2>2 DEF Remembers, Regroups
  <2>7. Remembers(r)' BY <2>4, <2>5, <2>6 DEF Remembers
  <2> QED BY <2>1, <2>7 DEF Remembers, Unseen, Holds
<1> QED BY <1>2, <1>3 DEF RequestsRemember

\* A request that ends without having written.
LEMMA GivesUp ==
  ASSUME IInv, NEW c \in Clients, clients' = [clients EXCEPT ![c] = Idle],
         UNCHANGED <<txns, groups>>
  PROVE  IInv'
<1>1. txns' = txns /\ groups' = groups OBVIOUS
<1>2. Used' = Used BY DEF Used
<1>3. Regroups BY <1>1, <1>2 DEF Regroups
<1>4. RequestsRemember' /\ clients' \in [Clients -> Request] BY <1>3, RegroupedRemember
<1>5. TypeOK' BY <1>1, <1>4 DEF IInv, TypeOK, Live, Existing
<1>6. InOrder' BY <1>2 DEF IInv, InOrder
<1>7. GroupsAreTransfers'
  BY <1>1 DEF IInv, GroupsAreTransfers, Existing, Legs, Live, OppositeSigns, ResidualBase
<1> QED BY <1>4, <1>5, <1>6, <1>7 DEF IInv

\* What a link writes: the next numbers, one for each pair, in the pairs' legs.
Links(plan, moved, k) ==
  /\ Used = 1..k
  /\ k + Len(plan) <= MaxGroups
  /\ txns' = [t \in Txns |->
       IF t \in PlanLegs(plan)
       THEN [txns[t] EXCEPT !.group =
               k + CHOOSE i \in DOMAIN plan : t \in {plan[i].from, plan[i].to}]
       ELSE txns[t]]
  /\ groups' = [g \in Groups |->
       IF g - k \in DOMAIN plan THEN Made(plan[g - k], moved) ELSE groups[g]]

LEMMA LinkWrites ==
  ASSUME IInv, NEW c \in Clients, LinkWrite(c), PlanLegs(clients[c].plan) \subseteq Live
  PROVE  \E k \in 0..MaxGroups : Links(clients[c].plan, clients[c].moved, k)
<1>1. PICK k \in 0..MaxGroups : Used = 1..k BY DEF IInv, InOrder
<1>2. Cardinality({g \in Groups : groups[g].state # "unused"}) = k
  <2>1. Cardinality(1..k) = k BY <1>1, NullAssumption, FS_Interval
  <2> QED BY <1>1, <2>1 DEF Used
<1>3. Links(clients[c].plan, clients[c].moved, k) BY <1>1, <1>2 DEF LinkWrite, Links
<1> QED BY <1>3

LEMMA MadeIsMade == \A pair, moved : Made(pair, moved).state = "made"
BY DEF Made

LEMMA MadeUnmoved ==
  ASSUME NEW pair, NEW moved, ~Made(pair, moved).moved
  PROVE  moved \cap {pair.from, pair.to} = {}
BY DEF Made

LEMMA LinkedRows ==
  ASSUME IInv, NEW plan \in Seq(Pairs), NEW moved, NEW k \in 0..MaxGroups,
         Links(plan, moved, k)
  PROVE  /\ \A t \in PlanLegs(plan) :
              \E i \in DOMAIN plan : /\ t \in {plan[i].from, plan[i].to}
                                     /\ txns'[t] = [txns[t] EXCEPT !.group = k + i]
         /\ \A t \in Txns \ PlanLegs(plan) : txns'[t] = txns[t]
<1>1. PlanLegs(plan) \subseteq Txns BY LegsAreRows
<1>2. ASSUME NEW t \in PlanLegs(plan)
      PROVE  \E i \in DOMAIN plan : /\ t \in {plan[i].from, plan[i].to}
                                    /\ txns'[t] = [txns[t] EXCEPT !.group = k + i]
  <2> DEFINE i == CHOOSE j \in DOMAIN plan : t \in {plan[j].from, plan[j].to}
  <2>1. i \in DOMAIN plan /\ t \in {plan[i].from, plan[i].to} BY DEF PlanLegs
  <2>2. txns'[t] = [txns[t] EXCEPT !.group = k + i] BY <1>1 DEF Links
  <2> HIDE DEF i
  <2> QED BY <2>1, <2>2
<1> QED BY <1>2 DEF Links

LEMMA LinkedGroups ==
  ASSUME IInv, NEW plan \in Seq(Pairs), NEW moved, NEW k \in 0..MaxGroups,
         Links(plan, moved, k)
  PROVE  /\ \A i \in DOMAIN plan :
              /\ k + i \in Groups \ Used
              /\ groups'[k + i] = Made(plan[i], moved)
         /\ \A g \in Groups : (\E i \in DOMAIN plan : g = k + i) \/ groups'[g] = groups[g]
         /\ \A g \in Used : groups'[g] = groups[g]
         /\ Used' = 1..(k + Len(plan))
         /\ k + Len(plan) \in 0..MaxGroups
<1>1. DOMAIN plan = 1..Len(plan) /\ Len(plan) \in Nat OBVIOUS
<1>2. Used = 1..k /\ k + Len(plan) <= MaxGroups /\ MaxGroups \in Nat
  BY NullAssumption DEF Links
<1>3. ASSUME NEW i \in DOMAIN plan
      PROVE  /\ k + i \in Groups \ Used
             /\ groups'[k + i] = Made(plan[i], moved)
  <2>1. k + i \in Groups \ Used BY <1>1, <1>2 DEF Groups
  <2>2. (k + i) - k = i BY <1>1
  <2> QED BY <2>1, <2>2 DEF Links
<1>4. ASSUME NEW g \in Groups
      PROVE  (\E i \in DOMAIN plan : g = k + i) \/ groups'[g] = groups[g]
  <2>1. CASE g - k \in DOMAIN plan
    <3>1. g = k + (g - k) BY DEF Groups
    <3> QED BY <2>1, <3>1
  <2>2. CASE g - k \notin DOMAIN plan BY <2>2 DEF Links
  <2> QED BY <2>1, <2>2
<1>5. ASSUME NEW g \in Used PROVE groups'[g] = groups[g]
  <2>1. g \in Groups /\ g \in 1..k BY <1>2, UsedAreGroups
  <2>2. g - k \notin DOMAIN plan BY <1>1, <2>1
  <2> QED BY <2>1, <2>2 DEF Links
<1>6. Used' = 1..(k + Len(plan))
  <2>1. ASSUME NEW g \in Used' PROVE g \in 1..(k + Len(plan))
    <3>1. g \in Groups /\ groups'[g].state # "unused" BY DEF Used
    <3>2. CASE \E i \in DOMAIN plan : g = k + i BY <3>2, <1>1
    <3>3. CASE groups'[g] = groups[g]
      <4>1. g \in Used BY <3>1, <3>3 DEF Used
      <4> QED BY <4>1, <1>1, <1>2
    <3> QED BY <3>1, <3>2, <3>3, <1>4
  <2>2. ASSUME NEW g \in 1..(k + Len(plan)) PROVE g \in Used'
    <3>1. CASE g \in 1..k
      <4>1. g \in Used BY <3>1, <1>2
      <4> QED BY <4>1, <1>5 DEF Used
    <3>2. CASE g \notin 1..k
      <4>1. g - k \in DOMAIN plan /\ g = k + (g - k) BY <3>2, <1>1
      <4>2. g \in Groups /\ groups'[g].state = "made"
        <5> DEFINE i == g - k
        <5>1. i \in DOMAIN plan /\ g = k + i BY <4>1
        <5> HIDE DEF i
        <5> QED BY <5>1, <1>3, MadeIsMade
      <4> QED BY <4>2 DEF Used
    <3> QED BY <3>1, <3>2
  <2> QED BY <2>1, <2>2
<1>7. k + Len(plan) \in 0..MaxGroups BY <1>1, <1>2
<1> QED BY <1>3, <1>4, <1>5, <1>6, <1>7

LEMMA LinkedRegroups ==
  ASSUME IInv, NEW plan \in Seq(Pairs), NEW moved, NEW k \in 0..MaxGroups,
         Links(plan, moved, k)
  PROVE  Regroups
<1>1. Used \subseteq Used'
  BY LinkedGroups DEF Used
<1>2. ASSUME NEW t \in Txns
      PROVE  /\ txns'[t].state = txns[t].state
             /\ txns'[t].amount = txns[t].amount
             /\ txns'[t].base = txns[t].base
             /\ txns'[t].group = txns[t].group \/ txns'[t].group \notin Used
  <2>1. CASE t \notin PlanLegs(plan) BY <2>1, LinkedRows
  <2>2. CASE t \in PlanLegs(plan)
    <3>1. PICK i \in DOMAIN plan : txns'[t] = [txns[t] EXCEPT !.group = k + i]
      BY <2>2, LinkedRows
    <3>2. txns[t] \in Txn BY DEF IInv, TypeOK
    <3>3. k + i \notin Used BY LinkedGroups
    <3> QED BY <3>1, <3>2, <3>3 DEF Txn
  <2> QED BY <2>1, <2>2
<1> QED BY <1>1, <1>2 DEF Regroups

LEMMA LinkedType ==
  ASSUME IInv, NEW plan \in Seq(Pairs), NEW moved, NEW k \in 0..MaxGroups,
         Links(plan, moved, k), PlanLegs(plan) \subseteq Live,
         clients' \in [Clients -> Request]
  PROVE  TypeOK' /\ InOrder'
<1>1. ASSUME NEW t \in Txns PROVE txns'[t] \in Txn
  <2>1. txns[t] \in Txn BY DEF IInv, TypeOK
  <2>2. CASE t \in PlanLegs(plan)
    <3>1. PICK i \in DOMAIN plan : txns'[t] = [txns[t] EXCEPT !.group = k + i]
      BY <2>2, LinkedRows
    <3>2. k + i \in Groups BY LinkedGroups
    <3> QED BY <2>1, <3>1, <3>2 DEF Txn
  <2>3. CASE t \notin PlanLegs(plan) BY <2>1, <2>3, LinkedRows
  <2> QED BY <2>2, <2>3
<1>2. txns' \in [Txns -> Txn]
  <2>1. txns' = [t \in Txns |-> txns'[t]] BY DEF Links
  <2> QED BY <1>1, <2>1
<1>3. ASSUME NEW g \in Groups PROVE groups'[g] \in Group
  <2>1. CASE \E i \in DOMAIN plan : g = k + i
    <3>1. PICK i \in DOMAIN plan : g = k + i BY <2>1
    <3>2. plan[i] \in Pairs OBVIOUS
    <3>3. groups'[g] = Made(plan[i], moved)
      BY <3>1, LinkedGroups
    <3> QED BY <3>2, <3>3 DEF Pairs, Group, Made
  <2>2. CASE groups'[g] = groups[g] BY <2>2 DEF IInv, TypeOK
  <2> QED BY <2>1, <2>2, LinkedGroups
<1>4. groups' \in [Groups -> Group]
  <2>1. groups' = [g \in Groups |-> groups'[g]] BY DEF Links
  <2> QED BY <1>3, <2>1
<1>5. \A t \in Txns : <<txns'[t].amount, txns'[t].base>> \in Worth[t]
  <2>1. Regroups BY LinkedRegroups
  <2> QED BY <2>1 DEF Regroups, IInv, TypeOK
<1>6. ASSUME NEW t \in Txns, txns'[t].group # None
      PROVE  t \in Live' /\ txns'[t].group \in Existing'
  <2>2. CASE t \in PlanLegs(plan)
    <3>1. PICK i \in DOMAIN plan : txns'[t] = [txns[t] EXCEPT !.group = k + i]
      BY <2>2, LinkedRows
    <3>2. txns[t] \in Txn BY DEF IInv, TypeOK
    <3>3. txns'[t].group = k + i BY <3>1, <3>2 DEF Txn
    <3>4. k + i \in Groups /\ groups'[k + i].state = "made" BY LinkedGroups, MadeIsMade
    <3>5. txns'[t].state = "live" BY <2>2, <3>1, <3>2 DEF Live, Txn
    <3> QED BY <3>3, <3>4, <3>5 DEF Existing, Live
  <2>3. CASE t \notin PlanLegs(plan)
    <3>1. txns'[t] = txns[t] BY <2>3, LinkedRows
    <3>2. txns[t].group # None BY <3>1, <1>6
    <3>4. t \in Live /\ txns[t].group \in Existing BY <3>2 DEF IInv, TypeOK
    <3>3. groups'[txns[t].group] = groups[txns[t].group]
      BY <3>4, UsedAreGroups, LinkedGroups
    <3> QED BY <3>1, <3>3, <3>4 DEF Existing, Live
  <2> QED BY <2>2, <2>3
<1>7. InOrder' BY LinkedGroups DEF InOrder
<1> QED BY <1>2, <1>4, <1>5, <1>6, <1>7 DEF TypeOK

\* The groups a link makes are transfers, and the others lose legs at most.
LEMMA LinkedAreTransfers ==
  ASSUME IInv, NEW plan \in Seq(Pairs), NEW moved, NEW k \in 0..MaxGroups,
         Links(plan, moved, k), PlanLegs(plan) \subseteq Live,
         \A i \in DOMAIN plan : Holds(plan[i], moved)
  PROVE  GroupsAreTransfers'
<1> SUFFICES ASSUME NEW g \in Existing'
             PROVE  /\ Legs(g)' \subseteq groups'[g].legs
                    /\ \A s, o \in groups'[g].legs : s # o => AccountOf[s] # AccountOf[o]
                    /\ \A s, o \in Legs(g)' : s # o /\ ~groups'[g].moved
                         => OppositeSigns(s, o)' /\ groups'[g].cost = ResidualBase(s, o)'
  BY DEF GroupsAreTransfers
<1>1. g \in Groups BY DEF Existing
<1>2. Regroups BY LinkedRegroups
<1>3. CASE \E i \in DOMAIN plan : g = k + i
  <2>1. PICK i \in DOMAIN plan : g = k + i BY <1>3
  <2> DEFINE a == plan[i].from
             b == plan[i].to
  <2>2. plan[i] \in Pairs /\ a \in PlanLegs(plan) /\ b \in PlanLegs(plan) BY LegsAreRows
  <2>3. a \in Txns /\ b \in Txns /\ a \in Live /\ b \in Live BY <2>2 DEF Pairs
  <2>4. groups'[g] = [state |-> "made", legs |-> {a, b}, cost |-> plan[i].cost,
                      moved |-> moved \cap {a, b} # {}]
    BY <2>1, LinkedGroups DEF Made
  <2>5. ASSUME NEW t \in Legs(g)' PROVE t \in {a, b}
    <3>1. t \in Txns /\ txns'[t].group = g /\ t \in Live' BY DEF Legs, Live
    <3>2. txns[t] \in Txn BY <3>1 DEF IInv, TypeOK
    <3>3. CASE t \in PlanLegs(plan)
      <4>1. PICK j \in DOMAIN plan : /\ t \in {plan[j].from, plan[j].to}
                                     /\ txns'[t] = [txns[t] EXCEPT !.group = k + j]
        BY <3>3, LinkedRows
      <4>2. k + j = k + i BY <4>1, <3>1, <3>2, <2>1 DEF Txn
      <4>3. j = i BY <4>2
      <4> QED BY <4>1, <4>3
    <3>4. CASE t \notin PlanLegs(plan)
      <4>1. txns[t].group = g /\ t \in Live BY <3>1, <3>4, LinkedRows DEF Live
      <4>2. g \in Existing BY <3>1, <4>1, <1>1, NoneIsNoRow DEF IInv, TypeOK
      <4>3. g \in Used /\ g \notin Used BY <4>2, <2>1, UsedAreGroups, LinkedGroups
      <4> QED BY <4>3
    <3> QED BY <3>3, <3>4
  <2>6. AccountOf[a] # AccountOf[b] BY DEF Holds
  <2>7. moved \cap {a, b} = {} => OppositeSigns(a, b) /\ plan[i].cost = ResidualBase(a, b)
    BY <2>3 DEF Holds, Live
  <2>8. /\ txns'[a].amount = txns[a].amount /\ txns'[b].amount = txns[b].amount
        /\ txns'[a].base = txns[a].base /\ txns'[b].base = txns[b].base
    BY <2>3, <1>2 DEF Regroups
  <2>9. moved \cap {a, b} = {} =>
          /\ OppositeSigns(a, b)' /\ OppositeSigns(b, a)'
          /\ plan[i].cost = ResidualBase(a, b)' /\ plan[i].cost = ResidualBase(b, a)'
    <3>1. txns[a] \in Txn /\ txns[b] \in Txn BY <2>3 DEF IInv, TypeOK
    <3> QED BY <2>7, <2>8, <3>1, NullAssumption DEF OppositeSigns, ResidualBase, Txn
  <2> HIDE DEF a, b
  <2>10. Legs(g)' \subseteq groups'[g].legs BY <2>4, <2>5
  <2>11. ASSUME NEW s \in groups'[g].legs, NEW o \in groups'[g].legs, s # o
         PROVE  AccountOf[s] # AccountOf[o]
    BY <2>4, <2>6, <2>11
  <2>12. ASSUME NEW s \in Legs(g)', NEW o \in Legs(g)', s # o, ~groups'[g].moved
         PROVE  OppositeSigns(s, o)' /\ groups'[g].cost = ResidualBase(s, o)'
    <3>1. groups'[g] = Made(plan[i], moved) BY <2>1, LinkedGroups
    <3>2. groups'[g].cost = plan[i].cost BY <2>4
    <3>3. moved \cap {a, b} = {} BY <3>1, <2>12, MadeUnmoved DEF a, b
    <3>4. (s = a /\ o = b) \/ (s = b /\ o = a) BY <2>5, <2>12
    <3>5. CASE s = a /\ o = b BY <3>2, <3>3, <3>5, <2>9
    <3>6. CASE s = b /\ o = a BY <3>2, <3>3, <3>6, <2>9
    <3> QED BY <3>4, <3>5, <3>6
  <2> QED BY <2>10, <2>11, <2>12
<1>4. CASE groups'[g] = groups[g]
  <2>1. g \in Existing BY <1>1, <1>4 DEF Existing
  <2>2. Legs(g)' \subseteq Legs(g)
    <3> SUFFICES ASSUME NEW t \in Legs(g)' PROVE t \in Legs(g) OBVIOUS
    <3>1. t \in Txns /\ txns'[t].group = g /\ txns'[t].state = "live" BY DEF Legs, Live
    <3>2. txns[t].group = g BY <3>1, <2>1, <1>2, UsedAreGroups DEF Regroups
    <3> QED BY <3>1, <3>2, <1>2 DEF Regroups, Legs, Live
  <2>3. ASSUME NEW s \in Legs(g)', NEW o \in Legs(g)'
        PROVE  /\ OppositeSigns(s, o) => OppositeSigns(s, o)'
               /\ ResidualBase(s, o)' = ResidualBase(s, o)
    <3>1. s \in Txns /\ o \in Txns BY DEF Legs, Live
    <3> QED BY <3>1, <1>2 DEF Regroups, OppositeSigns, ResidualBase
  <2> QED BY <1>4, <2>1, <2>2, <2>3 DEF IInv, GroupsAreTransfers
<1> QED BY <1>1, <1>3, <1>4, LinkedGroups

LEMMA LinkWriteInv ==
  ASSUME IInv, NEW c \in Clients, LinkWrite(c)
  PROVE  IInv'
<1> DEFINE plan == clients[c].plan
           moved == clients[c].moved
<1>1. clients' = [clients EXCEPT ![c] = Idle] BY DEF LinkWrite
<1>2. CASE ~ (PlanLegs(plan) \subseteq Live)
  BY <1>1, <1>2, GivesUp DEF LinkWrite
<1>3. CASE PlanLegs(plan) \subseteq Live
  <2>1. plan \in Seq(Pairs) BY DEF IInv, TypeOK, Request
  <2>2. \A i \in DOMAIN plan : Holds(plan[i], moved)
    BY DEF IInv, RequestsRemember, Remembers
  <2>3. PICK k \in 0..MaxGroups : Links(plan, moved, k) BY <1>3, LinkWrites
  <2> HIDE DEF plan, moved
  <2>4. Regroups BY <2>1, <2>3, LinkedRegroups
  <2>5. RequestsRemember' /\ clients' \in [Clients -> Request]
    BY <1>1, <2>4, RegroupedRemember
  <2>6. TypeOK' /\ InOrder' BY <1>3, <2>1, <2>3, <2>5, LinkedType
  <2>7. GroupsAreTransfers' BY <1>3, <2>1, <2>2, <2>3, LinkedAreTransfers
  <2> QED BY <2>5, <2>6, <2>7 DEF IInv
<1> QED BY <1>2, <1>3

\* An unlink that writes: the group is gone, and what it held or had read is free.
LEMMA UnlinkWriteInv ==
  ASSUME IInv, NEW c \in Clients, UnlinkWrite(c)
  PROVE  IInv'
<1> DEFINE g == clients[c].group
           legs == clients[c].legs
<1>1. clients' = [clients EXCEPT ![c] = Idle] BY DEF UnlinkWrite
<1>2. CASE ~ (legs \subseteq Live) BY <1>1, <1>2, GivesUp DEF UnlinkWrite
<1>3. CASE legs \subseteq Live
  <2>1. g \in Used BY DEF UnlinkWrite, IInv, RequestsRemember, Remembers
  <2>2. g \in Groups /\ groups[g].state # "unused" BY <2>1 DEF Used
  <2>3. /\ txns' = [t \in Txns |-> IF t \in legs \/ txns[t].group = g
                                   THEN [txns[t] EXCEPT !.group = None] ELSE txns[t]]
        /\ groups' = [groups EXCEPT ![g] = Gone]
    BY <1>3 DEF UnlinkWrite
  <2> HIDE DEF g, legs
  <2>4. ASSUME NEW t \in Txns
        PROVE  /\ txns'[t] \in Txn
               /\ txns'[t].state = txns[t].state
               /\ txns'[t].amount = txns[t].amount
               /\ txns'[t].base = txns[t].base
               /\ txns'[t].group = None \/ (txns'[t].group = txns[t].group /\ txns[t].group # g)
    <3>1. txns[t] \in Txn BY DEF IInv, TypeOK
    <3>2. CASE t \in legs \/ txns[t].group = g
      <4>1. txns'[t] = [txns[t] EXCEPT !.group = None] BY <3>2, <2>3
      <4> QED BY <3>1, <4>1 DEF Txn
    <3>3. CASE ~ (t \in legs \/ txns[t].group = g)
      <4>1. txns'[t] = txns[t] BY <3>3, <2>3
      <4> QED BY <3>1, <3>3, <4>1
    <3> QED BY <3>2, <3>3
  <2>5. /\ groups'[g] \in Group /\ groups'[g].state = "deleted"
        /\ \A h \in Groups : h # g => groups'[h] = groups[h]
        /\ groups' \in [Groups -> Group]
    <3>1. groups \in [Groups -> Group] BY DEF IInv, TypeOK
    <3>2. Gone \in Group /\ Gone.state = "deleted" BY DEF Gone, Group
    <3> QED BY <2>2, <2>3, <3>1, <3>2
  <2>6. Used' = Used
    <3>1. \A h \in Groups : groups'[h].state # "unused" <=> groups[h].state # "unused"
      BY <2>2, <2>5
    <3> QED BY <3>1 DEF Used
  <2>7. Regroups
    <3>1. None \notin Used BY NoneIsNoRow, UsedAreGroups
    <3> QED BY <2>4, <2>6, <3>1 DEF Regroups
  <2>8. RequestsRemember' /\ clients' \in [Clients -> Request]
    BY <1>1, <2>7, RegroupedRemember
  <2>9. TypeOK'
    <3>1. txns' \in [Txns -> Txn]
      <4>1. txns' = [t \in Txns |-> txns'[t]] BY <2>3
      <4> QED BY <2>4, <4>1
    <3>2. \A t \in Txns : <<txns'[t].amount, txns'[t].base>> \in Worth[t]
      BY <2>4 DEF IInv, TypeOK
    <3>3. ASSUME NEW t \in Txns, txns'[t].group # None
          PROVE  t \in Live' /\ txns'[t].group \in Existing'
      <4>1. txns'[t].group = txns[t].group /\ txns[t].group # g BY <2>4, <3>3
      <4>2. t \in Live /\ txns[t].group \in Existing BY <4>1, <3>3 DEF IInv, TypeOK
      <4> QED BY <2>4, <2>5, <4>1, <4>2 DEF Existing, Live
    <3> QED BY <2>5, <2>8, <3>1, <3>2, <3>3 DEF TypeOK
  <2>10. InOrder' BY <2>6 DEF IInv, InOrder
  <2>11. GroupsAreTransfers'
    <3> SUFFICES ASSUME NEW h \in Existing'
                 PROVE  /\ Legs(h)' \subseteq groups'[h].legs
                        /\ \A s, o \in groups'[h].legs : s # o => AccountOf[s] # AccountOf[o]
                        /\ \A s, o \in Legs(h)' : s # o /\ ~groups'[h].moved
                             => OppositeSigns(s, o)' /\ groups'[h].cost = ResidualBase(s, o)'
      BY DEF GroupsAreTransfers
    <3>1. h \in Groups /\ h # g /\ groups'[h] = groups[h] BY <2>5 DEF Existing
    <3>2. h \in Existing BY <3>1 DEF Existing
    <3>3. Legs(h)' \subseteq Legs(h)
      <4> SUFFICES ASSUME NEW t \in Legs(h)' PROVE t \in Legs(h) OBVIOUS
      <4>1. t \in Txns /\ txns'[t].group = h /\ txns'[t].state = "live" BY DEF Legs, Live
      <4> QED BY <2>4, <3>1, <4>1, NoneIsNoRow DEF Legs, Live
    <3>4. ASSUME NEW s \in Legs(h)', NEW o \in Legs(h)'
          PROVE  /\ OppositeSigns(s, o) => OppositeSigns(s, o)'
                 /\ ResidualBase(s, o)' = ResidualBase(s, o)
      <4>1. s \in Txns /\ o \in Txns BY DEF Legs, Live
      <4> QED BY <4>1, <2>7 DEF Regroups, OppositeSigns, ResidualBase
    <3> QED BY <3>1, <3>2, <3>3, <3>4 DEF IInv, GroupsAreTransfers
  <2> QED BY <2>8, <2>9, <2>10, <2>11 DEF IInv
<1> QED BY <1>2, <1>3

LEMMA ArriveInv ==
  ASSUME IInv, NEW t \in Txns, Arrive(t)
  PROVE  IInv'
<1>1. /\ txns[t].state = "unborn" /\ txns' = [txns EXCEPT ![t].state = "live"]
      /\ groups' = groups /\ clients' = clients
  BY DEF Arrive
<1>2. txns[t] \in Txn /\ txns[t].group = None /\ t \notin Live
  BY <1>1 DEF IInv, TypeOK, Live
<1>3. ASSUME NEW s \in Txns
      PROVE  /\ txns'[s] \in Txn
             /\ txns'[s].amount = txns[s].amount /\ txns'[s].base = txns[s].base
             /\ txns'[s].group = txns[s].group
             /\ s = t \/ txns'[s].state = txns[s].state
             /\ txns'[t].state = "live"
  BY <1>1, <1>2 DEF IInv, TypeOK, Txn
<1>4. TypeOK'
  <2>1. txns' \in [Txns -> Txn] BY <1>1, <1>2 DEF IInv, TypeOK, Txn
  <2> QED BY <1>1, <1>3, <2>1 DEF IInv, TypeOK, Live, Existing
<1>5. InOrder' BY <1>1 DEF IInv, InOrder, Used
<1>6. RequestsRemember'
  <2> SUFFICES ASSUME NEW c \in Clients PROVE Remembers(clients[c])'
    BY DEF RequestsRemember
  <2>1. PICK r : r = clients[c] OBVIOUS
  <2>2. r \in Request /\ Remembers(r) BY <2>1 DEF IInv, TypeOK, RequestsRemember
  <2>3. r.plan \in Seq(Pairs) /\ r.legs \subseteq Txns BY <2>2 DEF Request
  <2>4. PlanLegs(r.plan) \subseteq Txns BY <2>3, LegsAreRows
  <2>5. Used' = Used BY <1>1 DEF Used
  <2>6. Unseen(r)' BY <1>3, <2>2, <2>3, <2>4, <2>5 DEF Remembers, Unseen
  <2>7. ASSUME NEW i \in DOMAIN r.plan PROVE Holds(r.plan[i], r.moved)'
    <3>1. r.plan[i].from \in Txns /\ r.plan[i].to \in Txns
      <4>1. r.plan[i] \in Pairs BY <2>3
      <4> QED BY <4>1 DEF Pairs
    <3>2. Holds(r.plan[i], r.moved) BY <2>2 DEF Remembers
    <3> QED BY <1>1, <1>3, <3>1, <3>2 DEF Holds, OppositeSigns, ResidualBase
  <2>8. Remembers(r)' BY <2>2, <2>5, <2>6, <2>7 DEF Remembers
  <2> QED BY <1>1, <2>1, <2>8 DEF Remembers, Unseen, Holds
<1>7. GroupsAreTransfers'
  <2>1. Existing' = Existing BY <1>1 DEF Existing
  <2>2. ASSUME NEW g \in Existing PROVE Legs(g)' = Legs(g)
    <3>1. g \in Groups BY DEF Existing
    <3>2. \A s \in Txns : (txns'[s].state = "live" /\ txns'[s].group = g)
                            <=> (txns[s].state = "live" /\ txns[s].group = g)
      BY <1>2, <1>3, <3>1, NoneIsNoRow
    <3> QED BY <3>2 DEF Legs, Live
  <2>3. \A s, o \in Txns : /\ OppositeSigns(s, o) => OppositeSigns(s, o)'
                           /\ ResidualBase(s, o)' = ResidualBase(s, o)
    BY <1>3 DEF OppositeSigns, ResidualBase
  <2>4. \A g \in Existing : Legs(g) \subseteq Txns BY DEF Legs, Live
  <2> QED BY <1>1, <2>1, <2>2, <2>3, <2>4 DEF IInv, GroupsAreTransfers
<1> QED BY <1>4, <1>5, <1>6, <1>7 DEF IInv

LEMMA DeleteInv ==
  ASSUME IInv, NEW t \in Txns, Delete(t)
  PROVE  IInv'
<1>1. /\ txns' = [txns EXCEPT ![t] = Fresh(t, "deleted")]
      /\ groups' = groups /\ clients' = clients
  BY DEF Delete
<1>2. /\ Fresh(t, "deleted") \in Txn
      /\ Fresh(t, "deleted").state = "deleted" /\ Fresh(t, "deleted").group = None
      /\ <<Fresh(t, "deleted").amount, Fresh(t, "deleted").base>> \in Worth[t]
  <2> DEFINE w == CHOOSE w \in Worth[t] : TRUE
  <2>1. w \in Worth[t] /\ w \in Int \X (Int \cup {None}) BY WorthAssumption
  <2> HIDE DEF w
  <2>2. w[1] \in Int /\ w[2] \in Int \cup {None} /\ w = <<w[1], w[2]>> BY <2>1
  <2>3. Fresh(t, "deleted") = [state |-> "deleted", amount |-> w[1], base |-> w[2], group |-> None]
    BY DEF Fresh, w
  <2> QED BY <2>1, <2>2, <2>3 DEF Txn
<1>3. /\ txns'[t].state = "deleted" /\ txns'[t].group = None
      /\ \A s \in Txns : s # t => txns'[s] = txns[s]
  BY <1>1, <1>2 DEF IInv, TypeOK
<1>4. TypeOK'
  <2>1. txns' \in [Txns -> Txn] BY <1>1, <1>2 DEF IInv, TypeOK
  <2>2. \A s \in Txns : <<txns'[s].amount, txns'[s].base>> \in Worth[s]
    BY <1>1, <1>2 DEF IInv, TypeOK
  <2>3. ASSUME NEW s \in Txns, txns'[s].group # None
        PROVE  s \in Live' /\ txns'[s].group \in Existing'
    <3>1. s # t /\ txns'[s] = txns[s] BY <1>3, <2>3
    <3> QED BY <1>1, <3>1, <2>3 DEF IInv, TypeOK, Live, Existing
  <2> QED BY <1>1, <2>1, <2>2, <2>3 DEF IInv, TypeOK
<1>5. InOrder' BY <1>1 DEF IInv, InOrder, Used
<1>6. RequestsRemember'
  <2> SUFFICES ASSUME NEW c \in Clients PROVE Remembers(clients[c])'
    BY DEF RequestsRemember
  <2>1. PICK r : r = clients[c] OBVIOUS
  <2>2. r \in Request /\ Remembers(r) BY <2>1 DEF IInv, TypeOK, RequestsRemember
  <2>3. r.plan \in Seq(Pairs) /\ r.legs \subseteq Txns /\ r.saw \subseteq Groups
    BY <2>2 DEF Request
  <2>4. PlanLegs(r.plan) \subseteq Txns BY <2>3, LegsAreRows
  <2>5. Used' = Used BY <1>1 DEF Used
  <2>6. Unseen(r)'
    <3>1. None \notin r.saw BY <2>3, NoneIsNoRow
    <3>2. \A s \in Txns : txns'[s].group = txns[s].group \/ txns'[s].group = None
      BY <1>3
    <3> QED BY <3>1, <3>2, <2>2, <2>3, <2>4, <2>5 DEF Remembers, Unseen
  <2>7. ASSUME NEW i \in DOMAIN r.plan PROVE Holds(r.plan[i], r.moved)'
    <3>1. r.plan[i].from \in Txns /\ r.plan[i].to \in Txns
      <4>1. r.plan[i] \in Pairs BY <2>3
      <4> QED BY <4>1 DEF Pairs
    <3>2. Holds(r.plan[i], r.moved) BY <2>2 DEF Remembers
    <3>3. CASE t \in {r.plan[i].from, r.plan[i].to} BY <1>3, <3>2, <3>3 DEF Holds
    <3>4. CASE t \notin {r.plan[i].from, r.plan[i].to}
      BY <1>3, <3>1, <3>2, <3>4 DEF Holds, OppositeSigns, ResidualBase
    <3> QED BY <3>3, <3>4
  <2>8. Remembers(r)' BY <2>2, <2>5, <2>6, <2>7 DEF Remembers
  <2> QED BY <1>1, <2>1, <2>8 DEF Remembers, Unseen, Holds
<1>7. GroupsAreTransfers'
  <2>1. Existing' = Existing BY <1>1 DEF Existing
  <2>2. ASSUME NEW g \in Existing PROVE Legs(g)' = Legs(g) \ {t}
    <3>1. \A s \in Txns : (txns'[s].state = "live" /\ txns'[s].group = g)
                            <=> (s # t /\ txns[s].state = "live" /\ txns[s].group = g)
      BY <1>3
    <3> QED BY <3>1 DEF Legs, Live
  <2>3. \A s, o \in Txns \ {t} : /\ OppositeSigns(s, o) => OppositeSigns(s, o)'
                                 /\ ResidualBase(s, o)' = ResidualBase(s, o)
    BY <1>3 DEF OppositeSigns, ResidualBase
  <2>4. \A g \in Existing : Legs(g) \subseteq Txns BY DEF Legs, Live
  <2> QED BY <1>1, <2>1, <2>2, <2>3, <2>4 DEF IInv, GroupsAreTransfers
<1> QED BY <1>4, <1>5, <1>6, <1>7 DEF IInv

LEMMA RepriceInv ==
  ASSUME IInv, NEW t \in Txns, NEW w \in Worth[t], Reprice(t, w)
  PROVE  IInv'
<1>1. /\ txns' = [txns EXCEPT ![t] = [txns[t] EXCEPT !.amount = w[1], !.base = w[2]]]
      /\ t \in Live
  BY DEF Reprice
<1>2. w[1] \in Int /\ w[2] \in Int \cup {None} /\ w = <<w[1], w[2]>> BY WorthAssumption
<1>3. txns[t] \in Txn BY DEF IInv, TypeOK
<1>4. /\ txns'[t] \in Txn /\ <<txns'[t].amount, txns'[t].base>> = w
      /\ txns'[t].state = txns[t].state /\ txns'[t].group = txns[t].group
      /\ \A s \in Txns : s # t => txns'[s] = txns[s]
      /\ txns' \in [Txns -> Txn]
  BY <1>1, <1>2, <1>3 DEF IInv, TypeOK, Txn
<1>5. ASSUME NEW g \in Groups
      PROVE  /\ groups'[g] \in Group
             /\ groups'[g].state = groups[g].state /\ groups'[g].legs = groups[g].legs
             /\ groups'[g].cost = groups[g].cost
             /\ t \in groups[g].legs => groups'[g].moved
             /\ t \notin groups[g].legs => groups'[g] = groups[g]
  <2>1. groups[g] \in Group BY DEF IInv, TypeOK
  <2>2. CASE t \in groups[g].legs
    <3>1. groups'[g] = [groups[g] EXCEPT !.moved = TRUE] BY <2>2 DEF Reprice
    <3> QED BY <2>1, <2>2, <3>1 DEF Group
  <2>3. CASE t \notin groups[g].legs
    <3>1. groups'[g] = groups[g] BY <2>3 DEF Reprice
    <3> QED BY <2>1, <2>3, <3>1
  <2> QED BY <2>2, <2>3
<1>6. ASSUME NEW c \in Clients
      PROVE  /\ clients'[c] \in Request
             /\ clients'[c].op = clients[c].op /\ clients'[c].plan = clients[c].plan
             /\ clients'[c].group = clients[c].group /\ clients'[c].legs = clients[c].legs
             /\ clients'[c].saw = clients[c].saw
             /\ clients[c].moved \subseteq clients'[c].moved
             /\ t \in PlanLegs(clients[c].plan) => t \in clients'[c].moved
  <2>1. clients[c] \in Request BY DEF IInv, TypeOK
  <2>2. CASE t \in PlanLegs(clients[c].plan)
    <3>1. clients'[c] = [clients[c] EXCEPT !.moved = @ \cup {t}] BY <2>2 DEF Reprice
    <3> QED BY <2>1, <2>2, <3>1 DEF Request
  <2>3. CASE t \notin PlanLegs(clients[c].plan)
    <3>1. clients'[c] = clients[c] BY <2>3 DEF Reprice
    <3> QED BY <2>1, <2>3, <3>1
  <2> QED BY <2>2, <2>3
<1>7. TypeOK'
  <2>1. groups' \in [Groups -> Group]
    <3>1. groups' = [g \in Groups |-> groups'[g]] BY DEF Reprice
    <3> QED BY <1>5, <3>1
  <2>2. clients' \in [Clients -> Request]
    <3>1. clients' = [c \in Clients |-> clients'[c]] BY DEF Reprice
    <3> QED BY <1>6, <3>1
  <2>3. \A s \in Txns : <<txns'[s].amount, txns'[s].base>> \in Worth[s]
    BY <1>4 DEF IInv, TypeOK
  <2>4. ASSUME NEW s \in Txns, txns'[s].group # None
        PROVE  s \in Live' /\ txns'[s].group \in Existing'
    <3>1. txns'[s].group = txns[s].group /\ txns'[s].state = txns[s].state BY <1>4
    <3>2. s \in Live /\ txns[s].group \in Existing BY <3>1, <2>4 DEF IInv, TypeOK
    <3> QED BY <3>1, <3>2, <1>5 DEF Live, Existing
  <2> QED BY <1>4, <2>1, <2>2, <2>3, <2>4 DEF TypeOK
<1>8. Used' = Used BY <1>5 DEF Used
<1>9. InOrder' BY <1>8 DEF IInv, InOrder
<1>10. RequestsRemember'
  <2> SUFFICES ASSUME NEW c \in Clients PROVE Remembers(clients[c])'
    BY DEF RequestsRemember
  <2>1. PICK r : r = clients'[c] OBVIOUS
  <2>2. clients[c] \in Request /\ Remembers(clients[c])
    BY DEF IInv, TypeOK, RequestsRemember
  <2>3. r.plan \in Seq(Pairs) /\ r.legs \subseteq Txns BY <2>1, <1>6 DEF Request
  <2>4. PlanLegs(r.plan) \subseteq Txns BY <2>3, LegsAreRows
  <2>5. \A s \in Txns : txns'[s].group = txns[s].group BY <1>4
  <2>6. Unseen(r)'
    BY <2>1, <2>2, <2>3, <2>4, <2>5, <1>6, <1>8 DEF Remembers, Unseen
  <2>7. ASSUME NEW i \in DOMAIN r.plan PROVE Holds(r.plan[i], r.moved)'
    <3>1. r.plan[i].from \in Txns /\ r.plan[i].to \in Txns
      <4>1. r.plan[i] \in Pairs BY <2>3
      <4> QED BY <4>1 DEF Pairs
    <3>2. Holds(r.plan[i], clients[c].moved) BY <2>1, <2>2, <1>6 DEF Remembers
    <3>3. CASE t \in {r.plan[i].from, r.plan[i].to}
      <4>1. t \in PlanLegs(r.plan) BY <3>3 DEF PlanLegs
      <4>2. t \in r.moved BY <4>1, <2>1, <1>6
      <4> QED BY <3>2, <3>3, <4>2 DEF Holds
    <3>4. CASE t \notin {r.plan[i].from, r.plan[i].to}
      <4>1. {r.plan[i].from, r.plan[i].to} \cap r.moved = {}
              => {r.plan[i].from, r.plan[i].to} \cap clients[c].moved = {}
        BY <2>1, <1>6
      <4> QED BY <1>4, <3>1, <3>2, <3>4, <4>1 DEF Holds, OppositeSigns, ResidualBase
    <3> QED BY <3>3, <3>4
  <2>8. Remembers(r)' BY <2>1, <2>2, <2>6, <2>7, <1>6, <1>8 DEF Remembers
  <2> QED BY <2>1, <2>8 DEF Remembers, Unseen, Holds
<1>11. GroupsAreTransfers'
  <2> SUFFICES ASSUME NEW g \in Existing'
               PROVE  /\ Legs(g)' \subseteq groups'[g].legs
                      /\ \A s, o \in groups'[g].legs : s # o => AccountOf[s] # AccountOf[o]
                      /\ \A s, o \in Legs(g)' : s # o /\ ~groups'[g].moved
                           => OppositeSigns(s, o)' /\ groups'[g].cost = ResidualBase(s, o)'
    BY DEF GroupsAreTransfers
  <2>1. g \in Groups /\ g \in Existing BY <1>5 DEF Existing
  <2>2. Legs(g)' = Legs(g)
    <3>1. \A s \in Txns : txns'[s].state = txns[s].state /\ txns'[s].group = txns[s].group
      BY <1>4
    <3> QED BY <3>1 DEF Legs, Live
  <2>3. Legs(g) \subseteq groups[g].legs /\ Legs(g) \subseteq Txns
    BY <2>1 DEF IInv, GroupsAreTransfers, Legs, Live
  <2>4. ASSUME NEW s \in Legs(g), NEW o \in Legs(g), s # o, ~groups'[g].moved
        PROVE  OppositeSigns(s, o)' /\ groups'[g].cost = ResidualBase(s, o)'
    <3>1. t \notin groups[g].legs /\ groups'[g] = groups[g] BY <1>5, <2>1, <2>4
    <3>2. s # t /\ o # t /\ s \in Txns /\ o \in Txns BY <2>3, <3>1
    <3>3. OppositeSigns(s, o) /\ groups[g].cost = ResidualBase(s, o)
      BY <2>1, <2>4, <3>1 DEF IInv, GroupsAreTransfers
    <3>4. txns'[s] = txns[s] /\ txns'[o] = txns[o] BY <1>4, <3>2
    <3> QED BY <3>1, <3>3, <3>4 DEF OppositeSigns, ResidualBase
  <2> QED BY <2>1, <2>2, <2>3, <2>4, <1>5 DEF IInv, GroupsAreTransfers
<1> QED BY <1>7, <1>9, <1>10, <1>11 DEF IInv

-----------------------------------------------------------------------------
(* The theorems                                                            *)

LEMMA InitInv == Init => IInv
<1> SUFFICES ASSUME Init PROVE IInv OBVIOUS
<1>1. \A t \in Txns, state \in {"unborn", "live"} :
        /\ Fresh(t, state) \in Txn /\ Fresh(t, state).group = None
        /\ <<Fresh(t, state).amount, Fresh(t, state).base>> \in Worth[t]
  <2> SUFFICES ASSUME NEW t \in Txns, NEW state \in {"unborn", "live"}
               PROVE  /\ Fresh(t, state) \in Txn /\ Fresh(t, state).group = None
                      /\ <<Fresh(t, state).amount, Fresh(t, state).base>> \in Worth[t]
    OBVIOUS
  <2> DEFINE w == CHOOSE w \in Worth[t] : TRUE
  <2>1. w \in Worth[t] /\ w \in Int \X (Int \cup {None}) BY WorthAssumption
  <2> HIDE DEF w
  <2>2. w[1] \in Int /\ w[2] \in Int \cup {None} /\ w = <<w[1], w[2]>> BY <2>1
  <2>3. Fresh(t, state) = [state |-> state, amount |-> w[1], base |-> w[2], group |-> None]
    BY DEF Fresh, w
  <2> QED BY <2>1, <2>2, <2>3 DEF Txn
<1>2. \A t \in Txns : /\ txns[t] \in Txn /\ txns[t].group = None
                      /\ <<txns[t].amount, txns[t].base>> \in Worth[t]
  <2> SUFFICES ASSUME NEW t \in Txns
               PROVE  /\ txns[t] \in Txn /\ txns[t].group = None
                      /\ <<txns[t].amount, txns[t].base>> \in Worth[t]
    OBVIOUS
  <2> DEFINE state == IF t \in Late THEN "unborn" ELSE "live"
  <2>1. state \in {"unborn", "live"} OBVIOUS
  <2>2. txns[t] = Fresh(t, state) BY DEF Init
  <2> HIDE DEF state
  <2> QED BY <2>1, <2>2, <1>1
<1>3. Unused \in Group /\ Unused.state = "unused" BY DEF Unused, Group
<1>4. Used = {} /\ Existing = {} BY <1>3 DEF Init, Used, Existing
<1>5. Idle \in Request /\ Remembers(Idle)
  <2>1. <<>> \in Seq(Pairs) /\ DOMAIN <<>> = {} OBVIOUS
  <2>2. Idle \in Request BY <2>1 DEF Idle, Request
  <2>3. Unseen(Idle) BY LegsOfNothing DEF Idle, Unseen
  <2> QED BY <2>1, <2>2, <2>3 DEF Idle, Remembers
<1>6. TypeOK
  <2>1. txns \in [Txns -> Txn] BY <1>2 DEF Init
  <2> QED BY <1>2, <1>3, <1>5, <2>1 DEF Init, TypeOK
<1>7. InOrder
  <2>1. 0 \in 0..MaxGroups /\ 1..0 = {} BY NullAssumption
  <2> QED BY <1>4, <2>1 DEF InOrder
<1>8. RequestsRemember BY <1>5 DEF Init, RequestsRemember
<1>9. GroupsAreTransfers BY <1>4 DEF GroupsAreTransfers
<1> QED BY <1>6, <1>7, <1>8, <1>9 DEF IInv

LEMMA StutterInv == ASSUME IInv, UNCHANGED vars PROVE IInv'
<1>1. txns' = txns /\ groups' = groups /\ clients' = clients BY DEF vars
<1>2. TypeOK' BY <1>1 DEF IInv, TypeOK, Live, Existing
<1>3. InOrder' BY <1>1 DEF IInv, InOrder, Used
<1>4. GroupsAreTransfers'
  BY <1>1 DEF IInv, GroupsAreTransfers, Existing, Legs, Live, OppositeSigns, ResidualBase
<1>5. RequestsRemember'
  <2> SUFFICES ASSUME NEW c \in Clients PROVE Remembers(clients[c])'
    BY DEF RequestsRemember
  <2>1. PICK r : r = clients[c] OBVIOUS
  <2>2. Remembers(r) BY <2>1 DEF IInv, RequestsRemember
  <2>3. Remembers(r)' BY <1>1, <2>2, RemembersStill
  <2> QED BY <1>1, <2>1, <2>3 DEF Remembers, Unseen, Holds
<1> QED BY <1>2, <1>3, <1>4, <1>5 DEF IInv

\* Groups are numbered in order, a request remembers what still holds of what it read, and
\* what it has not seen is all that can have come over its rows since (link_transfer and
\* unlink_transfer lock nothing between their read and their write).
THEOREM Inductive == Spec => []IInv
<1>1. IInv /\ [Next]_vars => IInv'
  <2> SUFFICES ASSUME IInv, [Next]_vars PROVE IInv' OBVIOUS
  <2>1. ASSUME NEW c \in Clients, NEW a \in Txns, NEW b \in Txns, LinkRead(c, a, b)
        PROVE  IInv'
    BY <2>1, LinkReadInv
  <2>2. ASSUME NEW c \in Clients, MatchRead(c) PROVE IInv' BY <2>2, MatchReadInv
  <2>3. ASSUME NEW c \in Clients, NEW g \in Groups, UnlinkRead(c, g) PROVE IInv'
    BY <2>3, UnlinkReadInv
  <2>4. ASSUME NEW c \in Clients, LinkWrite(c) PROVE IInv' BY <2>4, LinkWriteInv
  <2>5. ASSUME NEW c \in Clients, UnlinkWrite(c) PROVE IInv' BY <2>5, UnlinkWriteInv
  <2>6. ASSUME NEW t \in Txns, Arrive(t) PROVE IInv' BY <2>6, ArriveInv
  <2>7. ASSUME NEW t \in Txns, Delete(t) PROVE IInv' BY <2>7, DeleteInv
  <2>8. ASSUME NEW t \in Txns, NEW w \in Worth[t], Reprice(t, w) PROVE IInv'
    BY <2>8, RepriceInv
  <2>9. CASE UNCHANGED vars BY <2>9, StutterInv
  <2> QED BY <2>1, <2>2, <2>3, <2>4, <2>5, <2>6, <2>7, <2>8, <2>9 DEF Next
<1> QED BY <1>1, InitInv, PTL DEF Spec

\* Whatever requests interleave, a group holds only legs of the pair it was made of, on two
\* accounts and, unless one was repriced, on opposite sides at the cost it stores.
THEOREM PairsAreSoundForAll == Spec => []PairsAreSound
<1>1. IInv => PairsAreSound BY DEF IInv, PairsAreSound
<1> QED BY <1>1, Inductive, PTL

\* However a pass is cut into chunks, it links what asking the picker row by row would
\* (auto_match_transfers: "the conditions are list_transfer_candidates' exactly").
THEOREM PassAgreesForAll == Spec => []PassAgreesWithPicker
<1>1. IInv => PassAgreesWithPicker BY PassIsPicker DEF IInv, PassAgreesWithPicker
<1> QED BY <1>1, Inductive, PTL

LEMMA LinkKeepsWhole ==
  ASSUME IInv, NEW c \in Clients, LinkWrite(c), NEW g \in Existing, NEW t \in Legs(g)
  PROVE  txns'[t].group = g \/ (g \notin clients[c].saw /\ clients[c].op # "idle"
                                /\ clients'[c].op = "idle")
<1> DEFINE plan == clients[c].plan
<1>1. t \in Txns /\ txns[t].group = g BY DEF Legs, Live
<1>2. clients[c].op # "idle" BY DEF LinkWrite
<1>3. clients'[c].op = "idle" BY DEF LinkWrite, Idle, IInv, TypeOK
<1>4. CASE t \in PlanLegs(plan)
  <2>1. Unseen(clients[c]) BY DEF IInv, RequestsRemember, Remembers
  <2>2. g \notin clients[c].saw BY <1>1, <1>4, <2>1 DEF Unseen
  <2> QED BY <1>2, <1>3, <2>2
<1>5. CASE t \notin PlanLegs(plan)
  <2>1. txns'[t] = txns[t] BY <1>1, <1>5 DEF LinkWrite
  <2> QED BY <1>1, <2>1
<1> QED BY <1>4, <1>5

LEMMA UnlinkKeepsWhole ==
  ASSUME IInv, NEW c \in Clients, UnlinkWrite(c), NEW g \in Existing, NEW t \in Legs(g)
  PROVE  \/ txns'[t].group = g
         \/ groups'[g].state = "deleted"
         \/ g \notin clients[c].saw /\ clients[c].op # "idle" /\ clients'[c].op = "idle"
<1> DEFINE legs == clients[c].legs
<1>1. t \in Txns /\ txns[t].group = g /\ g \in Groups BY DEF Legs, Live, Existing
<1>2. clients[c].op # "idle" BY DEF UnlinkWrite
<1>3. clients'[c].op = "idle" BY DEF UnlinkWrite, Idle, IInv, TypeOK
<1>4. CASE ~ (legs \subseteq Live)
  <2>1. txns' = txns BY <1>4 DEF UnlinkWrite
  <2> QED BY <1>1, <2>1
<1>5. CASE legs \subseteq Live
  <2>1. CASE clients[c].group = g
    <3>1. groups'[g] = Gone BY <1>1, <1>5, <2>1 DEF UnlinkWrite, IInv, TypeOK
    <3> QED BY <3>1 DEF Gone
  <2>2. CASE clients[c].group # g /\ t \in legs
    <3>1. Unseen(clients[c]) BY DEF IInv, RequestsRemember, Remembers
    <3>2. g \notin clients[c].saw BY <1>1, <2>2, <3>1 DEF Unseen
    <3> QED BY <1>2, <1>3, <3>2
  <2>3. CASE clients[c].group # g /\ t \notin legs
    <3>1. txns'[t] = txns[t] BY <1>1, <1>5, <2>3 DEF UnlinkWrite
    <3> QED BY <1>1, <3>1
  <2> QED BY <2>1, <2>2, <2>3
<1> QED BY <1>4, <1>5

\* Nobody who could have seen a group parts its legs: they stay in it, or it goes whole, but
\* for a leg that is deleted and for a request that read the rows before it was made.
THEOREM GroupsAreKeptWholeForAll == Spec => GroupsAreKeptWhole
<1> DEFINE Kept(g, t) ==
      \/ txns'[t].group = g
      \/ txns'[t].state = "deleted"
      \/ groups'[g].state = "deleted"
      \/ \E c \in Clients : clients[c].op # "idle" /\ clients'[c].op = "idle"
                            /\ g \notin clients[c].saw
<1>1. IInv /\ [Next]_vars => \A g \in Existing : \A t \in Legs(g) : Kept(g, t)
  <2> SUFFICES ASSUME IInv, [Next]_vars, NEW g \in Existing, NEW t \in Legs(g)
               PROVE  Kept(g, t)
    OBVIOUS
  <2>1. t \in Txns /\ txns[t].group = g /\ txns[t] \in Txn
    BY DEF Legs, Live, IInv, TypeOK
  <2>2. CASE txns' = txns BY <2>1, <2>2
  <2>3. ASSUME NEW c \in Clients, LinkWrite(c) PROVE Kept(g, t)
    BY <2>3, LinkKeepsWhole
  <2>4. ASSUME NEW c \in Clients, UnlinkWrite(c) PROVE Kept(g, t)
    BY <2>4, UnlinkKeepsWhole
  <2>5. ASSUME NEW s \in Txns, Arrive(s) PROVE Kept(g, t)
    <3>1. txns'[t].group = txns[t].group BY <2>1, <2>5 DEF Arrive, IInv, TypeOK, Txn
    <3> QED BY <2>1, <3>1
  <2>6. ASSUME NEW s \in Txns, Delete(s) PROVE Kept(g, t)
    <3>1. CASE s = t
      <4>1. txns'[t] = Fresh(t, "deleted") BY <2>1, <2>6, <3>1 DEF Delete, IInv, TypeOK
      <4> QED BY <4>1 DEF Fresh
    <3>2. CASE s # t
      <4>1. txns'[t] = txns[t] BY <2>1, <2>6, <3>2 DEF Delete, IInv, TypeOK
      <4> QED BY <2>1, <4>1
    <3> QED BY <3>1, <3>2
  <2>7. ASSUME NEW s \in Txns, NEW w \in Worth[s], Reprice(s, w) PROVE Kept(g, t)
    <3>1. txns'[t].group = txns[t].group BY <2>1, <2>7 DEF Reprice, IInv, TypeOK, Txn
    <3> QED BY <2>1, <3>1
  <2>8. \/ txns' = txns
        \/ \E c \in Clients : LinkWrite(c) \/ UnlinkWrite(c)
        \/ \E s \in Txns : Arrive(s) \/ Delete(s) \/ \E w \in Worth[s] : Reprice(s, w)
    BY DEF Next, vars, LinkRead, MatchRead, UnlinkRead, Begin
  <2> HIDE DEF Kept
  <2> QED BY <2>2, <2>3, <2>4, <2>5, <2>6, <2>7, <2>8
<1> QED BY <1>1, Inductive, PTL DEF Spec, GroupsAreKeptWhole
=============================================================================
