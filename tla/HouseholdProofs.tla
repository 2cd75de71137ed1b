-------------------------- MODULE HouseholdProofs ---------------------------
(***************************************************************************)
(* A household's tables and its door, proved for any number of owners,     *)
(* categories, accounts, cards, connections and requests, and of people,   *)
(* sessions and tokens.                                                    *)
(*                                                                         *)
(* The tables' inductive invariant is BooksInv, in parts:                  *)
(*   Fine        one account: its headline is its newest balance, and a    *)
(*               key with a card's id in it is that card's                 *)
(*   BooksFine   the accounts together: a key is one account's, whatever   *)
(*               is of a lone card is on the row its name has, and what    *)
(*               agents named reads apart                                  *)
(*   Adding      one agent's request at a time has chosen a name, and no   *)
(*               account has it                                            *)
(* A sync is a recursion over a payload's cards, and Landing what holds of *)
(* the accounts after each of them.                                        *)
(*                                                                         *)
(* The door's is IInv, in parts:                                           *)
(*   Founded  the advisory lock lets one signup be under way, and what it  *)
(*            read when it began is still so when it ends                  *)
(*   Ended    a session that is over has no row, or has one that is past   *)
(*            its limits and that no request can touch again               *)
(*   Granted  what a call may do was settled by its token as issued, and   *)
(*            it began while the token stood                               *)
(***************************************************************************)
EXTENDS Accounts, Access, Recursion, SequenceTheorems

-----------------------------------------------------------------------------
(* An account                                                              *)

Histories == UNION {[on -> Int] : on \in SUBSET Days}

ByHandOnly(x) == x.key = None => x.ext = None /\ x.txns = {}
\* A key with a card's id in it is that card's.
OwnKey(x) ==
  x.key \in CardNames \X Ids =>
    /\ x.ext # None => x.ext[1] = x.key[2][1]
    /\ \A t \in x.txns : t[1] = x.key[2][1]

Fine == {x \in Account(Histories) :
  /\ (x.source # None) = (x.type = "investment")
  /\ HeadlineOf(x)
  /\ ByHandOnly(x)
  /\ OwnKey(x)
  /\ x.source = "derived" => x.key = None
  /\ x.byAgent => x.name # None}

FineTable(as) == DOMAIN as \subseteq AccountIds /\ as \in [DOMAIN as -> Fine]

LEMMA HistoryIs ==
  ASSUME NEW h
  PROVE  h \in Histories <=> DOMAIN h \subseteq Days /\ h \in [DOMAIN h -> Int]
BY DEF Histories

LEMMA DaysAre == Days \subseteq Int /\ None \notin Days /\ 0 \in Days
<1>1. MaxDay \in Nat BY LimitsAssumption
<1> QED BY <1>1, NoneAssumption DEF Days

\* A table with a row put in.
LEMMA PutIs ==
  ASSUME NEW f, NEW x, NEW v
  PROVE  /\ DOMAIN Put(f, x, v) = DOMAIN f \union {x}
         /\ Put(f, x, v)[x] = v
         /\ \A y \in DOMAIN f \ {x} : Put(f, x, v)[y] = f[y]
         /\ Put(f, x, v) = [y \in DOMAIN Put(f, x, v) |-> Put(f, x, v)[y]]
BY DEF Put

\* record_balance, for an account its writer has just read: it touches one day, moves the
\* headline only forward, and leaves everything else alone.
Rest == {"name", "type", "owner", "source", "conn", "ext", "key", "held", "txns", "byAgent"}
LEMMA RecordIs ==
  ASSUME NEW x \in Account(Histories), HeadlineOf(x), NEW b \in Int, NEW on \in Days
  PROVE  LET y == RecordBalance(x, x, b, on, TRUE) IN
         /\ y \in Account(Histories)
         /\ HeadlineOf(y)
         /\ \A f \in Rest : y[f] = x[f]
         /\ DOMAIN y.snaps = DOMAIN x.snaps \union {on}
         /\ \A d \in DOMAIN x.snaps \ {on} : y.snaps[d] = x.snaps[d]
<1> DEFINE y == RecordBalance(x, x, b, on, TRUE)
           h == Put(x.snaps, on, b)
           newer == x.asOf = None \/ on >= x.asOf
<1>1. /\ x.snaps \in Histories /\ x.balance \in Int /\ x.asOf \in Days \union {None}
  BY DEF Account
<1>2. /\ h \in Histories /\ DOMAIN h = DOMAIN x.snaps \union {on} /\ h[on] = b
      /\ \A d \in DOMAIN x.snaps \ {on} : h[d] = x.snaps[d]
  <2>1. DOMAIN x.snaps \subseteq Days /\ x.snaps \in [DOMAIN x.snaps -> Int] BY <1>1, HistoryIs
  <2>2. DOMAIN h \subseteq Days /\ h \in [DOMAIN h -> Int] BY <2>1 DEF Put
  <2>3. h \in Histories BY <2>2, HistoryIs
  <2>4. h[on] = b /\ DOMAIN h = DOMAIN x.snaps \union {on} BY DEF Put
  <2>5. \A d \in DOMAIN x.snaps \ {on} : h[d] = x.snaps[d] BY DEF Put
  <2> QED BY <2>3, <2>4, <2>5
<1>3. y = IF newer THEN [x EXCEPT !.balance = b, !.asOf = on, !.snaps = h]
          ELSE [x EXCEPT !.snaps = h]
  BY DEF RecordBalance, BecomesCurrent, Snapshotted, Account
<1> HIDE DEF y, h
<1>4. y.snaps = h BY <1>3 DEF Account
<1>5. y \in Account(Histories)
  <2>1. x.asOf \in Days \union {None} /\ on \in Days \union {None} BY <1>1
  <2>2. CASE newer BY <1>2, <1>3, <2>1, <2>2 DEF Account
  <2>3. CASE ~newer BY <1>2, <1>3, <2>3 DEF Account
  <2> QED BY <2>2, <2>3
<1>6. \A f \in Rest : y[f] = x[f] BY <1>3 DEF Account, Rest
<1>7. HeadlineOf(y)
  <2>1. SUFFICES ASSUME NEW d \in DOMAIN h
                 PROVE  y.asOf # None /\ d <= y.asOf /\ (d = y.asOf => h[d] = y.balance)
    BY <1>4 DEF HeadlineOf
  <2>2. \A e \in DOMAIN x.snaps : x.asOf # None /\ e <= x.asOf /\ (e = x.asOf => x.snaps[e] = x.balance)
    BY DEF HeadlineOf
  <2>3. d \in Int /\ on \in Int /\ on # None /\ DOMAIN x.snaps \subseteq Int
    BY <1>1, <1>2, DaysAre, HistoryIs
  <2>4. CASE newer
    <3>1. y.asOf = on /\ y.balance = b BY <1>3, <2>4 DEF Account
    <3>2. CASE d = on BY <1>2, <2>3, <3>1, <3>2
    <3>3. CASE d # on
      <4>1. d \in DOMAIN x.snaps BY <1>2, <3>3
      <4>2. x.asOf # None /\ d <= x.asOf BY <2>2, <4>1
      <4>3. x.asOf \in Int /\ on >= x.asOf BY <1>1, <2>4, <4>2, DaysAre
      <4> QED BY <2>3, <3>1, <3>3, <4>2, <4>3
    <3> QED BY <3>2, <3>3
  <2>5. CASE ~newer
    <3>1. y.asOf = x.asOf /\ y.balance = x.balance BY <1>3, <2>5 DEF Account
    <3>2. x.asOf \in Int /\ on < x.asOf
      <4>1. x.asOf # None /\ ~(on >= x.asOf) BY <2>5
      <4>2. x.asOf \in Int BY <1>1, <4>1, DaysAre
      <4> QED BY <2>3, <4>1, <4>2
    <3>3. CASE d = on BY <2>3, <2>5, <3>1, <3>2, <3>3
    <3>4. CASE d # on
      <4>1. d \in DOMAIN x.snaps /\ h[d] = x.snaps[d] BY <1>2, <3>4
      <4> QED BY <2>2, <3>1, <4>1
    <3> QED BY <3>3, <3>4
  <2> QED BY <2>4, <2>5
<1> QED BY <1>2, <1>4, <1>5, <1>6, <1>7 DEF y

SameBank(x, y) == y.ext = x.ext /\ y.key = x.key /\ y.txns = x.txns
\* What an agent named, and nobody renamed or retyped.
StillNamed(x, y) == y.byAgent => x.byAgent /\ y.name = x.name /\ y.type = x.type

LEMMA RecordFine ==
  ASSUME NEW x \in Fine, NEW b \in Int, NEW on \in Days
  PROVE  LET y == RecordBalance(x, x, b, on, TRUE) IN
         /\ y \in Fine /\ SameBank(x, y) /\ StillNamed(x, y) /\ y.owner = x.owner
         /\ DOMAIN y.snaps = DOMAIN x.snaps \union {on}
         /\ \A d \in DOMAIN x.snaps \ {on} : y.snaps[d] = x.snaps[d]
<1> DEFINE y == RecordBalance(x, x, b, on, TRUE)
<1>1. x \in Account(Histories) /\ HeadlineOf(x) BY DEF Fine
<1>2. /\ y \in Account(Histories) /\ HeadlineOf(y)
      /\ \A f \in Rest : y[f] = x[f]
      /\ DOMAIN y.snaps = DOMAIN x.snaps \union {on}
      /\ \A d \in DOMAIN x.snaps \ {on} : y.snaps[d] = x.snaps[d]
  BY <1>1, RecordIs
<1> HIDE DEF y
<1>3. /\ y.name = x.name /\ y.type = x.type /\ y.owner = x.owner /\ y.source = x.source
      /\ y.ext = x.ext /\ y.key = x.key /\ y.txns = x.txns /\ y.byAgent = x.byAgent
  BY <1>2 DEF Rest
<1>4. y \in Fine BY <1>2, <1>3 DEF Fine, ByHandOnly, OwnKey
<1> QED BY <1>2, <1>3, <1>4 DEF y, SameBank, StillNamed

LEMMA EditedFine ==
  ASSUME NEW x \in Fine, NEW p \in Patches
  PROVE  LET y == Edited(x, p) IN
         /\ y \in Fine /\ SameBank(x, y) /\ StillNamed(x, y)
         /\ y.owner = Sent(p.owner, x.owner)
         /\ y.snaps = x.snaps
<1> DEFINE y == Edited(x, p)
           named == [x EXCEPT !.name = Sent(p.name, x.name), !.owner = Sent(p.owner, x.owner),
                              !.byAgent = x.byAgent /\ p.name = None]
           source == IF p.type = "investment" THEN "stated" ELSE None
<1>1. /\ p.name \in Names \union {None} /\ p.type \in AccountTypes \union {None}
      /\ p.owner \in OwnerIds \union {None}
  BY PatchesAssumption
<1>2. x \in Account(Histories) BY DEF Fine
<1>3. y = IF p.type \in {None, x.type} THEN named
          ELSE [named EXCEPT !.type = p.type, !.source = source, !.byAgent = FALSE]
  BY <1>2 DEF Edited, Retyped, Account
<1>4. /\ Sent(p.name, x.name) \in Names \union {None} /\ Sent(p.owner, x.owner) \in OwnerIds
      /\ p.name = None => Sent(p.name, x.name) = x.name
  BY <1>1, <1>2 DEF Sent, Account
<1> HIDE DEF y
<1>5. /\ y.snaps = x.snaps /\ y.balance = x.balance /\ y.asOf = x.asOf
      /\ y.ext = x.ext /\ y.key = x.key /\ y.txns = x.txns
      /\ y.owner = Sent(p.owner, x.owner) /\ y.name = Sent(p.name, x.name)
  BY <1>2, <1>3 DEF Account
<1>6. /\ y.byAgent => x.byAgent /\ p.name = None /\ y.type = x.type
      /\ y.type \in AccountTypes
      /\ \/ y.source = x.source /\ y.type = x.type
         \/ y.source = source /\ y.type = p.type
      /\ y.byAgent \in BOOLEAN
  <2>1. CASE p.type \in {None, x.type} BY <1>2, <1>3, <2>1 DEF Account
  <2>2. CASE p.type \notin {None, x.type} BY <1>1, <1>2, <1>3, <2>2 DEF Account
  <2> QED BY <2>1, <2>2
<1>7. y \in Account(Histories)
  <2> DEFINE name == Sent(p.name, x.name)  owner == Sent(p.owner, x.owner)
             agent == x.byAgent /\ p.name = None
  <2>1. agent \in BOOLEAN BY <1>2 DEF Account
  <2>2. name \in Names \union {None} /\ owner \in OwnerIds /\ source \in {None, "derived", "stated"}
    BY <1>4
  <2>3. named = [x EXCEPT !.name = name, !.owner = owner, !.byAgent = agent] OBVIOUS
  <2> HIDE DEF named, name, owner, agent, source
  <2>4. named \in Account(Histories) BY <1>2, <2>1, <2>2, <2>3 DEF Account
  <2>5. CASE p.type \in {None, x.type} BY <1>3, <2>4, <2>5
  <2>6. CASE p.type \notin {None, x.type}
    <3>1. p.type \in AccountTypes BY <1>1, <2>6
    <3> QED BY <1>3, <2>2, <2>4, <2>6, <3>1 DEF Account
  <2> QED BY <2>5, <2>6
<1>8. HeadlineOf(y) BY <1>5 DEF Fine, HeadlineOf
<1>9. y \in Fine
  <2>1. /\ (x.source # None) = (x.type = "investment")
        /\ ByHandOnly(x) /\ OwnKey(x)
        /\ x.source = "derived" => x.key = None
        /\ x.byAgent => x.name # None
    BY DEF Fine
  <2>2. ByHandOnly(y) /\ OwnKey(y) BY <1>5, <2>1 DEF ByHandOnly, OwnKey
  <2>3. /\ (y.source # None) = (y.type = "investment")
        /\ y.source = "derived" => y.key = None
    BY <1>5, <1>6, <2>1, NoneAssumption
  <2>4. y.byAgent => y.name # None BY <1>4, <1>5, <1>6, <2>1
  <2> QED BY <1>7, <1>8, <2>2, <2>3, <2>4 DEF Fine
<1> QED BY <1>4, <1>5, <1>6, <1>9 DEF y, SameBank, StillNamed

\* An opening balance, or none.
Opens(opening) == opening # None => opening.balance \in Int /\ opening.on \in Days \union {None}

\* An account no bank and no agent knows.
Plain(y, name, type, owner) ==
  /\ y \in Fine /\ y.owner = owner /\ y.name = name /\ y.type = type
  /\ y.key = None /\ y.ext = None /\ y.txns = {} /\ y.byAgent = FALSE

LEMMA CreatedFine ==
  ASSUME NEW name \in Names, NEW type \in AccountTypes, NEW owner \in OwnerIds,
         NEW opening, Opens(opening), day \in Days
  PROVE  Plain(Created(name, type, owner, opening), name, type, owner)
<1> DEFINE source == IF type = "investment" THEN "derived" ELSE None
           a == NewAccount(name, type, owner, source, None, None, None)
           y == Created(name, type, owner, opening)
<1>1. a \in Fine /\ a.owner = owner /\ a.key = None /\ a.ext = None /\ a.txns = {}
      /\ a.byAgent = FALSE /\ a.name = name /\ a.type = type
  <2>1. a = [name |-> name, type |-> type, owner |-> owner,
             source |-> source, conn |-> None, ext |-> None, key |-> None, balance |-> 0,
             asOf |-> None, snaps |-> <<>>, held |-> FALSE, txns |-> {}, byAgent |-> FALSE]
    BY DEF NewAccount
  <2>2. <<>> \in Histories
    <3>1. <<>> \in Seq(Int) /\ Len(<<>>) = 0 OBVIOUS
    <3>2. <<>> \in [1..0 -> Int] BY <3>1
    <3>3. DOMAIN <<>> = {} /\ <<>> \in [DOMAIN <<>> -> Int] BY <3>2
    <3> QED BY <3>3, HistoryIs
  <2> HIDE DEF a
  <2>3. a \in Account(Histories) BY <2>1, <2>2 DEF Account
  <2>4. HeadlineOf(a) BY <2>1 DEF HeadlineOf
  <2>5. a.key \notin CardNames \X Ids BY <2>1, NoneAssumption DEF Keys
  <2>6. (a.source # None) = (a.type = "investment") BY <2>1, NoneAssumption
  <2> QED BY <2>1, <2>3, <2>4, <2>5, <2>6 DEF Fine, ByHandOnly, OwnKey
<1>2. CASE opening = None BY <1>1, <1>2 DEF Created, Plain
<1>3. CASE opening # None
  <2> DEFINE on == IF opening.on = None THEN day ELSE opening.on
  <2>1. on \in Days /\ opening.balance \in Int BY <1>3 DEF Opens
  <2>2. y = RecordBalance(a, a, opening.balance, on, TRUE) BY <1>3 DEF Created
  <2> HIDE DEF a, y, on
  <2>3. /\ RecordBalance(a, a, opening.balance, on, TRUE) \in Account(Histories)
        /\ \A f \in Rest : RecordBalance(a, a, opening.balance, on, TRUE)[f] = a[f]
    BY <1>1, <2>1, RecordIs DEF Fine
  <2>4. y \in Fine /\ y.owner = a.owner /\ SameBank(a, y)
    BY <1>1, <2>1, <2>2, RecordFine
  <2>5. y.byAgent = a.byAgent /\ y.name = a.name /\ y.type = a.type BY <2>2, <2>3 DEF Rest
  <2> QED BY <1>1, <2>4, <2>5 DEF SameBank, Plain, y
<1> QED BY <1>2, <1>3

\* A day, of several, that none of them is after.
LEMMA NewestOf ==
  ASSUME NEW m \in Nat, NEW D, D \subseteq 0..m, D # {}
  PROVE  \E d \in D : \A e \in D : e <= d
<1> DEFINE Newest(k) == \E d \in D : d <= k /\ \A e \in D : e <= k => e <= d
           S == {k \in 0..m : (\E d \in D : d <= k) => Newest(k)}
<1>1. 0 \in S OBVIOUS
<1>2. \A k \in 0..(m - 1) : k \in S => k + 1 \in S
  <2> SUFFICES ASSUME NEW k \in 0..(m - 1), k \in S, NEW d \in D, d <= k + 1
               PROVE  Newest(k + 1)
    OBVIOUS
  <2>1. CASE k + 1 \in D BY <2>1
  <2>2. CASE k + 1 \notin D
    <3>1. \A e \in D : e <= k + 1 => e <= k BY <2>2
    <3>2. d <= k BY <3>1
    <3>3. PICK n \in D : n <= k /\ \A e \in D : e <= k => e <= n BY <3>2
    <3> QED BY <3>1, <3>3
  <2> QED BY <2>1, <2>2
<1> HIDE DEF S
<1>3. m \in S
  <2>1. \A k \in 0..m : k \in S BY <1>1, <1>2, UpTo
  <2> QED BY <2>1
<1>4. PICK d \in D : TRUE OBVIOUS
<1>5. d <= m BY <1>4
<1> QED BY <1>3, <1>4, <1>5 DEF S

\* delete_balance, of one of the account's days.
AfterDelete(x, on) ==
  LET kept == Without(x.snaps, on)
      newest == CHOOSE d \in DOMAIN kept : \A e \in DOMAIN kept : e <= d
      emptied == [x EXCEPT !.snaps = kept]
  IN IF x.asOf = on /\ DOMAIN kept # {}
     THEN [emptied EXCEPT !.balance = kept[newest], !.asOf = newest] ELSE emptied

LEMMA DeletedFine ==
  ASSUME NEW x \in Fine, NEW on \in DOMAIN x.snaps
  PROVE  LET y == AfterDelete(x, on) IN
         /\ y \in Fine /\ SameBank(x, y) /\ StillNamed(x, y) /\ y.owner = x.owner
         /\ DOMAIN y.snaps = DOMAIN x.snaps \ {on}
         /\ \A d \in DOMAIN x.snaps \ {on} : y.snaps[d] = x.snaps[d]
<1> DEFINE kept == Without(x.snaps, on)
           newest == CHOOSE d \in DOMAIN kept : \A e \in DOMAIN kept : e <= d
           emptied == [x EXCEPT !.snaps = kept]
           y == AfterDelete(x, on)
           back == x.asOf = on /\ DOMAIN kept # {}
<1>1. /\ x \in Account(Histories)
      /\ \A e \in DOMAIN x.snaps : x.asOf # None /\ e <= x.asOf /\ (e = x.asOf => x.snaps[e] = x.balance)
  BY DEF Fine, HeadlineOf
<1>2. DOMAIN x.snaps \subseteq Days /\ x.snaps \in [DOMAIN x.snaps -> Int]
  <2>1. x.snaps \in Histories BY <1>1 DEF Account
  <2> QED BY <2>1, HistoryIs
<1>3. /\ DOMAIN kept = DOMAIN x.snaps \ {on}
      /\ \A d \in DOMAIN kept : kept[d] = x.snaps[d]
      /\ kept = [d \in DOMAIN x.snaps \ {on} |-> x.snaps[d]]
  BY DEF Without, Restrict
<1>4. kept \in Histories BY <1>2, <1>3, HistoryIs
<1>5. y = IF back THEN [x EXCEPT !.snaps = kept, !.balance = kept[newest], !.asOf = newest]
          ELSE [x EXCEPT !.snaps = kept]
  BY DEF AfterDelete
<1>6. ASSUME back
      PROVE  /\ newest \in DOMAIN kept /\ \A e \in DOMAIN kept : e <= newest
             /\ newest \in Days /\ newest # None /\ kept[newest] \in Int
  <2>1. MaxDay + 1 \in Nat BY LimitsAssumption
  <2>2. DOMAIN kept \subseteq 0..(MaxDay + 1) /\ DOMAIN kept # {}
    BY <1>2, <1>3, <1>6 DEF Days
  <2>3. \E d \in DOMAIN kept : \A e \in DOMAIN kept : e <= d
    <3> DEFINE D == DOMAIN kept
    <3>1. D \subseteq 0..(MaxDay + 1) /\ D # {} BY <2>2
    <3> HIDE DEF D
    <3>2. \E d \in D : \A e \in D : e <= d BY <2>1, <3>1, NewestOf
    <3> QED BY <3>2 DEF D
  <2>4. newest \in DOMAIN kept /\ \A e \in DOMAIN kept : e <= newest
    <3> HIDE DEF kept
    <3> QED BY <2>3
  <2> HIDE DEF newest
  <2> QED BY <1>2, <1>3, <2>4, DaysAre
<1> HIDE DEF y, kept, newest
<1>7. y.snaps = kept BY <1>1, <1>5 DEF Account
<1>8. y \in Account(Histories)
  <2>1. CASE back BY <1>1, <1>4, <1>5, <1>6, <2>1 DEF Account
  <2>2. CASE ~back BY <1>1, <1>4, <1>5, <2>2 DEF Account
  <2> QED BY <2>1, <2>2
<1>9. /\ y.name = x.name /\ y.type = x.type /\ y.owner = x.owner /\ y.source = x.source
      /\ y.ext = x.ext /\ y.key = x.key /\ y.txns = x.txns /\ y.byAgent = x.byAgent
  BY <1>1, <1>5 DEF Account
<1>10. HeadlineOf(y)
  <2>1. CASE back
    <3>1. y.asOf = newest /\ y.balance = kept[newest] BY <1>1, <1>5, <2>1 DEF Account
    <3> QED BY <1>6, <1>7, <2>1, <3>1 DEF HeadlineOf
  <2>2. CASE ~back
    <3>1. y.asOf = x.asOf /\ y.balance = x.balance BY <1>1, <1>5, <2>2 DEF Account
    <3> QED BY <1>1, <1>3, <1>7, <3>1 DEF HeadlineOf
  <2> QED BY <2>1, <2>2
<1>11. y \in Fine
  <2>1. /\ (x.source # None) = (x.type = "investment")
        /\ ByHandOnly(x) /\ OwnKey(x)
        /\ x.source = "derived" => x.key = None
        /\ x.byAgent => x.name # None
    BY DEF Fine
  <2> QED BY <1>8, <1>9, <1>10, <2>1 DEF Fine, ByHandOnly, OwnKey
<1> QED BY <1>3, <1>7, <1>9, <1>11 DEF y, SameBank, StillNamed

-----------------------------------------------------------------------------
(* The accounts together                                                   *)

KeysApart(as) == \A a, b \in DOMAIN as : as[a].key # None /\ as[a].key = as[b].key => a = b

\* A card nobody shares a name with, under its first name.
Alone(names, c) ==
  /\ names[c] = FirstName[c]
  /\ \A d \in Cards \ {c} : FirstName[c] \notin {FirstName[d], names[d]}

\* The cards an account's rows and its id are of.
CardsOf(x) == {t[1] : t \in x.txns} \union {t[1] : t \in {x.ext} \ {None}}
\* Whatever is of a lone card is on the row its name has.
AloneKeys(as, names) ==
  \A a \in DOMAIN as, c \in Cards : Alone(names, c) /\ c \in CardsOf(as[a]) => as[a].key = <<FirstName[c]>>

\* A type and a name as a portable identity folds it.
Folded(n) == <<Lower[n[1]], n[2]>>
AgentsApart(as) ==
  \A a, b \in DOMAIN as :
    as[a].byAgent /\ as[b].byAgent /\ as[a].type = as[b].type /\ Folded(as[a].name) = Folded(as[b].name)
    => a = b

BooksFine(as, names) == FineTable(as) /\ KeysApart(as) /\ AloneKeys(as, names) /\ AgentsApart(as)

\* An agent's account that is this one already.
Clash(as, type, given) ==
  \E a \in DOMAIN as : as[a].byAgent /\ as[a].type = type /\ Folded(as[a].name) = Folded(given)

\* Accounts that were there, each still the same to the bank and to the agents.
Kept(as, bs) ==
  /\ DOMAIN bs \subseteq DOMAIN as /\ bs \in [DOMAIN bs -> Fine]
  /\ \A a \in DOMAIN bs : SameBank(as[a], bs[a]) /\ StillNamed(as[a], bs[a])

LEMMA TableKeeps ==
  ASSUME NEW as, NEW bs, NEW names, BooksFine(as, names), Kept(as, bs)
  PROVE  /\ BooksFine(bs, names)
         /\ \A type, given : Clash(bs, type, given) => Clash(as, type, given)
<1>1. /\ DOMAIN bs \subseteq DOMAIN as
      /\ \A a \in DOMAIN bs :
           /\ bs[a].key = as[a].key /\ CardsOf(bs[a]) = CardsOf(as[a])
           /\ bs[a].byAgent =>
                as[a].byAgent /\ bs[a].name = as[a].name /\ bs[a].type = as[a].type
  BY DEF Kept, SameBank, StillNamed, CardsOf
<1>2. FineTable(bs) BY DEF Kept, BooksFine, FineTable
<1>3. KeysApart(bs) BY <1>1 DEF BooksFine, KeysApart
<1>4. AloneKeys(bs, names) BY <1>1 DEF BooksFine, AloneKeys
<1>5. AgentsApart(bs)
  <2> SUFFICES ASSUME NEW a \in DOMAIN bs, NEW b \in DOMAIN bs, bs[a].byAgent, bs[b].byAgent,
                      bs[a].type = bs[b].type, Folded(bs[a].name) = Folded(bs[b].name)
               PROVE  a = b
    BY DEF AgentsApart
  <2>1. as[a].byAgent /\ as[b].byAgent /\ as[a].type = as[b].type
        /\ Folded(as[a].name) = Folded(as[b].name)
    BY <1>1
  <2> QED BY <1>1, <2>1 DEF BooksFine, AgentsApart
<1>6. ASSUME NEW type, NEW given, Clash(bs, type, given) PROVE Clash(as, type, given)
  BY <1>1, <1>6 DEF Clash
<1> QED BY <1>2, <1>3, <1>4, <1>5, <1>6 DEF BooksFine

\* An account by hand, or an agent's with a name of its own, put beside the others.
LEMMA TableGrows ==
  ASSUME NEW as, NEW names, BooksFine(as, names), NEW a \in AccountIds \ DOMAIN as,
         NEW x \in Fine, x.key = None, x.ext = None, x.txns = {},
         x.byAgent => ~Clash(as, x.type, x.name)
  PROVE  /\ BooksFine(Put(as, a, x), names)
         /\ \A type, given : Clash(Put(as, a, x), type, given) =>
              Clash(as, type, given) \/ (x.byAgent /\ x.type = type /\ Folded(x.name) = Folded(given))
<1> DEFINE bs == Put(as, a, x)
<1>1. /\ DOMAIN bs = DOMAIN as \union {a} /\ bs[a] = x /\ a \notin DOMAIN as
      /\ \A b \in DOMAIN as : bs[b] = as[b]
      /\ bs = [b \in DOMAIN bs |-> bs[b]]
  BY PutIs DEF Put
<1> HIDE DEF bs
<1>2. FineTable(bs) BY <1>1 DEF BooksFine, FineTable
<1>3. KeysApart(bs) BY <1>1 DEF BooksFine, KeysApart
<1>4. CardsOf(x) = {} BY DEF CardsOf
<1>5. AloneKeys(bs, names) BY <1>1, <1>4 DEF BooksFine, AloneKeys
<1>6. AgentsApart(bs)
  <2> SUFFICES ASSUME NEW b \in DOMAIN bs, NEW c \in DOMAIN bs, bs[b].byAgent, bs[c].byAgent,
                      bs[b].type = bs[c].type, Folded(bs[b].name) = Folded(bs[c].name)
               PROVE  b = c
    BY DEF AgentsApart
  <2>1. CASE b \in DOMAIN as /\ c \in DOMAIN as BY <1>1, <2>1 DEF BooksFine, AgentsApart
  <2>2. CASE b = a /\ c \in DOMAIN as BY <1>1, <2>2 DEF Clash
  <2>3. CASE c = a /\ b \in DOMAIN as BY <1>1, <2>3 DEF Clash
  <2> QED BY <1>1, <2>1, <2>2, <2>3
<1>7. ASSUME NEW type, NEW given, Clash(bs, type, given)
      PROVE  Clash(as, type, given) \/ (x.byAgent /\ x.type = type /\ Folded(x.name) = Folded(given))
  BY <1>1, <1>7 DEF Clash
<1> QED BY <1>2, <1>3, <1>5, <1>6, <1>7 DEF BooksFine, bs

\* The tables, when accounts are written and nothing else is.
LEMMA TablesKeep ==
  ASSUME NEW os, NEW gs, NEW cs, NEW rs, NEW as, NEW bs, Tables(os, gs, cs, rs, as),
         DOMAIN as \subseteq DOMAIN bs, \A a \in DOMAIN bs : bs[a].owner \in DOMAIN os
  PROVE  Tables(os, gs, cs, rs, bs)
BY DEF Tables

LEMMA SharedIs ==
  ASSUME OwnersApart(owners)
  PROVE  /\ SharedOwner \in DOMAIN owners
         /\ {o \in DOMAIN owners : owners[o].shared} = {SharedOwner}
BY DEF OwnersApart, SharedOwner

\* distinct_account_name finds a name, and no account of the type has it.
LEMMA DistinctIs ==
  ASSUME FineTable(accounts), NEW type, Cardinality(Taken(type)) < MaxNumber
  PROVE  /\ DistinctName(AgentName, type) \in Names
         /\ Folded(DistinctName(AgentName, type)) \notin Taken(type)
<1> DEFINE Free(n) == <<Lower[AgentName], n>> \notin Taken(type)
           First(n) == Free(n) /\ \A k \in 1..(n - 1) : ~Free(k)
           S == {k \in 0..MaxNumber : \A j \in 1..k : ~Free(j)}
<1>1. MaxNumber \in Nat /\ AgentName \in DOMAIN Lower BY LimitsAssumption
<1>2. \E n \in 1..MaxNumber : First(n)
  <2> SUFFICES ASSUME \A n \in 1..MaxNumber : ~First(n) PROVE FALSE OBVIOUS
  <2> HIDE DEF Free
  <2>1. 0 \in S BY <1>1
  <2>2. \A k \in 0..(MaxNumber - 1) : k \in S => k + 1 \in S
    <3> SUFFICES ASSUME NEW k \in 0..(MaxNumber - 1), \A j \in 1..k : ~Free(j)
                 PROVE  \A j \in 1..(k + 1) : ~Free(j)
      BY <1>1
    <3>1. (k + 1) - 1 = k /\ k + 1 \in 1..MaxNumber BY <1>1
    <3>2. ~Free(k + 1) BY <3>1
    <3>3. \A j \in 1..(k + 1) : j = k + 1 \/ j \in 1..k BY <1>1
    <3> QED BY <3>2, <3>3
  <2> HIDE DEF S
  <2>3. \A k \in 0..MaxNumber : k \in S BY <1>1, <2>1, <2>2, UpTo
  <2>4. MaxNumber \in 0..MaxNumber BY <1>1
  <2>5. MaxNumber \in S BY <2>3, <2>4
  <2>6. \A j \in 1..MaxNumber : ~Free(j) BY <2>5 DEF S
  <2> DEFINE N == 1..MaxNumber
             f == [n \in N |-> <<Lower[AgentName], n>>]
             T == Taken(type)
             C == DOMAIN accounts
             taken == [a \in C |-> <<Lower[accounts[a].name[1]], accounts[a].name[2]>>]
  <2>7. f \in Injection(N, T)
    <3>1. \A n \in N : f[n] \in T BY <2>6 DEF Free
    <3>2. \A m, n \in N : f[m] = f[n] => m = n OBVIOUS
    <3> QED BY <3>1, <3>2 DEF Injection, IsInjective
  <2>8. IsFiniteSet(T)
    <3>1. IsFiniteSet(C)
      <4>1. C \subseteq AccountIds /\ IsFiniteSet(AccountIds) BY LimitsAssumption DEF FineTable
      <4> QED BY <4>1, FS_Subset
    <3>2. IsFiniteSet({taken[a] : a \in C})
      <4> HIDE DEF C, taken
      <4> DEFINE R == {taken[a] : a \in C}
                 g == [a \in C |-> taken[a]]
      <4>1. g \in Surjection(C, R) BY DEF Surjection
      <4> HIDE DEF R, g
      <4>2. IsFiniteSet(R) BY <3>1, <4>1, FS_Surjection
      <4> QED BY <4>2 DEF R
    <3>3. T \subseteq {taken[a] : a \in C} BY DEF Taken
    <3> HIDE DEF T, taken, C
    <3> QED BY <3>2, <3>3, FS_Subset
  <2>9. IsFiniteSet(N) /\ Cardinality(N) = MaxNumber
    <3>1. 1 \in Int /\ MaxNumber \in Int BY <1>1
    <3>2. IsFiniteSet(1..MaxNumber)
          /\ Cardinality(1..MaxNumber) = IF 1 > MaxNumber THEN 0 ELSE MaxNumber - 1 + 1
      BY <3>1, FS_Interval
    <3> QED BY <1>1, <3>2
  <2>10. Cardinality(N) <= Cardinality(T)
    <3> HIDE DEF N, T, f
    <3> QED BY <2>7, <2>8, FS_Injection
  <2>11. Cardinality(T) \in Nat BY <2>8, FS_CardinalityType
  <2> QED BY <1>1, <2>9, <2>10, <2>11
<1> DEFINE n == CHOOSE n \in 1..MaxNumber : First(n)
<1>3. n \in 1..MaxNumber /\ Free(n) BY <1>2
<1>4. DistinctName(AgentName, type) = <<AgentName, n>> BY DEF DistinctName
<1> HIDE DEF n
<1> QED BY <1>1, <1>3, <1>4 DEF Folded, Names

-----------------------------------------------------------------------------
(* Rows and legs moved                                                     *)

\* A row filed under one owner put under another, with its leg.
OwnerMoved(x, y, o, to) ==
  /\ y.account = x.account /\ y.cat = x.cat /\ y.owner = IF x.owner = o THEN to ELSE x.owner
  /\ x.leg = None => y.leg = None
  /\ x.leg # None => /\ y.leg \in Leg /\ y.leg.cat = x.leg.cat
                     /\ y.leg.owner = IF x.leg.owner = o THEN to ELSE x.leg.owner

CatMoved(x, y, from, to) ==
  /\ y.account = x.account /\ y.owner = x.owner /\ y.cat = IF x.cat \in from THEN to ELSE x.cat
  /\ x.leg = None => y.leg = None
  /\ x.leg # None => /\ y.leg \in Leg /\ y.leg.owner = x.leg.owner
                     /\ y.leg.cat = IF x.leg.cat \in from THEN to ELSE x.leg.cat

LEMMA RefiledOwner ==
  ASSUME rows \in [DOMAIN rows -> Row], NEW o, NEW to \in OwnerIds
  PROVE  /\ DOMAIN Handed(o, to) = DOMAIN rows
         /\ Handed(o, to) \in [DOMAIN rows -> Row]
         /\ \A i \in DOMAIN rows : OwnerMoved(rows[i], Handed(o, to)[i], o, to)
<1> DEFINE Move(x) == IF x.owner = o THEN [x EXCEPT !.owner = to] ELSE x
           One(x) == LET y == Move(x) IN IF y.leg = None THEN y ELSE [y EXCEPT !.leg = Move(y.leg)]
           moved == Handed(o, to)
<1>1. moved = [i \in DOMAIN rows |-> One(rows[i])] BY DEF Handed, Refiled
<1>2. ASSUME NEW x \in Row PROVE One(x) \in Row /\ OwnerMoved(x, One(x), o, to)
  <2> DEFINE y == Move(x)  leg == Move(y.leg)
  <2>1. y \in Row /\ y.account = x.account /\ y.cat = x.cat /\ y.leg = x.leg
        /\ y.owner = IF x.owner = o THEN to ELSE x.owner
    BY DEF Row
  <2>2. x.leg \in Leg \/ x.leg = None BY DEF Row
  <2>3. One(x) = IF y.leg = None THEN y ELSE [y EXCEPT !.leg = leg] OBVIOUS
  <2>4. CASE x.leg = None
    <3> HIDE DEF y, leg, One
    <3> QED BY <2>1, <2>3, <2>4 DEF OwnerMoved
  <2>5. CASE x.leg # None
    <3> HIDE DEF y
    <3>1. leg \in Leg /\ leg.cat = x.leg.cat /\ leg.owner = IF x.leg.owner = o THEN to ELSE x.leg.owner
      BY <2>1, <2>2, <2>5 DEF Leg
    <3> HIDE DEF leg, One
    <3>2. One(x) = [y EXCEPT !.leg = leg] BY <2>1, <2>3, <2>5
    <3>3. One(x).leg = leg BY <2>1, <3>2 DEF Row
    <3>4. One(x) \in Row BY <2>1, <3>1, <3>2 DEF Row
    <3>5. One(x).account = y.account /\ One(x).cat = y.cat /\ One(x).owner = y.owner
      BY <2>1, <3>2 DEF Row
    <3> QED BY <2>1, <2>5, <3>1, <3>3, <3>4, <3>5 DEF OwnerMoved
  <2> QED BY <2>4, <2>5
<1> HIDE DEF moved, One
<1> QED BY <1>1, <1>2 DEF moved

LEMMA RefiledCat ==
  ASSUME rows \in [DOMAIN rows -> Row], NEW from, NEW to \in CatIds \union {None}
  PROVE  /\ DOMAIN Reassigned(from, to) = DOMAIN rows
         /\ Reassigned(from, to) \in [DOMAIN rows -> Row]
         /\ \A i \in DOMAIN rows : CatMoved(rows[i], Reassigned(from, to)[i], from, to)
<1> DEFINE Move(x) == IF x.cat \in from THEN [x EXCEPT !.cat = to] ELSE x
           One(x) == LET y == Move(x) IN IF y.leg = None THEN y ELSE [y EXCEPT !.leg = Move(y.leg)]
           moved == Reassigned(from, to)
<1>1. moved = [i \in DOMAIN rows |-> One(rows[i])] BY DEF Reassigned, Refiled
<1>2. ASSUME NEW x \in Row PROVE One(x) \in Row /\ CatMoved(x, One(x), from, to)
  <2> DEFINE y == Move(x)  leg == Move(y.leg)
  <2>1. y \in Row /\ y.account = x.account /\ y.owner = x.owner /\ y.leg = x.leg
        /\ y.cat = IF x.cat \in from THEN to ELSE x.cat
    BY DEF Row
  <2>2. x.leg \in Leg \/ x.leg = None BY DEF Row
  <2>3. One(x) = IF y.leg = None THEN y ELSE [y EXCEPT !.leg = leg] OBVIOUS
  <2>4. CASE x.leg = None
    <3> HIDE DEF y, leg, One
    <3> QED BY <2>1, <2>3, <2>4 DEF CatMoved
  <2>5. CASE x.leg # None
    <3> HIDE DEF y
    <3>1. leg \in Leg /\ leg.owner = x.leg.owner /\ leg.cat = IF x.leg.cat \in from THEN to ELSE x.leg.cat
      BY <2>1, <2>2, <2>5 DEF Leg
    <3> HIDE DEF leg, One
    <3>2. One(x) = [y EXCEPT !.leg = leg] BY <2>1, <2>3, <2>5
    <3>3. One(x).leg = leg BY <2>1, <3>2 DEF Row
    <3>4. One(x) \in Row BY <2>1, <3>1, <3>2 DEF Row
    <3>5. One(x).account = y.account /\ One(x).cat = y.cat /\ One(x).owner = y.owner
      BY <2>1, <3>2 DEF Row
    <3> QED BY <2>1, <2>5, <3>1, <3>3, <3>4, <3>5 DEF CatMoved
  <2> QED BY <2>4, <2>5
<1> HIDE DEF moved, One
<1> QED BY <1>1, <1>2 DEF moved

-----------------------------------------------------------------------------
(* The invariant                                                           *)

\* What a request may have open, and the agents' half of it: one at a time has chosen a name, and
\* no account has it.
Tasks ==
  [op : {"owner"}, owner : OwnerIds \union {None}, name : OwnerNames]
    \union [op : {"account"}, given : Names, type : AccountTypes]
Choosing(r) == work[r] # None /\ work[r].op = "account"
Adding ==
  \A r \in Requests : Choosing(r) =>
    /\ \A q \in Requests : Choosing(q) => q = r
    /\ ~Clash(accounts, work[r].type, work[r].given)

BooksInv ==
  /\ Tables(owners, groups, cats, rows, accounts)
  /\ OwnersApart(owners)
  /\ BooksFine(accounts, cardName)
  /\ work \in [Requests -> Tasks \union {None}]
  /\ Adding
  /\ day \in 1..MaxDay /\ cardName \in [Cards -> CardNames]

\* A step that writes what the invariant does not read of an account.
LEMMA TouchedFine ==
  ASSUME NEW x \in Fine, NEW y \in Account(Histories),
         \A f \in {"name", "type", "source", "ext", "key", "balance", "asOf", "snaps", "txns", "byAgent"} :
           y[f] = x[f]
  PROVE  y \in Fine /\ SameBank(x, y) /\ StillNamed(x, y) /\ y.snaps = x.snaps
<1>1. /\ y.name = x.name /\ y.type = x.type /\ y.source = x.source
      /\ y.ext = x.ext /\ y.key = x.key /\ y.balance = x.balance /\ y.asOf = x.asOf
      /\ y.snaps = x.snaps /\ y.txns = x.txns /\ y.byAgent = x.byAgent
  OBVIOUS
<1>2. /\ (x.source # None) = (x.type = "investment")
      /\ ByHandOnly(x) /\ OwnKey(x) /\ HeadlineOf(x)
      /\ x.source = "derived" => x.key = None
      /\ x.byAgent => x.name # None
  BY DEF Fine
<1>3. y \in Fine BY <1>1, <1>2 DEF Fine, ByHandOnly, OwnKey, HeadlineOf
<1> QED BY <1>1, <1>3 DEF SameBank, StillNamed

LEMMA OwnedFine ==
  ASSUME NEW x \in Fine, NEW to \in OwnerIds
  PROVE  LET y == [x EXCEPT !.owner = to] IN
         y \in Fine /\ SameBank(x, y) /\ StillNamed(x, y) /\ y.snaps = x.snaps /\ y.owner = to
<1> DEFINE y == [x EXCEPT !.owner = to]
<1>1. x \in Account(Histories) BY DEF Fine
<1>2. y \in Account(Histories) /\ y.owner = to BY <1>1 DEF Account
<1>3. \A f \in {"name", "type", "source", "ext", "key", "balance", "asOf", "snaps", "txns", "byAgent"} :
        y[f] = x[f]
  BY <1>1 DEF Account
<1> HIDE DEF y
<1>4. y \in Fine /\ SameBank(x, y) /\ StillNamed(x, y) /\ y.snaps = x.snaps
  BY <1>2, <1>3, TouchedFine
<1> QED BY <1>2, <1>4 DEF y

LEMMA SameFine ==
  ASSUME NEW x \in Fine
  PROVE  SameBank(x, x) /\ StillNamed(x, x)
BY DEF SameBank, StillNamed

\* What no account loses cannot make two requests' names clash.
LEMMA AddingKeeps ==
  ASSUME Adding, work' = work,
         \A type, given : Clash(accounts', type, given) => Clash(accounts, type, given)
  PROVE  Adding'
BY DEF Adding, Choosing

LEMMA NameOwnerKeeps ==
  ASSUME BooksInv, UNCHANGED <<day, bank>>,
         NEW r \in Requests, NEW o \in DOMAIN owners \union {None}, NEW name \in OwnerNames,
         NameOwner(r, o, name)
  PROVE  BooksInv'
<1> DEFINE w == [op |-> "owner", owner |-> o, name |-> name]
<1>1. w \in Tasks BY DEF BooksInv, Tables, Tasks
<1>2. work' = [work EXCEPT ![r] = w] /\ work[r] = None /\ w.op = "owner" BY DEF NameOwner
<1> HIDE DEF w
<1>3. work' \in [Requests -> Tasks \union {None}] BY <1>1, <1>2 DEF BooksInv
<1>4. \A q \in Requests : Choosing(q)' => Choosing(q) /\ work'[q] = work[q]
  BY <1>2 DEF Choosing, BooksInv
<1>5. Adding' BY <1>4 DEF Adding, BooksInv, NameOwner
<1> QED BY <1>3, <1>5 DEF BooksInv, NameOwner, filing, bank

LEMMA FlushOwnerKeeps ==
  ASSUME BooksInv, UNCHANGED <<day, bank>>, NEW r \in Requests, FlushOwner(r)
  PROVE  BooksInv'
<1>1. /\ Tables(owners, groups, cats, rows, accounts) /\ OwnersApart(owners)
      /\ DOMAIN owners \subseteq OwnerIds /\ owners \in [DOMAIN owners -> Owner]
  BY DEF BooksInv, Tables
<1>2. work[r] \in [op : {"owner"}, owner : OwnerIds \union {None}, name : OwnerNames]
  BY DEF BooksInv, FlushOwner, Tasks
<1> DEFINE w == work[r]
<1>3. w.name \in DOMAIN Lower /\ w.owner \in OwnerIds \union {None} BY <1>2, NamesAssumption
<1> HIDE DEF w
<1>4. /\ owners' \in [DOMAIN owners' -> Owner] /\ DOMAIN owners' \subseteq OwnerIds
      /\ DOMAIN owners \subseteq DOMAIN owners'
      /\ OwnersApart(owners')
  <2>1. CASE /\ ~Duplicate(w.name, None) /\ DOMAIN owners # OwnerIds
             /\ owners' = Put(owners, Fresh(OwnerIds, DOMAIN owners), [name |-> w.name, shared |-> FALSE])
    <3> DEFINE o == Fresh(OwnerIds, DOMAIN owners)
               x == [name |-> w.name, shared |-> FALSE]
    <3>1. o \in OwnerIds \ DOMAIN owners BY <1>1, <2>1 DEF Fresh
    <3>2. x \in Owner /\ x.name = w.name /\ x.shared = FALSE BY <1>3 DEF Owner
    <3> HIDE DEF o, x
    <3>3. /\ owners' = Put(owners, o, x) BY <2>1 DEF o, x
    <3>4. /\ DOMAIN owners' = DOMAIN owners \union {o} /\ owners'[o] = x
          /\ \A p \in DOMAIN owners : owners'[p] = owners[p]
          /\ owners' = [p \in DOMAIN owners' |-> owners'[p]]
      BY <3>1, <3>3 DEF Put
    <3>5. \A p \in DOMAIN owners : Lower[owners[p].name] # Lower[w.name]
      BY <1>1, <2>1, NoIdAssumption DEF Duplicate
    <3>6. OwnersApart(owners')
      <4>1. {p \in DOMAIN owners' : owners'[p].shared} = {p \in DOMAIN owners : owners[p].shared}
        BY <3>2, <3>4
      <4>2. \A p, q \in DOMAIN owners' : Lower[owners'[p].name] = Lower[owners'[q].name] => p = q
        BY <1>1, <3>2, <3>4, <3>5 DEF OwnersApart
      <4> QED BY <1>1, <3>4, <4>1, <4>2 DEF OwnersApart
    <3> QED BY <1>1, <3>1, <3>2, <3>4, <3>6
  <2>2. CASE /\ ~Duplicate(w.name, w.owner) /\ w.owner \in DOMAIN owners
             /\ owners' = [owners EXCEPT ![w.owner].name = w.name]
    <3> DEFINE o == w.owner  x == [owners[o] EXCEPT !.name = w.name]
    <3>1. owners' = [owners EXCEPT ![o] = x] /\ o \in DOMAIN owners BY <2>2
    <3>2. x \in Owner /\ x.name = w.name /\ x.shared = owners[o].shared BY <1>1, <1>3, <3>1 DEF Owner
    <3> HIDE DEF x
    <3>3. /\ DOMAIN owners' = DOMAIN owners /\ owners'[o] = x
          /\ \A p \in DOMAIN owners \ {o} : owners'[p] = owners[p]
      BY <1>1, <3>1
    <3>4. \A p \in DOMAIN owners \ {o} : Lower[owners[p].name] # Lower[w.name]
      BY <2>2 DEF Duplicate
    <3> HIDE DEF o
    <3>5. owners' \in [DOMAIN owners' -> Owner] BY <1>1, <3>1, <3>2
    <3>6. {p \in DOMAIN owners' : owners'[p].shared} = {p \in DOMAIN owners : owners[p].shared}
      BY <3>1, <3>2, <3>3
    <3>7. \A p, q \in DOMAIN owners' : Lower[owners'[p].name] = Lower[owners'[q].name] => p = q
      BY <1>1, <3>1, <3>2, <3>3, <3>4 DEF OwnersApart
    <3> QED BY <1>1, <3>3, <3>5, <3>6, <3>7 DEF OwnersApart
  <2>3. CASE UNCHANGED owners BY <1>1, <2>3
  <2> QED BY <2>1, <2>2, <2>3 DEF FlushOwner, w
<1>5. UNCHANGED <<filing, rows, accounts>> /\ work' = [work EXCEPT ![r] = None] BY DEF FlushOwner
<1>6. Tables(owners, groups, cats, rows, accounts)'
  <2>1. \A x : FiledIn(x, owners, cats) => FiledIn(x, owners', cats) BY <1>4 DEF FiledIn
  <2> QED BY <1>1, <1>4, <1>5, <2>1 DEF Tables, filing
<1>7. work' \in [Requests -> Tasks \union {None}] BY <1>5 DEF BooksInv
<1>8. Adding'
  <2>1. \A q \in Requests : Choosing(q)' => Choosing(q) /\ work'[q] = work[q]
    BY <1>5 DEF Choosing, BooksInv
  <2> QED BY <1>5, <2>1 DEF Adding, BooksInv
<1> QED BY <1>4, <1>5, <1>6, <1>7, <1>8 DEF BooksInv, bank

LEMMA DeleteOwnerKeeps ==
  ASSUME BooksInv, UNCHANGED <<day, bank>>,
         NEW o \in DOMAIN owners, NEW to \in DOMAIN owners, DeleteOwner(o, to)
  PROVE  /\ BooksInv'
         /\ DOMAIN owners \ DOMAIN owners' = {o} /\ to \in DOMAIN owners'
         /\ \A i \in DOMAIN rows : OwnerMoved(rows[i], rows'[i], o, to)
         /\ DOMAIN accounts' = DOMAIN accounts
         /\ \A a \in DOMAIN accounts :
              /\ accounts'[a].owner = IF accounts[a].owner = o THEN to ELSE accounts[a].owner
              /\ accounts'[a].snaps = accounts[a].snaps
<1>1. /\ Tables(owners, groups, cats, rows, accounts) /\ OwnersApart(owners)
      /\ DOMAIN owners \subseteq OwnerIds /\ owners \in [DOMAIN owners -> Owner]
      /\ FineTable(accounts)
  BY DEF BooksInv, Tables, BooksFine
<1>2. /\ ~owners[o].shared /\ to # o /\ owners' = Without(owners, o)
      /\ rows' = Handed(o, to)
      /\ accounts' = [a \in DOMAIN accounts |->
           IF accounts[a].owner = o THEN [accounts[a] EXCEPT !.owner = to] ELSE accounts[a]]
      /\ UNCHANGED <<filing, work>>
  BY DEF DeleteOwner
<1>3. /\ DOMAIN owners' = DOMAIN owners \ {o}
      /\ \A p \in DOMAIN owners' : owners'[p] = owners[p]
      /\ owners' \in [DOMAIN owners' -> Owner]
  BY <1>1, <1>2 DEF Without, Restrict
<1>4. OwnersApart(owners')
  <2>1. {p \in DOMAIN owners' : owners'[p].shared} = {p \in DOMAIN owners : owners[p].shared}
    BY <1>2, <1>3
  <2> QED BY <1>1, <1>3, <2>1 DEF OwnersApart
<1>5. /\ DOMAIN rows' = DOMAIN rows /\ rows' \in [DOMAIN rows' -> Row]
      /\ \A i \in DOMAIN rows : OwnerMoved(rows[i], rows'[i], o, to)
  <2>1. rows \in [DOMAIN rows -> Row] /\ to \in OwnerIds BY <1>1 DEF Tables
  <2> QED BY <1>2, <2>1, RefiledOwner
<1>6. ASSUME NEW a \in DOMAIN accounts
      PROVE  /\ accounts'[a] \in Fine /\ SameBank(accounts[a], accounts'[a])
             /\ StillNamed(accounts[a], accounts'[a])
             /\ accounts'[a].owner = IF accounts[a].owner = o THEN to ELSE accounts[a].owner
             /\ accounts'[a].snaps = accounts[a].snaps
  <2>1. accounts[a] \in Fine BY <1>1 DEF FineTable
  <2>2. CASE accounts[a].owner = o
    <3> DEFINE x == accounts[a]
    <3>1. accounts'[a] = [x EXCEPT !.owner = to] /\ x \in Fine BY <1>2, <2>1, <2>2
    <3> HIDE DEF x
    <3>2. /\ accounts'[a] \in Fine /\ SameBank(x, accounts'[a]) /\ StillNamed(x, accounts'[a])
          /\ accounts'[a].snaps = x.snaps /\ accounts'[a].owner = to
      BY <1>1, <3>1, OwnedFine
    <3> QED BY <2>2, <3>2 DEF x
  <2>3. CASE accounts[a].owner # o
    <3>1. accounts'[a] = accounts[a] BY <1>2, <2>3
    <3> QED BY <2>1, <2>3, <3>1, SameFine
  <2> QED BY <2>2, <2>3
<1>7. DOMAIN accounts' = DOMAIN accounts /\ accounts' \in [DOMAIN accounts' -> Fine]
  BY <1>2, <1>6
<1>8. Kept(accounts, accounts') BY <1>6, <1>7 DEF Kept
<1>9. /\ BooksFine(accounts', cardName)
      /\ \A type, given : Clash(accounts', type, given) => Clash(accounts, type, given)
  BY <1>8, TableKeeps DEF BooksInv
<1>10. Tables(owners, groups, cats, rows, accounts)'
  <2>1. \A a \in DOMAIN accounts' : accounts'[a].owner \in DOMAIN owners'
    BY <1>1, <1>2, <1>3, <1>6, <1>7 DEF Tables
  <2>2. ASSUME NEW i \in DOMAIN rows'
        PROVE  /\ rows'[i].account \in DOMAIN accounts' /\ FiledIn(rows'[i], owners', cats')
               /\ rows'[i].leg # None => FiledIn(rows'[i].leg, owners', cats')
    <3>1. OwnerMoved(rows[i], rows'[i], o, to) /\ i \in DOMAIN rows BY <1>5, <2>2
    <3>2. /\ rows[i].account \in DOMAIN accounts /\ FiledIn(rows[i], owners, cats)
          /\ rows[i].leg # None => FiledIn(rows[i].leg, owners, cats)
      BY <1>1, <3>1 DEF Tables
    <3>3. cats' = cats BY <1>2 DEF filing
    <3> QED BY <1>2, <1>3, <1>7, <3>1, <3>2, <3>3 DEF OwnerMoved, FiledIn
  <2> QED BY <1>1, <1>2, <1>3, <1>5, <2>1, <2>2 DEF Tables, filing
<1>11. Adding' BY <1>2, <1>9, AddingKeeps DEF BooksInv
<1>12. BooksInv' BY <1>2, <1>4, <1>9, <1>10, <1>11 DEF BooksInv, bank
<1> QED BY <1>1, <1>2, <1>3, <1>5, <1>6, <1>7, <1>12

\* A step on the categories and the rows that leaves owners, accounts and requests alone.
LEMMA FilingKeeps ==
  ASSUME BooksInv, UNCHANGED <<owners, accounts, work, day, bank>>,
         DOMAIN groups' \subseteq GroupIds, groups' \in [DOMAIN groups' -> Types],
         DOMAIN cats' \subseteq CatIds, cats' \in [DOMAIN cats' -> DOMAIN groups'],
         rows' \in [DOMAIN rows' -> Row],
         \A i \in DOMAIN rows' :
           /\ rows'[i].account \in DOMAIN accounts
           /\ FiledIn(rows'[i], owners, cats')
           /\ rows'[i].leg # None => FiledIn(rows'[i].leg, owners, cats')
  PROVE  BooksInv'
<1>1. Tables(owners, groups, cats, rows, accounts)' BY DEF BooksInv, Tables
<1>2. Adding' BY DEF BooksInv, Adding, Choosing
<1> QED BY <1>1, <1>2 DEF BooksInv, bank

\* What a row means afterwards: what it meant, or nothing.
MeansIt == \A i \in DOMAIN rows : Meaning(rows[i])' \in {Meaning(rows[i]), "uncategorized"}

LEMMA CategoryGrows ==
  ASSUME BooksInv, UNCHANGED <<owners, rows, accounts, work, day, bank>>,
         (\E type \in Types : CreateGroup(type)) \/ (\E g \in DOMAIN groups : CreateCategory(g))
  PROVE  BooksInv' /\ MeansIt
<1>1. /\ Tables(owners, groups, cats, rows, accounts)
      /\ DOMAIN groups \subseteq GroupIds /\ groups \in [DOMAIN groups -> Types]
      /\ DOMAIN cats \subseteq CatIds /\ cats \in [DOMAIN cats -> DOMAIN groups]
  BY DEF BooksInv, Tables
<1>2. /\ DOMAIN groups' \subseteq GroupIds /\ groups' \in [DOMAIN groups' -> Types]
      /\ DOMAIN cats' \subseteq CatIds /\ cats' \in [DOMAIN cats' -> DOMAIN groups']
      /\ \A g \in DOMAIN groups : g \in DOMAIN groups' /\ groups'[g] = groups[g]
      /\ \A c \in DOMAIN cats : c \in DOMAIN cats' /\ cats'[c] = cats[c]
  <2>1. CASE \E type \in Types : CreateGroup(type)
    <3> PICK type \in Types : CreateGroup(type) BY <2>1
    <3> DEFINE g == Fresh(GroupIds, DOMAIN groups)
    <3>1. g \in GroupIds \ DOMAIN groups BY <1>1 DEF CreateGroup, Fresh
    <3>2. groups' = Put(groups, g, type) /\ cats' = cats BY DEF CreateGroup
    <3> HIDE DEF g
    <3> QED BY <1>1, <3>1, <3>2 DEF Put
  <2>2. CASE \E g \in DOMAIN groups : CreateCategory(g)
    <3> PICK g \in DOMAIN groups : CreateCategory(g) BY <2>2
    <3> DEFINE c == Fresh(CatIds, DOMAIN cats)
    <3>1. c \in CatIds \ DOMAIN cats BY <1>1 DEF CreateCategory, Fresh
    <3>2. cats' = Put(cats, c, g) /\ groups' = groups BY DEF CreateCategory
    <3> HIDE DEF c
    <3> QED BY <1>1, <3>1, <3>2 DEF Put
  <2> QED BY <2>1, <2>2
<1>3. \A x : FiledIn(x, owners, cats) => FiledIn(x, owners, cats') BY <1>2 DEF FiledIn
<1>4. BooksInv' BY <1>1, <1>2, <1>3, FilingKeeps DEF Tables
<1>5. MeansIt
  <2> SUFFICES ASSUME NEW i \in DOMAIN rows PROVE Meaning(rows[i])' = Meaning(rows[i])
    BY DEF MeansIt
  <2>1. /\ rows[i].cat \in DOMAIN cats \union {None}
        /\ rows[i].leg # None => rows[i].leg.cat \in DOMAIN cats \union {None}
    BY <1>1 DEF Tables, FiledIn
  <2>2. \A c \in DOMAIN cats : groups'[cats'[c]] = groups[cats[c]] BY <1>1, <1>2
  <2> QED BY <2>1, <2>2 DEF Meaning
<1> QED BY <1>4, <1>5

LEMMA UpdateCategoryKeeps ==
  ASSUME BooksInv, UNCHANGED <<day, bank>>,
         NEW c \in DOMAIN cats, NEW g \in DOMAIN groups, UpdateCategory(c, g)
  PROVE  BooksInv' /\ MeansIt
<1>1. /\ Tables(owners, groups, cats, rows, accounts)
      /\ DOMAIN groups \subseteq GroupIds /\ groups \in [DOMAIN groups -> Types]
      /\ DOMAIN cats \subseteq CatIds /\ cats \in [DOMAIN cats -> DOMAIN groups]
  BY DEF BooksInv, Tables
<1>2. /\ groups[cats[c]] = groups[g] /\ cats' = [cats EXCEPT ![c] = g]
      /\ UNCHANGED <<groups, owners, rows, accounts, work>>
  BY DEF UpdateCategory
<1>3. /\ DOMAIN cats' = DOMAIN cats /\ cats' \in [DOMAIN cats' -> DOMAIN groups']
      /\ \A b \in DOMAIN cats : groups'[cats'[b]] = groups[cats[b]]
  BY <1>1, <1>2
<1>4. \A x : FiledIn(x, owners, cats) => FiledIn(x, owners, cats') BY <1>3 DEF FiledIn
<1>5. BooksInv' BY <1>1, <1>2, <1>3, <1>4, FilingKeeps DEF Tables
<1>6. MeansIt
  <2> SUFFICES ASSUME NEW i \in DOMAIN rows PROVE Meaning(rows[i])' = Meaning(rows[i])
    BY DEF MeansIt
  <2>1. /\ rows[i].cat \in DOMAIN cats \union {None}
        /\ rows[i].leg # None => rows[i].leg.cat \in DOMAIN cats \union {None}
    BY <1>1 DEF Tables, FiledIn
  <2> QED BY <1>2, <1>3, <2>1 DEF Meaning
<1> QED BY <1>5, <1>6

\* A category, or a group's categories, deleted: what was filed under them goes to one of the
\* same type, or under none.
LEMMA CategoriesGo ==
  ASSUME BooksInv, UNCHANGED <<owners, accounts, work, day, bank>>,
         NEW gone, NEW to \in (DOMAIN cats \ gone) \union {None},
         rows' = Reassigned(gone, to),
         DOMAIN cats' = DOMAIN cats \ gone, cats' \in [DOMAIN cats' -> DOMAIN groups'],
         \A c \in DOMAIN cats' : cats'[c] = cats[c],
         DOMAIN groups' \subseteq DOMAIN groups, groups' \in [DOMAIN groups' -> Types],
         \A g \in DOMAIN groups' : groups'[g] = groups[g],
         None \notin gone,
         \A c \in gone : to # None => groups[cats[to]] = groups[cats[c]]
  PROVE  BooksInv' /\ MeansIt
<1>1. /\ Tables(owners, groups, cats, rows, accounts)
      /\ DOMAIN groups \subseteq GroupIds /\ groups \in [DOMAIN groups -> Types]
      /\ DOMAIN cats \subseteq CatIds /\ cats \in [DOMAIN cats -> DOMAIN groups]
      /\ rows \in [DOMAIN rows -> Row]
  BY DEF BooksInv, Tables
<1>2. /\ DOMAIN rows' = DOMAIN rows /\ rows' \in [DOMAIN rows' -> Row]
      /\ \A i \in DOMAIN rows : CatMoved(rows[i], rows'[i], gone, to)
  <2>1. to \in CatIds \union {None} BY <1>1
  <2> QED BY <1>1, <2>1, RefiledCat
<1>3. ASSUME NEW i \in DOMAIN rows
      PROVE  /\ rows[i].account \in DOMAIN accounts /\ FiledIn(rows[i], owners, cats)
             /\ rows[i].leg # None => FiledIn(rows[i].leg, owners, cats)
             /\ CatMoved(rows[i], rows'[i], gone, to)
  BY <1>1, <1>2 DEF Tables
<1>4. BooksInv'
  <2>1. ASSUME NEW i \in DOMAIN rows'
        PROVE  /\ rows'[i].account \in DOMAIN accounts /\ FiledIn(rows'[i], owners, cats')
               /\ rows'[i].leg # None => FiledIn(rows'[i].leg, owners, cats')
    <3>1. i \in DOMAIN rows BY <1>2
    <3> QED BY <1>3, <3>1 DEF CatMoved, FiledIn
  <2>2. DOMAIN groups' \subseteq GroupIds /\ DOMAIN cats' \subseteq CatIds BY <1>1
  <2> QED BY <1>2, <2>1, <2>2, FilingKeeps
<1>5. MeansIt
  <2> SUFFICES ASSUME NEW i \in DOMAIN rows
               PROVE  Meaning(rows[i])' \in {Meaning(rows[i]), "uncategorized"}
    BY DEF MeansIt
  <2>1. \A c \in DOMAIN cats \ gone : groups'[cats'[c]] = groups[cats[c]] BY <1>1
  <2> DEFINE x == rows[i]  y == rows'[i]
             b == IF x.leg # None THEN x.leg.cat ELSE x.cat
             c == IF y.leg # None THEN y.leg.cat ELSE y.cat
  <2>2. b \in DOMAIN cats \union {None} BY <1>3 DEF FiledIn
  <2>3. c = IF b \in gone THEN to ELSE b
    <3>1. CASE x.leg = None BY <1>3, <3>1 DEF CatMoved
    <3>2. CASE x.leg # None
      <4>1. y.leg \in Leg /\ y.leg.cat = IF x.leg.cat \in gone THEN to ELSE x.leg.cat
        BY <1>3, <3>2 DEF CatMoved
      <4>2. y.leg # None BY <4>1, NoIdAssumption
      <4> QED BY <3>2, <4>1, <4>2
    <3> QED BY <3>1, <3>2
  <2>4. /\ Meaning(x) = IF b = None THEN "uncategorized" ELSE groups[cats[b]]
        /\ Meaning(x)' = IF c = None THEN "uncategorized" ELSE groups'[cats'[c]]
    BY DEF Meaning
  <2> HIDE DEF b, c
  <2>5. CASE c = None BY <2>4, <2>5
  <2>6. CASE c # None /\ b \in gone
    <3>1. c = to /\ to \in DOMAIN cats \ gone BY <2>3, <2>6
    <3>2. b # None /\ groups[cats[to]] = groups[cats[b]] BY <2>6, <3>1
    <3>3. groups'[cats'[c]] = groups[cats[to]] BY <2>1, <3>1
    <3> QED BY <2>4, <2>6, <3>2, <3>3
  <2>7. CASE c # None /\ b \notin gone
    <3>1. c = b /\ b \in DOMAIN cats \ gone BY <2>2, <2>3, <2>7
    <3>2. groups'[cats'[c]] = groups[cats[b]] BY <2>1, <3>1
    <3> QED BY <2>4, <2>7, <3>1, <3>2
  <2> QED BY <2>5, <2>6, <2>7
<1> QED BY <1>4, <1>5

LEMMA DeleteCategoryKeeps ==
  ASSUME BooksInv, UNCHANGED <<day, bank>>,
         NEW c \in DOMAIN cats, NEW to \in DOMAIN cats \union {None}, DeleteCategory(c, to)
  PROVE  BooksInv' /\ MeansIt
<1>1. /\ DOMAIN cats \subseteq CatIds /\ cats \in [DOMAIN cats -> DOMAIN groups]
      /\ groups \in [DOMAIN groups -> Types]
  BY DEF BooksInv, Tables
<1>2. /\ to # None => to \in DOMAIN cats \ {c} /\ groups[cats[to]] = groups[cats[c]]
      /\ rows' = Reassigned({c}, to) /\ cats' = Without(cats, c)
      /\ UNCHANGED <<groups, owners, accounts, work>>
  BY DEF DeleteCategory
<1>3. /\ DOMAIN cats' = DOMAIN cats \ {c} /\ cats' \in [DOMAIN cats' -> DOMAIN groups']
      /\ \A b \in DOMAIN cats' : cats'[b] = cats[b]
  BY <1>1, <1>2 DEF Without, Restrict
<1> DEFINE gone == {c}
<1>4. /\ to \in (DOMAIN cats \ gone) \union {None} /\ rows' = Reassigned(gone, to)
      /\ DOMAIN cats' = DOMAIN cats \ gone /\ None \notin gone
      /\ \A b \in gone : to # None => groups[cats[to]] = groups[cats[b]]
  BY <1>1, <1>2, <1>3, NoIdAssumption
<1> HIDE DEF gone
<1> QED BY <1>1, <1>2, <1>3, <1>4, CategoriesGo

LEMMA DeleteGroupKeeps ==
  ASSUME BooksInv, UNCHANGED <<day, bank>>, NEW g \in DOMAIN groups, DeleteGroup(g)
  PROVE  BooksInv' /\ MeansIt
<1>1. /\ DOMAIN cats \subseteq CatIds /\ cats \in [DOMAIN cats -> DOMAIN groups]
      /\ groups \in [DOMAIN groups -> Types]
  BY DEF BooksInv, Tables
<1> DEFINE gone == {c \in DOMAIN cats : cats[c] = g}
<1>2. /\ rows' = Reassigned(gone, None) /\ cats' = Restrict(cats, DOMAIN cats \ gone)
      /\ groups' = Without(groups, g) /\ UNCHANGED <<owners, accounts, work>>
  BY DEF DeleteGroup
<1>3. DOMAIN groups' = DOMAIN groups \ {g} /\ \A h \in DOMAIN groups' : groups'[h] = groups[h]
  BY <1>2 DEF Without, Restrict
<1>4. groups' \in [DOMAIN groups' -> Types]
  <2>1. groups' = [h \in DOMAIN groups \ {g} |-> groups[h]] BY <1>2 DEF Without, Restrict
  <2> QED BY <1>1, <2>1
<1>5. /\ DOMAIN cats' = DOMAIN cats \ gone /\ cats' \in [DOMAIN cats' -> DOMAIN groups']
      /\ \A b \in DOMAIN cats' : cats'[b] = cats[b]
  <2>1. cats' = [b \in DOMAIN cats \ gone |-> cats[b]] BY <1>2 DEF Restrict
  <2>2. \A b \in DOMAIN cats \ gone : cats[b] \in DOMAIN groups' BY <1>1, <1>3
  <2> QED BY <2>1, <2>2
<1>6. None \notin gone BY <1>1, NoIdAssumption
<1> HIDE DEF gone
<1> QED BY <1>1, <1>2, <1>3, <1>4, <1>5, <1>6, CategoriesGo

LEMMA FileKeeps ==
  ASSUME BooksInv, UNCHANGED <<day, bank>>,
         NEW i \in DOMAIN rows, NEW o \in DOMAIN owners \union {None},
         NEW c \in DOMAIN cats \union {None}, File(i, o, c)
  PROVE  BooksInv'
<1>1. Tables(owners, groups, cats, rows, accounts) BY DEF BooksInv
<1>2. UNCHANGED <<owners, groups, cats, accounts, work>> BY DEF File, filing
<1> DEFINE x == [rows[i] EXCEPT !.owner = o, !.cat = c]
<1>3. rows' = [rows EXCEPT ![i] = x] /\ rows[i] \in Row BY <1>1 DEF File, Tables
<1>4. x \in Row /\ x.owner = o /\ x.cat = c /\ x.account = rows[i].account /\ x.leg = rows[i].leg
  BY <1>1, <1>3 DEF Row, Tables
<1> HIDE DEF x
<1>5. rows' \in [DOMAIN rows' -> Row] /\ DOMAIN rows' = DOMAIN rows BY <1>1, <1>3, <1>4 DEF Tables
<1>6. ASSUME NEW j \in DOMAIN rows'
      PROVE  /\ rows'[j].account \in DOMAIN accounts /\ FiledIn(rows'[j], owners, cats')
             /\ rows'[j].leg # None => FiledIn(rows'[j].leg, owners, cats')
  BY <1>1, <1>2, <1>3, <1>4, <1>5 DEF Tables, FiledIn
<1> QED BY <1>1, <1>2, <1>5, <1>6, FilingKeeps DEF Tables

-----------------------------------------------------------------------------
(* Accounts by hand and by an agent                                        *)

\* The days two histories differ on are among these.
Differ(x, y, days) ==
  \A d \in DOMAIN x.snaps \union DOMAIN y.snaps :
    d \notin days => d \in DOMAIN x.snaps /\ d \in DOMAIN y.snaps /\ x.snaps[d] = y.snaps[d]

\* One step's half of PastIsNamed.
PastNamed ==
  \A a \in DOMAIN accounts \intersect DOMAIN accounts' :
    \A d \in {e \in DOMAIN accounts[a].snaps \union DOMAIN accounts'[a].snaps : e < day} :
      LET kept == /\ d \in DOMAIN accounts[a].snaps /\ d \in DOMAIN accounts'[a].snaps
                  /\ accounts[a].snaps[d] = accounts'[a].snaps[d]
      IN kept \/ (\/ PutBalance(a, d, 6)
                  \/ DeleteBalance(a, d)
                  \/ \E p \in Patches : p.on = d /\ UpdateAccount(a, p)
                  \/ \E p \in Connections, load \in Payloads : load.on = d /\ Sync(p, load))

LEMMA NoDayWritten ==
  ASSUME \A a \in DOMAIN accounts \intersect DOMAIN accounts' : accounts'[a].snaps = accounts[a].snaps
  PROVE  PastNamed
BY DEF PastNamed

\* A step that writes one account, to the bank and the agents the one it was.
LEMMA OneWritten ==
  ASSUME BooksInv, UNCHANGED <<owners, filing, rows, work, day, bank>>,
         NEW a \in DOMAIN accounts, NEW y \in Fine, SameBank(accounts[a], y),
         StillNamed(accounts[a], y), y.owner \in DOMAIN owners,
         accounts' = [accounts EXCEPT ![a] = y]
  PROVE  /\ BooksInv'
         /\ DOMAIN accounts' = DOMAIN accounts /\ accounts'[a] = y
         /\ \A b \in DOMAIN accounts \ {a} : accounts'[b] = accounts[b]
<1>1. /\ Tables(owners, groups, cats, rows, accounts) /\ BooksFine(accounts, cardName)
      /\ accounts \in [DOMAIN accounts -> Fine]
  BY DEF BooksInv, BooksFine, FineTable
<1>2. /\ DOMAIN accounts' = DOMAIN accounts /\ accounts'[a] = y
      /\ \A b \in DOMAIN accounts \ {a} : accounts'[b] = accounts[b]
      /\ accounts' \in [DOMAIN accounts' -> Fine]
  BY <1>1
<1>3. Kept(accounts, accounts')
  <2>1. \A b \in DOMAIN accounts : SameBank(accounts[b], accounts[b]) /\ StillNamed(accounts[b], accounts[b])
    BY DEF SameBank, StillNamed
  <2> QED BY <1>2, <2>1 DEF Kept
<1>4. /\ BooksFine(accounts', cardName)
      /\ \A type, given : Clash(accounts', type, given) => Clash(accounts, type, given)
  BY <1>1, <1>3, TableKeeps
<1>5. Adding' BY <1>4, AddingKeeps DEF BooksInv
<1>6. Tables(owners, groups, cats, rows, accounts)'
  <2>1. \A b \in DOMAIN accounts' : accounts'[b].owner \in DOMAIN owners BY <1>1, <1>2 DEF Tables
  <2>2. Tables(owners, groups, cats, rows, accounts') BY <1>1, <1>2, <2>1, TablesKeep
  <2> QED BY <2>2 DEF filing
<1> QED BY <1>2, <1>4, <1>5, <1>6 DEF BooksInv, bank

\* Its days, where it is a history that differs on one.
LEMMA DayWritten ==
  ASSUME BooksInv, NEW a \in DOMAIN accounts, NEW on,
         DOMAIN accounts' = DOMAIN accounts,
         \A b \in DOMAIN accounts \ {a} : accounts'[b] = accounts[b],
         Differ(accounts[a], accounts'[a], {on}),
         on < day => \/ PutBalance(a, on, 6) \/ DeleteBalance(a, on)
                     \/ \E p \in Patches : p.on = on /\ UpdateAccount(a, p)
  PROVE  PastNamed
<1> SUFFICES ASSUME NEW b \in DOMAIN accounts,
                    NEW d \in DOMAIN accounts[b].snaps \union DOMAIN accounts'[b].snaps, d < day,
                    ~(/\ d \in DOMAIN accounts[b].snaps /\ d \in DOMAIN accounts'[b].snaps
                      /\ accounts[b].snaps[d] = accounts'[b].snaps[d])
             PROVE  \/ PutBalance(b, d, 6)
                    \/ DeleteBalance(b, d)
                    \/ \E p \in Patches : p.on = d /\ UpdateAccount(b, p)
  BY DEF PastNamed
<1>1. b = a OBVIOUS
<1>2. d = on BY <1>1 DEF Differ
<1> QED BY <1>1, <1>2

LEMMA ToDay ==
  ASSUME BooksInv
  PROVE  day \in Days /\ day \in Nat
BY LimitsAssumption DEF BooksInv, Days

LEMMA UpdateAccountKeeps ==
  ASSUME BooksInv, NEW a \in DOMAIN accounts, NEW p \in Patches, UpdateAccount(a, p)
  PROVE  BooksInv' /\ PastNamed
<1> DEFINE x == accounts[a]
           e == Edited(x, p)
           on == Sent(p.on, day)
           b == Sent(p.balance, e.balance)
           y == IF p.balance = None /\ p.on = None THEN e ELSE RecordBalance(e, e, b, on, TRUE)
<1>1. /\ accounts' = [accounts EXCEPT ![a] = y]
      /\ p.owner \in DOMAIN owners \union {None}
      /\ UNCHANGED <<owners, filing, rows, work, day, bank>>
  BY DEF UpdateAccount
<1>2. x \in Fine /\ x.owner \in DOMAIN owners BY DEF BooksInv, BooksFine, FineTable, Tables
<1>3. day \in Days BY ToDay
<1> HIDE DEF x
<1>4. /\ e \in Fine /\ SameBank(x, e) /\ StillNamed(x, e)
      /\ e.owner = Sent(p.owner, x.owner) /\ e.snaps = x.snaps
  BY <1>2, EditedFine
<1> HIDE DEF e
<1>5. e.owner \in DOMAIN owners BY <1>1, <1>2, <1>4 DEF Sent
<1>6. b \in Int /\ on \in Days
  <2>1. e.balance \in Int BY <1>4 DEF Fine, Account
  <2>2. p.balance \in Int \union {None} /\ p.on \in Days \union {None} BY PatchesAssumption
  <2> QED BY <1>3, <2>1, <2>2 DEF Sent
<1> HIDE DEF b, on
<1>7. /\ y \in Fine /\ SameBank(x, y) /\ StillNamed(x, y) /\ y.owner \in DOMAIN owners
      /\ Differ(x, y, {on})
  <2>1. CASE p.balance = None /\ p.on = None BY <1>4, <1>5, <2>1 DEF Differ
  <2>2. CASE ~(p.balance = None /\ p.on = None)
    <3> DEFINE z == RecordBalance(e, e, b, on, TRUE)
    <3>1. /\ z \in Fine /\ SameBank(e, z) /\ StillNamed(e, z) /\ z.owner = e.owner
          /\ DOMAIN z.snaps = DOMAIN e.snaps \union {on}
          /\ \A d \in DOMAIN e.snaps \ {on} : z.snaps[d] = e.snaps[d]
      BY <1>4, <1>6, RecordFine
    <3>2. y = z BY <2>2
    <3> HIDE DEF y, z
    <3>3. SameBank(x, z) /\ StillNamed(x, z) BY <1>4, <3>1 DEF SameBank, StillNamed
    <3> QED BY <1>4, <1>5, <3>1, <3>2, <3>3 DEF Differ
  <2> QED BY <2>1, <2>2
<1> HIDE DEF y
<1>8. /\ BooksInv'
      /\ DOMAIN accounts' = DOMAIN accounts /\ accounts'[a] = y
      /\ \A c \in DOMAIN accounts \ {a} : accounts'[c] = accounts[c]
  BY <1>1, <1>7, OneWritten DEF x
<1>9. on < day => p.on = on
  <2>1. day \in Int BY ToDay
  <2> QED BY <2>1 DEF on, Sent
<1>10. PastNamed BY <1>7, <1>8, <1>9, DayWritten DEF x
<1> QED BY <1>8, <1>10

LEMMA PutBalanceKeeps ==
  ASSUME BooksInv, NEW a \in DOMAIN accounts, NEW on \in Days, PutBalance(a, on, 6)
  PROVE  BooksInv' /\ PastNamed
<1> DEFINE x == accounts[a]  y == RecordBalance(x, x, 6, on, TRUE)
<1>1. accounts' = [accounts EXCEPT ![a] = y] /\ UNCHANGED <<owners, filing, rows, work, day, bank>>
  BY DEF PutBalance
<1>2. x \in Fine /\ x.owner \in DOMAIN owners BY DEF BooksInv, BooksFine, FineTable, Tables
<1> HIDE DEF x
<1>3. /\ y \in Fine /\ SameBank(x, y) /\ StillNamed(x, y) /\ y.owner = x.owner
      /\ DOMAIN y.snaps = DOMAIN x.snaps \union {on}
      /\ \A d \in DOMAIN x.snaps \ {on} : y.snaps[d] = x.snaps[d]
  <2>1. 6 \in Int OBVIOUS
  <2> QED BY <1>2, <2>1, RecordFine
<1> HIDE DEF y
<1>4. /\ BooksInv'
      /\ DOMAIN accounts' = DOMAIN accounts /\ accounts'[a] = y
      /\ \A c \in DOMAIN accounts \ {a} : accounts'[c] = accounts[c]
  BY <1>1, <1>2, <1>3, OneWritten DEF x
<1>5. Differ(x, y, {on}) BY <1>3 DEF Differ
<1> QED BY <1>4, <1>5, DayWritten DEF x

LEMMA DeleteBalanceKeeps ==
  ASSUME BooksInv, NEW a \in DOMAIN accounts, NEW on \in Days, DeleteBalance(a, on)
  PROVE  BooksInv' /\ PastNamed
<1> DEFINE x == accounts[a]  y == AfterDelete(x, on)
<1>1. /\ accounts' = [accounts EXCEPT ![a] = y] /\ on \in DOMAIN x.snaps
      /\ UNCHANGED <<owners, filing, rows, work, day, bank>>
  BY DEF DeleteBalance, AfterDelete
<1>2. x \in Fine /\ x.owner \in DOMAIN owners BY DEF BooksInv, BooksFine, FineTable, Tables
<1> HIDE DEF x
<1>3. /\ y \in Fine /\ SameBank(x, y) /\ StillNamed(x, y) /\ y.owner = x.owner
      /\ DOMAIN y.snaps = DOMAIN x.snaps \ {on}
      /\ \A d \in DOMAIN x.snaps \ {on} : y.snaps[d] = x.snaps[d]
  BY <1>1, <1>2, DeletedFine
<1> HIDE DEF y
<1>4. /\ BooksInv'
      /\ DOMAIN accounts' = DOMAIN accounts /\ accounts'[a] = y
      /\ \A c \in DOMAIN accounts \ {a} : accounts'[c] = accounts[c]
  BY <1>1, <1>2, <1>3, OneWritten DEF x
<1>5. Differ(x, y, {on}) BY <1>3 DEF Differ
<1> QED BY <1>4, <1>5, DayWritten DEF x

LEMMA HoldKeeps ==
  ASSUME BooksInv, NEW a \in DOMAIN accounts, Hold(a)
  PROVE  BooksInv' /\ PastNamed
<1> DEFINE x == accounts[a]  y == [x EXCEPT !.held = ~x.held]
<1>1. accounts' = [accounts EXCEPT ![a] = y] /\ UNCHANGED <<owners, filing, rows, work, day, bank>>
  BY DEF Hold
<1>2. x \in Fine /\ x.owner \in DOMAIN owners BY DEF BooksInv, BooksFine, FineTable, Tables
<1> HIDE DEF x
<1>3. x \in Account(Histories) BY <1>2 DEF Fine
<1>4. y \in Account(Histories) /\ y.owner = x.owner
  <2>1. x.held \in BOOLEAN BY <1>3 DEF Account
  <2> DEFINE h == ~x.held
  <2>2. h \in BOOLEAN BY <2>1
  <2> HIDE DEF h
  <2>3. [x EXCEPT !.held = h] \in Account(Histories) /\ [x EXCEPT !.held = h].owner = x.owner
    BY <1>3, <2>2 DEF Account
  <2> QED BY <2>3 DEF h
<1>5. \A f \in {"name", "type", "source", "ext", "key", "balance", "asOf", "snaps", "txns", "byAgent"} :
        y[f] = x[f]
  BY <1>3 DEF Account
<1> HIDE DEF y
<1>6. y \in Fine /\ SameBank(x, y) /\ StillNamed(x, y) /\ y.snaps = x.snaps
  BY <1>2, <1>4, <1>5, TouchedFine
<1>7. /\ BooksInv'
      /\ DOMAIN accounts' = DOMAIN accounts /\ accounts'[a] = y
      /\ \A c \in DOMAIN accounts \ {a} : accounts'[c] = accounts[c]
  BY <1>1, <1>2, <1>4, <1>6, OneWritten DEF x
<1> QED BY <1>6, <1>7, NoDayWritten DEF x

\* A step that adds one account the bank does not know.
LEMMA OneAdded ==
  ASSUME BooksInv, UNCHANGED <<owners, filing, rows, day, bank>>,
         DOMAIN accounts # AccountIds,
         NEW x \in Fine, x.key = None, x.ext = None, x.txns = {}, x.owner \in DOMAIN owners,
         x.byAgent => ~Clash(accounts, x.type, x.name),
         accounts' = Put(accounts, Fresh(AccountIds, DOMAIN accounts), x),
         work' \in [Requests -> Tasks \union {None}],
         (\A type, given : Clash(accounts', type, given) =>
            Clash(accounts, type, given) \/ (x.byAgent /\ x.type = type /\ Folded(x.name) = Folded(given)))
         => Adding'
  PROVE  BooksInv' /\ PastNamed
<1> DEFINE a == Fresh(AccountIds, DOMAIN accounts)
<1>1. /\ Tables(owners, groups, cats, rows, accounts) /\ BooksFine(accounts, cardName)
      /\ DOMAIN accounts \subseteq AccountIds
  BY DEF BooksInv, BooksFine, FineTable
<1>2. a \in AccountIds \ DOMAIN accounts BY <1>1 DEF Fresh
<1>3. accounts' = Put(accounts, a, x) OBVIOUS
<1> HIDE DEF a
<1>4. /\ BooksFine(accounts', cardName)
      /\ \A type, given : Clash(accounts', type, given) =>
           Clash(accounts, type, given) \/ (x.byAgent /\ x.type = type /\ Folded(x.name) = Folded(given))
  BY <1>1, <1>2, <1>3, TableGrows
<1>5. /\ DOMAIN accounts' = DOMAIN accounts \union {a} /\ accounts'[a] = x
      /\ \A b \in DOMAIN accounts : accounts'[b] = accounts[b]
  BY <1>2, <1>3 DEF Put
<1>6. Tables(owners, groups, cats, rows, accounts)'
  <2>1. \A b \in DOMAIN accounts' : accounts'[b].owner \in DOMAIN owners BY <1>1, <1>5 DEF Tables
  <2>2. Tables(owners, groups, cats, rows, accounts') BY <1>1, <1>5, <2>1, TablesKeep
  <2> QED BY <2>2 DEF filing
<1>7. BooksInv' BY <1>4, <1>6 DEF BooksInv, bank
<1> QED BY <1>5, <1>7, NoDayWritten

LEMMA CreateAccountKeeps ==
  ASSUME BooksInv, NEW type \in AccountTypes, NEW o \in DOMAIN owners,
         NEW opening \in {None} \union [balance : {5}, on : {None, 0}],
         CreateAccount(<<AgentName, 1>>, type, o, opening)
  PROVE  BooksInv' /\ PastNamed
<1> DEFINE name == <<AgentName, 1>>
           x == Created(name, type, o, opening)
<1>1. /\ accounts' = Put(accounts, Fresh(AccountIds, DOMAIN accounts), x)
      /\ DOMAIN accounts # AccountIds
      /\ UNCHANGED <<owners, filing, rows, work, day, bank>>
  BY DEF CreateAccount
<1>2. name \in Names /\ o \in OwnerIds BY LimitsAssumption DEF Names, BooksInv, Tables
<1>3. Opens(opening) BY DaysAre DEF Opens
<1>4. day \in Days BY ToDay
<1> HIDE DEF name
<1>5. /\ x \in Fine /\ x.owner = o /\ x.key = None /\ x.ext = None /\ x.txns = {} /\ x.byAgent = FALSE
  <2>1. Plain(x, name, type, o) BY <1>2, <1>3, <1>4, CreatedFine
  <2> QED BY <2>1 DEF Plain
<1> HIDE DEF x
<1>6. (\A t, given : Clash(accounts', t, given) =>
         Clash(accounts, t, given) \/ (x.byAgent /\ x.type = t /\ Folded(x.name) = Folded(given)))
      => Adding'
  BY <1>1, <1>5, AddingKeeps DEF BooksInv
<1>7. work' \in [Requests -> Tasks \union {None}] BY <1>1 DEF BooksInv
<1> QED BY <1>1, <1>5, <1>6, <1>7, OneAdded

LEMMA AddNamedKeeps ==
  ASSUME BooksInv, NEW r \in Requests, AddNamed(r)
  PROVE  BooksInv' /\ PastNamed
<1> DEFINE given == work[r].given
           type == work[r].type
           made == Created(given, type, SharedOwner, None)
           x == [made EXCEPT !.byAgent = TRUE]
<1>1. /\ accounts' = Put(accounts, Fresh(AccountIds, DOMAIN accounts), x)
      /\ DOMAIN accounts # AccountIds /\ Choosing(r)
      /\ work' = [work EXCEPT ![r] = None]
      /\ UNCHANGED <<owners, filing, rows, day, bank>>
  BY DEF AddNamed, Choosing
<1>2. given \in Names /\ type \in AccountTypes
  <2>1. work[r] \in Tasks /\ work[r].op = "account" BY <1>1 DEF BooksInv, Choosing
  <2> QED BY <2>1 DEF Tasks
<1>3. SharedOwner \in DOMAIN owners /\ SharedOwner \in OwnerIds BY SharedIs DEF BooksInv, Tables
<1>4. ~Clash(accounts, type, given) /\ \A q \in Requests : Choosing(q) => q = r
  BY <1>1 DEF BooksInv, Adding
<1>5. day \in Days BY ToDay
<1> HIDE DEF given, type
<1>6. /\ made \in Fine /\ made.owner = SharedOwner /\ made.name = given /\ made.type = type
      /\ made.key = None /\ made.ext = None /\ made.txns = {} /\ made.byAgent = FALSE
  <2>1. Opens(None) BY DEF Opens
  <2>2. Plain(made, given, type, SharedOwner) BY <1>2, <1>3, <1>5, <2>1, CreatedFine
  <2> QED BY <2>2 DEF Plain
<1> HIDE DEF made
<1>7. made \in Account(Histories) BY <1>6 DEF Fine
<1>8. /\ x \in Account(Histories) /\ x.byAgent = TRUE /\ x.owner = made.owner
      /\ x.name = made.name /\ x.type = made.type /\ x.source = made.source
      /\ x.ext = made.ext /\ x.key = made.key /\ x.balance = made.balance /\ x.asOf = made.asOf
      /\ x.snaps = made.snaps /\ x.txns = made.txns
  BY <1>7 DEF Account
<1>9. x \in Fine
  <2>1. /\ (made.source # None) = (made.type = "investment") /\ HeadlineOf(made)
        /\ ByHandOnly(made) /\ OwnKey(made)
        /\ made.source = "derived" => made.key = None
    BY <1>6 DEF Fine
  <2>2. x.name # None BY <1>2, <1>6, <1>8, NoneAssumption
  <2> HIDE DEF x
  <2>3. HeadlineOf(x) BY <1>8, <2>1 DEF HeadlineOf
  <2>4. ByHandOnly(x) /\ OwnKey(x) BY <1>8, <2>1 DEF ByHandOnly, OwnKey
  <2> QED BY <1>8, <2>1, <2>2, <2>3, <2>4 DEF Fine
<1> HIDE DEF x
<1>10. work' \in [Requests -> Tasks \union {None}] BY <1>1 DEF BooksInv
<1>11. Adding'
  <2>1. \A q \in Requests : ~Choosing(q)' BY <1>1, <1>4 DEF Choosing, BooksInv
  <2> QED BY <2>1 DEF Adding
<1>12. x.byAgent => ~Clash(accounts, x.type, x.name) BY <1>4, <1>6, <1>8
<1> QED BY <1>1, <1>3, <1>6, <1>8, <1>9, <1>10, <1>11, <1>12, OneAdded

LEMMA BeginNamingKeeps ==
  ASSUME BooksInv, NEW r \in Requests, BeginNaming(r, "depository")
  PROVE  BooksInv' /\ PastNamed
<1> DEFINE type == "depository"
           given == DistinctName(AgentName, type)
           w == [op |-> "account", given |-> given, type |-> type]
<1>1. /\ work' = [work EXCEPT ![r] = w]
      /\ \A q \in Requests : ~Choosing(q)
      /\ Cardinality(Taken(type)) < MaxNumber
      /\ UNCHANGED <<owners, filing, rows, accounts, day, bank>>
  BY DEF BeginNaming, Choosing
<1>2. type \in AccountTypes BY DEF AccountTypes
<1> HIDE DEF type
<1>3. given \in Names /\ Folded(given) \notin Taken(type)
  BY <1>1, DistinctIs DEF BooksInv, BooksFine
<1> HIDE DEF given
<1>4. w \in Tasks /\ w.op = "account" /\ w.given = given /\ w.type = type BY <1>2, <1>3 DEF Tasks
<1> HIDE DEF w
<1>5. ~Clash(accounts, type, given)
  <2> SUFFICES ASSUME NEW a \in DOMAIN accounts, accounts[a].byAgent, accounts[a].type = type,
                      Folded(accounts[a].name) = Folded(given)
               PROVE  FALSE
    BY DEF Clash
  <2>1. accounts[a].name # None BY DEF BooksInv, BooksFine, FineTable, Fine
  <2>2. Folded(accounts[a].name) \in Taken(type) BY <2>1 DEF Taken, Folded
  <2> QED BY <1>3, <2>2
<1>6. work' \in [Requests -> Tasks \union {None}] /\ work'[r] = w BY <1>1, <1>4 DEF BooksInv
<1>7. \A q \in Requests : Choosing(q)' => q = r
  <2>1. \A q \in Requests \ {r} : work'[q] = work[q] BY <1>1 DEF BooksInv
  <2> QED BY <1>1, <2>1 DEF Choosing
<1>8. Adding'
  <2>1. ~Clash(accounts', work'[r].type, work'[r].given) BY <1>1, <1>4, <1>5, <1>6
  <2> QED BY <1>7, <2>1 DEF Adding
<1>9. BooksInv' BY <1>1, <1>6, <1>8 DEF BooksInv, bank, filing
<1> QED BY <1>1, <1>9, NoDayWritten

LEMMA DeleteAccountKeeps ==
  ASSUME BooksInv, NEW a \in DOMAIN accounts, DeleteAccount(a)
  PROVE  BooksInv' /\ PastNamed
<1>1. /\ accounts' = Without(accounts, a)
      /\ rows' = Restrict(rows, {i \in DOMAIN rows : rows[i].account # a})
      /\ UNCHANGED <<owners, filing, work, day, bank>>
  BY DEF DeleteAccount
<1>2. Tables(owners, groups, cats, rows, accounts) /\ accounts \in [DOMAIN accounts -> Fine]
  BY DEF BooksInv, BooksFine, FineTable
<1>3. /\ DOMAIN accounts' = DOMAIN accounts \ {a} /\ accounts' \in [DOMAIN accounts' -> Fine]
      /\ \A b \in DOMAIN accounts' : accounts'[b] = accounts[b]
  BY <1>1, <1>2 DEF Without, Restrict
<1>4. Kept(accounts, accounts') BY <1>3 DEF Kept, SameBank, StillNamed
<1>5. /\ BooksFine(accounts', cardName)
      /\ \A type, given : Clash(accounts', type, given) => Clash(accounts, type, given)
  BY <1>4, TableKeeps DEF BooksInv
<1>6. Adding' BY <1>1, <1>5, AddingKeeps DEF BooksInv
<1>7. /\ DOMAIN rows' \subseteq DOMAIN rows /\ rows' \in [DOMAIN rows' -> Row]
      /\ \A i \in DOMAIN rows' : rows'[i] = rows[i] /\ rows[i].account # a
  <2>1. rows \in [DOMAIN rows -> Row] BY <1>2 DEF Tables
  <2> QED BY <1>1, <2>1 DEF Restrict
<1>8. Tables(owners, groups, cats, rows, accounts)'
  <2>1. UNCHANGED <<owners, groups, cats>> BY <1>1 DEF filing
  <2> QED BY <1>2, <1>3, <1>7, <2>1 DEF Tables
<1>9. BooksInv' BY <1>1, <1>5, <1>6, <1>8 DEF BooksInv, bank
<1> QED BY <1>3, <1>9, NoDayWritten

-----------------------------------------------------------------------------
(* The bank and the days                                                   *)

LEMMA ClaimKeeps ==
  ASSUME BooksInv, NEW p \in Connections, Claim(p)
  PROVE  BooksInv' /\ PastNamed
<1>1. UNCHANGED <<owners, filing, rows, accounts, work, day, cardName>> BY DEF Claim
<1>2. Adding' BY <1>1, AddingKeeps DEF BooksInv
<1>3. BooksInv' BY <1>1, <1>2 DEF BooksInv, filing
<1> QED BY <1>1, <1>3, NoDayWritten

LEMMA DisconnectKeeps ==
  ASSUME BooksInv, NEW p \in Connections, Disconnect(p)
  PROVE  BooksInv' /\ PastNamed
<1>1. /\ accounts' = [a \in DOMAIN accounts |->
            IF accounts[a].conn = p THEN [accounts[a] EXCEPT !.conn = None] ELSE accounts[a]]
      /\ UNCHANGED <<owners, filing, rows, work, day, cardName>>
  BY DEF Disconnect
<1>2. Tables(owners, groups, cats, rows, accounts) /\ accounts \in [DOMAIN accounts -> Fine]
  BY DEF BooksInv, BooksFine, FineTable
<1>3. ASSUME NEW a \in DOMAIN accounts
      PROVE  /\ accounts'[a] \in Fine /\ SameBank(accounts[a], accounts'[a])
             /\ StillNamed(accounts[a], accounts'[a])
             /\ accounts'[a].owner = accounts[a].owner
             /\ accounts'[a].snaps = accounts[a].snaps
  <2> DEFINE x == accounts[a]  y == [x EXCEPT !.conn = None]
  <2>1. x \in Fine BY <1>2
  <2>2. CASE accounts[a].conn = p
    <3>1. accounts'[a] = y BY <1>1, <2>2
    <3> HIDE DEF x
    <3>2. x \in Account(Histories) BY <2>1 DEF Fine
    <3>3. y \in Account(Histories) /\ y.owner = x.owner BY <3>2 DEF Account
    <3>4. \A f \in {"name", "type", "source", "ext", "key", "balance", "asOf", "snaps", "txns", "byAgent"} :
            y[f] = x[f]
      BY <3>2 DEF Account
    <3> HIDE DEF y
    <3>5. y \in Fine /\ SameBank(x, y) /\ StillNamed(x, y) /\ y.snaps = x.snaps
      BY <2>1, <3>3, <3>4, TouchedFine
    <3> QED BY <3>1, <3>3, <3>5 DEF x
  <2>3. CASE accounts[a].conn # p
    <3>1. accounts'[a] = accounts[a] BY <1>1, <2>3
    <3> QED BY <2>1, <3>1, SameFine
  <2> QED BY <2>2, <2>3
<1>4. DOMAIN accounts' = DOMAIN accounts /\ accounts' \in [DOMAIN accounts' -> Fine] BY <1>1, <1>3
<1>5. Kept(accounts, accounts') BY <1>3, <1>4 DEF Kept
<1>6. /\ BooksFine(accounts', cardName)
      /\ \A type, given : Clash(accounts', type, given) => Clash(accounts, type, given)
  BY <1>5, TableKeeps DEF BooksInv
<1>7. Adding' BY <1>1, <1>6, AddingKeeps DEF BooksInv
<1>8. Tables(owners, groups, cats, rows, accounts)'
  <2>1. \A b \in DOMAIN accounts' : accounts'[b].owner \in DOMAIN owners
    BY <1>2, <1>3, <1>4 DEF Tables
  <2>2. Tables(owners, groups, cats, rows, accounts') BY <1>2, <1>4, <2>1, TablesKeep
  <2> QED BY <1>1, <2>2 DEF filing
<1>9. BooksInv' BY <1>1, <1>6, <1>7, <1>8 DEF BooksInv
<1> QED BY <1>3, <1>9, NoDayWritten

LEMMA RenameKeeps ==
  ASSUME BooksInv, NEW c \in Cards, NEW n \in CardNames, Rename(c, n)
  PROVE  BooksInv' /\ PastNamed
<1>1. /\ cardName[c] = FirstName[c] /\ cardName' = [cardName EXCEPT ![c] = n]
      /\ UNCHANGED <<owners, filing, rows, accounts, work, day>>
  BY DEF Rename
<1>2. cardName \in [Cards -> CardNames] BY DEF BooksInv
<1>3. \A d \in Cards : Alone(cardName', d) => Alone(cardName, d) BY <1>1, <1>2 DEF Alone
<1>4. BooksFine(accounts', cardName') BY <1>1, <1>3 DEF BooksInv, BooksFine, AloneKeys
<1>5. Adding' BY <1>1, AddingKeeps DEF BooksInv
<1>6. cardName' \in [Cards -> CardNames] BY <1>1, <1>2
<1>7. BooksInv' BY <1>1, <1>4, <1>5, <1>6 DEF BooksInv, filing
<1> QED BY <1>1, <1>7, NoDayWritten

LEMMA TickKeeps ==
  ASSUME BooksInv, Tick
  PROVE  BooksInv' /\ PastNamed
<1>1. /\ day < MaxDay /\ day' = day + 1
      /\ UNCHANGED <<owners, filing, rows, accounts, work, bank>>
  BY DEF Tick
<1>2. day' \in 1..MaxDay BY <1>1, LimitsAssumption DEF BooksInv
<1>3. Adding' BY <1>1, AddingKeeps DEF BooksInv
<1>4. BooksInv' BY <1>1, <1>2, <1>3 DEF BooksInv, filing, bank
<1> QED BY <1>1, <1>4, NoDayWritten

-----------------------------------------------------------------------------
(* A sync, card by card                                                    *)

Knows(x) == x.txns \union {x.ext}
DayOf(load) == IF load.on = None THEN day ELSE load.on

\* A fetch's cards, in order.
LEMMA PayloadIs ==
  ASSUME NEW load \in Payloads
  PROVE  /\ load.cards \in Seq(Cards) /\ Len(load.cards) \in Nat
         /\ DOMAIN load.cards = 1..Len(load.cards)
         /\ \A k \in 1..Len(load.cards) : load.cards[k] \in Reported(load)
         /\ Reported(load) \subseteq Cards /\ IsFiniteSet(Reported(load))
         /\ day \in Days => DayOf(load) \in Days
<1>1. load.cards \in Seq(Cards) /\ load.on \in Days \union {None}
  BY BankAssumption
<1>2. /\ Len(load.cards) \in Nat /\ DOMAIN load.cards = 1..Len(load.cards)
      /\ \A k \in 1..Len(load.cards) : load.cards[k] \in Cards
  BY <1>1
<1> DEFINE s == load.cards  I == DOMAIN load.cards  R == Reported(load)
<1>3. IsFiniteSet(I)
  <2>1. IsFiniteSet(1..Len(load.cards)) BY <1>2, FS_Interval
  <2> QED BY <1>2, <2>1
<1>4. s \in Surjection(I, R)
  <2>1. R = {s[i] : i \in I} BY DEF Reported
  <2>2. s \in [I -> R] BY <1>1, <1>2, <2>1
  <2> HIDE DEF R
  <2> QED BY <2>1, <2>2 DEF Surjection
<1>5. IsFiniteSet(R)
  <2> HIDE DEF s, I, R
  <2> QED BY <1>3, <1>4, FS_Surjection
<1>6. R \subseteq Cards BY <1>2 DEF Reported
<1>7. \A k \in 1..Len(load.cards) : load.cards[k] \in R BY <1>2 DEF Reported
<1> QED BY <1>1, <1>2, <1>5, <1>6, <1>7 DEF DayOf

\* The key of a card is the one its name has, or its own.
LEMMA KeyIs ==
  ASSUME NEW p \in Connections, NEW load \in Payloads, NEW c \in Cards,
         cardName \in [Cards -> CardNames]
  PROVE  LET key == AccountKey(p, load, c) IN
         /\ key \in Keys /\ key # None
         /\ key = <<cardName[c]>> \/ key = <<cardName[c], Id(p, c)>>
         /\ key \in CardNames \X Ids => key[2][1] = c
<1>1. Id(p, c) \in Ids /\ Id(p, c)[1] = c /\ cardName[c] \in CardNames BY DEF Id, Ids
<1> DEFINE key == AccountKey(p, load, c)
<1>2. key = <<cardName[c]>> \/ key = <<cardName[c], Id(p, c)>> BY DEF AccountKey
<1> HIDE DEF key
<1>3. key \in Keys BY <1>1, <1>2 DEF Keys
<1>4. key # None BY <1>3, NoneAssumption
<1>5. key \in CardNames \X Ids => key[2][1] = c
  <2>1. <<cardName[c]>> \notin CardNames \X Ids OBVIOUS
  <2> QED BY <1>1, <1>2, <2>1
<1> QED BY <1>2, <1>3, <1>4, <1>5 DEF key

\* A lone card's is its name's.
LEMMA LoneKey ==
  ASSUME NEW p \in Connections, NEW load \in Payloads, NEW c \in Reported(load), Alone(cardName, c)
  PROVE  AccountKey(p, load, c) = <<FirstName[c]>>
<1>1. Reported(load) \subseteq Cards BY PayloadIs
<1>2. Alike(load, c) = {c} BY <1>1 DEF Alike, Alone
<1>3. Cardinality({c}) = 1 BY FS_Singleton
<1>4. Cardinality(Alike(load, c)) < 2 BY <1>2, <1>3
<1> QED BY <1>4 DEF AccountKey, Alone

LEMMA AdoptedFine ==
  ASSUME NEW x \in Fine, x.key # None, NEW p \in Connections, NEW load \in Payloads, NEW c \in Cards,
         day \in Days, x.key \in CardNames \X Ids => x.key[2][1] = c
  PROVE  LET y == Adopted(x, p, load, c) IN
         /\ y \in Fine /\ y.key = x.key /\ y.owner = x.owner /\ StillNamed(x, y)
         /\ Knows(y) \subseteq Knows(x) \union {Id(p, c)}
         /\ CardsOf(y) \subseteq CardsOf(x) \union {c}
         /\ Differ(x, y, {DayOf(load)})
<1> DEFINE id == Id(p, c)
           moved == x.ext # id \/ x.conn # p
           kept == IF moved /\ load.txns THEN Rekeyed(x.txns, p, c) ELSE x.txns
           txns == IF load.txns THEN kept \union {id} ELSE kept
           mine == [x EXCEPT !.ext = id, !.conn = p, !.txns = txns]
           on == DayOf(load)
           b == BankBalance(c, on)
           y == Adopted(x, p, load, c)
<1>1. x \in Account(Histories) /\ x.txns \subseteq Ids BY DEF Fine, Account
<1>2. id \in Ids /\ id[1] = c /\ id # None
  <2>1. id \in Ids /\ id[1] = c BY DEF Id, Ids
  <2> QED BY <2>1, NoneAssumption
<1>3. on \in Days /\ b \in Int
  <2>1. on \in Days BY PayloadIs
  <2>2. on \in Int /\ c \in Int BY <2>1, DaysAre, BankAssumption
  <2> HIDE DEF on
  <2> QED BY <2>1, <2>2 DEF BankBalance
<1>4. txns \subseteq x.txns \union {id} BY DEF Rekeyed
<1>5. y = RecordBalance(mine, mine, b, on, mine.source # "derived")
  BY DEF Adopted, DayOf
<1> HIDE DEF y, b, on, txns, id
<1>6. mine \in Account(Histories) BY <1>1, <1>2, <1>4 DEF Account
<1>7. /\ mine.ext = id /\ mine.txns = txns
      /\ mine.key = x.key /\ mine.owner = x.owner /\ mine.name = x.name /\ mine.type = x.type
      /\ mine.byAgent = x.byAgent /\ mine.source = x.source /\ mine.balance = x.balance
      /\ mine.asOf = x.asOf /\ mine.snaps = x.snaps
  BY <1>1 DEF Account
<1> HIDE DEF mine
<1>8. /\ (x.source # None) = (x.type = "investment")
      /\ HeadlineOf(x) /\ OwnKey(x)
      /\ x.source # "derived"
      /\ x.byAgent => x.name # None
  BY DEF Fine
<1>9. mine \in Fine
  <2>1. HeadlineOf(mine) BY <1>7, <1>8 DEF HeadlineOf
  <2>2. ByHandOnly(mine) BY <1>7 DEF ByHandOnly
  <2>3. OwnKey(mine) BY <1>2, <1>4, <1>7, <1>8 DEF OwnKey
  <2> QED BY <1>6, <1>7, <1>8, <2>1, <2>2, <2>3 DEF Fine
<1>10. y = RecordBalance(mine, mine, b, on, TRUE)
  <2>1. (mine.source # "derived") = TRUE BY <1>7, <1>8
  <2> QED BY <1>5, <2>1
<1>11. /\ y \in Fine /\ SameBank(mine, y) /\ StillNamed(mine, y) /\ y.owner = mine.owner
       /\ DOMAIN y.snaps = DOMAIN mine.snaps \union {on}
       /\ \A d \in DOMAIN mine.snaps \ {on} : y.snaps[d] = mine.snaps[d]
  <2> DEFINE z == RecordBalance(mine, mine, b, on, TRUE)
  <2>1. /\ z \in Fine /\ SameBank(mine, z) /\ StillNamed(mine, z) /\ z.owner = mine.owner
        /\ DOMAIN z.snaps = DOMAIN mine.snaps \union {on}
        /\ \A d \in DOMAIN mine.snaps \ {on} : z.snaps[d] = mine.snaps[d]
    BY <1>3, <1>9, RecordFine
  <2>2. y = z BY <1>10
  <2> HIDE DEF z
  <2> QED BY <2>1, <2>2
<1>12. y.key = x.key /\ y.owner = x.owner /\ y.ext = id /\ y.txns = txns
  BY <1>7, <1>11 DEF SameBank
<1>13. StillNamed(x, y) BY <1>7, <1>11 DEF StillNamed
<1>14. Knows(y) \subseteq Knows(x) \union {id} BY <1>4, <1>12 DEF Knows
<1>15. CardsOf(y) \subseteq CardsOf(x) \union {c} BY <1>2, <1>4, <1>12 DEF CardsOf
<1>16. Differ(x, y, {on}) BY <1>7, <1>11 DEF Differ
<1> QED BY <1>11, <1>12, <1>13, <1>14, <1>15, <1>16 DEF y, id, on

\* A row nothing but this card is on.
OnlyCard(x, p, c, key) ==
  /\ x \in Fine /\ x.key = key /\ x.owner = SharedOwner /\ x.byAgent = FALSE
  /\ Knows(x) = {Id(p, c)} /\ CardsOf(x) = {c}

LEMMA InsertedFine ==
  ASSUME NEW p \in Connections, NEW c \in Cards, NEW key \in Keys,
         key \in CardNames \X Ids => key[2][1] = c, SharedOwner \in OwnerIds
  PROVE  OnlyCard(Inserted(p, c, key), p, c, key)
<1> DEFINE source == IF CardType[c] = "investment" THEN "stated" ELSE None
           id == Id(p, c)
           type == CardType[c]
           x == Inserted(p, c, key)
<1>1. id \in Ids /\ id[1] = c /\ id # None
  <2>1. id \in Ids /\ id[1] = c BY DEF Id, Ids
  <2> QED BY <2>1, NoneAssumption
<1>2. type \in AccountTypes BY BankAssumption
<1>3. key # None BY NoneAssumption
<1>4. source \in {None, "stated"} /\ (source # None) = (type = "investment") BY NoneAssumption
<1>5. x = [name |-> None, type |-> type, owner |-> SharedOwner, source |-> source, conn |-> p,
           ext |-> id, key |-> key, balance |-> 0, asOf |-> None, snaps |-> <<>>, held |-> FALSE,
           txns |-> {}, byAgent |-> FALSE]
  BY DEF Inserted, NewAccount
<1> HIDE DEF x, source, type, id
<1>6. <<>> \in Histories /\ DOMAIN <<>> = {}
  <2>1. <<>> \in Seq(Int) /\ Len(<<>>) = 0 OBVIOUS
  <2>2. <<>> \in [1..0 -> Int] BY <2>1
  <2>3. DOMAIN <<>> = {} /\ <<>> \in [DOMAIN <<>> -> Int] BY <2>2
  <2> QED BY <2>3, HistoryIs
<1>7. x \in Account(Histories) BY <1>1, <1>2, <1>4, <1>5, <1>6 DEF Account
<1>8. HeadlineOf(x) BY <1>5, <1>6 DEF HeadlineOf
<1>9. ByHandOnly(x) BY <1>3, <1>5 DEF ByHandOnly
<1>10. OwnKey(x) BY <1>1, <1>5 DEF OwnKey
<1>11. x.source # "derived" BY <1>4, <1>5, NoneAssumption
<1>12. x \in Fine BY <1>4, <1>5, <1>7, <1>8, <1>9, <1>10, <1>11 DEF Fine
<1>13. Knows(x) = {id} BY <1>5 DEF Knows
<1>14. CardsOf(x) = {c} BY <1>1, <1>5 DEF CardsOf
<1>15. x.key = key /\ x.owner = SharedOwner /\ x.byAgent = FALSE BY <1>5
<1> QED BY <1>12, <1>13, <1>14, <1>15 DEF OnlyCard, x, id

\* The accounts after the first k cards, next to those there were: what is new of a card's id is
\* on the row with the key it has in this payload.
Landing(p, load, t, k) ==
  /\ BooksFine(t, cardName)
  /\ DOMAIN accounts \subseteq DOMAIN t
  /\ Cardinality(AccountIds \ DOMAIN t) >= Len(load.cards) - k
  /\ \A a \in DOMAIN t : t[a].owner \in DOMAIN owners
  /\ \A a \in DOMAIN accounts : t[a].key = accounts[a].key /\ Differ(accounts[a], t[a], {DayOf(load)})
  /\ \A type, given : Clash(t, type, given) => Clash(accounts, type, given)
  /\ \A a \in DOMAIN t, e \in Reported(load) : Id(p, e) \in Knows(t[a]) =>
       \/ a \in DOMAIN accounts /\ Id(p, e) \in Knows(accounts[a])
       \/ t[a].key = AccountKey(p, load, e)

LEMMA DifferTwice ==
  ASSUME NEW x, NEW y, NEW z, NEW days, Differ(x, y, days), Differ(y, z, days)
  PROVE  Differ(x, z, days)
BY DEF Differ

LEMMA IdsApart ==
  ASSUME NEW p, NEW c, NEW d, Id(p, c) = Id(p, d)
  PROVE  c = d
BY DEF Id

\* What a card's id is known by, its cards are.
LEMMA KnownCard ==
  ASSUME NEW x \in Fine, NEW p \in Connections, NEW c \in Cards, Id(p, c) \in Knows(x)
  PROVE  c \in CardsOf(x)
<1>1. Id(p, c) # None /\ Id(p, c)[1] = c BY NoneAssumption DEF Id, Ids
<1> QED BY <1>1 DEF Knows, CardsOf

\* A card lands on a row that was there.
LEMMA LandsOn ==
  ASSUME BooksInv, NEW p \in Connections, NEW load \in Payloads, NEW k \in 1..Len(load.cards),
         NEW t, Landing(p, load, t, k - 1), NEW c \in Reported(load), NEW a \in DOMAIN t,
         t[a].key # None,
         t[a].key = AccountKey(p, load, c) \/ t[a].ext = Id(p, c)
  PROVE  Landing(p, load, [t EXCEPT ![a] = Adopted(t[a], p, load, c)], k)
<1> DEFINE x == t[a]
           y == Adopted(x, p, load, c)
           u == [t EXCEPT ![a] = y]
<1>1. /\ FineTable(t) /\ KeysApart(t) /\ AloneKeys(t, cardName) /\ AgentsApart(t)
      /\ t \in [DOMAIN t -> Fine] /\ x \in Fine /\ DOMAIN t \subseteq AccountIds
  BY DEF Landing, BooksFine, FineTable
<1>2. c \in Cards /\ Len(load.cards) \in Nat BY PayloadIs
<1>3. x.key \in CardNames \X Ids => x.key[2][1] = c
  <2>1. CASE x.key = AccountKey(p, load, c) BY <1>2, <2>1, KeyIs DEF BooksInv
  <2>2. CASE x.ext = Id(p, c)
    <3>1. x.ext[1] = c /\ x.ext # None BY <1>2, <2>2, NoneAssumption DEF Id, Ids
    <3>2. OwnKey(x) BY <1>1 DEF Fine
    <3> QED BY <3>1, <3>2 DEF OwnKey
  <2> QED BY <2>1, <2>2
<1>4. /\ y \in Fine /\ y.key = x.key /\ y.owner = x.owner /\ StillNamed(x, y)
      /\ Knows(y) \subseteq Knows(x) \union {Id(p, c)}
      /\ CardsOf(y) \subseteq CardsOf(x) \union {c}
      /\ Differ(x, y, {DayOf(load)})
  <2>1. x.key # None /\ day \in Days BY ToDay
  <2> HIDE DEF x
  <2> QED BY <1>1, <1>2, <1>3, <2>1, AdoptedFine
<1>5. Alone(cardName, c) => x.key = <<FirstName[c]>>
  <2>1. CASE x.key = AccountKey(p, load, c) BY <2>1, LoneKey
  <2>2. CASE x.ext = Id(p, c)
    <3>1. Id(p, c) \in Knows(x) BY <2>2 DEF Knows
    <3>2. c \in CardsOf(x)
      <4> HIDE DEF x
      <4> QED BY <1>1, <1>2, <3>1, KnownCard
    <3> QED BY <1>1, <1>2, <3>2 DEF AloneKeys
  <2> QED BY <2>1, <2>2
<1> HIDE DEF y
<1>6. /\ DOMAIN u = DOMAIN t /\ u[a] = y /\ \A b \in DOMAIN t \ {a} : u[b] = t[b]
      /\ u \in [DOMAIN u -> Fine]
  BY <1>1, <1>4
<1> HIDE DEF u
<1>7. BooksFine(u, cardName)
  <2>1. FineTable(u) BY <1>1, <1>6 DEF FineTable
  <2>2. \A b \in DOMAIN t : u[b].key = t[b].key BY <1>4, <1>6
  <2>3. KeysApart(u) BY <1>1, <1>6, <2>2 DEF KeysApart
  <2>4. AloneKeys(u, cardName)
    <3> SUFFICES ASSUME NEW b \in DOMAIN t, NEW e \in Cards, Alone(cardName, e), e \in CardsOf(u[b])
                 PROVE  t[b].key = <<FirstName[e]>>
      BY <1>6, <2>2 DEF AloneKeys
    <3>1. CASE e \in CardsOf(t[b]) BY <1>1, <3>1 DEF AloneKeys
    <3>2. CASE e \notin CardsOf(t[b])
      <4>1. b = a /\ e = c BY <1>4, <1>6, <3>2
      <4> QED BY <1>5, <4>1
    <3> QED BY <3>1, <3>2
  <2>5. \A b \in DOMAIN t : StillNamed(t[b], u[b]) BY <1>4, <1>6 DEF StillNamed
  <2>6. AgentsApart(u)
    <3> SUFFICES ASSUME NEW b \in DOMAIN t, NEW d \in DOMAIN t, u[b].byAgent, u[d].byAgent,
                        u[b].type = u[d].type, Folded(u[b].name) = Folded(u[d].name)
                 PROVE  b = d
      BY <1>6 DEF AgentsApart
    <3>1. /\ t[b].byAgent /\ t[d].byAgent /\ t[b].type = t[d].type
          /\ Folded(t[b].name) = Folded(t[d].name)
      BY <2>5 DEF StillNamed
    <3> QED BY <1>1, <3>1 DEF AgentsApart
  <2> QED BY <2>1, <2>3, <2>4, <2>6 DEF BooksFine
<1>8. \A b \in DOMAIN u : u[b].owner \in DOMAIN owners BY <1>4, <1>6 DEF Landing
<1>9. DOMAIN accounts \subseteq DOMAIN u /\ Cardinality(AccountIds \ DOMAIN u) >= Len(load.cards) - k
  <2>1. Cardinality(AccountIds \ DOMAIN t) >= Len(load.cards) - (k - 1) BY DEF Landing
  <2>2. IsFiniteSet(AccountIds \ DOMAIN t) BY LimitsAssumption, FS_Difference
  <2>3. Cardinality(AccountIds \ DOMAIN t) \in Nat BY <2>2, FS_CardinalityType
  <2>4. Cardinality(AccountIds \ DOMAIN t) >= Len(load.cards) - k BY <1>2, <2>1, <2>3
  <2> QED BY <1>6, <2>4 DEF Landing
<1>10. ASSUME NEW b \in DOMAIN accounts
       PROVE  u[b].key = accounts[b].key /\ Differ(accounts[b], u[b], {DayOf(load)})
  <2>1. b \in DOMAIN t /\ t[b].key = accounts[b].key /\ Differ(accounts[b], t[b], {DayOf(load)})
    BY DEF Landing
  <2>2. CASE b = a
    <3>1. Differ(t[b], u[b], {DayOf(load)}) BY <1>4, <1>6, <2>2
    <3> QED BY <1>4, <1>6, <2>1, <2>2, <3>1, DifferTwice
  <2>3. CASE b # a BY <1>6, <2>1, <2>3
  <2> QED BY <2>2, <2>3
<1>11. ASSUME NEW type, NEW given, Clash(u, type, given) PROVE Clash(accounts, type, given)
  <2>1. Clash(t, type, given) BY <1>4, <1>6, <1>11 DEF Clash, StillNamed
  <2> QED BY <2>1 DEF Landing
<1>12. ASSUME NEW b \in DOMAIN u, NEW e \in Reported(load), Id(p, e) \in Knows(u[b])
       PROVE  \/ b \in DOMAIN accounts /\ Id(p, e) \in Knows(accounts[b])
              \/ u[b].key = AccountKey(p, load, e)
  <2>1. u[b].key = t[b].key /\ b \in DOMAIN t BY <1>4, <1>6
  <2>2. CASE Id(p, e) \in Knows(t[b]) BY <2>1, <2>2 DEF Landing
  <2>3. CASE Id(p, e) \notin Knows(t[b])
    <3>1. b = a /\ Id(p, e) = Id(p, c) BY <1>4, <1>6, <1>12, <2>3
    <3>2. e = c BY <3>1, IdsApart
    <3>3. t[a].ext # Id(p, c) BY <2>3, <3>1, <3>2 DEF Knows
    <3> QED BY <2>1, <3>1, <3>2, <3>3
  <2> QED BY <2>2, <2>3
<1>13. Landing(p, load, u, k) BY <1>7, <1>8, <1>9, <1>10, <1>11, <1>12 DEF Landing
<1> QED BY <1>13 DEF u, y

\* A card lands on a row of its own.
LEMMA LandsNew ==
  ASSUME BooksInv, NEW p \in Connections, NEW load \in Payloads, NEW k \in 1..Len(load.cards),
         NEW t, Landing(p, load, t, k - 1), NEW c \in Reported(load),
         \A b \in DOMAIN t : t[b].key # AccountKey(p, load, c)
  PROVE  Landing(p, load, Put(t, Fresh(AccountIds, DOMAIN t),
                              Adopted(Inserted(p, c, AccountKey(p, load, c)), p, load, c)), k)
<1> DEFINE key == AccountKey(p, load, c)
           a == Fresh(AccountIds, DOMAIN t)
           x == Inserted(p, c, key)
           y == Adopted(x, p, load, c)
           u == Put(t, a, y)
           free == AccountIds \ DOMAIN t
<1>1. /\ FineTable(t) /\ KeysApart(t) /\ AloneKeys(t, cardName) /\ AgentsApart(t)
      /\ t \in [DOMAIN t -> Fine] /\ DOMAIN t \subseteq AccountIds
      /\ DOMAIN accounts \subseteq DOMAIN t
      /\ Cardinality(free) >= Len(load.cards) - (k - 1)
  BY DEF Landing, BooksFine, FineTable
<1>2. c \in Cards /\ Len(load.cards) \in Nat BY PayloadIs
<1>3. /\ key \in Keys /\ key # None
      /\ key \in CardNames \X Ids => key[2][1] = c
  BY <1>2, KeyIs DEF BooksInv
<1>4. IsFiniteSet(free) /\ Cardinality(free) \in Nat
  <2>1. IsFiniteSet(free) BY LimitsAssumption, FS_Difference
  <2> QED BY <2>1, FS_CardinalityType
<1>5. a \in free
  <2>1. Cardinality(free) > 0 BY <1>1, <1>2, <1>4
  <2>2. free # {}
    <3> SUFFICES ASSUME free = {} PROVE FALSE OBVIOUS
    <3>1. Cardinality({}) = 0 BY FS_EmptySet
    <3>2. Cardinality(free) = 0 BY <3>1
    <3> HIDE DEF free
    <3> QED BY <2>1, <3>2
  <2> QED BY <2>2 DEF Fresh
<1>6. SharedOwner \in DOMAIN owners /\ SharedOwner \in OwnerIds BY SharedIs DEF BooksInv, Tables
<1>7. Alone(cardName, c) => key = <<FirstName[c]>> BY LoneKey
<1> HIDE DEF key
<1>8. /\ x \in Fine /\ x.key = key /\ x.owner = SharedOwner /\ x.byAgent = FALSE
      /\ Knows(x) = {Id(p, c)} /\ CardsOf(x) = {c}
  <2>1. OnlyCard(x, p, c, key) BY <1>2, <1>3, <1>6, InsertedFine
  <2> HIDE DEF x
  <2> QED BY <2>1 DEF OnlyCard
<1> HIDE DEF x
<1>9. /\ y \in Fine /\ y.key = x.key /\ y.owner = x.owner /\ StillNamed(x, y)
      /\ Knows(y) \subseteq Knows(x) \union {Id(p, c)}
      /\ CardsOf(y) \subseteq CardsOf(x) \union {c}
  <2>1. day \in Days BY ToDay
  <2>2. x.key # None /\ (x.key \in CardNames \X Ids => x.key[2][1] = c) BY <1>3, <1>8
  <2> QED BY <1>2, <1>8, <2>1, <2>2, AdoptedFine
<1>10. ~y.byAgent BY <1>8, <1>9 DEF StillNamed
<1> HIDE DEF y, a
<1>11. /\ DOMAIN u = DOMAIN t \union {a} /\ u[a] = y /\ a \notin DOMAIN t
       /\ \A b \in DOMAIN t : u[b] = t[b]
       /\ u \in [DOMAIN u -> Fine] /\ DOMAIN u \subseteq AccountIds
  BY <1>1, <1>5, <1>9 DEF Put
<1> HIDE DEF u
<1>12. BooksFine(u, cardName)
  <2>1. FineTable(u) BY <1>11 DEF FineTable
  <2>2. \A b \in DOMAIN t : t[b].key # y.key BY <1>8, <1>9 DEF key
  <2>3. KeysApart(u) BY <1>1, <1>11, <2>2 DEF KeysApart
  <2>4. AloneKeys(u, cardName)
    <3> SUFFICES ASSUME NEW b \in DOMAIN u, NEW e \in Cards, Alone(cardName, e), e \in CardsOf(u[b])
                 PROVE  u[b].key = <<FirstName[e]>>
      BY DEF AloneKeys
    <3>1. CASE b = a BY <1>7, <1>8, <1>9, <1>11, <3>1
    <3>2. CASE b \in DOMAIN t BY <1>1, <1>11, <3>2 DEF AloneKeys
    <3> QED BY <1>11, <3>1, <3>2
  <2>5. AgentsApart(u) BY <1>1, <1>10, <1>11 DEF AgentsApart
  <2> QED BY <2>1, <2>3, <2>4, <2>5 DEF BooksFine
<1>13. \A b \in DOMAIN u : u[b].owner \in DOMAIN owners BY <1>6, <1>8, <1>9, <1>11 DEF Landing
<1>14. Cardinality(AccountIds \ DOMAIN u) >= Len(load.cards) - k
  <2>1. AccountIds \ DOMAIN u = free \ {a} BY <1>11
  <2>2. Cardinality(free \ {a}) = Cardinality(free) - 1
    <3> HIDE DEF free
    <3> QED BY <1>4, <1>5, FS_RemoveElement
  <2> DEFINE n == Cardinality(free)  len == Len(load.cards)
  <2>3. n \in Nat /\ len \in Nat /\ n >= len - (k - 1) BY <1>1, <1>2, <1>4
  <2> HIDE DEF n, len
  <2>4. n - 1 >= len - k BY <2>3
  <2> HIDE DEF free
  <2> QED BY <2>1, <2>2, <2>4 DEF n, len
<1>15. \A b \in DOMAIN accounts : u[b].key = accounts[b].key /\ Differ(accounts[b], u[b], {DayOf(load)})
  BY <1>1, <1>11 DEF Landing
<1>16. ASSUME NEW type, NEW given, Clash(u, type, given) PROVE Clash(accounts, type, given)
  <2>1. Clash(t, type, given) BY <1>10, <1>11, <1>16 DEF Clash
  <2> QED BY <2>1 DEF Landing
<1>17. ASSUME NEW b \in DOMAIN u, NEW e \in Reported(load), Id(p, e) \in Knows(u[b])
       PROVE  \/ b \in DOMAIN accounts /\ Id(p, e) \in Knows(accounts[b])
              \/ u[b].key = AccountKey(p, load, e)
  <2>1. CASE b \in DOMAIN t BY <1>11, <1>17, <2>1 DEF Landing
  <2>2. CASE b = a
    <3>1. Id(p, e) = Id(p, c) BY <1>8, <1>9, <1>11, <1>17, <2>2
    <3>2. e = c BY <3>1, IdsApart
    <3> QED BY <1>8, <1>9, <1>11, <2>2, <3>2 DEF key
  <2> QED BY <1>11, <2>1, <2>2
<1>18. DOMAIN accounts \subseteq DOMAIN u BY <1>1, <1>11
<1>19. Landing(p, load, u, k) BY <1>12, <1>13, <1>14, <1>15, <1>16, <1>17, <1>18 DEF Landing
<1> QED BY <1>19 DEF u, y, x, a, key

LEMMA LandStep ==
  ASSUME BooksInv, NEW p \in Connections, NEW load \in Payloads, NEW k \in 1..Len(load.cards),
         NEW t, Landing(p, load, t, k - 1)
  PROVE  Landing(p, load, Landed(t, p, load, load.cards[k]), k)
<1> DEFINE c == load.cards[k]
           key == AccountKey(p, load, c)
           found == FoundRow(t, p, c, key)
           a == CHOOSE a \in found : TRUE
<1>1. c \in Reported(load) /\ c \in Cards BY PayloadIs
<1>2. key # None BY <1>1, KeyIs DEF BooksInv
<1>3. \A b \in found : b \in DOMAIN t /\ (t[b].key = key \/ t[b].ext = Id(p, c))
  BY DEF FoundRow, RowsWithKey, RowsWithId
<1>4. found = {} => \A b \in DOMAIN t : t[b].key # key BY DEF FoundRow, RowsWithKey
<1>5. Landed(t, p, load, c) =
        IF found = {} THEN Put(t, Fresh(AccountIds, DOMAIN t), Adopted(Inserted(p, c, key), p, load, c))
        ELSE [t EXCEPT ![a] = Adopted(t[a], p, load, c)]
  BY DEF Landed
<1> HIDE DEF c
<1>6. CASE found = {}
  <2>1. \A b \in DOMAIN t : t[b].key # AccountKey(p, load, c) BY <1>4, <1>6
  <2>2. Landing(p, load, Put(t, Fresh(AccountIds, DOMAIN t),
                             Adopted(Inserted(p, c, AccountKey(p, load, c)), p, load, c)), k)
    BY <1>1, <2>1, LandsNew
  <2> QED BY <1>5, <1>6, <2>2 DEF c
<1>7. CASE found # {}
  <2>1. a \in found BY <1>7
  <2> HIDE DEF found, a
  <2>2. a \in DOMAIN t /\ (t[a].key = key \/ t[a].ext = Id(p, c)) BY <1>3, <2>1
  <2>3. t[a].key # None
    <3>1. t[a] \in Fine BY <2>2 DEF Landing, BooksFine, FineTable
    <3>2. Id(p, c) # None BY <1>1, NoneAssumption DEF Id, Ids
    <3>3. ByHandOnly(t[a]) BY <3>1 DEF Fine
    <3> QED BY <1>2, <2>2, <3>2, <3>3 DEF ByHandOnly
  <2>4. Landing(p, load, [t EXCEPT ![a] = Adopted(t[a], p, load, c)], k)
    BY <1>1, <2>2, <2>3, LandsOn
  <2> QED BY <1>5, <1>7, <2>4 DEF c
<1> QED BY <1>6, <1>7

\* The accounts, card by card, wherever each card lands on what the cards before left.
LandsAlong(p, load, f) ==
  /\ f[0] = accounts
  /\ \A k \in 1..Len(load.cards) :
       Landing(p, load, f[k - 1], k - 1) => f[k] = Landed(f[k - 1], p, load, load.cards[k])

LEMMA AlongLanding ==
  ASSUME BooksInv, NEW p \in Connections, NEW load \in Payloads,
         Cardinality(AccountIds \ DOMAIN accounts) >= Len(load.cards),
         NEW f, LandsAlong(p, load, f)
  PROVE  \A k \in 0..Len(load.cards) : Landing(p, load, f[k], k)
<1> DEFINE N == Len(load.cards)
           S == {k \in 0..N : Landing(p, load, f[k], k)}
<1>1. N \in Nat BY PayloadIs
<1>2. Landing(p, load, accounts, 0)
  <2>1. \A a \in DOMAIN accounts : Differ(accounts[a], accounts[a], {DayOf(load)}) BY DEF Differ
  <2>2. \A a \in DOMAIN accounts : accounts[a].owner \in DOMAIN owners BY DEF BooksInv, Tables
  <2>3. Cardinality(AccountIds \ DOMAIN accounts) >= N - 0 BY <1>1
  <2> QED BY <2>1, <2>2, <2>3 DEF Landing, BooksInv
<1>3. 0 \in S BY <1>1, <1>2 DEF LandsAlong
<1>4. ASSUME NEW k \in 0..(N - 1), k \in S PROVE k + 1 \in S
  <2> DEFINE j == k + 1
  <2>1. j \in 1..N /\ j - 1 = k /\ j \in 0..N BY <1>1
  <2> HIDE DEF j
  <2>2. Landing(p, load, f[j - 1], j - 1) BY <1>4, <2>1
  <2>3. f[j] = Landed(f[j - 1], p, load, load.cards[j]) BY <2>1, <2>2 DEF LandsAlong
  <2>4. Landing(p, load, Landed(f[j - 1], p, load, load.cards[j]), j) BY <2>1, <2>2, LandStep
  <2>5. Landing(p, load, f[j], j) BY <2>3, <2>4
  <2>6. j \in S BY <2>1, <2>5
  <2> QED BY <2>6 DEF j
<1> HIDE DEF S, N
<1>5. \A k \in 0..N : k \in S BY <1>1, <1>3, <1>4, UpTo
<1> QED BY <1>5 DEF S, N

\* The recursion of a sync exists, and every card has landed at its end.
LEMMA LandsAll ==
  ASSUME BooksInv, NEW p \in Connections, NEW load \in Payloads,
         Cardinality(AccountIds \ DOMAIN accounts) >= Len(load.cards)
  PROVE  Landing(p, load, Lands(p, load)[Len(load.cards)], Len(load.cards))
<1> DEFINE N == Len(load.cards)
           T == UNION {[S -> Fine] : S \in SUBSET AccountIds}
           next == [kt \in (1..N) \X T |-> Landed(kt[2], p, load, load.cards[kt[1]])]
           G == [kt \in (1..N) \X T |-> IF next[kt] \in T THEN next[kt] ELSE kt[2]]
           Is(f) == f = [i \in 0..N |-> IF i = 0 THEN accounts
                                        ELSE Landed(f[i - 1], p, load, load.cards[i])]
<1>1. N \in Nat BY PayloadIs
<1>2. ASSUME NEW t, NEW k, Landing(p, load, t, k) PROVE t \in T
  BY <1>2 DEF Landing, BooksFine, FineTable
<1>3. accounts \in T BY DEF BooksInv, BooksFine, FineTable
<1>4. G \in Steps(N, T)
  <2>1. \A kt \in (1..N) \X T : (IF next[kt] \in T THEN next[kt] ELSE kt[2]) \in T
    <3> HIDE DEF T, next
    <3> QED OBVIOUS
  <2> HIDE DEF T, next
  <2> QED BY <2>1 DEF Steps
<1>5. PICK f : Follows(f, N, T, accounts, G)
  <2> HIDE DEF N, T, G
  <2> QED BY <1>1, <1>3, <1>4, Recursion
<1>6. /\ f \in [0..N -> T] /\ f[0] = accounts
      /\ \A k \in 1..N : f[k - 1] \in T /\ f[k] = G[<<k, f[k - 1]>>]
  <2>1. \A k \in 1..N : k - 1 \in 0..N BY <1>1
  <2> HIDE DEF T, G
  <2> QED BY <1>5, <2>1 DEF Follows
<1>7. ASSUME NEW k \in 1..N, Landing(p, load, f[k - 1], k - 1)
      PROVE  f[k] = Landed(f[k - 1], p, load, load.cards[k])
  <2> DEFINE t == f[k - 1]  u == Landed(t, p, load, load.cards[k])
  <2>1. Landing(p, load, u, k) BY <1>7, LandStep
  <2> HIDE DEF u
  <2>2. u \in T BY <1>2, <2>1
  <2>3. t \in T /\ f[k] = G[<<k, t>>] BY <1>6
  <2>4. next[<<k, t>>] = u
    <3> HIDE DEF T, t
    <3> QED BY <2>3 DEF u
  <2> HIDE DEF T, t, next
  <2>5. f[k] = u BY <2>2, <2>3, <2>4
  <2> QED BY <2>5 DEF u, t
<1>8. LandsAlong(p, load, f) BY <1>6, <1>7 DEF LandsAlong
<1>9. \A k \in 0..N : Landing(p, load, f[k], k) BY <1>8, AlongLanding
<1> HIDE DEF G, T
<1>10. Is(f)
  <2>1. \A k \in 1..N : f[k] = Landed(f[k - 1], p, load, load.cards[k])
    <3> SUFFICES ASSUME NEW k \in 1..N PROVE f[k] = Landed(f[k - 1], p, load, load.cards[k])
      OBVIOUS
    <3>1. k - 1 \in 0..N BY <1>1
    <3> QED BY <1>7, <1>9, <3>1
  <2>2. \A i \in 0..N : f[i] = IF i = 0 THEN accounts ELSE Landed(f[i - 1], p, load, load.cards[i])
    <3> SUFFICES ASSUME NEW i \in 0..N
                 PROVE  f[i] = IF i = 0 THEN accounts ELSE Landed(f[i - 1], p, load, load.cards[i])
      OBVIOUS
    <3>1. CASE i = 0 BY <1>6, <3>1
    <3>2. CASE i # 0
      <4>1. i \in 1..N BY <1>1, <3>2
      <4> QED BY <2>1, <3>2, <4>1
    <3> QED BY <3>1, <3>2
  <2> QED BY <1>6, <2>2
<1> DEFINE g == Lands(p, load)
<1>11. g = CHOOSE h : Is(h) BY DEF Lands
<1>12. Is(g)
  <2> HIDE DEF Is, g
  <2> QED BY <1>10, <1>11
<1> HIDE DEF g
<1>13. LandsAlong(p, load, g)
  <2>1. g[0] = accounts BY <1>1, <1>12
  <2>2. \A k \in 1..N : g[k] = Landed(g[k - 1], p, load, load.cards[k])
    <3> SUFFICES ASSUME NEW k \in 1..N PROVE g[k] = Landed(g[k - 1], p, load, load.cards[k])
      OBVIOUS
    <3>1. k \in 0..N /\ k # 0 BY <1>1
    <3> QED BY <1>12, <3>1
  <2> QED BY <2>1, <2>2 DEF LandsAlong
<1>14. \A k \in 0..N : Landing(p, load, g[k], k) BY <1>13, AlongLanding
<1>15. N \in 0..N BY <1>1
<1>16. Landing(p, load, g[N], N) BY <1>14, <1>15
<1> QED BY <1>16 DEF g

LEMMA SyncLands ==
  ASSUME BooksInv, NEW p \in Connections, NEW load \in Payloads, Sync(p, load)
  PROVE  Landing(p, load, accounts', Len(load.cards))
BY LandsAll DEF Sync

LEMMA SyncKeeps ==
  ASSUME BooksInv, NEW p \in Connections, NEW load \in Payloads, Sync(p, load)
  PROVE  BooksInv' /\ PastNamed
<1>1. Landing(p, load, accounts', Len(load.cards)) BY SyncLands
<1>2. UNCHANGED <<owners, filing, rows, work, day, bank>> BY DEF Sync
<1>3. Adding' BY <1>1, <1>2, AddingKeeps DEF BooksInv, Landing
<1>4. Tables(owners, groups, cats, rows, accounts)'
  <2>1. /\ DOMAIN accounts \subseteq DOMAIN accounts'
        /\ \A a \in DOMAIN accounts' : accounts'[a].owner \in DOMAIN owners
    BY <1>1 DEF Landing
  <2>2. Tables(owners, groups, cats, rows, accounts') BY <2>1, TablesKeep DEF BooksInv
  <2> QED BY <1>2, <2>2 DEF filing
<1>5. BooksInv' BY <1>1, <1>2, <1>3, <1>4 DEF BooksInv, Landing, bank
<1>6. PastNamed
  <2> SUFFICES ASSUME NEW a \in DOMAIN accounts,
                      NEW d \in DOMAIN accounts[a].snaps \union DOMAIN accounts'[a].snaps, d < day,
                      ~(/\ d \in DOMAIN accounts[a].snaps /\ d \in DOMAIN accounts'[a].snaps
                        /\ accounts[a].snaps[d] = accounts'[a].snaps[d])
               PROVE  load.on = d
    BY DEF PastNamed
  <2>1. Differ(accounts[a], accounts'[a], {DayOf(load)}) BY <1>1 DEF Landing
  <2>2. d = DayOf(load) BY <2>1 DEF Differ
  <2>3. day \in Int BY ToDay
  <2> QED BY <2>2, <2>3 DEF DayOf
<1> QED BY <1>5, <1>6

\* Two cards of one name are not one.
LEMMA TwoAlike ==
  ASSUME NEW load \in Payloads, NEW c \in Reported(load), NEW d \in Reported(load),
         c # d, cardName[c] = cardName[d]
  PROVE  ~(Cardinality(Alike(load, c)) < 2)
<1> DEFINE S == Alike(load, c)
<1>1. IsFiniteSet(Reported(load)) BY PayloadIs
<1>2. S \subseteq Reported(load) /\ c \in S /\ d \in S BY DEF Alike
<1> HIDE DEF S
<1>3. IsFiniteSet(S) BY <1>1, <1>2, FS_Subset
<1>4. IsFiniteSet({c}) /\ Cardinality({c}) = 1 BY FS_Singleton
<1>5. d \notin {c} OBVIOUS
<1>6. Cardinality({c} \union {d}) = 2
  <2>1. Cardinality({c} \union {d}) = Cardinality({c}) + 1 BY <1>4, <1>5, FS_AddElement
  <2> QED BY <1>4, <2>1
<1>7. {c} \union {d} \subseteq S BY <1>2
<1>8. Cardinality({c} \union {d}) <= Cardinality(S) BY <1>3, <1>7, FS_Subset
<1>9. Cardinality(S) \in Nat BY <1>3, FS_CardinalityType
<1>10. ~(Cardinality(S) < 2) BY <1>6, <1>8, <1>9
<1> QED BY <1>10 DEF S

\* Two cards of one name: the second is not put on the row of the first.
LEMMA SecondStaysApart ==
  ASSUME BooksInv, NEW p \in Connections, NEW load \in Payloads, load.txns, Sync(p, load),
         NEW c \in Reported(load), NEW d \in Reported(load), c # d, cardName[c] = cardName[d],
         NEW a \in DOMAIN accounts', Id(p, d) \in accounts'[a].txns,
         a \in DOMAIN accounts, Id(p, c) \in Knows(accounts[a])
  PROVE  Id(p, d) \in Knows(accounts[a])
<1> SUFFICES ASSUME Id(p, d) \notin Knows(accounts[a]) PROVE FALSE OBVIOUS
<1> DEFINE x == accounts[a]  key == AccountKey(p, load, d)
<1>1. Landing(p, load, accounts', Len(load.cards)) BY SyncLands
<1>2. accounts'[a].key = key BY <1>1 DEF Landing, Knows
<1>3. x.key = key BY <1>1, <1>2 DEF Landing
<1>4. c \in Cards /\ d \in Cards /\ IsFiniteSet(Reported(load)) BY PayloadIs
<1>5. key # None /\ (key = <<cardName[d]>> \/ key = <<cardName[d], Id(p, d)>>)
  BY <1>4, KeyIs DEF BooksInv
<1>6. x \in Fine BY DEF BooksInv, BooksFine, FineTable
<1>7. Id(p, c)[1] = c /\ Id(p, c) # None /\ Id(p, c) \in Ids /\ Id(p, d)[1] = d /\ Id(p, d) \in Ids
  <2>1. Id(p, c) \in Ids /\ Id(p, c)[1] = c /\ Id(p, d) \in Ids /\ Id(p, d)[1] = d
    BY <1>4 DEF Id, Ids
  <2> QED BY <2>1, NoneAssumption
<1> HIDE DEF x
<1>8. key # <<cardName[d], Id(p, d)>>
  <2> SUFFICES ASSUME key = <<cardName[d], Id(p, d)>> PROVE FALSE OBVIOUS
  <2>1. x.key \in CardNames \X Ids /\ x.key[2][1] = d
    <3>1. cardName[d] \in CardNames BY <1>4 DEF BooksInv
    <3> QED BY <1>3, <1>7, <3>1
  <2>2. OwnKey(x) BY <1>6 DEF Fine
  <2>3. \A t \in x.txns : t[1] = d BY <2>1, <2>2 DEF OwnKey
  <2>4. x.ext # None => x.ext[1] = d BY <2>1, <2>2 DEF OwnKey
  <2>5. Id(p, c) \in x.txns \/ Id(p, c) = x.ext BY DEF Knows, x
  <2> QED BY <1>7, <2>3, <2>4, <2>5
<1>9. key = <<cardName[d]>> BY <1>5, <1>8
<1>10. Keeps(p, load, c)
  <2>1. a \in RowsWithKey(accounts, <<cardName[c]>>) BY <1>3, <1>9 DEF RowsWithKey, x
  <2>2. accounts[a].ext = Id(p, c) \/ (load.txns /\ Id(p, c) \in accounts[a].txns) BY DEF Knows
  <2> QED BY <2>1, <2>2 DEF Keeps
<1>11. ~(Cardinality(Alike(load, d)) < 2) BY TwoAlike
<1>12. c \in Alike(load, d) BY DEF Alike
<1>13. Keeps(p, load, d)
  <2> SUFFICES ASSUME ~Keeps(p, load, d) PROVE key = <<cardName[d], Id(p, d)>>
    BY <1>8
  <2> QED BY <1>10, <1>11, <1>12 DEF AccountKey
<1>14. PICK b \in RowsWithKey(accounts, <<cardName[d]>>) : Id(p, d) \in Knows(accounts[b])
  BY <1>13 DEF Keeps, Knows
<1>15. b = a
  <2>1. b \in DOMAIN accounts /\ accounts[b].key = x.key /\ x.key # None
    BY <1>3, <1>5, <1>9, <1>14 DEF RowsWithKey
  <2> QED BY <2>1 DEF BooksInv, BooksFine, KeysApart, x
<1> QED BY <1>14, <1>15

\* Two cards of one name share no new row.
LEMMA NewRowIsOnes ==
  ASSUME BooksInv, NEW p \in Connections, NEW load \in Payloads, Sync(p, load),
         NEW c \in Reported(load), NEW d \in Reported(load), c # d, cardName[c] = cardName[d],
         NEW a \in DOMAIN accounts', Id(p, c) \in accounts'[a].txns, Id(p, d) \in accounts'[a].txns
  PROVE  a \in DOMAIN accounts
<1> SUFFICES ASSUME a \notin DOMAIN accounts PROVE FALSE OBVIOUS
<1> DEFINE key == accounts'[a].key
<1>1. Landing(p, load, accounts', Len(load.cards)) BY SyncLands
<1>2. key = AccountKey(p, load, c) /\ key = AccountKey(p, load, d)
  BY <1>1 DEF Landing, Knows
<1>3. c \in Cards /\ d \in Cards /\ IsFiniteSet(Reported(load)) BY PayloadIs
<1>4. /\ AccountKey(p, load, c) = <<cardName[c]>> \/ AccountKey(p, load, c) = <<cardName[c], Id(p, c)>>
      /\ AccountKey(p, load, d) = <<cardName[d]>> \/ AccountKey(p, load, d) = <<cardName[d], Id(p, d)>>
      /\ AccountKey(p, load, c) # None
  BY <1>3, KeyIs DEF BooksInv
<1>5. Id(p, c) # Id(p, d) BY IdsApart
<1> HIDE DEF key
<1>6. key = <<cardName[c]>> /\ key # None BY <1>2, <1>4, <1>5
<1>7. ~(Cardinality(Alike(load, c)) < 2) BY TwoAlike
<1>8. RowsWithKey(accounts, <<cardName[c]>>) # {}
  <2> SUFFICES ASSUME RowsWithKey(accounts, <<cardName[c]>>) = {}
               PROVE  key = <<cardName[c], Id(p, c)>>
    BY <1>6
  <2>1. ~Keeps(p, load, c) BY DEF Keeps
  <2> QED BY <1>2, <1>7, <2>1 DEF AccountKey
<1>9. PICK b \in DOMAIN accounts : accounts[b].key = key BY <1>6, <1>8 DEF RowsWithKey
<1>10. b \in DOMAIN accounts' /\ accounts'[b].key = accounts'[a].key
  BY <1>1, <1>9 DEF Landing, key
<1>11. b = a BY <1>1, <1>6, <1>10 DEF Landing, BooksFine, KeysApart, key
<1> QED BY <1>9, <1>11

-----------------------------------------------------------------------------
(* The household                                                           *)

\* What the other action properties ask of a step.
ShareMoved ==
  \A gone \in DOMAIN owners \ DOMAIN owners' :
    \E to \in DOMAIN owners' : \A i \in DOMAIN rows :
      LET was == EffectiveOwner(rows[i])
      IN EffectiveOwner(rows[i])' = IF was = gone THEN to ELSE was
MeaningKept == (cats' # cats \/ groups' # groups) => MeansIt
ApartLanded ==
  \A p \in Connections, load \in Payloads :
    load.txns /\ Len(load.cards) > 1 /\ Sync(p, load) => ApartAfter(p, load)

LEMMA AlikeApart ==
  ASSUME BooksInv
  PROVE  ApartLanded
<1> SUFFICES ASSUME NEW p \in Connections, NEW load \in Payloads, load.txns, Sync(p, load)
             PROVE  ApartAfter(p, load)
  BY DEF ApartLanded
<1> SUFFICES ASSUME NEW c \in Reported(load), NEW d \in Reported(load), NEW a \in DOMAIN accounts',
                    c # d, cardName[c] = cardName[d],
                    {Id(p, c), Id(p, d)} \subseteq accounts'[a].txns
             PROVE  /\ a \in DOMAIN accounts
                    /\ LET known == accounts[a].txns \union {accounts[a].ext}
                       IN \/ {Id(p, c), Id(p, d)} \subseteq known
                          \/ {Id(p, c), Id(p, d)} \intersect known = {}
  BY Zenon DEF ApartAfter
<1>0. Id(p, c) \in accounts'[a].txns /\ Id(p, d) \in accounts'[a].txns OBVIOUS
<1>1. a \in DOMAIN accounts BY <1>0, NewRowIsOnes
<1>2. Id(p, c) \in Knows(accounts[a]) => Id(p, d) \in Knows(accounts[a])
  BY <1>0, <1>1, SecondStaysApart
<1>3. Id(p, d) \in Knows(accounts[a]) => Id(p, c) \in Knows(accounts[a])
  BY <1>0, <1>1, SecondStaysApart
<1> QED BY <1>1, <1>2, <1>3 DEF Knows

LEMMA WholeShare ==
  ASSUME BooksInv, UNCHANGED <<day, bank>>,
         NEW o \in DOMAIN owners, NEW to \in DOMAIN owners, DeleteOwner(o, to)
  PROVE  ShareMoved
<1>1. /\ DOMAIN owners \ DOMAIN owners' = {o} /\ to \in DOMAIN owners'
      /\ \A i \in DOMAIN rows : OwnerMoved(rows[i], rows'[i], o, to)
      /\ \A a \in DOMAIN accounts :
           accounts'[a].owner = IF accounts[a].owner = o THEN to ELSE accounts[a].owner
  BY DeleteOwnerKeeps
<1>2. o # None /\ to # None BY NoIdAssumption DEF BooksInv, Tables
<1>3. ASSUME NEW i \in DOMAIN rows
      PROVE  EffectiveOwner(rows[i])' = IF EffectiveOwner(rows[i]) = o THEN to ELSE EffectiveOwner(rows[i])
  <2> DEFINE x == rows[i]  y == rows'[i]  Move(n) == IF n = o THEN to ELSE n
             own == IF x.owner # None THEN x.owner ELSE accounts[x.account].owner
             new == IF y.owner # None THEN y.owner ELSE accounts'[y.account].owner
  <2>1. OwnerMoved(x, y, o, to) /\ x.account \in DOMAIN accounts BY <1>1 DEF BooksInv, Tables
  <2>2. y.account = x.account /\ y.owner = Move(x.owner) BY <2>1 DEF OwnerMoved
  <2>3. new = Move(own)
    <3>1. accounts'[x.account].owner = Move(accounts[x.account].owner) BY <1>1, <2>1
    <3>2. CASE x.owner = None BY <1>2, <2>2, <3>1, <3>2
    <3>3. CASE x.owner # None BY <1>2, <2>2, <3>3
    <3> QED BY <3>2, <3>3
  <2>4. /\ EffectiveOwner(x) = IF x.leg # None /\ x.leg.owner # None THEN x.leg.owner ELSE own
        /\ EffectiveOwner(x)' = IF y.leg # None /\ y.leg.owner # None THEN y.leg.owner ELSE new
    BY DEF EffectiveOwner
  <2>5. /\ x.leg = None => y.leg = None
        /\ x.leg # None => y.leg # None /\ y.leg.owner = Move(x.leg.owner)
    BY <2>1, NoIdAssumption DEF OwnerMoved
  <2> HIDE DEF own, new, x, y
  <2>6. EffectiveOwner(x)' = Move(EffectiveOwner(x)) BY <1>2, <2>3, <2>4, <2>5
  <2> QED BY <2>6 DEF x
<1> QED BY <1>1, <1>3 DEF ShareMoved

LEMMA NobodyGone ==
  ASSUME DOMAIN owners \subseteq DOMAIN owners'
  PROVE  ShareMoved
BY DEF ShareMoved

LEMMA SameFiling ==
  ASSUME UNCHANGED filing
  PROVE  MeaningKept
BY DEF MeaningKept, filing

LEMMA HouseholdSteps ==
  ASSUME BooksInv, HouseholdNext, UNCHANGED <<day, bank>>
  PROVE  BooksInv' /\ PastNamed /\ ShareMoved /\ MeaningKept
<1>1. CASE \E r \in Requests, o \in DOMAIN owners \union {None}, name \in OwnerNames : NameOwner(r, o, name)
  <2> PICK r \in Requests, o \in DOMAIN owners \union {None}, name \in OwnerNames : NameOwner(r, o, name)
    BY <1>1
  <2>1. UNCHANGED <<owners, filing, rows, accounts>> BY DEF NameOwner
  <2> QED BY <2>1, NameOwnerKeeps, NoDayWritten, NobodyGone, SameFiling
<1>2. CASE \E r \in Requests : FlushOwner(r)
  <2> PICK r \in Requests : FlushOwner(r) BY <1>2
  <2>1. UNCHANGED <<filing, rows, accounts>> /\ DOMAIN owners \subseteq DOMAIN owners'
    BY DEF FlushOwner, Put
  <2> QED BY <2>1, FlushOwnerKeeps, NoDayWritten, NobodyGone, SameFiling
<1>3. CASE \E o, to \in DOMAIN owners : DeleteOwner(o, to)
  <2> PICK o \in DOMAIN owners, to \in DOMAIN owners : DeleteOwner(o, to) BY <1>3
  <2>1. UNCHANGED filing BY DEF DeleteOwner
  <2>2. BooksInv' /\ PastNamed BY DeleteOwnerKeeps, NoDayWritten
  <2>3. ShareMoved BY WholeShare
  <2> QED BY <2>1, <2>2, <2>3, SameFiling
<1>4. CASE (\E type \in Types : CreateGroup(type)) \/ (\E g \in DOMAIN groups : CreateCategory(g))
  <2>1. UNCHANGED <<owners, rows, accounts, work>> BY <1>4 DEF CreateGroup, CreateCategory
  <2>2. BooksInv' /\ MeansIt BY <1>4, <2>1, CategoryGrows
  <2> QED BY <2>1, <2>2, NoDayWritten, NobodyGone DEF MeaningKept
<1>5. CASE \E c \in DOMAIN cats, g \in DOMAIN groups : UpdateCategory(c, g)
  <2> PICK c \in DOMAIN cats, g \in DOMAIN groups : UpdateCategory(c, g) BY <1>5
  <2>1. UNCHANGED <<owners, accounts>> BY DEF UpdateCategory
  <2>2. BooksInv' /\ MeansIt BY UpdateCategoryKeeps
  <2> QED BY <2>1, <2>2, NoDayWritten, NobodyGone DEF MeaningKept
<1>6. CASE \E c \in DOMAIN cats, to \in DOMAIN cats \union {None} : DeleteCategory(c, to)
  <2> PICK c \in DOMAIN cats, to \in DOMAIN cats \union {None} : DeleteCategory(c, to) BY <1>6
  <2>1. UNCHANGED <<owners, accounts>> BY DEF DeleteCategory
  <2>2. BooksInv' /\ MeansIt BY DeleteCategoryKeeps
  <2> QED BY <2>1, <2>2, NoDayWritten, NobodyGone DEF MeaningKept
<1>7. CASE \E g \in DOMAIN groups : DeleteGroup(g)
  <2> PICK g \in DOMAIN groups : DeleteGroup(g) BY <1>7
  <2>1. UNCHANGED <<owners, accounts>> BY DEF DeleteGroup
  <2>2. BooksInv' /\ MeansIt BY DeleteGroupKeeps
  <2> QED BY <2>1, <2>2, NoDayWritten, NobodyGone DEF MeaningKept
<1>8. CASE \E i \in DOMAIN rows, o \in DOMAIN owners \union {None}, c \in DOMAIN cats \union {None} :
             File(i, o, c)
  <2> PICK i \in DOMAIN rows, o \in DOMAIN owners \union {None}, c \in DOMAIN cats \union {None} :
             File(i, o, c)
    BY <1>8
  <2>1. UNCHANGED <<owners, filing, accounts>> BY DEF File
  <2>2. BooksInv' BY FileKeeps
  <2> QED BY <2>1, <2>2, NoDayWritten, NobodyGone, SameFiling
<1> QED BY <1>1, <1>2, <1>3, <1>4, <1>5, <1>6, <1>7, <1>8 DEF HouseholdNext

LEMMA AccountSteps ==
  ASSUME BooksInv, ByHand \/ ByAgent \/ ByBank \/ Tick
  PROVE  BooksInv' /\ PastNamed /\ UNCHANGED <<owners, filing>>
<1>1. CASE \E type \in AccountTypes, o \in DOMAIN owners,
              opening \in {None} \union [balance : {5}, on : {None, 0}] :
             CreateAccount(<<AgentName, 1>>, type, o, opening)
  BY <1>1, CreateAccountKeeps DEF CreateAccount
<1>2. CASE \E a \in DOMAIN accounts, p \in Patches : UpdateAccount(a, p)
  <2>1. UNCHANGED <<owners, filing>> BY <1>2 DEF UpdateAccount
  <2> QED BY <1>2, <2>1, UpdateAccountKeeps
<1>3. CASE \E a \in DOMAIN accounts, on \in Days : PutBalance(a, on, 6)
  <2>1. UNCHANGED <<owners, filing>> BY <1>3 DEF PutBalance
  <2> QED BY <1>3, <2>1, PutBalanceKeeps
<1>4. CASE \E a \in DOMAIN accounts, on \in Days : DeleteBalance(a, on)
  <2>1. UNCHANGED <<owners, filing>> BY <1>4 DEF DeleteBalance
  <2> QED BY <1>4, <2>1, DeleteBalanceKeeps
<1>5. CASE \E a \in DOMAIN accounts : DeleteAccount(a)
  <2>1. UNCHANGED <<owners, filing>> BY <1>5 DEF DeleteAccount
  <2> QED BY <1>5, <2>1, DeleteAccountKeeps
<1>6. CASE \E a \in DOMAIN accounts : Hold(a)
  <2>1. UNCHANGED <<owners, filing>> BY <1>6 DEF Hold
  <2> QED BY <1>6, <2>1, HoldKeeps
<1>7. CASE \E r \in Requests, type \in {"depository"} : BeginNaming(r, type)
  <2> PICK r \in Requests : BeginNaming(r, "depository") BY <1>7
  <2>1. UNCHANGED <<owners, filing>> BY DEF BeginNaming
  <2> QED BY <2>1, BeginNamingKeeps
<1>8. CASE \E r \in Requests : AddNamed(r)
  <2>1. UNCHANGED <<owners, filing>> BY <1>8 DEF AddNamed
  <2> QED BY <1>8, <2>1, AddNamedKeeps
<1>9. CASE \E p \in Connections, load \in Payloads : Sync(p, load)
  <2>1. UNCHANGED <<owners, filing>> BY <1>9 DEF Sync
  <2> QED BY <1>9, <2>1, SyncKeeps
<1>10. CASE \E p \in Connections : Claim(p)
  <2>1. UNCHANGED <<owners, filing>> BY <1>10 DEF Claim
  <2> QED BY <1>10, <2>1, ClaimKeeps
<1>11. CASE \E p \in Connections : Disconnect(p)
  <2>1. UNCHANGED <<owners, filing>> BY <1>11 DEF Disconnect
  <2> QED BY <1>11, <2>1, DisconnectKeeps
<1>12. CASE \E c \in Cards, n \in CardNames : Rename(c, n)
  <2>1. UNCHANGED <<owners, filing>> BY <1>12 DEF Rename
  <2> QED BY <1>12, <2>1, RenameKeeps
<1>13. CASE Tick
  <2>1. UNCHANGED <<owners, filing>> BY <1>13 DEF Tick
  <2> QED BY <1>13, <2>1, TickKeeps
<1> QED BY <1>1, <1>2, <1>3, <1>4, <1>5, <1>6, <1>7, <1>8, <1>9, <1>10, <1>11, <1>12, <1>13
        DEF ByHand, ByAgent, ByBank

LEMMA BooksStep ==
  ASSUME BooksInv, [Next]_vars
  PROVE  /\ BooksInv'
         /\ UNCHANGED vars \/ (PastNamed /\ ShareMoved /\ MeaningKept)
<1>1. CASE HouseholdNext /\ UNCHANGED <<day, bank>> BY <1>1, HouseholdSteps
<1>2. CASE ByHand \/ ByAgent \/ ByBank \/ Tick
  <2>1. BooksInv' /\ PastNamed /\ UNCHANGED <<owners, filing>> BY <1>2, AccountSteps
  <2> QED BY <2>1, NobodyGone, SameFiling
<1>3. CASE UNCHANGED vars
  <2>1. UNCHANGED <<owners, groups, cats, rows, accounts, work, day, cardName>> BY <1>3 DEF vars
  <2>2. Adding' BY <2>1 DEF BooksInv, Adding, Choosing
  <2> QED BY <1>3, <2>1, <2>2 DEF BooksInv
<1> QED BY <1>1, <1>2, <1>3 DEF Next

LEMMA BooksStart ==
  ASSUME Init
  PROVE  BooksInv
<1>1. PICK s \in Starts : /\ owners = s.owners /\ groups = s.groups /\ cats = s.cats
                          /\ rows = s.rows /\ accounts = s.accounts
  BY DEF Init
<1>2. /\ work = [r \in Requests |-> None] /\ day = 1 /\ cardName = FirstName BY DEF Init
<1>3. StartOK(s) BY StartsAssumption
<1>4. /\ Tables(owners, groups, cats, rows, accounts) /\ OwnersApart(owners) /\ Known(accounts)
      /\ \A a \in DOMAIN accounts :
           /\ accounts[a].key = None /\ accounts[a].ext = None /\ accounts[a].txns = {}
           /\ ~accounts[a].byAgent /\ HeadlineOf(accounts[a])
  BY <1>1, <1>3 DEF StartOK
<1>5. ASSUME NEW a \in DOMAIN accounts PROVE accounts[a] \in Fine /\ CardsOf(accounts[a]) = {}
  <2> DEFINE x == accounts[a]
  <2>1. /\ x \in Account({x.snaps}) /\ DOMAIN x.snaps \subseteq Days
        /\ x.snaps \in [DOMAIN x.snaps -> Int] /\ (x.source # None) = (x.type = "investment")
    BY <1>4 DEF Known
  <2>2. x.key = None /\ x.ext = None /\ x.txns = {} /\ ~x.byAgent /\ HeadlineOf(x) BY <1>4
  <2> HIDE DEF x
  <2>3. x.snaps \in Histories BY <2>1, HistoryIs
  <2>4. x \in Account(Histories) BY <2>1, <2>3 DEF Account
  <2>5. ByHandOnly(x) BY <2>2 DEF ByHandOnly
  <2>6. OwnKey(x) BY <2>2 DEF OwnKey
  <2>7. x \in Fine BY <2>1, <2>2, <2>4, <2>5, <2>6 DEF Fine
  <2>8. CardsOf(x) = {} BY <2>2 DEF CardsOf
  <2> QED BY <2>7, <2>8 DEF x
<1>6. BooksFine(accounts, cardName)
  <2>1. FineTable(accounts) BY <1>4, <1>5 DEF FineTable, Known
  <2>2. KeysApart(accounts) BY <1>4 DEF KeysApart
  <2>3. AloneKeys(accounts, cardName) BY <1>5 DEF AloneKeys
  <2>4. AgentsApart(accounts) BY <1>4 DEF AgentsApart
  <2> QED BY <2>1, <2>2, <2>3, <2>4 DEF BooksFine
<1>7. work \in [Requests -> Tasks \union {None}] /\ Adding BY <1>2 DEF Adding, Choosing
<1>8. day \in 1..MaxDay /\ cardName \in [Cards -> CardNames]
  BY <1>2, LimitsAssumption, BankAssumption
<1> QED BY <1>4, <1>6, <1>7, <1>8 DEF BooksInv

-----------------------------------------------------------------------------
(* Theorems                                                                *)

\* The invariant: what the tables, each account, the accounts together and the open requests are,
\* through every order of the handlers of owners.py, ledger.py and sync.py.
THEOREM BooksInductive == Spec => []BooksInv
<1>1. Init => BooksInv BY BooksStart
<1>2. BooksInv /\ [Next]_vars => BooksInv' BY BooksStep
<1> QED BY <1>1, <1>2, PTL DEF Spec

LEMMA SoundFollows ==
  ASSUME BooksInv
  PROVE  HouseholdIsSound
<1>1. /\ Tables(owners, groups, cats, rows, accounts) /\ OwnersApart(owners)
      /\ FineTable(accounts) /\ KeysApart(accounts)
      /\ day \in 1..MaxDay /\ cardName \in [Cards -> CardNames]
  BY DEF BooksInv, BooksFine
<1>2. TypeOK
  <2>1. ASSUME NEW a \in DOMAIN accounts
        PROVE  LET x == accounts[a] IN
               /\ x \in Account({x.snaps})
               /\ DOMAIN x.snaps \subseteq Days /\ x.snaps \in [DOMAIN x.snaps -> Int]
               /\ (x.source # None) = (x.type = "investment")
    <3> DEFINE x == accounts[a]
    <3>1. x \in Account(Histories) /\ (x.source # None) = (x.type = "investment")
      BY <1>1 DEF FineTable, Fine
    <3> HIDE DEF x
    <3>2. x \in Account({x.snaps}) BY <3>1 DEF Account
    <3>3. x.snaps \in Histories BY <3>1 DEF Account
    <3>4. DOMAIN x.snaps \subseteq Days /\ x.snaps \in [DOMAIN x.snaps -> Int] BY <3>3, HistoryIs
    <3> QED BY <3>1, <3>2, <3>4 DEF x
  <2>2. DOMAIN accounts \subseteq AccountIds /\ accounts = [a \in DOMAIN accounts |-> accounts[a]]
    BY <1>1 DEF FineTable
  <2>3. Known(accounts) BY <2>1, <2>2 DEF Known
  <2> QED BY <1>1, <2>3 DEF TypeOK, KeysApart
<1>3. Attributed
  <2>1. Cardinality({o \in DOMAIN owners : owners[o].shared}) = 1
    <3>1. PICK o \in DOMAIN owners : {q \in DOMAIN owners : owners[q].shared} = {o}
      BY <1>1 DEF OwnersApart
    <3>2. Cardinality({o}) = 1 BY FS_Singleton
    <3> QED BY <3>1, <3>2
  <2>2. \A a \in DOMAIN accounts : accounts[a].owner \in DOMAIN owners BY <1>1 DEF Tables
  <2>3. ASSUME NEW i \in DOMAIN rows
        PROVE  /\ EffectiveOwner(rows[i]) \in DOMAIN owners
               /\ EffectiveOwner([rows[i] EXCEPT !.leg = None]) \in DOMAIN owners
    <3> DEFINE x == rows[i]  y == [x EXCEPT !.leg = None]
    <3>1. /\ x \in Row /\ x.account \in DOMAIN accounts /\ x.owner \in DOMAIN owners \union {None}
          /\ x.leg # None => x.leg.owner \in DOMAIN owners \union {None}
      BY <1>1 DEF Tables, FiledIn
    <3> HIDE DEF x
    <3>2. y.account = x.account /\ y.owner = x.owner /\ y.leg = None BY <3>1 DEF Row
    <3> HIDE DEF y
    <3>3. EffectiveOwner(x) \in DOMAIN owners BY <2>2, <3>1 DEF EffectiveOwner
    <3>4. EffectiveOwner(y) \in DOMAIN owners BY <2>2, <3>1, <3>2 DEF EffectiveOwner
    <3> QED BY <3>3, <3>4 DEF x, y
  <2> QED BY <2>1, <2>2, <2>3 DEF Attributed
<1>4. OwnersReadApart BY <1>1 DEF OwnersApart, OwnersReadApart
<1>5. HeadlineIsNewest BY <1>1 DEF FineTable, Fine, HeadlineIsNewest
<1> QED BY <1>2, <1>3, <1>4, <1>5 DEF HouseholdIsSound

\* Everything is somebody's, no two owners read alike, a key is one account's, and a headline is
\* the newest balance on record, however many owners, accounts, cards, days and requests there are.
THEOREM HouseholdIsSoundForAll == Spec => []HouseholdIsSound
BY BooksInductive, SoundFollows, PTL

LEMMA OneOrNone ==
  ASSUME NEW S, \A a, b \in S : a = b
  PROVE  Cardinality(S) <= 1
<1>1. CASE S = {}
  <2>1. Cardinality({}) = 0 BY FS_EmptySet
  <2> QED BY <1>1, <2>1
<1>2. CASE S # {}
  <2>1. PICK a : a \in S BY <1>2
  <2>2. S = {a} BY <2>1
  <2>3. Cardinality({a}) = 1 BY FS_Singleton
  <2> QED BY <2>2, <2>3
<1> QED BY <1>1, <1>2

LEMMA ApartFollows ==
  ASSUME BooksInv
  PROVE  AccountsAreApart
<1>1. AgentsNameApart
  <2> SUFFICES ASSUME NEW a \in DOMAIN accounts, NEW b \in DOMAIN accounts,
                      accounts[a].byAgent, accounts[b].byAgent, accounts[a].type = accounts[b].type,
                      Lower[accounts[a].name[1]] = Lower[accounts[b].name[1]],
                      accounts[a].name[2] = accounts[b].name[2]
               PROVE  a = b
    BY DEF AgentsNameApart
  <2>1. Folded(accounts[a].name) = Folded(accounts[b].name) BY DEF Folded
  <2> QED BY <2>1 DEF BooksInv, BooksFine, AgentsApart
<1>2. OneRowPerCard
  <2> SUFFICES ASSUME NEW c \in Cards, Alone(cardName, c)
               PROVE  Cardinality({a \in DOMAIN accounts : c \in {t[1] : t \in accounts[a].txns}}) <= 1
    BY DEF OneRowPerCard, Alone
  <2> DEFINE S == {a \in DOMAIN accounts : c \in {t[1] : t \in accounts[a].txns}}
  <2>1. \A a \in S : accounts[a].key = <<FirstName[c]>>
    BY DEF BooksInv, BooksFine, AloneKeys, CardsOf
  <2>2. <<FirstName[c]>> # None
    <3>1. <<FirstName[c]>> \in Keys BY BankAssumption DEF Keys
    <3> QED BY <3>1, NoneAssumption
  <2>3. S \subseteq DOMAIN accounts OBVIOUS
  <2> HIDE DEF S
  <2>4. \A a, b \in S : accounts[a].key # None /\ accounts[a].key = accounts[b].key
    BY <2>1, <2>2
  <2>5. \A a, b \in S : a = b BY <2>3, <2>4 DEF BooksInv, BooksFine, KeysApart
  <2>6. Cardinality(S) <= 1 BY <2>5, OneOrNone
  <2> QED BY <2>6 DEF S
<1> QED BY <1>1, <1>2 DEF AccountsAreApart

\* What agents name at once reads apart, and a card alone in its name has its charges on one row
\* through any reconnects, renames and second claims of its bank, in any number of accounts.
THEOREM AccountsAreApartForAll == Spec => []AccountsAreApart
BY BooksInductive, ApartFollows, PTL

\* A deleted owner's share moves whole, an edit of the categories changes no row's meaning, a day
\* gone by changes only where it is named, and two cards of one name are not put on one row.
THEOREM EditsStayPutForAll == Spec => EditsStayPut
<1>1. BooksInv /\ [Next]_vars => [ShareMoved]_<<owners, rows, accounts>>
  BY BooksStep DEF vars
<1>2. BooksInv /\ [Next]_vars => [MeaningKept]_<<cats, groups, rows>>
  BY BooksStep DEF vars
<1>3. BooksInv /\ [Next]_vars => [PastNamed]_vars BY BooksStep
<1>4. BooksInv /\ [Next]_vars => [ApartLanded]_vars BY AlikeApart
<1>5. Spec => [][ShareMoved]_<<owners, rows, accounts>> BY <1>1, BooksInductive, PTL DEF Spec
<1>6. Spec => [][MeaningKept]_<<cats, groups, rows>> BY <1>2, BooksInductive, PTL DEF Spec
<1>7. Spec => [][PastNamed]_vars BY <1>3, BooksInductive, PTL DEF Spec
<1>8. Spec => [][ApartLanded]_vars BY <1>4, BooksInductive, PTL DEF Spec
<1>9. Spec => ShareMovesWhole BY <1>5 DEF ShareMovesWhole, ShareMoved
<1>10. Spec => MeaningStands BY <1>6 DEF MeaningStands, MeaningKept, MeansIt
<1>11. Spec => PastIsNamed BY <1>7 DEF PastIsNamed, PastNamed
<1>12. Spec => AlikeLandApart BY <1>8 DEF AlikeLandApart, ApartLanded
<1> QED BY <1>9, <1>10, <1>11, <1>12 DEF EditsStayPut

-----------------------------------------------------------------------------
(* The door                                                                *)

Owners == {e \in Emails : users[e] # Null /\ users[e].role = "owner"}

Founded ==
  /\ households \in {0, 1}
  /\ households = 0 => \A e \in Emails : users[e] = Null
  /\ \A e, f \in Emails : signing[e] # Null /\ signing[f] # Null => e = f
  /\ \A e \in Emails : signing[e] # Null => /\ users[e] = Null
                                            /\ signing[e].home = Null <=> households = 0
  /\ edits = 0 => /\ \A e \in Emails : users[e] # Null => users[e].home = 1
                  /\ households = 1 => \E e \in Emails : Owners = {e}

Ended ==
  /\ \A s \in over : sessions[s] = Null \/ (Expired(s) /\ On(s) = {})
  /\ \A r \in Browsers : requests[r] # Null =>
       \/ sessions[requests[r].session] = Null /\ requests[r].session \in over
       \/ /\ sessions[requests[r].session] # Null
          /\ requests[r].at <= sessions[requests[r].session].expires
          /\ requests[r].at <= now

\* A use with write scope was issued by an owner, before the token ended.
Good(use, scope) ==
  /\ tokens[use.token] # Null
  /\ scope = "write" => tokens[use.token].asRole = "owner"
  /\ use.at < tokens[use.token].expires
  /\ use.at <= now
  /\ tokens[use.token].revoked # Null => use.at <= tokens[use.token].revoked

Granted ==
  /\ \A t \in TokenIds : tokens[t] # Null /\ "write" \in tokens[t].scopes => tokens[t].asRole = "owner"
  /\ \A c \in Calls : calls[c] # Null => Good(calls[c], calls[c].scope)
  /\ \A entry \in written : Good(entry, "write")

IInv == AccessTypeOK /\ Founded /\ Ended /\ Granted

-----------------------------------------------------------------------------
(* Rows and the facts about them                                           *)

\* A row is never SQL's NULL.
LEMMA RowsAreNotNull ==
  /\ \A x \in User : x # Null
  /\ \A x \in Signup : x # Null
  /\ \A x \in Session : x # Null
  /\ \A x \in Request : x # Null
  /\ \A x \in Token : x # Null
  /\ \A x \in Call : x # Null
  /\ \A x \in Nat \union Roles : x # Null
  BY NullAssumption

LEMMA UserRow ==
  ASSUME NEW home \in {1, Null}, NEW role \in Roles \union {Null}, NEW admin \in BOOLEAN
  PROVE  [home |-> home, role |-> role, admin |-> admin] \in User
  BY DEF User

\* A change of the sessions cannot disturb the household, nor the agents.
LEMMA SamePeople ==
  ASSUME Founded, UNCHANGED <<households, users, signing, edits>> PROVE Founded'
  BY DEF Founded, Owners

LEMMA SameWebs ==
  ASSUME Ended, UNCHANGED <<now, sessions, requests, over>> PROVE Ended'
  BY DEF Ended, Expired, On

LEMMA SameAgents ==
  ASSUME Granted, UNCHANGED <<now, tokens, calls, written>> PROVE Granted'
  BY DEF Granted, Good

-----------------------------------------------------------------------------
LEMMA InitInv == AccessInit => IInv
  <1> SUFFICES ASSUME AccessInit PROVE IInv
    OBVIOUS
  <1>1. ASSUME NEW e \in Emails, OwnedBy(e)
        PROVE  /\ users \in [Emails -> User]
               /\ \A f \in Emails : users[f].home = 1 /\ (users[f].role = "owner" <=> f = e)
    <2> DEFINE row(f) == [home |-> 1, role |-> IF f = e THEN "owner" ELSE "member", admin |-> TRUE]
    <2>1. \A f \in Emails : users[f] = row(f)
      BY <1>1 DEF OwnedBy
    <2>2. \A f \in Emails : row(f) \in User
      BY UserRow DEF Roles
    <2>3. users = [f \in Emails |-> users[f]]
      BY <1>1 DEF OwnedBy
    <2>4. users \in [Emails -> User]
      BY <2>1, <2>2, <2>3
    <2>5. QED
      BY <2>1, <2>4
  <1>2. users \in [Emails -> User \union {Null}] /\ households \in Nat
    BY <1>1 DEF AccessInit, NewInstance, OwnedBy
  <1>3. AccessTypeOK
    BY <1>2, TimesAssumption DEF AccessInit, AccessTypeOK
  <1>4. Founded
    <2>1. CASE NewInstance
      BY <2>1 DEF AccessInit, NewInstance, Founded
    <2>2. ASSUME NEW e \in Emails, OwnedBy(e) PROVE Founded
      <3>1. \A f \in Emails : users[f] # Null
        BY <1>1, <2>2, RowsAreNotNull
      <3>2. Owners = {e}
        BY <1>1, <2>2, <3>1 DEF Owners
      <3>3. QED
        BY <1>1, <2>2, <3>2 DEF AccessInit, OwnedBy, Founded
    <2>3. QED
      BY <2>1, <2>2 DEF AccessInit
  <1>5. Ended /\ Granted
    BY DEF AccessInit, Ended, Granted
  <1>6. QED
    BY <1>3, <1>4, <1>5 DEF IInv

-----------------------------------------------------------------------------
(* Signup and the changes made by hand                                     *)

LEMMA BeginSignupInv ==
  ASSUME IInv, NEW e \in Emails, BeginSignup(e) PROVE IInv'
  <1> USE DEF IInv
  <1> DEFINE row == [home |-> IF households = 0 THEN Null ELSE 1]
  <1>1. row \in Signup /\ (row.home = Null <=> households = 0)
    BY NullAssumption DEF Signup
  <1>2. signing' = [signing EXCEPT ![e] = row]
    BY DEF BeginSignup
  <1> HIDE DEF row
  <1>3. AccessTypeOK'
    BY <1>1, <1>2 DEF BeginSignup, AccessTypeOK, webs, agents
  <1>4. Founded'
    BY <1>1, <1>2, RowsAreNotNull DEF BeginSignup, AccessTypeOK, Founded, Owners
  <1>5. Ended' /\ Granted'
    BY SameWebs, SameAgents DEF BeginSignup, webs, agents
  <1>6. QED
    BY <1>3, <1>4, <1>5

\* A new session under an id never used before.
LEMMA OpenedByEnded ==
  ASSUME IInv, NEW e \in Emails, NEW s \in SessionIds, OpenedBy(e, s),
         UNCHANGED <<now, requests, over>>
  PROVE  /\ sessions' \in [SessionIds -> Session \union {Null}]
         /\ \A q \in SessionIds : sessions'[q] # Null =>
              /\ sessions'[q].seen <= now
              /\ \/ sessions'[q].user = e
                 \/ sessions[q] # Null /\ sessions'[q] = sessions[q]
         /\ \A q \in SessionIds : sessions[q] # Null => sessions'[q] = sessions[q]
         /\ Ended'
  <1> USE DEF IInv
  <1> DEFINE row == [user |-> e, seen |-> now, expires |-> now + Absolute]
  <1>1. row \in Session /\ row.user = e /\ row.seen = now
    BY TimesAssumption DEF Session, AccessTypeOK
  <1>2. sessions[s] = Null /\ s \notin over /\ sessions' = [sessions EXCEPT ![s] = row]
    BY DEF OpenedBy
  <1> HIDE DEF row
  <1>3. now \in Int
    BY TimesAssumption DEF AccessTypeOK
  <1>4. \A q \in SessionIds : q # s => sessions'[q] = sessions[q]
    BY <1>2 DEF AccessTypeOK
  <1>5. sessions'[s] = row
    BY <1>2 DEF AccessTypeOK
  <1>6. Ended'
    <2>1. \A q \in over : q # s /\ q \in SessionIds
      BY <1>2 DEF AccessTypeOK
    <2>2. \A r \in Browsers : requests[r] # Null =>
            requests[r].session \in SessionIds /\ requests[r].session # s
      BY <1>2, RowsAreNotNull DEF AccessTypeOK, Request, Ended
    <2>3. QED
      BY <1>4, <2>1, <2>2 DEF Ended, Expired, On
  <1>7. QED
    BY <1>1, <1>2, <1>3, <1>4, <1>5, <1>6 DEF AccessTypeOK

LEMMA FinishSignupInv ==
  ASSUME IInv, NEW e \in Emails, NEW s \in SessionIds, FinishSignup(e, s) PROVE IInv'
  <1> USE DEF IInv
  <1> SUFFICES ASSUME NEW home, home = signing[e].home PROVE IInv'
    OBVIOUS
  <1> DEFINE row == [home |-> 1, role |-> IF home = Null THEN "owner" ELSE "member",
                     admin |-> home = Null]
  <1>1. /\ signing[e] \in Signup /\ users[e] = Null
        /\ home = Null <=> households = 0
        /\ home # Null => home = 1 /\ households = 1
    BY DEF FinishSignup, AccessTypeOK, Founded, Signup
  <1>2. row \in User /\ row.home = 1 /\ (row.role = "owner" <=> home = Null)
    BY <1>1, UserRow DEF Roles
  <1>3. households' = 1
    BY <1>1 DEF FinishSignup
  <1>4. users' = [users EXCEPT ![e] = row]
    <2>1. [home |-> IF home = Null THEN households + 1 ELSE home,
           role |-> IF home = Null THEN "owner" ELSE "member", admin |-> home = Null] = row
      BY <1>1
    <2> HIDE DEF row
    <2>2. QED
      BY <2>1 DEF FinishSignup
  <1> HIDE DEF row
  <1>5. /\ OpenedBy(e, s) /\ signing' = [signing EXCEPT ![e] = Null]
        /\ UNCHANGED <<now, kinds, edits, requests, over, tokens, calls, written>>
    BY DEF FinishSignup, agents
  <1>6. /\ users'[e] = row /\ row # Null
        /\ \A f \in Emails : f # e => users'[f] = users[f]
    BY <1>2, <1>4, RowsAreNotNull DEF AccessTypeOK
  <1>7. AccessTypeOK'
    <2>1. /\ users' \in [Emails -> User \union {Null}]
          /\ signing' \in [Emails -> Signup \union {Null}]
      BY <1>2, <1>4, <1>5 DEF AccessTypeOK
    <2>2. \A q \in SessionIds : sessions'[q] # Null =>
            sessions'[q].seen <= now /\ users'[sessions'[q].user] # Null
      <3> SUFFICES ASSUME NEW q \in SessionIds, sessions'[q] # Null
                   PROVE  sessions'[q].seen <= now /\ users'[sessions'[q].user] # Null
        OBVIOUS
      <3>1. sessions'[q] \in Session /\ sessions'[q].seen <= now
        BY <1>5, OpenedByEnded
      <3>2. CASE sessions'[q].user = e
        BY <1>6, <3>1, <3>2
      <3>3. CASE sessions[q] # Null /\ sessions'[q] = sessions[q]
        BY <1>6, <3>1, <3>3 DEF AccessTypeOK, Session
      <3>4. QED
        BY <1>5, <3>1, <3>2, <3>3, OpenedByEnded
    <2>3. \A t \in TokenIds : tokens[t] # Null => users'[tokens[t].by] # Null
      BY <1>6 DEF AccessTypeOK, Token
    <2>4. /\ sessions' \in [SessionIds -> Session \union {Null}]
          /\ \A q \in SessionIds : sessions[q] # Null => sessions'[q] = sessions[q]
      BY <1>5, OpenedByEnded
    <2>5. \A r \in Browsers : requests[r] # Null /\ requests[r].holds =>
            sessions'[requests[r].session] # Null
      BY <2>4 DEF AccessTypeOK, Request
    <2>6. QED
      BY <1>3, <1>5, <2>1, <2>2, <2>3, <2>4, <2>5 DEF AccessTypeOK
  <1>8. Founded'
    <2>1. \A f \in Emails : signing'[f] = Null
      BY <1>5 DEF FinishSignup, AccessTypeOK, Founded
    <2>2. edits' = 0 => /\ \A f \in Emails : users'[f] # Null => users'[f].home = 1
                        /\ \E f \in Emails : Owners' = {f}
      <3> SUFFICES ASSUME edits = 0
                   PROVE  /\ \A f \in Emails : users'[f] # Null => users'[f].home = 1
                          /\ \E f \in Emails : Owners' = {f}
        BY <1>5
      <3>1. CASE home = Null
        <4>1. \A f \in Emails : f # e => users'[f] = Null
          BY <1>1, <1>6, <3>1 DEF Founded
        <4>2. Owners' = {e}
          BY <1>2, <1>6, <3>1, <4>1 DEF Owners
        <4>3. QED
          BY <1>2, <1>6, <4>1, <4>2
      <3>2. CASE home # Null
        <4>1. PICK o \in Emails : Owners = {o}
          BY <1>1, <3>2 DEF Founded
        <4>2. Owners' = Owners
          BY <1>1, <1>2, <1>6, <3>2 DEF Owners
        <4>3. QED
          BY <1>2, <1>6, <4>1, <4>2 DEF Founded
      <3>3. QED
        BY <1>1, <3>1, <3>2
    <2>3. QED
      BY <1>3, <2>1, <2>2 DEF Founded
  <1>9. Ended' /\ Granted'
    BY <1>5, OpenedByEnded, SameAgents
  <1>10. QED
    BY <1>7, <1>8, <1>9

LEMMA AbortSignupInv ==
  ASSUME IInv, NEW e \in Emails, AbortSignup(e) PROVE IInv'
  <1> USE DEF IInv
  <1>1. AccessTypeOK'
    BY DEF AbortSignup, AccessTypeOK, webs, agents
  <1>2. Founded'
    BY DEF AbortSignup, AccessTypeOK, Founded, Owners
  <1>3. Ended' /\ Granted'
    BY SameWebs, SameAgents DEF AbortSignup, webs, agents
  <1>4. QED
    BY <1>1, <1>2, <1>3

\* A change by hand is of somebody who has signed up, and keeps her a user.
LEMMA EditByHandInv ==
  ASSUME IInv, NEW e \in Emails, NEW home \in {1, Null}, NEW role \in Roles \union {Null},
         NEW admin \in BOOLEAN, EditByHand(e, home, role, admin)
  PROVE  IInv'
  <1> USE DEF IInv
  <1> DEFINE row == [home |-> home, role |-> role, admin |-> admin]
  <1>1. row \in User
    BY UserRow
  <1>2. /\ users[e] # Null /\ users' = [users EXCEPT ![e] = row]
        /\ edits' = edits + 1 /\ edits < MaxEdits
        /\ UNCHANGED <<now, kinds, households, signing, sessions, requests, over, tokens, calls, written>>
    BY DEF EditByHand, webs, agents
  <1> HIDE DEF row
  <1>3. \A f \in Emails : users'[f] # Null <=> users[f] # Null
    BY <1>1, <1>2, RowsAreNotNull DEF AccessTypeOK
  <1>4. edits' \in 0..MaxEdits /\ edits' # 0
    BY <1>2, TimesAssumption DEF AccessTypeOK
  <1>5. users' \in [Emails -> User \union {Null}]
    BY <1>1, <1>2 DEF AccessTypeOK
  <1>6. AccessTypeOK'
    BY <1>2, <1>3, <1>4, <1>5 DEF AccessTypeOK, Session, Token
  <1>7. Founded'
    BY <1>2, <1>3, <1>4 DEF Founded
  <1>8. Ended' /\ Granted'
    BY <1>2, SameWebs, SameAgents
  <1>9. QED
    BY <1>6, <1>7, <1>8

-----------------------------------------------------------------------------
(* A browser's requests                                                    *)

LEMMA LoginInv ==
  ASSUME IInv, NEW e \in Emails, NEW s \in SessionIds, Login(e, s) PROVE IInv'
  <1> USE DEF IInv
  <1>1. /\ OpenedBy(e, s) /\ users[e] # Null
        /\ UNCHANGED <<now, kinds, households, users, signing, edits, requests, over,
                       tokens, calls, written>>
    BY DEF Login, people, agents
  <1>2. AccessTypeOK'
    <2>1. /\ sessions' \in [SessionIds -> Session \union {Null}]
          /\ \A q \in SessionIds : sessions[q] # Null => sessions'[q] = sessions[q]
          /\ \A q \in SessionIds : sessions'[q] # Null =>
               sessions'[q].seen <= now /\ users[sessions'[q].user] # Null
      BY <1>1, OpenedByEnded DEF AccessTypeOK
    <2>2. \A r \in Browsers : requests[r] # Null /\ requests[r].holds =>
            sessions'[requests[r].session] # Null
      BY <2>1 DEF AccessTypeOK, Request
    <2>3. QED
      BY <1>1, <2>1, <2>2 DEF AccessTypeOK
  <1>3. Founded' /\ Ended' /\ Granted'
    BY <1>1, SamePeople, OpenedByEnded, SameAgents
  <1>4. QED
    BY <1>2, <1>3

LEMMA RefuseInv ==
  ASSUME IInv, NEW s \in SessionIds, Refuse(s) PROVE IInv'
  <1> USE DEF IInv
  <1>1. AccessTypeOK'
    BY DEF Refuse, AccessTypeOK, people, agents
  <1>2. Founded' /\ Granted'
    BY SamePeople, SameAgents DEF Refuse, people, agents
  <1>3. Ended'
    BY DEF Refuse, Ended, Expired, On, people
  <1>4. QED
    BY <1>1, <1>2, <1>3

\* A request begins under a session that stands, so that one that is over is
\* not touched.
LEMMA BeginRequestInv ==
  ASSUME IInv, NEW r \in Browsers, NEW s \in SessionIds, BeginRequest(r, s) PROVE IInv'
  <1> USE DEF IInv
  <1> SUFFICES ASSUME NEW holds, holds = (Holder(s) = {}) PROVE IInv'
    OBVIOUS
  <1> DEFINE row == [session |-> s, at |-> now, holds |-> holds]
  <1>1. row \in Request /\ row.session = s /\ row.at = now
    BY TimesAssumption DEF AccessTypeOK, Request
  <1>2. /\ requests[r] = Null
        /\ sessions[s] # Null /\ ~Expired(s) /\ requests' = [requests EXCEPT ![r] = row]
        /\ UNCHANGED <<now, kinds, households, users, signing, edits, sessions, over,
                       tokens, calls, written>>
    BY DEF BeginRequest, people, agents
  <1> HIDE DEF row
  <1>3. requests'[r] = row /\ \A q \in Browsers : q # r => requests'[q] = requests[q]
    BY <1>2 DEF AccessTypeOK
  <1>4. AccessTypeOK'
    <2>1. requests' \in [Browsers -> Request \union {Null}]
      BY <1>1, <1>2 DEF AccessTypeOK
    <2>2. QED
      BY <1>1, <1>2, <1>3, <2>1 DEF AccessTypeOK
  <1>5. Founded' /\ Granted'
    BY <1>2, SamePeople, SameAgents
  <1>6. Ended'
    <2>1. s \notin over
      BY <1>2 DEF Ended
    <2>2. \A q \in over : On(q)' = On(q)
      BY <1>1, <1>2, <1>3, <2>1 DEF On
    <2>3. now <= sessions[s].expires
      BY <1>2, TimesAssumption DEF Expired, AccessTypeOK, Session
    <2>4. QED
      BY <1>1, <1>2, <1>3, <2>2, <2>3, TimesAssumption DEF Ended, Expired, AccessTypeOK
  <1>7. QED
    BY <1>4, <1>5, <1>6

LEMMA AcquireInv ==
  ASSUME IInv, NEW r \in Browsers, Acquire(r) PROVE IInv'
  <1> USE DEF IInv
  <1>1. /\ requests[r] \in Request
        /\ UNCHANGED <<now, kinds, households, users, signing, edits, sessions, over,
                       tokens, calls, written>>
    BY DEF Acquire, AccessTypeOK, people, agents
  <1>2. PICK row \in Request \union {Null} :
          /\ requests' = [requests EXCEPT ![r] = row]
          /\ row # Null => /\ row.session = requests[r].session /\ row.at = requests[r].at
                           /\ sessions[row.session] # Null
    <2>1. CASE sessions[requests[r].session] = Null
      BY <2>1 DEF Acquire
    <2>2. CASE sessions[requests[r].session] # Null
      <3> DEFINE row == [requests[r] EXCEPT !.holds = TRUE]
      <3>1. row \in Request /\ row.session = requests[r].session /\ row.at = requests[r].at
        BY <1>1 DEF Request
      <3>2. requests' = [requests EXCEPT ![r] = row]
        BY <2>2 DEF Acquire
      <3> HIDE DEF row
      <3>3. QED
        BY <2>2, <3>1, <3>2
    <2>3. QED
      BY <2>1, <2>2
  <1>3. requests'[r] = row /\ \A q \in Browsers : q # r => requests'[q] = requests[q]
    BY <1>2 DEF AccessTypeOK
  <1>4. AccessTypeOK'
    <2>1. requests' \in [Browsers -> Request \union {Null}]
      BY <1>2 DEF AccessTypeOK
    <2>2. QED
      BY <1>1, <1>2, <1>3, <2>1 DEF AccessTypeOK
  <1>5. Founded' /\ Granted'
    BY <1>1, SamePeople, SameAgents
  <1>6. Ended'
    <2>1. \A s \in over : On(s)' \subseteq On(s)
      BY <1>1, <1>2, <1>3 DEF On, Acquire
    <2>2. QED
      BY <1>1, <1>2, <1>3, <2>1 DEF Ended, Expired, Acquire
  <1>7. QED
    BY <1>4, <1>5, <1>6

\* A request ends: the row it writes is one that no one was told is over.
LEMMA EndRequestInv ==
  ASSUME IInv, NEW r \in Browsers, NEW raised \in BOOLEAN, EndRequest(r, raised) PROVE IInv'
  <1> USE DEF IInv
  <1> SUFFICES ASSUME NEW s, s = requests[r].session PROVE IInv'
    OBVIOUS
  <1>1. /\ requests[r] # Null /\ requests[r] \in Request /\ s \in SessionIds
        /\ sessions[s] # Null /\ sessions[s] \in Session /\ requests[r].at <= now
        /\ requests' = [requests EXCEPT ![r] = Null]
        /\ UNCHANGED <<now, kinds, households, users, signing, edits, over, tokens, calls, written>>
    BY DEF EndRequest, AccessTypeOK, Request, Ended, people, agents
  <1>2. PICK row \in Session :
          /\ sessions' = [sessions EXCEPT ![s] = row]
          /\ row.user = sessions[s].user /\ row.expires = sessions[s].expires /\ row.seen <= now
    <2>1. CASE raised
      BY <1>1, <2>1 DEF EndRequest, AccessTypeOK
    <2>2. CASE ~raised
      <3>1. [sessions[s] EXCEPT !.seen = requests[r].at] \in Session
        BY <1>1 DEF Session, Request
      <3>2. QED
        BY <1>1, <2>2, <3>1 DEF EndRequest, Session
    <2>3. QED
      BY <2>1, <2>2
  <1>3. /\ sessions'[s] = row /\ row # Null
        /\ \A q \in SessionIds : q # s => sessions'[q] = sessions[q]
        /\ requests'[r] = Null
        /\ \A q \in Browsers : q # r => requests'[q] = requests[q]
    BY <1>1, <1>2, RowsAreNotNull DEF AccessTypeOK
  <1>4. AccessTypeOK'
    <2>1. /\ requests' \in [Browsers -> Request \union {Null}]
          /\ sessions' \in [SessionIds -> Session \union {Null}]
      BY <1>1, <1>2 DEF AccessTypeOK
    <2>2. \A q \in SessionIds : sessions'[q] # Null =>
            sessions'[q].seen <= now /\ users[sessions'[q].user] # Null
      BY <1>1, <1>2, <1>3 DEF AccessTypeOK
    <2>3. \A q \in Browsers : requests'[q] # Null /\ requests'[q].holds =>
            sessions'[requests'[q].session] # Null
      BY <1>1, <1>2, <1>3 DEF AccessTypeOK, Request
    <2>4. QED
      BY <1>1, <2>1, <2>2, <2>3 DEF AccessTypeOK
  <1>5. Founded' /\ Granted'
    BY <1>1, SamePeople, SameAgents
  <1>6. Ended'
    <2>1. s \notin over
      BY <1>1 DEF Ended, On
    <2>2. \A q \in over : q \in SessionIds /\ sessions'[q] = sessions[q] /\ On(q)' \subseteq On(q)
      BY <1>3, <2>1 DEF On, AccessTypeOK
    <2>3. \A q \in over : sessions'[q] = Null \/ (Expired(q)' /\ On(q)' = {})
      BY <1>1, <2>2 DEF Ended, Expired
    <2>4. \A q \in Browsers : requests'[q] # Null =>
            /\ requests'[q] = requests[q] /\ requests[q].session \in SessionIds
            /\ sessions'[requests[q].session] # Null <=> sessions[requests[q].session] # Null
            /\ sessions[requests[q].session] # Null =>
                 sessions'[requests[q].session].expires = sessions[requests[q].session].expires
      BY <1>1, <1>2, <1>3 DEF AccessTypeOK, Request
    <2>5. QED
      BY <1>1, <2>3, <2>4 DEF Ended
  <1>7. QED
    BY <1>4, <1>5, <1>6

LEMMA LogoutInv ==
  ASSUME IInv, NEW s \in SessionIds, Logout(s) PROVE IInv'
  <1> USE DEF IInv
  <1>1. /\ sessions' = [sessions EXCEPT ![s] = Null] /\ over' = over \union {s}
        /\ Holder(s) = {}
        /\ UNCHANGED <<now, kinds, households, users, signing, edits, requests, tokens, calls, written>>
    BY DEF Logout, people, agents
  <1>2. sessions'[s] = Null /\ \A q \in SessionIds : q # s => sessions'[q] = sessions[q]
    BY <1>1 DEF AccessTypeOK
  <1>3. AccessTypeOK'
    <2>1. sessions' \in [SessionIds -> Session \union {Null}] /\ over' \subseteq SessionIds
      BY <1>1 DEF AccessTypeOK
    <2>2. \A r \in Browsers : requests[r] # Null /\ requests[r].holds =>
            sessions'[requests[r].session] # Null
      BY <1>1, <1>2 DEF AccessTypeOK, Holder, On, Request
    <2>3. QED
      BY <1>1, <1>2, <2>1, <2>2 DEF AccessTypeOK
  <1>4. Founded' /\ Granted'
    BY <1>1, SamePeople, SameAgents
  <1>5. Ended'
    <2>1. \A r \in Browsers : requests[r] # Null => requests[r].session \in SessionIds
      BY DEF AccessTypeOK, Request
    <2>2. \A q \in over : q \in SessionIds
      BY DEF AccessTypeOK
    <2>3. QED
      BY <1>1, <1>2, <2>1, <2>2 DEF Ended, Expired, On
  <1>6. QED
    BY <1>3, <1>4, <1>5

-----------------------------------------------------------------------------
(* Agents                                                                  *)

\* What a person with a session of her own does keeps that session alive.
LEMMA AsksKeeps ==
  ASSUME IInv, NEW e \in Emails, NEW s \in SessionIds, Asks(e, s), UNCHANGED <<now, requests, over>>
  PROVE  /\ sessions' \in [SessionIds -> Session \union {Null}]
         /\ \A q \in SessionIds : /\ sessions'[q] # Null <=> sessions[q] # Null
                                  /\ sessions[q] # Null => /\ sessions'[q].user = sessions[q].user
                                                           /\ sessions'[q].seen <= now
         /\ Ended'
  <1> USE DEF IInv
  <1> DEFINE row == [sessions[s] EXCEPT !.seen = now]
  <1>1. sessions[s] \in Session /\ sessions[s] # Null /\ now \in Nat
    BY TimesAssumption DEF Asks, AccessTypeOK
  <1>2. /\ row \in Session /\ row.user = sessions[s].user /\ row.expires = sessions[s].expires
        /\ row.seen = now
    BY <1>1 DEF Session
  <1>3. sessions' = [sessions EXCEPT ![s] = row]
    BY DEF Asks
  <1> HIDE DEF row
  <1>4. /\ sessions'[s] = row /\ row # Null
        /\ \A q \in SessionIds : q # s => sessions'[q] = sessions[q]
    BY <1>2, <1>3, RowsAreNotNull DEF AccessTypeOK
  <1>5. s \notin over
    BY <1>1 DEF Asks, Ended
  <1>6. Ended'
    <2>1. \A q \in over : sessions'[q] = Null \/ (Expired(q)' /\ On(q)' = {})
      BY <1>4, <1>5 DEF Ended, Expired, On, AccessTypeOK
    <2>2. \A r \in Browsers : requests[r] # Null =>
            /\ requests[r].session \in SessionIds
            /\ sessions'[requests[r].session] # Null <=> sessions[requests[r].session] # Null
            /\ sessions[requests[r].session] # Null =>
                 sessions'[requests[r].session].expires = sessions[requests[r].session].expires
      BY <1>1, <1>2, <1>4 DEF AccessTypeOK, Request
    <2>3. QED
      BY <2>1, <2>2 DEF Ended
  <1>7. QED
    BY <1>1, <1>2, <1>3, <1>4, <1>6 DEF AccessTypeOK

\* Where only the sessions' last use and the tokens' rows change.
LEMMA AskedType ==
  ASSUME IInv, NEW e \in Emails, NEW s \in SessionIds, Asks(e, s),
         UNCHANGED <<now, people, requests, over, calls, written>>,
         tokens' \in [TokenIds -> Token \union {Null}],
         \A t \in TokenIds : tokens'[t] # Null => users[tokens'[t].by] # Null
  PROVE  AccessTypeOK' /\ Founded' /\ Ended'
  <1> USE DEF IInv
  <1>1. UNCHANGED <<now, kinds, households, users, signing, edits, requests, over, calls, written>>
    BY DEF people
  <1>2. /\ sessions' \in [SessionIds -> Session \union {Null}]
        /\ \A q \in SessionIds : /\ sessions'[q] # Null <=> sessions[q] # Null
                                 /\ sessions[q] # Null => /\ sessions'[q].user = sessions[q].user
                                                          /\ sessions'[q].seen <= now
        /\ Ended'
    BY <1>1, AsksKeeps
  <1>3. \A r \in Browsers : requests[r] # Null => requests[r].session \in SessionIds
    BY DEF AccessTypeOK, Request
  <1>4. AccessTypeOK'
    BY <1>1, <1>2, <1>3 DEF AccessTypeOK
  <1>5. QED
    BY <1>1, <1>2, <1>4, SamePeople

\* What was granted stays good when tokens are only added, marked or revoked now.
LEMMA GrantedStays ==
  ASSUME IInv, UNCHANGED <<now, calls, written>>,
         tokens' \in [TokenIds -> Token \union {Null}],
         \A t \in TokenIds : /\ tokens'[t] # Null /\ "write" \in tokens'[t].scopes =>
                                  tokens'[t].asRole = "owner"
                             /\ tokens[t] # Null =>
                                  /\ tokens'[t] # Null
                                  /\ tokens'[t].asRole = tokens[t].asRole
                                  /\ tokens'[t].expires = tokens[t].expires
                                  /\ tokens'[t].revoked \in {tokens[t].revoked, now}
  PROVE  Granted'
  <1> USE DEF IInv
  <1>1. \A use, scope : Good(use, scope) /\ use.token \in TokenIds => Good(use, scope)'
    BY DEF Good
  <1>2. \A c \in Calls : calls[c] # Null => calls[c].token \in TokenIds
    BY DEF AccessTypeOK, Call
  <1>3. \A entry \in written : entry.token \in TokenIds
    BY DEF AccessTypeOK, Entry
  <1>4. \A c \in Calls : calls[c] # Null => Good(calls[c], calls[c].scope)'
    BY <1>1, <1>2 DEF Granted
  <1>5. \A entry \in written : Good(entry, "write")'
    BY <1>1, <1>3 DEF Granted
  <1>6. QED
    BY <1>4, <1>5 DEF Granted

LEMMA CreateTokenInv ==
  ASSUME IInv, NEW e \in Emails, NEW s \in SessionIds, NEW t \in TokenIds,
         NEW scopes \in SUBSET Scopes, CreateToken(e, s, t, scopes)
  PROVE  IInv'
  <1> USE DEF IInv
  <1> DEFINE row == [by |-> e, scopes |-> scopes, expires |-> now + TokenLife,
                     revoked |-> Null, used |-> Null, asRole |-> users[e].role]
  <1>1. users[e] # Null /\ users[e] \in User
    BY DEF CreateToken, Asks, Manages, AccessTypeOK
  <1>2. row \in Token /\ row.by = e /\ ("write" \in row.scopes => row.asRole = "owner")
    BY <1>1, TimesAssumption DEF CreateToken, AccessTypeOK, Token, User
  <1>3. /\ tokens[t] = Null /\ tokens' = [tokens EXCEPT ![t] = row] /\ Asks(e, s)
        /\ UNCHANGED <<now, people, requests, over, calls, written>>
    BY DEF CreateToken, NewToken
  <1> HIDE DEF row
  <1>4. tokens'[t] = row /\ \A u \in TokenIds : u # t => tokens'[u] = tokens[u]
    BY <1>3 DEF AccessTypeOK
  <1>5. tokens' \in [TokenIds -> Token \union {Null}]
    BY <1>2, <1>3 DEF AccessTypeOK
  <1>6. \A u \in TokenIds : tokens'[u] # Null => users[tokens'[u].by] # Null
    BY <1>1, <1>2, <1>4 DEF AccessTypeOK
  <1>7. AccessTypeOK' /\ Founded' /\ Ended'
    BY <1>3, <1>5, <1>6, AskedType
  <1>8. Granted'
    <2>1. \A u \in TokenIds :
            /\ tokens'[u] # Null /\ "write" \in tokens'[u].scopes => tokens'[u].asRole = "owner"
            /\ tokens[u] # Null => tokens'[u] = tokens[u]
      BY <1>2, <1>3, <1>4 DEF Granted
    <2>2. QED
      BY <1>3, <1>5, <2>1, GrantedStays
  <1>9. QED
    BY <1>7, <1>8

\* A row of the tokens marked: its use noted, or revoked.
LEMMA MarkedToken ==
  ASSUME IInv, NEW t \in TokenIds, NEW row \in Token, tokens[t] # Null,
         tokens' = [tokens EXCEPT ![t] = row], UNCHANGED users,
         row.by = tokens[t].by, row.scopes = tokens[t].scopes, row.asRole = tokens[t].asRole,
         row.expires = tokens[t].expires, row.revoked \in {tokens[t].revoked, now}
  PROVE  /\ tokens' \in [TokenIds -> Token \union {Null}]
         /\ \A u \in TokenIds :
              /\ tokens'[u] # Null => users[tokens'[u].by] # Null
              /\ tokens'[u] # Null /\ "write" \in tokens'[u].scopes => tokens'[u].asRole = "owner"
              /\ tokens[u] # Null => /\ tokens'[u] # Null
                                     /\ tokens'[u].asRole = tokens[u].asRole
                                     /\ tokens'[u].expires = tokens[u].expires
                                     /\ tokens'[u].revoked \in {tokens[u].revoked, now}
  <1> USE DEF IInv
  <1>1. /\ tokens'[t] = row /\ row # Null
        /\ \A u \in TokenIds : u # t => tokens'[u] = tokens[u]
    BY RowsAreNotNull DEF AccessTypeOK
  <1>2. QED
    BY <1>1 DEF AccessTypeOK, Granted

LEMMA RevokeTokenInv ==
  ASSUME IInv, NEW e \in Emails, NEW s \in SessionIds, NEW t \in TokenIds, RevokeToken(e, s, t)
  PROVE  IInv'
  <1> USE DEF IInv
  <1> DEFINE row == IF tokens[t].revoked # Null THEN tokens[t] ELSE [tokens[t] EXCEPT !.revoked = now]
  <1>1. /\ Asks(e, s) /\ tokens[t] # Null /\ tokens[t] \in Token /\ now \in Nat
        /\ UNCHANGED <<now, people, requests, over, calls, written>>
    BY TimesAssumption DEF RevokeToken, AccessTypeOK
  <1>2. /\ row \in Token /\ row.by = tokens[t].by /\ row.scopes = tokens[t].scopes
        /\ row.asRole = tokens[t].asRole /\ row.expires = tokens[t].expires
        /\ row.revoked \in {tokens[t].revoked, now}
    BY <1>1 DEF Token
  <1>3. tokens' = [tokens EXCEPT ![t] = row]
    BY <1>1 DEF RevokeToken, AccessTypeOK
  <1> HIDE DEF row
  <1>4. AccessTypeOK' /\ Founded' /\ Ended'
    BY <1>1, <1>2, <1>3, MarkedToken, AskedType DEF people
  <1>5. Granted'
    BY <1>1, <1>2, <1>3, MarkedToken, GrantedStays DEF people
  <1>6. QED
    BY <1>4, <1>5

\* A call begins with what its token allows now.
LEMMA BeginCallInv ==
  ASSUME IInv, NEW c \in Calls, NEW t \in TokenIds, NEW scope \in Scopes, BeginCall(c, t, scope)
  PROVE  IInv'
  <1> USE DEF IInv
  <1> DEFINE row == IF tokens[t].used = Null \/ now - tokens[t].used >= Resolution
                    THEN [tokens[t] EXCEPT !.used = now] ELSE tokens[t]
  <1>1. /\ tokens[t] # Null /\ tokens[t] \in Token /\ now \in Nat
        /\ tokens[t].revoked = Null /\ now < tokens[t].expires
        /\ users[tokens[t].by] \in User
        /\ UNCHANGED <<now, kinds, households, users, signing, edits, sessions, requests, over, written>>
    BY TimesAssumption DEF BeginCall, Resolve, Active, Manages, AccessTypeOK, Token, people, webs
  <1>2. /\ row \in Token /\ row.by = tokens[t].by /\ row.scopes = tokens[t].scopes
        /\ row.asRole = tokens[t].asRole /\ row.expires = tokens[t].expires
        /\ row.revoked = tokens[t].revoked
    BY <1>1 DEF Token
  <1>3. tokens' = [tokens EXCEPT ![t] = row]
    BY <1>1 DEF BeginCall, Resolve, AccessTypeOK
  <1>4. PICK call \in Call :
          /\ call.token = t /\ call.scope = scope /\ call.at = now
          /\ \/ calls' = calls
             \/ scope \in tokens[t].scopes /\ calls' = [calls EXCEPT ![c] = call]
    <2> DEFINE x == [token |-> t, scope |-> scope, role |-> users[tokens[t].by].role, at |-> now]
    <2>1. x \in Call /\ x.token = t /\ x.scope = scope /\ x.at = now
      BY <1>1 DEF Call, User
    <2>2. \/ calls' = calls
          \/ scope \in tokens[t].scopes /\ calls' = [calls EXCEPT ![c] = x]
      BY DEF BeginCall
    <2> HIDE DEF x
    <2>3. QED
      BY <2>1, <2>2
  <1> HIDE DEF row
  <1>6. calls' \in [Calls -> Call \union {Null}]
    BY <1>4 DEF AccessTypeOK
  <1>7. /\ tokens' \in [TokenIds -> Token \union {Null}]
        /\ \A u \in TokenIds :
             /\ tokens'[u] # Null => users[tokens'[u].by] # Null
             /\ tokens'[u] # Null /\ "write" \in tokens'[u].scopes => tokens'[u].asRole = "owner"
             /\ tokens[u] # Null => /\ tokens'[u] # Null
                                    /\ tokens'[u].asRole = tokens[u].asRole
                                    /\ tokens'[u].expires = tokens[u].expires
                                    /\ tokens'[u].revoked \in {tokens[u].revoked, now}
    BY <1>1, <1>2, <1>3, MarkedToken
  <1>8. AccessTypeOK' /\ Founded' /\ Ended'
    <2>1. AccessTypeOK'
      BY <1>1, <1>6, <1>7 DEF AccessTypeOK
    <2>2. QED
      BY <1>1, <2>1, SamePeople, SameWebs
  <1>9. /\ tokens'[t] = row
        /\ \A u \in TokenIds : u # t => tokens'[u] = tokens[u]
    BY <1>3 DEF AccessTypeOK
  <1>10. Granted'
    <2>1. \A use, sc : Good(use, sc) /\ use.token \in TokenIds => Good(use, sc)'
      BY <1>1, <1>2, <1>7, <1>9 DEF Good
    <2>2. \A entry \in written : Good(entry, "write")'
      BY <1>1, <2>1 DEF Granted, AccessTypeOK, Entry
    <2>3. \A d \in Calls : calls[d] # Null => Good(calls[d], calls[d].scope) /\ calls[d].token \in TokenIds
      BY DEF Granted, AccessTypeOK, Call
    <2>4. ASSUME scope \in tokens[t].scopes PROVE Good(call, scope)'
      BY <1>1, <1>2, <1>4, <1>9, <2>4, RowsAreNotNull DEF Good, Granted
    <2>5. ASSUME NEW d \in Calls, NEW use, use = calls'[d], use # Null PROVE Good(use, use.scope)'
      <3>1. CASE use = calls[d]
        BY <2>1, <2>3, <2>5, <3>1
      <3>2. CASE use = call /\ scope \in tokens[t].scopes
        BY <1>4, <2>4, <3>2
      <3>3. QED
        BY <1>4, <2>5, <3>1, <3>2 DEF AccessTypeOK
    <2>6. QED
      BY <1>1, <1>7, <2>2, <2>5 DEF Granted
  <1>11. QED
    BY <1>8, <1>10

LEMMA EndCallInv ==
  ASSUME IInv, NEW c \in Calls, EndCall(c) PROVE IInv'
  <1> USE DEF IInv
  <1> DEFINE entry == [token |-> calls[c].token, at |-> calls[c].at]
  <1>1. /\ calls[c] # Null /\ calls[c] \in Call
        /\ calls' = [calls EXCEPT ![c] = Null]
        /\ UNCHANGED <<now, kinds, households, users, signing, edits, sessions, requests, over, tokens>>
    BY DEF EndCall, AccessTypeOK, people, webs
  <1>2. entry \in Entry /\ (MayAdd(calls[c]) => Good(entry, "write"))
    BY <1>1 DEF Entry, Call, MayAdd, Good, Granted
  <1>3. \/ written' = written
        \/ MayAdd(calls[c]) /\ written' = written \union {entry}
    BY DEF EndCall
  <1> HIDE DEF entry
  <1>4. AccessTypeOK'
    BY <1>1, <1>2, <1>3 DEF AccessTypeOK
  <1>5. Founded' /\ Ended'
    BY <1>1, SamePeople, SameWebs
  <1>6. Granted'
    <2>1. \A use, scope : Good(use, scope) => Good(use, scope)'
      BY <1>1 DEF Good
    <2>2. \A d \in Calls : calls'[d] # Null => calls'[d] = calls[d]
      BY <1>1 DEF AccessTypeOK
    <2>3. \A d \in Calls : \A use : use = calls'[d] /\ use # Null => Good(use, use.scope)'
      BY <2>1, <2>2 DEF Granted
    <2>4. \A x \in written' : Good(x, "write")'
      <3>1. \A x \in written' : Good(x, "write")
        BY <1>2, <1>3 DEF Granted
      <3>2. QED
        BY <2>1, <3>1
    <2>5. QED
      BY <1>1, <2>3, <2>4 DEF Granted
  <1>7. QED
    BY <1>4, <1>5, <1>6

\* Time only ends sessions and tokens.
LEMMA ClockTicksInv ==
  ASSUME IInv, ClockTicks PROVE IInv'
  <1> USE DEF IInv
  <1>1. /\ now' = now + 1 /\ now' \in 0..MaxTime /\ now \in Nat
        /\ UNCHANGED <<kinds, households, users, signing, edits, sessions, requests, over,
                       tokens, calls, written>>
    BY TimesAssumption DEF ClockTicks, AccessTypeOK, people, webs, agents
  <1>2. AccessTypeOK'
    BY <1>1 DEF AccessTypeOK, Session
  <1>3. Founded'
    BY <1>1, SamePeople
  <1>4. Ended'
    <2>1. \A s \in over : sessions[s] # Null /\ Expired(s) => Expired(s)'
      BY <1>1, TimesAssumption DEF Expired, AccessTypeOK, Session
    <2>2. \A r \in Browsers : requests[r] # Null /\ requests[r].at <= now => requests[r].at <= now'
      BY <1>1 DEF AccessTypeOK, Request
    <2>3. QED
      BY <1>1, <2>1, <2>2 DEF Ended, On
  <1>5. Granted'
    BY <1>1 DEF Granted, Good, AccessTypeOK, Call, Entry
  <1>6. QED
    BY <1>2, <1>3, <1>4, <1>5

-----------------------------------------------------------------------------
LEMMA NextInv == IInv /\ [AccessNext]_accessVars => IInv'
  <1> SUFFICES ASSUME IInv, [AccessNext]_accessVars PROVE IInv'
    OBVIOUS
  <1>1. CASE Opening
    BY <1>1, LoginInv DEF Opening
  <1>2. CASE ClockTicks
    BY <1>2, ClockTicksInv
  <1>3. CASE Editing
    BY <1>3, EditByHandInv DEF Editing, Roles
  <1>4. CASE SigningUp
    BY <1>4, BeginSignupInv, FinishSignupInv, AbortSignupInv DEF SigningUp
  <1>5. CASE Browsing
    BY <1>5, RefuseInv, LogoutInv, BeginRequestInv, AcquireInv, EndRequestInv DEF Browsing
  <1>6. CASE Acting
    BY <1>6, RevokeTokenInv, CreateTokenInv, BeginCallInv, EndCallInv DEF Acting
  <1>7. CASE UNCHANGED accessVars
    <2>1. AccessTypeOK'
      BY <1>7 DEF accessVars, AccessTypeOK, IInv
    <2>2. QED
      BY <1>7, <2>1, SamePeople, SameWebs, SameAgents DEF accessVars, IInv
  <1>8. QED
    BY <1>1, <1>2, <1>3, <1>4, <1>5, <1>6, <1>7 DEF AccessNext

\* The invariant holds of every reachable state of the door.
THEOREM Inductive == AccessSpec => []IInv
  BY InitInv, NextInv, PTL DEF AccessSpec

\* However many people sign up at once there is one household, they are all in
\* it, and exactly one of them owns it.
THEOREM OneHouseholdForAll == AccessSpec => []OneHousehold
  <1>1. IInv => OneHousehold
    <2> SUFFICES ASSUME IInv PROVE OneHousehold
      OBVIOUS
    <2> USE DEF IInv
    <2>1. households <= 1
      BY DEF Founded
    <2>2. ASSUME edits = 0 PROVE households = Cardinality(Owners)
      <3>1. CASE households = 0
        <4>1. Owners = {}
          BY <3>1 DEF Founded, Owners
        <4>2. QED
          BY <3>1, <4>1, FS_EmptySet
      <3>2. CASE households = 1
        <4>1. PICK e \in Emails : Owners = {e}
          BY <2>2, <3>2 DEF Founded
        <4>2. QED
          BY <3>2, <4>1, FS_Singleton
      <3>3. QED
        BY <3>1, <3>2 DEF Founded
    <2>3. QED
      BY <2>1, <2>2 DEF OneHousehold, Owners, Founded
  <1>2. QED
    BY <1>1, Inductive, PTL

\* A session that ended, by a logout, by its idle or its absolute limit, answers
\* no request, whatever requests overlapped its end.
THEOREM OverIsOverForAll == AccessSpec => []OverIsOver
  <1>1. IInv => OverIsOver
    <2> SUFFICES ASSUME IInv, NEW r \in Browsers, requests[r] # Null, requests[r].holds
                 PROVE  /\ requests[r].session \notin over
                        /\ requests[r].at <= sessions[requests[r].session].expires
      BY DEF OverIsOver
    <2>1. sessions[requests[r].session] # Null
      BY DEF IInv, AccessTypeOK
    <2>2. r \in On(requests[r].session)
      BY DEF On
    <2>3. QED
      BY <2>1, <2>2 DEF IInv, Ended
  <1>2. QED
    BY <1>1, Inductive, PTL

\* Whatever roles change by hand and whenever a token is revoked, an entry is
\* added only with a token an owner issued, by a call begun while it stood.
THEOREM AgentsActForTheOwnerAlways == AccessSpec => []AgentsActForTheOwner
  <1>1. IInv => AgentsActForTheOwner
    BY DEF IInv, Granted, Good, AgentsActForTheOwner
  <1>2. QED
    BY <1>1, Inductive, PTL
=============================================================================
