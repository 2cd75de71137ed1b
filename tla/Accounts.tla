----------------------------- MODULE Accounts ------------------------------
(***************************************************************************)
(* A household's accounts (services/ledger.py) and the half of the sync    *)
(* that finds them again (services/sync.py): which ledger row one of the   *)
(* bank's accounts lands on, and where its balance goes.                   *)
(*                                                                         *)
(* A card keeps its name across a reconnect and its id (card, connection)  *)
(* across a rename; two cards may be named alike.  A sync lands in one     *)
(* database transaction; what two writers of one balance do to each other  *)
(* is in Imports.                                                          *)
(***************************************************************************)
EXTENDS Household, SequencesExt

CONSTANTS
  Cards,        \* the bank's accounts, numbered
  CardNames,    \* institution and name, as external_key_for folds them
  FirstName,    \* the name each card starts with
  Connections,  \* the claims of one bank, one after the other or side by side
  Payloads,     \* the cards one fetch may report, in order
  CardType,     \* infer_account_type, from the card's name
  AgentName,    \* the name an agent's account has by default
  Starts,       \* the households a behaviour may start from
  Patches,      \* the edits of an account: each field a value, or None for not sent
  MaxDay,       \* bound: the ledger's days
  MaxNumber     \* bound: "name 2", "name 3"...

VARIABLES
  day,       \* today
  live,      \* each connection: new | live | gone
  cardName   \* each card's name at the bank

bank == <<live, cardName>>
vars == <<owners, groups, cats, rows, accounts, work, left, day, live, cardName>>

Days == 0..(MaxDay + 1)
AccountTypes == {"depository", "credit", "investment"}

\* A card's id with a connection, and the keys an account may have.
Ids == Cards \X Connections
Keys == {<<n>> : n \in CardNames} \union (CardNames \X Ids)

\* A name is a text and the number after it, 1 for none.
Names == (DOMAIN Lower) \X Nat

\* An account with one of these histories.
Account(histories) ==
  [name : Names \union {None}, type : AccountTypes,
   owner : OwnerIds, source : {None, "derived", "stated"}, conn : Connections \union {None},
   ext : Ids \union {None}, key : Keys \union {None}, balance : Int, asOf : Days \union {None},
   snaps : histories, held : BOOLEAN, txns : SUBSET Ids,
   byAgent : BOOLEAN]

\* The accounts in use, each with a balance for some days.
Known(as) ==
  /\ DOMAIN as \subseteq AccountIds /\ as = [a \in DOMAIN as |-> as[a]]
  /\ \A a \in DOMAIN as : LET x == as[a] IN
       /\ x \in Account({x.snaps})
       /\ DOMAIN x.snaps \subseteq Days /\ x.snaps \in [DOMAIN x.snaps -> Int]
       /\ (x.source # None) = (x.type = "investment")

\* The headline is the newest balance on record.
HeadlineOf(x) ==
  \A d \in DOMAIN x.snaps : x.asOf # None /\ d <= x.asOf /\ (d = x.asOf => x.snaps[d] = x.balance)

\* A household before its first agent and its first bank.
StartOK(s) ==
  /\ Tables(s.owners, s.groups, s.cats, s.rows, s.accounts)
  /\ OwnersApart(s.owners)
  /\ Known(s.accounts)
  /\ \A a \in DOMAIN s.accounts :
       LET x == s.accounts[a] IN
       /\ x.key = None /\ x.ext = None /\ x.txns = {} /\ ~x.byAgent
       /\ HeadlineOf(x)

ASSUME LimitsAssumption ==
  /\ MaxDay \in Nat \ {0} /\ MaxNumber \in Nat /\ IsFiniteSet(AccountIds)
  /\ AgentName \in DOMAIN Lower
ASSUME BankAssumption ==
  /\ Cards \subseteq Int
  /\ FirstName \in [Cards -> CardNames] /\ CardType \in [Cards -> AccountTypes]
  /\ \A load \in Payloads : load \in [cards : Seq(Cards), txns : BOOLEAN, on : Days \union {None}]
ASSUME PatchesAssumption ==
  \A p \in Patches :
    p \in [name : Names \union {None}, type : AccountTypes \union {None},
          owner : OwnerIds \union {None}, balance : Int \union {None}, on : Days \union {None}]
\* NULL is no name, day, id, key or source.
ASSUME NoneAssumption ==
  /\ None \notin Names /\ None \notin Int /\ None \notin Ids /\ None \notin Keys
  /\ None \notin {"derived", "stated"}
ASSUME StartsAssumption == \A s \in Starts : StartOK(s)

NewAccount(name, type, owner, source, conn, ext, key) ==
  [name |-> name, type |-> type, owner |-> owner, source |-> source, conn |-> conn, ext |-> ext,
   key |-> key, balance |-> 0, asOf |-> None, snaps |-> <<>>, held |-> FALSE, txns |-> {},
   byAgent |-> FALSE]

-----------------------------------------------------------------------------
(* By hand                                                                 *)

\* create_account: an opening balance counts only where one was given
Created(name, type, owner, opening) ==
  LET a == NewAccount(name, type, owner, IF type = "investment" THEN "derived" ELSE None,
                      None, None, None)
  IN IF opening = None THEN a
     ELSE RecordBalance(a, a, opening.balance, IF opening.on = None THEN day ELSE opening.on, TRUE)

CreateAccount(name, type, owner, opening) ==
  /\ Spend("hand")
  /\ DOMAIN accounts # AccountIds
  /\ accounts' = Put(accounts, Fresh(AccountIds, DOMAIN accounts), Created(name, type, owner, opening))
  /\ UNCHANGED <<owners, filing, rows, work, day, bank>>

Taken(type) ==
  {<<Lower[accounts[a].name[1]], accounts[a].name[2]>> :
     a \in {b \in DOMAIN accounts : accounts[b].type = type /\ accounts[b].name # None}}

DistinctName(name, type) ==
  LET n == CHOOSE n \in 1..MaxNumber : /\ <<Lower[name], n>> \notin Taken(type)
                                       /\ \A k \in 1..(n - 1) : <<Lower[name], k>> \in Taken(type)
  IN <<name, n>>

BeginNaming_NoLock(r, type) ==
  /\ Spend("agent")
  /\ work[r] = None
  /\ Cardinality(Taken(type)) < MaxNumber
  /\ work' = [work EXCEPT ![r] = [op |-> "account", given |-> DistinctName(AgentName, type),
                                  type |-> type]]
  /\ UNCHANGED <<owners, filing, rows, accounts, day, bank>>

\* distinct_account_name: the names are read under a lock the request keeps to its end
BeginNaming(r, type) ==
  /\ Spend("agent")
  /\ work[r] = None
  /\ \A q \in Requests : work[q] # None => work[q].op # "account"
  /\ Cardinality(Taken(type)) < MaxNumber
  /\ work' = [work EXCEPT ![r] = [op |-> "account", given |-> DistinctName(AgentName, type),
                                  type |-> type]]
  /\ UNCHANGED <<owners, filing, rows, accounts, day, bank>>

\* agent_add_account, once the name is chosen
AddNamed(r) ==
  /\ work[r] # None
  /\ work[r].op = "account"
  /\ DOMAIN accounts # AccountIds
  /\ accounts' = Put(accounts, Fresh(AccountIds, DOMAIN accounts),
                   [Created(work[r].given, work[r].type, SharedOwner, None) EXCEPT !.byAgent = TRUE])
  /\ work' = [work EXCEPT ![r] = None]
  /\ UNCHANGED <<owners, filing, rows, left, day, bank>>

\* _retype: what holds positions cannot stop being an investment account
Retyped(a, type) ==
  IF type \in {None, a.type} THEN a
  ELSE [a EXCEPT !.type = type, !.source = IF type = "investment" THEN "stated" ELSE None,
                 !.byAgent = FALSE]

RetypeRefused(a, type) == type \notin {None, a.type} /\ a.type = "investment" /\ a.held

Sent(new, old) == IF new = None THEN old ELSE new

Edited(a, p) ==
  LET named == [a EXCEPT !.name = Sent(p.name, @), !.owner = Sent(p.owner, @),
                         !.byAgent = @ /\ p.name = None]
  IN Retyped(named, p.type)

UpdateAccount_LastDate(a, p) ==
  /\ Spend("hand")
  /\ a \in DOMAIN accounts
  /\ p.owner \in DOMAIN owners \union {None}
  /\ ~RetypeRefused(accounts[a], p.type)
  /\ LET e == Edited(accounts[a], p) IN
       accounts' = [accounts EXCEPT ![a] =
         IF p.balance = None /\ p.on = None THEN e
         ELSE RecordBalance(e, e, Sent(p.balance, e.balance), Sent(p.on, Sent(e.asOf, day)), TRUE)]
  /\ UNCHANGED <<owners, filing, rows, work, day, bank>>

\* update_account: a balance with no date is today's, a date with no balance restates it
UpdateAccount(a, p) ==
  /\ Spend("hand")
  /\ a \in DOMAIN accounts
  /\ p.owner \in DOMAIN owners \union {None}
  /\ ~RetypeRefused(accounts[a], p.type)
  /\ LET e == Edited(accounts[a], p) IN
       accounts' = [accounts EXCEPT ![a] =
         IF p.balance = None /\ p.on = None THEN e
         ELSE RecordBalance(e, e, Sent(p.balance, e.balance), Sent(p.on, day), TRUE)]
  /\ UNCHANGED <<owners, filing, rows, work, day, bank>>

\* put_balance: not for an account valued from its holdings, and not for a day to come
PutBalance(a, on, balance) ==
  /\ Spend("hand")
  /\ a \in DOMAIN accounts
  /\ accounts[a].source # "derived"
  /\ on <= day
  /\ accounts' = [accounts EXCEPT ![a] = RecordBalance(@, @, balance, on, TRUE)]
  /\ UNCHANGED <<owners, filing, rows, work, day, bank>>

\* delete_balance: the newest one left becomes current; with none, the number stays
DeleteBalance(a, on) ==
  /\ Spend("hand")
  /\ a \in DOMAIN accounts
  /\ accounts[a].source # "derived"
  /\ on \in DOMAIN accounts[a].snaps
  /\ LET kept == Without(accounts[a].snaps, on)
         newest == CHOOSE d \in DOMAIN kept : \A e \in DOMAIN kept : e <= d
         emptied == [accounts[a] EXCEPT !.snaps = kept]
     IN accounts' = [accounts EXCEPT ![a] =
          IF accounts[a].asOf = on /\ DOMAIN kept # {}
          THEN [emptied EXCEPT !.balance = kept[newest], !.asOf = newest] ELSE emptied]
  /\ UNCHANGED <<owners, filing, rows, work, day, bank>>

\* delete_account: its transactions go with it
DeleteAccount(a) ==
  /\ Spend("hand")
  /\ a \in DOMAIN accounts
  /\ accounts' = Without(accounts, a)
  /\ rows' = Restrict(rows, {i \in DOMAIN rows : rows[i].account # a})
  /\ UNCHANGED <<owners, filing, work, day, bank>>

\* A position is entered or removed by hand (Positions).
Hold(a) ==
  /\ Spend("hand")
  /\ a \in DOMAIN accounts
  /\ accounts[a].type = "investment"
  /\ accounts' = [accounts EXCEPT ![a].held = ~@]
  /\ UNCHANGED <<owners, filing, rows, work, day, bank>>

-----------------------------------------------------------------------------
(* By the sync.  A payload is [cards, txns, on]: the cards reported, whether*)
(* their transactions are in the window, and the balances' date, if sent.  *)

Id(p, c) == <<c, p>>

\* A card's balance on a day: one number for each.
BankBalance(c, on) == 10 * on + c

RowsWithKey(known, key) == {a \in DOMAIN known : known[a].key = key}
RowsWithId(known, p, id) == {a \in DOMAIN known : known[a].conn = p /\ known[a].ext = id}

Reported(load) == {load.cards[i] : i \in DOMAIN load.cards}
Alike(load, c) == {d \in Reported(load) : cardName[d] = cardName[c]}

\* The row under the plain name already belongs to this card.
Keeps(p, load, c) ==
  \E a \in RowsWithKey(accounts, <<cardName[c]>>) :
    \/ accounts[a].ext = Id(p, c)
    \/ load.txns /\ Id(p, c) \in accounts[a].txns

\* _account_keys: a card that shares its name in this payload is told apart by its id, unless
\* the row is its own, or is nobody's in the payload
AccountKey(p, load, c) ==
  IF \/ Cardinality(Alike(load, c)) < 2
     \/ Keeps(p, load, c)
     \/ /\ RowsWithKey(accounts, <<cardName[c]>>) # {}
        /\ \A d \in Alike(load, c) : ~Keeps(p, load, d)
  THEN <<cardName[c]>> ELSE <<cardName[c], Id(p, c)>>

\* upsert_account: by its key, whoever holds it, else by the connection's id for it
FoundRow(known, p, c, key) ==
  IF RowsWithKey(known, key) # {} THEN RowsWithKey(known, key) ELSE RowsWithId(known, p, Id(p, c))

\* _insert_account
Inserted(p, c, key) ==
  NewAccount(None, CardType[c], SharedOwner, IF CardType[c] = "investment" THEN "stated" ELSE None,
             p, Id(p, c), key)

\* _rekey_remapped_account, for the one charge a card's rows stand for here
Rekeyed(txns, p, c) ==
  IF Id(p, c) \in txns THEN txns
  ELSE {IF t[1] = c THEN Id(p, c) ELSE t : t \in txns}

\* What one card's row is after it: adopted, its rows matched to the payload's ids, and its
\* balance recorded (_apply_balance), without a snapshot where the holdings are the history.
Adopted(a, p, load, c) ==
  LET id == Id(p, c)
      moved == a.ext # id \/ a.conn # p
      kept == IF moved /\ load.txns THEN Rekeyed(a.txns, p, c) ELSE a.txns
      mine == [a EXCEPT !.ext = id, !.conn = p,
                        !.txns = IF load.txns THEN kept \union {id} ELSE kept]
      on == IF load.on = None THEN day ELSE load.on
  IN RecordBalance(mine, mine, BankBalance(c, on), on, mine.source # "derived")

Landed(known, p, load, c) ==
  LET key == AccountKey(p, load, c)
      found == FoundRow(known, p, c, key)
  IN IF found = {} THEN Put(known, Fresh(AccountIds, DOMAIN known), Adopted(Inserted(p, c, key), p, load, c))
     ELSE LET a == CHOOSE a \in found : TRUE
          IN [known EXCEPT ![a] = Adopted(@, p, load, c)]

\* The accounts after each of a payload's cards.
Lands(p, load) ==
  LET after[i \in 0..Len(load.cards)] ==
        IF i = 0 THEN accounts ELSE Landed(after[i - 1], p, load, load.cards[i])
  IN after

\* ingest_account_set
Sync(p, load) ==
  /\ Spend("bank")
  /\ live[p] = "live"
  /\ Cardinality(AccountIds \ DOMAIN accounts) >= Len(load.cards)
  /\ accounts' = Lands(p, load)[Len(load.cards)]
  /\ UNCHANGED <<owners, filing, rows, work, day, bank>>

\* A new claim of the bank, and the deletion of one: the rows stay (ON DELETE SET NULL).
Claim(p) ==
  /\ Spend("bank")
  /\ live[p] = "new"
  /\ live' = [live EXCEPT ![p] = "live"]
  /\ UNCHANGED <<owners, filing, rows, accounts, work, day, cardName>>

Disconnect(p) ==
  /\ Spend("bank")
  /\ live[p] = "live"
  /\ live' = [live EXCEPT ![p] = "gone"]
  /\ accounts' = [a \in DOMAIN accounts |->
       IF accounts[a].conn = p THEN [accounts[a] EXCEPT !.conn = None] ELSE accounts[a]]
  /\ UNCHANGED <<owners, filing, rows, work, day, cardName>>

\* The bank renames a card (bound: once).
Rename(c, n) ==
  /\ Spend("bank")
  /\ cardName[c] = FirstName[c]
  /\ cardName' = [cardName EXCEPT ![c] = n]
  /\ cardName' # cardName
  /\ UNCHANGED <<owners, filing, rows, accounts, work, day, live>>

Tick ==
  /\ day < MaxDay
  /\ day' = day + 1
  /\ UNCHANGED <<owners, filing, rows, accounts, work, left, bank>>

-----------------------------------------------------------------------------
(* The household                                                           *)

Init ==
  /\ \E s \in Starts : /\ owners = s.owners /\ groups = s.groups /\ cats = s.cats
                       /\ rows = s.rows /\ accounts = s.accounts
                       /\ left = s.left
  /\ work = [r \in Requests |-> None]
  /\ day = 1
  /\ live = [p \in Connections |-> "new"]
  /\ cardName = FirstName

ByHand ==
  \/ \E type \in AccountTypes, o \in DOMAIN owners,
        opening \in {None} \union [balance : {5}, on : {None, 0}] :
       CreateAccount(<<AgentName, 1>>, type, o, opening)
  \/ \E a \in DOMAIN accounts, p \in Patches : UpdateAccount(a, p)
  \/ \E a \in DOMAIN accounts, on \in Days : PutBalance(a, on, 6)
  \/ \E a \in DOMAIN accounts, on \in Days : DeleteBalance(a, on)
  \/ \E a \in DOMAIN accounts : DeleteAccount(a)
  \/ \E a \in DOMAIN accounts : Hold(a)

ByAgent ==
  \/ \E r \in Requests, type \in {"depository"} : BeginNaming(r, type)
  \/ \E r \in Requests : AddNamed(r)

ByBank ==
  \/ \E p \in Connections, load \in Payloads : Sync(p, load)
  \/ \E p \in Connections : Claim(p)
  \/ \E p \in Connections : Disconnect(p)
  \/ \E c \in Cards, n \in CardNames : Rename(c, n)

Next == (HouseholdNext /\ UNCHANGED <<day, bank>>) \/ ByHand \/ ByAgent \/ ByBank \/ Tick

Spec == Init /\ [][Next]_vars

-----------------------------------------------------------------------------
(* Properties                                                              *)

\* Every name in the tables is somebody's, a key is one account's, and an account has a source
\* exactly if it is an investment.
TypeOK ==
  /\ Tables(owners, groups, cats, rows, accounts)
  /\ Known(accounts)
  /\ \A a, b \in DOMAIN accounts : accounts[a].key # None /\ accounts[a].key = accounts[b].key => a = b
  /\ day \in 1..MaxDay /\ cardName \in [Cards -> CardNames]

\* An account's headline is its newest balance, through typed balances, corrections of the past,
\* deleted days and the bank's own (record_balance).
HeadlineIsNewest ==
  \A a \in DOMAIN accounts : HeadlineOf(accounts[a])

\* A day gone by changes only in the hands of something that names that day: an edit that names
\* none, and a sync whose bank sends none, are about today (record_balance's reason to exist).
PastIsNamed ==
  [][\A a \in DOMAIN accounts \intersect DOMAIN accounts' :
       \A d \in {e \in DOMAIN accounts[a].snaps \union DOMAIN accounts'[a].snaps : e < day} :
         LET kept == /\ d \in DOMAIN accounts[a].snaps /\ d \in DOMAIN accounts'[a].snaps
                     /\ accounts[a].snaps[d] = accounts'[a].snaps[d]
         IN kept \/ (\/ PutBalance(a, d, 6)
                     \/ DeleteBalance(a, d)
                     \/ \E p \in Patches : p.on = d /\ UpdateAccount(a, p)
                     \/ \E p \in Connections, load \in Payloads : load.on = d /\ Sync(p, load))]_vars

\* Two accounts an agent named, and nobody renamed or retyped, have no portable identity in
\* common, also when two requests add them at once (distinct_account_name's lock).
AgentsNameApart ==
  \A a, b \in DOMAIN accounts :
    /\ accounts[a].byAgent /\ accounts[b].byAgent /\ accounts[a].type = accounts[b].type
    /\ Lower[accounts[a].name[1]] = Lower[accounts[b].name[1]]
    /\ accounts[a].name[2] = accounts[b].name[2]
    => a = b

\* A card alone in its name has its charges on one row, through every reconnect, and beside a
\* second claim of the same bank (ADR-0009's key).
OneRowPerCard ==
  \A c \in Cards :
    (cardName[c] = FirstName[c] /\ \A d \in Cards \ {c} : FirstName[c] \notin {FirstName[d], cardName[d]})
    => Cardinality({a \in DOMAIN accounts : c \in {t[1] : t \in accounts[a].txns}}) <= 1

\* No two cards of one name are put on one row, unless it was both's before or neither's.
ApartAfter(p, load) ==
  \A c, d \in Reported(load), a \in DOMAIN accounts' :
    (/\ c # d /\ cardName[c] = cardName[d]
     /\ {Id(p, c), Id(p, d)} \subseteq accounts'[a].txns) =>
      /\ a \in DOMAIN accounts
      /\ LET known == accounts[a].txns \union {accounts[a].ext}
         IN \/ {Id(p, c), Id(p, d)} \subseteq known
            \/ {Id(p, c), Id(p, d)} \intersect known = {}

\* Two cards one fetch reports under one name land on rows of their own, unless the row was both's
\* before or belongs to neither (_account_keys).
AlikeLandApart ==
  [][\A p \in Connections, load \in Payloads :
       load.txns /\ Len(load.cards) > 1 /\ Sync(p, load) => ApartAfter(p, load)]_vars

\* Everything is somebody's, owners' reports read apart, and an account's
\* headline is its newest balance, whoever writes them and in whatever order.
HouseholdIsSound == TypeOK /\ Attributed /\ OwnersReadApart /\ HeadlineIsNewest

\* An account is told from every other: the ones agents name at once have no
\* portable identity in common, and a card's charges stay on one row.
AccountsAreApart == AgentsNameApart /\ OneRowPerCard

\* A step changes what it names and nothing beside it: an owner's share moves
\* whole, a row keeps what it means, a day gone by keeps its balance, and two
\* cards of one name are not put on one row.
EditsStayPut == ShareMovesWhole /\ MeaningStands /\ PastIsNamed /\ AlikeLandApart
=============================================================================
