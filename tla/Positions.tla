----------------------------- MODULE Positions -----------------------------
(***************************************************************************)
(* What the household's investment accounts hold, from the writers of a    *)
(* position -- a person's row, the recorded trades, the bank's list of     *)
(* holdings (services/investments.py, services/sync_holdings.py) -- to the *)
(* balance of an account that is derived from its positions (ADR-0021).    *)
(*                                                                         *)
(* A request reads, without a lock, what it is about (Ask); then it writes *)
(* and revalues the accounts it may have moved (Write); then it commits.   *)
(* A sync reads its account's rows and writes them later, too.  Statements *)
(* are READ COMMITTED: a write waits for another's uncommitted one, and    *)
(* then sets, on what is there by then, the columns that differ from what  *)
(* was read.  What a transaction reads, it reads at one moment.  A         *)
(* position's trades are the shares they add (module TradeHistory folds    *)
(* them), at most one of an amount.  Every rate that is known is one.      *)
(***************************************************************************)
EXTENDS Integers, FiniteSets, FiniteSetsExt, Functions

CONSTANTS
  Accounts,      \* investment accounts
  Derived,       \* the ones valued from their positions; a bank states the rest
  Securities,
  CurrencyOf,    \* of each account and each security
  Base,          \* the household's currency
  LastDay,       \* days are 1 .. LastDay
  Requests,      \* what people may ask for: see Effect
  BankLists,     \* what a bank may list for an account it states: security to line
  Clients,
  MaxRequests,   \* bound: requests and syncs
  None           \* SQL NULL

VARIABLES
  book,      \* securities, holdings rows, trades, prices, and the currencies
             \* with a rate to Base, as committed
  today,
  balance,   \* accounts.current_balance of each derived account
  filed,     \* its snapshots: was every position in each of them valued?
  clients,   \* the requests in flight
  mirror,    \* the sync between its read and its write, or None
  asked      \* requests and syncs so far

vars == <<book, today, balance, filed, clients, mirror, asked>>

Days == 1..LastDay
Positions == Accounts \X Securities

\* What may be asked for; a quantity is never zero (quantity_nonzero).
Asks(kinds, quantities) ==
  [kind : kinds, account : Accounts, security : Securities, quantity : quantities]
Pins(quantities) ==
  [kind : {"pin"}, account : Accounts, security : Securities, quantity : quantities,
   total : Int \cup {None}]
Amends == [kind : {"amend"}, account : Accounts, security : Securities, quantity : Int, to : Int]
Prices == [kind : {"price"}, security : Securities, day : Days, price : Nat]
Request(quantities) ==
  Asks({"hold"}, Int \ {0}) \cup Asks({"clear", "reset", "trade", "erase"}, Int)
    \cup Pins(quantities) \cup Amends \cup Prices
    \cup [kind : {"drop", "list"}, security : Securities]
Line == [quantity : Int \ {0}, price : Nat]

OrNull(S) == S \cup {None}
NoPin == [total |-> None, quantity |-> None]
HoldingRow ==
  [quantity : Int \ {0}, source : {"manual", "bank"}, frozen : BOOLEAN,
   pin : [total : OrNull(Int), quantity : OrNull(Int)], by : {"person", "bank", "several"}]
Price == [price : Nat, source : {"manual", "auto"}]

ASSUME SetsAssumption ==
  /\ IsFiniteSet(Accounts) /\ IsFiniteSet(Securities) /\ LastDay \in Nat \ {0}
  /\ Derived \subseteq Accounts
ASSUME RequestsAssumption == Requests \subseteq Request({0})
ASSUME BankListsAssumption ==
  \A list \in BankLists : DOMAIN list \subseteq Securities /\ list \in [DOMAIN list -> Line]
\* NULL is no number, truth value, row, price or request.
ASSUME NoneAssumption ==
  /\ None \notin Int /\ None \notin BOOLEAN /\ None \notin HoldingRow /\ None \notin Price
  /\ None \notin Request(Int)

\* A request in flight: what it read of what it will write, who then held its security,
\* whether what it read is gone, its balances, and whether it computed them too early.
Client(request, was, holders, lost, written, plan, late) ==
  [request |-> request, was |-> was, holders |-> holders, lost |-> lost, written |-> written,
   plan |-> plan, late |-> late]
Idle == Client(None, None, {}, FALSE, FALSE, None, FALSE)

-----------------------------------------------------------------------------
(* Valuation                                                               *)

Total(values) == SumFunction(values)

\* positions_for: history wins, and a closed position is no position.
Quantity(b, p) ==
  IF b.trades[p] # {} THEN Total([q \in b.trades[p] |-> q])
  ELSE IF b.rows[p] # None THEN b.rows[p].quantity ELSE 0

Held(b, a) == {p \in Positions : p[1] = a /\ Quantity(b, p) # 0}

\* latest_prices: the price of the last day on or before this one.
Quote(b, s, on) ==
  LET priced == {d \in Days : d <= on /\ b.prices[s][d] # None} IN
  IF priced = {} THEN None ELSE b.prices[s][Max(priced)].price

\* get_multiplier, where every rate is to or from the base currency.
Converts(b, from, to) == from = to \/ {from, to} \subseteq b.rated \cup {Base}

\* A total has the sign of its quantity, so that their sizes are their ratio.
Size(n) == IF n < 0 THEN -n ELSE n

\* override_value, or quantity times price; None is unpriced, which is not zero.
NativeValue(b, p, on) ==
  LET row == b.rows[p]
      qty == Quantity(b, p)
  IN IF row # None /\ row.pin # NoPin THEN (Size(row.pin.total) * qty) \div Size(row.pin.quantity)
     ELSE IF Quote(b, p[2], on) = None THEN None
     ELSE qty * Quote(b, p[2], on)

Valued(b, p, on, currency) ==
  NativeValue(b, p, on) # None /\ Converts(b, CurrencyOf[p[2]], currency)

\* value_account's market_value_account: the positions that convert to its currency.
Worth(b, a, on) ==
  Total([p \in {q \in Held(b, a) : Valued(b, q, on, CurrencyOf[a])} |-> NativeValue(b, p, on)])

\* is_fully_valued asks whether each has a value in the household's currency.
FullyValued(b, a, on) == \A p \in Held(b, a) : Valued(b, p, on, Base)

-----------------------------------------------------------------------------
(* Rows                                                                    *)

Row(q, source) ==
  [quantity |-> q, source |-> source, frozen |-> FALSE, pin |-> NoPin,
   by |-> IF source = "manual" THEN "person" ELSE "bank"]
Place(r) == <<r.account, r.security>>

\* What an UPDATE leaves in a column: the session sets those it changed.
Column(was, new, now) == IF new = was THEN now ELSE new

Columns(row) == <<row.quantity, row.frozen, row.pin>>
Differs(was, new) == (was = None) # (new = None) \/ (was # None /\ new # None /\ Columns(was) # Columns(new))

\* A row that was read, changed and is now there.  Whose quantity it is, is nobody's
\* to say when another wrote the row in between.
Merged(was, new, now) ==
  [quantity |-> Column(was.quantity, new.quantity, now.quantity),
   source   |-> now.source,
   frozen   |-> Column(was.frozen, new.frozen, now.frozen),
   pin      |-> [total    |-> Column(was.pin.total, new.pin.total, now.pin.total),
                 quantity |-> Column(was.pin.quantity, new.pin.quantity, now.pin.quantity)],
   by       |-> IF now = was THEN new.by
                ELSE IF new.quantity = was.quantity /\ new.frozen = was.frozen THEN now.by
                ELSE "several"]

\* The DELETE, INSERT or UPDATE of a row; none, if nothing changed.
Rewritten(was, new, now) ==
  IF ~Differs(was, new) THEN now
  ELSE IF was = None \/ new = None THEN new
  ELSE IF now = None THEN None ELSE Merged(was, new, now)

\* holding_value_override: the columns of a pin are set together or not at all.
PinIsWhole(row) == row # None => (row.pin.total = None <=> row.pin.quantity = None)

\* ... or of a day's price.
Requoted(was, new, now) ==
  IF new = was THEN now
  ELSE IF was = None \/ now = None THEN new
  ELSE [price |-> Column(was.price, new.price, now.price), source |-> Column(was.source, new.source, now.source)]

-----------------------------------------------------------------------------
(* Requests                                                                *)

RowKinds == {"hold", "clear", "pin", "reset"}
TradeKinds == {"trade", "amend", "erase"}

\* upsert_holding and update_holding: a quantity written to a bank's row freezes it.
\* (create_only, the agent's way in, is this where there is no row and no trade.)
Hold(row, q) ==
  IF row = None THEN Row(q, "manual")
  ELSE [row EXCEPT !.quantity = q, !.by = "person", !.frozen = row.source = "bank"]

\* _apply_holding_metadata: a total is pinned to the quantity the position has.
Pin(row, r) ==
  [row EXCEPT !.pin = IF r.total = None THEN NoPin ELSE [total |-> r.total, quantity |-> r.quantity]]

\* update_holding with reset_overrides.
Reset(row) == [row EXCEPT !.frozen = FALSE, !.pin = NoPin, !.by = "bank"]

\* The row or the price that a request makes of the one it read.
Wanted(x) ==
  LET r == x.request IN
  CASE r.kind = "hold"  -> Hold(x.was, r.quantity)
    [] r.kind = "pin"   -> Pin(x.was, r)
    [] r.kind = "reset" -> Reset(x.was)
    [] r.kind = "price" -> [price |-> r.price, source |-> "manual"]
    [] OTHER            -> None

\* delete_security: rows and prices go with it, its trades belong to no position.
Drop(b, s) ==
  [listed |-> b.listed \ {s},
   rows   |-> [p \in Positions |-> IF p[2] = s THEN None ELSE b.rows[p]],
   trades |-> [p \in Positions |-> IF p[2] = s THEN {} ELSE b.trades[p]],
   prices |-> [b.prices EXCEPT ![s] = [d \in Days |-> None]],
   rated  |-> b.rated]

\* The refusals, by what the request reads: 404s, the 409 while trades own the
\* quantity, and a pinned total that does not have its position's sign.
Accepted(b, r) ==
  /\ r.kind = "list" <=> r.security \notin b.listed
  /\ r.kind = "hold" /\ b.rows[Place(r)] # None => b.trades[Place(r)] = {}
  /\ r.kind \in {"clear", "pin", "reset"} => b.rows[Place(r)] # None
  /\ r.kind = "pin" /\ r.total # None =>
       /\ Quantity(b, Place(r)) # 0
       /\ r.total # 0 => (r.total < 0 <=> Quantity(b, Place(r)) < 0)
  /\ r.kind = "reset" => b.rows[Place(r)].source = "bank"
  /\ r.kind \in {"erase", "amend"} => r.quantity \in b.trades[Place(r)]

Affected_RowsOnly(b, r) ==
  IF r.kind \in {"price", "drop"} THEN {a \in Accounts : b.rows[<<a, r.security>>] # None}
  ELSE IF r.kind = "list" THEN {} ELSE {r.account}

\* The accounts a request revalues: of a price or a security, every one with a row
\* or trades of it.
Affected(b, r) ==
  IF r.kind \in {"price", "drop"}
  THEN {a \in Accounts : b.rows[<<a, r.security>>] # None \/ b.trades[<<a, r.security>>] # {}}
  ELSE IF r.kind = "list" THEN {} ELSE {r.account}

\* What a request read of what it will write.
Seen(b, r) ==
  IF r.kind \in RowKinds THEN b.rows[Place(r)]
  ELSE IF r.kind = "price" THEN b.prices[r.security][r.day] ELSE None

\* ... and whether that is gone from this book, with its security or alone.
Gone(b, x) ==
  LET r == x.request IN
  /\ r.kind # "list"
  /\ \/ r.security \notin b.listed
     \/ r.kind \in RowKinds /\ x.was # None /\ b.rows[Place(r)] = None
     \/ r.kind \in {"erase", "amend"} /\ r.quantity \notin b.trades[Place(r)]

\* A request about a row or a price sends nothing if nothing changes.
Sends(x) ==
  /\ x.request.kind \in RowKinds => Differs(x.was, Wanted(x))
  /\ x.request.kind = "price" => x.was # Wanted(x)

\* A row that is there already, an UPDATE of a row that is gone, a reference to a
\* security that is gone, a pin in pieces: the request fails.
Fails(b, x) ==
  LET r == x.request IN
  /\ Sends(x)
  /\ \/ r.kind \in {"hold", "pin", "reset", "trade", "amend", "price"} /\ x.lost
     \/ r.kind = "hold" /\ x.was = None /\ b.rows[Place(r)] # None
     \/ r.kind = "price" /\ x.was = None /\ b.prices[r.security][r.day] # None
     \/ r.kind \in RowKinds /\ ~PinIsWhole(Rewritten(x.was, Wanted(x), b.rows[Place(r)]))

\* What a request does to the book there is; a DELETE of what is gone does nothing.
Effect(b, x) ==
  LET r == x.request IN
  IF x.lost \/ Fails(b, x) THEN b
  ELSE CASE r.kind \in RowKinds -> [b EXCEPT !.rows[Place(r)] = Rewritten(x.was, Wanted(x), @)]
         [] r.kind = "price" -> [b EXCEPT !.prices[r.security][r.day] = Requoted(x.was, Wanted(x), @)]
         [] r.kind = "trade" -> [b EXCEPT !.trades[Place(r)] = @ \cup {r.quantity}]
         [] r.kind = "amend" -> [b EXCEPT !.trades[Place(r)] = (@ \ {r.quantity}) \cup {r.to}]
         [] r.kind = "erase" -> [b EXCEPT !.trades[Place(r)] = @ \ {r.quantity}]
         [] r.kind = "drop"  -> Drop(b, r.security)
         [] r.kind = "list"  -> [b EXCEPT !.listed = @ \cup {r.security}]

\* Rows that both would write, or one write and one refer to: the second waits.
Conflict(x, y) ==
  LET r == x.request
      q == y.request
  IN /\ Sends(x) /\ ~x.lost
     /\ Sends(y) /\ ~y.lost
     /\ r.security = q.security
     /\ \/ "drop" \in {r.kind, q.kind}
        \/ r.kind = "price" /\ q.kind = "price" /\ r.day = q.day
        \/ {r.kind, q.kind} \subseteq RowKinds /\ r.account = q.account
        \/ {r.kind, q.kind} \subseteq {"erase", "amend"} /\ Place(r) = Place(q) /\ r.quantity = q.quantity

\* Bound: one trade of an amount at a position, and each security listed once at a time.
Made(r) ==
  CASE r.kind = "trade" -> {<<Place(r), r.quantity>>}
    [] r.kind = "amend" -> {<<Place(r), r.to>>}
    [] r.kind = "list"  -> {r.security}
    [] OTHER            -> {}
OnlyOne(r) ==
  /\ \A c \in Clients : clients[c].request # None => Made(r) \cap Made(clients[c].request) = {}
  /\ r.kind = "trade" => r.quantity \notin book.trades[Place(r)]
  /\ r.kind = "amend" => r.to \notin book.trades[Place(r)]
  /\ r.kind = "list" /\ mirror # None => r.security \notin DOMAIN mirror.read.list

\* A request with what it read: a total is pinned to the quantity of that moment.
Read(b, r) ==
  IF r.kind = "pin" THEN [r EXCEPT !.quantity = Quantity(b, Place(r))] ELSE r

\* An account revalued by this book, from the balance it had; whole is history: was
\* every position in its balance?
Revalued(b, a, on, had) ==
  [was   |-> had, is |-> Worth(b, a, on),
   day   |-> IF FullyValued(b, a, on) THEN on ELSE None,
   whole |-> \A p \in Held(b, a) : Valued(b, p, on, CurrencyOf[a])]

\* The accounts a request moves, revalued by the book it leaves.  Who holds a
\* security that is deleted was asked before the delete.
Plan(b, x, on, had) ==
  [a \in Derived \cap (IF x.request.kind = "drop" THEN x.holders ELSE Affected(b, x.request)) |->
     Revalued(Effect(b, x), a, on, had[a])]

\* A request reads and is checked.
Ask(c, asks) ==
  LET r == Read(book, asks) IN
  /\ clients[c].request = None
  /\ asked < MaxRequests
  /\ Accepted(book, r)
  /\ OnlyOne(r)
  /\ clients' = [clients EXCEPT ![c] =
                   Client(r, Seen(book, r), Affected(book, r), FALSE, FALSE, None, FALSE)]
  /\ asked' = asked + 1
  /\ UNCHANGED <<book, today, balance, filed, mirror>>

\* It writes, and computes the balances of the derived accounts it moved.
Write(c) ==
  LET x == clients[c] IN
  /\ x.request # None
  /\ ~x.written
  /\ \A d \in Clients : clients[d].written => ~Conflict(x, clients[d])
  /\ ~Fails(book, x)
  /\ clients' = [clients EXCEPT ![c] =
                   Client(x.request, x.was, x.holders, x.lost, TRUE, Plan(book, x, today, balance), x.late)]
  /\ UNCHANGED <<book, today, balance, filed, mirror, asked>>

\* ... or fails, and is rolled back.
Fail(c) ==
  LET x == clients[c] IN
  /\ x.request # None
  /\ ~x.written
  /\ \A d \in Clients : clients[d].written => ~Conflict(x, clients[d])
  /\ Fails(book, x)
  /\ clients' = [clients EXCEPT ![c] = Idle]
  /\ UNCHANGED <<book, today, balance, filed, mirror, asked>>

\* The requests in flight when the book becomes b: what one of them read may be gone,
\* and who has computed its balances, or asked who holds its security, is late.
Overtaken(b) ==
  [c \in Clients |->
     LET x == clients[c] IN
     IF x.request = None THEN Idle
     ELSE Client(x.request, x.was, x.holders, x.lost \/ Gone(b, x), x.written, x.plan,
                 x.late \/ x.written \/ (x.request.kind = "drop" /\ x.holders # Affected(b, x.request)))]

\* ... and the sync between its read and its write.
Passed(b) ==
  IF mirror = None THEN None
  ELSE LET m == mirror.read IN
       [read |-> m,
        lost |-> mirror.lost \cup {s \in Securities : m.rows[s] # None /\ b.rows[<<m.account, s>>] = None},
        dropped |-> mirror.dropped \cup (m.listed \ b.listed)]

\* It commits.  record_balance files what was fully valued; an account whose
\* balance comes out as it was read is not written.
Commit(c) ==
  LET x == clients[c]
      plan == x.plan
  IN
  /\ x.written
  /\ book' = Effect(book, x)
  /\ balance' = [a \in Derived |-> IF a \in DOMAIN plan /\ plan[a].is # plan[a].was
                                   THEN plan[a].is ELSE balance[a]]
  /\ filed' = [a \in Derived |-> IF a \in DOMAIN plan /\ plan[a].day # None
                                 THEN [filed[a] EXCEPT ![plan[a].day] = plan[a].whole]
                                 ELSE filed[a]]
  /\ clients' = [Overtaken(book') EXCEPT ![c] = Idle]
  /\ mirror' = Passed(book')
  /\ UNCHANGED <<today, asked>>

-----------------------------------------------------------------------------
(* The bank's list                                                         *)

\* What a sync reads before it writes: the account's rows, the positions that trades
\* hold, the securities, and the day's prices.
Reading(b, a, list, on) ==
  [account |-> a, list |-> list, on |-> on,
   rows   |-> [s \in Securities |-> b.rows[<<a, s>>]],
   traded |-> {s \in Securities : b.trades[<<a, s>>] # {}},
   listed |-> b.listed \cap DOMAIN list,
   prices |-> [s \in DOMAIN list |-> b.prices[s][on]]]

\* Rows sync neither writes nor prices: somebody's, and what trades already hold.
TheirsToKeep(m, s) == s \in m.traded \/ (m.rows[s] # None /\ m.rows[s].source = "manual")

Lines(m) == {s \in DOMAIN m.list : ~TheirsToKeep(m, s)}

\* Synced rows that no line of the list writes; a frozen one stays.
Removed(m) ==
  {s \in Securities : m.rows[s] # None /\ m.rows[s].source = "bank" /\ ~m.rows[s].frozen /\ s \notin Lines(m)}

Landed_Thawed(m, s) ==
  LET row == m.rows[s] IN
  IF s \in Removed(m) THEN None
  ELSE IF s \notin Lines(m) THEN row
  ELSE IF row = None THEN Row(m.list[s].quantity, "bank")
  ELSE [row EXCEPT !.quantity = m.list[s].quantity, !.by = "bank"]

\* The row of a security that the sync makes of the one it read.
Landed(m, s) ==
  LET row == m.rows[s] IN
  IF s \in Removed(m) THEN None
  ELSE IF s \notin Lines(m) \/ (row # None /\ row.frozen) THEN row
  ELSE IF row = None THEN Row(m.list[s].quantity, "bank")
  ELSE [row EXCEPT !.quantity = m.list[s].quantity, !.by = "bank"]

\* _record_price: one that somebody entered for the day stands.
Priced(m, s) ==
  LET was == m.prices[s] IN
  IF s \notin Lines(m) \/ (was # None /\ was.source = "manual") THEN was
  ELSE [price |-> m.list[s].price, source |-> "auto"]

Rewrites(m) == {s \in Securities : Differs(m.rows[s], Landed(m, s))}
Reprices(m) == {s \in DOMAIN m.list : Priced(m, s) # m.prices[s]}

\* A row or a price that is there already, an UPDATE of a row that is gone, a
\* reference to a security that is gone: the whole sync fails.
Refused(b, sync) ==
  LET m == sync.read IN
  \/ \E s \in Rewrites(m) :
       /\ Landed(m, s) # None
       /\ IF m.rows[s] = None THEN b.rows[<<m.account, s>>] # None \/ s \in sync.dropped
          ELSE s \in sync.lost
  \/ \E s \in Reprices(m) : s \in sync.dropped \/ (m.prices[s] = None /\ b.prices[s][m.on] # None)

\* sync_holdings, from what it read, on the book there is.
Mirrored(b, sync) ==
  LET m == sync.read IN
  [listed |-> b.listed \cup DOMAIN m.list,
   trades |-> b.trades,
   rows   |-> [p \in Positions |->
                 IF p[1] = m.account /\ p[2] \notin sync.lost
                 THEN Rewritten(m.rows[p[2]], Landed(m, p[2]), b.rows[p]) ELSE b.rows[p]],
   prices |-> [s \in Securities |->
                 IF s \in Reprices(m)
                 THEN [b.prices[s] EXCEPT ![m.on] = Requoted(m.prices[s], Priced(m, s), @)]
                 ELSE b.prices[s]],
   rated  |-> b.rated]

\* What has written and not committed, and the sync would write or refer to: it waits.
Meets(x, m) ==
  LET r == x.request IN
  /\ Sends(x) /\ ~x.lost
  /\ \/ r.kind = "drop" /\ r.security \in Rewrites(m) \cup Reprices(m)
     \/ r.kind = "price" /\ r.security \in Reprices(m) /\ r.day = m.on
     \/ r.kind \in RowKinds /\ r.account = m.account /\ r.security \in Rewrites(m)

\* An account's rows are read ...
SyncReads(a, list) ==
  /\ a \notin Derived
  /\ mirror = None
  /\ asked < MaxRequests
  /\ \A c \in Clients : clients[c].request # None /\ clients[c].request.kind = "list"
                          => clients[c].request.security \notin DOMAIN list
  /\ mirror' = [read |-> Reading(book, a, list, today), lost |-> {}, dropped |-> {}]
  /\ asked' = asked + 1
  /\ UNCHANGED <<book, today, balance, filed, clients>>

\* ... and written; nobody can tell the flush from the commit after it.
SyncWrites ==
  /\ mirror # None
  /\ \A c \in Clients : clients[c].written => ~Meets(clients[c], mirror.read)
  /\ ~Refused(book, mirror)
  /\ book' = Mirrored(book, mirror)
  /\ clients' = Overtaken(book')
  /\ mirror' = None
  /\ UNCHANGED <<today, balance, filed, asked>>

\* It fails, surely or because a row it leaves as it is moves its as_of or basis.
SyncFails ==
  /\ mirror # None
  /\ Refused(book, mirror) \/ Lines(mirror.read) \cap mirror.lost # {}
  /\ mirror' = None
  /\ UNCHANGED <<book, today, balance, filed, clients, asked>>

-----------------------------------------------------------------------------
(* The world                                                               *)

\* ledger.today
NextDay ==
  /\ today < LastDay
  /\ today' = today + 1
  /\ clients' = Overtaken(book)
  /\ UNCHANGED <<book, balance, filed, mirror, asked>>

\* upsert_fx_rate: no derived account is revalued.
StateRate(currency) ==
  /\ currency \notin book.rated \cup {Base}
  /\ book' = [book EXCEPT !.rated = @ \cup {currency}]
  /\ clients' = Overtaken(book')
  /\ UNCHANGED <<today, balance, filed, mirror, asked>>

Init ==
  /\ book = [listed |-> Securities, rows |-> [p \in Positions |-> None],
             trades |-> [p \in Positions |-> {}],
             prices |-> [s \in Securities |-> [d \in Days |-> None]], rated |-> {}]
  /\ today = 1
  /\ balance = [a \in Derived |-> 0]
  /\ filed = [a \in Derived |-> [d \in Days |-> None]]
  /\ clients = [c \in Clients |-> Idle]
  /\ mirror = None
  /\ asked = 0

Next ==
  \/ \E c \in Clients : Write(c) \/ Fail(c) \/ Commit(c) \/ \E r \in Requests : Ask(c, r)
  \/ \E a \in Accounts, list \in BankLists : SyncReads(a, list)
  \/ SyncWrites
  \/ SyncFails
  \/ NextDay
  \/ \E s \in Securities : StateRate(CurrencyOf[s])

Spec == Init /\ [][Next]_vars

-----------------------------------------------------------------------------
(* Properties                                                              *)

TypeOK ==
  /\ book.listed \subseteq Securities
  /\ \A p \in Positions :
       /\ book.rows[p] # None =>
            /\ book.rows[p].quantity # 0
            /\ book.rows[p].source \in {"manual", "bank"}
            /\ book.rows[p].frozen => book.rows[p].source = "bank"
            /\ book.rows[p].pin # NoPin =>
                 book.rows[p].pin.total # None /\ book.rows[p].pin.quantity \notin {None, 0}
       /\ p[2] \notin book.listed => book.rows[p] = None /\ book.trades[p] = {}
  /\ today \in Days
  /\ \A a \in Derived : balance[a] \in Int

\* "Every function that can move a derived account's value ends by recomputing
\* it": a request leaves the balance of every derived account it moved, by a row,
\* a trade, a price or a deleted security, at the sum of its positions, whatever
\* was committed between its reading and its writing -- unless something was
\* between its revaluing and its commit, or a security found a new holder
\* before it was deleted.
BalanceFollowsPositions ==
  [][\A c \in Clients :
       clients[c].written /\ clients'[c].request = None /\ ~clients[c].late =>
         \A a \in Derived :
           Worth(book', a, today) # Worth(book, a, today)
             => balance'[a] = Worth(book', a, today)]_vars

\* No balance is filed as history that leaves a position out, where the account
\* is kept in the household's currency.
FiledIsWhole ==
  \A a \in Derived : CurrencyOf[a] = Base => \A d \in Days : filed[a][d] # FALSE

\* Whatever the bank lists, a quantity that a person wrote last and a price that one
\* entered stay as they are when the sync writes, unless they were committed after it
\* had read; and a total pinned to a bank's row stays, even then, while the bank
\* lists it and trades do not hold it.
HandWorkSurvives ==
  mirror # None =>
    LET m     == mirror.read
        after == Mirrored(book, mirror)
    IN \A p \in Positions :
         LET row  == book.rows[p]
             s    == p[2]
             mine == p[1] = m.account
         IN /\ row # None /\ (mine => row.by = "person" /\ row = m.rows[s]) => after.rows[p] = row
            /\ row # None /\ mine /\ s \in DOMAIN m.list \ (m.traded \cup mirror.lost) /\ m.rows[s] # None
                 => after.rows[p] # None /\ after.rows[p].pin = row.pin
            /\ s \in DOMAIN m.list /\ m.prices[s] # None
                 /\ m.prices[s].source = "manual" /\ book.prices[s][m.on] = m.prices[s]
                 => after.prices[s] = book.prices[s]

\* "Sync mirrors the bank": after a sync that nothing overtook, the rows that are the
\* bank's are what it lists, and a list that comes again changes nothing.
SyncMirrorsTheBank ==
  mirror # None /\ Reading(book, mirror.read.account, mirror.read.list, mirror.read.on) = mirror.read
                /\ mirror.lost = {} =>
    LET a     == mirror.read.account
        list  == mirror.read.list
        after == Mirrored(book, mirror)
        again == [read |-> Reading(after, a, list, mirror.read.on), lost |-> {}, dropped |-> {}]
        bank  == {p \in Positions : p[1] = a /\ after.rows[p] # None
                                   /\ after.rows[p].source = "bank" /\ ~after.rows[p].frozen}
    IN /\ \A p \in bank : p[2] \in DOMAIN list /\ after.rows[p].quantity = list[p[2]].quantity
       /\ \A s \in DOMAIN list : after.rows[<<a, s>>] # None \/ book.trades[<<a, s>>] # {}
       /\ Mirrored(after, again) = after
=============================================================================
