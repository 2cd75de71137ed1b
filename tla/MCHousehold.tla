---------------------------- MODULE MCHousehold -----------------------------
(* A small household: one that has just begun, and one with a charge whose  *)
(* leg, row and account may each belong to somebody else; or its door, with *)
(* two people, two sessions and one token.                                  *)
EXTENDS Accounts, Access

MCLower == [n \in {"Shared", "shared", "Alex", "ALEX", "Sam", "Kim", "KIM", "added"} |->
  CASE n \in {"Shared", "shared"} -> "shared" [] n \in {"Alex", "ALEX"} -> "alex"
    [] n = "Sam" -> "sam" [] n \in {"Kim", "KIM"} -> "kim" [] OTHER -> n]

MCFirstName == <<"blue", "blue", "plain">>
MCCardType == <<"credit", "credit", "investment">>

Load(cards, txns, on) == [cards |-> cards, txns |-> txns, on |-> on]
MCPayloads ==
  {Load(cards, TRUE, None) : cards \in {<<1>>, <<2>>, <<1, 2>>, <<2, 1>>, <<3>>, <<3, 1>>}}
    \union {Load(<<1, 2>>, FALSE, None), Load(<<3>>, TRUE, 0), Load(<<1>>, TRUE, 1)}

Unsent == [name |-> None, type |-> None, owner |-> None, balance |-> None, on |-> None]
MCPatches ==
  {[Unsent EXCEPT !.balance = 7], [Unsent EXCEPT !.on = 0],
   [Unsent EXCEPT !.balance = 7, !.on = 0],
   [Unsent EXCEPT !.type = "investment"], [Unsent EXCEPT !.type = "depository"],
   [Unsent EXCEPT !.name = <<"added", 2>>], [Unsent EXCEPT !.owner = 2]}

Household1 == [owners |-> (1 :> [name |-> "Shared", shared |-> TRUE]),
               groups |-> <<>>, cats |-> <<>>, rows |-> <<>>, accounts |-> <<>>]

Opened(type, owner) == NewAccount(<<"added", 1>>, type, owner, None, None, None, None)

\* Charges of an account: one with a leg, one that inherits everything.
Household2 ==
  [owners |-> (1 :> [name |-> "Shared", shared |-> TRUE]) @@ (2 :> [name |-> "Alex", shared |-> FALSE])
                @@ (3 :> [name |-> "Sam", shared |-> FALSE]),
   groups |-> (1 :> "expense") @@ (2 :> "expense") @@ (3 :> "income"),
   cats |-> (1 :> 1) @@ (2 :> 3) @@ (3 :> 2),
   rows |-> (1 :> [account |-> 1, owner |-> None, cat |-> None, leg |-> [owner |-> 2, cat |-> 1]])
              @@ (2 :> [account |-> 1, owner |-> 2, cat |-> 2, leg |-> None]),
   accounts |-> (1 :> [Opened("depository", 3) EXCEPT !.balance = 4, !.asOf = 0, !.snaps = (0 :> 4)])]

With(h, f, m, a, b) == h @@ [left |-> [filing |-> f, hand |-> m, agent |-> a, bank |-> b]]

\* What a behaviour's operations are about: its filing, its balances, an agent beside a person,
\* the bank, or some of each.
MCStarts == {With(Household2, 3, 0, 0, 0), With(Household2, 2, 1, 0, 0), With(Household1, 0, 3, 0, 0),
             With(Household1, 0, 2, 3, 0), With(Household1, 0, 0, 0, 5), With(Household1, 0, 1, 0, 3)}

-----------------------------------------------------------------------------
CONSTANTS ann, bob, s1, s2, q1, q2

VARIABLE which

MCEmails    == {ann, bob}
MCSessions  == {s1, s2}
MCBrowsers  == {q1, q2}
MCScenarios == {{"signup", "web"}, {"web", "time"}, {"agent", "time"}}

Swaps == Permutations(Requests) \union Permutations(Emails) \union Permutations(SessionIds)
           \union Permutations(Browsers)

\* A door nobody stands at, and a household nobody edits.
Closed ==
  /\ now = 0 /\ kinds = {} /\ households = 0 /\ edits = 0 /\ over = {} /\ written = {}
  /\ users = [e \in Emails |-> Null] /\ signing = [e \in Emails |-> Null]
  /\ sessions = [s \in SessionIds |-> Null] /\ requests = [r \in Browsers |-> Null]
  /\ tokens = [t \in TokenIds |-> Null] /\ calls = [c \in Calls |-> Null]
Start == CHOOSE s \in Starts : TRUE
Quiet ==
  /\ owners = Start.owners /\ groups = Start.groups /\ cats = Start.cats /\ rows = Start.rows
  /\ accounts = Start.accounts /\ left = Start.left /\ day = 1 /\ cardName = FirstName
  /\ work = [r \in Requests |-> None] /\ live = [p \in Connections |-> "new"]

MCInit == (which = "accounts" /\ Init /\ Closed) \/ (which = "door" /\ Quiet /\ AccessInit)
MCNext ==
  /\ \/ which = "accounts" /\ Next /\ UNCHANGED accessVars
     \/ which = "door" /\ AccessNext /\ UNCHANGED vars
  /\ UNCHANGED which
MCSpec == MCInit /\ [][MCNext]_<<vars, accessVars, which>>
=============================================================================
