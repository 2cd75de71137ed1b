------------------------------ MODULE Transfers ------------------------------
(***************************************************************************)
(* Pairing the two legs of a money movement: link_transfer, unlink_transfer,*)
(* the candidate picker and the auto-matcher of                            *)
(* backend/app/services/transactions.py (ADR-0008, ADR-0018, ADR-0049).    *)
(*                                                                         *)
(* A request reads the rows it decides on, and writes them by primary key  *)
(* in the same transaction: nothing locks a row between the two, so every  *)
(* request is two steps, and what it read may have changed in between.     *)
(***************************************************************************)
EXTENDS Integers, FiniteSets, SequencesExt

CONSTANTS
  Txns,            \* transaction ids, ordered as the database orders them
  AccountOf,       \* the account each is on
  CurrencyOf,      \* the currency of each account
  Worth,           \* what each may be worth: <<amount, base_amount>> pairs
  Late,            \* the rows that are not there yet at the start
  At,              \* when each happened (transacted_at)
  Window,          \* TRANSFER_MATCH_DAYS
  CandidateLimit,  \* CANDIDATE_LIMIT
  Chunk,           \* CANDIDATE_CHUNK
  MinorUnit,       \* minor_unit of the base currency
  Clients,         \* requests and syncs in flight
  MaxGroups,       \* bound: transfer groups ever made
  None             \* SQL NULL

ASSUME LimitsAssumption == Chunk \in Nat \ {0} /\ CandidateLimit \in Nat \ {0}
ASSUME TxnsAssumption == Txns \subseteq Nat \ {0} /\ IsFiniteSet(Txns)
ASSUME WorthAssumption ==
  \A t \in Txns : Worth[t] # {} /\ Worth[t] \subseteq Int \X (Int \cup {None})
ASSUME NullAssumption == MaxGroups \in Nat /\ None \notin Int

VARIABLES
  txns,    \* transactions
  groups,  \* transfer_groups; two fields are history: legs, the pair the group was
           \* made of, and moved, whether one of them was repriced since it was read
  clients  \* what each request in flight has read, and will write

vars == <<txns, groups, clients>>

Groups == 1..MaxGroups
Existing == {g \in Groups : groups[g].state = "made"}
Live == {t \in Txns : txns[t].state = "live"}
Legs(g) == {t \in Live : txns[t].group = g}

Unused == [state |-> "unused", cost |-> None, legs |-> {}, moved |-> FALSE]
Gone == [state |-> "deleted", cost |-> None, legs |-> {}, moved |-> FALSE]
Idle == [op |-> "idle", plan |-> <<>>, group |-> None, legs |-> {},
         saw |-> {}, moved |-> {}]

\* A link to be made: its legs, and the cost they were read to leave behind.
Pairs == [from : Txns, to : Txns, cost : Int \cup {None}]
PlanLegs(plan) == UNION {{plan[i].from, plan[i].to} : i \in DOMAIN plan}

Txn == [state : {"unborn", "live", "deleted"}, amount : Int, base : Int \cup {None},
        group : Groups \cup {None}]
Group == [state : {"unused", "made", "deleted"}, cost : Int \cup {None},
          legs : SUBSET Txns, moved : BOOLEAN]
Request == [op : {"idle", "link", "unlink"}, plan : Seq(Pairs), group : Groups \cup {None},
            legs : SUBSET Txns, saw : SUBSET Groups, moved : SUBSET Txns]

TypeOK ==
  /\ txns \in [Txns -> Txn]
  /\ groups \in [Groups -> Group]
  /\ clients \in [Clients -> Request]
  /\ \A t \in Txns : <<txns[t].amount, txns[t].base>> \in Worth[t]
  /\ \A t \in Txns : txns[t].group # None => t \in Live /\ txns[t].group \in Existing

Fresh(t, state) == LET w == CHOOSE w \in Worth[t] : TRUE IN
             [state |-> state, amount |-> w[1], base |-> w[2], group |-> None]

Init ==
  /\ txns = [t \in Txns |-> Fresh(t, IF t \in Late THEN "unborn" ELSE "live")]
  /\ groups = [g \in Groups |-> Unused]
  /\ clients = [c \in Clients |-> Idle]

-----------------------------------------------------------------------------
(* What makes two rows a transfer                                          *)

Abs(n) == IF n < 0 THEN -n ELSE n
Gap(s, o) == Abs(At[s] - At[o])

\* _residual_base: what the pair leaves behind; null when that is nothing, and
\* when a leg has no rate.
ResidualBase(s, o) ==
  LET a == txns[s].base
      b == txns[o].base
  IN IF a = None \/ b = None THEN None ELSE IF a + b = 0 THEN None ELSE a + b

\* _match_tolerance: two per cent of the subject, at least the minor unit.
WithinTolerance(s, residual) ==
  \/ Abs(residual) <= MinorUnit
  \/ txns[s].base # None /\ 50 * Abs(residual) <= Abs(txns[s].base)

\* _matches_on_amounts
MatchesOnAmounts(s, o) ==
  IF CurrencyOf[AccountOf[s]] = CurrencyOf[AccountOf[o]]
  THEN txns[s].amount + txns[o].amount = 0
  ELSE ResidualBase(s, o) # None /\ WithinTolerance(s, ResidualBase(s, o))

OppositeSigns(s, o) ==
  \/ txns[s].amount > 0 /\ txns[o].amount < 0
  \/ txns[s].amount < 0 /\ txns[o].amount > 0

\* _candidate_filters; taken is what this pass has linked and the query sees.
Candidates(s, taken) ==
  {o \in Live : /\ AccountOf[o] # AccountOf[s]
                /\ txns[o].group = None
                /\ o \notin taken
                /\ Gap(s, o) <= Window
                /\ OppositeSigns(s, o)}

\* _candidate_order: nearest in time, then in base amount with the unknown last,
\* then by id.
Better(s, o, p) ==
  LET gap(q) == Gap(s, q)
      known(q) == txns[s].base # None /\ txns[q].base # None
      off(q) == Abs(txns[s].base + txns[q].base)
      closer == known(o) /\ (known(p) => off(o) < off(p))
      equal == known(o) = known(p) /\ (known(o) => off(o) = off(p))
  IN \/ gap(o) < gap(p)
     \/ gap(o) = gap(p) /\ (closer \/ (equal /\ o < p))

\* The rows of S a query ordered so and cut at the limit returns.
First(s, S) == {o \in S : Cardinality({p \in S : Better(s, p, o)}) < CandidateLimit}

\* list_transfer_candidates: what the picker offers a person.
Offered(s, taken) ==
  IF txns[s].amount = 0 \/ txns[s].group # None \/ s \in taken THEN {}
  ELSE First(s, Candidates(s, taken))

\* _closest_unambiguous, of the offered rows that match: the nearest in time, if
\* no other is as near.
ClosestUnambiguous(s, offered) ==
  LET matching == {o \in offered : MatchesOnAmounts(s, o)}
      closest == {o \in matching : \A p \in matching \ {o} : Gap(s, o) < Gap(s, p)}
  IN IF closest = {} THEN None ELSE CHOOSE o \in closest : TRUE

\* _candidates_for_subjects, one subject's share of a chunk's query.
ChunkRows(s, taken) ==
  IF txns[s].group # None \/ s \in taken THEN {} ELSE Candidates(s, taken)

StillOffered_AsQueried(s, rows, taken) == First(s, rows)

\* The picker's cap, applied to the rows still free when the subject's turn comes.
StillOffered(s, rows, taken) == First(s, rows \ taken)

Pair(s, o) == [from |-> s, to |-> o, cost |-> ResidualBase(s, o)]

\* The turn of the n-th subject, s: acc.asked is what was taken when its chunk was
\* queried.
Resolve(acc, n, s) ==
  LET asked == IF (n - 1) % Chunk = 0 THEN acc.taken ELSE acc.asked
      chosen == IF s \in acc.taken THEN None
                ELSE ClosestUnambiguous(s, StillOffered(s, ChunkRows(s, asked), acc.taken))
  IN [asked |-> asked,
      taken |-> acc.taken \cup (IF chosen = None THEN {} ELSE {s, chosen}),
      plan |-> IF chosen = None THEN acc.plan ELSE Append(acc.plan, Pair(s, chosen))]

\* auto_match_transfers over the rows a sync touched, in their order: the pass after
\* each of its turns, and the links it makes.
Turns(order) ==
  LET turn[n \in 0..Len(order)] ==
        IF n = 0 THEN [asked |-> {}, taken |-> {}, plan |-> <<>>]
        ELSE Resolve(turn[n - 1], n, order[n])
  IN turn
MatchPass(order) == Turns(order)[Len(order)].plan

-----------------------------------------------------------------------------
(* Requests                                                                *)

\* A request that is about to link, and one that is about to unlink.
Linking(plan) == [op |-> "link", plan |-> plan, group |-> None, legs |-> {},
                  saw |-> Existing, moved |-> {}]
Unlinking(g) == [op |-> "unlink", plan |-> <<>>, group |-> g, legs |-> Legs(g),
                 saw |-> Existing, moved |-> {}]

Begin(c, client) ==
  /\ clients[c].op = "idle"
  /\ clients' = [clients EXCEPT ![c] = client]
  /\ UNCHANGED <<txns, groups>>

Free_Any(t) == t \in Live
Free(t) == t \in Live /\ txns[t].group = None

CanLink_EvenNothing(a, b) ==
  /\ AccountOf[a] # AccountOf[b]
  /\ (txns[a].amount > 0) # (txns[b].amount > 0)
  /\ Free(a)
  /\ Free(b)

\* link_transfer's refusals: one account, a leg that moves nothing, two legs on
\* one side, a leg that is taken.
CanLink(a, b) ==
  /\ AccountOf[a] # AccountOf[b]
  /\ OppositeSigns(a, b)
  /\ Free(a)
  /\ Free(b)

\* link_transfer, up to its last refusal.
LinkRead(c, a, b) ==
  /\ CanLink(a, b)
  /\ Begin(c, Linking(<<Pair(a, b)>>))

\* The rows a sync or an import may have touched, in the order it hands them over.
Touched == UNION {SetToSeqs(S) : S \in SUBSET Live}

\* auto_match_transfers, up to its first write.
MatchRead(c) ==
  /\ clients[c].op = "idle"
  /\ \E plan \in {MatchPass(order) : order \in Touched} \ {<<>>} :
       Begin(c, Linking(plan))

\* The group a pair becomes.
Made(pair, moved) == [state |-> "made", legs |-> {pair.from, pair.to}, cost |-> pair.cost,
                      moved |-> moved \cap {pair.from, pair.to} # {}]

\* link_transfer: the groups are inserted, the legs point at them.  A leg that
\* was deleted meanwhile fails the whole transaction (StaleDataError).
LinkWrite(c) ==
  LET plan == clients[c].plan
      made == Cardinality({g \in Groups : groups[g].state # "unused"})
      group(i) == made + i
      pairOf(t) == CHOOSE i \in DOMAIN plan : t \in {plan[i].from, plan[i].to}
  IN
  /\ clients[c].op = "link"
  /\ IF PlanLegs(plan) \subseteq Live
     THEN /\ made + Len(plan) <= MaxGroups
          /\ txns' = [t \in Txns |-> IF t \in PlanLegs(plan)
                                     THEN [txns[t] EXCEPT !.group = group(pairOf(t))]
                                     ELSE txns[t]]
          /\ groups' = [g \in Groups |->
               IF g - made \in DOMAIN plan THEN Made(plan[g - made], clients[c].moved)
               ELSE groups[g]]
     ELSE UNCHANGED <<txns, groups>>
  /\ clients' = [clients EXCEPT ![c] = Idle]

\* unlink_transfer: the group and its legs are read ...
UnlinkRead(c, g) ==
  /\ g \in Existing
  /\ Begin(c, Unlinking(g))

\* ... and the legs it read are let go, whoever holds them now; the group row
\* goes, and with it (ON DELETE SET NULL) every other reference to it.
UnlinkWrite(c) ==
  LET g == clients[c].group
      legs == clients[c].legs
  IN
  /\ clients[c].op = "unlink"
  /\ IF legs \subseteq Live
     THEN /\ txns' = [t \in Txns |-> IF t \in legs \/ txns[t].group = g
                                     THEN [txns[t] EXCEPT !.group = None] ELSE txns[t]]
          /\ groups' = [groups EXCEPT ![g] = Gone]
     ELSE UNCHANGED <<txns, groups>>
  /\ clients' = [clients EXCEPT ![c] = Idle]

\* A row is entered, imported or synced.
Arrive(t) ==
  /\ txns[t].state = "unborn"
  /\ txns' = [txns EXCEPT ![t].state = "live"]
  /\ UNCHANGED <<groups, clients>>

\* delete_transaction, and expire_pendings: the other leg is not told.
Delete(t) ==
  /\ t \in Live
  /\ txns' = [txns EXCEPT ![t] = Fresh(t, "deleted")]
  /\ UNCHANGED <<groups, clients>>

\* update_transaction, or a sync: a linked leg may change its amount, its side
\* and its rate; the group is not told.
Reprice(t, worth) ==
  /\ t \in Live
  /\ worth # <<txns[t].amount, txns[t].base>>
  /\ txns' = [txns EXCEPT ![t] = [@ EXCEPT !.amount = worth[1], !.base = worth[2]]]
  /\ groups' = [g \in Groups |-> IF t \in groups[g].legs
                                 THEN [groups[g] EXCEPT !.moved = TRUE] ELSE groups[g]]
  /\ clients' = [c \in Clients |-> IF t \in PlanLegs(clients[c].plan)
                                   THEN [clients[c] EXCEPT !.moved = @ \cup {t}]
                                   ELSE clients[c]]

Next ==
  \/ \E c \in Clients :
       \/ \E a, b \in Txns : LinkRead(c, a, b)
       \/ MatchRead(c)
       \/ \E g \in Groups : UnlinkRead(c, g)
       \/ LinkWrite(c)
       \/ UnlinkWrite(c)
  \/ \E t \in Txns : Arrive(t) \/ Delete(t) \/ \E w \in Worth[t] : Reprice(t, w)

Spec == Init /\ [][Next]_vars

-----------------------------------------------------------------------------
(* Properties                                                              *)

\* The picker asked of one subject after another, each after the links before it.
Picked(plan, s) ==
  LET chosen == ClosestUnambiguous(s, Offered(s, PlanLegs(plan))) IN
  IF chosen = None THEN plan ELSE Append(plan, Pair(s, chosen))
Picks(order) ==
  LET pick[n \in 0..Len(order)] ==
        IF n = 0 THEN <<>> ELSE Picked(pick[n - 1], order[n])
  IN pick
PickerPass(order) == Picks(order)[Len(order)]

\* "The conditions are list_transfer_candidates' exactly": however a pass is cut
\* into chunks and queries, it links what asking the picker row by row would.
\* (What requests in flight remember has no part in it, so it is asked only of the
\* states where there are none: every ledger is in one of those.)
PassAgreesWithPicker ==
  (\A c \in Clients : clients[c].op = "idle")
    => \A order \in Touched : MatchPass(order) = PickerPass(order)

\* A group is only ever the pair it was made of, whatever requests interleave:
\* nothing joins it, and its legs are on two accounts; unless a leg was repriced,
\* they have opposite signs and the group's cost is what they leave behind.
GroupsAreTransfers ==
  \A g \in Existing :
    /\ Legs(g) \subseteq groups[g].legs
    /\ \A s, o \in groups[g].legs : s # o => AccountOf[s] # AccountOf[o]
    /\ \A s, o \in Legs(g) :
         s # o /\ ~groups[g].moved
           => OppositeSigns(s, o) /\ groups[g].cost = ResidualBase(s, o)

\* Only a request that read the rows before a group was made can break the group
\* up: everyone who could have seen it leaves it whole or removes it whole.
GroupsAreKeptWhole ==
  [][\A g \in Existing : \A t \in Legs(g) :
       \/ txns'[t].group = g
       \/ txns'[t].state = "deleted"
       \/ groups'[g].state = "deleted"
       \/ \E c \in Clients : clients[c].op # "idle" /\ clients'[c].op = "idle"
                             /\ g \notin clients[c].saw]_vars

\* The ledger's groups and its rows agree, and each group is a transfer.
PairsAreSound == TypeOK /\ GroupsAreTransfers
=============================================================================
