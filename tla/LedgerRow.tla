------------------------------ MODULE LedgerRow ------------------------------
(***************************************************************************)
(* One ledger row under everyone who writes it: a person                   *)
(* (services/transactions.py), the rules engine (services/rules.py), the   *)
(* provider sync (services/sync.py) and the rate table                     *)
(* (services/ledger.py, services/fx.py).  ADR-0007 decides who may write a *)
(* field, ADR-0031 what a split is, ADR-0017 what the row is worth in the  *)
(* household's currency.                                                   *)
(*                                                                         *)
(* Money is counted in storage units (NUMERIC(19,4)), Minor of which make  *)
(* a currency's minor unit.  Two of the fields a rule writes stand for all *)
(* of them: category, which no provider reports, and merchant, which one   *)
(* does.                                                                   *)
(***************************************************************************)
EXTENDS Integers, FiniteSets, SequencesExt

CONSTANTS
  Amounts,     \* native amounts
  Days,        \* days a row may be dated and a rate stated, naturals
  Rated,       \* the days a rate may be stated for
  Quotes,      \* rates: <<numerator, denominator>>
  Minor,       \* storage units in a minor unit
  Categories,  \* category ids
  Merchants,   \* merchant names
  Rules,       \* every rule the household has, in the order they run
  Shares,      \* the percentage sets a person splits by
  Parts,       \* the amount sets a person splits by
  Sendable,    \* bound: the sets of fields a PATCH may send together
  Overlaps,    \* bound: the writers that may be caught between a load and a flush
  Unset,       \* a field absent from a PATCH
  None         \* SQL NULL

ASSUME MoneyAssumption ==
  /\ Amounts \subseteq Int
  /\ Minor \in Nat \ {0}
  /\ \A q \in Quotes : q[1] \in Int /\ q[2] \in Nat \ {0}
ASSUME DaysAssumption == Days \subseteq Nat /\ Rated \subseteq Days

VARIABLES
  row,      \* the transaction and its splits, or None
  enabled,  \* the rules that are enabled
  rates,    \* fx_rates, shared by every household
  held      \* a writer between its load and its flush, or None

vars == <<row, enabled, rates, held>>

Fields == {"category", "merchant"}
Sources == {"none", "provider", "rule", "user"}
Values(f) == IF f = "category" THEN Categories \cup {None} ELSE Merchants \cup {None}

\* A row, split exactly if it says so.
Leg == [amount : Int, base : Int \cup {None}, category : Values("category")]
Row == {r \in [amount : Amounts, day : Days, base : Int \cup {None}, legs : Seq(Leg),
                isSplitParent : BOOLEAN, synced : BOOLEAN,
                values : [Fields -> Categories \cup Merchants \cup {None}],
                sources : [Fields \cup {"amount", "day", "splits"} -> Sources]] :
          /\ \A f \in Fields : r.values[f] \in Values(f)
          /\ r.isSplitParent <=> r.legs # <<>>}

\* NULL is neither an amount nor a row.
ASSUME NullAssumption == None \notin Int /\ None \notin Row

Writers == {"sync", "rules", "patch"}

TypeOK ==
  /\ row # None => row \in Row
  /\ enabled \subseteq DOMAIN Rules
  /\ rates \in [Days -> Quotes \cup {None}]
  /\ held # None => held \in [by : Writers, row : Row] /\ row # None

-----------------------------------------------------------------------------
(* Money                                                                   *)

Sums(seq) == LET sum[i \in 0..Len(seq)] == IF i = 0 THEN 0 ELSE sum[i - 1] + seq[i] IN sum
Total(seq) == Sums(seq)[Len(seq)]

\* What people split by: percentages, or amounts.
ASSUME SplitsAssumption ==
  /\ \A weights \in Shares : weights \in Seq(Int) \ {<<>>} /\ Total(weights) > 0
  /\ \A parts \in Parts : parts \in Seq(Int) \ {<<>>}

Abs(n) == IF n < 0 THEN -n ELSE n

\* ROUND_HALF_UP of n / d: to the nearest, and a half away from zero.
RoundHalfUp(n, d) ==
  IF n < 0 THEN -((2 * (-n) + d) \div (2 * d)) ELSE (2 * n + d) \div (2 * d)

\* The part the remainder lands on: the greatest, the earliest of those.
RemainderAt(parts) ==
  CHOOSE i \in DOMAIN parts : \A j \in DOMAIN parts :
    parts[i] > parts[j] \/ (parts[i] = parts[j] /\ i <= j)

\* allocate: parts in whole minor units, and the remainder on one of them.
Allocate(total, weights) ==
  LET rounded == [i \in DOMAIN weights |->
                    Minor * RoundHalfUp(total * weights[i], Total(weights) * Minor)]
  IN [rounded EXCEPT ![RemainderAt(rounded)] = @ + total - Total(rounded)]

\* to_base: at the latest rate on or before the day; no rate is null, never zero.
ToBase(amount, day, table) ==
  LET stated == {d \in Days : d <= day /\ table[d] # None} IN
  IF stated = {} THEN None
  ELSE LET quote == table[CHOOSE d \in stated : \A e \in stated : e <= d] IN
       RoundHalfUp(amount * quote[1], quote[2])

Natives(legs) == [i \in DOMAIN legs |-> legs[i].amount]
Bases(legs) == [i \in DOMAIN legs |-> legs[i].base]
Weights(natives) == [i \in DOMAIN natives |-> IF natives[i] = 0 THEN 1 ELSE Abs(natives[i])]

\* A parent's base amount shared among its legs.
Shared(base, natives) ==
  IF base = None THEN [i \in DOMAIN natives |-> None] ELSE Allocate(base, Weights(natives))

Rebased(legs, bases) == [i \in DOMAIN legs |-> [legs[i] EXCEPT !.base = bases[i]]]

-----------------------------------------------------------------------------
(* Splits and rules                                                        *)

\* What a rule sets is a value of the field; its split, legs of which each but the
\* last says what it takes.
LegOK(leg) == IF "share" \in DOMAIN leg THEN leg.share[1] \in Int /\ leg.share[2] \in Nat \ {0}
              ELSE leg.amount \in Int
RuleOK(rule) ==
  /\ \A f \in Fields \cap DOMAIN rule.set : rule.set[f] \in Values(f)
  /\ "split" \in DOMAIN rule.set =>
       /\ rule.set.split \in Seq(ToSet(rule.set.split)) \ {<<>>}
       /\ \A i \in DOMAIN rule.set.split : rule.set.split[i].category \in Values("category")
       /\ \A i \in DOMAIN Front(rule.set.split) : LegOK(rule.set.split[i])
ASSUME RulesAssumption ==
  Rules \in Seq(ToSet(Rules)) /\ \A i \in DOMAIN Rules : RuleOK(Rules[i])

\* set_splits, once the set has been accepted: legs of [amount, category].
SetSplits(r, legs, owner) ==
  LET bases == Shared(r.base, Natives(legs)) IN
  [r EXCEPT
     !.legs = [i \in DOMAIN legs |->
                [amount |-> legs[i].amount, base |-> bases[i], category |-> legs[i].category]],
     !.isSplitParent = legs # <<>>,
     !.sources = [@ EXCEPT !["splits"] = owner]]

\* _matches: every condition that is set holds.
Matches(rule, r) ==
  /\ \A f \in Fields : f \in DOMAIN rule.when => r.values[f] = rule.when[f]
  /\ "direction" \in DOMAIN rule.when =>
       IF rule.when.direction = "in" THEN r.amount > 0 ELSE r.amount < 0

\* What a pass over a row has come to: the row, and the fields it has written.
Wrote(acc, r, f) == [row |-> r, changed |-> acc.changed \cup {f}]

Set(r, f, value) ==
  [r EXCEPT !.values = [@ EXCEPT ![f] = value], !.sources = [@ EXCEPT ![f] = "rule"]]

Write_AnyOwner(acc, f, value) ==
  IF acc.row.values[f] = value THEN acc ELSE Wrote(acc, Set(acc.row, f, value), f)

\* _write: a human's value stands; a value that is already there is not claimed.
Write(acc, f, value) ==
  IF acc.row.sources[f] = "user" \/ acc.row.values[f] = value THEN acc
  ELSE Wrote(acc, Set(acc.row, f, value), f)

\* What a leg of a rule takes: a fixed amount, or a share of the parent's.
LegAmount(leg, amount) ==
  IF "share" \in DOMAIN leg THEN Minor * RoundHalfUp(amount * leg.share[1], leg.share[2] * Minor)
  ELSE leg.amount

Opposite(a, b) == (a > 0 /\ b < 0) \/ (a < 0 /\ b > 0)

\* _resolved_legs: the legs for this amount, the last of the rule's legs taking
\* the remainder; null when one of them would move the other way.
ResolvedLegs(legs, amount) ==
  LET fixed == Front(legs)
      taken == Total([i \in DOMAIN fixed |-> LegAmount(fixed[i], amount)])
      leg(i) == [amount |-> IF i = Len(legs) THEN amount - taken ELSE LegAmount(legs[i], amount),
                 category |-> legs[i].category]
  IN IF \E i \in DOMAIN legs : Opposite(leg(i).amount, amount) THEN None
     ELSE [i \in DOMAIN legs |-> leg(i)]

\* The same legs, in whatever order they are stored.
SameLegs(stored, legs) ==
  LET plain == [i \in DOMAIN stored |->
                 [amount |-> stored[i].amount, category |-> stored[i].category]]
      count(seq, leg) == Cardinality({i \in DOMAIN seq : seq[i] = leg})
  IN \A leg \in ToSet(plain) \cup ToSet(legs) : count(plain, leg) = count(legs, leg)

\* _apply_split: a human's split stands; one that cannot be derived any more is
\* cleared; the legs that are there already are not written again.
ApplySplit(acc, legs) ==
  LET resolved == ResolvedLegs(legs, acc.row.amount)
      stands == \/ acc.row.sources["splits"] = "user"
                \/ resolved = None /\ acc.row.legs = <<>>
                \/ resolved # None /\ SameLegs(acc.row.legs, resolved)
  IN IF stands THEN acc
     ELSE Wrote(acc, SetSplits(acc.row, IF resolved = None THEN <<>> ELSE resolved, "rule"),
                "splits")

\* One rule over one row: its fields in their order, then its split.
ApplyRule(acc, rule) ==
  LET write(a, f) == IF f \in DOMAIN rule.set THEN Write(a, f, rule.set[f]) ELSE a
      written == write(write(acc, "category"), "merchant")
  IN IF ~Matches(rule, acc.row) THEN acc
     ELSE IF "split" \in DOMAIN rule.set THEN ApplySplit(written, rule.set.split)
     ELSE written

\* _apply_to_row: the enabled rules in their order, each over what the last left.
Passes(r) ==
  LET after[i \in 0..Len(Rules)] ==
        IF i = 0 THEN [row |-> r, changed |-> {}]
        ELSE IF i \in enabled THEN ApplyRule(after[i - 1], Rules[i]) ELSE after[i - 1]
  IN after
Pass(r) == Passes(r)[Len(Rules)]

Applied(r) == Pass(r).row

-----------------------------------------------------------------------------
(* What each writer makes of the row                                       *)

Mark(r, fields, source) ==
  [r EXCEPT !.sources = [f \in DOMAIN @ |-> IF f \in fields THEN source ELSE @[f]]]

Sent(patch) == {f \in DOMAIN patch : patch[f] # Unset}

Recomputes_Amount(patch) == patch.amount # Unset
Recomputes(patch) == patch.amount # Unset \/ patch.day # Unset

\* update_transaction; r itself when the PATCH is refused, or fails.
Patched(r, patch) ==
  LET edited == Mark([r EXCEPT
        !.amount = IF patch.amount = Unset THEN @ ELSE patch.amount,
        !.day = IF patch.day = Unset THEN @ ELSE patch.day,
        !.values = [f \in Fields |-> IF patch[f] = Unset THEN @[f] ELSE patch[f]]],
        Sent(patch), "user")
      moves == patch.amount # Unset /\ patch.amount # r.amount
      theirs == moves /\ r.legs # <<>> /\ r.sources["splits"] # "rule"
      ruleSplit == moves /\ r.sources["splits"] = "rule"
      based == IF Recomputes(patch)
               THEN [edited EXCEPT !.base = ToBase(edited.amount, edited.day, rates)]
               ELSE edited
      realloc == Recomputes(patch) /\ r.legs # <<>> /\ ~ruleSplit
      asked == Applied(based)
  IN CASE theirs -> r                            \* 409: edit the splits instead
       [] ~theirs /\ ruleSplit ->                \* 409: the rule no longer applies
            IF asked.legs # <<>> /\ Total(Natives(asked.legs)) # asked.amount THEN r ELSE asked
       [] ~theirs /\ realloc ->                  \* allocate(None) raises
            IF based.base = None THEN r
            ELSE [based EXCEPT !.legs = Rebased(@, Shared(based.base, Natives(@)))]
       [] OTHER -> based

\* _apply_provider_fields, and the rules when it changed something.  The base
\* amount is not computed again.
Provided(r, report) ==
  LET open(f) == r.sources[f] \notin {"user", "rule"}
      changed == {f \in {"amount", "day"} : open(f) /\ r[f] # report[f]} \cup
                 {f \in {"merchant"} : open(f) /\ r.values[f] # report[f]}
      taken == [r EXCEPT
        !.amount = IF "amount" \in changed THEN report.amount ELSE @,
        !.day = IF "day" \in changed THEN report.day ELSE @,
        !.values = [f \in Fields |-> IF f \in changed THEN report[f] ELSE @[f]]]
  IN IF changed = {} THEN r ELSE Applied(Mark(taken, changed, "provider"))

\* The row as it is first stored, with nothing of the rules' yet.
NewRow(amount, day, values, synced, source) ==
  Mark([amount |-> amount, day |-> day, base |-> ToBase(amount, day, rates), legs |-> <<>>,
        isSplitParent |-> FALSE, synced |-> synced, values |-> values,
        sources |-> [f \in Fields \cup {"amount", "day", "splits"} |-> "none"]],
       {"amount"} \cup (IF synced THEN {"day"} ELSE {}) \cup {f \in Fields : values[f] # None},
       source)

Recomputed_AsStored(r, table) == [r EXCEPT !.base = ToBase(r.amount, r.day, table)]

\* recompute_base_amounts, for a row in another currency than the household's.
Recomputed(r, table) ==
  LET base == ToBase(r.amount, r.day, table) IN
  [r EXCEPT !.base = base, !.legs = Rebased(@, Shared(base, Natives(@)))]

-----------------------------------------------------------------------------
(* Requests, jobs and syncs                                                *)

Reports == [amount : Amounts, day : Days, merchant : Merchants]
Patches == {patch \in [amount : Amounts \cup {Unset}, day : Days \cup {Unset},
                       category : Values("category") \cup {Unset},
                       merchant : Values("merchant") \cup {Unset}] : Sent(patch) \in Sendable}

Init ==
  /\ row = None
  /\ enabled = {}
  /\ rates = [d \in Days |-> None]
  /\ held = None

\* create_transaction
Create(amount, day, category) ==
  /\ row = None
  /\ row' = Applied(NewRow(amount, day, [category |-> category, merchant |-> None], FALSE, "user"))
  /\ UNCHANGED <<enabled, rates, held>>

\* ingest_transaction: inserted, or matched by its id.  A connection's syncs do
\* not overlap (SyncQueue).
Sync(report) ==
  /\ held # None => held.by # "sync"
  /\ \/ row = None /\ row' = Applied(NewRow(report.amount, report.day,
                               [category |-> None, merchant |-> report.merchant], TRUE, "provider"))
     \/ row # None /\ row.synced /\ row' = Provided(row, report)
  /\ UNCHANGED <<enabled, rates, held>>

Patch(patch) ==
  /\ row # None
  /\ row' = Patched(row, patch)
  /\ UNCHANGED <<enabled, rates, held>>

Uncategorized(parts) == [i \in DOMAIN parts |-> [amount |-> parts[i], category |-> None]]

\* replace_splits, by percentages or by amounts, and un-splitting, which leaves
\* the set's provenance alone.
SplitByShare(weights) ==
  /\ row # None
  /\ row' = SetSplits(row, Uncategorized(Allocate(row.amount, weights)), "user")
  /\ UNCHANGED <<enabled, rates, held>>

SplitByAmount(parts) ==
  /\ row # None
  /\ Total(parts) = row.amount
  /\ row' = SetSplits(row, Uncategorized(parts), "user")
  /\ UNCHANGED <<enabled, rates, held>>

Unsplit ==
  /\ row # None
  /\ row' = [row EXCEPT !.legs = <<>>, !.isSplitParent = FALSE]
  /\ UNCHANGED <<enabled, rates, held>>

\* delete_transaction; a writer that still holds the row finds nothing to write.
Delete ==
  /\ row # None
  /\ row' = None /\ held' = None
  /\ UNCHANGED <<enabled, rates>>

\* rules.apply, over every row there is.
ApplyRules ==
  /\ row # None
  /\ row' = Applied(row)
  /\ UNCHANGED <<enabled, rates, held>>

\* update_rule: a rule is switched on or off; no row is told.  Bound: not while a
\* writer that has read the rules holds the row.
Toggle(i) ==
  /\ held = None
  /\ enabled' = IF i \in enabled THEN enabled \ {i} ELSE enabled \cup {i}
  /\ UNCHANGED <<row, rates, held>>

\* upsert_fx_rate, and the recompute it owes this household.
StateRate(day, quote) ==
  /\ rates' = [rates EXCEPT ![day] = quote]
  /\ row' = IF row = None THEN None ELSE Recomputed(row, rates')
  /\ UNCHANGED <<enabled, held>>

\* Another household states a rate: the table is shared, the recompute is not.
StateRateElsewhere(day, quote) ==
  /\ rates' = [rates EXCEPT ![day] = quote]
  /\ UNCHANGED <<row, enabled, held>>

\* recompute_all, when the worker starts.
Recompute ==
  /\ row # None
  /\ row' = Recomputed(row, rates)
  /\ UNCHANGED <<enabled, rates, held>>

-----------------------------------------------------------------------------
(* Writers that overlap.  No writer locks the row when it loads it: what      *)
(* commits before its flush is kept in the columns it leaves alone, and       *)
(* written over in those it changes, field_sources being one column.  Legs are *)
(* rows of their own, which a writer reads again: the bound is that one that   *)
(* overlaps leaves them alone.                                                 *)
ASSUME OverlapsAssumption ==
  /\ Overlaps \subseteq Writers
  /\ Overlaps # {} => /\ \A i \in DOMAIN Rules : "split" \notin DOMAIN Rules[i].set
                      /\ \A sent \in Sendable : {"amount", "day"} \cap sent = {}

Written(now, was, made) == [f \in DOMAIN now |-> IF made[f] = was[f] THEN now[f] ELSE made[f]]

\* The UPDATE a flush sends: the columns that differ from what was loaded.
Flushed(now, was, made) ==
  [Written(now, was, made) EXCEPT !.values = Written(now.values, was.values, made.values)]

Load(by) ==
  /\ row # None /\ held = None
  /\ by = "sync" => row.synced
  /\ held' = [by |-> by, row |-> row]
  /\ UNCHANGED <<row, enabled, rates>>

Land(made) ==
  /\ row' = Flushed(row, held.row, made)
  /\ held' = None
  /\ UNCHANGED <<enabled, rates>>

LandSync ==
  held # None /\ held.by = "sync" /\ \E report \in Reports : Land(Provided(held.row, report))
LandRules == held # None /\ held.by = "rules" /\ Land(Applied(held.row))
LandPatch ==
  held # None /\ held.by = "patch" /\ \E patch \in Patches : Land(Patched(held.row, patch))

Overlap == (\E by \in Overlaps : Load(by)) \/ LandSync \/ LandRules \/ LandPatch

PersonSplits ==
  \/ \E weights \in Shares : SplitByShare(weights)
  \/ \E parts \in Parts : SplitByAmount(parts)
  \/ Unsplit

Next ==
  \/ \E a \in Amounts, d \in Days, c \in Values("category") : Create(a, d, c)
  \/ \E report \in Reports : Sync(report)
  \/ \E patch \in Patches : Patch(patch)
  \/ PersonSplits
  \/ Delete
  \/ ApplyRules
  \/ \E i \in DOMAIN Rules : Toggle(i)
  \/ \E d \in Rated, q \in Quotes : StateRate(d, q) \/ StateRateElsewhere(d, q)
  \/ Recompute
  \/ Overlap

Spec == Init /\ [][Next]_vars

-----------------------------------------------------------------------------
(* Properties                                                              *)

BasesAddUp(r) ==
  r.legs # <<>> =>
    IF r.base = None THEN \A i \in DOMAIN r.legs : r.legs[i].base = None
    ELSE /\ \A i \in DOMAIN r.legs : r.legs[i].base # None
         /\ Total(Bases(r.legs)) = r.base

LegsAddUp(r) == BasesAddUp(r) /\ (r.legs # <<>> => Total(Natives(r.legs)) = r.amount)

Lands == held # None /\ held' = None /\ row' # None
SyncLands == (Lands /\ held.by = "sync") \/ \E report \in Reports : Sync(report)

\* A split row's legs are what every report sums: a row whose legs add up to it
\* still does after every step but a sync's, in both currencies.
LegsFollowParent ==
  row # None /\ row' # None /\ LegsAddUp(row) => LegsAddUp(row') \/ SyncLands

WorthItsAmount(r) == r.base = ToBase(r.amount, r.day, rates)

\* base_amount is a cache of the amount at the day's rate: once right it stays
\* right, unless a sync moves the row or another household states a rate.
BaseFollowsAmount ==
  row # None /\ row' # None /\ WorthItsAmount(row)
    => \/ row'.base = ToBase(row'.amount, row'.day, rates')
       \/ SyncLands
       \/ row' = row

\* Once a cached amount and its legs are right, every writer but a sync leaves
\* them right, whatever it changes and in whatever order.
CachesStayRight == [][LegsFollowParent /\ BaseFollowsAmount]_vars

\* Whatever a cache has come to, a recompute makes every leg add up again, without
\* moving what a person or a rule decided.
RecomputeRepairs ==
  row # None =>
    LET r == Recomputed(row, rates) IN
    /\ WorthItsAmount(r)
    /\ BasesAddUp(r)
    /\ Natives(r.legs) = Natives(row.legs)

Kept(f) == row'.values[f] = row.values[f] /\ row'.sources[f] = "user"
PersonEdits == (Lands /\ held.by = "patch") \/ \E patch \in Patches : Patch(patch)

\* ADR-0007: what a person set, only a person changes.
UserFieldsStand ==
  row # None /\ row' # None
    => (\A f \in Fields : row.sources[f] = "user" => Kept(f)) \/ PersonEdits

\* So it is but for a writer that loaded the row before the person set it: what it
\* had not seen it may write over, and nothing else.
OnlyLateWritersUndo ==
  row # None /\ row' # None
    => \/ \A f \in Fields : row.sources[f] = "user" =>
            Kept(f) \/ (Lands /\ held.row.sources[f] # "user")
       \/ PersonEdits

\* ADR-0031: a split a person made is final: no rule, sync or rate change re-draws
\* it, and only a writer that had not seen it takes its mark.
HumanSplitStands ==
  row # None /\ row' # None /\ row.sources["splits"] = "user"
    => \/ /\ Natives(row'.legs) = Natives(row.legs)
          /\ row'.sources["splits"] = "user" \/ (Lands /\ held.row.sources["splits"] # "user")
       \/ PersonSplits

\* What people decided, and how they split, no rule, sync or rate undoes, but for a
\* writer that loaded the row before they did.
PeopleDecide == [][OnlyLateWritersUndo /\ HumanSplitStands]_vars

ReadsOf(i) == DOMAIN Rules[i].when
WritesOf(i) == DOMAIN Rules[i].set

\* No enabled rule reads what one writes, and no two that match write one field.
ConflictFree(r) ==
  /\ \A i, j \in enabled : ReadsOf(i) \cap WritesOf(j) = {}
  /\ LET matching == {i \in enabled : Matches(Rules[i], r)} IN
     \A i, j \in matching : i # j => WritesOf(i) \cap WritesOf(j) = {}

\* "Applying twice must change nothing the second time": so it is of rules that do
\* not touch one another, on any row the writers can leave behind.
SecondApplyIsNoop == row # None /\ ConflictFree(row) => Pass(Applied(row)).changed = {}

\* Running again is safe: a recompute repairs whatever a cache has come to, and
\* rules that do not touch one another have nothing left to do.
RunsAgain == TypeOK /\ RecomputeRepairs /\ SecondApplyIsNoop
=============================================================================
