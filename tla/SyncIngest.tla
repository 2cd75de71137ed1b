------------------------------ MODULE SyncIngest ------------------------------
(***************************************************************************)
(* Landing a bank's transactions on one ledger account, once each:         *)
(* ingest_transaction, _match_pending, _rekey_remapped_account and         *)
(* expire_pendings of backend/app/services/sync.py (ADR-0007, ADR-0019).   *)
(*                                                                         *)
(* The bank knows charges; it reports each under an id it may re-mint when *)
(* the charge posts or when the connection is made again.  The ledger      *)
(* knows rows.  A sync is one database transaction over one payload: an    *)
(* order of the charges the bank chose to report this time.  Between syncs *)
(* people edit, annotate, delete and enter rows.                           *)
(*                                                                         *)
(* A description is the set of its words: one matches another when either  *)
(* is absent or contained in the other (_descriptions_match).              *)
(***************************************************************************)
EXTENDS Integers, FiniteSets, SequencesExt

CONSTANTS
  Charges,         \* the purchases the bank will ever know
  AmountOf,        \* what each of them costs
  WordsOf,         \* the descriptions the bank may give each of them
  Days,            \* the days transactions are dated with
  MatchDays,       \* SYNC_PENDING_MATCH_DAYS
  CandidateLimit,  \* PENDING_CANDIDATE_LIMIT
  Gestures,        \* what people do: "enter", "delete", or the field they change
  MaxId,           \* bound: provider ids in use at once
  MaxEntered,      \* bound: rows people enter that are on file at once
  MaxRows,         \* bound: rows on file at once
  NoCharge

ASSUME LimitAssumption == CandidateLimit \in Nat \ {0} /\ MatchDays \in Nat
ASSUME NoneIsNotACharge == NoCharge \notin Charges
ASSUME BankAssumption == IsFiniteSet(Charges) /\ Days # {} /\ MaxId \in Nat /\ MaxRows \in Nat

NoId == 0  \* external_id IS NULL: a row a person entered

Absent  == {}  \* no description
Amounts == {AmountOf[c] : c \in Charges}
Words   == {Absent} \cup UNION {WordsOf[c] : c \in Charges}
Owned   == {"amount", "transacted_at", "posted_at", "description", "category"}

VARIABLES
  bank,      \* what the bank says of each charge
  rows,      \* the account's transactions
  remapped   \* the bank calls the account by a new id since the last sync

ingestVars == <<bank, rows, remapped>>

Report == [phase : {"unborn", "pending", "posted", "dropped"},
           id : 0..MaxId, transacted_at : Days, description : Words]

\* since is pending_since: null, or within or past PENDING_TTL_DAYS.  of and
\* work are history: the charge the row last took its values from, and the one
\* it stood for when a person first worked on it.
Row == [id : 0..MaxId, amount : Amounts, transacted_at : Days, description : Words,
        posted_at : BOOLEAN, is_pending : BOOLEAN, since : {"none", "fresh", "stale"},
        user : SUBSET Owned, notes : BOOLEAN,
        of : Charges \cup {NoCharge}, work : Charges \cup {NoCharge}]

IngestTypeOK ==
  /\ bank \in [Charges -> Report]
  /\ rows \in [DOMAIN rows -> Row]
  /\ DOMAIN rows \subseteq 1..MaxRows
  /\ remapped \in BOOLEAN

Unreported(phase) == [phase |-> phase, id |-> NoId, transacted_at |-> CHOOSE d \in Days : TRUE,
                      description |-> Absent]

IngestInit ==
  /\ bank = [c \in Charges |-> Unreported("unborn")]
  /\ rows = [r \in {} |-> NoCharge]
  /\ remapped = FALSE

-----------------------------------------------------------------------------
(* The bank                                                                *)

Near(d, e) == d - e \in -MatchDays..MatchDays
Known == {c \in Charges : bank[c].phase \in {"pending", "posted"}}

\* A new id is one that neither the bank nor any row still uses.
UnusedIds == 1..MaxId \ ({bank[c].id : c \in Charges} \cup {rows[r].id : r \in DOMAIN rows})
FreshIds(n) == {S \in SUBSET UnusedIds : Cardinality(S) = n
                                          /\ \A i \in S, k \in UnusedIds \ S : i < k}

\* A charge appears, unsettled or already posted.
Appear(c, phase, day, words) ==
  /\ bank[c].phase = "unborn"
  /\ \E id \in UNION FreshIds(1) :
       bank' = [bank EXCEPT ![c] = [phase |-> phase, id |-> id,
                                    transacted_at |-> day, description |-> words]]
  /\ UNCHANGED <<rows, remapped>>

\* It posts: re-dated, reworded, under its own id or a new one.
Post(c, day, words) ==
  /\ bank[c].phase = "pending"
  /\ Near(day, bank[c].transacted_at)
  /\ \E id \in {bank[c].id} \cup UNION FreshIds(1) :
       bank' = [bank EXCEPT ![c] = [phase |-> "posted", id |-> id,
                                    transacted_at |-> day, description |-> words]]
  /\ UNCHANGED <<rows, remapped>>

Withdraw(c) ==
  /\ bank[c].phase = "pending"
  /\ bank' = [bank EXCEPT ![c] = Unreported("dropped")]
  /\ UNCHANGED <<rows, remapped>>

\* The connection is claimed again: a new account id, and new ids for some of
\* the charges the bank knows.
Reconnect(S) ==
  /\ ~remapped
  /\ S \subseteq Known
  /\ \E ids \in FreshIds(Cardinality(S)) : \E fresh \in Bijection(S, ids) :
       bank' = [c \in Charges |-> IF c \in S THEN [bank[c] EXCEPT !.id = fresh[c]] ELSE bank[c]]
  /\ remapped' = TRUE
  /\ UNCHANGED rows

-----------------------------------------------------------------------------
(* One sync                                                                *)

\* A charge as the payload carries it (ProviderTransaction).
Incoming(c) == [charge |-> c, id |-> bank[c].id, amount |-> AmountOf[c],
                transacted_at |-> bank[c].transacted_at, description |-> bank[c].description,
                posted_at |-> bank[c].phase = "posted", is_pending |-> bank[c].phase # "posted"]

DescriptionsMatch(a, b) == a \subseteq b \/ b \subseteq a

\* transactions of this account the provider has named; the others are people's
Synced(rs) == {r \in DOMAIN rs : rs[r].id # NoId}
ById(rs, id) == {r \in Synced(rs) : rs[r].id = id}

\* _apply_provider_fields, on the row t was found to be: a field a person set is
\* theirs; is_pending and the clock it starts go with posted_at; a description is
\* set, never cleared.
ApplyProviderFields(row, t) ==
  LET theirs(f) == f \in row.user IN
  [id            |-> t.id,
   amount        |-> IF theirs("amount") THEN row.amount ELSE t.amount,
   transacted_at |-> IF theirs("transacted_at") THEN row.transacted_at ELSE t.transacted_at,
   description   |-> IF theirs("description") \/ t.description = Absent
                     THEN row.description ELSE t.description,
   posted_at     |-> IF theirs("posted_at") THEN row.posted_at ELSE t.posted_at,
   is_pending    |-> IF theirs("posted_at") THEN row.is_pending ELSE t.is_pending,
   since         |-> CASE theirs("posted_at")   -> row.since
                       [] ~t.is_pending         -> "none"
                       [] row.since = "none"    -> "fresh"
                       [] OTHER                 -> row.since,
   user |-> row.user, notes |-> row.notes, of |-> t.charge, work |-> row.work]

\* _new_transaction
NewRow(t) == [id |-> t.id, amount |-> t.amount, transacted_at |-> t.transacted_at,
              description |-> t.description, posted_at |-> t.posted_at,
              is_pending |-> t.is_pending, since |-> IF t.is_pending THEN "fresh" ELSE "none",
              user |-> {}, notes |-> FALSE, of |-> t.charge, work |-> NoCharge]

FreshRow(rs) == CHOOSE r \in 1..Cardinality(DOMAIN rs) + 1 : r \notin DOMAIN rs
Inserted(rs, row) ==
  [r \in DOMAIN rs \cup {FreshRow(rs)} |-> IF r \in DOMAIN rs THEN rs[r] ELSE row]

PendingCandidates_SameDay(rs, t) ==
  {r \in Synced(rs) : rs[r].is_pending /\ rs[r].amount = t.amount
                        /\ rs[r].transacted_at = t.transacted_at}

PendingCandidates(rs, t) ==
  {r \in Synced(rs) : rs[r].is_pending /\ rs[r].amount = t.amount
                        /\ Near(rs[r].transacted_at, t.transacted_at)}

\* _match_pending: the rows t could be the posting of, when there are few enough
\* to reason about; it is the posting of one of them only if there is just one.
MatchPending(rs, t) ==
  IF t.is_pending \/ Cardinality(PendingCandidates(rs, t)) >= CandidateLimit THEN {}
  ELSE {r \in PendingCandidates(rs, t) :
          DescriptionsMatch(rs[r].description, t.description)}

\* ingest_transaction: found by id, or adopted as the posting of a pending row,
\* or inserted.
IngestOne(rs, t) ==
  LET target == IF ById(rs, t.id) # {} THEN ById(rs, t.id) ELSE MatchPending(rs, t) IN
  IF Cardinality(target) = 1
  THEN [r \in DOMAIN rs |-> IF r \in target
                            THEN ApplyProviderFields(rs[r], t) ELSE rs[r]]
  ELSE Inserted(rs, NewRow(t))

RekeyOne_EvenKeyed(rs, ids, t) ==
  LET matches == {r \in Synced(rs) : /\ rs[r].id \notin ids
                                     /\ rs[r].amount = t.amount
                                     /\ rs[r].transacted_at = t.transacted_at
                                     /\ DescriptionsMatch(rs[r].description, t.description)} IN
  IF Cardinality(matches) = 1
  THEN [r \in DOMAIN rs |-> IF r \in matches THEN [rs[r] EXCEPT !.id = t.id] ELSE rs[r]]
  ELSE rs

\* _rekey_remapped_account, one incoming transaction of a payload that uses ids:
\* the one row no incoming id owns that agrees on the money and the day.
RekeyOne(rs, ids, t) ==
  LET matches == {r \in Synced(rs) : /\ rs[r].id \notin ids
                                     /\ rs[r].amount = t.amount
                                     /\ rs[r].transacted_at = t.transacted_at
                                     /\ DescriptionsMatch(rs[r].description, t.description)} IN
  IF ById(rs, t.id) = {} /\ Cardinality(matches) = 1
  THEN [r \in DOMAIN rs |-> IF r \in matches THEN [rs[r] EXCEPT !.id = t.id] ELSE rs[r]]
  ELSE rs

Phantoms_EvenSeen(rs, ids) ==
  {r \in Synced(rs) : rs[r].is_pending /\ rs[r].since = "stale"}

\* expire_pendings: unsettled for longer than the TTL and not in this payload.
Phantoms(rs, ids) ==
  {r \in Synced(rs) : rs[r].is_pending /\ rs[r].since = "stale" /\ rs[r].id \notin ids}

\* What a person has set a field of is kept, unpended; the rest is deleted.
Expired(rs, ids) ==
  LET gone == Phantoms(rs, ids) IN
  [r \in DOMAIN rs \ {g \in gone : rs[g].user = {}} |->
     IF r \in gone THEN [rs[r] EXCEPT !.is_pending = FALSE, !.since = "none"] ELSE rs[r]]

\* What the rows are after each of a payload's charges was looked at in turn.
Rekeyed(rs, ids, order) ==
  LET done[n \in 0..Len(order)] ==
        IF n = 0 THEN rs ELSE RekeyOne(done[n - 1], ids, Incoming(order[n]))
  IN done
Ingested(rs, order) ==
  LET done[n \in 0..Len(order)] == IF n = 0 THEN rs ELSE IngestOne(done[n - 1], Incoming(order[n]))
  IN done

\* What a payload, its charges in this order, makes of the account's rows.
Landed(rs, order, rekey) ==
  LET ids == {bank[order[i]].id : i \in DOMAIN order}
      keyed == IF rekey THEN Rekeyed(rs, ids, order)[Len(order)] ELSE rs
  IN Expired(Ingested(keyed, order)[Len(order)], ids)

\* The bank may leave any charge out of a payload (an account it could not
\* refresh, a charge it is still settling), but not of the first one after a
\* reconnect: the rekeying runs on that payload only, and a charge it leaves out
\* is on file twice once a later payload carries it.
Payloads == IF remapped THEN SetToSeqs(Known) ELSE UNION {SetToSeqs(S) : S \in SUBSET Known}

\* ingest_account_set, for one account.
Sync(order) ==
  /\ rows' = Landed(rows, order, remapped)
  /\ DOMAIN rows' \subseteq 1..MaxRows
  /\ remapped' = FALSE
  /\ UNCHANGED bank

-----------------------------------------------------------------------------
(* People: services/transactions.py                                        *)

\* create_transaction: a manual or imported row has no provider id.
EnterRow(amount, day, words, pending) ==
  /\ FreshRow(rows) <= MaxRows
  /\ Cardinality(DOMAIN rows \ Synced(rows)) < MaxEntered
  /\ rows' = Inserted(rows, [id |-> NoId, amount |-> amount, transacted_at |-> day,
                             description |-> words, posted_at |-> ~pending,
                             is_pending |-> pending, since |-> "none",
                             user |-> Owned, notes |-> FALSE, of |-> NoCharge, work |-> NoCharge])
  /\ UNCHANGED <<bank, remapped>>

\* update_transaction, one field: every field it can write but notes, tags and
\* is_pending is marked as the person's.
Edited(row, field, value) ==
  LET new(f, old) == IF field = f THEN value ELSE old IN
  [id            |-> row.id,
   amount        |-> new("amount", row.amount),
   transacted_at |-> new("transacted_at", row.transacted_at),
   description   |-> new("description", row.description),
   posted_at     |-> new("posted_at", row.posted_at),
   is_pending    |-> new("is_pending", row.is_pending),
   since         |-> row.since,
   user          |-> row.user \cup ({field} \cap Owned),
   notes         |-> field = "notes" \/ row.notes,
   of            |-> row.of,
   work          |-> IF row.work = NoCharge THEN row.of ELSE row.work]

ValuesOf(field) ==
  CASE field = "amount" -> Amounts
    [] field = "transacted_at" -> Days
    [] field = "description" -> Words
    [] field \in {"posted_at", "is_pending"} -> BOOLEAN
    [] OTHER -> {NoCharge}

Edit(r, field, value) ==
  /\ rows' = [rows EXCEPT ![r] = Edited(rows[r], field, value)]
  /\ UNCHANGED <<bank, remapped>>

\* delete_transaction
Delete(r) ==
  /\ rows' = [q \in DOMAIN rows \ {r} |-> rows[q]]
  /\ UNCHANGED <<bank, remapped>>

\* pending_since passes the TTL.
Age(r) ==
  /\ rows[r].since = "fresh"
  /\ rows' = [rows EXCEPT ![r] = [rows[r] EXCEPT !.since = "stale"]]
  /\ UNCHANGED <<bank, remapped>>

-----------------------------------------------------------------------------
Bank ==
  \/ \E c \in Charges, day \in Days : \E words \in WordsOf[c] :
       \/ \E phase \in {"pending", "posted"} : Appear(c, phase, day, words)
       \/ Post(c, day, words)
  \/ \E c \in Charges : Withdraw(c)
  \/ \E S \in SUBSET Known : Reconnect(S)

PeopleEdit ==
  \/ /\ "enter" \in Gestures
     /\ \E a \in Amounts, day \in Days, words \in Words, p \in BOOLEAN : EnterRow(a, day, words, p)
  \/ \E r \in DOMAIN rows, field \in Gestures \cap (Owned \cup {"is_pending", "notes"}) :
       \E value \in ValuesOf(field) : Edit(r, field, value)
  \/ "delete" \in Gestures /\ \E r \in DOMAIN rows : Delete(r)

IngestNext ==
  \/ Bank
  \/ \E order \in Payloads : Sync(order)
  \/ PeopleEdit
  \/ \E r \in DOMAIN rows : Age(r)

IngestSpec == IngestInit /\ [][IngestNext]_ingestVars

-----------------------------------------------------------------------------
(* What must never go wrong, whatever the bank reports and people edit     *)

\* What a sync would make of the rows now, for any payload the bank may answer.
AfterAnySync(Good(_, _)) == \A order \in Payloads : Good(order, Landed(rows, order, remapped))

\* (account_id, external_id) names one row.  The database would refuse a second
\* and with it the whole sync, on every retry.
IdsAreUnique == \A id \in 1..MaxId : Cardinality(ById(rows, id)) <= 1

\* ADR-0019: a row a person entered is never touched by a sync, however much it
\* looks like something the bank reports.
ManualRowsUntouched ==
  AfterAnySync(LAMBDA order, after :
    \A r \in DOMAIN rows \ Synced(rows) : r \in DOMAIN after /\ after[r] = rows[r])

\* ADR-0007: a sync never removes a row a person has set a field of, and never
\* changes the value they set.
UserWorkKept ==
  AfterAnySync(LAMBDA order, after :
    \A r \in DOMAIN rows : rows[r].user # {} =>
      /\ r \in DOMAIN after
      /\ \A f \in rows[r].user \ {"category"} : after[r][f] = rows[r][f])

-----------------------------------------------------------------------------
(* What holds of charges nothing else can be mistaken for                  *)

\* No other charge costs the same and may be worded alike.
Unmistakable(c) ==
  \A d \in Charges \ {c} :
    \/ AmountOf[c] # AmountOf[d]
    \/ \A v \in WordsOf[c], w \in WordsOf[d] : ~DescriptionsMatch(v, w)

RowsOf(rs, c) == {r \in Synced(rs) : rs[r].of = c}

\* A row an expiry has kept for review: neither pending nor posted.
Shelved(row) == ~row.is_pending /\ ~row.posted_at

\* After a sync every charge it reported is on file under the id the bank uses
\* now, with what the bank says of it where no person said otherwise, and, unless
\* an expiry has shelved a row of it, once: "loses zero transactions, creates
\* zero dupes".
ReportedOnFileOnce ==
  AfterAnySync(LAMBDA order, after :
    \A c \in ToSet(order) : Unmistakable(c) =>
      /\ \E r \in RowsOf(after, c) :
           /\ after[r].id = bank[c].id
           /\ \A f \in {"amount", "transacted_at", "posted_at"} \ after[r].user :
                after[r][f] = Incoming(c)[f]
      /\ \/ Cardinality(RowsOf(after, c)) = 1
         \/ \E r \in RowsOf(after, c) : Shelved(after[r]))

\* What a person recorded about one charge never ends up on another.
WorkStaysWithItsCharge ==
  \A r \in DOMAIN rows :
    rows[r].work # NoCharge /\ Unmistakable(rows[r].work) => rows[r].of = rows[r].work

\* When a charge posts, the pending row a person has already worked on becomes
\* its posting, however the bank re-minted the id, re-dated and reworded it, as
\* long as they left what the matcher reads (amount, day, description) alone.
WorkReachesThePosting ==
  AfterAnySync(LAMBDA order, after :
    \A r \in {q \in DOMAIN rows :
                /\ rows[q].is_pending
                /\ rows[q].user \cap {"amount", "transacted_at", "description"} = {}
                /\ rows[q].work \in ToSet(order)} :
      bank[rows[r].work].phase = "posted" /\ Unmistakable(rows[r].work)
        => r \in DOMAIN after /\ after[r].id = bank[rows[r].work].id)

\* Landing the same payload again changes nothing: a retry after a crash and the
\* overlap of every window with the last rely on it.
ResyncIsNoop ==
  AfterAnySync(LAMBDA order, after :
    (\A c \in ToSet(order) : Unmistakable(c)) => Landed(after, order, FALSE) = after)

\* A person's rows and fields outlive every sync, and stay with the charge they
\* were said of when another one looks alike.
WorkIsKept == IdsAreUnique /\ ManualRowsUntouched /\ UserWorkKept /\ WorkStaysWithItsCharge
=============================================================================
