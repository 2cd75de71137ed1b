---------------------------- MODULE Portability ----------------------------
(***************************************************************************)
(* The household as one document (services/portability.py): what an export *)
(* carries, and what an import makes of it in a household that may be      *)
(* fresh, may be the one it came from, or may have lived on since.         *)
(*                                                                         *)
(* There are two instances with a household each.  A household is its      *)
(* tables; a table is the sequence of its rows in the order of their ids.  *)
(* Every row has                                                           *)
(*   own   what a person or the bank calls it (its part of a natural key)  *)
(*   refs  the rows it names                                               *)
(*   val   the rest, which no lookup reads                                 *)
(*   hash  import_hash: the digest's payload, or None                      *)
(*   base  base_amount: what it was converted at, or None                  *)
(* A name is a pair <<word, case>>; Lower forgets the case.                *)
(***************************************************************************)
EXTENDS Integers, SequencesExt, FiniteSetsExt, TLC

CONSTANTS
  Sites,     \* the instances
  Starts,    \* what the sites' households begin as: functions from Sites to tables
  Typed,     \* the transactions a person may type: [own, val]
  Names,     \* what an owner may be renamed to
  Cut,       \* the tables somebody may cut out of a document
  MaxMoves,  \* bound: the moves of a behaviour
  None       \* SQL NULL

VARIABLES
  db,     \* each site's tables
  base,   \* each site's households.base_currency
  doc,    \* the document in hand, or None
  ids,    \* the ids given out so far: no two rows anywhere share one
  moves   \* the moves made

vars == <<db, base, doc, ids, moves>>

Tables ==
  {"owners", "category_groups", "categories", "tags", "connections", "accounts",
    "account_documents", "securities", "balance_snapshots", "security_prices", "holdings",
    "transactions", "transaction_splits", "transaction_tags", "investment_transactions",
    "transfer_groups", "rules", "fx_rates", "owner_income_profiles", "paystubs",
    "paystub_lines", "recurring_series"}

Lower(name) == name[1]
Rows(h, t) == ToSet(h[t])
RowIds(h) == UNION {{r.id : r \in Rows(h, t)} : t \in Tables}
NthOf(seq, n) == IF n < Len(seq) THEN seq[n + 1] ELSE None

-----------------------------------------------------------------------------
(* Conversion at a dated rate                                              *)

RatesBetween(h, from, to, on) ==
  {r \in Rows(h, "fx_rates") : r.own.from = from /\ r.own.to = to /\ r.own.day <= on}
Freshest(rates) == CHOOSE r \in rates : \A q \in rates : q.own.day <= r.own.day

\* to_base: at par in the base currency, else at the more recently stated of the
\* two directions, the direct one on a tie; None where there is no rate.
Converted(h, ccy, on, to) ==
  LET direct  == RatesBetween(h, ccy, to, on)
      inverse == RatesBetween(h, to, ccy, on)
  IN IF ccy = to THEN <<"par">>
     ELSE IF direct # {} /\ (inverse = {} \/ Freshest(direct).own.day >= Freshest(inverse).own.day)
          THEN <<"times", Freshest(direct).val>>
     ELSE IF inverse # {} THEN <<"over", Freshest(inverse).val>>
     ELSE None

-----------------------------------------------------------------------------
(* The export                                                              *)

Entry(r) == [id |-> r.id, own |-> r.own, refs |-> r.refs, val |-> r.val]

\* export_document: every table, in the order of its ids, without the digests
\* and the base amounts.
Exported(s) ==
  [tables |-> [t \in Tables |-> [i \in DOMAIN db[s][t] |-> Entry(db[s][t][i])]],
   base |-> base[s]]

-----------------------------------------------------------------------------
(* One entry of the document.  An import is a fold over entries; its state *)
(*   ok       no entry was refused                                         *)
(*   h, next  the tables so far, and the next id                           *)
(*   remap    the document's ids, and the rows they became                 *)
(*   seen     how many entries of each key came so far, for the ordinals   *)
(*   made     the rows created; born: the document's ids of those          *)
(*   wanted   _Legs.created: the rows that asked for each transfer group   *)
(*   live     _Legs.live: the group a matched leg already sits in          *)
(*   missing  account files whose bytes did not come                       *)
(*   to, files  the base currency, and whether the archive came along      *)

Ledger == {"transactions", "investment_transactions"}

Became(st, id) == IF id \in DOMAIN st.remap THEN st.remap[id] ELSE None

\* Every reference through the remap, those inside a rule too; one the document
\* does not define is dropped; a transfer group waits for its legs.
Remapped(st, refs) ==
  [f \in DOMAIN refs |-> IF f = "transfer" THEN None
                         ELSE IF f = "tags" THEN {Became(st, id) : id \in refs.tags} \ {None}
                         ELSE Became(st, refs[f])]

Digest(own, n) == [day |-> own.day, amount |-> own.amount, text |-> own.text, nth |-> n]

\* The row an entry becomes; a posting is converted at the rates on file.
NewRow(st, t, e, refs, n) ==
  [id   |-> st.next,
   own  |-> e.own,
   refs |-> refs,
   val  |-> e.val,
   hash |-> IF t \in Ledger /\ e.own.ext = None THEN Digest(e.own, n) ELSE None,
   base |-> IF t \in Ledger THEN Converted(st.h, e.val.ccy, e.own.day, st.to) ELSE None]

Matched_Overwritten(st, t, e, r) ==
  [st EXCEPT !.remap = (e.id :> r.id) @@ @,
             !.live = IF t \in Ledger /\ r.refs.transfer # None
                      THEN @ @@ (e.refs.transfer :> r.refs.transfer) ELSE @,
             !.h[t] = [i \in DOMAIN @ |-> IF @[i].id = r.id THEN [@[i] EXCEPT !.val = e.val]
                                          ELSE @[i]]]

\* The entry is here already: it keeps what it has.
Matched(st, t, e, r) ==
  [st EXCEPT !.remap = (e.id :> r.id) @@ @,
             !.live = IF t \in Ledger /\ r.refs.transfer # None
                      THEN @ @@ (e.refs.transfer :> r.refs.transfer) ELSE @]

Created(st, t, e, r) ==
  [st EXCEPT !.remap = (e.id :> r.id) @@ @,
             !.h[t] = Append(@, r),
             !.next = @ + 1,
             !.made = @ \cup {r.id},
             !.born = @ \cup {e.id},
             !.wanted = IF t \in Ledger /\ e.refs.transfer # None
                        THEN (e.refs.transfer :> ({r.id} \cup IF e.refs.transfer \in DOMAIN @
                                                              THEN @[e.refs.transfer] ELSE {})) @@ @
                        ELSE @]

Ordinal(st, key) == IF key \in DOMAIN st.seen THEN st.seen[key] ELSE 0

\* The entry is the row found, or else a new one.
Landed(st, t, e, found, new) ==
  IF found # None THEN Matched(st, t, e, found) ELSE Created(st, t, e, new)

Counted(st, key) == [st EXCEPT !.seen = (key :> Ordinal(st, key) + 1) @@ @]

\* An entry whose needed references resolve is the row Found says it is, the nth of
\* its key in the document; or else a new one, as Shaped.
Placing(st, t, e, refs, key, n, Found(_, _, _), Shaped(_)) ==
  Landed(Counted(st, key), t, e, Found(e, refs, n), Shaped(NewRow(st, t, e, refs, n)))
Resolving(st, t, e, refs, key, Found(_, _, _), Shaped(_)) ==
  Placing(st, t, e, refs, key, Ordinal(st, key), Found, Shaped)
Checking(st, t, e, needs, refs, Key(_, _), Found(_, _, _), Shaped(_)) ==
  IF \E f \in needs : refs[f] = None THEN [st EXCEPT !.ok = FALSE]
  ELSE Resolving(st, t, e, refs, <<t, Key(e.own, refs)>>, Found, Shaped)
Admitted(st, t, e, needs, Key(_, _), Found(_, _, _), Shaped(_)) ==
  IF st.ok THEN Checking(st, t, e, needs, Remapped(st, e.refs), Key, Found, Shaped) ELSE st

Same(r) == r
Never(e, refs, n) == None

\* A table whose rows a natural key tells apart.
Keyed(st, d, t, needs, Key(_, _)) ==
  FoldLeft(LAMBDA now, e :
             Admitted(now, t, e, needs, Key,
                      LAMBDA x, refs, n : NthOf(SelectSeq(now.h[t], LAMBDA r :
                                            Key(r.own, r.refs) = Key(x.own, refs)), 0), Same),
           st, d.tables[t])

\* A table whose key several rows may share: the nth claims the nth (_Ordinals).
Shared(st, d, t, needs, Key(_, _), Shaped(_)) ==
  FoldLeft(LAMBDA now, e :
             Admitted(now, t, e, needs, Key,
                      LAMBDA x, refs, n : NthOf(SelectSeq(now.h[t], LAMBDA r :
                                            Key(r.own, r.refs) = Key(x.own, refs)), n), Shaped),
           st, d.tables[t])

\* Rows that come with their parent, and only when the parent was created.
Children(st, d, t, needs) ==
  FoldLeft(LAMBDA now, e :
             IF e.refs.parent \notin now.born THEN now
             ELSE Admitted(now, t, e, needs, LAMBDA own, refs : e.id, Never, Same),
           st, d.tables[t])

-----------------------------------------------------------------------------
(* The importers, one per table                                            *)

ByName(own, refs) == Lower(own.name)

ImportOwners(st, d) == Keyed(st, d, "owners", {}, ByName)
ImportCategoryGroups(st, d) == Keyed(st, d, "category_groups", {}, ByName)

ImportCategories_NameAlone(st, d) == Keyed(st, d, "categories", {"group"}, ByName)

\* Two groups may each hold an "Other".
ImportCategories(st, d) ==
  Keyed(st, d, "categories", {"group"}, LAMBDA own, refs : <<refs.group, Lower(own.name)>>)

ImportTags(st, d) == Keyed(st, d, "tags", {}, ByName)

\* A new connection has no credential, and says so.
ImportConnections(st, d) ==
  Shared(st, d, "connections", {}, LAMBDA own, refs : own,
         LAMBDA r : [r EXCEPT !.val = "auth_error"])

\* The bank's key when the entry has one, else the name and kind, whoever that
\* account belongs to.
SameAccount(own, r) ==
  IF own.ext # None THEN r.own.ext = own.ext
  ELSE Lower(r.own.name) = Lower(own.name) /\ r.own.kind = own.kind

SharedOwner(h) == CHOOSE r \in Rows(h, "owners") : r.val.kind = "shared"

\* An account whose owner the document does not say is the household's.
ImportAccounts(st, d) ==
  FoldLeft(LAMBDA now, e :
             Admitted(now, "accounts", e, {}, LAMBDA own, refs : own,
                      LAMBDA x, refs, n :
                        LET same == SelectSeq(now.h["accounts"], LAMBDA r : SameAccount(x.own, r))
                        IN IF same = <<>> THEN None ELSE Last(same),
                      LAMBDA r : IF r.refs.owner # None THEN r
                                 ELSE [r EXCEPT !.refs.owner = SharedOwner(now.h).id]),
           st, d.tables["accounts"])

\* A file whose bytes did not come is left out and counted.
ImportDocuments(st, d) ==
  LET all == Shared(st, d, "account_documents", {"account"},
                    LAMBDA own, refs : <<refs.account, own>>, Same)
  IN IF st.files \/ ~all.ok THEN all
     ELSE [st EXCEPT !.missing = Cardinality(all.made) - Cardinality(st.made)]

ImportSecurities(st, d) == Keyed(st, d, "securities", {}, LAMBDA own, refs : own)

ImportSnapshots(st, d) ==
  Keyed(st, d, "balance_snapshots", {"account"}, LAMBDA own, refs : <<refs.account, own>>)

ImportPrices(st, d) ==
  Keyed(st, d, "security_prices", {"security"}, LAMBDA own, refs : <<refs.security, own>>)

ImportHoldings(st, d) ==
  Keyed(st, d, "holdings", {"account", "security"},
        LAMBDA own, refs : <<refs.account, refs.security>>)

Says(own, r) == r.own.day = own.day /\ r.own.amount = own.amount /\ r.own.text = own.text

\* The nth row of its kind that has neither a bank id nor a digest.
Adoptable(here, own, n) ==
  NthOf(SelectSeq(here, LAMBDA r : r.own.ext = None /\ r.hash = None /\ Says(own, r)), n)

\* A posting or a trade: by the bank's id; else by the digest; else one somebody
\* typed is adopted.
FoundRow(h, t, own, account, n) ==
  LET here    == SelectSeq(h[t], LAMBDA r : r.refs.account = account)
      digests == SelectSeq(here, LAMBDA r : r.hash = Digest(own, n))
  IN IF own.ext # None THEN NthOf(SelectSeq(here, LAMBDA r : r.own.ext = own.ext), 0)
     ELSE IF digests # <<>> THEN digests[1]
     ELSE Adoptable(here, own, n)

Postings(st, d, t) ==
  FoldLeft(LAMBDA now, e :
             Admitted(now, t, e, {"account"}, LAMBDA own, refs : <<refs.account, own>>,
                      LAMBDA x, refs, n : FoundRow(now.h, t, x.own, refs.account, n), Same),
           st, d.tables[t])

ImportTransactions(st, d) == Postings(st, d, "transactions")
ImportSplits(st, d) == Children(st, d, "transaction_splits", {})
ImportTransactionTags(st, d) == Children(st, d, "transaction_tags", {"tag"})
\* The ordinal counts trades of one type; neither the digest nor the adoption
\* reads the type.
ImportInvestmentTransactions(st, d) == Postings(st, d, "investment_transactions")

Joined(h, rows, group) ==
  [t \in Tables |->
     IF t \in Ledger
     THEN [i \in DOMAIN h[t] |-> IF h[t][i].id \in rows
                                 THEN [h[t][i] EXCEPT !.refs.transfer = group] ELSE h[t][i]]
     ELSE h[t]]

\* A group is the legs that were created for it, in the group a matched leg is in
\* already, or in a new one.
ImportTransferGroups(st, d) ==
  FoldLeft(LAMBDA now, e :
             LET r == NewRow(now, "transfer_groups", e, e.refs, 0)
                 made == Created(now, "transfer_groups", e, r)
             IN IF e.id \notin DOMAIN now.wanted THEN now
                ELSE IF e.id \in DOMAIN now.live
                     THEN [now EXCEPT !.h = Joined(@, now.wanted[e.id], now.live[e.id])]
                ELSE [made EXCEPT !.h = Joined(@, now.wanted[e.id], r.id)],
           st, d.tables["transfer_groups"])

\* "priority or 100"
Priority(n) == IF n = 0 THEN 100 ELSE n

\* A rule is here under the priority it has here, whatever that is.
ImportRules(st, d) ==
  LET asked == [d EXCEPT !.tables["rules"] =
                  [i \in DOMAIN @ |-> [@[i] EXCEPT !.own.priority = Priority(@)]]]
  IN Shared(st, asked, "rules", {}, LAMBDA own, refs : <<Lower(own.name), own.priority>>, Same)

\* ON CONFLICT DO NOTHING
ImportFxRates(st, d) == Keyed(st, d, "fx_rates", {}, LAMBDA own, refs : own)

ImportIncomeProfiles(st, d) ==
  Keyed(st, d, "owner_income_profiles", {"owner"}, LAMBDA own, refs : refs.owner)

\* "Always created, never deduped"
ImportPaystubs(st, d) ==
  FoldLeft(LAMBDA now, e :
             Admitted(now, "paystubs", e, {"owner"}, LAMBDA own, refs : e.id, Never, Same),
           st, d.tables["paystubs"])
ImportPaystubLines(st, d) == Children(st, d, "paystub_lines", {})

ImportRecurringSeries(st, d) ==
  Shared(st, d, "recurring_series", {}, LAMBDA own, refs : <<refs.account, Lower(own.name)>>, Same)

\* What the indexes refuse: a second Shared owner, two owners of one name, two
\* rows of an account with one id or one digest.
Conflicts(h) ==
  LET shared == {o \in Rows(h, "owners") : o.val.kind = "shared"}
  IN \/ Cardinality(shared) > 1
     \/ Cardinality({Lower(o.own.name) : o \in Rows(h, "owners")}) # Len(h["owners"])
     \/ \E t \in Ledger, i, j \in 1..6 :
          /\ i < j /\ j <= Len(h[t]) /\ h[t][i].refs.account = h[t][j].refs.account
          /\ \/ h[t][i].own.ext # None /\ h[t][i].own.ext = h[t][j].own.ext
             \/ h[t][i].hash # None /\ h[t][i].hash = h[t][j].hash

Started(h, to, files, next) ==
  [ok |-> TRUE, h |-> h, next |-> next, remap |-> <<>>, seen |-> <<>>, made |-> {},
   born |-> {}, wanted |-> <<>>, live |-> <<>>, missing |-> 0, to |-> to, files |-> files]

Named(st, d) == ImportTags(ImportCategories(ImportCategoryGroups(ImportOwners(st, d), d), d), d)
Held(st, d) == ImportDocuments(ImportAccounts(ImportConnections(st, d), d), d)
Valued(st, d) == ImportHoldings(ImportPrices(ImportSnapshots(ImportSecurities(st, d), d), d), d)
Posted(st, d) == ImportTransactionTags(ImportSplits(ImportTransactions(st, d), d), d)
Traded(st, d) == ImportTransferGroups(ImportInvestmentTransactions(st, d), d)
Paid(st, d) == ImportPaystubLines(ImportPaystubs(ImportIncomeProfiles(st, d), d), d)
Ruled(st, d) == ImportRecurringSeries(Paid(ImportFxRates(ImportRules(st, d), d), d), d)

Settled(done, start) ==
  IF done.ok /\ ~Conflicts(done.h) THEN done ELSE [start EXCEPT !.ok = FALSE]

ImportFrom(start, d) ==
  Settled(Ruled(Traded(Posted(Valued(Held(Named(start, d), d), d), d), d), d), start)

\* import_document: all of it in one transaction, or none.  files: whether it
\* came in its archive.  Its new ids sort after the old ones.
Import(h, d, to, files, next) == ImportFrom(Started(h, to, files, next), d)

-----------------------------------------------------------------------------
(* A version-1 document (_upgrade_v1, balance_sign)                        *)

Owed(balances, synced) ==
  (\E b \in balances : b > 0) /\ (~synced \/ \E b \in balances : b < 0)

\* A liability's current balance and its snapshots, in today's signs.
Upgraded(balances, synced) ==
  [i \in DOMAIN balances |->
     IF Owed({balances[j] : j \in DOMAIN balances}, synced) /\ balances[i] > 0
     THEN -balances[i] ELSE balances[i]]

-----------------------------------------------------------------------------
(* Moves                                                                   *)

Init ==
  /\ db \in Starts
  /\ base = [s \in Sites |-> "usd"]
  /\ doc = None
  /\ ids = Max(UNION {RowIds(db[s]) : s \in Sites})
  /\ moves = 0

Move == moves < MaxMoves /\ moves' = moves + 1

Replace(s, t, F(_)) == db' = [db EXCEPT ![s][t] = [i \in DOMAIN @ |-> F(@[i])]]

\* export_household: the document is in hand.
Export(s) ==
  /\ Move
  /\ Exported(s) # doc
  /\ doc' = Exported(s)
  /\ UNCHANGED <<db, base, ids>>

\* import_household: refused, it leaves nothing behind.
ImportInto(s, files) ==
  /\ Move
  /\ doc # None
  /\ \E done \in {Import(db[s], doc, doc.base, files, ids + 1)} :
        /\ done.ok
        /\ db' = [db EXCEPT ![s] = done.h]
        /\ ids' = done.next - 1
  /\ base' = [base EXCEPT ![s] = doc.base]
  /\ UNCHANGED doc

\* Somebody cuts a table out of the document.
Truncate(t) ==
  /\ Move
  /\ doc # None
  /\ doc.tables[t] # <<>>
  /\ doc' = [doc EXCEPT !.tables[t] = <<>>]
  /\ UNCHANGED <<db, base, ids>>

Placed(seq, r, first) == IF first THEN <<r>> \o seq ELSE Append(seq, r)

\* create_transaction: no digest, no bank id; its id sorts anywhere.
Enter(s, entry, account, first) ==
  /\ Move
  /\ db' = [db EXCEPT ![s]["transactions"] =
       Placed(@, [id |-> ids + 1, own |-> entry.own, val |-> entry.val, hash |-> None,
                  refs |-> [account |-> account, category |-> None, owner |-> None,
                            transfer |-> None],
                  base |-> Converted(db[s], entry.val.ccy, entry.own.day, base[s])], first)]
  /\ ids' = ids + 1
  /\ UNCHANGED <<base, doc>>

Without(h, t, Gone(_)) == [h EXCEPT ![t] = SelectSeq(@, LAMBDA r : ~Gone(r))]

\* delete_transaction: its splits and tags go with it, a series forgets it.
Delete(s, r) ==
  /\ Move
  /\ LET posting  == Without(db[s], "transactions", LAMBDA q : q.id = r.id)
         splits   == Without(posting, "transaction_splits", LAMBDA q : q.refs.parent = r.id)
         tags     == Without(splits, "transaction_tags", LAMBDA q : q.refs.parent = r.id)
     IN db' = [db EXCEPT ![s] = [tags EXCEPT !["recurring_series"] =
                 [i \in DOMAIN @ |-> IF @[i].refs.transaction = r.id
                                     THEN [@[i] EXCEPT !.refs.transaction = None] ELSE @[i]]]]
  /\ UNCHANGED <<base, doc, ids>>

\* update_owner: any owner may be renamed, the Shared one too.
Rename(s, o, name) ==
  /\ Move
  /\ \A q \in Rows(db[s], "owners") : Lower(q.own.name) # Lower(name)
  /\ Replace(s, "owners", LAMBDA q : IF q.id = o.id THEN [q EXCEPT !.own.name = name] ELSE q)
  /\ UNCHANGED <<base, doc, ids>>
Next ==
  \/ \E s \in Sites :
       \/ Export(s)
       \/ \E files \in BOOLEAN : ImportInto(s, files)
       \/ \E entry \in Typed, a \in Rows(db[s], "accounts"), first \in BOOLEAN :
            Enter(s, entry, a.id, first)
       \/ \E r \in Rows(db[s], "transactions") : Delete(s, r)
       \/ \E o \in Rows(db[s], "owners"), name \in Names : Rename(s, o, name)
  \/ \E t \in Cut : Truncate(t)

Spec == Init /\ [][Next]_vars

-----------------------------------------------------------------------------
(* Properties                                                              *)

Resolves(rows, known) ==
  \A r \in rows : \A f \in DOMAIN r.refs :
    IF f = "tags" THEN r.refs.tags \subseteq known ELSE r.refs[f] \in known \cup {None}

\* Every id stands for one row of one household, every reference stays within
\* it, those inside a rule's blobs too, and what the indexes refuse is not there.
TypeOK ==
  /\ \A s \in Sites : \A known \in {RowIds(db[s])} :
       /\ \A id \in known : id <= ids
       /\ \A t \in Tables : Resolves(Rows(db[s], t), known)
       /\ ~Conflicts(db[s])
  /\ \A s, z \in Sites : s # z => RowIds(db[s]) \cap RowIds(db[z]) = {}

Landing(h, files) == Import(h, doc, doc.base, files, ids + 1)
Again(done, files) == Import(done.h, doc, doc.base, files, done.next)
Pay == {"paystubs", "paystub_lines"}

\* "importing the same document twice creates nothing the second time": whatever
\* the household went through, and whatever was cut out of the document.  Paystubs
\* are the exception the code makes.
NothingTheSecondTime(once) ==
  once.ok => \A twice \in {Again(once, TRUE)} :
    twice.ok /\ \A t \in Tables \ Pay : twice.h[t] = once.h[t]

\* "Importing the archive later adds exactly the files left out."
FilesCanFollow ==
  doc # None => \A s \in Sites :
    \A bare \in {Landing(db[s], FALSE)} : bare.ok /\ bare.missing > 0 =>
      \A full \in {Again(bare, TRUE)} :
        /\ full.ok
        /\ Len(full.h["account_documents"]) = Len(bare.h["account_documents"]) + bare.missing
        /\ \A t \in Tables \ (Pay \cup {"account_documents"}) : full.h[t] = bare.h[t]

Fresh == [[t \in Tables |-> <<>>] EXCEPT !["owners"] =
            <<[id |-> 0, own |-> [name |-> <<"shared", "Aa">>], refs |-> <<>>,
               val |-> [kind |-> "shared"], hash |-> None, base |-> None]>>]

DocRows(t) == ToSet(doc.tables[t])
DocIds == UNION {{e.id : e \in DocRows(t)} : t \in Tables}
Legs(g) == {e \in UNION {DocRows(t) : t \in Ledger} : e.refs.transfer = g}

\* A document nobody cut, whose Shared owner has its first name (a renamed one is
\* refused everywhere else) and whose rules all have a priority (0 reads as 100).
Restorable ==
  /\ \E e \in DocRows("owners") : e.val.kind = "shared" /\ e.own.name = Fresh["owners"][1].own.name
  /\ \A e \in DocRows("rules") : e.own.priority # 0
  /\ \A known \in {DocIds} : \A t \in Tables : Resolves(DocRows(t), known)

\* What an entry is once its ids are this household's: a connection has lost its
\* credential, and nothing else has changed.
Moved(done, t, e) ==
  [id |-> done.remap[e.id], own |-> e.own, val |-> IF t = "connections" THEN "auth_error" ELSE e.val,
   refs |-> [f \in DOMAIN e.refs |-> IF f = "tags" THEN {done.remap[id] : id \in e.refs.tags}
                                     ELSE Became(done, e.refs[f])]]

Entered(t) == {e \in DocRows(t) : t = "transfer_groups" => Legs(e.id) # {}}

\* "move my household to another instance": a fresh household holds every row of
\* the document once, each naming what it named, and nothing else; only a transfer
\* group that links nothing is left behind.
RestoreIsFaithful ==
  doc # None /\ Restorable =>
    \A done \in {Landing(Fresh, TRUE)} :
      /\ done.ok
      /\ \A t \in Tables :
           /\ Len(done.h[t]) = Cardinality(Entered(t))
           /\ {Entry(r) : r \in Rows(done.h, t)} = {Moved(done, t, e) : e \in Entered(t)}

\* The merge: a row that is here keeps its values, its links and its place.
KeepsWhatIsHere(s, done) ==
  \A t \in Tables : SelectSeq(done.h[t], LAMBDA r : r.id \notin done.made) = db[s][t]

\* "what keeps a half-imported transfer linked": when one leg was already here in a
\* group, the leg the import adds joins that group, and two new legs share one.
TransfersStayWhole(done) ==
  done.ok => \A g \in DocRows("transfer_groups") :
    \A legs \in {{r \in UNION {Rows(done.h, t) : t \in Ledger} :
                   r.id \in {done.remap[e.id] : e \in Legs(g.id)}}} :
      \A here \in {{r \in legs : r.id \notin done.made}} :
        (here # legs /\ \A r \in here : r.refs.transfer # None) =>
          /\ Cardinality({r.refs.transfer : r \in legs}) = 1
          /\ \A r \in legs : r.refs.transfer # None

Twins(rows, account, own) ==
  {r \in rows : r.refs.account = account /\ r.own.ext = None /\ Says(own, r)}

\* Of each kind, the household holds only rows somebody typed, or only rows a file
\* brought, none of them deleted since.
Tidy(s) ==
  \A r \in Rows(db[s], "transactions") :
    LET twins == Twins(Rows(db[s], "transactions"), r.refs.account, r.own)
    IN r.own.ext = None =>
         \/ \A q \in twins : q.hash = None
         \/ /\ \A q \in twins : q.hash # None
            /\ {q.hash.nth : q \in twins} = 0..(Cardinality(twins) - 1)

\* Two coffees of one day are two coffees: after the import there are as many
\* identical rows as the document has or the household had, whichever is more.
\* So an export imported where it came from creates nothing, and brings back
\* exactly what was deleted since.
AsManyAsTheLarger(s, done) ==
  done.ok /\ Tidy(s) => \A e \in DocRows("transactions") : e.own.ext = None =>
    \A account \in {done.remap[e.refs.account]} :
      Cardinality(Twins(Rows(done.h, "transactions"), account, e.own))
        = Max({Cardinality(Twins(DocRows("transactions"), e.refs.account, e.own)),
               Cardinality(Twins(Rows(db[s], "transactions"), account, e.own))})

\* An export merged into a household that has lived on keeps what is there, links
\* no transfer by halves, counts alike rows as often as the larger side has them,
\* and adds nothing the second time.
MergeKeepsBoth ==
  doc # None => \A s \in Sites : \A done \in {Landing(db[s], TRUE)} :
    /\ KeepsWhatIsHere(s, done)
    /\ TransfersStayWhole(done)
    /\ AsManyAsTheLarger(s, done)
    /\ NothingTheSecondTime(done)

\* "a version-1 backup restores to the same net worth": a hand wrote what a debt
\* owes, the bank its sign.  What only a hand wrote, and what the bank's own minus
\* gives away, reads as the debt it was; what gives nothing away is left alone.
OldBalancesReadTheSame ==
  moves = 0 =>
    \A debt \in [1..3 -> -2..0], hand \in SUBSET (1..3), synced \in BOOLEAN :
      LET written == [i \in 1..3 |-> IF i \in hand THEN -debt[i] ELSE debt[i]]
          told    == IF synced THEN \E i \in 1..3 \ hand : debt[i] < 0 ELSE hand = 1..3
      IN synced \/ hand = 1..3 =>
           Upgraded(written, synced) = IF told THEN debt ELSE written
=============================================================================
