---------------------------- MODULE IntakeProofs ----------------------------
(***************************************************************************)
(* What comes in from outside, proved for any bank and any people, any     *)
(* households, currencies and days, and any files.                         *)
(*                                                                         *)
(* Landing.  An id is one row's, what a person entered or set outlives     *)
(* every sync, and, when no one rewrites what the matchers read, what they *)
(* said of a charge nothing can be mistaken for stays with it.  Each step  *)
(* of a landing moves one row, to an id no row has, or adds one, so that   *)
(* the facts about the whole are facts about one step, carried along the   *)
(* payload.                                                                *)
(*                                                                         *)
(* The daily rates.  That asking at the edges leaves no day behind is a    *)
(* fact about the table alone: between two fetched days of a pair nothing  *)
(* is missing.  A fetch keeps it because what it asks for was read off a   *)
(* table that had it, and all that can have happened since is that people  *)
(* stated more rates.  That no cache stays behind needs what a run owes    *)
(* while it is under way: a row that is behind the table for no other      *)
(* reason is behind a rate this run has written, which is what its second  *)
(* pass looks for.                                                         *)
(*                                                                         *)
(* Statements.  A request remembers the ledger it saw, and each row it has *)
(* put in it weighed against that and against every key written since, so  *)
(* that what it adds to the ledger when it commits can stand in the one it *)
(* finds then.  How often a charge is there is counted by the ordinals in  *)
(* the digests, which the rows of no file exceed.                          *)
(***************************************************************************)
EXTENDS SyncIngest, RateFetch, Imports, Recursion, SequenceTheorems

-----------------------------------------------------------------------------
(* The inductive invariants                                                *)

\* Among the bank's charges an id is one charge's, and its words are the charge's own.
BankNames ==
  \A c \in Known :
    /\ bank[c].id # NoId
    /\ bank[c].description \in WordsOf[c]
    /\ \A d \in Known : bank[c].id = bank[d].id => c = d

\* Among the rows an id is one row's.
Unique(rs) == \A q, r \in Synced(rs) : rs[q].id = rs[r].id => q = r

LedgerInv == IngestTypeOK /\ BankNames /\ Unique(rows)

\* A synced row reads as the charge it stands for; a charge without words may have
\* left those that were there.
ReadsAs(row, c) ==
  /\ c \in Charges
  /\ row.amount = AmountOf[c]
  /\ row.description \in WordsOf[c] \/ Absent \in WordsOf[c]

\* It is never named by the id of another charge, if it can be told from others; and
\* it still stands for the charge a person worked on.
Faithful(rs) ==
  /\ \A r \in Synced(rs) : /\ {"amount", "description"} \cap rs[r].user = {}
                           /\ ReadsAs(rs[r], rs[r].of)
                           /\ \A d \in Known : rs[r].id = bank[d].id /\ Unmistakable(rs[r].of)
                                                 => rs[r].of = d
  /\ \A r \in DOMAIN rs : rs[r].work # NoCharge /\ Unmistakable(rs[r].work)
                            => rs[r].of = rs[r].work

WorkInv == LedgerInv /\ Faithful(rows)

-----------------------------------------------------------------------------
(* Rows                                                                    *)

\* The accounts a landing may go through.
Books == {rs \in UNION {[D -> Row] : D \in SUBSET (Nat \ {0})} : IsFiniteSet(DOMAIN rs)}

LEMMA BooksAre ==
  ASSUME NEW rs
  PROVE  rs \in Books <=> /\ rs \in [DOMAIN rs -> Row]
                          /\ DOMAIN rs \subseteq Nat \ {0}
                          /\ IsFiniteSet(DOMAIN rs)
<1>1. rs \in Books => \E D \in SUBSET (Nat \ {0}) : rs \in [D -> Row] BY DEF Books
<1>2. \A D : rs \in [D -> Row] => D = DOMAIN rs OBVIOUS
<1>3. rs \in Books => IsFiniteSet(DOMAIN rs) BY DEF Books
<1>4. ASSUME rs \in [DOMAIN rs -> Row], DOMAIN rs \subseteq Nat \ {0}, IsFiniteSet(DOMAIN rs)
      PROVE  rs \in Books
  BY <1>4 DEF Books
<1> QED BY <1>1, <1>2, <1>3, <1>4

LEMMA RowsAreABook ==
  ASSUME IngestTypeOK
  PROVE  rows \in Books
<1>1. IsFiniteSet(1..MaxRows) BY BankAssumption, FS_Interval
<1>2. DOMAIN rows \subseteq 1..MaxRows /\ rows \in [DOMAIN rows -> Row] BY DEF IngestTypeOK
<1>3. IsFiniteSet(DOMAIN rows) BY <1>1, <1>2, FS_Subset
<1> QED BY <1>2, <1>3, BankAssumption, BooksAre

\* What the bank may say of a charge.
Txn == [charge : Charges, id : 1..MaxId, amount : Amounts, transacted_at : Days,
        description : Words, posted_at : BOOLEAN, is_pending : BOOLEAN]

LEMMA IncomingIs ==
  ASSUME IngestTypeOK, BankNames, NEW c \in Known
  PROVE  /\ Incoming(c) \in Txn
         /\ Incoming(c).charge = c
         /\ Incoming(c).id = bank[c].id
         /\ ReadsAs(Incoming(c), c)
<1>1. c \in Charges /\ bank[c] \in Report BY DEF Known, IngestTypeOK
<1>2. AmountOf[c] \in Amounts BY <1>1 DEF Amounts
<1>3. bank[c].id \in 1..MaxId BY <1>1, BankAssumption DEF Report, BankNames, NoId
<1>4. bank[c].transacted_at \in Days /\ bank[c].description \in Words BY <1>1 DEF Report
<1>5. Incoming(c) \in Txn BY <1>1, <1>2, <1>3, <1>4 DEF Incoming, Txn
<1>6. bank[c].description \in WordsOf[c] BY DEF BankNames
<1> QED BY <1>1, <1>5, <1>6 DEF Incoming, ReadsAs

LEMMA AppliedIsRow ==
  ASSUME NEW row \in Row, NEW t \in Txn
  PROVE  /\ ApplyProviderFields(row, t) \in Row
         /\ ApplyProviderFields(row, t).id = t.id
         /\ ApplyProviderFields(row, t).id # NoId
         /\ ApplyProviderFields(row, t).of = t.charge
         /\ ApplyProviderFields(row, t).user = row.user
         /\ ApplyProviderFields(row, t).work = row.work
<1> DEFINE x == ApplyProviderFields(row, t)
<1>1. x.amount \in Amounts BY DEF ApplyProviderFields, Row, Txn
<1>2. x.since \in {"none", "fresh", "stale"} BY DEF ApplyProviderFields, Row, Txn
<1>3. x.posted_at \in BOOLEAN /\ x.is_pending \in BOOLEAN BY DEF ApplyProviderFields, Row, Txn
<1>4. x.transacted_at \in Days /\ x.description \in Words BY DEF ApplyProviderFields, Row, Txn
<1>5. /\ x.user \in SUBSET Owned /\ x.notes \in BOOLEAN
      /\ x.of \in Charges /\ x.work \in Charges \cup {NoCharge}
  BY DEF ApplyProviderFields, Row, Txn
<1>6. x.id \in 0..MaxId /\ x.id # NoId BY BankAssumption DEF ApplyProviderFields, Txn, NoId
<1>7. x = [id |-> x.id, amount |-> x.amount, transacted_at |-> x.transacted_at,
           description |-> x.description, posted_at |-> x.posted_at,
           is_pending |-> x.is_pending, since |-> x.since, user |-> x.user,
           notes |-> x.notes, of |-> x.of, work |-> x.work]
  BY DEF ApplyProviderFields
<1>8. x.id = t.id /\ x.of = t.charge /\ x.user = row.user /\ x.work = row.work
  BY DEF ApplyProviderFields
<1> HIDE DEF x
<1>9. x \in Row BY <1>1, <1>2, <1>3, <1>4, <1>5, <1>6, <1>7 DEF Row
<1> QED BY <1>6, <1>8, <1>9 DEF x

\* A field a person set is theirs (ADR-0007).
LEMMA AppliedKeeps ==
  ASSUME NEW row \in Row, NEW t \in Txn
  PROVE  \A f \in row.user \ {"category"} : ApplyProviderFields(row, t)[f] = row[f]
<1> SUFFICES ASSUME NEW f \in row.user \ {"category"}
             PROVE  ApplyProviderFields(row, t)[f] = row[f]
  OBVIOUS
<1>1. f \in {"amount", "transacted_at", "posted_at", "description"} BY DEF Row, Owned
<1>2. CASE f = "amount" BY <1>2 DEF ApplyProviderFields
<1>3. CASE f = "transacted_at" BY <1>3 DEF ApplyProviderFields
<1>4. CASE f = "posted_at" BY <1>4 DEF ApplyProviderFields
<1>5. CASE f = "description" BY <1>5 DEF ApplyProviderFields
<1> QED BY <1>1, <1>2, <1>3, <1>4, <1>5

LEMMA NewRowIs ==
  ASSUME NEW t \in Txn
  PROVE  /\ NewRow(t) \in Row
         /\ NewRow(t).id = t.id
         /\ NewRow(t).of = t.charge
         /\ NewRow(t).user = {}
         /\ NewRow(t).work = NoCharge
BY BankAssumption DEF NewRow, Row, Txn

\* Another id on the same row.
LEMMA RenamedIs ==
  ASSUME NEW row \in Row, NEW id \in 1..MaxId, NEW x, x = [row EXCEPT !.id = id]
  PROVE  /\ x \in Row /\ x.id = id /\ x.id # NoId
         /\ x.of = row.of /\ x.user = row.user /\ x.work = row.work
         /\ x.amount = row.amount /\ x.description = row.description
         /\ \A f \in row.user \ {"category"} : x[f] = row[f]
<1>1. x \in Row /\ x.id = id /\ x.id # NoId BY BankAssumption DEF Row, NoId
<1>2. /\ x.of = row.of /\ x.user = row.user /\ x.work = row.work
      /\ x.amount = row.amount /\ x.description = row.description
      /\ x.transacted_at = row.transacted_at /\ x.posted_at = row.posted_at
  BY DEF Row
<1>3. \A f \in row.user \ {"category"} :
        f \in {"amount", "transacted_at", "posted_at", "description"}
  BY DEF Row, Owned
<1> QED BY <1>1, <1>2, <1>3

\* An expiry that keeps a row takes it off the pending ones.
LEMMA ShelvedIs ==
  ASSUME NEW row \in Row, NEW x, x = [row EXCEPT !.is_pending = FALSE, !.since = "none"]
  PROVE  /\ x \in Row /\ x.id = row.id
         /\ x.of = row.of /\ x.user = row.user /\ x.work = row.work
         /\ x.amount = row.amount /\ x.description = row.description
         /\ \A f \in row.user \ {"category"} : x[f] = row[f]
<1>1. x \in Row BY DEF Row
<1>2. /\ x.id = row.id /\ x.of = row.of /\ x.user = row.user /\ x.work = row.work
      /\ x.amount = row.amount /\ x.description = row.description
      /\ x.transacted_at = row.transacted_at /\ x.posted_at = row.posted_at
  BY DEF Row
<1>3. \A f \in row.user \ {"category"} :
        f \in {"amount", "transacted_at", "posted_at", "description"}
  BY DEF Row, Owned
<1> QED BY <1>1, <1>2, <1>3

-----------------------------------------------------------------------------
(* One row more                                                            *)

\* Among the first n + 1 numbers one is not among n.
LEMMA FreshRowIs ==
  ASSUME NEW rs \in Books
  PROVE  FreshRow(rs) \in Nat \ {0} /\ FreshRow(rs) \notin DOMAIN rs
<1> DEFINE n == Cardinality(DOMAIN rs)
           I == 1..n + 1
<1>1. IsFiniteSet(DOMAIN rs) BY BooksAre
<1>2. n \in Nat BY <1>1, FS_CardinalityType
<1>3. IsFiniteSet(I) /\ Cardinality(I) = n + 1
  <2>1. 1 \in Int /\ n + 1 \in Int /\ ~(1 > n + 1) /\ (n + 1) - 1 + 1 = n + 1 BY <1>2
  <2> HIDE DEF n
  <2> QED BY <2>1, FS_Interval
<1>4. ~(I \subseteq DOMAIN rs)
  <2> SUFFICES ASSUME I \subseteq DOMAIN rs PROVE FALSE OBVIOUS
  <2> HIDE DEF I
  <2>1. Cardinality(I) <= n BY <1>1, FS_Subset
  <2> HIDE DEF n
  <2> QED BY <1>2, <1>3, <2>1
<1>5. \E r \in I : r \notin DOMAIN rs BY <1>4
<1>6. FreshRow(rs) \in I /\ FreshRow(rs) \notin DOMAIN rs BY <1>5 DEF FreshRow
<1> HIDE DEF n
<1> QED BY <1>2, <1>6

LEMMA InsertedIs ==
  ASSUME NEW rs \in Books, NEW row \in Row
  PROVE  /\ Inserted(rs, row) \in Books
         /\ DOMAIN Inserted(rs, row) = DOMAIN rs \cup {FreshRow(rs)}
         /\ FreshRow(rs) \notin DOMAIN rs
         /\ Inserted(rs, row)[FreshRow(rs)] = row
         /\ \A r \in DOMAIN rs : Inserted(rs, row)[r] = rs[r]
<1> DEFINE D == DOMAIN rs \cup {FreshRow(rs)}
<1>1. FreshRow(rs) \in Nat \ {0} /\ FreshRow(rs) \notin DOMAIN rs BY FreshRowIs
<1>2. /\ rs \in [DOMAIN rs -> Row]
      /\ DOMAIN rs \subseteq Nat \ {0}
      /\ IsFiniteSet(DOMAIN rs)
  BY BooksAre
<1>3. IsFiniteSet(D) BY <1>2, FS_AddElement
<1>4. Inserted(rs, row) = [r \in D |-> IF r \in DOMAIN rs THEN rs[r] ELSE row] BY DEF Inserted
<1>5. DOMAIN Inserted(rs, row) = D BY <1>4
<1>6. Inserted(rs, row) \in [D -> Row] BY <1>2, <1>4
<1>7. Inserted(rs, row) \in Books BY <1>1, <1>2, <1>3, <1>5, <1>6, BooksAre
<1> QED BY <1>1, <1>4, <1>5, <1>7

-----------------------------------------------------------------------------
(* What a step of a landing keeps                                          *)

\* No row is lost, none a person entered is touched, and no field a person set.
Keeps(rs, next) ==
  \A r \in DOMAIN rs :
    /\ r \in DOMAIN next
    /\ rs[r].id = NoId => next[r] = rs[r]
    /\ next[r].user = rs[r].user
    /\ \A f \in rs[r].user \ {"category"} : next[r][f] = rs[r][f]

LEMMA KeepsOn ==
  ASSUME NEW a, NEW b, NEW c, Keeps(a, b), Keeps(b, c)
  PROVE  Keeps(a, c)
<1> SUFFICES ASSUME NEW r \in DOMAIN a
             PROVE  /\ r \in DOMAIN c
                    /\ a[r].id = NoId => c[r] = a[r]
                    /\ c[r].user = a[r].user
                    /\ \A f \in a[r].user \ {"category"} : c[r][f] = a[r][f]
  BY DEF Keeps
<1>1. /\ r \in DOMAIN b
      /\ a[r].id = NoId => b[r] = a[r]
      /\ b[r].user = a[r].user
      /\ \A f \in a[r].user \ {"category"} : b[r][f] = a[r][f]
  BY DEF Keeps
<1>2. /\ r \in DOMAIN c
      /\ b[r].id = NoId => c[r] = b[r]
      /\ c[r].user = b[r].user
      /\ \A f \in b[r].user \ {"category"} : c[r][f] = b[r][f]
  BY <1>1 DEF Keeps
<1> QED BY <1>1, <1>2

\* The accounts on which an id is one row's.
Sound == {rs \in Books : Unique(rs)}

\* The row q becomes another.
Moved(rs, q, row) == [r \in DOMAIN rs |-> IF r = q THEN row ELSE rs[r]]

LEMMA MovedIs ==
  ASSUME NEW rs \in Sound, NEW q \in Synced(rs), NEW row \in Row,
         row.id # NoId, row.user = rs[q].user,
         \A f \in rs[q].user \ {"category"} : row[f] = rs[q][f],
         \A r \in Synced(rs) : rs[r].id = row.id => r = q
  PROVE  Moved(rs, q, row) \in Sound /\ Keeps(rs, Moved(rs, q, row))
<1> DEFINE next == Moved(rs, q, row)
<1>1. /\ rs \in [DOMAIN rs -> Row]
      /\ DOMAIN rs \subseteq Nat \ {0}
      /\ IsFiniteSet(DOMAIN rs)
      /\ Unique(rs)
  BY BooksAre DEF Sound
<1>2. q \in DOMAIN rs /\ rs[q].id # NoId BY DEF Synced
<1>3. DOMAIN next = DOMAIN rs /\ next \in [DOMAIN rs -> Row] BY <1>1 DEF Moved
<1>4. \A r \in DOMAIN rs : next[r] = IF r = q THEN row ELSE rs[r] BY DEF Moved
<1> HIDE DEF next
<1>5. next \in Books BY <1>1, <1>3, BooksAre
<1>6. Synced(next) = Synced(rs) BY <1>2, <1>3, <1>4 DEF Synced
<1>7. Unique(next)
  <2> SUFFICES ASSUME NEW p \in Synced(rs), NEW r \in Synced(rs), next[p].id = next[r].id
               PROVE  p = r
    BY <1>6 DEF Unique
  <2>1. p \in DOMAIN rs /\ r \in DOMAIN rs BY DEF Synced
  <2>2. CASE p = q \/ r = q BY <2>1, <2>2, <1>4
  <2>3. CASE p # q /\ r # q BY <2>1, <2>3, <1>1, <1>4 DEF Unique
  <2> QED BY <2>2, <2>3
<1>8. Keeps(rs, next) BY <1>2, <1>3, <1>4 DEF Keeps
<1> QED BY <1>5, <1>7, <1>8 DEF Sound, next

LEMMA AddedIs ==
  ASSUME NEW rs \in Sound, NEW row \in Row, \A r \in Synced(rs) : rs[r].id # row.id
  PROVE  Inserted(rs, row) \in Sound /\ Keeps(rs, Inserted(rs, row))
<1> DEFINE next == Inserted(rs, row)
<1>1. rs \in Books /\ Unique(rs) BY DEF Sound
<1>2. /\ next \in Books
      /\ DOMAIN next = DOMAIN rs \cup {FreshRow(rs)}
      /\ FreshRow(rs) \notin DOMAIN rs
      /\ next[FreshRow(rs)] = row
      /\ \A r \in DOMAIN rs : next[r] = rs[r]
  BY <1>1, InsertedIs
<1> HIDE DEF next
<1>3. \A r \in Synced(next) : r = FreshRow(rs) \/ (r \in Synced(rs) /\ next[r] = rs[r])
  BY <1>2 DEF Synced
<1>4. Unique(next)
  <2> SUFFICES ASSUME NEW p \in Synced(next), NEW r \in Synced(next), next[p].id = next[r].id
               PROVE  p = r
    BY DEF Unique
  <2>1. CASE p = FreshRow(rs) \/ r = FreshRow(rs) BY <2>1, <1>2, <1>3
  <2>2. CASE p # FreshRow(rs) /\ r # FreshRow(rs) BY <2>2, <1>1, <1>3 DEF Unique
  <2> QED BY <2>1, <2>2
<1>5. Keeps(rs, next) BY <1>2 DEF Keeps
<1> QED BY <1>2, <1>4, <1>5 DEF Sound, next

-----------------------------------------------------------------------------
(* The steps of a landing                                                  *)

LEMMA OneOf ==
  ASSUME NEW rs \in Books, NEW S \in SUBSET Synced(rs)
  PROVE  Cardinality(S) = 1 <=> \E q \in Synced(rs) : S = {q}
<1>1. IsFiniteSet(DOMAIN rs) BY BooksAre
<1>2. S \subseteq DOMAIN rs BY DEF Synced
<1>3. IsFiniteSet(S) BY <1>1, <1>2, FS_Subset
<1> QED BY <1>3, FS_Singleton

\* Re-keying leaves the rows as they are or names one that looks like t by t's id, which
\* no row had.
LEMMA RekeyOneIs ==
  ASSUME NEW rs \in Books, NEW ids, NEW t \in Txn
  PROVE  \/ RekeyOne(rs, ids, t) = rs
         \/ \E q \in Synced(rs) :
              /\ \A r \in Synced(rs) : rs[r].id # t.id
              /\ rs[q].amount = t.amount
              /\ DescriptionsMatch(rs[q].description, t.description)
              /\ RekeyOne(rs, ids, t) = Moved(rs, q, [rs[q] EXCEPT !.id = t.id])
<1> DEFINE matches == {r \in Synced(rs) : /\ rs[r].id \notin ids
                                          /\ rs[r].amount = t.amount
                                          /\ rs[r].transacted_at = t.transacted_at
                                          /\ DescriptionsMatch(rs[r].description, t.description)}
<1>1. RekeyOne(rs, ids, t) =
        IF ById(rs, t.id) = {} /\ Cardinality(matches) = 1
        THEN [r \in DOMAIN rs |-> IF r \in matches THEN [rs[r] EXCEPT !.id = t.id] ELSE rs[r]]
        ELSE rs
  BY DEF RekeyOne
<1>2. Cardinality(matches) = 1 <=> \E q \in Synced(rs) : matches = {q}
  <2>1. matches \in SUBSET Synced(rs) OBVIOUS
  <2> HIDE DEF matches
  <2> QED BY <2>1, OneOf
<1>3. CASE ~(ById(rs, t.id) = {} /\ Cardinality(matches) = 1) BY <1>1, <1>3
<1>4. CASE ById(rs, t.id) = {} /\ Cardinality(matches) = 1
  <2>1. PICK q \in Synced(rs) : matches = {q} BY <1>2, <1>4
  <2>2. rs[q].amount = t.amount /\ DescriptionsMatch(rs[q].description, t.description)
    <3>1. q \in matches BY <2>1
    <3> QED BY <3>1
  <2>3. \A r \in Synced(rs) : rs[r].id # t.id BY <1>4 DEF ById
  <2> HIDE DEF matches
  <2>4. RekeyOne(rs, ids, t) = Moved(rs, q, [rs[q] EXCEPT !.id = t.id])
    BY <1>1, <1>4, <2>1 DEF Moved
  <2> QED BY <2>2, <2>3, <2>4
<1> QED BY <1>3, <1>4

\* Ingesting applies t to the row of its id, or to one that looks like t when no row has
\* it, or adds a row.
LEMMA IngestOneIs ==
  ASSUME NEW rs \in Sound, NEW t \in Txn
  PROVE  \/ \E q \in Synced(rs) :
              /\ rs[q].id = t.id
              /\ IngestOne(rs, t) = Moved(rs, q, ApplyProviderFields(rs[q], t))
         \/ \E q \in Synced(rs) :
              /\ \A r \in Synced(rs) : rs[r].id # t.id
              /\ rs[q].amount = t.amount
              /\ DescriptionsMatch(rs[q].description, t.description)
              /\ IngestOne(rs, t) = Moved(rs, q, ApplyProviderFields(rs[q], t))
         \/ /\ \A r \in Synced(rs) : rs[r].id # t.id
            /\ IngestOne(rs, t) = Inserted(rs, NewRow(t))
<1> DEFINE target == IF ById(rs, t.id) # {} THEN ById(rs, t.id) ELSE MatchPending(rs, t)
<1>1. IngestOne(rs, t) =
        IF Cardinality(target) = 1
        THEN [r \in DOMAIN rs |-> IF r \in target THEN ApplyProviderFields(rs[r], t) ELSE rs[r]]
        ELSE Inserted(rs, NewRow(t))
  BY DEF IngestOne
<1>2. ById(rs, t.id) \in SUBSET Synced(rs) /\ MatchPending(rs, t) \in SUBSET Synced(rs)
  BY DEF ById, MatchPending, PendingCandidates
<1>3. rs \in Books /\ Unique(rs) BY DEF Sound
<1>4. Cardinality(target) = 1 <=> \E q \in Synced(rs) : target = {q}
  <2>1. target \in SUBSET Synced(rs) BY <1>2
  <2> HIDE DEF target
  <2> QED BY <1>3, <2>1, OneOf
<1>5. ASSUME NEW q \in Synced(rs), target = {q}
      PROVE  IngestOne(rs, t) = Moved(rs, q, ApplyProviderFields(rs[q], t))
  <2> HIDE DEF target
  <2>1. Cardinality(target) = 1 BY <1>4, <1>5
  <2> QED BY <1>1, <1>5, <2>1 DEF Moved
<1>6. CASE ById(rs, t.id) # {}
  <2>1. PICK q \in Synced(rs) : rs[q].id = t.id BY <1>6 DEF ById
  <2>2. target = {q} BY <1>3, <1>6, <2>1 DEF ById, Unique
  <2> HIDE DEF target
  <2> QED BY <2>1, <2>2, <1>5
<1>7. CASE ById(rs, t.id) = {} /\ Cardinality(target) = 1
  <2>1. PICK q \in Synced(rs) : target = {q} BY <1>4, <1>7
  <2>2. q \in MatchPending(rs, t) BY <1>7, <2>1
  <2>3. rs[q].amount = t.amount /\ DescriptionsMatch(rs[q].description, t.description)
    BY <2>2 DEF MatchPending, PendingCandidates
  <2>4. \A r \in Synced(rs) : rs[r].id # t.id BY <1>7 DEF ById
  <2> HIDE DEF target
  <2> QED BY <2>1, <2>3, <2>4, <1>5
<1>8. CASE ById(rs, t.id) = {} /\ Cardinality(target) # 1
  <2>1. \A r \in Synced(rs) : rs[r].id # t.id BY <1>8 DEF ById
  <2> HIDE DEF target
  <2> QED BY <2>1, <1>1, <1>8
<1> QED BY <1>6, <1>7, <1>8

LEMMA RekeyKeeps ==
  ASSUME NEW rs \in Sound, NEW ids, NEW t \in Txn
  PROVE  RekeyOne(rs, ids, t) \in Sound /\ Keeps(rs, RekeyOne(rs, ids, t))
<1>1. rs \in Books BY DEF Sound
<1>2. CASE RekeyOne(rs, ids, t) = rs BY <1>2 DEF Keeps
<1>3. CASE RekeyOne(rs, ids, t) # rs
  <2>1. PICK q \in Synced(rs) :
          /\ \A r \in Synced(rs) : rs[r].id # t.id
          /\ RekeyOne(rs, ids, t) = Moved(rs, q, [rs[q] EXCEPT !.id = t.id])
    BY <1>1, <1>3, RekeyOneIs
  <2>2. PICK row : row = [rs[q] EXCEPT !.id = t.id] OBVIOUS
  <2>3. rs[q] \in Row BY <1>1, BooksAre DEF Synced
  <2>4. t.id \in 1..MaxId BY DEF Txn
  <2>5. /\ row \in Row /\ row.id = t.id /\ row.id # NoId /\ row.user = rs[q].user
        /\ \A f \in rs[q].user \ {"category"} : row[f] = rs[q][f]
    BY <2>2, <2>3, <2>4, RenamedIs
  <2>6. RekeyOne(rs, ids, t) = Moved(rs, q, row) BY <2>1, <2>2
  <2>7. \A r \in Synced(rs) : rs[r].id = row.id => r = q BY <2>1, <2>5
  <2> QED BY <2>5, <2>6, <2>7, MovedIs
<1> QED BY <1>2, <1>3

LEMMA IngestKeeps ==
  ASSUME NEW rs \in Sound, NEW t \in Txn
  PROVE  IngestOne(rs, t) \in Sound /\ Keeps(rs, IngestOne(rs, t))
<1>1. rs \in Books /\ Unique(rs) BY DEF Sound
<1>2. ASSUME NEW q \in Synced(rs), \A r \in Synced(rs) : rs[r].id = t.id => r = q,
             IngestOne(rs, t) = Moved(rs, q, ApplyProviderFields(rs[q], t))
      PROVE  IngestOne(rs, t) \in Sound /\ Keeps(rs, IngestOne(rs, t))
  <2>1. PICK row : row = ApplyProviderFields(rs[q], t) OBVIOUS
  <2>2. rs[q] \in Row BY <1>1, BooksAre DEF Synced
  <2>3. row \in Row /\ row.id = t.id /\ row.id # NoId /\ row.user = rs[q].user
    BY <2>1, <2>2, AppliedIsRow
  <2>4. \A f \in rs[q].user \ {"category"} : row[f] = rs[q][f] BY <2>1, <2>2, AppliedKeeps
  <2> QED BY <1>2, <2>1, <2>3, <2>4, MovedIs
<1>3. CASE \E q \in Synced(rs) :
             /\ rs[q].id = t.id
             /\ IngestOne(rs, t) = Moved(rs, q, ApplyProviderFields(rs[q], t))
  BY <1>1, <1>2, <1>3 DEF Unique
<1>4. CASE \E q \in Synced(rs) :
             /\ \A r \in Synced(rs) : rs[r].id # t.id
             /\ IngestOne(rs, t) = Moved(rs, q, ApplyProviderFields(rs[q], t))
  BY <1>2, <1>4
<1>5. CASE /\ \A r \in Synced(rs) : rs[r].id # t.id
           /\ IngestOne(rs, t) = Inserted(rs, NewRow(t))
  <2>1. NewRow(t) \in Row /\ NewRow(t).id = t.id BY NewRowIs
  <2> QED BY <1>5, <2>1, AddedIs
<1> QED BY <1>3, <1>4, <1>5, IngestOneIs

-----------------------------------------------------------------------------
(* What a step of a landing says of a charge                               *)

\* A row that stands for a charge no other can be mistaken for, and looks like c's, is c's.
LEMMA OnlyItself ==
  ASSUME BankNames, NEW row, ReadsAs(row, row.of), Unmistakable(row.of), NEW c \in Known,
         row.amount = AmountOf[c], DescriptionsMatch(row.description, bank[c].description)
  PROVE  row.of = c
<1> SUFFICES ASSUME row.of # c PROVE FALSE OBVIOUS
<1> DEFINE b == row.of
<1>1. c \in Charges \ {b} /\ b \in Charges /\ AmountOf[b] = AmountOf[c] BY DEF Known, ReadsAs
<1>2. \A v \in WordsOf[b], w \in WordsOf[c] : ~DescriptionsMatch(v, w)
  BY <1>1 DEF Unmistakable
<1>3. bank[c].description \in WordsOf[c] BY DEF BankNames
<1>4. CASE row.description \in WordsOf[b] BY <1>2, <1>3, <1>4
<1>5. CASE Absent \in WordsOf[b]
  <2>1. DescriptionsMatch(Absent, bank[c].description) BY DEF DescriptionsMatch, Absent
  <2> QED BY <1>2, <1>3, <1>5, <2>1
<1> QED BY <1>4, <1>5 DEF ReadsAs

\* One row moves, and reads as the charge it now stands for.
LEMMA MovedFaithful ==
  ASSUME NEW rs, Faithful(rs), NEW q \in Synced(rs), NEW row, row.id # NoId,
         row.user = rs[q].user, row.work = rs[q].work,
         ReadsAs(row, row.of),
         \A d \in Known : row.id = bank[d].id /\ Unmistakable(row.of) => row.of = d,
         row.work # NoCharge /\ Unmistakable(row.work) => row.of = row.work
  PROVE  Faithful(Moved(rs, q, row))
<1> DEFINE next == Moved(rs, q, row)
<1>1. q \in DOMAIN rs /\ rs[q].id # NoId BY DEF Synced
<1>2. DOMAIN next = DOMAIN rs /\ \A r \in DOMAIN rs : next[r] = IF r = q THEN row ELSE rs[r]
  BY DEF Moved
<1> HIDE DEF next
<1>3. Synced(next) = Synced(rs) BY <1>1, <1>2 DEF Synced
<1>4. ASSUME NEW r \in Synced(rs)
      PROVE  /\ {"amount", "description"} \cap next[r].user = {}
             /\ ReadsAs(next[r], next[r].of)
             /\ \A d \in Known : next[r].id = bank[d].id /\ Unmistakable(next[r].of)
                                   => next[r].of = d
  <2>1. r \in DOMAIN rs BY DEF Synced
  <2>2. CASE r = q
    <3>1. next[r] = row BY <1>2, <2>1, <2>2
    <3>2. {"amount", "description"} \cap rs[q].user = {} BY DEF Faithful
    <3> QED BY <3>1, <3>2
  <2>3. CASE r # q
    <3>1. next[r] = rs[r] BY <1>2, <2>1, <2>3
    <3> QED BY <3>1 DEF Faithful
  <2> QED BY <2>2, <2>3
<1>5. ASSUME NEW r \in DOMAIN rs, next[r].work # NoCharge, Unmistakable(next[r].work)
      PROVE  next[r].of = next[r].work
  BY <1>2, <1>5 DEF Faithful
<1>6. Faithful(next) BY <1>2, <1>3, <1>4, <1>5 DEF Faithful
<1> QED BY <1>6 DEF next

LEMMA RekeyFaithful ==
  ASSUME IngestTypeOK, BankNames, NEW rs \in Sound, Faithful(rs), NEW ids, NEW c \in Known
  PROVE  Faithful(RekeyOne(rs, ids, Incoming(c)))
<1> DEFINE t == Incoming(c)
<1>1. t \in Txn /\ t.charge = c /\ t.id = bank[c].id /\ rs \in Books BY IncomingIs DEF Sound
<1>2. t.amount = AmountOf[c] /\ t.description = bank[c].description BY DEF Incoming
<1> HIDE DEF t
<1>3. CASE RekeyOne(rs, ids, t) = rs BY <1>3 DEF t
<1>4. CASE RekeyOne(rs, ids, t) # rs
  <2>1. PICK q \in Synced(rs) :
          /\ rs[q].amount = t.amount
          /\ DescriptionsMatch(rs[q].description, t.description)
          /\ RekeyOne(rs, ids, t) = Moved(rs, q, [rs[q] EXCEPT !.id = t.id])
    BY <1>1, <1>4, RekeyOneIs
  <2>2. PICK row : row = [rs[q] EXCEPT !.id = t.id] OBVIOUS
  <2>3. rs[q] \in Row /\ q \in DOMAIN rs BY <1>1, BooksAre DEF Synced
  <2>4. t.id \in 1..MaxId BY <1>1 DEF Txn
  <2>5. /\ row.id = t.id /\ row.id # NoId /\ row.of = rs[q].of /\ row.user = rs[q].user
        /\ row.work = rs[q].work /\ row.amount = rs[q].amount
        /\ row.description = rs[q].description
    BY <2>2, <2>3, <2>4, RenamedIs
  <2>6. ReadsAs(rs[q], rs[q].of) BY DEF Faithful
  <2>7. ReadsAs(row, row.of) BY <2>5, <2>6 DEF ReadsAs
  <2>8. Unmistakable(row.of) => row.of = c BY <1>2, <2>1, <2>5, <2>7, OnlyItself
  <2>9. \A d \in Known : row.id = bank[d].id => c = d BY <1>1, <2>5 DEF BankNames
  <2>10. rs[q].work # NoCharge /\ Unmistakable(rs[q].work) => rs[q].of = rs[q].work
    BY <2>3 DEF Faithful
  <2>11. RekeyOne(rs, ids, t) = Moved(rs, q, row) BY <2>1, <2>2
  <2>12. Faithful(Moved(rs, q, row)) BY <2>5, <2>7, <2>8, <2>9, <2>10, MovedFaithful
  <2> QED BY <2>11, <2>12 DEF t
<1> QED BY <1>3, <1>4

LEMMA IngestFaithful ==
  ASSUME IngestTypeOK, BankNames, NEW rs \in Sound, Faithful(rs), NEW c \in Known
  PROVE  Faithful(IngestOne(rs, Incoming(c)))
<1> DEFINE t == Incoming(c)
<1>1. /\ t \in Txn /\ t.charge = c /\ t.id = bank[c].id /\ ReadsAs(t, c)
      /\ rs \in Books /\ c \in Charges
  BY IncomingIs DEF Sound, Known
<1>2. t.amount = AmountOf[c] /\ t.description = bank[c].description BY DEF Incoming
<1> HIDE DEF t
<1>3. \A d \in Known : t.id = bank[d].id => c = d BY <1>1 DEF BankNames
<1>4. ASSUME NEW q \in Synced(rs), Unmistakable(rs[q].of) => rs[q].of = c,
             IngestOne(rs, t) = Moved(rs, q, ApplyProviderFields(rs[q], t))
      PROVE  Faithful(IngestOne(rs, t))
  <2>1. PICK row : row = ApplyProviderFields(rs[q], t) OBVIOUS
  <2>2. rs[q] \in Row /\ q \in DOMAIN rs BY <1>1, BooksAre DEF Synced
  <2>3. /\ row.id = t.id /\ row.id # NoId /\ row.of = c
        /\ row.user = rs[q].user /\ row.work = rs[q].work
    BY <1>1, <2>1, <2>2, AppliedIsRow
  <2>4. {"amount", "description"} \cap rs[q].user = {} BY DEF Faithful
  <2>5. /\ row.amount = t.amount
        /\ row.description = t.description \/ t.description = Absent
    BY <2>1, <2>4 DEF ApplyProviderFields
  <2>6. ReadsAs(row, c) BY <1>1, <2>5 DEF ReadsAs
  <2>7. rs[q].work # NoCharge /\ Unmistakable(rs[q].work) => rs[q].of = rs[q].work
    BY <2>2 DEF Faithful
  <2>8. row.work # NoCharge /\ Unmistakable(row.work) => row.of = row.work
    BY <1>4, <2>3, <2>7
  <2>9. Faithful(Moved(rs, q, row)) BY <1>3, <2>3, <2>6, <2>8, MovedFaithful
  <2> QED BY <1>4, <2>1, <2>9
<1>5. CASE \E q \in Synced(rs) :
             /\ rs[q].id = t.id
             /\ IngestOne(rs, t) = Moved(rs, q, ApplyProviderFields(rs[q], t))
  <2>1. PICK q \in Synced(rs) :
             /\ rs[q].id = t.id
             /\ IngestOne(rs, t) = Moved(rs, q, ApplyProviderFields(rs[q], t))
    BY <1>5
  <2>2. Unmistakable(rs[q].of) => rs[q].of = c BY <1>1, <2>1 DEF Faithful
  <2> QED BY <1>4, <2>1, <2>2 DEF t
<1>6. CASE \E q \in Synced(rs) :
             /\ rs[q].amount = t.amount
             /\ DescriptionsMatch(rs[q].description, t.description)
             /\ IngestOne(rs, t) = Moved(rs, q, ApplyProviderFields(rs[q], t))
  <2>1. PICK q \in Synced(rs) :
             /\ rs[q].amount = t.amount
             /\ DescriptionsMatch(rs[q].description, t.description)
             /\ IngestOne(rs, t) = Moved(rs, q, ApplyProviderFields(rs[q], t))
    BY <1>6
  <2>2. ReadsAs(rs[q], rs[q].of) BY DEF Faithful
  <2>3. Unmistakable(rs[q].of) => rs[q].of = c BY <1>2, <2>1, <2>2, OnlyItself
  <2> QED BY <1>4, <2>1, <2>3 DEF t
<1>7. CASE IngestOne(rs, t) = Inserted(rs, NewRow(t))
  <2>1. PICK row : row = NewRow(t) OBVIOUS
  <2>2. PICK next : next = Inserted(rs, row) OBVIOUS
  <2>3. row \in Row /\ row.id = t.id /\ row.of = c /\ row.user = {} /\ row.work = NoCharge
    BY <1>1, <2>1, NewRowIs
  <2>4. ReadsAs(row, c) BY <1>1, <2>1 DEF ReadsAs, NewRow
  <2>5. /\ DOMAIN next = DOMAIN rs \cup {FreshRow(rs)}
        /\ FreshRow(rs) \notin DOMAIN rs
        /\ next[FreshRow(rs)] = row
        /\ \A r \in DOMAIN rs : next[r] = rs[r]
    BY <1>1, <2>2, <2>3, InsertedIs, ZenonT(30)
  <2>6. \A r \in Synced(next) : next[r] = row \/ (r \in Synced(rs) /\ next[r] = rs[r])
    BY <2>5 DEF Synced
  <2>7. ASSUME NEW r \in Synced(next)
        PROVE  /\ {"amount", "description"} \cap next[r].user = {}
               /\ ReadsAs(next[r], next[r].of)
               /\ \A d \in Known : next[r].id = bank[d].id /\ Unmistakable(next[r].of)
                                     => next[r].of = d
    <3>1. CASE next[r] = row BY <3>1, <1>3, <2>3, <2>4
    <3>2. CASE r \in Synced(rs) /\ next[r] = rs[r] BY <3>2 DEF Faithful
    <3> QED BY <3>1, <3>2, <2>6
  <2>8. ASSUME NEW r \in DOMAIN next, next[r].work # NoCharge, Unmistakable(next[r].work)
        PROVE  next[r].of = next[r].work
    BY <2>3, <2>5, <2>8 DEF Faithful
  <2>9. Faithful(next) BY <2>7, <2>8 DEF Faithful
  <2> QED BY <1>7, <2>1, <2>2, <2>9 DEF t
<1>8. \/ \E q \in Synced(rs) :
            /\ rs[q].id = t.id
            /\ IngestOne(rs, t) = Moved(rs, q, ApplyProviderFields(rs[q], t))
      \/ \E q \in Synced(rs) :
            /\ rs[q].amount = t.amount
            /\ DescriptionsMatch(rs[q].description, t.description)
            /\ IngestOne(rs, t) = Moved(rs, q, ApplyProviderFields(rs[q], t))
      \/ IngestOne(rs, t) = Inserted(rs, NewRow(t))
  BY <1>1, IngestOneIs
<1> QED BY <1>5, <1>6, <1>7, <1>8

-----------------------------------------------------------------------------
(* Expiry                                                                  *)

LEMMA ExpiredIs ==
  ASSUME NEW rs \in Sound, NEW ids, NEW next, next = Expired(rs, ids)
  PROVE  /\ next \in Sound
         /\ DOMAIN next \subseteq DOMAIN rs
         /\ \A r \in DOMAIN rs : rs[r].id = NoId \/ rs[r].user # {} => r \in DOMAIN next
         /\ \A r \in DOMAIN next :
              /\ rs[r].id = NoId => next[r] = rs[r]
              /\ next[r].id = rs[r].id /\ next[r].of = rs[r].of
              /\ next[r].user = rs[r].user /\ next[r].work = rs[r].work
              /\ next[r].amount = rs[r].amount /\ next[r].description = rs[r].description
              /\ \A f \in rs[r].user \ {"category"} : next[r][f] = rs[r][f]
<1> DEFINE gone == Phantoms(rs, ids)
           D == DOMAIN rs \ {g \in gone : rs[g].user = {}}
<1>1. /\ rs \in [DOMAIN rs -> Row]
      /\ DOMAIN rs \subseteq Nat \ {0}
      /\ IsFiniteSet(DOMAIN rs)
      /\ Unique(rs)
  BY BooksAre DEF Sound
<1>2. \A r \in gone : rs[r].id # NoId BY DEF Phantoms, Synced
<1>3. /\ DOMAIN next = D
      /\ \A r \in D : next[r] = IF r \in gone
                                THEN [rs[r] EXCEPT !.is_pending = FALSE, !.since = "none"]
                                ELSE rs[r]
  BY DEF Expired
<1>4. D \subseteq DOMAIN rs OBVIOUS
<1>5. \A r \in DOMAIN rs : rs[r].id = NoId \/ rs[r].user # {} => r \in D BY <1>2
<1> HIDE DEF gone, D
<1>6. ASSUME NEW r \in D
      PROVE  /\ next[r] \in Row
             /\ rs[r].id = NoId => next[r] = rs[r]
             /\ next[r].id = rs[r].id /\ next[r].of = rs[r].of
             /\ next[r].user = rs[r].user /\ next[r].work = rs[r].work
             /\ next[r].amount = rs[r].amount /\ next[r].description = rs[r].description
             /\ \A f \in rs[r].user \ {"category"} : next[r][f] = rs[r][f]
  <2>1. rs[r] \in Row BY <1>1, <1>4
  <2>2. CASE r \in gone
    <3>1. next[r] = [rs[r] EXCEPT !.is_pending = FALSE, !.since = "none"] BY <1>3, <2>2
    <3>2. rs[r].id # NoId BY <1>2, <2>2
    <3>3. PICK row \in Row : row = rs[r] BY <2>1
    <3>4. PICK x : x = next[r] OBVIOUS
    <3>5. x = [row EXCEPT !.is_pending = FALSE, !.since = "none"] BY <3>1, <3>3, <3>4
    <3>6. /\ x \in Row /\ x.id = row.id
          /\ x.of = row.of /\ x.user = row.user /\ x.work = row.work
          /\ x.amount = row.amount /\ x.description = row.description
          /\ \A f \in row.user \ {"category"} : x[f] = row[f]
      BY <3>5, ShelvedIs, ZenonT(30)
    <3> QED BY <3>2, <3>3, <3>4, <3>6
  <2>3. CASE r \notin gone
    <3>1. next[r] = rs[r] BY <1>3, <2>3
    <3> QED BY <2>1, <3>1
  <2> QED BY <2>2, <2>3
<1>7. next \in [DOMAIN next -> Row]
  <2>1. next = [r \in DOMAIN next |-> next[r]] BY DEF Expired
  <2> QED BY <1>3, <1>6, <2>1
<1>8. IsFiniteSet(DOMAIN next) BY <1>1, <1>3, <1>4, FS_Subset
<1>9. next \in Books BY <1>1, <1>3, <1>4, <1>7, <1>8, BooksAre
<1>10. Unique(next)
  <2>1. \A r \in Synced(next) : r \in Synced(rs) /\ next[r].id = rs[r].id
    BY <1>3, <1>4, <1>6 DEF Synced
  <2> QED BY <1>1, <2>1 DEF Unique
<1> QED BY <1>3, <1>4, <1>5, <1>6, <1>9, <1>10 DEF Sound

LEMMA ExpiredFaithful ==
  ASSUME NEW rs \in Sound, Faithful(rs), NEW ids
  PROVE  Faithful(Expired(rs, ids))
<1>1. PICK next : next = Expired(rs, ids) OBVIOUS
<1>2. /\ DOMAIN next \subseteq DOMAIN rs
      /\ \A r \in DOMAIN next :
           /\ next[r].id = rs[r].id /\ next[r].of = rs[r].of
           /\ next[r].user = rs[r].user /\ next[r].work = rs[r].work
           /\ next[r].amount = rs[r].amount /\ next[r].description = rs[r].description
  BY <1>1, ExpiredIs
<1>3. \A r \in Synced(next) : r \in Synced(rs) /\ r \in DOMAIN next BY <1>2 DEF Synced
<1>4. ASSUME NEW r \in Synced(next)
      PROVE  /\ {"amount", "description"} \cap next[r].user = {}
             /\ ReadsAs(next[r], next[r].of)
             /\ \A d \in Known : next[r].id = bank[d].id /\ Unmistakable(next[r].of)
                                   => next[r].of = d
  <2>1. /\ {"amount", "description"} \cap rs[r].user = {}
        /\ ReadsAs(rs[r], rs[r].of)
        /\ \A d \in Known : rs[r].id = bank[d].id /\ Unmistakable(rs[r].of) => rs[r].of = d
    BY <1>3 DEF Faithful
  <2>2. ReadsAs(next[r], next[r].of) BY <1>2, <1>3, <2>1 DEF ReadsAs
  <2> QED BY <1>2, <1>3, <2>1, <2>2
<1>5. ASSUME NEW r \in DOMAIN next, next[r].work # NoCharge, Unmistakable(next[r].work)
      PROVE  next[r].of = next[r].work
  BY <1>2, <1>5 DEF Faithful
<1> QED BY <1>1, <1>4, <1>5 DEF Faithful

-----------------------------------------------------------------------------
(* A whole landing                                                         *)

LEMMA PayloadIs ==
  ASSUME IngestTypeOK, NEW order \in Payloads
  PROVE  order \in Seq(Known)
<1>1. IsFiniteSet(Known) BY BankAssumption, FS_Subset DEF Known
<1>2. PICK S \in SUBSET Known : order \in SetToSeqs(S) BY DEF Payloads
<1>3. IsFiniteSet(S) BY <1>1, <1>2, FS_Subset
<1>4. Cardinality(S) \in Nat BY <1>3, FS_CardinalityType
<1>5. order \in [1..Cardinality(S) -> S] BY <1>2 DEF SetToSeqs
<1>6. order \in [1..Cardinality(S) -> Known] BY <1>2, <1>5
<1> QED BY <1>4, <1>6, SeqDef

\* The two recursions are what their equations say.
LEMMA RekeyByRekey ==
  ASSUME IngestTypeOK, BankNames, NEW rs \in Sound, NEW ids, NEW order \in Seq(Known)
  PROVE  /\ Rekeyed(rs, ids, order)[0] = rs
         /\ \A n \in 1..Len(order) :
              Rekeyed(rs, ids, order)[n]
                = RekeyOne(Rekeyed(rs, ids, order)[n - 1], ids, Incoming(order[n]))
<1> DEFINE N == Len(order)
           G == [x \in (1..N) \X Sound |-> RekeyOne(x[2], ids, Incoming(order[x[1]]))]
<1>1. N \in Nat /\ \A n \in 1..N : order[n] \in Known OBVIOUS
<1>2. G \in [(1..N) \X Sound -> Sound]
  <2>1. \A n \in 1..N : Incoming(order[n]) \in Txn BY <1>1, IncomingIs
  <2> HIDE DEF N
  <2> QED BY <2>1, RekeyKeeps
<1>3. \A n \in 1..N, acc \in Sound : G[<<n, acc>>] = RekeyOne(acc, ids, Incoming(order[n]))
  OBVIOUS
<1> HIDE DEF G
<1>4. PICK f : Follows(f, N, Sound, rs, G)
  <2>1. G \in Steps(N, Sound) BY <1>2 DEF Steps
  <2> HIDE DEF N
  <2> QED BY <1>1, <2>1, Recursion
<1> DEFINE Body(t) == [n \in 0..N |->
                         IF n = 0 THEN rs ELSE RekeyOne(t[n - 1], ids, Incoming(order[n]))]
<1>5. f = Body(f)
  <2>1. ASSUME NEW k \in 1..N PROVE f[k] = RekeyOne(f[k - 1], ids, Incoming(order[k]))
    <3>1. k - 1 \in 0..N BY <1>1
    <3> QED BY <3>1, <1>3, <1>4 DEF Follows
  <2> HIDE DEF N
  <2> QED BY <2>1, <1>1, <1>4 DEF Follows
<1>6. Rekeyed(rs, ids, order) = CHOOSE t : t = Body(t) BY DEF Rekeyed
<1> HIDE DEF Body
<1>7. Rekeyed(rs, ids, order) = Body(Rekeyed(rs, ids, order)) BY <1>5, <1>6
<1> QED BY <1>1, <1>7 DEF Body

LEMMA IngestByIngest ==
  ASSUME IngestTypeOK, BankNames, NEW rs \in Sound, NEW order \in Seq(Known)
  PROVE  /\ Ingested(rs, order)[0] = rs
         /\ \A n \in 1..Len(order) :
              Ingested(rs, order)[n] = IngestOne(Ingested(rs, order)[n - 1], Incoming(order[n]))
<1> DEFINE N == Len(order)
           G == [x \in (1..N) \X Sound |-> IngestOne(x[2], Incoming(order[x[1]]))]
<1>1. N \in Nat /\ \A n \in 1..N : order[n] \in Known OBVIOUS
<1>2. G \in [(1..N) \X Sound -> Sound]
  <2>1. \A n \in 1..N : Incoming(order[n]) \in Txn BY <1>1, IncomingIs
  <2> HIDE DEF N
  <2> QED BY <2>1, IngestKeeps
<1>3. \A n \in 1..N, acc \in Sound : G[<<n, acc>>] = IngestOne(acc, Incoming(order[n])) OBVIOUS
<1> HIDE DEF G
<1>4. PICK f : Follows(f, N, Sound, rs, G)
  <2>1. G \in Steps(N, Sound) BY <1>2 DEF Steps
  <2> HIDE DEF N
  <2> QED BY <1>1, <2>1, Recursion
<1> DEFINE Body(t) == [n \in 0..N |-> IF n = 0 THEN rs ELSE IngestOne(t[n - 1], Incoming(order[n]))]
<1>5. f = Body(f)
  <2>1. ASSUME NEW k \in 1..N PROVE f[k] = IngestOne(f[k - 1], Incoming(order[k]))
    <3>1. k - 1 \in 0..N BY <1>1
    <3> QED BY <3>1, <1>3, <1>4 DEF Follows
  <2> HIDE DEF N
  <2> QED BY <2>1, <1>1, <1>4 DEF Follows
<1>6. Ingested(rs, order) = CHOOSE t : t = Body(t) BY DEF Ingested
<1> HIDE DEF Body
<1>7. Ingested(rs, order) = Body(Ingested(rs, order)) BY <1>5, <1>6
<1> QED BY <1>1, <1>7 DEF Body

\* What the steps keep, a payload keeps.
LEMMA RekeyedKeeps ==
  ASSUME IngestTypeOK, BankNames, NEW rs \in Sound, NEW ids, NEW order \in Seq(Known)
  PROVE  /\ Rekeyed(rs, ids, order)[Len(order)] \in Sound
         /\ Keeps(rs, Rekeyed(rs, ids, order)[Len(order)])
         /\ Faithful(rs) => Faithful(Rekeyed(rs, ids, order)[Len(order)])
<1> DEFINE N == Len(order)
           f == Rekeyed(rs, ids, order)
           Good(a) == a \in Sound /\ Keeps(rs, a) /\ (Faithful(rs) => Faithful(a))
           S == {n \in 0..N : Good(f[n])}
<1>1. N \in Nat /\ \A n \in 1..N : order[n] \in Known OBVIOUS
<1>2. f[0] = rs /\ \A n \in 1..N : f[n] = RekeyOne(f[n - 1], ids, Incoming(order[n]))
  BY RekeyByRekey
<1> HIDE DEF N, f
<1>3. 0 \in S
  <2>1. Good(rs) BY DEF Keeps
  <2> QED BY <1>1, <1>2, <2>1
<1>4. \A k \in 0..(N - 1) : k \in S => k + 1 \in S
  <2> SUFFICES ASSUME NEW k \in 0..(N - 1), k \in S PROVE k + 1 \in S OBVIOUS
  <2>1. PICK c \in Known : f[k + 1] = RekeyOne(f[k], ids, Incoming(c))
    <3>1. k + 1 \in 1..N /\ (k + 1) - 1 = k BY <1>1
    <3> QED BY <1>1, <1>2, <3>1
  <2>2. Good(f[k]) OBVIOUS
  <2>3. Incoming(c) \in Txn BY IncomingIs
  <2>4. f[k + 1] \in Sound /\ Keeps(f[k], f[k + 1]) BY <2>1, <2>2, <2>3, RekeyKeeps
  <2>5. Keeps(rs, f[k + 1]) BY <2>2, <2>4, KeepsOn
  <2>6. Faithful(rs) => Faithful(f[k + 1]) BY <2>1, <2>2, RekeyFaithful
  <2>7. Good(f[k + 1]) BY <2>4, <2>5, <2>6
  <2> HIDE DEF Good
  <2> QED BY <1>1, <2>7
<1>5. N \in S
  <2> HIDE DEF S
  <2>1. \A k \in 0..N : k \in S BY <1>1, <1>3, <1>4, UpTo
  <2> QED BY <1>1, <2>1
<1> QED BY <1>5 DEF N, f

LEMMA IngestedKeeps ==
  ASSUME IngestTypeOK, BankNames, NEW rs \in Sound, NEW order \in Seq(Known)
  PROVE  /\ Ingested(rs, order)[Len(order)] \in Sound
         /\ Keeps(rs, Ingested(rs, order)[Len(order)])
         /\ Faithful(rs) => Faithful(Ingested(rs, order)[Len(order)])
<1> DEFINE N == Len(order)
           f == Ingested(rs, order)
           Good(a) == a \in Sound /\ Keeps(rs, a) /\ (Faithful(rs) => Faithful(a))
           S == {n \in 0..N : Good(f[n])}
<1>1. N \in Nat /\ \A n \in 1..N : order[n] \in Known OBVIOUS
<1>2. f[0] = rs /\ \A n \in 1..N : f[n] = IngestOne(f[n - 1], Incoming(order[n]))
  BY IngestByIngest
<1> HIDE DEF N, f
<1>3. 0 \in S
  <2>1. Good(rs) BY DEF Keeps
  <2> QED BY <1>1, <1>2, <2>1
<1>4. \A k \in 0..(N - 1) : k \in S => k + 1 \in S
  <2> SUFFICES ASSUME NEW k \in 0..(N - 1), k \in S PROVE k + 1 \in S OBVIOUS
  <2>1. PICK c \in Known : f[k + 1] = IngestOne(f[k], Incoming(c))
    <3>1. k + 1 \in 1..N /\ (k + 1) - 1 = k BY <1>1
    <3> QED BY <1>1, <1>2, <3>1
  <2>2. Good(f[k]) OBVIOUS
  <2>3. Incoming(c) \in Txn BY IncomingIs
  <2>4. f[k + 1] \in Sound /\ Keeps(f[k], f[k + 1]) BY <2>1, <2>2, <2>3, IngestKeeps
  <2>5. Keeps(rs, f[k + 1]) BY <2>2, <2>4, KeepsOn
  <2>6. Faithful(rs) => Faithful(f[k + 1]) BY <2>1, <2>2, IngestFaithful
  <2>7. Good(f[k + 1]) BY <2>4, <2>5, <2>6
  <2> HIDE DEF Good
  <2> QED BY <1>1, <2>7
<1>5. N \in S
  <2> HIDE DEF S
  <2>1. \A k \in 0..N : k \in S BY <1>1, <1>3, <1>4, UpTo
  <2> QED BY <1>1, <2>1
<1> QED BY <1>5 DEF N, f

\* Up to the expiry a landing keeps everything; the expiry takes only what is the bank's.
LEMMA LandedIs ==
  ASSUME LedgerInv, NEW order \in Payloads, NEW rekey \in BOOLEAN
  PROVE  \E before, ids :
           /\ before \in Sound
           /\ Keeps(rows, before)
           /\ Faithful(rows) => Faithful(before)
           /\ Landed(rows, order, rekey) = Expired(before, ids)
<1> USE DEF LedgerInv
<1>1. order \in Seq(Known) BY PayloadIs
<1>2. rows \in Sound BY RowsAreABook DEF Sound
<1> DEFINE ids == {bank[order[i]].id : i \in DOMAIN order}
           keyed == IF rekey THEN Rekeyed(rows, ids, order)[Len(order)] ELSE rows
           before == Ingested(keyed, order)[Len(order)]
<1>3. Landed(rows, order, rekey) = Expired(before, ids) BY DEF Landed
<1>4. keyed \in Sound /\ Keeps(rows, keyed) /\ (Faithful(rows) => Faithful(keyed))
  <2> HIDE DEF ids
  <2>1. Keeps(rows, rows) BY DEF Keeps
  <2> QED BY <1>1, <1>2, <2>1, RekeyedKeeps
<1> HIDE DEF keyed, ids
<1>5. before \in Sound /\ Keeps(keyed, before) /\ (Faithful(keyed) => Faithful(before))
  BY <1>1, <1>4, IngestedKeeps
<1> HIDE DEF before
<1>6. Keeps(rows, before) BY <1>4, <1>5, KeepsOn
<1> QED BY <1>3, <1>4, <1>5, <1>6

-----------------------------------------------------------------------------
(* The bank                                                                *)

LEMMA FreshIdsAreUnused ==
  ASSUME NEW n, NEW ids \in FreshIds(n), NEW id \in ids
  PROVE  id \in UnusedIds
BY DEF FreshIds

\* What the bank says anew, it says under an id that nobody used, and of each charge
\* under another one.
LEMMA BankStep ==
  ASSUME LedgerInv, rows' = rows, remapped' \in BOOLEAN, bank' \in [Charges -> Report],
         \A c \in Known' :
           /\ bank'[c].description \in WordsOf[c]
           /\ bank'[c].id \in UnusedIds \/ (c \in Known /\ bank'[c].id = bank[c].id),
         \A c, d \in Known' : bank'[c].id = bank'[d].id /\ bank'[c].id \in UnusedIds => c = d
  PROVE  LedgerInv' /\ (Faithful(rows) => Faithful(rows)')
<1> USE DEF LedgerInv
<1>1. /\ \A id \in UnusedIds : id \in Nat /\ id # NoId
      /\ \A id \in UnusedIds, c \in Charges : bank[c].id # id
      /\ \A id \in UnusedIds, r \in DOMAIN rows : rows[r].id # id
  BY BankAssumption DEF UnusedIds, NoId
<1>2. Known \subseteq Charges /\ Known' \subseteq Charges BY DEF Known
<1>3. IngestTypeOK' BY DEF IngestTypeOK
<1>4. BankNames'
  <2> SUFFICES ASSUME NEW c \in Known'
               PROVE  /\ bank'[c].id # NoId
                      /\ bank'[c].description \in WordsOf[c]
                      /\ \A d \in Known' : bank'[c].id = bank'[d].id => c = d
    BY DEF BankNames
  <2>1. bank'[c].id # NoId BY <1>1 DEF BankNames
  <2>2. ASSUME NEW d \in Known', bank'[c].id = bank'[d].id PROVE c = d
    <3>1. CASE bank'[c].id \in UnusedIds BY <2>2, <3>1
    <3>2. CASE bank'[c].id \notin UnusedIds
      <4>1. c \in Known /\ bank'[c].id = bank[c].id BY <3>2
      <4>2. d \in Known /\ bank'[d].id = bank[d].id BY <2>2, <3>2
      <4> QED BY <2>2, <4>1, <4>2 DEF BankNames
    <3> QED BY <3>1, <3>2
  <2> QED BY <2>1, <2>2
<1>5. Unique(rows)' BY DEF Unique, Synced
<1>6. ASSUME Faithful(rows) PROVE Faithful(rows)'
  <2>1. Synced(rows)' = Synced(rows) BY DEF Synced
  <2>2. ASSUME NEW r \in Synced(rows), NEW d \in Known', rows[r].id = bank'[d].id,
               Unmistakable(rows[r].of)
        PROVE  rows[r].of = d
    <3>1. d \in Known /\ bank'[d].id = bank[d].id BY <1>1, <2>2 DEF Synced
    <3> QED BY <1>6, <2>2, <3>1 DEF Faithful
  <2>3. /\ \A r \in Synced(rows) : /\ {"amount", "description"} \cap rows[r].user = {}
                                   /\ ReadsAs(rows[r], rows[r].of)
        /\ \A r \in DOMAIN rows : rows[r].work # NoCharge /\ Unmistakable(rows[r].work)
                                    => rows[r].of = rows[r].work
    BY <1>6 DEF Faithful
  <2> QED BY <2>1, <2>2, <2>3 DEF Faithful, ReadsAs, Unmistakable
<1> QED BY <1>3, <1>4, <1>5, <1>6

LEMMA UnreportedIs ==
  ASSUME NEW phase \in {"unborn", "dropped"}
  PROVE  Unreported(phase) \in Report /\ Unreported(phase).phase = phase
<1>1. (CHOOSE d \in Days : TRUE) \in Days BY BankAssumption
<1>2. Absent \in Words BY DEF Words
<1>3. NoId \in 0..MaxId BY BankAssumption DEF NoId
<1> QED BY <1>1, <1>2, <1>3 DEF Unreported, Report

LEMMA InitInv == IngestInit => LedgerInv /\ Faithful(rows)
<1> SUFFICES ASSUME IngestInit PROVE LedgerInv /\ Faithful(rows) OBVIOUS
<1> USE DEF IngestInit
<1>1. Unreported("unborn") \in Report BY UnreportedIs
<1>2. bank \in [Charges -> Report] BY <1>1
<1>3. DOMAIN rows = {} /\ rows \in [DOMAIN rows -> Row] OBVIOUS
<1>4. Known = {} BY DEF Known, Unreported
<1>5. IngestTypeOK BY <1>2, <1>3 DEF IngestTypeOK
<1>6. Unique(rows) /\ Faithful(rows) BY <1>3 DEF Unique, Faithful, Synced
<1> QED BY <1>4, <1>5, <1>6 DEF LedgerInv, BankNames

\* One charge is said anew.
LEMMA SaidAnew ==
  ASSUME LedgerInv, NEW c \in Charges, NEW day \in Days, NEW words \in WordsOf[c],
         NEW phase \in {"pending", "posted"}, NEW id,
         id \in UnusedIds \/ (c \in Known /\ id = bank[c].id),
         bank' = [bank EXCEPT ![c] = [phase |-> phase, id |-> id,
                                      transacted_at |-> day, description |-> words]],
         UNCHANGED <<rows, remapped>>
  PROVE  LedgerInv' /\ (Faithful(rows) => Faithful(rows)')
<1> DEFINE said == [phase |-> phase, id |-> id, transacted_at |-> day, description |-> words]
<1> USE DEF LedgerInv
<1>1. words \in Words BY DEF Words
<1>2. id \in 0..MaxId BY BankAssumption DEF UnusedIds, IngestTypeOK, Report
<1>3. said \in Report BY <1>1, <1>2 DEF Report
<1>4. said.id = id /\ said.description = words /\ said.phase = phase OBVIOUS
<1> HIDE DEF said
<1>5. /\ bank' \in [Charges -> Report]
      /\ bank'[c] = said
      /\ \A d \in Charges : d # c => bank'[d] = bank[d]
  BY <1>3 DEF IngestTypeOK, said
<1>6. \A d \in Known' : d \in Charges /\ (d # c => d \in Known) BY <1>5 DEF Known
<1>7. \A d \in Charges : bank[d].id \notin UnusedIds BY DEF UnusedIds
<1>8. \A d \in Known' :
        /\ bank'[d].description \in WordsOf[d]
        /\ bank'[d].id \in UnusedIds \/ (d \in Known /\ bank'[d].id = bank[d].id)
  BY <1>4, <1>5, <1>6 DEF BankNames
<1>9. \A d, e \in Known' : bank'[d].id = bank'[e].id /\ bank'[d].id \in UnusedIds => d = e
  BY <1>5, <1>6, <1>7
<1>10. remapped' \in BOOLEAN BY DEF IngestTypeOK
<1> QED BY <1>5, <1>8, <1>9, <1>10, BankStep

LEMMA WithdrawInv ==
  ASSUME LedgerInv, NEW c \in Charges, Withdraw(c)
  PROVE  LedgerInv' /\ (Faithful(rows) => Faithful(rows)')
<1> USE DEF LedgerInv, Withdraw
<1> DEFINE said == Unreported("dropped")
<1>1. said \in Report /\ said.phase = "dropped" BY UnreportedIs
<1> HIDE DEF said
<1>2. /\ bank' \in [Charges -> Report]
      /\ bank'[c] = said
      /\ \A d \in Charges : d # c => bank'[d] = bank[d]
  BY <1>1 DEF IngestTypeOK, said
<1>3. \A d \in Known' : d \in Known /\ bank'[d] = bank[d] BY <1>1, <1>2 DEF Known
<1>4. \A d \in Known : bank[d].id \notin UnusedIds BY DEF UnusedIds, Known
<1>5. \A d \in Known' : bank'[d].description \in WordsOf[d] BY <1>3 DEF BankNames
<1>6. remapped' \in BOOLEAN /\ rows' = rows BY DEF IngestTypeOK
<1> QED BY <1>2, <1>3, <1>4, <1>5, <1>6, BankStep

LEMMA ReconnectInv ==
  ASSUME LedgerInv, NEW S \in SUBSET Known, Reconnect(S)
  PROVE  LedgerInv' /\ (Faithful(rows) => Faithful(rows)')
<1> USE DEF LedgerInv
<1> DEFINE Said(fresh) ==
      [c \in Charges |-> IF c \in S THEN [bank[c] EXCEPT !.id = fresh[c]] ELSE bank[c]]
<1>0. PICK ids \in FreshIds(Cardinality(S)) : \E fresh \in Bijection(S, ids) : bank' = Said(fresh)
  BY DEF Reconnect
<1>1. PICK fresh \in Bijection(S, ids) : bank' = Said(fresh) BY <1>0
<1>2. fresh \in [S -> ids] /\ \A a, b \in S : fresh[a] = fresh[b] => a = b
  BY DEF Bijection, Injection, IsInjective
<1>3. \A c \in S : fresh[c] \in UnusedIds /\ fresh[c] \in 0..MaxId
  BY <1>2, FreshIdsAreUnused, BankAssumption DEF UnusedIds
<1>4. Known \subseteq Charges /\ bank \in [Charges -> Report] BY DEF Known, IngestTypeOK
<1>5. ASSUME NEW c \in Charges
      PROVE  /\ bank'[c] \in Report /\ bank'[c].phase = bank[c].phase
             /\ bank'[c].description = bank[c].description
             /\ bank'[c].id = IF c \in S THEN fresh[c] ELSE bank[c].id
  <2>1. PICK report : report = bank[c] OBVIOUS
  <2>2. report \in Report BY <1>4, <2>1
  <2>3. CASE c \in S
    <3>1. bank'[c] = [report EXCEPT !.id = fresh[c]] BY <1>1, <2>1, <2>3
    <3> QED BY <1>3, <2>1, <2>2, <2>3, <3>1 DEF Report
  <2>4. CASE c \notin S BY <1>1, <2>1, <2>2, <2>4
  <2> QED BY <2>3, <2>4
<1>6. bank' \in [Charges -> Report] BY <1>1, <1>5
<1>7. Known' = Known BY <1>5 DEF Known
<1>8. \A c \in Known : bank[c].id \notin UnusedIds BY <1>4 DEF UnusedIds
<1>9. \A c \in Known' :
        /\ bank'[c].description \in WordsOf[c]
        /\ bank'[c].id \in UnusedIds \/ (c \in Known /\ bank'[c].id = bank[c].id)
  BY <1>3, <1>4, <1>5, <1>7 DEF BankNames
<1>10. \A c, d \in Known' : bank'[c].id = bank'[d].id /\ bank'[c].id \in UnusedIds => c = d
  <2> SUFFICES ASSUME NEW c \in Known, NEW d \in Known, bank'[c].id = bank'[d].id,
                      bank'[c].id \in UnusedIds
               PROVE  c = d
    BY <1>7
  <2>1. c \in S /\ d \in S BY <1>4, <1>5, <1>8
  <2> QED BY <1>2, <1>4, <1>5, <2>1
<1>11. remapped' \in BOOLEAN /\ rows' = rows BY DEF Reconnect
<1> QED BY <1>6, <1>9, <1>10, <1>11, BankStep

-----------------------------------------------------------------------------
(* The rows                                                                *)

\* The account after a step of its rows.
LEMMA RowsStep ==
  ASSUME LedgerInv, rows' \in Sound, DOMAIN rows' \subseteq 1..MaxRows,
         bank' = bank, remapped' \in BOOLEAN
  PROVE  LedgerInv'
<1>1. rows' \in [DOMAIN rows' -> Row] /\ Unique(rows')
  <2>1. rows' \in Books /\ Unique(rows') BY DEF Sound
  <2> QED BY <2>1, BooksAre
<1>2. IngestTypeOK' BY <1>1 DEF LedgerInv, IngestTypeOK
<1>3. Known' = Known BY DEF Known
<1>4. BankNames' BY <1>3 DEF LedgerInv, BankNames
<1>5. Unique(rows)' BY <1>1 DEF Unique, Synced
<1> QED BY <1>2, <1>4, <1>5 DEF LedgerInv

\* What is said of rows is said of the bank they are read with.
LEMMA FaithfulStays ==
  ASSUME bank' = bank, Faithful(rows')
  PROVE  Faithful(rows)'
<1>1. Known' = Known BY DEF Known
<1> QED BY <1>1 DEF Faithful, Synced, ReadsAs, Unmistakable

LEMMA SyncInv ==
  ASSUME LedgerInv, NEW order \in Payloads, Sync(order)
  PROVE  LedgerInv' /\ (Faithful(rows) => Faithful(rows)')
<1>1. remapped \in BOOLEAN BY DEF LedgerInv, IngestTypeOK
<1>2. PICK before, ids :
        /\ before \in Sound
        /\ Faithful(rows) => Faithful(before)
        /\ rows' = Expired(before, ids)
  BY <1>1, LandedIs DEF Sync
<1>3. rows' \in Sound BY <1>2, ExpiredIs
<1>4. LedgerInv' BY <1>3, RowsStep DEF Sync
<1>5. Faithful(rows) => Faithful(rows') BY <1>2, ExpiredFaithful
<1>6. Faithful(rows) => Faithful(rows)' BY <1>5, FaithfulStays DEF Sync
<1> QED BY <1>4, <1>6

LEMMA EnterRowInv ==
  ASSUME LedgerInv, NEW amount \in Amounts, NEW day \in Days, NEW words \in Words,
         NEW pending \in BOOLEAN, EnterRow(amount, day, words, pending)
  PROVE  LedgerInv' /\ (Faithful(rows) => Faithful(rows)')
<1>1. PICK row :
        /\ row = [id |-> NoId, amount |-> amount, transacted_at |-> day,
                  description |-> words, posted_at |-> ~pending,
                  is_pending |-> pending, since |-> "none",
                  user |-> Owned, notes |-> FALSE, of |-> NoCharge, work |-> NoCharge]
        /\ rows' = Inserted(rows, row)
  BY DEF EnterRow
<1>2. row \in Row BY <1>1, BankAssumption DEF Row, NoId
<1>3. row.id = NoId /\ row.work = NoCharge BY <1>1
<1>4. rows \in Books /\ Unique(rows) BY RowsAreABook DEF LedgerInv
<1>5. \A r \in Synced(rows) : rows[r].id # row.id BY <1>3 DEF Synced
<1>6. rows' \in Sound BY <1>1, <1>2, <1>4, <1>5, AddedIs DEF Sound
<1>7. PICK next :
      /\ next = rows'
      /\ DOMAIN next = DOMAIN rows \cup {FreshRow(rows)}
      /\ FreshRow(rows) \notin DOMAIN rows
      /\ next[FreshRow(rows)] = row
      /\ \A r \in DOMAIN rows : next[r] = rows[r]
  <2>1. PICK next : next = Inserted(rows, row) OBVIOUS
  <2>2. /\ DOMAIN next = DOMAIN rows \cup {FreshRow(rows)}
        /\ FreshRow(rows) \notin DOMAIN rows
        /\ next[FreshRow(rows)] = row
        /\ \A r \in DOMAIN rows : next[r] = rows[r]
    BY <1>2, <1>4, <2>1, InsertedIs, ZenonT(30)
  <2> QED BY <1>1, <2>1, <2>2
<1>8. FreshRow(rows) \in 1..MaxRows BY <1>4, BankAssumption, FreshRowIs DEF EnterRow
<1>9. DOMAIN rows' \subseteq 1..MaxRows BY <1>7, <1>8 DEF LedgerInv, IngestTypeOK
<1>10. bank' = bank /\ remapped' \in BOOLEAN BY DEF EnterRow, LedgerInv, IngestTypeOK
<1>11. LedgerInv' BY <1>6, <1>9, <1>10, RowsStep
<1>12. ASSUME Faithful(rows) PROVE Faithful(rows')
  <2>1. \A r \in Synced(rows') : r \in Synced(rows) /\ rows'[r] = rows[r]
    BY <1>3, <1>7 DEF Synced
  <2>2. \A r \in DOMAIN rows' : rows'[r].work = NoCharge \/ (r \in DOMAIN rows /\ rows'[r] = rows[r])
    BY <1>3, <1>7
  <2> QED BY <1>12, <2>1, <2>2 DEF Faithful
<1>13. Faithful(rows) => Faithful(rows)' BY <1>10, <1>12, FaithfulStays
<1> QED BY <1>11, <1>13

LEMMA EditedIs ==
  ASSUME NEW row \in Row, NEW field \in Owned \cup {"is_pending", "notes"},
         NEW value \in ValuesOf(field)
  PROVE  /\ Edited(row, field, value) \in Row
         /\ Edited(row, field, value).id = row.id
         /\ Edited(row, field, value).of = row.of
         /\ Edited(row, field, value).user = row.user \cup ({field} \cap Owned)
         /\ Edited(row, field, value).work = IF row.work = NoCharge THEN row.of ELSE row.work
         /\ field # "amount" => Edited(row, field, value).amount = row.amount
         /\ field # "description" => Edited(row, field, value).description = row.description
<1>1. Edited(row, field, value) \in Row BY DEF Row, Edited, ValuesOf
<1> QED BY <1>1 DEF Edited

LEMMA EditInv ==
  ASSUME LedgerInv, NEW r \in DOMAIN rows,
         NEW field \in Gestures \cap (Owned \cup {"is_pending", "notes"}),
         NEW value \in ValuesOf(field), Edit(r, field, value)
  PROVE  /\ LedgerInv'
         /\ field \notin {"amount", "description"} /\ Faithful(rows) => Faithful(rows)'
<1>1. rows \in Books /\ Unique(rows) BY RowsAreABook DEF LedgerInv
<1>2. /\ rows \in [DOMAIN rows -> Row]
      /\ DOMAIN rows \subseteq Nat \ {0}
      /\ IsFiniteSet(DOMAIN rows)
  BY <1>1, BooksAre
<1>3. PICK row : row = Edited(rows[r], field, value) OBVIOUS
<1>4. /\ row \in Row /\ row.id = rows[r].id /\ row.of = rows[r].of
      /\ row.user = rows[r].user \cup ({field} \cap Owned)
      /\ row.work = IF rows[r].work = NoCharge THEN rows[r].of ELSE rows[r].work
      /\ field # "amount" => row.amount = rows[r].amount
      /\ field # "description" => row.description = rows[r].description
  BY <1>2, <1>3, EditedIs
<1>5. /\ DOMAIN rows' = DOMAIN rows
      /\ rows' \in [DOMAIN rows -> Row]
      /\ \A q \in DOMAIN rows : rows'[q] = IF q = r THEN row ELSE rows[q]
  BY <1>2, <1>3, <1>4 DEF Edit
<1>6. Synced(rows') = Synced(rows) /\ \A q \in Synced(rows) : rows'[q].id = rows[q].id
  BY <1>4, <1>5 DEF Synced
<1>7. Unique(rows') BY <1>1, <1>6 DEF Unique
<1>8. rows' \in Sound BY <1>2, <1>5, <1>7, BooksAre DEF Sound
<1>9. bank' = bank /\ remapped' \in BOOLEAN /\ DOMAIN rows' \subseteq 1..MaxRows
  BY <1>5 DEF Edit, LedgerInv, IngestTypeOK
<1>10. LedgerInv' BY <1>8, <1>9, RowsStep
<1>11. ASSUME Faithful(rows), field \notin {"amount", "description"} PROVE Faithful(rows')
  <2>1. ASSUME NEW q \in Synced(rows)
        PROVE  /\ {"amount", "description"} \cap rows'[q].user = {}
               /\ ReadsAs(rows'[q], rows'[q].of)
               /\ \A d \in Known : rows'[q].id = bank[d].id /\ Unmistakable(rows'[q].of)
                                     => rows'[q].of = d
    <3>1. /\ {"amount", "description"} \cap rows[q].user = {}
          /\ ReadsAs(rows[q], rows[q].of)
          /\ \A d \in Known : rows[q].id = bank[d].id /\ Unmistakable(rows[q].of)
                                => rows[q].of = d
      BY <1>11 DEF Faithful
    <3>2. q \in DOMAIN rows BY DEF Synced
    <3>3. CASE q = r
      <4>1. rows'[q] = row BY <1>5, <3>2, <3>3
      <4>2. ReadsAs(row, row.of) BY <1>4, <1>11, <3>1, <3>3 DEF ReadsAs
      <4>3. {"amount", "description"} \cap row.user = {} BY <1>4, <1>11, <3>1, <3>3
      <4> QED BY <1>4, <3>1, <3>3, <4>1, <4>2, <4>3
    <3>4. CASE q # r
      <4>1. rows'[q] = rows[q] BY <1>5, <3>2, <3>4
      <4> QED BY <3>1, <4>1
    <3> QED BY <3>3, <3>4
  <2>2. ASSUME NEW q \in DOMAIN rows, rows'[q].work # NoCharge, Unmistakable(rows'[q].work)
        PROVE  rows'[q].of = rows'[q].work
    <3>1. rows[q].work # NoCharge /\ Unmistakable(rows[q].work) => rows[q].of = rows[q].work
      BY <1>11 DEF Faithful
    <3> QED BY <1>4, <1>5, <2>2, <3>1
  <2> QED BY <1>5, <1>6, <2>1, <2>2 DEF Faithful
<1>12. field \notin {"amount", "description"} /\ Faithful(rows) => Faithful(rows)'
  BY <1>9, <1>11, FaithfulStays
<1> QED BY <1>10, <1>12

LEMMA DeleteInv ==
  ASSUME LedgerInv, NEW r \in DOMAIN rows, Delete(r)
  PROVE  LedgerInv' /\ (Faithful(rows) => Faithful(rows)')
<1>1. rows \in Books /\ Unique(rows) BY RowsAreABook DEF LedgerInv
<1>2. /\ rows \in [DOMAIN rows -> Row]
      /\ DOMAIN rows \subseteq Nat \ {0}
      /\ IsFiniteSet(DOMAIN rows)
  BY <1>1, BooksAre
<1>3. /\ DOMAIN rows' = DOMAIN rows \ {r}
      /\ rows' \in [DOMAIN rows \ {r} -> Row]
      /\ \A q \in DOMAIN rows \ {r} : rows'[q] = rows[q]
  BY <1>2 DEF Delete
<1>4. IsFiniteSet(DOMAIN rows') BY <1>2, <1>3, FS_Subset
<1>5. \A q \in Synced(rows') : q \in Synced(rows) /\ rows'[q] = rows[q] BY <1>3 DEF Synced
<1>6. Unique(rows') BY <1>1, <1>5 DEF Unique
<1>7. rows' \in Sound BY <1>2, <1>3, <1>4, <1>6, BooksAre DEF Sound
<1>8. bank' = bank /\ remapped' \in BOOLEAN /\ DOMAIN rows' \subseteq 1..MaxRows
  BY <1>3 DEF Delete, LedgerInv, IngestTypeOK
<1>9. Faithful(rows) => Faithful(rows') BY <1>3, <1>5 DEF Faithful
<1>10. Faithful(rows) => Faithful(rows)' BY <1>8, <1>9, FaithfulStays
<1> QED BY <1>7, <1>8, <1>10, RowsStep

LEMMA AgeInv ==
  ASSUME LedgerInv, NEW r \in DOMAIN rows, Age(r)
  PROVE  LedgerInv' /\ (Faithful(rows) => Faithful(rows)')
<1>1. rows \in Books /\ Unique(rows) BY RowsAreABook DEF LedgerInv
<1>2. /\ rows \in [DOMAIN rows -> Row]
      /\ DOMAIN rows \subseteq Nat \ {0}
      /\ IsFiniteSet(DOMAIN rows)
  BY <1>1, BooksAre
<1>3. PICK old \in Row : old = rows[r] BY <1>2
<1>4. PICK row : row = [old EXCEPT !.since = "stale"] OBVIOUS
<1>5. /\ row \in Row /\ row.id = old.id /\ row.of = old.of /\ row.user = old.user
      /\ row.work = old.work /\ row.amount = old.amount /\ row.description = old.description
  BY <1>4 DEF Row
<1>6. /\ DOMAIN rows' = DOMAIN rows
      /\ rows' \in [DOMAIN rows -> Row]
      /\ \A q \in DOMAIN rows : rows'[q] = IF q = r THEN row ELSE rows[q]
  BY <1>2, <1>3, <1>4, <1>5 DEF Age
<1>7. \A q \in DOMAIN rows :
        /\ rows'[q].id = rows[q].id /\ rows'[q].of = rows[q].of
        /\ rows'[q].user = rows[q].user /\ rows'[q].work = rows[q].work
        /\ rows'[q].amount = rows[q].amount /\ rows'[q].description = rows[q].description
  BY <1>3, <1>5, <1>6
<1>8. Synced(rows') = Synced(rows) /\ Synced(rows) \subseteq DOMAIN rows
  BY <1>6, <1>7 DEF Synced
<1>9. Unique(rows') BY <1>1, <1>7, <1>8 DEF Unique
<1>10. rows' \in Sound BY <1>2, <1>6, <1>9, BooksAre DEF Sound
<1>11. bank' = bank /\ remapped' \in BOOLEAN /\ DOMAIN rows' \subseteq 1..MaxRows
  BY <1>6 DEF Age, LedgerInv, IngestTypeOK
<1>12. ASSUME Faithful(rows) PROVE Faithful(rows')
  <2>1. ASSUME NEW q \in Synced(rows)
        PROVE  /\ {"amount", "description"} \cap rows'[q].user = {}
               /\ ReadsAs(rows'[q], rows'[q].of)
               /\ \A d \in Known : rows'[q].id = bank[d].id /\ Unmistakable(rows'[q].of)
                                     => rows'[q].of = d
    <3>1. /\ {"amount", "description"} \cap rows[q].user = {}
          /\ ReadsAs(rows[q], rows[q].of)
          /\ \A d \in Known : rows[q].id = bank[d].id /\ Unmistakable(rows[q].of)
                                => rows[q].of = d
      BY <1>12 DEF Faithful
    <3>2. ReadsAs(rows'[q], rows'[q].of) BY <1>7, <1>8, <3>1 DEF ReadsAs
    <3> QED BY <1>7, <1>8, <3>1, <3>2
  <2>2. \A q \in DOMAIN rows : rows'[q].work # NoCharge /\ Unmistakable(rows'[q].work)
                                 => rows'[q].of = rows'[q].work
    BY <1>7, <1>12 DEF Faithful
  <2> QED BY <1>6, <1>8, <2>1, <2>2 DEF Faithful
<1>13. Faithful(rows) => Faithful(rows)' BY <1>11, <1>12, FaithfulStays
<1> QED BY <1>10, <1>11, <1>13, RowsStep

-----------------------------------------------------------------------------
(* The theorems                                                            *)

LEMMA NextInv ==
  ASSUME LedgerInv, [IngestNext]_ingestVars
  PROVE  /\ LedgerInv'
         /\ Gestures \cap {"amount", "description"} = {} /\ Faithful(rows) => Faithful(rows)'
<1>1. ASSUME NEW c \in Charges, NEW day \in Days, NEW words \in WordsOf[c],
             NEW phase \in {"pending", "posted"}, Appear(c, phase, day, words)
      PROVE  LedgerInv' /\ (Faithful(rows) => Faithful(rows)')
  <2>1. PICK ids \in FreshIds(1), id \in UnusedIds :
          bank' = [bank EXCEPT ![c] = [phase |-> phase, id |-> id,
                                       transacted_at |-> day, description |-> words]]
    BY <1>1, FreshIdsAreUnused DEF Appear
  <2> QED BY <1>1, <2>1, SaidAnew DEF Appear
<1>2. ASSUME NEW c \in Charges, NEW day \in Days, NEW words \in WordsOf[c], Post(c, day, words)
      PROVE  LedgerInv' /\ (Faithful(rows) => Faithful(rows)')
  <2>1. PICK id \in {bank[c].id} \cup UNION FreshIds(1) :
          bank' = [bank EXCEPT ![c] = [phase |-> "posted", id |-> id,
                                       transacted_at |-> day, description |-> words]]
    BY <1>2 DEF Post
  <2>2. id \in UnusedIds \/ (c \in Known /\ id = bank[c].id)
    BY <1>2, FreshIdsAreUnused DEF Post, Known
  <2> QED BY <1>2, <2>1, <2>2, SaidAnew DEF Post
<1>3. ASSUME NEW c \in Charges, Withdraw(c)
      PROVE  LedgerInv' /\ (Faithful(rows) => Faithful(rows)')
  BY <1>3, WithdrawInv
<1>4. ASSUME NEW S \in SUBSET Known, Reconnect(S)
      PROVE  LedgerInv' /\ (Faithful(rows) => Faithful(rows)')
  BY <1>4, ReconnectInv
<1>5. ASSUME NEW order \in Payloads, Sync(order)
      PROVE  LedgerInv' /\ (Faithful(rows) => Faithful(rows)')
  BY <1>5, SyncInv
<1>6. ASSUME NEW a \in Amounts, NEW day \in Days, NEW words \in Words, NEW p \in BOOLEAN,
             EnterRow(a, day, words, p)
      PROVE  LedgerInv' /\ (Faithful(rows) => Faithful(rows)')
  BY <1>6, EnterRowInv
<1>7. ASSUME NEW r \in DOMAIN rows, NEW field \in Gestures \cap (Owned \cup {"is_pending", "notes"}),
             NEW value \in ValuesOf(field), Edit(r, field, value)
      PROVE  /\ LedgerInv'
             /\ Gestures \cap {"amount", "description"} = {} /\ Faithful(rows) => Faithful(rows)'
  BY <1>7, EditInv
<1>8. ASSUME NEW r \in DOMAIN rows, Delete(r)
      PROVE  LedgerInv' /\ (Faithful(rows) => Faithful(rows)')
  BY <1>8, DeleteInv
<1>9. ASSUME NEW r \in DOMAIN rows, Age(r)
      PROVE  LedgerInv' /\ (Faithful(rows) => Faithful(rows)')
  BY <1>9, AgeInv
<1>10. CASE UNCHANGED ingestVars
  <2>1. bank' = bank /\ rows' = rows /\ remapped' = remapped BY <1>10 DEF ingestVars
  <2>2. rows \in Sound BY RowsAreABook DEF LedgerInv, Sound
  <2>3. LedgerInv' BY <2>1, <2>2, RowsStep DEF LedgerInv, IngestTypeOK
  <2> QED BY <2>1, <2>3, FaithfulStays
<1> QED BY <1>1, <1>2, <1>3, <1>4, <1>5, <1>6, <1>7, <1>8, <1>9, <1>10
        DEF IngestNext, Bank, PeopleEdit

\* An id is one charge's at the bank and one row's in the account.
THEOREM LedgerInductive == IngestSpec => []LedgerInv
<1> QED BY InitInv, NextInv, PTL DEF IngestSpec

\* As long as people leave a synced row's amount and words alone, it reads as the charge
\* it stands for, and what they said of one stays with it.
THEOREM WorkInductive ==
  ASSUME Gestures \cap {"amount", "description"} = {}
  PROVE  IngestSpec => []WorkInv
<1>1. IngestInit => WorkInv BY InitInv DEF WorkInv
<1>2. WorkInv /\ [IngestNext]_ingestVars => WorkInv' BY NextInv DEF WorkInv
<1> QED BY <1>1, <1>2, PTL DEF IngestSpec

LEMMA SyncKeeps ==
  ASSUME LedgerInv, NEW order \in Payloads, NEW after, after = Landed(rows, order, remapped),
         NEW r \in DOMAIN rows
  PROVE  /\ rows[r].id = NoId => r \in DOMAIN after /\ after[r] = rows[r]
         /\ rows[r].user # {} =>
              r \in DOMAIN after /\ \A f \in rows[r].user \ {"category"} : after[r][f] = rows[r][f]
<1>1. remapped \in BOOLEAN BY DEF LedgerInv, IngestTypeOK
<1>2. PICK before, ids :
        before \in Sound /\ Keeps(rows, before) /\ after = Expired(before, ids)
  BY <1>1, LandedIs
<1>3. /\ r \in DOMAIN before
      /\ rows[r].id = NoId => before[r] = rows[r]
      /\ before[r].user = rows[r].user
      /\ \A f \in rows[r].user \ {"category"} : before[r][f] = rows[r][f]
  BY <1>2 DEF Keeps
<1>4. /\ before[r].id = NoId \/ before[r].user # {} => r \in DOMAIN after
      /\ r \in DOMAIN after =>
           /\ before[r].id = NoId => after[r] = before[r]
           /\ \A f \in before[r].user \ {"category"} : after[r][f] = before[r][f]
  BY <1>2, <1>3, ExpiredIs
<1> QED BY <1>3, <1>4

LEMMA LedgerIsKept ==
  ASSUME LedgerInv
  PROVE  IdsAreUnique /\ ManualRowsUntouched /\ UserWorkKept
<1>1. IdsAreUnique
  <2> SUFFICES ASSUME NEW id \in 1..MaxId PROVE Cardinality(ById(rows, id)) <= 1
    BY DEF IdsAreUnique
  <2>1. \A q, r \in ById(rows, id) : q = r BY DEF ById, Unique, LedgerInv
  <2>2. ById(rows, id) = {} \/ \E q : ById(rows, id) = {q} BY <2>1
  <2>3. Cardinality(ById(rows, id)) \in {0, 1} BY <2>2, FS_EmptySet, FS_Singleton
  <2> QED BY <2>3
<1>2. ManualRowsUntouched
  <2> SUFFICES ASSUME NEW order \in Payloads, NEW r \in DOMAIN rows \ Synced(rows),
                      NEW after, after = Landed(rows, order, remapped)
               PROVE  r \in DOMAIN after /\ after[r] = rows[r]
    BY DEF ManualRowsUntouched, AfterAnySync
  <2>1. rows[r].id = NoId BY DEF Synced
  <2> QED BY <2>1, SyncKeeps
<1>3. UserWorkKept
  <2> SUFFICES ASSUME NEW order \in Payloads, NEW r \in DOMAIN rows, rows[r].user # {},
                      NEW after, after = Landed(rows, order, remapped)
               PROVE  /\ r \in DOMAIN after
                      /\ \A f \in rows[r].user \ {"category"} : after[r][f] = rows[r][f]
    BY DEF UserWorkKept, AfterAnySync
  <2> QED BY SyncKeeps
<1> QED BY <1>1, <1>2, <1>3

\* Whatever the bank reports and people edit: no id is on two rows, no sync touches a row
\* a person entered, removes one they set a field of, or changes what they set.
THEOREM WorkOutlivesSyncs == IngestSpec => [](IdsAreUnique /\ ManualRowsUntouched /\ UserWorkKept)
<1> QED BY LedgerInductive, LedgerIsKept, PTL

\* And unless they rewrite what the matchers read of it (amount and words), what they said
\* of a charge nothing can be mistaken for is never found on another.
THEOREM WorkIsKeptForAll ==
  ASSUME Gestures \cap {"amount", "description"} = {}
  PROVE  IngestSpec => []WorkIsKept
<1>1. WorkInv => WorkStaysWithItsCharge BY DEF WorkInv, Faithful, WorkStaysWithItsCharge
<1>2. WorkInv => WorkIsKept BY <1>1, LedgerIsKept DEF WorkInv, WorkIsKept
<1> QED BY <1>2, WorkInductive, PTL

-----------------------------------------------------------------------------
(* The daily rates                                                         *)

\* Between two fetched days of a pair every day has a rate.
Gapless ==
  \A p \in Pairs : \A a, b \in Fetched(p) : \A d \in a..b : table[<<p, d>>] # Null

\* Nothing is fetched ahead of time.
NotAhead == \A p \in Pairs : \A d \in Fetched(p) : d <= today

\* What was asked was read off the days held then; since then a person may have
\* stated some of them over, and filled others.
AskedOf(rates, p, want, on) ==
  \E held \in SUBSET (1..on) :
    /\ want.ranges = MissingRanges(want.first, held, on)
    /\ {d \in Dates : rates[<<p, d>>] = "auto"} \subseteq held
    /\ \A a, b \in held : \A d \in a..b : rates[<<p, d>>] # Null

Asking ==
  run # Null /\ run.asking # Null =>
    /\ run.phase = "fetch"
    /\ run.asking.on <= today
    /\ \A ccy \in DOMAIN run.asking.what :
         /\ ccy \in Foreign(run.asking.of)
         /\ AskedOf(table, <<start.base[run.asking.of], ccy>>, run.asking.what[ccy], run.asking.on)

\* A rate of the pair this row is converted by was written by the run under way.
Written(row) ==
  \E g \in Households : <<g, <<start.base[row.of], row.ccy>>>> \in run.wrote

\* While a run is under way, it has written what a row that is behind waits for.
Owed ==
  run # Null /\ run.phase \in {"fetch", "second"} /\ ~run.startup =>
    \A row \in Stale(table, cached) : row \in excused \/ Sideways(row) \/ Written(row)

RunShape == run \in FetchRun \union {Null}

RatesInv ==
  /\ RatesTypeOK
  /\ RunShape
  /\ Gapless
  /\ NotAhead
  /\ Asking
  /\ Owed
  /\ CachesFollowTheTable

-----------------------------------------------------------------------------
(* Least and greatest elements                                             *)

\* A set of days has a last one...
LEMMA MaxIsLast ==
  ASSUME NEW n \in Nat, NEW S \in SUBSET (0..n), S # {}
  PROVE  Max(S) \in S /\ \A y \in S : y <= Max(S)
  <1>1. \E z \in S : \A y \in S : z >= y
    BY GreatestOne
  <1>2. Max(S) \in S /\ \A y \in S : Max(S) >= y
    BY <1>1 DEF Max
  <1>3. QED
    BY <1>2

\* ... and a first one.
LEMMA MinIsFirst ==
  ASSUME NEW n \in Nat, NEW S \in SUBSET (0..n), S # {}
  PROVE  Min(S) \in S /\ \A y \in S : Min(S) <= y
  <1> DEFINE T == 0..n
             F == {0..k : k \in S}
  <1>1. IsFiniteSet(T)
    BY FS_Interval, 0 \in Int, n \in Int
  <1>2. F \in SUBSET (SUBSET T) /\ F # {}
    <2>1. \A k \in S : 0..k \in SUBSET T
      OBVIOUS
    <2>2. F \subseteq SUBSET T
      BY <2>1
    <2>3. F # {}
      OBVIOUS
    <2>4. QED
      BY <2>2, <2>3
  <1>3. PICK A \in F : \A B \in F : ~(B \subseteq A /\ B # A)
    <2> HIDE DEF F, T
    <2>1. F \in SUBSET (SUBSET T)
      BY <1>2
    <2>2. F # {}
      BY <1>2
    <2>3. QED
      BY <1>1, <2>1, <2>2, LeastMember
  <1>4. PICK x \in S : A = 0..x
    BY <1>3
  <1>5. ASSUME NEW y \in S PROVE x =< y
    <2> SUFFICES ASSUME y < x PROVE FALSE
      OBVIOUS
    <2>1. 0..y \in F /\ 0..y \subseteq A /\ x \in A /\ x \notin 0..y
      BY <1>4
    <2>2. QED
      BY <1>3, <2>1
  <1>6. \E z \in S : \A y \in S : z =< y
    BY <1>5
  <1>7. Min(S) \in S /\ \A y \in S : Min(S) =< y
    BY <1>6 DEF Min
  <1>8. QED
    BY <1>7

-----------------------------------------------------------------------------
(* Conversion                                                              *)

\* The two pairs a row can be converted by, as its household states them.
To(row)   == <<row.ccy, start.base[row.of]>>
From(row) == <<start.base[row.of], row.ccy>>
IsRow(row) == row \in [of : Households, ccy : Currencies, day : Dates] /\ row.ccy \in Foreign(row.of)

\* A row's two pairs are two, and its day one rates are for.
LEMMA RowPairs ==
  ASSUME start \in Starts, NEW row, IsRow(row)
  PROVE  To(row) \in Pairs /\ From(row) \in Pairs /\ To(row) # From(row) /\ row.day \in Dates
  BY StartsAssumption DEF IsRow, To, From, Foreign, Pairs

\* The latest rate on or before a day is one, and none on or before is later.
LEMMA LatestIsLatest ==
  ASSUME NEW rates, NEW pair, NEW day \in Dates
  PROVE  /\ Latest(rates, pair, day) \in 0..day
         /\ Latest(rates, pair, day) # 0 => rates[<<pair, Latest(rates, pair, day)>>] # Null
         /\ \A d \in 1..day : rates[<<pair, d>>] # Null => d <= Latest(rates, pair, day)
  <1> DEFINE S == {0} \union {d \in 1..day : rates[<<pair, d>>] # Null}
  <1>1. day \in Nat
    BY StartsAssumption DEF Dates
  <1>2. S \in SUBSET (0..day) /\ S # {}
    BY <1>1
  <1>3. Max(S) \in S /\ \A y \in S : y <= Max(S)
    <2> HIDE DEF S
    <2> QED
      BY <1>1, <1>2, MaxIsLast
  <1>4. Latest(rates, pair, day) = Max(S)
    BY DEF Latest
  <1>5. QED
    BY <1>1, <1>3, <1>4

\* What a row is converted at is the later of the two, the direct one on a tie.
LEMMA ConvertedAt ==
  ASSUME NEW rates \in [Rates -> {Null, "auto", "user"}], start \in Starts, NEW row, IsRow(row)
  PROVE  LET direct == Latest(rates, To(row), row.day)
             inverse == Latest(rates, From(row), row.day)
         IN /\ direct = 0 /\ inverse = 0 => Converted(rates, row) = Null
            /\ direct # 0 /\ direct >= inverse =>
                 Converted(rates, row) = <<To(row), direct, rates[<<To(row), direct>>]>>
            /\ inverse # 0 /\ ~(direct >= inverse) =>
                 Converted(rates, row) = <<From(row), inverse, rates[<<From(row), inverse>>]>>
            /\ direct \in Dates \union {0} /\ inverse \in Dates \union {0}
            /\ direct # 0 => rates[<<To(row), direct>>] \in {"auto", "user"}
            /\ inverse # 0 => rates[<<From(row), inverse>>] \in {"auto", "user"}
  <1> DEFINE direct == Latest(rates, To(row), row.day)
             inverse == Latest(rates, From(row), row.day)
  <1>1. To(row) \in Pairs /\ From(row) \in Pairs /\ row.day \in Dates
    BY RowPairs
  <1>2. direct \in 0..row.day /\ (direct # 0 => rates[<<To(row), direct>>] # Null)
    BY <1>1, LatestIsLatest
  <1>3. inverse \in 0..row.day /\ (inverse # 0 => rates[<<From(row), inverse>>] # Null)
    BY <1>1, LatestIsLatest
  <1>4. Converted(rates, row) =
          IF direct = 0 /\ inverse = 0 THEN Null
          ELSE IF direct >= inverse THEN <<To(row), direct, rates[<<To(row), direct>>]>>
          ELSE <<From(row), inverse, rates[<<From(row), inverse>>]>>
    BY DEF Converted, To, From
  <1> HIDE DEF direct, inverse
  <1>5. direct \in Dates \union {0} /\ inverse \in Dates \union {0}
    BY <1>1, <1>2, <1>3, StartsAssumption DEF Dates
  <1>6. /\ direct # 0 => rates[<<To(row), direct>>] \in {"auto", "user"}
        /\ inverse # 0 => rates[<<From(row), inverse>>] \in {"auto", "user"}
    BY <1>1, <1>2, <1>3, <1>5 DEF Rates
  <1>7. /\ direct = 0 /\ inverse = 0 => Converted(rates, row) = Null
        /\ direct # 0 /\ direct >= inverse =>
             Converted(rates, row) = <<To(row), direct, rates[<<To(row), direct>>]>>
        /\ inverse # 0 /\ ~(direct >= inverse) =>
             Converted(rates, row) = <<From(row), inverse, rates[<<From(row), inverse>>]>>
    BY <1>4
  <1>8. QED
    BY <1>5, <1>6, <1>7 DEF direct, inverse

\* Whatever the rates, a conversion is of one that was stated, or none.
LEMMA ConvertedType ==
  ASSUME NEW rates \in [Rates -> {Null, "auto", "user"}], start \in Starts, NEW row, IsRow(row)
  PROVE  Converted(rates, row) \in Conversions
  <1> DEFINE direct == Latest(rates, To(row), row.day)
             inverse == Latest(rates, From(row), row.day)
  <1>1. To(row) \in Pairs /\ From(row) \in Pairs
    BY RowPairs
  <1>2. direct \in Dates \union {0} /\ inverse \in Dates \union {0}
    BY ConvertedAt
  <1>3. CASE direct = 0 /\ inverse = 0
    BY <1>3, ConvertedAt DEF Conversions
  <1>4. CASE direct # 0 /\ direct >= inverse
    <2>1. Converted(rates, row) = <<To(row), direct, rates[<<To(row), direct>>]>>
      BY <1>4, ConvertedAt
    <2>2. rates[<<To(row), direct>>] \in {"auto", "user"}
      BY <1>4, ConvertedAt
    <2> HIDE DEF direct
    <2>3. QED
      BY <1>1, <1>2, <1>4, <2>1, <2>2 DEF Conversions
  <1>5. CASE inverse # 0 /\ ~(direct >= inverse)
    <2>1. Converted(rates, row) = <<From(row), inverse, rates[<<From(row), inverse>>]>>
      BY <1>5, ConvertedAt
    <2>2. rates[<<From(row), inverse>>] \in {"auto", "user"}
      BY <1>5, ConvertedAt
    <2> HIDE DEF inverse
    <2>3. QED
      BY <1>1, <1>2, <1>5, <2>1, <2>2 DEF Conversions
  <1> HIDE DEF direct, inverse
  <1>6. QED
    BY <1>2, <1>3, <1>4, <1>5, StartsAssumption DEF Dates

\* Rates are only added, by the source.
OnlyAdds(old, new) == \A r \in Rates : new[r] = old[r] \/ (old[r] = Null /\ new[r] = "auto")

\* A conversion stays, or moves to an added rate.
Moves(old, new, row) ==
  \/ Converted(new, row) = Converted(old, row)
  \/ \E pair \in {To(row), From(row)}, d \in Dates :
       /\ Converted(new, row) = <<pair, d, "auto">>
       /\ old[<<pair, d>>] = Null /\ new[<<pair, d>>] = "auto"

\* Rates that are only added move a conversion to one of them, or not at all.
LEMMA ConvertedAfter ==
  ASSUME NEW old \in [Rates -> {Null, "auto", "user"}], NEW new \in [Rates -> {Null, "auto", "user"}],
         OnlyAdds(old, new), start \in Starts, NEW row, IsRow(row)
  PROVE  Moves(old, new, row)
  <1> DEFINE L(rates, p) == Latest(rates, p, row.day)
  <1>1. To(row) \in Pairs /\ From(row) \in Pairs /\ row.day \in Dates
    BY RowPairs
  <1>2. ASSUME NEW p \in Pairs
        PROVE  /\ L(old, p) \in Dates \union {0} /\ L(new, p) \in Dates \union {0}
               /\ L(old, p) <= L(new, p)
               /\ L(new, p) # L(old, p) => old[<<p, L(new, p)>>] = Null /\ new[<<p, L(new, p)>>] = "auto"
               /\ L(new, p) = L(old, p) /\ L(new, p) # 0 => new[<<p, L(new, p)>>] = old[<<p, L(new, p)>>]
    <2>1. /\ L(old, p) \in 0..row.day
          /\ L(old, p) # 0 => old[<<p, L(old, p)>>] # Null
          /\ \A d \in 1..row.day : old[<<p, d>>] # Null => d <= L(old, p)
      BY <1>1, LatestIsLatest
    <2>2. /\ L(new, p) \in 0..row.day
          /\ L(new, p) # 0 => new[<<p, L(new, p)>>] # Null
          /\ \A d \in 1..row.day : new[<<p, d>>] # Null => d <= L(new, p)
      BY <1>1, LatestIsLatest
    <2> HIDE DEF L
    <2>3. \A d \in 1..row.day :
            /\ <<p, d>> \in Rates
            /\ new[<<p, d>>] = old[<<p, d>>] \/ (old[<<p, d>>] = Null /\ new[<<p, d>>] = "auto")
      BY <1>1, StartsAssumption DEF Rates, Dates, OnlyAdds
    <2>4. row.day \in Nat /\ \A d \in 0..row.day : d \in Dates \union {0}
      BY <1>1, StartsAssumption DEF Dates
    <2>5. L(old, p) <= L(new, p)
      <3>1. CASE L(old, p) = 0
        BY <2>2, <2>4, <3>1
      <3>2. CASE L(old, p) # 0
        <4>1. L(old, p) \in 1..row.day /\ new[<<p, L(old, p)>>] # Null
          BY <2>1, <2>3, <2>4, <3>2, NullIsNoRate
        <4>2. QED
          BY <2>2, <4>1
      <3>3. QED
        BY <3>1, <3>2
    <2>6. ASSUME L(new, p) # L(old, p)
          PROVE  old[<<p, L(new, p)>>] = Null /\ new[<<p, L(new, p)>>] = "auto"
      <3>1. L(new, p) \in 1..row.day
        BY <2>1, <2>2, <2>4, <2>5, <2>6
      <3>2. old[<<p, L(new, p)>>] = Null
        BY <2>1, <2>2, <2>4, <2>5, <2>6, <3>1
      <3>3. QED
        BY <2>2, <2>3, <3>1, <3>2
    <2>7. ASSUME L(new, p) = L(old, p), L(new, p) # 0
          PROVE  new[<<p, L(new, p)>>] = old[<<p, L(new, p)>>]
      <3>1. L(new, p) \in 1..row.day
        BY <2>2, <2>4, <2>7
      <3>2. QED
        BY <2>1, <2>3, <2>7, <3>1
    <2>8. QED
      BY <2>1, <2>2, <2>4, <2>5, <2>6, <2>7
  <1> DEFINE dNew == L(new, To(row))
             iNew == L(new, From(row))
             dOld == L(old, To(row))
             iOld == L(old, From(row))
  <1>3. /\ dNew \in Nat /\ iNew \in Nat /\ dOld \in Nat /\ iOld \in Nat
        /\ dOld <= dNew /\ iOld <= iNew
        /\ dNew \in Dates \union {0} /\ iNew \in Dates \union {0}
    <2>1. \A p \in Pairs : L(old, p) \in Dates \union {0} /\ L(new, p) \in Dates \union {0} /\ L(old, p) <= L(new, p)
      BY <1>2
    <2> HIDE DEF L
    <2>2. Dates \union {0} \subseteq Nat
      BY StartsAssumption DEF Dates
    <2>3. QED
      BY <1>1, <2>1, <2>2
  <1>4. /\ dNew = 0 /\ iNew = 0 => Converted(new, row) = Null
        /\ dNew # 0 /\ dNew >= iNew => Converted(new, row) = <<To(row), dNew, new[<<To(row), dNew>>]>>
        /\ iNew # 0 /\ ~(dNew >= iNew) => Converted(new, row) = <<From(row), iNew, new[<<From(row), iNew>>]>>
    BY ConvertedAt
  <1>5. /\ dOld = 0 /\ iOld = 0 => Converted(old, row) = Null
        /\ dOld # 0 /\ dOld >= iOld => Converted(old, row) = <<To(row), dOld, old[<<To(row), dOld>>]>>
        /\ iOld # 0 /\ ~(dOld >= iOld) => Converted(old, row) = <<From(row), iOld, old[<<From(row), iOld>>]>>
    BY ConvertedAt
  <1>6. /\ dNew # dOld => old[<<To(row), dNew>>] = Null /\ new[<<To(row), dNew>>] = "auto"
        /\ dNew = dOld /\ dNew # 0 => new[<<To(row), dNew>>] = old[<<To(row), dNew>>]
    BY <1>1, <1>2
  <1>7. /\ iNew # iOld => old[<<From(row), iNew>>] = Null /\ new[<<From(row), iNew>>] = "auto"
        /\ iNew = iOld /\ iNew # 0 => new[<<From(row), iNew>>] = old[<<From(row), iNew>>]
    BY <1>1, <1>2
  <1> HIDE DEF dNew, iNew, dOld, iOld
  <1>8. CASE dNew = 0 /\ iNew = 0
    BY <1>3, <1>4, <1>5, <1>8 DEF Moves
  <1>9. CASE dNew # 0 /\ dNew >= iNew
    <2>1. CASE dNew = dOld
      <3>1. dOld # 0 /\ dOld >= iOld
        BY <1>3, <1>9, <2>1
      <3>2. QED
        BY <1>4, <1>5, <1>6, <1>9, <2>1, <3>1 DEF Moves
    <2>2. CASE dNew # dOld
      BY <1>3, <1>4, <1>6, <1>9, <2>2 DEF Moves
    <2>3. QED
      BY <2>1, <2>2
  <1>10. CASE iNew # 0 /\ ~(dNew >= iNew)
    <2>1. CASE iNew = iOld
      <3>1. iOld # 0 /\ ~(dOld >= iOld)
        BY <1>3, <1>10, <2>1
      <3>2. QED
        BY <1>4, <1>5, <1>7, <1>10, <2>1, <3>1 DEF Moves
    <2>2. CASE iNew # iOld
      BY <1>3, <1>4, <1>7, <1>10, <2>2 DEF Moves
    <2>3. QED
      BY <2>1, <2>2
  <1>11. QED
    BY <1>3, <1>8, <1>9, <1>10

\* A conversion reads the household's base and the rates, nothing else.
LEMMA ConvertedPrimed ==
  ASSUME start' = start, NEW row
  PROVE  /\ Converted(table, row)' = Converted(table', row)
         /\ Sideways(row)' <=> LET at == Converted(table', row) IN
                                  at # Null /\ at[1] = To(row) /\ at[3] = "auto"
         /\ Sideways(row) <=> LET at == Converted(table, row) IN
                                  at # Null /\ at[1] = To(row) /\ at[3] = "auto"
  BY DEF Converted, Latest, Sideways, To

-----------------------------------------------------------------------------
(* What is asked for                                                       *)

\* Days are numbers.
LEMMA DatesAreNat == Dates \subseteq Nat
  BY StartsAssumption DEF Dates

\* The first day a household needs a currency is one of its rows' days.
LEMMA FirstIsFirst ==
  ASSUME RatesTypeOK, NEW h \in Households, NEW ccy \in Needed(h)
  PROVE  FirstNeeded(h, ccy) \in Dates /\ ccy \in Foreign(h)
  <1> DEFINE S == {row.day : row \in {r \in DOMAIN cached : r.of = h /\ r.ccy = ccy}}
  <1>1. \A row \in DOMAIN cached : row.day \in Dates /\ row.ccy \in Foreign(row.of)
    BY DEF RatesTypeOK
  <1>2. PICK row \in DOMAIN cached : row.of = h /\ row.ccy = ccy
    BY DEF Needed
  <1>3. S \in SUBSET (0..LastDay) /\ S # {} /\ S \subseteq Dates
    BY <1>1, <1>2, StartsAssumption DEF Dates
  <1>4. LastDay \in Nat
    BY StartsAssumption
  <1>5. Min(S) \in S
    <2> HIDE DEF S
    <2> QED
      BY <1>3, <1>4, MinIsFirst
  <1>6. FirstNeeded(h, ccy) = Min(S)
    BY DEF FirstNeeded
  <1>7. QED
    BY <1>1, <1>2, <1>3, <1>5, <1>6

\* The days from one to another, and a set of days up to one: as operators, so that
\* the lemmas about them can be cited of any sequence of ranges.
Span(a, b) == a..b
Within(held, on) == held \in SUBSET (1..on)

\* A sequence of one range...
LEMMA OneRange ==
  ASSUME NEW T, NEW A \in T
  PROVE  <<A>> \in Seq(T) /\ DOMAIN <<A>> = {1} /\ <<A>>[1] = A
  OBVIOUS

\* ... and of two.
LEMMA TwoRanges ==
  ASSUME NEW T, NEW A \in T, NEW B \in T
  PROVE  LET two == <<A>> \o <<B>> IN
         two \in Seq(T) /\ DOMAIN two = {1, 2} /\ two[1] = A /\ two[2] = B
  <1> DEFINE a == <<A>>
             b == <<B>>
  <1>1. a \in Seq(T) /\ b \in Seq(T) /\ Len(a) = 1 /\ Len(b) = 1 /\ a[1] = A /\ b[1] = B
    OBVIOUS
  <1> HIDE DEF a, b
  <1>2. a \o b \in Seq(T) /\ Len(a \o b) = Len(a) + Len(b)
        /\ \A i \in 1..(Len(a) + Len(b)) : (a \o b)[i] = IF i <= Len(a) THEN a[i] ELSE b[i - Len(a)]
    BY <1>1, ConcatProperties
  <1>3. (a \o b)[1] = A
    BY <1>1, <1>2
  <1>4. (a \o b)[2] = B
    BY <1>1, <1>2
  <1>5. DOMAIN (a \o b) = {1, 2}
    BY <1>1, <1>2
  <1>6. QED
    BY <1>2, <1>3, <1>4, <1>5 DEF a, b

\* ... and of none.
LEMMA NoRange ==
  ASSUME NEW T
  PROVE  << >> \in Seq(T) /\ DOMAIN << >> = {}
  OBVIOUS

\* Nothing is held: all of it is asked for.
LEMMA RangesOfNothing ==
  ASSUME NEW first \in Dates, NEW on \in Dates, NEW ranges, ranges = MissingRanges(first, {}, on)
  PROVE  /\ ranges \in Seq(SUBSET (1..on))
         /\ \A i \in DOMAIN ranges : ranges[i] = Span(first, on)
         /\ first <= on => \E i \in DOMAIN ranges : ranges[i] = Span(first, on)
  <1> DEFINE all == Span(first, on)
             T == SUBSET (1..on)
  <1>1. all \in T
    BY DatesAreNat DEF Dates, Span
  <1>2. ranges = IF first <= on THEN <<all>> ELSE << >>
    BY DEF MissingRanges, Span
  <1> HIDE DEF all, T
  <1>3. /\ ranges \in Seq(T)
        /\ \A i \in DOMAIN ranges : ranges[i] = all
        /\ first <= on => \E i \in DOMAIN ranges : ranges[i] = all
    <2>1. CASE first <= on
      <3>1. ranges = <<all>>
        BY <1>2, <2>1
      <3>2. ranges \in Seq(T) /\ DOMAIN ranges = {1} /\ ranges[1] = all
        BY <1>1, <3>1, OneRange
      <3>3. QED
        BY <3>2
    <2>2. CASE ~(first <= on)
      <3>1. ranges = << >>
        BY <1>2, <2>2
      <3>2. ranges \in Seq(T) /\ DOMAIN ranges = {}
        BY <3>1, NoRange
      <3>3. QED
        BY <2>2, <3>2
    <2>3. QED
      BY <2>1, <2>2
  <1>4. QED
    BY <1>3 DEF all, T

\* What lies before the held days, and what lies after them.
AroundHeld(ranges, first, held, on) ==
  /\ Min(held) \in held /\ Max(held) \in held
  /\ \A y \in held : Min(held) <= y /\ y <= Max(held)
  /\ ranges \in Seq(SUBSET (1..on))
  /\ \A i \in DOMAIN ranges :
       ranges[i] = Span(first, Min(held) - 1) \/ ranges[i] = Span(Max(held) + 1, on)
  /\ first < Min(held) => \E i \in DOMAIN ranges : ranges[i] = Span(first, Min(held) - 1)
  /\ Max(held) < on => \E i \in DOMAIN ranges : ranges[i] = Span(Max(held) + 1, on)

\* Something is held: what is asked for lies around it.
LEMMA RangesOfHeld ==
  ASSUME NEW first \in Dates, NEW on \in Dates, NEW held, Within(held, on), held # {}
  PROVE  AroundHeld(MissingRanges(first, held, on), first, held, on)
  <1> DEFINE ranges == MissingRanges(first, held, on)
  <1>1. on \in Nat /\ first \in Nat /\ 1 <= first
    BY DatesAreNat DEF Dates
  <1>2. held \in SUBSET (0..on) /\ held \in SUBSET (1..on)
    BY <1>1 DEF Within
  <1>3. Min(held) \in held /\ \A y \in held : Min(held) <= y
    BY <1>1, <1>2, MinIsFirst
  <1>4. Max(held) \in held /\ \A y \in held : y <= Max(held)
    BY <1>1, <1>2, MaxIsLast
  <1>5. Min(held) \in 1..on /\ Max(held) \in 1..on
    BY <1>2, <1>3, <1>4
  <1> DEFINE before == Span(first, Min(held) - 1)
             after == Span(Max(held) + 1, on)
             T == SUBSET (1..on)
  <1>6. before \in T /\ after \in T
    BY <1>1, <1>5 DEF Span
  <1>7. ranges = (IF first < Min(held) THEN <<before>> ELSE << >>)
                   \o (IF Max(held) < on THEN <<after>> ELSE << >>)
    BY DEF MissingRanges, Span
  <1> HIDE DEF before, after, T, ranges
  <1>8. /\ ranges \in Seq(T)
        /\ \A i \in DOMAIN ranges : ranges[i] = before \/ ranges[i] = after
        /\ first < Min(held) => \E i \in DOMAIN ranges : ranges[i] = before
        /\ Max(held) < on => \E i \in DOMAIN ranges : ranges[i] = after
    <2>1. CASE first < Min(held) /\ Max(held) < on
      <3>1. ranges = <<before>> \o <<after>>
        BY <1>7, <2>1
      <3>2. ranges \in Seq(T) /\ DOMAIN ranges = {1, 2} /\ ranges[1] = before /\ ranges[2] = after
        BY <1>6, <3>1, TwoRanges
      <3>3. QED
        BY <3>2
    <2>2. CASE first < Min(held) /\ ~(Max(held) < on)
      <3>1. ranges = <<before>> \o << >>
        BY <1>7, <2>2
      <3>2. ranges = <<before>>
        BY <3>1
      <3>3. ranges \in Seq(T) /\ DOMAIN ranges = {1} /\ ranges[1] = before
        BY <1>6, <3>2, OneRange
      <3>4. QED
        BY <2>2, <3>3
    <2>3. CASE ~(first < Min(held)) /\ Max(held) < on
      <3>1. ranges = << >> \o <<after>>
        BY <1>7, <2>3
      <3>2. ranges = <<after>>
        BY <3>1
      <3>3. ranges \in Seq(T) /\ DOMAIN ranges = {1} /\ ranges[1] = after
        BY <1>6, <3>2, OneRange
      <3>4. QED
        BY <2>3, <3>3
    <2>4. CASE ~(first < Min(held)) /\ ~(Max(held) < on)
      <3>1. ranges = << >> \o << >>
        BY <1>7, <2>4
      <3>2. ranges = << >>
        BY <3>1
      <3>3. ranges \in Seq(T) /\ DOMAIN ranges = {}
        BY <3>2, NoRange
      <3>4. QED
        BY <2>4, <3>3
    <2>5. QED
      BY <2>1, <2>2, <2>3, <2>4
  <1>9. QED
    BY <1>3, <1>4, <1>8 DEF before, after, T, ranges, AroundHeld

\* Every day that is not between two that are held is asked for.
LEMMA TheRestIsAskedFor ==
  ASSUME NEW first \in Dates, NEW on \in Dates, NEW held, Within(held, on),
         NEW ranges, ranges = MissingRanges(first, held, on),
         NEW d \in first..on, \A a, b \in held : d \notin a..b
  PROVE  \E i \in DOMAIN ranges : d \in ranges[i]
  <1>1. first \in Nat /\ on \in Nat
    BY DatesAreNat
  <1>2. CASE held = {}
    <2>1. first <= on
      BY <1>1
    <2>2. ranges = MissingRanges(first, {}, on)
      BY <1>2
    <2>3. \E i \in DOMAIN ranges : ranges[i] = Span(first, on)
      BY <2>1, <2>2, RangesOfNothing
    <2>4. QED
      BY <1>1, <2>3 DEF Span
  <1>3. CASE held # {}
    <2>1. AroundHeld(ranges, first, held, on)
      BY <1>3, RangesOfHeld
    <2>2. Min(held) \in held /\ Max(held) \in held
      BY <2>1 DEF AroundHeld
    <2>3. first < Min(held) => \E i \in DOMAIN ranges : ranges[i] = Span(first, Min(held) - 1)
      BY <2>1 DEF AroundHeld
    <2>4. Max(held) < on => \E i \in DOMAIN ranges : ranges[i] = Span(Max(held) + 1, on)
      BY <2>1 DEF AroundHeld
    <2>5. Min(held) \in Nat /\ Max(held) \in Nat
      <3>1. held \subseteq Nat
        BY <1>1 DEF Within
      <3>2. QED
        BY <2>2, <3>1
    <2>6. d \notin Min(held)..Max(held)
      BY <2>2
    <2>7. CASE d < Min(held)
      <3>1. PICK i \in DOMAIN ranges : ranges[i] = Span(first, Min(held) - 1)
        BY <1>1, <2>3, <2>5, <2>7
      <3>2. d \in Span(first, Min(held) - 1)
        BY <1>1, <2>5, <2>7 DEF Span
      <3>3. QED
        BY <3>1, <3>2
    <2>8. CASE d > Max(held)
      <3>1. PICK i \in DOMAIN ranges : ranges[i] = Span(Max(held) + 1, on)
        BY <1>1, <2>4, <2>5, <2>8
      <3>2. d \in Span(Max(held) + 1, on)
        BY <1>1, <2>5, <2>8 DEF Span
      <3>3. QED
        BY <3>1, <3>2
    <2>9. QED
      BY <1>1, <2>5, <2>6, <2>7, <2>8
  <1>4. QED
    BY <1>2, <1>3

\* Asking at the edges reaches every day a household needs, as there is no gap.
THEOREM EdgesReach ==
  ASSUME RatesTypeOK, Gapless, NotAhead
  PROVE  NoDayIsForgotten
  <1> SUFFICES ASSUME NEW h \in Households, NEW ccy \in Needed(h), NEW d \in FirstNeeded(h, ccy)..today,
                      table[<<<<start.base[h], ccy>>, d>>] = Null,
                      NEW ranges, ranges = Missing(h)[ccy].ranges
               PROVE  \E i \in DOMAIN ranges : d \in ranges[i]
    BY DEF NoDayIsForgotten
  <1>1. FirstNeeded(h, ccy) \in Dates /\ ccy \in Foreign(h) /\ today \in Dates
    BY FirstIsFirst DEF RatesTypeOK
  <1>2. PICK p \in Pairs : p = <<start.base[h], ccy>>
    BY <1>1, StartsAssumption DEF RatesTypeOK, Foreign, Pairs
  <1>3. PICK held : held = Fetched(p)
    OBVIOUS
  <1>4. Within(held, today)
    BY <1>1, <1>2, <1>3, StartsAssumption DEF NotAhead, Fetched, Dates, Within
  <1>5. ranges = MissingRanges(FirstNeeded(h, ccy), held, today)
    BY <1>2, <1>3 DEF Missing
  <1>6. \A a, b \in held : d \notin a..b
    BY <1>2, <1>3 DEF Gapless
  <1>7. QED
    BY <1>1, <1>4, <1>5, <1>6, TheRestIsAskedFor

-----------------------------------------------------------------------------
(* A run's answer leaves no gap                                            *)

\* The days of the first so many ranges.
FirstOf(ranges, k) == UNION {ranges[i] : i \in 1..k}

\* Between what is held and what is got lies more of both.
Closes(held, got, on) ==
  /\ got \subseteq 1..on
  /\ \A a, b \in held \union got : \A d \in a..b : d \in got \/ \E x, y \in held : d \in x..y

\* However many of its requests are answered, what was asked closes on what is held.
LEMMA NoNewGap ==
  ASSUME NEW first \in Dates, NEW on \in Dates, NEW held, Within(held, on),
         NEW k \in Nat, k <= Len(MissingRanges(first, held, on))
  PROVE  Closes(held, FirstOf(MissingRanges(first, held, on), k), on)
  <1> DEFINE ranges == MissingRanges(first, held, on)
             got == FirstOf(ranges, k)
  <1>1. on \in Nat /\ first \in Nat /\ 1 <= first
    BY DatesAreNat DEF Dates
  <1>2. held \subseteq 1..on
    BY DEF Within
  <1>3. CASE held = {}
    <2>1. /\ ranges \in Seq(SUBSET (1..on))
          /\ \A i \in DOMAIN ranges : ranges[i] = Span(first, on)
      BY <1>3, RangesOfNothing
    <2>2. k <= Len(ranges)
      OBVIOUS
    <2> HIDE DEF ranges
    <2>3. \A i \in 1..k : ranges[i] = Span(first, on)
      BY <2>1, <2>2
    <2>4. got = {} \/ got = Span(first, on)
      BY <2>3 DEF FirstOf
    <2> HIDE DEF got
    <2>5. got \subseteq 1..on
      BY <1>1, <2>4 DEF Span
    <2>6. ASSUME NEW a \in held \union got, NEW b \in held \union got, NEW d \in a..b
          PROVE  d \in got
      <3>1. a \in first..on /\ b \in first..on /\ got = Span(first, on)
        BY <1>3, <2>4 DEF Span
      <3>2. d \in first..on
        BY <1>1, <3>1
      <3>3. QED
        BY <3>1, <3>2 DEF Span
    <2>7. QED
      BY <2>5, <2>6 DEF Closes, got, ranges
  <1>4. CASE held # {}
    <2>1. AroundHeld(ranges, first, held, on)
      BY <1>4, RangesOfHeld
    <2>2. k <= Len(ranges)
      OBVIOUS
    <2> HIDE DEF ranges
    <2>3. PICK lo \in held : lo = Min(held)
      BY <2>1 DEF AroundHeld
    <2>4. PICK hi \in held : hi = Max(held)
      BY <2>1 DEF AroundHeld
    <2>5. lo \in 1..on /\ hi \in 1..on /\ \A y \in held : y \in lo..hi
      BY <1>1, <1>2, <2>1, <2>3, <2>4 DEF AroundHeld
    <2>6. \A i \in 1..k : ranges[i] = Span(first, lo - 1) \/ ranges[i] = Span(hi + 1, on)
      <3>1. ranges \in Seq(SUBSET (1..on))
        BY <2>1 DEF AroundHeld
      <3>2. 1..k \subseteq DOMAIN ranges
        BY <2>2, <3>1
      <3>3. QED
        BY <2>1, <2>3, <2>4, <3>2 DEF AroundHeld
    <2>7. got = UNION {ranges[i] : i \in 1..k}
      BY DEF FirstOf
    <2> HIDE DEF got
    <2>8. got \subseteq Span(first, lo - 1) \union Span(hi + 1, on)
      BY <2>6, <2>7
    <2>9. got \subseteq 1..on
      BY <1>1, <2>5, <2>8 DEF Span
    <2>10. ASSUME NEW x \in got, x < lo
           PROVE  Span(first, lo - 1) \subseteq got
      <3>1. PICK i \in 1..k : x \in ranges[i]
        BY <2>7, <2>10
      <3>2. x \notin Span(hi + 1, on)
        BY <1>1, <2>3, <2>5, <2>10 DEF Span
      <3>3. ranges[i] = Span(first, lo - 1)
        BY <2>6, <3>1, <3>2
      <3>4. QED
        BY <2>7, <3>3
    <2>11. ASSUME NEW x \in got, x > hi
           PROVE  Span(hi + 1, on) \subseteq got
      <3>1. PICK i \in 1..k : x \in ranges[i]
        BY <2>7, <2>11
      <3>2. x \notin Span(first, lo - 1)
        BY <1>1, <2>4, <2>5, <2>11 DEF Span
      <3>3. ranges[i] = Span(hi + 1, on)
        BY <2>6, <3>1, <3>2
      <3>4. QED
        BY <2>7, <3>3
    <2>12. ASSUME NEW a \in held \union got, NEW b \in held \union got, NEW d \in a..b
           PROVE  d \in got \/ \E x, y \in held : d \in x..y
      <3>1. a \in 1..on /\ b \in 1..on
        BY <1>2, <2>9
      <3>2. CASE d < lo
        <4>1. a < lo /\ a \in got
          BY <1>1, <2>5, <3>1, <3>2
        <4>2. a \in Span(first, lo - 1)
          <5>1. a \in Span(first, lo - 1) \/ a \in Span(hi + 1, on)
            BY <2>8, <4>1
          <5>2. a \notin Span(hi + 1, on)
            BY <1>1, <2>3, <2>5, <3>1, <4>1 DEF Span
          <5>3. QED
            BY <5>1, <5>2
        <4>3. d \in Span(first, lo - 1)
          BY <1>1, <2>5, <3>1, <3>2, <4>2 DEF Span
        <4>4. QED
          BY <2>10, <4>1, <4>3
      <3>3. CASE d > hi
        <4>1. b > hi /\ b \in got
          BY <1>1, <2>5, <3>1, <3>3
        <4>2. d \in Span(hi + 1, on)
          BY <1>1, <2>5, <3>1, <3>3 DEF Span
        <4>3. QED
          BY <2>11, <4>1, <4>2
      <3>4. CASE ~(d < lo) /\ ~(d > hi)
        <4>1. d \in lo..hi
          BY <1>1, <2>5, <3>1, <3>4
        <4>2. QED
          BY <2>3, <2>4, <4>1
      <3>5. QED
        BY <3>2, <3>3, <3>4
    <2>13. QED
      BY <2>9, <2>12 DEF Closes, got, ranges
  <1>5. QED
    BY <1>3, <1>4

\* What a household asked for, and the rates an answer brings.
Got(q, answered, ccy) == FirstOf(q.what[ccy].ranges, answered[ccy])
Late(q, published) == IF published THEN {} ELSE {q.on}
Brought(q, answered, published) ==
  UNION {{<<<<start.base[q.of], ccy>>, d>> : d \in Got(q, answered, ccy) \ Late(q, published)} :
           ccy \in DOMAIN q.what}

\* What a run under way has asked is a question.
LEMMA QuestionShape ==
  ASSUME RunShape, run # Null, run.asking # Null
  PROVE  /\ run \in FetchRun /\ run.asking \in Question
         /\ run.asking.of \in Households /\ run.asking.on \in Dates
         /\ \A ccy \in DOMAIN run.asking.what :
              /\ run.asking.what[ccy].first \in Dates
              /\ run.asking.what[ccy].ranges \in Seq(SUBSET Dates)
  <1>1. run \in FetchRun /\ run.asking \in Question
    BY DEF RunShape, FetchRun
  <1>2. run.asking.of \in Households /\ run.asking.on \in Dates
    BY <1>1 DEF Question
  <1>3. PICK S \in SUBSET Currencies : run.asking.what \in [S -> Wanted]
    BY <1>1 DEF Question
  <1>4. \A ccy \in DOMAIN run.asking.what : run.asking.what[ccy] \in Wanted
    BY <1>3
  <1>5. QED
    BY <1>1, <1>2, <1>4 DEF Wanted

\* The pair of every currency asked for.
LEMMA AskedPair ==
  ASSUME RatesTypeOK, RunShape, Asking, run # Null, run.asking # Null, NEW ccy \in DOMAIN run.asking.what
  PROVE  <<start.base[run.asking.of], ccy>> \in Pairs
  <1>1. ccy \in Foreign(run.asking.of) /\ run.asking.of \in Households
    BY QuestionShape DEF Asking
  <1>2. QED
    BY <1>1, StartsAssumption DEF Foreign, RatesTypeOK, Pairs

\* For each currency: the days answered are asked, and close on what is held.
LEMMA GotCloses ==
  ASSUME RatesTypeOK, RunShape, Asking, run # Null, run.asking # Null, NEW q, q = run.asking,
         NEW answered \in [DOMAIN q.what -> 0..2],
         \A c \in DOMAIN q.what : answered[c] <= Len(q.what[c].ranges),
         NEW ccy \in DOMAIN q.what, NEW p \in Pairs, p = <<start.base[q.of], ccy>>,
         NEW got, got = Got(q, answered, ccy)
  PROVE  /\ got \subseteq 1..q.on
         /\ Fetched(p) \subseteq 1..q.on
         /\ \A a, b \in Fetched(p) \union got : \A d \in a..b : d \in got \/ table[<<p, d>>] # Null
  <1>1. /\ q.on \in Dates /\ q.what[ccy].first \in Dates
        /\ q.what[ccy].ranges \in Seq(SUBSET Dates)
    BY QuestionShape
  <1>2. PICK held \in SUBSET (1..q.on) :
          /\ q.what[ccy].ranges = MissingRanges(q.what[ccy].first, held, q.on)
          /\ Fetched(p) \subseteq held
          /\ \A a, b \in held : \A d \in a..b : table[<<p, d>>] # Null
    BY DEF Asking, AskedOf, Fetched
  <1>3. Within(held, q.on)
    BY DEF Within
  <1>4. PICK first \in Dates : first = q.what[ccy].first
    BY <1>1
  <1>5. PICK on \in Dates : on = q.on
    BY <1>1
  <1>6. PICK k \in Nat : k = answered[ccy]
    OBVIOUS
  <1>7. Closes(held, FirstOf(MissingRanges(first, held, on), k), on)
    <2>1. k <= Len(MissingRanges(first, held, on))
      BY <1>2, <1>4, <1>5, <1>6
    <2>2. QED
      BY <1>3, <1>5, <2>1, NoNewGap
  <1>8. Closes(held, got, on)
    BY <1>2, <1>4, <1>5, <1>6, <1>7 DEF Got
  <1>9. got \subseteq 1..on
    BY <1>8 DEF Closes
  <1>10. ASSUME NEW a \in held \union got, NEW b \in held \union got, NEW d \in a..b
         PROVE  d \in got \/ table[<<p, d>>] # Null
    <2>1. d \in got \/ \E x, y \in held : d \in x..y
      BY <1>8 DEF Closes
    <2>2. QED
      BY <1>2, <2>1
  <1>11. Fetched(p) \subseteq 1..q.on
    BY <1>2
  <1>12. \A a, b \in Fetched(p) \union got : \A d \in a..b : d \in got \/ table[<<p, d>>] # Null
    <2> SUFFICES ASSUME NEW a \in Fetched(p) \union got, NEW b \in Fetched(p) \union got, NEW d \in a..b
                 PROVE  d \in got \/ table[<<p, d>>] # Null
      OBVIOUS
    <2>1. a \in held \union got /\ b \in held \union got
      BY <1>2
    <2>2. QED
      BY <1>10, <2>1
  <1>13. QED
    BY <1>5, <1>9, <1>11, <1>12

\* What an answer does to the table.
LEMMA Fills ==
  ASSUME RatesInv, run # Null, run.asking # Null, NEW q, q = run.asking,
         NEW answered \in [DOMAIN q.what -> 0..2],
         \A c \in DOMAIN q.what : answered[c] <= Len(q.what[c].ranges),
         NEW published \in BOOLEAN, Answer(answered, published),
         NEW late, late = Late(q, published)
  PROVE  /\ table' \in [Rates -> {Null, "auto", "user"}]
         /\ \A r \in Rates : table'[r] = table[r] \/ (table[r] = Null /\ table'[r] = "auto")
         /\ \A ccy \in DOMAIN q.what : \A d \in Got(q, answered, ccy) \ late :
              table'[<<<<start.base[q.of], ccy>>, d>>] # Null
         /\ \A r \in Rates : table'[r] # table[r] =>
              \E ccy \in DOMAIN q.what :
                r[1] = <<start.base[q.of], ccy>> /\ r[2] \in Got(q, answered, ccy) \ late
         /\ \A r \in Rates : table'[r] # table[r] => <<q.of, r[1]>> \in
              run.wrote \union {<<q.of, x[1]>> : x \in Unfilled(Brought(q, answered, published))}
  <1> DEFINE new == Unfilled(Brought(q, answered, published))
  <1>1. table' = [r \in Rates |-> IF r \in new THEN "auto" ELSE table[r]]
    BY DEF Answer, Brought, Got, FirstOf, Late
  <1>2. table \in [Rates -> {Null, "auto", "user"}]
    BY DEF RatesInv, RatesTypeOK
  <1>3. \A r \in new : table[r] = Null
    BY DEF Unfilled
  <1>4. \A r \in new : \E ccy \in DOMAIN q.what :
          r[1] = <<start.base[q.of], ccy>> /\ r[2] \in Got(q, answered, ccy) \ late
    <2>1. \A r \in Brought(q, answered, published) : \E ccy \in DOMAIN q.what :
            r[1] = <<start.base[q.of], ccy>> /\ r[2] \in Got(q, answered, ccy) \ late
      BY DEF Brought
    <2>2. QED
      BY <2>1 DEF Unfilled
  <1>5. \A ccy \in DOMAIN q.what : \A d \in Got(q, answered, ccy) \ late :
          <<<<start.base[q.of], ccy>>, d>> \in Brought(q, answered, published)
    BY DEF Brought
  <1>6. \A ccy \in DOMAIN q.what : \A d \in Got(q, answered, ccy) :
          <<<<start.base[q.of], ccy>>, d>> \in Rates
    <2> SUFFICES ASSUME NEW ccy \in DOMAIN q.what, NEW d \in Got(q, answered, ccy)
                 PROVE  <<<<start.base[q.of], ccy>>, d>> \in Rates
      OBVIOUS
    <2>1. PICK p \in Pairs : p = <<start.base[q.of], ccy>>
      BY AskedPair DEF RatesInv
    <2>2. Got(q, answered, ccy) \subseteq 1..q.on /\ q.on \in Dates
      BY <2>1, GotCloses, QuestionShape DEF RatesInv
    <2>3. d \in Dates
      BY <2>2, StartsAssumption DEF Dates
    <2>4. QED
      BY <2>1, <2>3 DEF Rates
  <1>7. ASSUME NEW ccy \in DOMAIN q.what, NEW d \in Got(q, answered, ccy) \ late
        PROVE  table'[<<<<start.base[q.of], ccy>>, d>>] # Null
    <2>1. PICK r \in Rates : r = <<<<start.base[q.of], ccy>>, d>>
      BY <1>6
    <2>2. r \in new \/ table[r] # Null
      BY <1>5, <2>1 DEF Unfilled
    <2> HIDE DEF new
    <2>3. table'[r] # Null
      BY <1>1, <2>2, NullIsNoRate
    <2>4. QED
      BY <2>1, <2>3
  <1> HIDE DEF new
  <1>8. \A r \in Rates : table'[r] # table[r] => r \in new
    BY <1>1
  <1>9. \A r \in Rates : table'[r] = table[r] \/ (table[r] = Null /\ table'[r] = "auto")
    BY <1>1, <1>3
  <1>10. table' \in [Rates -> {Null, "auto", "user"}]
    BY <1>1, <1>2
  <1>11. QED
    BY <1>4, <1>7, <1>8, <1>9, <1>10 DEF new

\* An answer leaves no gap: the day the source has not published yet is the last.
LEMMA AnswerLeavesNoGap ==
  ASSUME RatesInv, run # Null, run.asking # Null, NEW q, q = run.asking,
         NEW answered \in [DOMAIN q.what -> 0..2],
         \A c \in DOMAIN q.what : answered[c] <= Len(q.what[c].ranges),
         NEW published \in BOOLEAN, Answer(answered, published)
  PROVE  Gapless' /\ NotAhead'
  <1>1. PICK late : late = Late(q, published)
    OBVIOUS
  <1>2. /\ \A r \in Rates : table'[r] = table[r] \/ (table[r] = Null /\ table'[r] = "auto")
        /\ \A ccy \in DOMAIN q.what : \A d \in Got(q, answered, ccy) \ late :
             table'[<<<<start.base[q.of], ccy>>, d>>] # Null
        /\ \A r \in Rates : table'[r] # table[r] =>
             \E ccy \in DOMAIN q.what :
               r[1] = <<start.base[q.of], ccy>> /\ r[2] \in Got(q, answered, ccy) \ late
    BY <1>1, Fills
  <1>3. Gapless /\ NotAhead /\ q.on \in Dates /\ q.on <= today /\ today' = today /\ today \in Dates
    BY QuestionShape DEF RatesInv, Asking, Answer, RatesTypeOK
  <1>4. ASSUME NEW p \in Pairs, NEW d \in Dates
        PROVE  table'[<<p, d>>] = table[<<p, d>>]
                 \/ (table[<<p, d>>] = Null /\ table'[<<p, d>>] = "auto")
    BY <1>2 DEF Rates
  <1>5. ASSUME NEW p \in Pairs, \A ccy \in DOMAIN q.what : p # <<start.base[q.of], ccy>>
        PROVE  \A d \in Dates : table'[<<p, d>>] = table[<<p, d>>]
    <2> SUFFICES ASSUME NEW d \in Dates, table'[<<p, d>>] # table[<<p, d>>] PROVE FALSE
      OBVIOUS
    <2>1. <<p, d>> \in Rates /\ <<p, d>>[1] = p
      BY DEF Rates
    <2>2. QED
      BY <1>2, <1>5, <2>1
  <1>6. ASSUME NEW p \in Pairs, NEW ccy \in DOMAIN q.what, p = <<start.base[q.of], ccy>>
        PROVE  /\ \A d \in Fetched(p)' : d \in Fetched(p) \/ d \in Got(q, answered, ccy) \ late
               /\ Got(q, answered, ccy) \subseteq 1..q.on
               /\ Fetched(p) \subseteq 1..q.on
               /\ \A a, b \in Fetched(p) \union Got(q, answered, ccy) : \A d \in a..b :
                    d \in Got(q, answered, ccy) \/ table[<<p, d>>] # Null
    <2>1. PICK got : got = Got(q, answered, ccy)
      OBVIOUS
    <2>2. /\ got \subseteq 1..q.on
          /\ Fetched(p) \subseteq 1..q.on
          /\ \A a, b \in Fetched(p) \union got : \A d \in a..b : d \in got \/ table[<<p, d>>] # Null
      BY <1>6, <2>1, GotCloses DEF RatesInv
    <2>3. ASSUME NEW d \in Fetched(p)'
          PROVE  d \in Fetched(p) \/ d \in Got(q, answered, ccy) \ late
      <3>1. d \in Dates /\ table'[<<p, d>>] = "auto" /\ <<p, d>> \in Rates
        BY DEF Fetched, Rates
      <3>2. CASE table[<<p, d>>] = "auto"
        BY <3>1, <3>2 DEF Fetched
      <3>3. CASE table[<<p, d>>] # "auto"
        <4>1. PICK c \in DOMAIN q.what :
                <<p, d>>[1] = <<start.base[q.of], c>> /\ <<p, d>>[2] \in Got(q, answered, c) \ late
          BY <1>2, <3>1, <3>3
        <4>2. c = ccy
          BY <1>6, <4>1
        <4>3. QED
          BY <4>1, <4>2
      <3>4. QED
        BY <3>2, <3>3
    <2>4. QED
      BY <2>1, <2>2, <2>3
  <1>7. ASSUME NEW p \in Pairs, NEW a \in Fetched(p)', NEW b \in Fetched(p)', NEW d \in a..b
        PROVE  table'[<<p, d>>] # Null /\ a <= today
    <2>1. a \in Dates /\ b \in Dates /\ d \in Dates
      <3>1. a \in Dates /\ b \in Dates
        BY DEF Fetched
      <3>2. QED
        BY <3>1, StartsAssumption DEF Dates
    <2>2. CASE \A ccy \in DOMAIN q.what : p # <<start.base[q.of], ccy>>
      <3>1. a \in Fetched(p) /\ b \in Fetched(p)
        BY <1>5, <2>1, <2>2 DEF Fetched
      <3>2. table[<<p, d>>] # Null /\ a <= today
        BY <1>3, <3>1 DEF Gapless, NotAhead
      <3>3. QED
        BY <1>5, <2>1, <2>2, <3>2
    <2>3. ASSUME NEW ccy \in DOMAIN q.what, p = <<start.base[q.of], ccy>>
          PROVE  table'[<<p, d>>] # Null /\ a <= today
      <3>1. PICK got : got = Got(q, answered, ccy)
        OBVIOUS
      <3>2. /\ a \in Fetched(p) \/ a \in got \ late
            /\ b \in Fetched(p) \/ b \in got \ late
            /\ got \subseteq 1..q.on /\ Fetched(p) \subseteq 1..q.on
            /\ d \in got \/ table[<<p, d>>] # Null
        BY <1>6, <2>3, <3>1
      <3>3. a <= today
        <4>1. a \in 1..q.on
          BY <3>2
        <4>2. q.on \in Nat /\ today \in Nat
          BY <1>3, DatesAreNat
        <4>3. QED
          BY <1>3, <4>1, <4>2
      <3>4. CASE table[<<p, d>>] # Null
        BY <1>4, <2>1, <3>3, <3>4
      <3>5. CASE d \in got \ late
        BY <1>2, <2>3, <3>1, <3>3, <3>5
      <3>6. CASE d \in late
        <4>1. d = q.on
          BY <1>1, <3>6 DEF Late
        <4>2. b = d
          BY <1>3, <2>1, <3>2, <4>1, DatesAreNat
        <4>3. table[<<p, d>>] = "auto"
          BY <3>2, <3>6, <4>2 DEF Fetched
        <4>4. QED
          BY <1>4, <2>1, <3>3, <4>3, NullIsNoRate
      <3>7. QED
        BY <3>2, <3>4, <3>5, <3>6
    <2>4. QED
      BY <2>2, <2>3
  <1>8. Gapless'
    BY <1>7 DEF Gapless
  <1>9. NotAhead'
    <2> SUFFICES ASSUME NEW p \in Pairs, NEW a \in Fetched(p)' PROVE a <= today
      BY <1>3 DEF NotAhead
    <2>1. a \in a..a
      BY DatesAreNat DEF Fetched
    <2>2. QED
      BY <1>7, <2>1
  <1>10. QED
    BY <1>8, <1>9

-----------------------------------------------------------------------------
(* A run and what it owes                                                  *)

\* The runs a handler sets up are runs.
LEMMA RunTypes ==
  /\ \A startup \in BOOLEAN : Begun(startup) \in FetchRun
  /\ Everyone \in FetchRun
  /\ Null \notin FetchRun
  BY NullIsNoRate DEF Begun, Everyone, FetchRun

\* A household is done with: the run goes on to the next, to its next pass, or ends.
LEMMA WhatComesAfter ==
  ASSUME NEW r \in FetchRun, r.asking = Null
  PROVE  /\ After(r) \in FetchRun \union {Null}
         /\ After(r) # Null => After(r).asking = Null
         /\ r.left # {} => After(r) = r
         /\ r.left = {} /\ r.phase = "fetch" =>
              /\ After(r) # Null
              /\ After(r).phase = "second" /\ After(r).left = Households
              /\ After(r).wrote = r.wrote /\ After(r).startup = r.startup
         /\ r.left = {} /\ r.phase = "second" /\ r.startup => After(r) = Everyone
         /\ r.left = {} /\ r.phase # "fetch" /\ ~(r.phase = "second" /\ r.startup) => After(r) = Null
  <1> DEFINE next == [r EXCEPT !.phase = "second", !.left = Households]
  <1>1. /\ next \in FetchRun /\ next.asking = Null /\ next.phase = "second"
        /\ next.left = Households /\ next.wrote = r.wrote /\ next.startup = r.startup
    BY DEF FetchRun
  <1>2. Everyone \in FetchRun /\ Everyone.asking = Null
    BY RunTypes DEF Everyone
  <1>3. After(r) = IF r.left # {} THEN r
                   ELSE IF r.phase = "fetch" THEN next
                   ELSE IF r.phase = "second" /\ r.startup THEN Everyone
                   ELSE Null
    BY DEF After
  <1> HIDE DEF next
  <1>4. next # Null /\ r # Null
    BY <1>1, RunTypes
  <1>5. QED
    BY <1>1, <1>2, <1>3, <1>4

\* A row that is behind after a step, by the table and the caches the step leaves.
LEMMA StalePrimed ==
  ASSUME start' = start, NEW row
  PROVE  row \in Stale(table, cached)' <=> row \in DOMAIN cached' /\ cached'[row] # Converted(table', row)
  BY ConvertedPrimed DEF Stale

\* A row whose cache and conversion a step leaves was behind before it, and is
\* sideways if it was.
LEMMA StaleBefore ==
  ASSUME start' = start, NEW row \in Stale(table, cached)', row \in DOMAIN cached,
         cached'[row] = cached[row], Converted(table', row) = Converted(table, row)
  PROVE  row \in Stale(table, cached) /\ (Sideways(row) => Sideways(row)')
  <1>1. cached[row] # Converted(table, row)
    BY StalePrimed
  <1>2. row \in Stale(table, cached)
    BY <1>1 DEF Stale
  <1>3. Sideways(row) => Sideways(row)'
    BY ConvertedPrimed
  <1>4. QED
    BY <1>2, <1>3

\* A cached row is a row of its household, and in a foreign currency.
LEMMA RowsAreRows ==
  ASSUME RatesTypeOK, NEW row \in DOMAIN cached
  PROVE  IsRow(row) /\ row.of \in Households /\ row.day \in Dates /\ cached[row] \in Conversions
  BY DEF RatesTypeOK, IsRow

\* What a recompute leaves: its household's rows at the table, the others alone.
LEMMA Recomputing ==
  ASSUME NEW rates, NEW h, NEW caches, caches = Recomputed(rates, h)
  PROVE  /\ DOMAIN caches = DOMAIN cached
         /\ \A row \in DOMAIN cached :
              caches[row] = IF row.of = h THEN Converted(rates, row) ELSE cached[row]
  BY DEF Recomputed

\* The parts of the type invariant a step that leaves the caches keeps.
LEMMA KeptType ==
  ASSUME RatesInv, start' = start, table' = table, cached' = cached, today' = today,
         excused' = excused, RunShape'
  PROVE  RatesTypeOK'
  <1>1. run' # Null =>
          run'.phase \in {"fetch", "second", "all"} /\ run'.left \subseteq Households
            /\ run'.wrote \subseteq Households \X Pairs
    BY DEF RunShape, FetchRun
  <1>2. \A of : Foreign(of)' = Foreign(of)
    BY DEF Foreign
  <1>3. QED
    BY <1>1, <1>2 DEF RatesInv, RatesTypeOK

-----------------------------------------------------------------------------
(* The worker's steps                                                      *)

\* Who leaves the table alone leaves no gap.
LEMMA TableKept ==
  ASSUME RatesInv, table' = table, today' = today
  PROVE  Gapless' /\ NotAhead'
  BY DEF RatesInv, Gapless, NotAhead, Fetched

\* A run begins: whatever is behind without it is excused, or converted sideways.
LEMMA Begins ==
  ASSUME RatesInv, NEW startup \in BOOLEAN, run' = Begun(startup), Idle \/ startup,
         UNCHANGED <<start, table, cached, today, excused>>
  PROVE  RatesInv'
  <1>1. RunShape'
    BY RunTypes DEF RunShape
  <1>2. RatesTypeOK' /\ Gapless' /\ NotAhead'
    BY <1>1, KeptType, TableKept
  <1>3. /\ run' # Null /\ run'.phase = "fetch" /\ run'.asking = Null /\ run'.startup = startup
    BY RunTypes DEF Begun
  <1>4. Asking'
    BY <1>3 DEF Asking
  <1>5. CachesFollowTheTable'
    BY <1>3 DEF CachesFollowTheTable, Awaited
  <1>6. Owed'
    <2> SUFFICES ASSUME ~startup, NEW row \in Stale(table, cached)'
                 PROVE  row \in excused' \/ Sideways(row)'
      BY <1>3 DEF Owed
    <2>1. row \in DOMAIN cached /\ cached'[row] = cached[row] /\ Converted(table', row) = Converted(table, row)
      BY StalePrimed
    <2>2. row \in Stale(table, cached) /\ (Sideways(row) => Sideways(row)')
      BY <2>1, StaleBefore
    <2>3. ~Awaited(row.of)
      BY DEF Idle, Awaited
    <2>4. row \in excused \/ Sideways(row)
      BY <2>2, <2>3 DEF RatesInv, CachesFollowTheTable
    <2>5. QED
      BY <2>2, <2>4
  <1>7. QED
    BY <1>1, <1>2, <1>4, <1>5, <1>6 DEF RatesInv
\* A step that leaves the table and the caches and excuses no less, within a run
\* that has written no less, leaves what the run owes.
LEMMA StillOwed ==
  ASSUME RatesInv, run # Null, run' # Null, start' = start, table' = table, cached' = cached,
         excused' = excused, run.phase \in {"fetch", "second"}, run.startup = run'.startup,
         run.wrote \subseteq run'.wrote
  PROVE  Owed'
  <1> SUFFICES ASSUME ~run'.startup, NEW row \in Stale(table, cached)'
               PROVE  row \in excused' \/ Sideways(row)' \/ Written(row)'
    BY DEF Owed
  <1>1. row \in DOMAIN cached /\ cached'[row] = cached[row] /\ Converted(table', row) = Converted(table, row)
    BY StalePrimed
  <1>2. row \in Stale(table, cached) /\ (Sideways(row) => Sideways(row)')
    BY <1>1, StaleBefore
  <1>3. row \in excused \/ Sideways(row) \/ Written(row)
    BY <1>2 DEF RatesInv, Owed
  <1>4. Written(row) => Written(row)'
    BY DEF Written
  <1>5. QED
    BY <1>2, <1>3, <1>4

\* What a household sets out with is a question.
LEMMA MissingIsWanted ==
  ASSUME RatesInv, NEW h \in Households
  PROVE  /\ \E S \in SUBSET Currencies : Missing(h) \in [S -> Wanted]
         /\ \A ccy \in DOMAIN Missing(h) :
              /\ ccy \in Foreign(h)
              /\ AskedOf(table, <<start.base[h], ccy>>, Missing(h)[ccy], today)
  <1>1. RatesTypeOK /\ Gapless /\ NotAhead /\ today \in Dates
    BY DEF RatesInv, RatesTypeOK
  <1>2. \A on \in Dates : 1..on \subseteq Dates
    BY StartsAssumption DEF Dates
  <1>3. ASSUME NEW ccy \in Needed(h), NEW p \in Pairs, p = <<start.base[h], ccy>>
        PROVE  /\ Fetched(p) \in SUBSET (1..today)
               /\ MissingRanges(FirstNeeded(h, ccy), Fetched(p), today) \in Seq(SUBSET Dates)
    <2>1. PICK held : held = Fetched(p)
      OBVIOUS
    <2>2. Within(held, today)
      BY <1>1, <2>1, StartsAssumption DEF NotAhead, Fetched, Dates, Within
    <2>3. PICK first \in Dates : first = FirstNeeded(h, ccy)
      BY <1>1, FirstIsFirst
    <2>4. PICK ranges : ranges = MissingRanges(first, held, today)
      OBVIOUS
    <2>5. ranges \in Seq(SUBSET (1..today))
      <3>1. CASE held = {}
        <4>1. ranges = MissingRanges(first, {}, today)
          BY <2>4, <3>1
        <4>2. QED
          BY <1>1, <4>1, RangesOfNothing
      <3>2. CASE held # {}
        <4>1. AroundHeld(MissingRanges(first, held, today), first, held, today)
          BY <1>1, <2>2, <3>2, RangesOfHeld
        <4>2. QED
          BY <2>4, <4>1 DEF AroundHeld
      <3>3. QED
        BY <3>1, <3>2
    <2>6. ranges \in Seq(SUBSET Dates)
      BY <1>1, <1>2, <2>5
    <2>7. QED
      BY <2>1, <2>2, <2>3, <2>4, <2>6 DEF Within
  <1>4. ASSUME NEW ccy \in Needed(h)
        PROVE  ccy \in Foreign(h) /\ <<start.base[h], ccy>> \in Pairs
    <2>1. ccy \in Foreign(h)
      BY <1>1, FirstIsFirst
    <2>2. QED
      BY <1>1, <2>1, StartsAssumption DEF Foreign, Pairs, RatesTypeOK
  <1>5. ASSUME NEW ccy \in Needed(h)
        PROVE  /\ Missing(h)[ccy] \in Wanted
               /\ AskedOf(table, <<start.base[h], ccy>>, Missing(h)[ccy], today)
    <2>1. PICK p \in Pairs : p = <<start.base[h], ccy>>
      BY <1>4
    <2>2. Missing(h)[ccy] = [first |-> FirstNeeded(h, ccy),
                             ranges |-> MissingRanges(FirstNeeded(h, ccy), Fetched(p), today)]
      BY <2>1 DEF Missing
    <2>3. FirstNeeded(h, ccy) \in Dates
      BY <1>1, FirstIsFirst
    <2>4. Missing(h)[ccy] \in Wanted
      BY <1>3, <2>1, <2>2, <2>3 DEF Wanted
    <2>5. AskedOf(table, p, Missing(h)[ccy], today)
      <3>1. PICK held \in SUBSET (1..today) : held = Fetched(p)
        BY <1>3, <2>1
      <3>2. Missing(h)[ccy].ranges = MissingRanges(Missing(h)[ccy].first, held, today)
        BY <2>2, <3>1
      <3>3. \A a, b \in held : \A d \in a..b : table[<<p, d>>] # Null
        BY <1>1, <3>1 DEF Gapless
      <3>4. QED
        BY <3>1, <3>2, <3>3 DEF AskedOf, Fetched
    <2>6. QED
      BY <2>1, <2>4, <2>5
  <1>6. DOMAIN Missing(h) = Needed(h) /\ Needed(h) \in SUBSET Currencies
    BY <1>4 DEF Missing, Foreign
  <1>7. Missing(h) \in [Needed(h) -> Wanted]
    BY <1>5 DEF Missing
  <1>8. QED
    BY <1>4, <1>5, <1>6, <1>7

\* A household asks: the days it holds are the ones the question goes around.
LEMMA Asks ==
  ASSUME RatesInv, NEW h \in Households, Ask(h)
  PROVE  RatesInv'
  <1> DEFINE q == [of |-> h, on |-> today, what |-> Missing(h)]
  <1>1. /\ run \in FetchRun /\ run.phase = "fetch" /\ today \in Dates
        /\ run' = [run EXCEPT !.asking = q]
        /\ UNCHANGED <<start, table, cached, today, excused>>
    BY DEF Ask, In, RatesInv, RunShape, RatesTypeOK
  <1>2. q \in Question
    <2>1. PICK S \in SUBSET Currencies : Missing(h) \in [S -> Wanted]
      BY MissingIsWanted
    <2>2. Missing(h) \in UNION {[T -> Wanted] : T \in SUBSET Currencies}
      BY <2>1
    <2>3. QED
      BY <1>1, <2>2 DEF Question
  <1>3. q.of = h /\ q.on = today /\ q.what = Missing(h)
    OBVIOUS
  <1> HIDE DEF q
  <1>4. /\ run' \in FetchRun /\ run'.asking = q /\ run'.phase = "fetch"
        /\ run'.startup = run.startup /\ run'.wrote = run.wrote
    BY <1>1, <1>2 DEF FetchRun
  <1>5. RunShape' /\ run' # Null /\ run # Null
    BY <1>1, <1>4, RunTypes DEF RunShape
  <1>6. RatesTypeOK' /\ Gapless' /\ NotAhead'
    BY <1>1, <1>5, KeptType, TableKept
  <1>7. Asking'
    <2>1. PICK what : what = Missing(h)
      OBVIOUS
    <2>2. \A ccy \in DOMAIN what :
            ccy \in Foreign(h) /\ AskedOf(table, <<start.base[h], ccy>>, what[ccy], today)
      BY <2>1, MissingIsWanted
    <2>3. today <= today
      BY <1>1, DatesAreNat
    <2>4. run'.asking.of = h /\ run'.asking.on = today /\ run'.asking.what = what
      BY <1>3, <1>4, <2>1
    <2>5. QED
      BY <1>1, <1>4, <2>2, <2>3, <2>4 DEF Asking, Foreign
  <1>8. CachesFollowTheTable'
    BY <1>4, <1>5 DEF CachesFollowTheTable, Awaited
  <1>9. Owed'
    BY <1>1, <1>4, <1>5, StillOwed
  <1>10. QED
    BY <1>5, <1>6, <1>7, <1>8, <1>9 DEF RatesInv

\* A run that fails excuses whatever is behind.
LEMMA Fails ==
  ASSUME RatesInv, Fail
  PROVE  RatesInv'
  <1>1. /\ excused' = Stale(table, cached) /\ (run' = Everyone \/ run' = Null)
        /\ UNCHANGED <<start, table, cached, today>>
    BY DEF Fail
  <1>2. RunShape' /\ Asking' /\ Owed'
    <2>1. RunShape'
      BY <1>1, RunTypes DEF RunShape
    <2>2. run' # Null => run'.phase = "all" /\ run'.asking = Null
      BY <1>1 DEF Everyone
    <2>3. QED
      BY <2>1, <2>2 DEF Asking, Owed
  <1>3. Gapless' /\ NotAhead'
    BY <1>1, TableKept
  <1>4. RatesTypeOK'
    <2>1. run' # Null =>
            run'.phase \in {"fetch", "second", "all"} /\ run'.left \subseteq Households
              /\ run'.wrote \subseteq Households \X Pairs
      BY <1>2 DEF RunShape, FetchRun
    <2>2. \A of : Foreign(of)' = Foreign(of)
      BY <1>1 DEF Foreign
    <2>3. Stale(table, cached) \subseteq DOMAIN cached
      BY DEF Stale
    <2>4. QED
      BY <1>1, <2>1, <2>2, <2>3 DEF RatesInv, RatesTypeOK
  <1>5. CachesFollowTheTable'
    <2> SUFFICES ASSUME NEW row \in Stale(table, cached)' PROVE row \in excused'
      BY DEF CachesFollowTheTable
    <2>1. row \in DOMAIN cached /\ cached'[row] = cached[row] /\ Converted(table', row) = Converted(table, row)
      BY <1>1, StalePrimed
    <2>2. QED
      BY <1>1, <2>1, StaleBefore
  <1>6. QED
    BY <1>2, <1>3, <1>4, <1>5 DEF RatesInv
\* An answer writes what it changes: what it leaves behind, the run now owes.
LEMMA Answers ==
  ASSUME RatesInv, AnswerSome
  PROVE  RatesInv'
  <1>1. run \in FetchRun /\ run.phase = "fetch" /\ run # Null /\ run.asking # Null
    BY DEF AnswerSome, In, RatesInv, RunShape
  <1>2. PICK q : q = run.asking
    OBVIOUS
  <1>3. PICK published \in BOOLEAN, answered \in [DOMAIN q.what -> 0..2] :
          /\ \A ccy \in DOMAIN answered : answered[ccy] <= Len(q.what[ccy].ranges)
          /\ Answer(answered, published)
    BY <1>2 DEF AnswerSome
  <1>4. \A c \in DOMAIN q.what : answered[c] <= Len(q.what[c].ranges)
    BY <1>3
  <1>5. PICK late : late = Late(q, published)
    OBVIOUS
  <1>6. PICK more : more = {<<q.of, r[1]>> : r \in Unfilled(Brought(q, answered, published))}
    OBVIOUS
  <1>7. /\ table' \in [Rates -> {Null, "auto", "user"}]
        /\ \A r \in Rates : table'[r] = table[r] \/ (table[r] = Null /\ table'[r] = "auto")
        /\ \A r \in Rates : table'[r] # table[r] => <<q.of, r[1]>> \in run.wrote \union more
    BY <1>1, <1>2, <1>3, <1>4, <1>5, <1>6, Fills
  <1>8. Gapless' /\ NotAhead'
    BY <1>1, <1>2, <1>3, <1>4, AnswerLeavesNoGap
  <1>9. UNCHANGED <<start, cached, today, excused>>
    BY <1>3 DEF Answer
  <1>10. q \in Question /\ q.of \in Households
    BY <1>1, <1>2, QuestionShape DEF RatesInv
  <1>11. more \subseteq Households \X Pairs
    <2>1. ASSUME NEW ccy \in DOMAIN q.what
          PROVE  <<start.base[q.of], ccy>> \in Pairs
      BY <1>1, <1>2, AskedPair DEF RatesInv
    <2>2. \A r \in Brought(q, answered, published) : r[1] \in Pairs
      BY <2>1 DEF Brought
    <2>3. QED
      BY <1>6, <1>10, <2>2 DEF Unfilled
  <1> DEFINE r == [run EXCEPT !.left = @ \ {q.of}, !.asking = Null, !.wrote = @ \union more]
  <1>12. /\ r \in FetchRun /\ r.asking = Null /\ r.phase = "fetch"
         /\ r.startup = run.startup /\ r.wrote = run.wrote \union more
    BY <1>1, <1>11 DEF FetchRun
  <1>13. run' = After(r)
    <2>1. run' = After([run EXCEPT !.left = @ \ {q.of}, !.asking = Null,
                                   !.wrote = @ \union {<<q.of, x[1]>> :
                                     x \in Unfilled(Brought(q, answered, published))}])
      BY <1>2, <1>3 DEF Answer, Brought, Got, FirstOf, Late
    <2>2. QED
      BY <1>6, <2>1
  <1> HIDE DEF r
  <1>14. /\ run' \in FetchRun /\ run' # Null /\ run'.asking = Null
         /\ run'.startup = run.startup /\ run'.wrote = run.wrote \union more
         /\ run'.phase = "fetch" \/ run'.left = Households
    <2>1. CASE r.left # {}
      BY <1>12, <1>13, <2>1, WhatComesAfter, RunTypes
    <2>2. CASE r.left = {}
      BY <1>12, <1>13, <2>2, WhatComesAfter, RunTypes
    <2>3. QED
      BY <2>1, <2>2
  <1>15. RunShape' /\ Asking'
    BY <1>14 DEF RunShape, Asking
  <1>16. RatesTypeOK'
    <2>1. /\ run'.phase \in {"fetch", "second", "all"} /\ run'.left \subseteq Households
          /\ run'.wrote \subseteq Households \X Pairs
      BY <1>14 DEF FetchRun
    <2>2. \A of : Foreign(of)' = Foreign(of)
      BY <1>9 DEF Foreign
    <2>3. QED
      BY <1>7, <1>9, <2>1, <2>2 DEF RatesInv, RatesTypeOK
  <1>17. ASSUME NEW row \in Stale(table, cached)'
         PROVE  row \in DOMAIN cached /\ row.of \in Households /\ cached'[row] = cached[row]
                  /\ IsRow(row)
    BY <1>9, StalePrimed, RowsAreRows DEF RatesInv
  <1>18. CachesFollowTheTable'
    BY <1>14, <1>17 DEF CachesFollowTheTable, Awaited
  <1>19. Owed'
    <2> SUFFICES ASSUME ~run.startup, NEW row \in Stale(table, cached)'
                 PROVE  row \in excused' \/ Sideways(row)' \/ Written(row)'
      BY <1>14 DEF Owed
    <2>1. CASE Converted(table', row) = Converted(table, row)
      <3>1. row \in Stale(table, cached) /\ (Sideways(row) => Sideways(row)')
        BY <1>9, <1>17, <2>1, StaleBefore
      <3>2. row \in excused \/ Sideways(row) \/ Written(row)
        BY <1>1, <3>1 DEF RatesInv, Owed
      <3>3. Written(row) => Written(row)'
        BY <1>9, <1>14 DEF Written
      <3>4. QED
        BY <1>9, <3>1, <3>2, <3>3
    <2>2. ASSUME NEW d \in Dates, Converted(table', row) = <<To(row), d, "auto">>
          PROVE  Sideways(row)'
      <3>1. To(row) \in Pairs
        BY <1>17, RowPairs DEF RatesInv, RatesTypeOK
      <3>2. Converted(table', row) # Null
        BY <2>2, <3>1, NullIsNoRate
      <3>3. QED
        BY <1>9, <2>2, <3>2, ConvertedPrimed
    <2>3. ASSUME NEW d \in Dates, table[<<From(row), d>>] = Null, table'[<<From(row), d>>] = "auto"
          PROVE  Written(row)'
      <3>1. <<From(row), d>> \in Rates
        BY <1>17, RowPairs DEF RatesInv, RatesTypeOK, Rates
      <3>2. <<q.of, From(row)>> \in run.wrote \union more
        BY <1>7, <2>3, <3>1, NullIsNoRate
      <3>3. QED
        BY <1>9, <1>10, <1>14, <3>2 DEF Written, From
    <2>4. QED
      <3>1. table \in [Rates -> {Null, "auto", "user"}] /\ start \in Starts
        BY DEF RatesInv, RatesTypeOK
      <3>2. IsRow(row)
        BY <1>17
      <3>3. PICK new \in [Rates -> {Null, "auto", "user"}] : new = table'
        BY <1>7
      <3>4. OnlyAdds(table, new)
        BY <1>7, <3>3 DEF OnlyAdds
      <3>5. Moves(table, new, row)
        BY <3>1, <3>2, <3>4, ConvertedAfter
      <3>6. QED
        BY <2>1, <2>2, <2>3, <3>3, <3>5 DEF Moves
  <1>20. QED
    BY <1>8, <1>15, <1>16, <1>18, <1>19 DEF RatesInv

\* What a household's recompute leaves behind was behind before, and is another's.
LEMMA Repays ==
  ASSUME RatesInv, NEW h, Repay(h), UNCHANGED <<start, table, today>>, RunShape'
  PROVE  /\ RatesTypeOK'
         /\ \A row \in Stale(table, cached)' :
              /\ row \in Stale(table, cached) /\ row.of # h
              /\ Sideways(row) => Sideways(row)'
              /\ row \in excused => row \in excused'
  <1>1. /\ DOMAIN cached' = DOMAIN cached
        /\ \A row \in DOMAIN cached :
             cached'[row] = IF row.of = h THEN Converted(table, row) ELSE cached[row]
    BY Recomputing DEF Repay
  <1>2. excused' = {row \in excused : row.of # h}
    BY DEF Repay
  <1>3. RatesTypeOK'
    <2>1. run' # Null =>
            run'.phase \in {"fetch", "second", "all"} /\ run'.left \subseteq Households
              /\ run'.wrote \subseteq Households \X Pairs
      BY DEF RunShape, FetchRun
    <2>2. \A of : Foreign(of)' = Foreign(of)
      BY DEF Foreign
    <2>3. ASSUME NEW row \in DOMAIN cached
          PROVE  cached'[row] \in Conversions
      <3>1. /\ IsRow(row) /\ cached[row] \in Conversions
            /\ table \in [Rates -> {Null, "auto", "user"}] /\ start \in Starts
        BY RowsAreRows DEF RatesInv, RatesTypeOK
      <3>2. QED
        BY <1>1, <3>1, ConvertedType
    <2>4. QED
      BY <1>1, <1>2, <2>1, <2>2, <2>3 DEF RatesInv, RatesTypeOK
  <1>4. ASSUME NEW row \in Stale(table, cached)'
        PROVE  /\ row \in Stale(table, cached) /\ row.of # h
               /\ Sideways(row) => Sideways(row)'
               /\ row \in excused => row \in excused'
    <2>1. row \in DOMAIN cached /\ cached'[row] # Converted(table, row)
      BY <1>1, StalePrimed
    <2>2. row.of # h /\ cached'[row] = cached[row]
      BY <1>1, <2>1
    <2>3. QED
      BY <1>2, <2>1, <2>2, StaleBefore
  <1>5. QED
    BY <1>3, <1>4

\* The second pass skips no household the run owes anything.
LEMMA PassesAgain ==
  ASSUME RatesInv, NEW h \in Households, SecondPass(h)
  PROVE  RatesInv'
  <1> DEFINE r == [run EXCEPT !.left = @ \ {h}]
  <1>1. /\ run \in FetchRun /\ run.phase = "second" /\ run # Null /\ h \in run.left
        /\ run' = After(r)
        /\ UNCHANGED <<start, table, today>>
    BY DEF SecondPass, In, RatesInv, RunShape
  <1>2. run.asking = Null
    BY <1>1 DEF RatesInv, Asking
  <1>3. /\ r \in FetchRun /\ r.asking = Null /\ r.phase = "second" /\ r.left = run.left \ {h}
        /\ r.startup = run.startup /\ r.wrote = run.wrote
    BY <1>1, <1>2 DEF FetchRun
  <1> HIDE DEF r
  <1>4. /\ run' \in FetchRun \union {Null}
        /\ run' # Null => run'.asking = Null
        /\ r.left # {} => run' = r
        /\ r.left = {} /\ r.startup => run' = Everyone
        /\ r.left = {} /\ ~r.startup => run' = Null
    BY <1>1, <1>3, WhatComesAfter
  <1>5. RunShape' /\ Asking'
    BY <1>4 DEF RunShape, Asking
  <1>6. Gapless' /\ NotAhead'
    BY <1>1, TableKept
  <1>7. /\ RatesTypeOK'
        /\ \A row \in Stale(table, cached)' :
             /\ row \in Stale(table, cached)
             /\ Sideways(row) => Sideways(row)'
             /\ row \in excused => row \in excused'
             /\ Owes(h) => row.of # h
    <2>1. CASE Owes(h)
      BY <1>1, <1>5, <2>1, Repays DEF SecondPass
    <2>2. CASE ~Owes(h)
      <3>1. UNCHANGED <<cached, excused>>
        BY <2>2 DEF SecondPass
      <3>2. RatesTypeOK'
        BY <1>1, <1>5, <3>1, KeptType
      <3>3. ASSUME NEW row \in Stale(table, cached)'
            PROVE  row \in Stale(table, cached) /\ (Sideways(row) => Sideways(row)')
        <4>1. row \in DOMAIN cached /\ cached'[row] = cached[row]
                /\ Converted(table', row) = Converted(table, row)
          BY <1>1, <3>1, StalePrimed
        <4>2. QED
          BY <1>1, <4>1, StaleBefore
      <3>4. QED
        BY <2>2, <3>1, <3>2, <3>3
    <2>3. QED
      BY <2>1, <2>2
  <1>8. ASSUME NEW row \in Stale(table, cached)', ~run.startup
        PROVE  row \in excused' \/ Sideways(row)' \/ Written(row)
    BY <1>1, <1>7, <1>8 DEF RatesInv, Owed
  <1>9. Owed'
    <2> SUFFICES ASSUME run' # Null, run'.phase \in {"fetch", "second"}, ~run'.startup,
                        NEW row \in Stale(table, cached)'
                 PROVE  row \in excused' \/ Sideways(row)' \/ Written(row)'
      BY DEF Owed
    <2>1. ~run.startup /\ run'.wrote = run.wrote
      BY <1>3, <1>4 DEF Everyone
    <2>2. Written(row) => Written(row)'
      BY <1>1, <2>1 DEF Written
    <2>3. QED
      BY <1>8, <2>1, <2>2
  <1>10. CachesFollowTheTable'
    <2> SUFFICES ASSUME NEW row \in Stale(table, cached)', row \notin excused', ~Sideways(row)'
                 PROVE  Awaited(row.of)'
      BY DEF CachesFollowTheTable
    <2>1. row \in DOMAIN cached /\ row.of \in Households /\ row \in Stale(table, cached)
      BY <1>7, RowsAreRows DEF Stale, RatesInv
    <2>2. CASE run.startup
      <3>1. run' = Everyone \/ (run' = r /\ r.phase = "second" /\ r.startup)
        BY <1>3, <1>4, <2>2
      <3>2. CASE run' = Everyone
        <4>1. run'.left = Households /\ run' # Null
          BY <3>2, RunTypes DEF Everyone
        <4>2. QED
          BY <2>1, <4>1 DEF Awaited
      <3>3. CASE run' = r /\ r.phase = "second" /\ r.startup
        BY <1>3, <3>3, RunTypes DEF Awaited
      <3>4. QED
        BY <3>1, <3>2, <3>3
    <2>3. CASE ~run.startup
      <3>1. Written(row)
        BY <1>8, <2>3
      <3>2. row.of \in run.left
        BY <1>1, <1>7, <2>1, <2>3 DEF RatesInv, CachesFollowTheTable, Awaited
      <3>3. row.of # h
        <4>1. CASE Owes(h)
          BY <1>7, <4>1
        <4>2. CASE ~Owes(h)
          BY <2>1, <3>1, <4>2 DEF Owes, Needed, Written
        <4>3. QED
          BY <4>1, <4>2
      <3>4. run' = r /\ row.of \in r.left
        BY <1>3, <1>4, <3>2, <3>3
      <3>5. QED
        BY <1>3, <3>4, RunTypes DEF Awaited
    <2>4. QED
      BY <2>2, <2>3
  <1>11. QED
    BY <1>5, <1>6, <1>7, <1>9, <1>10 DEF RatesInv

\* After a start every household is recomputed, whatever its runs wrote.
LEMMA RecomputesAll ==
  ASSUME RatesInv, NEW h \in Households, RecomputeAll(h)
  PROVE  RatesInv'
  <1> DEFINE r == [run EXCEPT !.left = @ \ {h}]
  <1>1. /\ run \in FetchRun /\ run.phase = "all" /\ run # Null /\ h \in run.left
        /\ Repay(h) /\ run' = After(r)
        /\ UNCHANGED <<start, table, today>>
    BY DEF RecomputeAll, In, RatesInv, RunShape
  <1>2. run.asking = Null
    BY <1>1 DEF RatesInv, Asking
  <1>3. r \in FetchRun /\ r.asking = Null /\ r.phase = "all" /\ r.left = run.left \ {h}
    BY <1>1, <1>2 DEF FetchRun
  <1> HIDE DEF r
  <1>4. /\ run' = r \/ run' = Null
        /\ r.left # {} => run' = r
    BY <1>1, <1>3, WhatComesAfter
  <1>5. RunShape' /\ Asking' /\ Owed'
    BY <1>3, <1>4 DEF RunShape, Asking, Owed
  <1>6. Gapless' /\ NotAhead'
    BY <1>1, TableKept
  <1>7. /\ RatesTypeOK'
        /\ \A row \in Stale(table, cached)' :
             /\ row \in Stale(table, cached) /\ row.of # h
             /\ Sideways(row) => Sideways(row)'
             /\ row \in excused => row \in excused'
    BY <1>1, <1>5, Repays
  <1>8. CachesFollowTheTable'
    <2> SUFFICES ASSUME NEW row \in Stale(table, cached)', row \notin excused', ~Sideways(row)'
                 PROVE  Awaited(row.of)'
      BY DEF CachesFollowTheTable
    <2>1. row.of \in run.left
      BY <1>1, <1>7 DEF RatesInv, CachesFollowTheTable, Awaited
    <2>2. row.of \in r.left /\ run' = r
      BY <1>3, <1>4, <1>7, <2>1
    <2>3. QED
      BY <1>3, <2>2, RunTypes DEF Awaited
  <1>9. QED
    BY <1>5, <1>6, <1>7, <1>8 DEF RatesInv

-----------------------------------------------------------------------------
(* People's steps                                                          *)

\* A step that leaves the run, and fetches nothing, leaves what was asked.
LEMMA StillAsking ==
  ASSUME RatesInv, start' = start, run' = run, today' \in Dates, today <= today',
         \A r \in Rates : /\ table'[r] = "auto" => table[r] = "auto"
                          /\ table[r] # Null => table'[r] # Null
  PROVE  Gapless' /\ NotAhead' /\ Asking'
  <1>1. \A p \in Pairs, d \in Dates :
          /\ table'[<<p, d>>] = "auto" => table[<<p, d>>] = "auto"
          /\ table[<<p, d>>] # Null => table'[<<p, d>>] # Null
    BY DEF Rates
  <1>2. \A p \in Pairs : Fetched(p)' \subseteq Fetched(p)
    BY <1>1 DEF Fetched
  <1>3. today \in Nat /\ today' \in Nat
    BY DatesAreNat DEF RatesInv, RatesTypeOK
  <1>4. Gapless'
    <2> SUFFICES ASSUME NEW p \in Pairs, NEW a \in Fetched(p)', NEW b \in Fetched(p)', NEW d \in a..b
                 PROVE  table'[<<p, d>>] # Null
      BY DEF Gapless
    <2>1. d \in Dates
      <3>1. a \in Dates /\ b \in Dates
        BY DEF Fetched
      <3>2. QED
        BY <3>1, StartsAssumption DEF Dates
    <2>2. table[<<p, d>>] # Null
      BY <1>2 DEF RatesInv, Gapless
    <2>3. QED
      BY <1>1, <2>1, <2>2
  <1>5. NotAhead'
    <2> SUFFICES ASSUME NEW p \in Pairs, NEW d \in Fetched(p)' PROVE d <= today'
      BY DEF NotAhead
    <2>1. d <= today /\ d \in Nat
      BY <1>2, DatesAreNat DEF RatesInv, NotAhead, Fetched
    <2>2. QED
      BY <1>3, <2>1
  <1>6. ASSUME NEW p \in Pairs, NEW want, NEW on \in Dates, AskedOf(table, p, want, on)
        PROVE  AskedOf(table', p, want, on)
    <2>1. PICK held \in SUBSET (1..on) :
            /\ want.ranges = MissingRanges(want.first, held, on)
            /\ {d \in Dates : table[<<p, d>>] = "auto"} \subseteq held
            /\ \A a, b \in held : \A d \in a..b : table[<<p, d>>] # Null
      BY <1>6 DEF AskedOf
    <2>2. {d \in Dates : table'[<<p, d>>] = "auto"} \subseteq held
      BY <1>1, <2>1
    <2>3. ASSUME NEW a \in held, NEW b \in held, NEW d \in a..b
          PROVE  table'[<<p, d>>] # Null
      <3>1. d \in Dates
        BY StartsAssumption DEF Dates
      <3>2. QED
        BY <1>1, <2>1, <3>1
    <2>4. QED
      BY <2>1, <2>2, <2>3 DEF AskedOf
  <1>7. Asking'
    <2> SUFFICES ASSUME run # Null, run.asking # Null
                 PROVE  /\ run.phase = "fetch"
                        /\ run.asking.on <= today'
                        /\ \A ccy \in DOMAIN run.asking.what :
                             /\ ccy \in Foreign(run.asking.of)
                             /\ AskedOf(table', <<start.base[run.asking.of], ccy>>,
                                        run.asking.what[ccy], run.asking.on)
      BY DEF Asking, Foreign
    <2>1. /\ run.phase = "fetch" /\ run.asking.on <= today /\ run.asking.on \in Dates
          /\ \A ccy \in DOMAIN run.asking.what :
               /\ ccy \in Foreign(run.asking.of)
               /\ AskedOf(table, <<start.base[run.asking.of], ccy>>,
                          run.asking.what[ccy], run.asking.on)
      BY QuestionShape DEF RatesInv, Asking
    <2>2. run.asking.on <= today'
      <3>1. run.asking.on \in Nat
        BY <2>1, DatesAreNat
      <3>2. QED
        BY <1>3, <2>1, <3>1
    <2>3. ASSUME NEW ccy \in DOMAIN run.asking.what
          PROVE  AskedOf(table', <<start.base[run.asking.of], ccy>>,
                         run.asking.what[ccy], run.asking.on)
      <3>1. PICK p \in Pairs : p = <<start.base[run.asking.of], ccy>>
        BY AskedPair DEF RatesInv
      <3>2. PICK want : want = run.asking.what[ccy]
        OBVIOUS
      <3>3. PICK on \in Dates : on = run.asking.on
        BY <2>1
      <3>4. AskedOf(table, p, want, on)
        BY <2>1, <3>1, <3>2, <3>3
      <3>5. AskedOf(table', p, want, on)
        BY <1>6, <3>4
      <3>6. QED
        BY <3>1, <3>2, <3>3, <3>5
    <2>4. QED
      BY <2>1, <2>2, <2>3
  <1>8. QED
    BY <1>4, <1>5, <1>7

\* A step that leaves the run and moves no row behind, but for those it excuses,
\* leaves what the run owes.
LEMMA NothingBehind ==
  ASSUME RatesInv, start' = start, run' = run,
         \A row \in Stale(table, cached)' :
           \/ row \in excused'
           \/ /\ row \in Stale(table, cached)
              /\ Sideways(row) => Sideways(row)'
              /\ row \in excused => row \in excused'
  PROVE  Owed' /\ CachesFollowTheTable'
  <1>1. \A row : Written(row)' <=> Written(row)
    BY DEF Written
  <1>2. \A h : Awaited(h)' <=> Awaited(h)
    BY DEF Awaited
  <1>3. Owed'
    BY <1>1 DEF RatesInv, Owed
  <1>4. CachesFollowTheTable'
    BY <1>2 DEF RatesInv, CachesFollowTheTable
  <1>5. QED
    BY <1>3, <1>4

\* A row is entered at the table as it stands.
LEMMA Enters ==
  ASSUME RatesInv, NEW h \in Households, NEW ccy \in Foreign(h), NEW d \in 1..start.last,
         Enter(ForeignRow(h, ccy, d))
  PROVE  RatesInv'
  <1>1. PICK row : row = ForeignRow(h, ccy, d)
    OBVIOUS
  <1>2. /\ row \notin DOMAIN cached
        /\ DOMAIN cached' = DOMAIN cached \union {row}
        /\ cached'[row] = Converted(table, row)
        /\ \A x \in DOMAIN cached : cached'[x] = cached[x]
        /\ UNCHANGED <<start, table, today, run, excused>>
    BY <1>1 DEF Enter
  <1>3. RatesTypeOK /\ RunShape
    BY DEF RatesInv
  <1>4. IsRow(row) /\ row.ccy \in Foreign(row.of)
    <2>1. d \in Dates
      BY <1>3, StartsAssumption DEF RatesTypeOK, Dates
    <2>2. QED
      BY <1>1, <2>1 DEF IsRow, ForeignRow, Foreign
  <1>5. Converted(table, row) \in Conversions
    BY <1>3, <1>4, ConvertedType DEF RatesTypeOK
  <1>6. RatesTypeOK' /\ RunShape'
    <2>1. \A of : Foreign(of)' = Foreign(of)
      BY <1>2 DEF Foreign
    <2>2. RunShape'
      BY <1>2, <1>3 DEF RunShape
    <2>3. QED
      BY <1>2, <1>3, <1>4, <1>5, <2>1, <2>2 DEF RatesTypeOK, IsRow
  <1>7. Gapless' /\ NotAhead' /\ Asking'
    BY <1>2, <1>3, DatesAreNat, StillAsking DEF RatesTypeOK
  <1>8. \A x \in Stale(table, cached)' : x \in Stale(table, cached) /\ (Sideways(x) => Sideways(x)')
    <2> SUFFICES ASSUME NEW x \in Stale(table, cached)'
                 PROVE  x \in Stale(table, cached) /\ (Sideways(x) => Sideways(x)')
      OBVIOUS
    <2>1. x \in DOMAIN cached' /\ cached'[x] # Converted(table, x)
      BY <1>2, StalePrimed
    <2>2. x \in DOMAIN cached /\ cached'[x] = cached[x]
      BY <1>2, <2>1
    <2>3. QED
      BY <1>2, <2>2, StaleBefore
  <1>9. Owed' /\ CachesFollowTheTable'
    BY <1>2, <1>8, NothingBehind
  <1>10. QED
    BY <1>6, <1>7, <1>9 DEF RatesInv

\* A row that goes owes nothing, and nothing is owed to it.
LEMMA Removes ==
  ASSUME RatesInv, NEW row \in DOMAIN cached, RemoveRow(row)
  PROVE  RatesInv'
  <1>1. /\ DOMAIN cached' = DOMAIN cached \ {row}
        /\ \A x \in DOMAIN cached \ {row} : cached'[x] = cached[x]
        /\ excused' = excused \ {row}
        /\ UNCHANGED <<start, table, today, run>>
    BY DEF RemoveRow
  <1>2. RatesTypeOK /\ RunShape
    BY DEF RatesInv
  <1>3. RatesTypeOK' /\ RunShape'
    <2>1. \A of : Foreign(of)' = Foreign(of)
      BY <1>1 DEF Foreign
    <2>2. QED
      BY <1>1, <1>2, <2>1 DEF RatesTypeOK, RunShape
  <1>4. Gapless' /\ NotAhead' /\ Asking'
    BY <1>1, <1>2, DatesAreNat, StillAsking DEF RatesTypeOK
  <1>5. ASSUME NEW x \in Stale(table, cached)'
        PROVE  /\ x \in Stale(table, cached)
               /\ Sideways(x) => Sideways(x)'
               /\ x \in excused => x \in excused'
    <2>1. x \in DOMAIN cached /\ x # row /\ cached'[x] = cached[x]
      BY <1>1, StalePrimed
    <2>2. QED
      BY <1>1, <2>1, StaleBefore
  <1>6. Owed' /\ CachesFollowTheTable'
    BY <1>1, <1>5, NothingBehind
  <1>7. QED
    BY <1>3, <1>4, <1>6 DEF RatesInv

\* A rate stated by hand moves the rows it converts: its household's are
\* recomputed, the others' excused.
LEMMA States ==
  ASSUME RatesInv, NEW h \in Households, NEW rate \in Rates, StateRate(h, rate)
  PROVE  RatesInv'
  <1>1. /\ table' = [table EXCEPT ![rate] = "user"]
        /\ cached' = Recomputed(table', h)
        /\ UNCHANGED <<start, today, run>>
    BY DEF StateRate
  <1>2. RatesTypeOK /\ RunShape
    BY DEF RatesInv
  <1>3. table' \in [Rates -> {Null, "auto", "user"}]
    BY <1>1, <1>2 DEF RatesTypeOK
  <1>4. /\ DOMAIN cached' = DOMAIN cached
        /\ \A row \in DOMAIN cached :
             cached'[row] = IF row.of = h THEN Converted(table', row) ELSE cached[row]
    BY <1>1, Recomputing
  <1>5. \A row : row \in excused' <=>
          \/ row \in excused /\ row.of # h
          \/ /\ row \in DOMAIN cached /\ cached'[row] # Converted(table', row)
             /\ Converted(table', row) # Converted(table, row)
    BY <1>4 DEF StateRate, Stale
  <1>6. RatesTypeOK' /\ RunShape'
    <2>1. \A of : Foreign(of)' = Foreign(of)
      BY <1>1 DEF Foreign
    <2>2. ASSUME NEW row \in DOMAIN cached
          PROVE  cached'[row] \in Conversions
      <3>1. IsRow(row) /\ cached[row] \in Conversions /\ start \in Starts
        BY <1>2, RowsAreRows DEF RatesTypeOK
      <3>2. Converted(table', row) \in Conversions
        BY <1>3, <3>1, ConvertedType
      <3>3. QED
        BY <1>4, <3>1, <3>2
    <2>3. QED
      BY <1>1, <1>2, <1>3, <1>4, <1>5, <2>1, <2>2 DEF RatesTypeOK, RunShape
  <1>7. Gapless' /\ NotAhead' /\ Asking'
    <2>1. \A r \in Rates : /\ table'[r] = "auto" => table[r] = "auto"
                           /\ table[r] # Null => table'[r] # Null
      BY <1>1, <1>2, NullIsNoRate DEF RatesTypeOK
    <2>2. today' \in Dates /\ today <= today'
      BY <1>1, <1>2, DatesAreNat DEF RatesTypeOK
    <2>3. QED
      BY <1>1, <2>1, <2>2, StillAsking
  <1>8. ASSUME NEW row \in Stale(table, cached)', row \notin excused'
        PROVE  /\ row \in Stale(table, cached)
               /\ Sideways(row) => Sideways(row)'
               /\ row \in excused => row \in excused'
    <2>1. row \in DOMAIN cached /\ cached'[row] # Converted(table', row)
      BY <1>1, <1>4, StalePrimed
    <2>2. row.of # h /\ cached'[row] = cached[row]
      BY <1>4, <2>1
    <2>3. Converted(table', row) = Converted(table, row)
      BY <1>5, <1>8, <2>1
    <2>4. QED
      BY <1>1, <1>5, <2>1, <2>2, <2>3, StaleBefore
  <1>9. Owed' /\ CachesFollowTheTable'
    BY <1>1, <1>8, NothingBehind
  <1>10. QED
    BY <1>6, <1>7, <1>9 DEF RatesInv

\* A day more to ask for, and nothing else.
LEMMA Dawns ==
  ASSUME RatesInv, NextDay
  PROVE  RatesInv'
  <1>1. UNCHANGED <<start, table, cached, run, excused>> /\ today' = today + 1 /\ today < start.last
    BY DEF NextDay
  <1>2. RatesTypeOK /\ RunShape
    BY DEF RatesInv
  <1>3. today' \in Dates /\ today <= today'
    BY <1>1, <1>2, StartsAssumption DEF RatesTypeOK, Dates
  <1>4. RatesTypeOK' /\ RunShape'
    <2>1. \A of : Foreign(of)' = Foreign(of)
      BY <1>1 DEF Foreign
    <2>2. QED
      BY <1>1, <1>2, <1>3, <2>1 DEF RatesTypeOK, RunShape
  <1>5. Gapless' /\ NotAhead' /\ Asking'
    BY <1>1, <1>3, StillAsking
  <1>6. Owed' /\ CachesFollowTheTable'
    <2>1. ASSUME NEW row \in Stale(table, cached)'
          PROVE  row \in Stale(table, cached) /\ (Sideways(row) => Sideways(row)')
      BY <1>1, StalePrimed, StaleBefore
    <2>2. QED
      BY <1>1, <2>1, NothingBehind
  <1>7. QED
    BY <1>4, <1>5, <1>6 DEF RatesInv

-----------------------------------------------------------------------------
(* The theorems                                                            *)

\* Nothing is fetched, cached or owed at first.
LEMMA Starting ==
  ASSUME RatesInit
  PROVE  RatesInv
  <1>1. RatesTypeOK /\ RunShape
    BY StartsAssumption DEF RatesInit, RatesTypeOK, RunShape, Dates
  <1>2. \A p \in Pairs : Fetched(p) = {}
    BY NullIsNoRate DEF RatesInit, Fetched, Rates
  <1>3. Gapless /\ NotAhead
    BY <1>2 DEF Gapless, NotAhead
  <1>4. Asking /\ Owed /\ CachesFollowTheTable
    BY DEF RatesInit, Asking, Owed, CachesFollowTheTable, Stale
  <1>5. QED
    BY <1>1, <1>3, <1>4 DEF RatesInv

\* The table, the caches and what the run under way owes them: every step of the
\* worker, of people and of the calendar keeps the invariant.
THEOREM RatesInductive == RatesSpec => []RatesInv
  <1>1. RatesInit => RatesInv
    BY Starting
  <1>2. ASSUME RatesInv, [RatesNext]_rateVars
        PROVE  RatesInv'
    <2>1. ASSUME NEW h \in Households, NEW ccy \in Foreign(h), NEW d \in 1..start.last,
                 Enter(ForeignRow(h, ccy, d))
          PROVE  RatesInv'
      BY <1>2, <2>1, Enters
    <2>2. ASSUME NEW row \in DOMAIN cached, RemoveRow(row)
          PROVE  RatesInv'
      BY <1>2, <2>2, Removes
    <2>3. ASSUME NEW h \in Households, NEW pair \in Pairs, NEW d \in 1..start.last,
                 StateRate(h, <<pair, d>>)
          PROVE  RatesInv'
      <3>1. <<pair, d>> \in Rates
        BY <1>2, StartsAssumption DEF RatesInv, RatesTypeOK, Dates, Rates
      <3>2. QED
        BY <1>2, <2>3, <3>1, States
    <2>4. CASE BeginRun
      BY <1>2, <2>4, Begins DEF BeginRun
    <2>5. CASE RestartRun
      BY <1>2, <2>5, Begins DEF RestartRun
    <2>6. CASE AnswerSome
      BY <1>2, <2>6, Answers
    <2>7. CASE Fail
      BY <1>2, <2>7, Fails
    <2>8. ASSUME NEW h \in Households, Ask(h)
          PROVE  RatesInv'
      BY <1>2, <2>8, Asks
    <2>9. ASSUME NEW h \in Households, SecondPass(h)
          PROVE  RatesInv'
      BY <1>2, <2>9, PassesAgain
    <2>10. ASSUME NEW h \in Households, RecomputeAll(h)
           PROVE  RatesInv'
      BY <1>2, <2>10, RecomputesAll
    <2>11. CASE NextDay
      BY <1>2, <2>11, Dawns
    <2>12. CASE UNCHANGED rateVars
      <3>1. UNCHANGED <<start, table, cached, today, run, excused>>
        BY <2>12 DEF rateVars
      <3>2. RunShape' /\ RatesTypeOK'
        BY <1>2, <3>1, KeptType DEF RatesInv, RunShape
      <3>3. today' \in Dates /\ today <= today'
        BY <1>2, <3>1, DatesAreNat DEF RatesInv, RatesTypeOK
      <3>4. Gapless' /\ NotAhead' /\ Asking'
        BY <1>2, <3>1, <3>3, StillAsking
      <3>5. ASSUME NEW row \in Stale(table, cached)'
            PROVE  row \in Stale(table, cached) /\ (Sideways(row) => Sideways(row)')
        BY <3>1, StalePrimed, StaleBefore
      <3>6. Owed' /\ CachesFollowTheTable'
        BY <1>2, <3>1, <3>5, NothingBehind
      <3>7. QED
        BY <3>2, <3>4, <3>6 DEF RatesInv
    <2>13. QED
      BY <1>2, <2>1, <2>2, <2>3, <2>4, <2>5, <2>6, <2>7, <2>8, <2>9, <2>10, <2>11, <2>12
        DEF RatesNext, People, Fetching
  <1>3. QED
    BY <1>1, <1>2, PTL DEF RatesSpec

\* No day a household needs is left out of reach of the daily fetch, and no cache is
\* behind the table once a run is over, for any households, currencies and days,
\* whichever requests fail and wherever the worker dies.
THEOREM RatesReachEveryCacheForAll == RatesSpec => []RatesReachEveryCache
  <1>1. RatesInv => RatesReachEveryCache
    BY EdgesReach DEF RatesInv, RatesReachEveryCache
  <1>2. QED
    BY <1>1, RatesInductive, PTL

-----------------------------------------------------------------------------
(* Statements                                                              *)

\* A row came from a file's row: it has its digest and says the same.
ReadFrom(q, file, i) ==
  /\ i \in Due(file)
  /\ q.hash = Digest(file, i)
  /\ Identity(q) = Identity(file[i])

WholeRow(q) == DOMAIN q = RowFields /\ q.at \in Int

\* A ledger of so many commits: what the indexes keep apart, what repeats, what is flagged.
BookFine(book, n) ==
  /\ IsFiniteSet(book)
  /\ \A q \in book : WholeRow(q) /\ q.born \in 1..n /\ q.after \in 0..(q.born - 1)
  /\ \A q, x \in book : q # x => ~SameKey(q, x)
  /\ \A q, x \in book : q # x /\ q.hash # None /\ q.hash = x.hash => Overlapped(q, x)
  /\ \A q, x \in book :
       q # x /\ x.hash # None /\ NearDuplicate(q, x) /\ q.born <= x.after => x.review

\* Every row with a digest came from a file, and every row of a file is here.
BookIsOfFiles(book, history) ==
  /\ \A q \in book : q.hash # None =>
       \E n \in DOMAIN history : \E i \in Due(history[n]) : ReadFrom(q, history[n], i)
  /\ \A n \in DOMAIN history : \A i \in Due(history[n]) : IsHere(book, Planned(history[n], i))

RequestFields == {"file", "rows", "todo", "seen", "own", "inserted", "skipped", "suspects",
                  "after", "account", "stated"}

\* A request reads one file, and remembers the ledger as it began.
Remembers(w, book, n) ==
  /\ DOMAIN w = RequestFields
  /\ w.file \in Acceptable /\ w.rows \in Uploads
  /\ w.account.asOf \in Int \cup {None}
  /\ w.after \in 0..n
  /\ w.seen \subseteq book
  /\ \A q \in book : q.born <= w.after => q \in w.seen

\* What it has written are rows of its file, each once.
Writes(w) ==
  /\ w.todo \subseteq Due(w.rows)
  /\ IsFiniteSet(w.own)
  /\ \A x \in w.own :
       /\ WholeRow(x) /\ x.after = w.after
       /\ \E i \in Due(w.rows) \ w.todo : ReadFrom(x, w.rows, i)
  /\ \A x, y \in w.own : x # y => ~SameKey(x, y) /\ x.hash # y.hash

\* Each against the ledger: no index refuses it, a row with its digest came too late to
\* be seen, and what it could see of its like has flagged it.
StandsIn(w, book) ==
  \A x \in w.own : \A q \in book :
    /\ ~SameKey(x, q)
    /\ q.hash = x.hash => w.after < q.born
    /\ NearDuplicate(q, x) /\ q.born <= w.after => x.review

\* What it has done with, is here.
DoneWith(w, book) ==
  \A i \in Due(w.rows) \ w.todo : IsHere(book \cup w.own, Planned(w.rows, i))

Errors(file) == {i \in DOMAIN file : ~(Readable(file[i]) /\ file[i].ok)}
Counts(w) ==
  /\ w.inserted \in Nat /\ w.skipped \in Nat /\ w.suspects \in Nat
  /\ w.inserted + w.skipped + Cardinality(Errors(w.rows)) + Cardinality(w.todo) = Len(w.rows)
  /\ w.suspects <= w.inserted
  /\ Cardinality(w.own) = w.inserted

RequestFine(w, book, n) ==
  Remembers(w, book, n) /\ Writes(w) /\ StandsIn(w, book) /\ DoneWith(w, book) /\ Counts(w)

AccountFine ==
  /\ DOMAIN account = {"balance", "asOf", "snaps", "derived"}
  /\ account.asOf \in Int \cup {None}
  /\ account.derived \in BOOLEAN
  /\ account.derived => account.snaps = <<>>

\* No two open requests have written one key.
RequestsApart ==
  \A r, q \in Open : r # q => \A x \in work[r].own, y \in work[q].own : ~SameKey(x, y)

StatementsInv ==
  /\ commits \in Seq(Uploads \cup {<<>>})
  /\ AccountFine
  /\ BookFine(ledger, Len(commits))
  /\ BookIsOfFiles(ledger, commits)
  /\ DOMAIN work = Requests
  /\ \A r \in Open : RequestFine(work[r], ledger, Len(commits))
  /\ RequestsApart

-----------------------------------------------------------------------------
(* A file                                                                  *)

LEMMA UploadIsRows ==
  ASSUME NEW file \in Uploads \cup {<<>>}
  PROVE  /\ Len(file) \in Nat /\ DOMAIN file = 1..Len(file)
         /\ \A i \in Due(file) : i \in Nat /\ Readable(file[i]) /\ file[i].at \in Int
                                   /\ Digest(file, i) # None
         /\ Due(file) \subseteq 1..Len(file)
         /\ IsFiniteSet(Due(file)) /\ IsFiniteSet(Errors(file)) /\ IsFiniteSet(DOMAIN file)
         /\ Cardinality(Due(file)) \in Nat /\ Cardinality(Errors(file)) \in Nat
         /\ Cardinality(Errors(file)) + Cardinality(Due(file)) = Len(file)
<1>1. Len(file) \in Nat /\ DOMAIN file = 1..Len(file)
  <2>1. CASE file \in Uploads BY <2>1, UploadsAssumption
  <2>2. CASE file = <<>> BY <2>2
  <2> QED BY <2>1, <2>2
<1>2. Due(file) \subseteq 1..Len(file) /\ Errors(file) = (1..Len(file)) \ Due(file)
  BY <1>1 DEF Due, Errors
<1>3. \A i \in Due(file) : i \in Nat /\ Readable(file[i]) /\ file[i].at \in Int
                             /\ Digest(file, i) # None
  <2>1. CASE file \in Uploads BY <2>1, <1>1, UploadsAssumption DEF Due
  <2>2. CASE file = <<>> BY <2>2, <1>1, <1>2
  <2> QED BY <2>1, <2>2
<1>4. IsFiniteSet(1..Len(file)) /\ Cardinality(1..Len(file)) = Len(file)
  BY <1>1, FS_Interval
<1>5. IsFiniteSet(Due(file)) /\ IsFiniteSet(Errors(file))
  BY <1>2, <1>4, FS_Subset
<1>6. Cardinality(Due(file)) \in Nat /\ Cardinality(Errors(file)) \in Nat
  BY <1>5, FS_CardinalityType
<1>7. Cardinality(Errors(file)) + Cardinality(Due(file)) = Len(file)
  <2>1. Errors(file) \cup Due(file) = 1..Len(file) /\ Errors(file) \cap Due(file) = {} BY <1>2
  <2>2. Cardinality(Errors(file) \cup Due(file))
          = Cardinality(Errors(file)) + Cardinality(Due(file)) - Cardinality({})
    BY <1>5, <2>1, FS_Union
  <2>3. Cardinality({}) = 0 BY FS_EmptySet
  <2>4. Cardinality(Errors(file) \cup Due(file)) = Len(file) BY <2>1, <1>4
  <2> QED BY <2>2, <2>3, <2>4, <1>1, <1>6
<1> QED BY <1>1, <1>2, <1>3, <1>4, <1>5, <1>6, <1>7

\* The rows alike before a row of a file.
Before(file, i) == {j \in 1..(i - 1) : Readable(file[j]) /\ Identity(file[j]) = Identity(file[i])}

LEMMA BeforeIsFinite ==
  ASSUME NEW file, NEW i \in Nat
  PROVE  IsFiniteSet(Before(file, i)) /\ Cardinality(Before(file, i)) \in Nat
<1>1. IsFiniteSet(1..(i - 1)) BY FS_Interval
<1>2. Before(file, i) \in SUBSET (1..(i - 1)) BY DEF Before
<1>3. IsFiniteSet(Before(file, i)) BY <1>1, <1>2, FS_Subset
<1> QED BY <1>3, FS_CardinalityType

LEMMA DigestIs ==
  ASSUME NEW file, NEW i PROVE Digest(file, i) = <<Identity(file[i]), Cardinality(Before(file, i))>>
BY DEF Digest, Before

\* Rows of a file have digests of their own: the ordinal counts the ones before.
LEMMA EarlierCountsLess ==
  ASSUME NEW file \in Uploads, NEW i \in Due(file), NEW j \in Due(file), i < j,
         Identity(file[i]) = Identity(file[j])
  PROVE  Cardinality(Before(file, i)) < Cardinality(Before(file, j))
<1>1. i \in Nat /\ j \in Nat /\ Readable(file[i]) BY UploadIsRows
<1>2. Before(file, i) \subseteq Before(file, j) BY <1>1 DEF Before
<1>3. i \in Before(file, j) /\ i \notin Before(file, i)
  <2>1. i \in 1..(j - 1)
    <3>1. i \in 1..Len(file) BY UploadIsRows
    <3> QED BY <3>1, <1>1
  <2> QED BY <2>1, <1>1 DEF Before
<1>4. IsFiniteSet(Before(file, i)) /\ Cardinality(Before(file, i)) \in Nat BY <1>1, BeforeIsFinite
<1>5. IsFiniteSet(Before(file, j)) /\ Cardinality(Before(file, j)) \in Nat BY <1>1, BeforeIsFinite
<1>6. Cardinality(Before(file, i)) <= Cardinality(Before(file, j))
        /\ (Cardinality(Before(file, j)) = Cardinality(Before(file, i))
              => Before(file, j) = Before(file, i))
  BY <1>2, <1>5, FS_Subset
<1> QED BY <1>3, <1>4, <1>5, <1>6

LEMMA DigestsDiffer ==
  ASSUME NEW file \in Uploads, NEW i \in Due(file), NEW j \in Due(file), i # j
  PROVE  Digest(file, i) # Digest(file, j)
<1>1. i \in Nat /\ j \in Nat BY UploadIsRows
<1>2. CASE Identity(file[i]) # Identity(file[j]) BY <1>2, DigestIs
<1>3. CASE Identity(file[i]) = Identity(file[j])
  <2>1. CASE i < j
    <3>1. Cardinality(Before(file, i)) < Cardinality(Before(file, j))
      BY <2>1, <1>3, EarlierCountsLess
    <3>2. Cardinality(Before(file, i)) \in Nat /\ Cardinality(Before(file, j)) \in Nat
      BY <1>1, BeforeIsFinite
    <3> QED BY <3>1, <3>2, DigestIs
  <2>2. CASE j < i
    <3>1. Cardinality(Before(file, j)) < Cardinality(Before(file, i))
      BY <2>2, <1>3, EarlierCountsLess
    <3>2. Cardinality(Before(file, i)) \in Nat /\ Cardinality(Before(file, j)) \in Nat
      BY <1>1, BeforeIsFinite
    <3> QED BY <3>1, <3>2, DigestIs
  <2> QED BY <2>1, <2>2, <1>1
<1> QED BY <1>2, <1>3

\* The first of some places.
LEMMA TheFirst ==
  ASSUME NEW n \in Nat, NEW S \in SUBSET (1..n), S # {}
  PROVE  Min(S) \in S
<1> DEFINE T == {n - x : x \in S}
<1>1. T \in SUBSET (0..n) /\ T # {} OBVIOUS
<1>2. PICK t \in T : \A u \in T : t >= u
  <2> HIDE DEF T
  <2> QED BY <1>1, GreatestOne
<1>3. PICK x \in S : t = n - x OBVIOUS
<1>4. \A y \in S : x <= y
  <2> SUFFICES ASSUME NEW y \in S PROVE x <= y OBVIOUS
  <2>1. t >= n - y
    <3>1. n - y \in T OBVIOUS
    <3> QED BY <3>1, <1>2
  <2>2. x \in 1..n /\ y \in 1..n OBVIOUS
  <2> QED BY <2>1, <2>2, <1>3
<1> QED BY <1>3, <1>4 DEF Min

LEMMA SameKeyIsMutual ==
  ASSUME NEW q, NEW x PROVE SameKey(q, x) <=> SameKey(x, q)
BY DEF SameKey

-----------------------------------------------------------------------------
(* Rows that land                                                          *)

\* Rows a ledger of n commits can take together, as its next commit.
CanLand(added, book, n) ==
  /\ IsFiniteSet(added)
  /\ \A a \in added : WholeRow(a) /\ a.born = n + 1 /\ a.after \in 0..n
  /\ \A a, b \in added : a # b => ~SameKey(a, b) /\ (a.hash # None => a.hash # b.hash)
  /\ \A a \in added : \A q \in book :
       /\ ~SameKey(a, q)
       /\ a.hash # None /\ q.hash = a.hash => a.after < q.born
       /\ a.hash # None /\ NearDuplicate(q, a) /\ q.born <= a.after => a.review

LEMMA BookGrows ==
  ASSUME NEW n \in Nat, NEW book, NEW added, BookFine(book, n), CanLand(added, book, n)
  PROVE  BookFine(book \cup added, n + 1)
<1> DEFINE more == book \cup added
<1>1. IsFiniteSet(more) BY FS_Union DEF BookFine, CanLand
<1>2. ASSUME NEW q \in more
      PROVE  WholeRow(q) /\ q.born \in 1..(n + 1) /\ q.after \in 0..(q.born - 1)
  <2>1. CASE q \in book BY <2>1 DEF BookFine
  <2>2. CASE q \in added BY <2>2 DEF CanLand
  <2> QED BY <2>1, <2>2
<1>3. ASSUME NEW q \in more, NEW x \in more, q # x
      PROVE  /\ ~SameKey(q, x)
             /\ q.hash # None /\ q.hash = x.hash => Overlapped(q, x)
             /\ x.hash # None /\ NearDuplicate(q, x) /\ q.born <= x.after => x.review
  <2>1. CASE q \in book /\ x \in book BY <2>1, <1>3 DEF BookFine
  <2>2. CASE q \in book /\ x \in added
    <3>1. q.after < q.born /\ q.born <= n /\ q.after \in Int /\ q.born \in Int
      BY <2>2 DEF BookFine
    <3>2. x.born = n + 1 /\ ~SameKey(x, q)
            /\ (x.hash # None /\ q.hash = x.hash => x.after < q.born)
            /\ (x.hash # None /\ NearDuplicate(q, x) /\ q.born <= x.after => x.review)
      BY <2>2 DEF CanLand
    <3> QED BY <3>1, <3>2, SameKeyIsMutual DEF Overlapped
  <2>3. CASE q \in added /\ x \in book
    <3>1. x.after < x.born /\ x.born <= n /\ x.after \in Int /\ x.born \in Int
      BY <2>3 DEF BookFine
    <3>2. q.born = n + 1 /\ ~SameKey(q, x)
            /\ (q.hash # None /\ x.hash = q.hash => q.after < x.born)
      BY <2>3 DEF CanLand
    <3> QED BY <3>1, <3>2 DEF Overlapped
  <2>4. CASE q \in added /\ x \in added
    <3>1. q.born = n + 1 /\ x.after \in 0..n BY <2>4 DEF CanLand
    <3>2. ~SameKey(q, x) /\ (q.hash # None => q.hash # x.hash) BY <2>4, <1>3 DEF CanLand
    <3> QED BY <3>1, <3>2
  <2> QED BY <2>1, <2>2, <2>3, <2>4
<1> QED BY <1>1, <1>2, <1>3 DEF BookFine

LEMMA FilesGrow ==
  ASSUME NEW history \in Seq(Uploads \cup {<<>>}), NEW file \in Uploads \cup {<<>>},
         NEW book, NEW added, BookIsOfFiles(book, history),
         \A a \in added : a.hash # None => \E i \in Due(file) : ReadFrom(a, file, i),
         \A i \in Due(file) : IsHere(book \cup added, Planned(file, i))
  PROVE  BookIsOfFiles(book \cup added, Append(history, file))
<1> DEFINE more == Append(history, file)
<1>1. DOMAIN more = 1..(Len(history) + 1) /\ DOMAIN history = 1..Len(history) /\ Len(history) \in Nat
        /\ (\A n \in 1..Len(history) : more[n] = history[n]) /\ more[Len(history) + 1] = file
  BY AppendProperties
<1>2. ASSUME NEW q \in book \cup added, q.hash # None
      PROVE  \E n \in DOMAIN more : \E i \in Due(more[n]) : ReadFrom(q, more[n], i)
  <2>1. CASE q \in book
    <3>1. PICK n \in DOMAIN history : \E i \in Due(history[n]) : ReadFrom(q, history[n], i)
      BY <2>1, <1>2 DEF BookIsOfFiles
    <3>2. n \in DOMAIN more /\ more[n] = history[n] BY <1>1
    <3> QED BY <3>1, <3>2
  <2>2. CASE q \in added
    <3>1. Len(history) + 1 \in DOMAIN more BY <1>1
    <3> QED BY <2>2, <1>2, <1>1, <3>1
  <2> QED BY <2>1, <2>2
<1>3. ASSUME NEW n \in DOMAIN more, NEW i \in Due(more[n])
      PROVE  IsHere(book \cup added, Planned(more[n], i))
  <2>1. CASE n \in DOMAIN history
    <3>1. more[n] = history[n] BY <2>1, <1>1
    <3>2. IsHere(book, Planned(history[n], i)) BY <2>1, <3>1, <1>3 DEF BookIsOfFiles
    <3> QED BY <3>1, <3>2 DEF IsHere
  <2>2. CASE n = Len(history) + 1 BY <2>2, <1>1, <1>3
  <2> QED BY <2>1, <2>2, <1>1
<1> QED BY <1>2, <1>3 DEF BookIsOfFiles

\* An open request is none the worse for what lands beside it.
LEMMA FineBesideALanding ==
  ASSUME NEW n \in Nat, NEW book, NEW added, NEW w, RequestFine(w, book, n),
         \A a \in added : a.born = n + 1 /\ \A x \in w.own : ~SameKey(x, a)
  PROVE  RequestFine(w, book \cup added, n + 1)
<1>1. w.after \in 0..n BY DEF RequestFine, Remembers
<1>2. Remembers(w, book \cup added, n + 1)
  <2>1. ASSUME NEW q \in book \cup added, q.born <= w.after PROVE q \in w.seen
    <3>1. q \in book BY <2>1, <1>1
    <3> QED BY <3>1, <2>1 DEF RequestFine, Remembers
  <2> QED BY <2>1, <1>1 DEF RequestFine, Remembers
<1>3. StandsIn(w, book \cup added)
  <2>1. ASSUME NEW x \in w.own, NEW q \in book \cup added
        PROVE  /\ ~SameKey(x, q)
               /\ q.hash = x.hash => w.after < q.born
               /\ NearDuplicate(q, x) /\ q.born <= w.after => x.review
    <3>1. CASE q \in book BY <3>1 DEF RequestFine, StandsIn
    <3>2. CASE q \in added BY <3>2, <1>1
    <3> QED BY <3>1, <3>2
  <2> QED BY <2>1 DEF StandsIn
<1>4. DoneWith(w, book \cup added)
  <2>1. ASSUME NEW i \in Due(w.rows) \ w.todo
        PROVE  IsHere((book \cup added) \cup w.own, Planned(w.rows, i))
    <3>1. IsHere(book \cup w.own, Planned(w.rows, i)) BY DEF RequestFine, DoneWith
    <3> QED BY <3>1 DEF IsHere
  <2> QED BY <2>1 DEF DoneWith
<1> QED BY <1>2, <1>3, <1>4 DEF RequestFine

-----------------------------------------------------------------------------
(* The steps of a request                                                  *)

\* A step of one request that leaves the ledger alone keeps the invariant, if the
\* request is fine after it and none has written a key another has.
LEMMA OneRequestMoves ==
  ASSUME StatementsInv, NEW r \in Requests, NEW w, work' = [work EXCEPT ![r] = w],
         UNCHANGED <<ledger, account, commits>>,
         w # None => RequestFine(w, ledger, Len(commits)),
         w # None => \A q \in Open \ {r} : \A x \in w.own, y \in work[q].own : ~SameKey(x, y)
  PROVE  StatementsInv'
<1>1. DOMAIN work' = Requests /\ work'[r] = w /\ \A q \in Requests \ {r} : work'[q] = work[q]
  BY DEF StatementsInv
<1>2. AccountFine' BY DEF StatementsInv, AccountFine
<1>3. ASSUME NEW q \in Requests, work'[q] # None PROVE RequestFine(work'[q], ledger, Len(commits))
  BY <1>1, <1>3 DEF StatementsInv, Open
<1>4. RequestsApart'
  <2>1. ASSUME NEW p \in Requests, NEW q \in Requests, p # q, work'[p] # None, work'[q] # None,
               NEW x \in work'[p].own, NEW y \in work'[q].own
        PROVE  ~SameKey(x, y)
    <3>1. CASE p = r
      <4>1. q \in Open \ {r} /\ y \in work[q].own /\ x \in w.own BY <3>1, <2>1, <1>1 DEF Open
      <4> QED BY <4>1, <3>1, <2>1, <1>1
    <3>2. CASE q = r
      <4>1. p \in Open \ {r} /\ x \in work[p].own /\ y \in w.own BY <3>2, <2>1, <1>1 DEF Open
      <4>2. ~SameKey(y, x) BY <4>1, <3>2, <2>1, <1>1
      <4> QED BY <4>2, SameKeyIsMutual
    <3>3. CASE p # r /\ q # r
      BY <3>3, <2>1, <1>1 DEF StatementsInv, RequestsApart, Open
    <3> QED BY <3>1, <3>2, <3>3
  <2> QED BY <2>1 DEF RequestsApart, Open
<1> QED BY <1>1, <1>2, <1>3, <1>4 DEF StatementsInv, Open

LEMMA BeginFine ==
  ASSUME StatementsInv, NEW r \in Requests, NEW file \in Files, NEW dayfirst \in BOOLEAN,
         NEW fallback \in Fallbacks, Begin(r, file, dayfirst, fallback)
  PROVE  StatementsInv'
<1> DEFINE list == FileRows(file, dayfirst, fallback)
           stated == file.kind = "csv" \/ LedgerBalance(file) = None
           w == [file |-> file, rows |-> list, todo |-> Due(list), seen |-> ledger, own |-> {},
                 inserted |-> 0, skipped |-> 0, suspects |-> 0, after |-> Len(commits),
                 account |-> account, stated |-> stated]
<1>1. work' = [work EXCEPT ![r] = w] /\ UNCHANGED <<ledger, account, commits>> /\ file \in Acceptable
  BY DEF Begin, Acceptable
<1>2. list \in Uploads BY <1>1 DEF Uploads
<1>3. Len(commits) \in Nat BY LenProperties DEF StatementsInv
<1> HIDE DEF list, stated
<1>4. /\ w.file = file /\ w.rows = list /\ w.todo = Due(list) /\ w.seen = ledger /\ w.own = {}
      /\ w.inserted = 0 /\ w.skipped = 0 /\ w.suspects = 0 /\ w.after = Len(commits)
      /\ w.account = account /\ DOMAIN w = RequestFields
  BY DEF RequestFields
<1> HIDE DEF w
<1>5. Remembers(w, ledger, Len(commits))
  BY <1>1, <1>2, <1>3, <1>4 DEF Remembers, StatementsInv, AccountFine
<1>6. Writes(w)
  <2>1. IsFiniteSet({}) BY FS_EmptySet
  <2> QED BY <1>4, <2>1 DEF Writes
<1>7. StandsIn(w, ledger) /\ DoneWith(w, ledger) BY <1>4 DEF StandsIn, DoneWith
<1>8. Counts(w)
  <2>1. Cardinality({}) = 0 BY FS_EmptySet
  <2>2. /\ Len(list) \in Nat /\ Cardinality(Due(list)) \in Nat /\ Cardinality(Errors(list)) \in Nat
        /\ Cardinality(Errors(list)) + Cardinality(Due(list)) = Len(list)
    BY <1>2, UploadIsRows
  <2> QED BY <1>4, <2>1, <2>2 DEF Counts
<1>9. RequestFine(w, ledger, Len(commits)) BY <1>5, <1>6, <1>7, <1>8 DEF RequestFine
<1> QED BY <1>1, <1>4, <1>9, OneRequestMoves

LEMMA StateBalanceFine ==
  ASSUME StatementsInv, NEW r \in Requests, StateBalance(r) PROVE StatementsInv'
<1> DEFINE old == work[r]
           w == [old EXCEPT !.stated = TRUE]
<1>1. r \in Open /\ work' = [work EXCEPT ![r] = w] /\ UNCHANGED <<ledger, account, commits>>
  BY DEF StateBalance, Open, StatementsInv
<1>2. RequestFine(old, ledger, Len(commits)) BY <1>1 DEF StatementsInv
<1>3. DOMAIN old = RequestFields BY <1>2 DEF RequestFine, Remembers
<1> HIDE DEF old
<1>4. /\ w.file = old.file /\ w.rows = old.rows /\ w.todo = old.todo /\ w.seen = old.seen
      /\ w.own = old.own /\ w.inserted = old.inserted /\ w.skipped = old.skipped
      /\ w.suspects = old.suspects /\ w.after = old.after /\ w.account = old.account
      /\ DOMAIN w = RequestFields
  BY <1>3 DEF RequestFields
<1> HIDE DEF w
<1>5. RequestFine(w, ledger, Len(commits))
  BY <1>2, <1>4 DEF RequestFine, Remembers, Writes, StandsIn, DoneWith, Counts
<1>6. \A q \in Open \ {r} : \A x \in w.own, y \in work[q].own : ~SameKey(x, y)
  BY <1>1, <1>4 DEF StatementsInv, RequestsApart, old
<1> QED BY <1>1, <1>5, <1>6, OneRequestMoves

LEMMA RollBackFine ==
  ASSUME StatementsInv, NEW r \in Requests, RollBack(r) PROVE StatementsInv'
BY OneRequestMoves DEF RollBack

\* What putting a row in does.
LEMMA PutIs ==
  ASSUME StatementsInv, NEW r \in Requests, PutRow(r)
  PROVE  \E i \in work[r].todo : \E w :
           LET old  == work[r]
               x    == Planned(old.rows, i)
               skip == SeenBy(old.seen, x) \/ \E q \in Visible(r) : SameKey(q, x)
           IN /\ r \in Open
              /\ work' = [work EXCEPT ![r] = w] /\ UNCHANGED <<ledger, account, commits>>
              /\ DOMAIN w = RequestFields /\ w.todo = old.todo \ {i}
              /\ w.file = old.file /\ w.rows = old.rows /\ w.seen = old.seen
              /\ w.after = old.after /\ w.account = old.account
              /\ skip => /\ w.own = old.own /\ w.inserted = old.inserted
                         /\ w.skipped = old.skipped + 1 /\ w.suspects = old.suspects
              /\ ~skip => /\ w.own = old.own \cup {CreatedRow(r, x)} /\ w.inserted = old.inserted + 1
                          /\ w.skipped = old.skipped /\ w.suspects \in {old.suspects, old.suspects + 1}
                          /\ \A q \in Open \ {r} : \A y \in work[q].own : ~SameKey(y, x)
<1> DEFINE old  == work[r]
           i    == Min(old.todo)
           x    == Planned(old.rows, i)
           skip == SeenBy(old.seen, x) \/ \E q \in Visible(r) : SameKey(q, x)
           near == \E q \in Visible(r) : NearDuplicate(q, x)
           w    == [old EXCEPT !.todo = @ \ {Min(@)},
                               !.skipped = IF skip THEN @ + 1 ELSE @,
                               !.inserted = IF skip THEN @ ELSE @ + 1,
                               !.suspects = IF ~skip /\ near THEN @ + 1 ELSE @,
                               !.own = IF skip THEN @ ELSE @ \cup {CreatedRow(r, x)}]
<1>1. r \in Open /\ old.todo # {} BY DEF PutRow, Ready, Open
<1>2. RequestFine(old, ledger, Len(commits)) BY <1>1 DEF StatementsInv
<1>3. DOMAIN old = RequestFields /\ old.rows \in Uploads /\ old.todo \subseteq Due(old.rows)
  BY <1>2 DEF RequestFine, Remembers, Writes
<1>4. i \in old.todo
  <2>1. Due(old.rows) \subseteq 1..Len(old.rows) /\ Len(old.rows) \in Nat BY <1>3, UploadIsRows
  <2>2. old.todo \in SUBSET (1..Len(old.rows)) BY <1>3, <2>1
  <2> QED BY <1>1, <2>1, <2>2, TheFirst
<1>5. work' = [work EXCEPT ![r] = w] /\ UNCHANGED <<ledger, account, commits>>
  BY DEF PutRow, NextRow
<1>6. ~skip => \A q \in Open \ {r} : \A y \in work[q].own : ~SameKey(y, x)
  BY DEF PutRow, Blocked, Awaits, NextRow, Open
<1> HIDE DEF old, i, x, skip, near
<1>7. /\ DOMAIN w = RequestFields /\ w.todo = old.todo \ {i}
      /\ w.file = old.file /\ w.rows = old.rows /\ w.seen = old.seen
      /\ w.after = old.after /\ w.account = old.account
  BY <1>3 DEF RequestFields, i
<1>8. skip => /\ w.own = old.own /\ w.inserted = old.inserted
              /\ w.skipped = old.skipped + 1 /\ w.suspects = old.suspects
  BY <1>3 DEF RequestFields
<1>9. ~skip => /\ w.own = old.own \cup {CreatedRow(r, x)} /\ w.inserted = old.inserted + 1
               /\ w.skipped = old.skipped /\ w.suspects \in {old.suspects, old.suspects + 1}
  BY <1>3 DEF RequestFields
<1> HIDE DEF w
<1>10. i \in work[r].todo BY <1>4 DEF old
<1> WITNESS i \in work[r].todo
<1> WITNESS w
<1> QED BY <1>1, <1>5, <1>6, <1>7, <1>8, <1>9 DEF old, x, skip

LEMMA CreatedIs ==
  ASSUME StatementsInv, NEW r \in Open, NEW i \in Due(work[r].rows), NEW y,
         y = CreatedRow(r, Planned(work[r].rows, i))
  PROVE  /\ WholeRow(y) /\ y.after = work[r].after /\ ReadFrom(y, work[r].rows, i)
         /\ y.ext = work[r].rows[i].ext /\ y.hash # None
         /\ \A q \in Visible(r) : NearDuplicate(q, y) => y.review
<1> DEFINE file == work[r].rows
           x == Planned(file, i)
<1>1. work[r].rows \in Uploads BY DEF StatementsInv, RequestFine, Remembers, Open
<1>2. file[i].at \in Int /\ Digest(file, i) # None BY <1>1, UploadIsRows
<1>3. /\ x.at = file[i].at /\ x.amount = file[i].amount /\ x.text = file[i].text
      /\ x.ext = file[i].ext /\ x.hash = Digest(file, i)
  BY DEF Planned
<1> HIDE DEF x
<1>4. /\ DOMAIN y = RowFields /\ y.at = x.at /\ y.amount = x.amount /\ y.text = x.text
      /\ y.ext = x.ext /\ y.hash = x.hash /\ y.after = work[r].after
      /\ y.review = ((\E q \in Visible(r) : NearDuplicate(q, x)) \/ x.category = None)
  BY DEF CreatedRow, RowFields, x
<1>5. Identity(y) = Identity(file[i]) BY <1>3, <1>4 DEF Identity
<1>6. \A q \in Visible(r) : NearDuplicate(q, y) => y.review BY <1>4 DEF NearDuplicate
<1> QED BY <1>2, <1>3, <1>4, <1>5, <1>6 DEF WholeRow, ReadFrom

LEMMA KnownIsHere ==
  ASSUME NEW book, NEW x, \/ SeenBy(book, x)
                          \/ \E q \in book : SameKey(q, x)
  PROVE  IsHere(book, x)
BY DEF IsHere, SeenBy, SameKey

LEMMA OneDone ==
  ASSUME NEW a \in Nat, NEW b \in Nat, NEW e \in Nat, NEW t \in Nat, NEW n, a + b + e + t = n
  PROVE  a + (b + 1) + e + (t - 1) = n /\ (a + 1) + b + e + (t - 1) = n
OBVIOUS

LEMMA PutRowFine ==
  ASSUME StatementsInv, NEW r \in Requests, PutRow(r) PROVE StatementsInv'
<1> DEFINE old  == work[r]
           n    == Len(commits)
           X(i) == Planned(old.rows, i)
           Skip(i) == SeenBy(old.seen, X(i)) \/ \E q \in Visible(r) : SameKey(q, X(i))
<1>1. PICK i \in old.todo : \E w :
        /\ r \in Open
        /\ work' = [work EXCEPT ![r] = w] /\ UNCHANGED <<ledger, account, commits>>
        /\ DOMAIN w = RequestFields /\ w.todo = old.todo \ {i}
        /\ w.file = old.file /\ w.rows = old.rows /\ w.seen = old.seen
        /\ w.after = old.after /\ w.account = old.account
        /\ Skip(i) => /\ w.own = old.own /\ w.inserted = old.inserted
                      /\ w.skipped = old.skipped + 1 /\ w.suspects = old.suspects
        /\ ~Skip(i) => /\ w.own = old.own \cup {CreatedRow(r, X(i))}
                       /\ w.inserted = old.inserted + 1 /\ w.skipped = old.skipped
                       /\ w.suspects \in {old.suspects, old.suspects + 1}
                       /\ \A q \in Open \ {r} : \A y \in work[q].own : ~SameKey(y, X(i))
  BY PutIs
<1> DEFINE x == X(i)
           y == CreatedRow(r, x)
           skip == Skip(i)
<1>2. PICK w :
        /\ r \in Open
        /\ work' = [work EXCEPT ![r] = w] /\ UNCHANGED <<ledger, account, commits>>
        /\ DOMAIN w = RequestFields /\ w.todo = old.todo \ {i}
        /\ w.file = old.file /\ w.rows = old.rows /\ w.seen = old.seen
        /\ w.after = old.after /\ w.account = old.account
        /\ skip => /\ w.own = old.own /\ w.inserted = old.inserted
                   /\ w.skipped = old.skipped + 1 /\ w.suspects = old.suspects
        /\ ~skip => /\ w.own = old.own \cup {y}
                    /\ w.inserted = old.inserted + 1 /\ w.skipped = old.skipped
                    /\ w.suspects \in {old.suspects, old.suspects + 1}
                    /\ \A q \in Open \ {r} : \A z \in work[q].own : ~SameKey(z, x)
  BY <1>1
<1>3. RequestFine(old, ledger, n) BY <1>2 DEF StatementsInv
<1>4. /\ old.rows \in Uploads /\ old.todo \subseteq Due(old.rows) /\ i \in Due(old.rows)
      /\ old.seen \subseteq ledger /\ Visible(r) = ledger \cup old.own
  BY <1>3 DEF RequestFine, Remembers, Writes, Visible
<1>5. /\ WholeRow(y) /\ y.after = old.after /\ ReadFrom(y, old.rows, i)
      /\ y.ext = old.rows[i].ext /\ y.hash # None
      /\ \A q \in Visible(r) : NearDuplicate(q, y) => y.review
  BY <1>2, <1>4, CreatedIs
<1>6. x.ext = old.rows[i].ext /\ x.hash = Digest(old.rows, i) BY DEF Planned
<1>7. y.hash = x.hash /\ y.ext = x.ext BY <1>5, <1>6 DEF ReadFrom
<1>8. /\ IsFiniteSet(old.todo) /\ Cardinality(w.todo) = Cardinality(old.todo) - 1
      /\ Cardinality(old.todo) \in Nat /\ Cardinality(Errors(old.rows)) \in Nat
      /\ Len(old.rows) \in Nat /\ Cardinality(w.todo) \in Nat
  <2>1. IsFiniteSet(Due(old.rows)) /\ Cardinality(Errors(old.rows)) \in Nat /\ Len(old.rows) \in Nat
    BY <1>4, UploadIsRows
  <2>2. IsFiniteSet(old.todo) BY <2>1, <1>4, FS_Subset
  <2>3. Cardinality(old.todo) \in Nat BY <2>2, FS_CardinalityType
  <2>4. IsFiniteSet(w.todo) /\ Cardinality(w.todo) = Cardinality(old.todo) - 1
    BY <2>2, <1>2, FS_RemoveElement
  <2>5. Cardinality(w.todo) \in Nat BY <2>4, FS_CardinalityType
  <2> QED BY <2>1, <2>2, <2>3, <2>4, <2>5
<1> HIDE DEF old, x, y, skip, X, Skip
<1>9. /\ old.inserted \in Nat /\ old.skipped \in Nat /\ old.suspects \in Nat
       /\ old.inserted + old.skipped + Cardinality(Errors(old.rows)) + Cardinality(old.todo)
            = Len(old.rows)
       /\ old.suspects <= old.inserted /\ Cardinality(old.own) = old.inserted
  BY <1>3 DEF RequestFine, Counts
<1>10. Cardinality(Errors(w.rows)) = Cardinality(Errors(old.rows)) /\ Len(w.rows) = Len(old.rows)
  BY <1>2
<1>11. Remembers(w, ledger, n) BY <1>2, <1>3 DEF RequestFine, Remembers
<1>12. Due(w.rows) \ w.todo = (Due(old.rows) \ old.todo) \cup {i} BY <1>2, <1>4
<1>13. CASE skip
  <2>1. Writes(w)
    BY <1>2, <1>3, <1>13 DEF RequestFine, Writes
  <2>2. StandsIn(w, ledger) BY <1>2, <1>3, <1>13 DEF RequestFine, StandsIn
  <2>3. IsHere(ledger \cup old.own, x)
    <3>1. SeenBy(old.seen, x) \/ \E q \in ledger \cup old.own : SameKey(q, x)
      BY <1>13, <1>4 DEF skip, Skip, x
    <3>2. CASE SeenBy(old.seen, x)
      <4>1. IsHere(old.seen, x) BY <3>2, KnownIsHere
      <4> QED BY <4>1, <1>4 DEF IsHere
    <3> QED BY <3>1, <3>2, KnownIsHere
  <2>4. DoneWith(w, ledger)
    <3>1. ASSUME NEW j \in Due(w.rows) \ w.todo
          PROVE  IsHere(ledger \cup w.own, Planned(w.rows, j))
      <4>1. CASE j = i BY <4>1, <2>3, <1>2, <1>13 DEF x, X
      <4>2. CASE j # i
        <5>1. j \in Due(old.rows) \ old.todo BY <4>2, <1>12, <3>1
        <5> QED BY <5>1, <1>2, <1>3, <1>13 DEF RequestFine, DoneWith
      <4> QED BY <4>1, <4>2
    <3> QED BY <3>1 DEF DoneWith
  <2>5. Counts(w)
    <3>1. w.own = old.own /\ w.inserted = old.inserted /\ w.skipped = old.skipped + 1
            /\ w.suspects = old.suspects
      BY <1>2, <1>13
    <3> DEFINE a == old.inserted
               b == old.skipped
               e == Cardinality(Errors(old.rows))
               t == Cardinality(old.todo)
               all == Len(old.rows)
    <3>2. a + (b + 1) + e + (t - 1) = all
      <4>1. a \in Nat /\ b \in Nat /\ e \in Nat /\ t \in Nat /\ a + b + e + t = all
        BY <1>8, <1>9
      <4> HIDE DEF a, b, e, t, all
      <4> QED BY <4>1, OneDone
    <3>3. w.inserted + w.skipped + Cardinality(Errors(w.rows)) + Cardinality(w.todo) = Len(w.rows)
      BY <3>1, <3>2, <1>8, <1>10, Zenon
    <3> QED BY <3>1, <3>3, <1>9 DEF Counts
  <2>6. RequestFine(w, ledger, n) BY <1>11, <2>1, <2>2, <2>4, <2>5 DEF RequestFine
  <2>7. \A q \in Open \ {r} : \A z \in w.own, v \in work[q].own : ~SameKey(z, v)
    BY <1>2, <1>13 DEF StatementsInv, RequestsApart, old
  <2> QED BY <2>6, <2>7, <1>2, OneRequestMoves DEF n
<1>14. CASE ~skip
  <2>1. w.own = old.own \cup {y} BY <1>2, <1>14
  <2>2. \A q \in ledger \cup old.own : ~SameKey(q, x) BY <1>14, <1>4 DEF skip, Skip, x
  <2>3. \A q : SameKey(q, x) <=> SameKey(q, y) BY <1>7 DEF SameKey
  <2>4. \A q \in ledger \cup old.own : ~SameKey(q, y) /\ ~SameKey(y, q)
    BY <2>2, <2>3, SameKeyIsMutual
  <2>5. \A z \in old.own : z.hash # y.hash
    <3> SUFFICES ASSUME NEW z \in old.own PROVE z.hash # y.hash OBVIOUS
    <3>1. PICK j \in Due(old.rows) \ old.todo : ReadFrom(z, old.rows, j)
      BY <1>3 DEF RequestFine, Writes
    <3>2. i # j /\ z.hash = Digest(old.rows, j) /\ y.hash = Digest(old.rows, i)
      BY <3>1, <1>1, <1>5 DEF ReadFrom, old
    <3> QED BY <3>1, <3>2, <1>4, DigestsDiffer
  <2>6. y \notin old.own BY <2>5
  <2>7. Writes(w)
    <3>1. w.todo \subseteq Due(w.rows) BY <1>2, <1>4
    <3>2. IsFiniteSet(w.own) BY <2>1, <1>3, FS_AddElement DEF RequestFine, Writes
    <3>3. ASSUME NEW z \in w.own
          PROVE  WholeRow(z) /\ z.after = w.after /\ \E j \in Due(w.rows) \ w.todo : ReadFrom(z, w.rows, j)
      <4>1. CASE z = y BY <4>1, <1>5, <1>2, <1>12
      <4>2. CASE z \in old.own
        <5>1. PICK j \in Due(old.rows) \ old.todo : ReadFrom(z, old.rows, j)
          BY <4>2, <1>3 DEF RequestFine, Writes
        <5>2. j \in Due(w.rows) \ w.todo /\ ReadFrom(z, w.rows, j) BY <5>1, <1>12, <1>2
        <5> QED BY <4>2, <5>2, <1>2, <1>3 DEF RequestFine, Writes
      <4> QED BY <4>1, <4>2, <2>1
    <3>4. \A z, v \in w.own : z # v => ~SameKey(z, v) /\ z.hash # v.hash
      BY <2>1, <2>4, <2>5, <1>3 DEF RequestFine, Writes
    <3> QED BY <3>1, <3>2, <3>3, <3>4 DEF Writes
  <2>8. StandsIn(w, ledger)
    <3>1. ASSUME NEW q \in ledger
          PROVE  /\ ~SameKey(y, q)
                 /\ q.hash = y.hash => w.after < q.born
                 /\ NearDuplicate(q, y) => y.review
      <4>1. ~SameKey(y, q) BY <2>4
      <4>2. ASSUME q.hash = y.hash PROVE w.after < q.born
        <5> SUFFICES ASSUME ~(w.after < q.born) PROVE FALSE OBVIOUS
        <5>1. q.born \in Int /\ w.after \in Int
          BY <1>11 DEF Remembers, StatementsInv, BookFine
        <5>2. q.born <= w.after BY <5>1
        <5>3. q \in w.seen BY <5>2, <1>11 DEF Remembers
        <5>4. SeenBy(old.seen, x) BY <5>3, <4>2, <1>5, <1>7, <1>2 DEF SeenBy
        <5> QED BY <5>4, <1>14 DEF skip, Skip, x
      <4>3. NearDuplicate(q, y) => y.review BY <1>4, <1>5
      <4> QED BY <4>1, <4>2, <4>3
    <3>2. ASSUME NEW z \in old.own, NEW q \in ledger
          PROVE  /\ ~SameKey(z, q)
                 /\ q.hash = z.hash => w.after < q.born
                 /\ NearDuplicate(q, z) /\ q.born <= w.after => z.review
      BY <1>2, <1>3 DEF RequestFine, StandsIn
    <3> QED BY <3>1, <3>2, <2>1 DEF StandsIn
  <2>9. DoneWith(w, ledger)
    <3>1. ASSUME NEW j \in Due(w.rows) \ w.todo
          PROVE  IsHere(ledger \cup w.own, Planned(w.rows, j))
      <4>1. CASE j = i
        <5>1. y \in w.own /\ y.hash = Planned(w.rows, j).hash
          BY <4>1, <2>1, <1>2, <1>7 DEF x, X
        <5> QED BY <5>1 DEF IsHere
      <4>2. CASE j # i
        <5>1. j \in Due(old.rows) \ old.todo BY <4>2, <1>12, <3>1
        <5>2. IsHere(ledger \cup old.own, Planned(w.rows, j))
          BY <5>1, <1>2, <1>3 DEF RequestFine, DoneWith
        <5> QED BY <5>2, <2>1 DEF IsHere
      <4> QED BY <4>1, <4>2
    <3> QED BY <3>1 DEF DoneWith
  <2>10. Counts(w)
    <3>1. Cardinality(w.own) = Cardinality(old.own) + 1
      BY <2>1, <2>6, <1>3, FS_AddElement DEF RequestFine, Writes
    <3>2. w.inserted = old.inserted + 1 /\ w.skipped = old.skipped
            /\ w.suspects \in {old.suspects, old.suspects + 1}
      BY <1>2, <1>14
    <3> DEFINE a == old.inserted
               b == old.skipped
               e == Cardinality(Errors(old.rows))
               t == Cardinality(old.todo)
               all == Len(old.rows)
    <3>3. (a + 1) + b + e + (t - 1) = all
      <4>1. a \in Nat /\ b \in Nat /\ e \in Nat /\ t \in Nat /\ a + b + e + t = all
        BY <1>8, <1>9
      <4> HIDE DEF a, b, e, t, all
      <4> QED BY <4>1, OneDone
    <3>5. w.inserted + w.skipped + Cardinality(Errors(w.rows)) + Cardinality(w.todo) = Len(w.rows)
      BY <3>2, <3>3, <1>8, <1>10, Zenon
    <3>4. w.suspects \in Nat /\ w.suspects <= w.inserted BY <3>2, <1>9
    <3> QED BY <3>1, <3>2, <3>5, <3>4, <1>9 DEF Counts
  <2>11. RequestFine(w, ledger, n) BY <1>11, <2>7, <2>8, <2>9, <2>10 DEF RequestFine
  <2>12. \A q \in Open \ {r} : \A z \in w.own, v \in work[q].own : ~SameKey(z, v)
    <3> SUFFICES ASSUME NEW q \in Open \ {r}, NEW z \in w.own, NEW v \in work[q].own
                 PROVE  ~SameKey(z, v)
      OBVIOUS
    <3>1. CASE z = y
      <4>1. ~SameKey(v, x) BY <1>2, <1>14
      <4> QED BY <4>1, <3>1, <2>3, SameKeyIsMutual
    <3>2. CASE z \in old.own
      BY <3>2, <1>2 DEF StatementsInv, RequestsApart, old
    <3> QED BY <3>1, <3>2, <2>1
  <2> QED BY <2>11, <2>12, <1>2, OneRequestMoves DEF n
<1> QED BY <1>13, <1>14

LEMMA BornIs ==
  ASSUME NEW x, WholeRow(x), NEW b, NEW y, y = [x EXCEPT !.born = b]
  PROVE  /\ WholeRow(y) /\ y.born = b /\ y.after = x.after
         /\ y.hash = x.hash /\ y.ext = x.ext /\ y.review = x.review
         /\ y.amount = x.amount /\ y.at = x.at /\ Identity(y) = Identity(x)
<1>1. DOMAIN y = RowFields BY DEF WholeRow
<1>2. y.born = b /\ y.after = x.after /\ y.hash = x.hash /\ y.ext = x.ext /\ y.review = x.review
        /\ y.amount = x.amount /\ y.at = x.at /\ y.text = x.text
  BY DEF WholeRow, RowFields
<1> QED BY <1>1, <1>2 DEF WholeRow, Identity

\* What becomes of the account when a balance is recorded.
LEMMA RecordIs ==
  ASSUME AccountFine, NEW seen, NEW amount, NEW on,
         NEW new, new = RecordBalance(seen, account, amount, on, ~account.derived)
  PROVE  /\ DOMAIN new = DOMAIN account /\ new.derived = account.derived
         /\ BecomesCurrent(seen, on) => new.asOf = on /\ new.balance = amount
         /\ ~BecomesCurrent(seen, on) => new.asOf = account.asOf /\ new.balance = account.balance
         /\ new.snaps = IF account.derived THEN account.snaps ELSE Put(account.snaps, on, amount)
<1> DEFINE set == [account EXCEPT !.balance = amount, !.asOf = on]
           moved == IF BecomesCurrent(seen, on) THEN set ELSE account
<1>1. DOMAIN set = DOMAIN account /\ set.derived = account.derived /\ set.snaps = account.snaps
        /\ set.asOf = on /\ set.balance = amount
  BY DEF AccountFine
<1> HIDE DEF set
<1>2. /\ DOMAIN moved = DOMAIN account /\ moved.derived = account.derived
      /\ moved.snaps = account.snaps
      /\ BecomesCurrent(seen, on) => moved.asOf = on /\ moved.balance = amount
      /\ ~BecomesCurrent(seen, on) => moved.asOf = account.asOf /\ moved.balance = account.balance
  BY <1>1
<1>3. new = IF ~account.derived THEN Snapshotted(moved, on, amount) ELSE moved
  BY DEF RecordBalance, set
<1> HIDE DEF moved
<1> DEFINE put == [moved EXCEPT !.snaps = Put(@, on, amount)]
<1>4. DOMAIN put = DOMAIN account /\ put.derived = moved.derived /\ put.asOf = moved.asOf
        /\ put.balance = moved.balance /\ put.snaps = Put(moved.snaps, on, amount)
  BY <1>2 DEF AccountFine
<1>5. put = Snapshotted(moved, on, amount) BY DEF Snapshotted
<1> HIDE DEF put
<1>6. CASE account.derived BY <1>6, <1>2, <1>3
<1>7. CASE ~account.derived
  <2>1. new = put BY <1>7, <1>3, <1>5
  <2>2. new.snaps = Put(account.snaps, on, amount) BY <2>1, <1>4, <1>2
  <2> QED BY <2>1, <2>2, <1>7, <1>4, <1>2
<1> QED BY <1>6, <1>7

\* The day a statement states its balance on is a day.
LEMMA StatedOnADay ==
  ASSUME StatementsInv, NEW r \in Open, HasBalance(r) PROVE StatedOn(r) \in Int
<1>1. work[r].file \in Acceptable BY DEF StatementsInv, RequestFine, Remembers
<1> QED BY <1>1, BalancesAssumption DEF HasBalance, StatedOn

LEMMA AccountStays ==
  ASSUME StatementsInv, NEW r \in Open, Commit(r) PROVE AccountFine'
<1>1. CASE ~HasBalance(r)
  <2>1. account' = account BY <1>1 DEF Commit
  <2> QED BY <2>1 DEF StatementsInv, AccountFine
<1>2. CASE HasBalance(r)
  <2>1. account' = RecordBalance(work[r].account, account, LedgerBalance(work[r].file).amount,
                                 StatedOn(r), ~account.derived)
    BY <1>2 DEF Commit
  <2>2. AccountFine BY DEF StatementsInv
  <2>3. /\ DOMAIN account' = DOMAIN account /\ account'.derived = account.derived
        /\ account'.asOf \in {account.asOf, StatedOn(r)}
        /\ account.derived => account'.snaps = account.snaps
    BY <2>1, <2>2, RecordIs
  <2>4. StatedOn(r) \in Int BY <1>2, StatedOnADay
  <2> QED BY <2>2, <2>3, <2>4 DEF AccountFine
<1> QED BY <1>1, <1>2

\* The ledger after a landing, and every request that is open beside it.
LEMMA ALandingIsFine ==
  ASSUME StatementsInv, NEW file \in Uploads \cup {<<>>}, NEW added, NEW closed \in SUBSET Requests,
         CanLand(added, ledger, Len(commits)),
         \A a \in added : a.hash # None => \E i \in Due(file) : ReadFrom(a, file, i),
         \A i \in Due(file) : IsHere(ledger \cup added, Planned(file, i)),
         \A q \in Open \ closed : \A a \in added : \A x \in work[q].own : ~SameKey(x, a),
         ledger' = ledger \cup added, commits' = Append(commits, file),
         DOMAIN work' = Requests, \A q \in closed : work'[q] = None,
         \A q \in Requests \ closed : work'[q] = work[q],
         AccountFine'
  PROVE  StatementsInv'
<1> DEFINE n == Len(commits)
<1>1. n \in Nat /\ Len(commits') = n + 1 /\ commits' \in Seq(Uploads \cup {<<>>})
  BY AppendProperties, LenProperties DEF StatementsInv
<1>2. BookFine(ledger', Len(commits')) BY <1>1, BookGrows DEF StatementsInv
<1>3. BookIsOfFiles(ledger', commits') BY FilesGrow DEF StatementsInv
<1>4. ASSUME NEW q \in Requests, work'[q] # None
      PROVE  q \in Open \ closed /\ work'[q] = work[q] /\ RequestFine(work'[q], ledger', Len(commits'))
  <2>1. q \in Open \ closed /\ work'[q] = work[q] BY <1>4 DEF Open
  <2>2. RequestFine(work[q], ledger, n) BY <2>1 DEF StatementsInv
  <2>3. \A a \in added : a.born = n + 1 /\ \A x \in work[q].own : ~SameKey(x, a)
    BY <2>1 DEF CanLand
  <2>4. RequestFine(work[q], ledger \cup added, n + 1)
    BY <1>1, <2>2, <2>3, FineBesideALanding
  <2> QED BY <2>1, <2>4, <1>1
<1>5. RequestsApart' BY <1>4 DEF StatementsInv, RequestsApart, Open
<1> QED BY <1>1, <1>2, <1>3, <1>4, <1>5 DEF StatementsInv, Open

LEMMA CommitFine ==
  ASSUME StatementsInv, NEW r \in Requests, Commit(r) PROVE StatementsInv'
<1> DEFINE old   == work[r]
           n     == Len(commits)
           L(x)  == [x EXCEPT !.born = n + 1]
           added == {L(x) : x \in old.own}
<1>1. r \in Open /\ old.todo = {} BY DEF Commit, Open
<1>2. RequestFine(old, ledger, n) BY <1>1 DEF StatementsInv
<1>3. /\ ledger' = ledger \cup added /\ commits' = Append(commits, old.rows)
      /\ work' = [work EXCEPT ![r] = None]
  BY DEF Commit
<1>4. DOMAIN work' = Requests /\ work'[r] = None /\ \A q \in Requests \ {r} : work'[q] = work[q]
  BY <1>3 DEF StatementsInv
<1>5. n \in Nat /\ old.after \in 0..n /\ old.rows \in Uploads
  BY <1>2, LenProperties DEF StatementsInv, RequestFine, Remembers
<1>6. ASSUME NEW x \in old.own
      PROVE  /\ WholeRow(L(x)) /\ L(x).born = n + 1 /\ L(x).after = old.after
             /\ L(x).hash = x.hash /\ L(x).ext = x.ext /\ L(x).review = x.review
             /\ L(x).amount = x.amount /\ L(x).at = x.at /\ Identity(L(x)) = Identity(x)
             /\ x.hash # None
  <2>1. WholeRow(x) /\ x.after = old.after BY <1>2 DEF RequestFine, Writes
  <2>2. PICK i \in Due(old.rows) : ReadFrom(x, old.rows, i) BY <1>2 DEF RequestFine, Writes
  <2>3. x.hash # None BY <2>2, <1>5, UploadIsRows DEF ReadFrom
  <2> DEFINE y == L(x)
  <2>4. y = [x EXCEPT !.born = n + 1] OBVIOUS
  <2> HIDE DEF y
  <2>5. /\ WholeRow(y) /\ y.born = n + 1 /\ y.after = x.after
        /\ y.hash = x.hash /\ y.ext = x.ext /\ y.review = x.review
        /\ y.amount = x.amount /\ y.at = x.at /\ Identity(y) = Identity(x)
    BY <2>1, <2>4, BornIs
  <2> USE DEF y
  <2> QED BY <2>1, <2>3, <2>5, Zenon
<1>7. IsFiniteSet(added)
  <2> DEFINE f == [x \in old.own |-> L(x)]
  <2>1. f \in Surjection(old.own, added) BY DEF Surjection
  <2> HIDE DEF added, f
  <2> QED BY <2>1, <1>2, FS_Surjection DEF RequestFine, Writes
<1>8. ASSUME NEW x \in old.own, NEW y
      PROVE  /\ SameKey(L(x), y) <=> SameKey(x, y)
             /\ NearDuplicate(y, L(x)) <=> NearDuplicate(y, x)
  BY <1>6 DEF SameKey, NearDuplicate
<1> HIDE DEF L, old
<1>9. CanLand(added, ledger, n)
  <2>1. \A a \in added : WholeRow(a) /\ a.born = n + 1 /\ a.after \in 0..n BY <1>5, <1>6
  <2>2. ASSUME NEW a \in added, NEW b \in added, a # b
        PROVE  ~SameKey(a, b) /\ a.hash # b.hash
    <3>1. PICK x \in old.own : a = L(x) OBVIOUS
    <3>2. PICK y \in old.own : b = L(y) OBVIOUS
    <3>3. ~SameKey(x, y) /\ x.hash # y.hash
      BY <3>1, <3>2, <2>2, <1>2 DEF RequestFine, Writes
    <3>4. SameKey(a, b) <=> SameKey(x, b) BY <3>1, <1>8
    <3>5. SameKey(b, x) <=> SameKey(y, x) BY <3>2, <1>8
    <3> QED BY <3>1, <3>2, <3>3, <3>4, <3>5, <1>6, SameKeyIsMutual
  <2>3. ASSUME NEW a \in added, NEW q \in ledger
        PROVE  /\ ~SameKey(a, q)
               /\ q.hash = a.hash => a.after < q.born
               /\ NearDuplicate(q, a) /\ q.born <= a.after => a.review
    <3>1. PICK x \in old.own : a = L(x) OBVIOUS
    <3>2. /\ ~SameKey(x, q)
          /\ q.hash = x.hash => old.after < q.born
          /\ NearDuplicate(q, x) /\ q.born <= old.after => x.review
      BY <1>2 DEF RequestFine, StandsIn
    <3> QED BY <3>1, <3>2, <1>6, <1>8
  <2> QED BY <2>1, <2>2, <2>3, <1>7 DEF CanLand
<1>10. ASSUME NEW a \in added PROVE \E i \in Due(old.rows) : ReadFrom(a, old.rows, i)
  <2>1. PICK x \in old.own : a = L(x) OBVIOUS
  <2>2. PICK i \in Due(old.rows) : ReadFrom(x, old.rows, i) BY <1>2 DEF RequestFine, Writes
  <2>3. ReadFrom(a, old.rows, i) BY <2>1, <2>2, <1>6 DEF ReadFrom
  <2> QED BY <2>3
<1>11. ASSUME NEW i \in Due(old.rows) PROVE IsHere(ledger \cup added, Planned(old.rows, i))
  <2> DEFINE p == Planned(old.rows, i)
  <2>1. IsHere(ledger \cup old.own, p) BY <1>1, <1>2 DEF RequestFine, DoneWith
  <2>2. PICK q \in ledger \cup old.own : q.hash = p.hash \/ (p.ext # None /\ q.ext = p.ext)
    BY <2>1 DEF IsHere
  <2>3. CASE q \in ledger BY <2>2, <2>3 DEF IsHere
  <2>4. CASE q \in old.own
    <3>1. L(q) \in added /\ L(q).hash = q.hash /\ L(q).ext = q.ext BY <2>4, <1>6
    <3> HIDE DEF added
    <3>2. L(q) \in ledger \cup added BY <3>1
    <3> QED BY <3>1, <3>2, <2>2 DEF IsHere
  <2> QED BY <2>3, <2>4
<1>12. ASSUME NEW q \in Open \ {r}, NEW a \in added, NEW z \in work[q].own
       PROVE  ~SameKey(z, a)
  <2>1. PICK x \in old.own : a = L(x) OBVIOUS
  <2>2. ~SameKey(x, z) BY <1>1 DEF StatementsInv, RequestsApart, old
  <2> QED BY <2>1, <2>2, <1>8, SameKeyIsMutual
<1>13. AccountFine' BY <1>1, AccountStays
<1> DEFINE file   == old.rows
           closed == {r}
<1>14. /\ file \in Uploads \cup {<<>>} /\ closed \in SUBSET Requests
       /\ \A a \in added : a.hash # None => \E i \in Due(file) : ReadFrom(a, file, i)
       /\ \A i \in Due(file) : IsHere(ledger \cup added, Planned(file, i))
       /\ \A q \in Open \ closed : \A a \in added : \A z \in work[q].own : ~SameKey(z, a)
       /\ commits' = Append(commits, file)
       /\ \A q \in closed : work'[q] = None
       /\ \A q \in Requests \ closed : work'[q] = work[q]
  BY <1>3, <1>4, <1>5, <1>10, <1>11, <1>12
<1> HIDE DEF added, file, closed
<1> QED BY <1>3, <1>4, <1>9, <1>13, <1>14, ALandingIsFine

LEMMA ArriveFine ==
  ASSUME StatementsInv, NEW x \in Arrivals, Arrive(x) PROVE StatementsInv'
<1> DEFINE n == Len(commits)
           a == [x EXCEPT !.born = n + 1, !.after = n]
<1>1. ledger' = ledger \cup {a} /\ commits' = Append(commits, <<>>) /\ UNCHANGED <<account, work>>
  BY DEF Arrive
<1>2. n \in Nat BY LenProperties DEF StatementsInv
<1>3. a.born = n + 1 /\ a.after = n /\ a.hash = None /\ a.ext = x.ext /\ WholeRow(a)
  BY ArrivalsAssumption DEF WholeRow, RowFields
<1> HIDE DEF a
<1>4. \A q \in ledger : ~SameKey(a, q) BY <1>3 DEF Arrive, SameKey
<1>5. IsFiniteSet({a}) BY FS_Singleton
<1>6. CanLand({a}, ledger, n) BY <1>2, <1>3, <1>4, <1>5 DEF CanLand
<1>7. Due(<<>>) = {} BY UploadIsRows
<1>8. ASSUME NEW q \in Open, NEW z \in work[q].own PROVE ~SameKey(z, a)
  <2>1. work[q].rows \in Uploads /\ \E i \in Due(work[q].rows) : ReadFrom(z, work[q].rows, i)
    BY <1>8 DEF StatementsInv, RequestFine, Remembers, Writes
  <2>2. z.hash # None BY <2>1, UploadIsRows DEF ReadFrom
  <2>3. ~(x.ext # None /\ z.ext = x.ext) BY DEF Arrive
  <2> QED BY <2>2, <2>3, <1>3 DEF SameKey
<1>9. AccountFine' BY <1>1 DEF StatementsInv, AccountFine
<1>10. DOMAIN work' = Requests /\ work' = work BY <1>1 DEF StatementsInv
<1> QED BY <1>1, <1>3, <1>6, <1>7, <1>8, <1>9, <1>10, ALandingIsFine

LEMMA StatementsInit ==
  Init => StatementsInv
<1> SUFFICES ASSUME Init PROVE StatementsInv OBVIOUS
<1>1. ledger = {} /\ commits = <<>> /\ Open = {} /\ DOMAIN work = Requests BY DEF Init, Open
<1>2. IsFiniteSet({}) BY FS_EmptySet
<1>3. AccountFine
  <2>1. PICK d \in BOOLEAN : account = [balance |-> 0, asOf |-> None, snaps |-> <<>>, derived |-> d]
    BY DEF Init
  <2> QED BY <2>1 DEF AccountFine
<1>4. BookFine({}, Len(commits)) /\ BookIsOfFiles({}, <<>>)
  BY <1>2 DEF BookFine, BookIsOfFiles
<1> QED BY <1>1, <1>3, <1>4 DEF StatementsInv, RequestsApart

LEMMA StatementsNext ==
  StatementsInv /\ [Next]_vars => StatementsInv'
<1> SUFFICES ASSUME StatementsInv, [Next]_vars PROVE StatementsInv' OBVIOUS
<1>1. ASSUME NEW r \in Requests, NEW file \in Files, NEW dayfirst \in BOOLEAN,
             NEW fallback \in Fallbacks, Begin(r, file, dayfirst, fallback)
      PROVE  StatementsInv'
  BY <1>1, BeginFine
<1>2. ASSUME NEW r \in Requests, StateBalance(r) PROVE StatementsInv' BY <1>2, StateBalanceFine
<1>3. ASSUME NEW r \in Requests, PutRow(r) PROVE StatementsInv' BY <1>3, PutRowFine
<1>4. ASSUME NEW r \in Requests, Commit(r) PROVE StatementsInv' BY <1>4, CommitFine
<1>5. ASSUME NEW r \in Requests, RollBack(r) PROVE StatementsInv' BY <1>5, RollBackFine
<1>6. ASSUME NEW x \in Arrivals, Arrive(x) PROVE StatementsInv' BY <1>6, ArriveFine
<1>7. CASE UNCHANGED vars
  BY <1>7 DEF vars, StatementsInv, AccountFine, RequestsApart, Open
<1> QED BY <1>1, <1>2, <1>3, <1>4, <1>5, <1>6, <1>7 DEF Next

\* The invariant holds whatever is uploaded, in whatever order and overlap.
THEOREM StatementsInductive == Spec => []StatementsInv
<1>1. Init => StatementsInv BY StatementsInit
<1>2. StatementsInv /\ [Next]_vars => StatementsInv' BY StatementsNext
<1> QED BY <1>1, <1>2, PTL DEF Spec

-----------------------------------------------------------------------------
(* The headline                                                            *)

\* A commit whose request had read the account as it is.
LEMMA FreshCommit ==
  ASSUME StatementsInv, NEW r \in Open, Commit(r), work[r].account = account
  PROVE  ~Rewinds /\ (OnRecord => OnRecord')
<1>1. AccountFine BY DEF StatementsInv
<1>2. CASE ~HasBalance(r)
  <2>1. account' = account BY <1>2 DEF Commit
  <2> QED BY <2>1, <1>1 DEF Rewinds, OnRecord, AccountFine
<1>3. CASE HasBalance(r)
  <2> DEFINE on == StatedOn(r)
             amount == LedgerBalance(work[r].file).amount
             current == BecomesCurrent(account, on)
  <2>1. account' = RecordBalance(account, account, amount, on, ~account.derived) BY <1>3 DEF Commit
  <2>2. on \in Int BY <1>3, StatedOnADay
  <2> HIDE DEF on, amount
  <2>3. /\ account'.derived = account.derived
        /\ current => account'.asOf = on /\ account'.balance = amount
        /\ ~current => account'.asOf = account.asOf /\ account'.balance = account.balance
        /\ account'.snaps = IF account.derived THEN account.snaps ELSE Put(account.snaps, on, amount)
    BY <2>1, <1>1, RecordIs
  <2>4. current <=> account.asOf = None \/ on >= account.asOf BY DEF BecomesCurrent
  <2> HIDE DEF current
  <2>5. ~Rewinds BY <1>1, <2>2, <2>3, <2>4 DEF Rewinds, AccountFine
  <2>6. ASSUME OnRecord, account'.asOf # None, ~account'.derived
        PROVE  account'.asOf \in DOMAIN account'.snaps /\ account'.snaps[account'.asOf] = account'.balance
    <3>1. account'.snaps = Put(account.snaps, on, amount) BY <2>3, <2>6
    <3>2. /\ DOMAIN Put(account.snaps, on, amount) = DOMAIN account.snaps \cup {on}
          /\ \A y \in DOMAIN account.snaps \cup {on} :
               Put(account.snaps, on, amount)[y] = IF y = on THEN amount ELSE account.snaps[y]
      BY DEF Put
    <3>3. CASE current BY <3>1, <3>2, <3>3, <2>3
    <3>4. CASE ~current
      <4>1. account'.asOf = account.asOf /\ account'.balance = account.balance BY <3>4, <2>3
      <4>2. account.asOf \in DOMAIN account.snaps /\ account.snaps[account.asOf] = account.balance
        BY <4>1, <2>3, <2>6 DEF OnRecord
      <4>3. account.asOf # on BY <3>4, <4>1, <2>2, <2>4, <2>6, <1>1 DEF AccountFine
      <4> QED BY <3>1, <3>2, <4>1, <4>2, <4>3
    <3> QED BY <3>3, <3>4
  <2> QED BY <2>5, <2>6 DEF OnRecord
<1> QED BY <1>2, <1>3

\* For every household: the headline moves back, or off the record, only by a commit whose
\* request had read another account; a derived account's history is its holdings'.
THEOREM HeadlineOnlyForwardForAll == Spec => HeadlineOnlyForward
<1>1. StatementsInv /\ StatementsInv' /\ [Next]_vars =>
        [/\ Rewinds \/ (OnRecord /\ ~OnRecord') => \E r \in Open : Commit(r) /\ work[r].account # account
         /\ account'.derived => account'.snaps = <<>>]_vars
  <2> SUFFICES ASSUME StatementsInv, StatementsInv', [Next]_vars
               PROVE  /\ Rewinds \/ (OnRecord /\ ~OnRecord')
                           => \E r \in Open : Commit(r) /\ work[r].account # account
                      /\ account'.derived => account'.snaps = <<>>
    OBVIOUS
  <2>1. account'.derived => account'.snaps = <<>> BY DEF StatementsInv, AccountFine
  <2>2. CASE account' = account
    BY <2>2, <2>1 DEF Rewinds, OnRecord, StatementsInv, AccountFine
  <2>3. CASE \E r \in Requests : Commit(r)
    <3>1. PICK r \in Open : Commit(r) BY <2>3 DEF Commit, Open
    <3>2. CASE work[r].account = account BY <3>1, <3>2, <2>1, FreshCommit
    <3> QED BY <3>1, <3>2, <2>1
  <2> QED BY <2>2, <2>3 DEF Next, vars, Begin, StateBalance, PutRow, RollBack, Arrive
<1> QED BY <1>1, StatementsInductive, PTL DEF Spec, HeadlineOnlyForward

-----------------------------------------------------------------------------
(* As many as the fullest file                                             *)

LEMMA FiniteHasAGreatest ==
  ASSUME NEW S \in SUBSET Nat, IsFiniteSet(S), S # {}
  PROVE  Max(S) \in S /\ \A y \in S : Max(S) >= y
<1> DEFINE Up(k) == {y \in S : y >= k}
           F == {Up(k) : k \in S}
<1>1. F \in SUBSET (SUBSET S) /\ F # {}
  <2>1. \A k \in S : Up(k) \in SUBSET S OBVIOUS
  <2>2. F \subseteq SUBSET S BY <2>1
  <2>3. F # {} OBVIOUS
  <2> QED BY <2>2, <2>3
<1>2. PICK A \in F : \A B \in F : ~(B \subseteq A /\ B # A)
  <2> DEFINE T == S
  <2>1. IsFiniteSet(T) /\ F \in SUBSET (SUBSET T) /\ F # {} BY <1>1
  <2> HIDE DEF F, T
  <2> QED BY <2>1, LeastMember
<1>3. PICK k \in S : A = Up(k) BY <1>2
<1>4. ASSUME NEW y \in S PROVE k >= y
  <2> SUFFICES ASSUME k < y PROVE FALSE OBVIOUS
  <2>1. Up(y) \in F OBVIOUS
  <2>2. k \in Nat /\ y \in Nat OBVIOUS
  <2>3. \A z \in S : z \in Nat /\ (z >= y => z >= k) BY <2>2
  <2>4. Up(y) \subseteq A BY <1>3, <2>3
  <2>5. k \in A /\ k \notin Up(y) BY <1>3, <2>2
  <2> QED BY <1>2, <2>1, <2>4, <2>5
<1> QED BY <1>4 DEF Max

\* A row with a digest has its identity in it, and its ordinal.
LEMMA DigestOf ==
  ASSUME StatementsInv, NEW q \in FromFiles
  PROVE  \E n \in DOMAIN commits : \E i \in Due(commits[n]) :
           /\ commits[n] \in Uploads
           /\ q.hash = <<Identity(q), Cardinality(Before(commits[n], i))>>
           /\ Identity(q) = Identity(commits[n][i])
<1>1. PICK n \in DOMAIN commits : \E i \in Due(commits[n]) : ReadFrom(q, commits[n], i)
  BY DEF FromFiles, StatementsInv, BookIsOfFiles
<1>2. PICK i \in Due(commits[n]) : ReadFrom(q, commits[n], i) BY <1>1
<1>3. q.hash = <<Identity(q), Cardinality(Before(commits[n], i))>>
        /\ Identity(q) = Identity(commits[n][i])
  BY <1>2, DigestIs DEF ReadFrom
<1>4. commits[n] \in Uploads \cup {<<>>} BY ElementOfSeq, LenProperties DEF StatementsInv
<1>5. commits[n] # <<>>
  <2>1. Due(<<>>) = {} BY UploadIsRows
  <2> QED BY <2>1, <1>2
<1> QED BY <1>3, <1>4, <1>5

LEMMA AtLeastAsMany ==
  ASSUME StatementsInv, NEW n \in DOMAIN commits, NEW i \in Due(commits[n]), NEW x,
         NEW alike, alike = {j \in Twins(commits[n], x) \cap Due(commits[n]) : commits[n][j].ext = None}
  PROVE  Cardinality(Landings(x)) >= Cardinality(alike)
<1> DEFINE file == commits[n]
           f == [j \in alike |-> CHOOSE q \in FromFiles : q.hash = Digest(file, j)]
<1>1. file \in Uploads
  <2>1. file \in Uploads \cup {<<>>} BY ElementOfSeq, LenProperties DEF StatementsInv
  <2>2. Due(<<>>) = {} BY UploadIsRows
  <2> QED BY <2>1, <2>2
<1>2. ASSUME NEW j \in alike PROVE f[j] \in Landings(x) /\ f[j].hash = Digest(file, j)
  <2>1. j \in Due(file) /\ file[j].ext = None /\ Identity(file[j]) = Identity(x) BY DEF Twins
  <2>2. IsHere(ledger, Planned(file, j)) BY <2>1 DEF StatementsInv, BookIsOfFiles
  <2>3. PICK q \in ledger : q.hash = Digest(file, j) BY <2>1, <2>2 DEF IsHere, Planned
  <2>4. Digest(file, j) # None BY <1>1, <2>1, UploadIsRows
  <2>5. q \in FromFiles BY <2>3, <2>4 DEF FromFiles
  <2>6. f[j] \in FromFiles /\ f[j].hash = Digest(file, j) BY <2>3, <2>5
  <2> DEFINE p == f[j]
  <2> HIDE DEF f
  <2>7. PICK k : p.hash = <<Identity(p), k>> BY <2>6, DigestOf
  <2>8. <<Identity(p), k>> = <<Identity(file[j]), Cardinality(Before(file, j))>>
    BY <2>6, <2>7, DigestIs
  <2>9. Identity(p) = Identity(x) BY <2>1, <2>8
  <2> QED BY <2>6, <2>9 DEF Landings
<1>3. ASSUME NEW j \in alike, NEW k \in alike, f[j] = f[k] PROVE j = k
  <2>1. Digest(file, j) = Digest(file, k) BY <1>2, <1>3
  <2>2. j \in Due(file) /\ k \in Due(file) OBVIOUS
  <2> QED BY <2>1, <2>2, <1>1, DigestsDiffer
<1>4. f \in Injection(alike, Landings(x))
  <2>1. f \in [alike -> Landings(x)] BY <1>2
  <2> HIDE DEF f
  <2> QED BY <2>1, <1>3 DEF Injection, IsInjective
<1>5. IsFiniteSet(Landings(x))
  <2>1. IsFiniteSet(ledger) BY DEF StatementsInv, BookFine
  <2>2. Landings(x) \in SUBSET ledger BY DEF Landings, FromFiles
  <2> QED BY <2>1, <2>2, FS_Subset
<1>6. IsFiniteSet(alike) /\ Cardinality(alike) <= Cardinality(Landings(x)) BY <1>4, <1>5, FS_Injection
<1>7. Cardinality(alike) \in Nat /\ Cardinality(Landings(x)) \in Nat BY <1>5, <1>6, FS_CardinalityType
<1> QED BY <1>6, <1>7

LEMMA AtMostAsMany ==
  ASSUME StatementsInv, NEW x \in FromFiles, x.ext = None
  PROVE  Cardinality({q \in Landings(x) : q.ext = None})
           <= Max({Cardinality(Twins(commits[n], x)) : n \in DOMAIN commits})
<1> DEFINE T(n) == Cardinality(Twins(commits[n], x))
           C == {T(n) : n \in DOMAIN commits}
           M == Max(C)
           Alike == {q \in Landings(x) : q.ext = None}
           g == [q \in Alike |-> q.hash[2]]
<1>1. Len(commits) \in Nat /\ DOMAIN commits = 1..Len(commits)
        /\ \A n \in DOMAIN commits : commits[n] \in Uploads \cup {<<>>}
  BY ElementOfSeq, LenProperties DEF StatementsInv
<1>2. ASSUME NEW n \in DOMAIN commits PROVE IsFiniteSet(Twins(commits[n], x)) /\ T(n) \in Nat
  <2>1. IsFiniteSet(DOMAIN commits[n]) BY <1>1, UploadIsRows
  <2>2. Twins(commits[n], x) \in SUBSET (DOMAIN commits[n]) BY DEF Twins
  <2>3. IsFiniteSet(Twins(commits[n], x)) BY <2>1, <2>2, FS_Subset
  <2> QED BY <2>3, FS_CardinalityType
<1>3. IsFiniteSet(C)
  <2> DEFINE h == [n \in DOMAIN commits |-> T(n)]
  <2>1. h \in Surjection(DOMAIN commits, C) BY DEF Surjection
  <2>2. IsFiniteSet(DOMAIN commits) BY <1>1, FS_Interval
  <2> HIDE DEF h, C
  <2> QED BY <2>1, <2>2, FS_Surjection
<1>4. ASSUME NEW q \in FromFiles, Identity(q) = Identity(x)
      PROVE  \E k \in Nat : /\ q.hash = <<Identity(x), k>>
                            /\ \E n \in DOMAIN commits : k + 1 <= T(n)
  <2>1. PICK n \in DOMAIN commits : \E i \in Due(commits[n]) :
           /\ commits[n] \in Uploads
           /\ q.hash = <<Identity(q), Cardinality(Before(commits[n], i))>>
           /\ Identity(q) = Identity(commits[n][i])
    BY DigestOf
  <2> DEFINE file == commits[n]
  <2>2. PICK i \in Due(file) :
           /\ file \in Uploads
           /\ q.hash = <<Identity(q), Cardinality(Before(file, i))>>
           /\ Identity(q) = Identity(file[i])
    BY <2>1
  <2> DEFINE k == Cardinality(Before(file, i))
  <2>3. i \in 1..Len(file) /\ Readable(file[i]) /\ Len(file) \in Nat /\ DOMAIN file = 1..Len(file)
    BY <2>2, UploadIsRows
  <2>4. IsFiniteSet(Before(file, i)) /\ k \in Nat BY <2>3, BeforeIsFinite
  <2>5. i \notin Before(file, i) BY <2>3 DEF Before
  <2>6. Cardinality(Before(file, i) \cup {i}) = k + 1 /\ IsFiniteSet(Before(file, i) \cup {i})
    BY <2>4, <2>5, FS_AddElement
  <2>7. Before(file, i) \cup {i} \in SUBSET Twins(file, x)
    <3>1. Identity(file[i]) = Identity(x) BY <2>2, <1>4
    <3>2. 1..(i - 1) \subseteq 1..Len(file) BY <2>3
    <3>3. i \in Twins(file, x) BY <3>1, <2>3 DEF Twins
    <3>4. Before(file, i) \subseteq Twins(file, x) BY <3>1, <3>2, <2>3 DEF Before, Twins
    <3> QED BY <3>3, <3>4
  <2>8. Cardinality(Before(file, i) \cup {i}) <= T(n) BY <2>7, <1>2, FS_Subset
  <2> HIDE DEF T, k
  <2>9. k + 1 <= T(n) BY <2>6, <2>8
  <2>10. q.hash = <<Identity(x), k>> BY <2>2, <1>4 DEF k
  <2> QED BY <2>4, <2>9, <2>10
<1>5. C \in SUBSET Nat /\ C # {}
  <2>1. Identity(x) = Identity(x) OBVIOUS
  <2>2. PICK k \in Nat : \E n \in DOMAIN commits : k + 1 <= T(n) BY <1>4, <2>1
  <2> QED BY <1>2, <2>2
<1>6. M \in Nat /\ \A n \in DOMAIN commits : M >= T(n)
  <2>1. \A n \in DOMAIN commits : T(n) \in C OBVIOUS
  <2> HIDE DEF C, T
  <2> QED BY <1>3, <1>5, <2>1, FiniteHasAGreatest
<1> HIDE DEF M, C
<1>7. ASSUME NEW q \in Alike
      PROVE  q \in ledger /\ q.hash # None /\ q.ext = None
             /\ \E k \in 0..(M - 1) : q.hash = <<Identity(x), k>>
  <2>1. q \in FromFiles /\ Identity(q) = Identity(x) /\ q.ext = None BY DEF Landings
  <2>2. PICK k \in Nat : /\ q.hash = <<Identity(x), k>>
                         /\ \E n \in DOMAIN commits : k + 1 <= T(n)
    BY <2>1, <1>4
  <2>3. PICK n \in DOMAIN commits : k + 1 <= T(n) BY <2>2
  <2>4. M >= T(n) /\ T(n) \in Nat BY <1>2, <1>6
  <2> HIDE DEF T
  <2>5. k \in 0..(M - 1) BY <2>3, <2>4, <1>6
  <2> QED BY <2>1, <2>2, <2>5 DEF FromFiles
<1> HIDE DEF Alike
<1>8. ASSUME NEW q \in Alike PROVE g[q] \in 0..(M - 1) /\ q.hash = <<Identity(x), g[q]>>
  <2>1. PICK k \in 0..(M - 1) : q.hash = <<Identity(x), k>> BY <1>7
  <2>2. g[q] = k BY <2>1
  <2> QED BY <2>1, <2>2
<1>9. ASSUME NEW q \in Alike, NEW p \in Alike, g[q] = g[p] PROVE q = p
  <2>1. q.hash = p.hash BY <1>8, <1>9
  <2>2. SameKey(q, p) BY <2>1, <1>7 DEF SameKey
  <2> QED BY <2>2, <1>7 DEF StatementsInv, BookFine
<1>10. g \in Injection(Alike, 0..(M - 1))
  <2>1. g \in [Alike -> 0..(M - 1)] BY <1>8
  <2> HIDE DEF g
  <2> QED BY <2>1, <1>9 DEF Injection, IsInjective
<1>11. IsFiniteSet(0..(M - 1)) /\ Cardinality(0..(M - 1)) = M
  <2>1. 0 \in Int /\ M - 1 \in Int BY <1>6
  <2>2. IsFiniteSet(0..(M - 1)) /\ Cardinality(0..(M - 1)) = IF 0 > M - 1 THEN 0 ELSE (M - 1) - 0 + 1
    BY <2>1, FS_Interval
  <2> QED BY <2>2, <1>6
<1>12. Cardinality(Alike) <= Cardinality(0..(M - 1)) BY <1>10, <1>11, FS_Injection
<1> QED BY <1>11, <1>12 DEF Alike, M, C

\* For every household and every file: what the indexes keep apart stays apart and the
\* counts of a request add up; every row of a file is in the ledger, as often as in the
\* fullest one; a digest repeats only in a race, and a possible duplicate is flagged.
THEOREM StatementsAddUpForAll == Spec => []StatementsAddUp
<1>1. ASSUME StatementsInv PROVE StatementsAddUp
  <2>1. TypeOK
    <3>1. \A q, x \in ledger : q # x => ~SameKey(q, x) BY <1>1 DEF StatementsInv, BookFine
    <3>2. \A q, x \in ledger : q # x /\ q.hash # None /\ q.hash = x.hash => q.ext # x.ext
      BY <3>1 DEF SameKey
    <3>3. ASSUME NEW r \in Open
          PROVE  /\ work[r].inserted + work[r].skipped + Cardinality(Errors(work[r].rows))
                      + Cardinality(work[r].todo) = Len(work[r].rows)
                 /\ work[r].suspects <= work[r].inserted
                 /\ Cardinality(work[r].own) = work[r].inserted
      BY <1>1 DEF StatementsInv, RequestFine, Counts
    <3> QED BY <3>1, <3>2, <3>3 DEF TypeOK, Errors
  <2>2. EveryRowIsHere BY <1>1 DEF EveryRowIsHere, StatementsInv, BookIsOfFiles
  <2>3. AsManyAsTheFullestFile
    BY <1>1, AtLeastAsMany, AtMostAsMany DEF AsManyAsTheFullestFile
  <2>4. DigestsRepeatOnlyInRaces
    BY <1>1 DEF DigestsRepeatOnlyInRaces, FromFiles, StatementsInv, BookFine
  <2>5. LaterTwinsAreFlagged
    <3>1. ASSUME NEW q \in ledger, NEW x \in FromFiles, q # x, q.amount = x.amount,
                 q.at - x.at \in -48..48, q.born <= x.after
          PROVE  x.review
      <4>1. NearDuplicate(q, x) BY <3>1 DEF NearDuplicate, Window
      <4> QED BY <4>1, <3>1, <1>1 DEF FromFiles, StatementsInv, BookFine
    <3> QED BY <3>1 DEF LaterTwinsAreFlagged
  <2> QED BY <2>1, <2>2, <2>3, <2>4, <2>5 DEF StatementsAddUp
<1> QED BY <1>1, StatementsInductive, PTL
=============================================================================
