------------------------------ MODULE Imports -------------------------------
(***************************************************************************)
(* Statement files into one account (services/imports.py): two requests,   *)
(* each one database transaction, read a file and what the ledger already  *)
(* holds of it, then put its rows in one at a time under a savepoint,      *)
(* while the bank's sync and a person add rows of their own.               *)
(*                                                                         *)
(* A request sees what was committed and what it wrote itself.  A unique   *)
(* key another open request has written makes it wait; two that wait for   *)
(* each other are a deadlock, and the database ends one of them.           *)
(***************************************************************************)
EXTENDS Statements

CONSTANTS
  Requests,    \* requests a household may have open at once
  Files,       \* the files somebody may upload, some with a mapping of their own
  Fallbacks,   \* the default categories a commit may name
  Owners,      \* the household's owners
  Categories,  \* and its categories, by the name they are looked up under
  Arrivals,    \* the rows a sync or a person may add
  Today,       \* the ledger's today
  MaxFiles     \* bound: the files committed in a behaviour

VARIABLES
  ledger,   \* the account's transactions
  account,  \* its balance (Balances)
  work,     \* each request's transaction, or None
  commits   \* the commits so far, and what each was: a file's rows, or <<>>

vars == <<ledger, account, work, commits>>

Window == 48  \* NEAR_DUPLICATE_DAYS

Mapping(file) == IF file.mapping = None THEN SuggestMapping(file.headers) ELSE file.mapping

\* A file is refused before a row is touched.
Refused(file) == IF file.kind = "csv" THEN ~ValidMapping(Mapping(file)) \/ file.rows = <<>>
                 ELSE file.blocks = <<>>

FileRows(file, dayfirst, fallback) ==
  IF file.kind = "csv"
  THEN CsvRows(file, Mapping(file), dayfirst, Owners, Categories, fallback)
  ELSE OfxRows(file, fallback)

\* The rows of a file a commit is about to put in, by their place in it, and one of
\* them with its digest.
Due(rows) == {i \in DOMAIN rows : Readable(rows[i]) /\ rows[i].ok}
Planned(rows, i) ==
  [at |-> rows[i].at, amount |-> rows[i].amount, text |-> rows[i].text, ext |-> rows[i].ext,
   owner |-> rows[i].owner, category |-> rows[i].category, hash |-> Digest(rows, i)]

SeenBy_OwnKey(rows, r) == IF r.ext # None THEN r.ext \in {q.ext : q \in rows}
                          ELSE r.hash \in {q.hash : q \in rows}

\* A row is already here if either of its keys is.
SeenBy(rows, r) ==
  \/ r.hash \in {q.hash : q \in rows} \ {None}
  \/ r.ext # None /\ r.ext \in {q.ext : q \in rows}

\* The two partial unique indexes: a digest counts only where there is no bank id.
SameKey(q, r) ==
  \/ q.ext # None /\ q.ext = r.ext
  \/ q.ext = None /\ r.ext = None /\ q.hash # None /\ q.hash = r.hash

NearDuplicate(q, r) == q.amount = r.amount /\ q.at - r.at \in -Window..Window

Open == {r \in Requests : work[r] # None}

\* What can be uploaded.  It reads as a list of rows, those that can be read at an
\* instant; no digest is NULL, and a statement's balance is of some day.
Acceptable == {file \in Files : ~Refused(file)}
Uploads == {FileRows(file, dayfirst, fallback) :
              file \in Acceptable, dayfirst \in BOOLEAN, fallback \in Fallbacks}
ASSUME UploadsAssumption ==
  \A rows \in Uploads :
    /\ Len(rows) \in Nat /\ DOMAIN rows = 1..Len(rows)
    /\ \A i \in DOMAIN rows : Readable(rows[i]) => rows[i].at \in Int /\ Digest(rows, i) # None
ASSUME BalancesAssumption ==
  \A file \in Acceptable :
    file.kind = "ofx" /\ LedgerBalance(file) # None => BalanceDay(LedgerBalance(file), Today) \in Int

\* A row that arrives otherwise is a whole row, without a digest.
RowFields == {"at", "amount", "text", "merchant", "owner", "category", "ext", "hash", "source",
              "review", "after", "born"}
ASSUME ArrivalsAssumption ==
  \A x \in Arrivals : DOMAIN x = RowFields /\ x.at \in Int /\ x.hash = None

-----------------------------------------------------------------------------
(* One commit                                                              *)

\* parse, get_account, and the one query over the whole file.
Begin(r, file, dayfirst, fallback) ==
  /\ work[r] = None
  /\ Len(SelectSeq(commits, LAMBDA rows : rows # <<>>)) + Cardinality(Open) < MaxFiles
  /\ ~Refused(file)
  /\ LET rows == FileRows(file, dayfirst, fallback)
     IN work' = [work EXCEPT ![r] =
          [file |-> file, rows |-> rows, todo |-> Due(rows), seen |-> ledger, own |-> {},
           inserted |-> 0, skipped |-> 0, suspects |-> 0, after |-> Len(commits),
           account |-> account, stated |-> file.kind = "csv" \/ LedgerBalance(file) = None]]
  /\ UNCHANGED <<ledger, account, commits>>

StatedOn(r) == BalanceDay(LedgerBalance(work[r].file), Today)
HasBalance(r) == work[r].file.kind = "ofx" /\ LedgerBalance(work[r].file) # None

\* Two requests that both move the headline: the second waits for the first's row.
Holds(r, q) == /\ work[q] # None
               /\ HasBalance(q)
               /\ work[q].stated
               /\ BecomesCurrent(work[q].account, StatedOn(q))
               /\ BecomesCurrent(work[r].account, StatedOn(r))

\* _statement_balance.
StateBalance(r) ==
  /\ work[r] # None
  /\ ~work[r].stated
  /\ \A q \in Requests \ {r} : ~Holds(r, q)
  /\ work' = [work EXCEPT ![r].stated = TRUE]
  /\ UNCHANGED <<ledger, account, commits>>

\* The rows go in in the file's order.
Ready(r) == work[r] # None /\ work[r].todo # {} /\ work[r].stated
NextRow(r) == Planned(work[r].rows, Min(work[r].todo))
Visible(r) == ledger \cup work[r].own

\* Another open request has written a row with this one's key.
Awaits(r, q) == Ready(r) /\ work[q] # None /\ ~SeenBy(work[r].seen, NextRow(r))
                /\ \E x \in work[q].own : SameKey(x, NextRow(r))
Blocked(r) == \E q \in Requests \ {r} : Awaits(r, q)

\* The row that is written: create_transaction, then the import's own marks.
CreatedRow(r, x) ==
  LET suspect == \E q \in Visible(r) : NearDuplicate(q, x)
  IN [at |-> x.at, amount |-> x.amount, text |-> x.text, merchant |-> None, owner |-> x.owner,
      category |-> x.category, ext |-> x.ext, hash |-> x.hash, source |-> work[r].file.kind,
      review |-> suspect \/ x.category = None, after |-> work[r].after, born |-> None]

\* One row: seen when the file was read, or refused by an index, it is a skip.
PutRow(r) ==
  /\ Ready(r)
  /\ ~Blocked(r)
  /\ LET w    == work[r]
         x    == NextRow(r)
         skip == SeenBy(w.seen, x) \/ \E q \in Visible(r) : SameKey(q, x)
         near == \E q \in Visible(r) : NearDuplicate(q, x)
     IN work' = [work EXCEPT ![r] =
          [w EXCEPT !.todo = @ \ {Min(@)},
                    !.skipped = IF skip THEN @ + 1 ELSE @,
                    !.inserted = IF skip THEN @ ELSE @ + 1,
                    !.suspects = IF ~skip /\ near THEN @ + 1 ELSE @,
                    !.own = IF skip THEN @ ELSE @ \cup {CreatedRow(r, x)}]]
  /\ UNCHANGED <<ledger, account, commits>>

\* The request ends: the file lands whole.
Commit(r) ==
  /\ work[r] # None
  /\ work[r].todo = {}
  /\ work[r].stated
  /\ ledger' = ledger \cup {[x EXCEPT !.born = Len(commits) + 1] : x \in work[r].own}
  /\ account' = IF HasBalance(r)
                THEN RecordBalance(work[r].account, account, LedgerBalance(work[r].file).amount,
                                   StatedOn(r), ~account.derived)
                ELSE account
  /\ commits' = Append(commits, work[r].rows)
  /\ work' = [work EXCEPT ![r] = None]

\* It is lost: to a restart, or to the deadlock it is in.
RollBack(r) ==
  /\ work[r] # None
  /\ work' = [work EXCEPT ![r] = None]
  /\ UNCHANGED <<ledger, account, commits>>

\* A sync or a person adds a row: no digest, and a bank id only from the bank.
Arrive(x) ==
  /\ \A q \in ledger : ~(x.ext # None /\ q.ext = x.ext) /\ [q EXCEPT !.born = 0, !.after = 0] # x
  /\ \A r \in Open : \A q \in work[r].own : ~(x.ext # None /\ q.ext = x.ext)
  /\ ledger' = ledger \cup {[x EXCEPT !.born = Len(commits) + 1, !.after = Len(commits)]}
  /\ commits' = Append(commits, <<>>)
  /\ UNCHANGED <<account, work>>

Init ==
  /\ ledger = {}
  /\ account \in {[balance |-> 0, asOf |-> None, snaps |-> <<>>, derived |-> d] : d \in BOOLEAN}
  /\ work = [r \in Requests |-> None]
  /\ commits = <<>>

Next ==
  \/ \E r \in Requests :
       \/ \E file \in Files, dayfirst \in BOOLEAN, fallback \in Fallbacks :
            Begin(r, file, dayfirst, fallback)
       \/ StateBalance(r) \/ PutRow(r) \/ Commit(r) \/ RollBack(r)
  \/ \E x \in Arrivals : Arrive(x)

Spec == Init /\ [][Next]_vars
-----------------------------------------------------------------------------
(* Properties                                                              *)

FromFiles == {q \in ledger : q.hash # None}
Overlapped(q, x) == q.after < x.born /\ x.after < q.born

\* What the indexes keep apart stays apart, and an open request's counts add up to
\* its file: "inserted + skipped + len(errors) equals the number of non-blank data
\* rows in the file".
TypeOK ==
  /\ \A q, x \in ledger : q # x => ~SameKey(q, x)
  /\ \A q, x \in ledger : q # x /\ q.hash # None /\ q.hash = x.hash => q.ext # x.ext
  /\ \A r \in Open :
       LET errors == Cardinality({i \in DOMAIN work[r].rows :
                                    ~(Readable(work[r].rows[i]) /\ work[r].rows[i].ok)})
       IN /\ work[r].inserted + work[r].skipped + errors + Cardinality(work[r].todo) = Len(work[r].rows)
          /\ work[r].suspects <= work[r].inserted
          /\ Cardinality(work[r].own) = work[r].inserted

\* A row's digest or its bank id is among some rows.
IsHere(rows, x) == \E q \in rows : q.hash = x.hash \/ (x.ext # None /\ q.ext = x.ext)

\* "Nothing is silently dropped": every row of a committed file that could be read
\* and owned is in the ledger, under its digest or its bank id.
EveryRowIsHere ==
  \A n \in DOMAIN commits : \A i \in Due(commits[n]) : IsHere(ledger, Planned(commits[n], i))

\* Two $5 coffees both import, a file again creates nothing: of the rows without a bank
\* id there are as many of one identity as the fullest file had, whatever the order
\* and the overlap of the commits.
Twins(rows, x) == {i \in DOMAIN rows : Readable(rows[i]) /\ Identity(rows[i]) = Identity(x)}
Landings(x) == {q \in FromFiles : Identity(q) = Identity(x)}
AsManyAsTheFullestFile ==
  /\ \A n \in DOMAIN commits : \A i \in Due(commits[n]) :
       LET x     == commits[n][i]
           alike == {j \in Twins(commits[n], x) \cap Due(commits[n]) : commits[n][j].ext = None}
       IN Cardinality(Landings(x)) >= Cardinality(alike)
  /\ \A x \in FromFiles :
       x.ext = None => Cardinality({q \in Landings(x) : q.ext = None})
                         <= Max({Cardinality(Twins(commits[n], x)) : n \in DOMAIN commits})

\* "The same transaction arriving by CSV and then by OFX does not double": one
\* digest twice is two requests neither of which could see the other's row.
DigestsRepeatOnlyInRaces ==
  \A q, x \in FromFiles : q # x /\ q.hash = x.hash => Overlapped(q, x)

\* A possible duplicate goes to review: of two rows of one amount within two days,
\* the later one does, unless neither could see the other.
LaterTwinsAreFlagged ==
  \A q \in ledger : \A x \in FromFiles :
    (q # x /\ q.amount = x.amount /\ q.at - x.at \in -48..48 /\ q.born <= x.after) => x.review

\* However often and in whatever order overlapping statements are imported, beside a
\* sync and a person: every row of a file is in the ledger, as often as in the fullest
\* file, and a charge both a file and a sync brought is flagged.
StatementsAddUp ==
  TypeOK /\ EveryRowIsHere /\ AsManyAsTheFullestFile /\ DigestsRepeatOnlyInRaces
    /\ LaterTwinsAreFlagged

\* "It does not rewind the headline": a statement moves it back, or leaves it other than
\* the history has its day, only when its request had read the account before another's
\* moved it; and a derived account's history stays its holdings'.
Rewinds == account.asOf # None /\ account'.asOf < account.asOf
OnRecord == account.asOf # None /\ ~account.derived =>
  account.asOf \in DOMAIN account.snaps /\ account.snaps[account.asOf] = account.balance
HeadlineOnlyForward ==
  [][/\ Rewinds \/ (OnRecord /\ ~OnRecord') => \E r \in Open : Commit(r) /\ work[r].account # account
     /\ account'.derived => account'.snaps = <<>>]_vars

-----------------------------------------------------------------------------
(* Cells                                                                   *)

\* An amount of whole thousands and hundredths, written without separators, the
\* American way or the European way, and how a minus is shown.
WrittenCell(thousands, units, cents, style, marks) ==
  [marks |-> marks,
   digits |-> IF style = "plain" THEN <<<<1000 * thousands + units, 4>>, <<cents, 2>>>>
              ELSE <<<<thousands, 1>>, <<units, 3>>, <<cents, 2>>>>,
   seps |-> CASE style = "plain" -> <<".">>
              [] style = "decimal comma" -> <<".", ",">>
              [] OTHER -> <<",", ".">>]

\* Whatever the bank's separators and minus, the cell reads as the amount; and a
\* date reads back in the order it was written, or in the one it can only have.
CellsReadAsWritten ==
  commits = <<>> =>
    /\ \A thousands \in {0, 1, 12}, units \in {0, 5, 234}, cents \in {0, 7, 50},
          style \in {"plain", "decimal comma", "decimal point"},
          marks \in SUBSET {"(", "lead", "trail"} :
         ParseAmount(WrittenCell(thousands, units, cents, style, marks))
           = (1000000 * thousands + 1000 * units + 10 * cents) * (IF marks = {} THEN 1 ELSE -1)
    /\ \A thousands \in 1..2, units \in {0, 5, 234} :
         ParseAmount([marks |-> {}, digits |-> <<<<thousands, 1>>, <<units, 3>>>>, seps |-> <<",">>])
           = 1000000 * thousands + 1000 * units
    /\ \A m \in 1..12, d \in 1..31, dayfirst \in BOOLEAN :
         /\ ParseDate(<<"iso", m, d>>, dayfirst) = DayOf(m, d)
         /\ ParseDate(IF dayfirst THEN <<"slash", d, m>> ELSE <<"slash", m, d>>, dayfirst) = DayOf(m, d)
         /\ d > 12 => ParseDate(IF dayfirst THEN <<"slash", m, d>> ELSE <<"slash", d, m>>, dayfirst)
                        = DayOf(m, d)

\* "The same file also round-trips through it": an account's own CSV, imported into
\* an empty account, is its rows again, on their days and with their names.
ReadBack(file) == CsvRows(file, SuggestMapping(file.headers), FALSE, Owners, Categories, None)
ExportReadsBack ==
  \A rows \in {FoldSet(LAMBDA x, seq : Append(seq, x), <<>>, ledger)} :
    \A back \in {ReadBack(TransactionsCsv(rows))} :
    /\ Len(back) = Len(rows)
    /\ \A i \in DOMAIN rows :
         /\ back[i].ok
         /\ back[i].at = Noon(rows[i].at \div 24)
         /\ back[i].amount = rows[i].amount
         /\ back[i].text = IF rows[i].text # None THEN rows[i].text ELSE rows[i].merchant
         /\ back[i].owner = rows[i].owner
         /\ back[i].category = rows[i].category
    /\ Cardinality({Digest(back, i) : i \in DOMAIN back}) = Len(rows)
=============================================================================
