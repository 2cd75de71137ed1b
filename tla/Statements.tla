----------------------------- MODULE Statements -----------------------------
(***************************************************************************)
(* What an uploaded file says (services/imports.py, services/ofx.py): a    *)
(* CSV's columns, cells and rows under a mapping, an OFX file's blocks and *)
(* transactions.                                                           *)
(*                                                                         *)
(* An instant is counted in hours, a day being its number of days, money   *)
(* in thousandths.  A cell is None when it is blank.  A money cell is      *)
(*   marks  which of "(", "lead" and "trail" it carries: each a minus      *)
(*   digits its groups of digits, <<value, how many>>, in order            *)
(*   seps   the separators between them, "," or "."                        *)
(* or Unreadable; a date cell is <<"iso", m, d>> or <<"slash", a, b>>, the *)
(* two numbers in the order they are written.                              *)
(***************************************************************************)
EXTENDS Balances, SequencesExt, FiniteSetsExt

CONSTANT Unreadable  \* a cell no reading fits

Fields == {"date", "amount", "debit", "credit", "description", "category", "owner"}
AmountFields == {"amount", "debit", "credit"}

\* suggest_mapping: what each header names; the first column of two takes the field.
SuggestMapping(headers) ==
  [i \in DOMAIN headers |-> IF \E j \in 1..(i - 1) : headers[j] = headers[i] THEN None
                            ELSE headers[i]]

\* validate_mapping: one column a field, a date, and an amount of some kind.
ValidMapping(mapping) ==
  /\ \A i, j \in DOMAIN mapping : i # j /\ mapping[i] = mapping[j] => mapping[i] = None
  /\ "date" \in ToSet(mapping)
  /\ AmountFields \cap ToSet(mapping) # {}

Where(seq, x) == {i \in DOMAIN seq : seq[i] = x}

\* Table.cell under the mapping: a short row ends in blanks.
CellAt(row, at) == IF at = {} \/ Max(at) > Len(row) THEN None ELSE row[Max(at)]
Cell(row, mapping, f) == CellAt(row, Where(mapping, f))

-----------------------------------------------------------------------------
(* Money and dates                                                         *)

DecimalPoints_LastSeparator(cell) == IF cell.seps = <<>> THEN {} ELSE {Len(cell.seps)}

\* _separators_to_dot: the separators that end up as decimal points.
PointsOf(commas, dots, digits) ==
  IF commas # {} /\ dots # {} THEN (IF Max(commas) > Max(dots) THEN commas ELSE dots)
  ELSE IF commas # {} THEN (IF Cardinality(commas) = 1 /\ digits[2][2] = 2 THEN commas ELSE {})
  ELSE dots
DecimalPoints(cell) == PointsOf(Where(cell.seps, ","), Where(cell.seps, "."), cell.digits)

Joint(groups) == FoldLeft(LAMBDA n, g : n * 10^g[2] + g[1], 0, groups)
Width(groups) == FoldLeft(LAMBDA n, g : n + g[2], 0, groups)

\* A number whose decimal point, if it has one, comes after its first at groups.
Number(digits, at) ==
  Joint(SubSeq(digits, 1, at)) * 1000
    + Joint(SubSeq(digits, at + 1, Len(digits))) * 10^(3 - Width(SubSeq(digits, at + 1, Len(digits))))

\* parse_amount: any minus makes it negative; two decimal points are no number.
ParsedAs(cell, points) ==
  IF Cardinality(points) > 1 THEN None
  ELSE (IF cell.marks = {} THEN 1 ELSE -1)
         * Number(cell.digits, IF points = {} THEN Len(cell.digits) ELSE Max(points))
ParseAmount(cell) ==
  IF cell \in {None, Unreadable} THEN None ELSE ParsedAs(cell, DecimalPoints(cell))

DayOf(m, d) == IF m \in 1..12 /\ d \in 1..31 THEN 31 * (m - 1) + d ELSE None

Either(first, second) == IF first # None THEN first ELSE second

\* parse_date: year first has one reading; the order decides only what two readings fit.
ParseDate(cell, dayfirst) ==
  IF cell \in {None, Unreadable} THEN None
  ELSE IF cell[1] = "iso" THEN DayOf(cell[2], cell[3])
  ELSE IF dayfirst THEN Either(DayOf(cell[3], cell[2]), DayOf(cell[2], cell[3]))
  ELSE Either(DayOf(cell[2], cell[3]), DayOf(cell[3], cell[2]))

\* _transacted_at: a day is its noon.
Noon(day) == 24 * day + 12

\* _row_amount: the signed column, else what went out, else what came in.
Signed(money, sign) ==
  IF money = None THEN None ELSE IF money < 0 THEN -sign * money ELSE sign * money
Told(amount, debit, credit) ==
  IF amount # None THEN ParseAmount(amount)
  ELSE IF debit # None THEN Signed(ParseAmount(debit), -1)
  ELSE Signed(ParseAmount(credit), 1)
RowAmount(row, mapping) ==
  Told(Cell(row, mapping, "amount"), Cell(row, mapping, "debit"), Cell(row, mapping, "credit"))

-----------------------------------------------------------------------------
(* Rows.  A file becomes a sequence of records, one for each row that is   *)
(* not blank: those whose identity could be read have an instant.          *)

Error == [at |-> None]
Readable(r) == r.at # None

\* Pass 1 of commit_csv.  A name nobody has refuses the row as an owner, and falls
\* back to the file's default as a category.
Entry(day, amount, text, owner, filed, owners, categories, fallback) ==
  IF amount = None \/ day = None THEN Error
  ELSE [at |-> Noon(day), amount |-> amount, text |-> text, ext |-> None, owner |-> owner,
        category |-> IF filed \in categories THEN filed ELSE fallback,
        ok |-> owner = None \/ owner \in owners]
CsvRow(row, mapping, dayfirst, owners, categories, fallback) ==
  Entry(ParseDate(Cell(row, mapping, "date"), dayfirst), RowAmount(row, mapping),
        Cell(row, mapping, "description"), Cell(row, mapping, "owner"),
        Cell(row, mapping, "category"), owners, categories, fallback)

NotBlank(row) == \E i \in DOMAIN row : row[i] # None

Entries(rows, mapping, dayfirst, owners, categories, fallback) ==
  [i \in DOMAIN rows |-> CsvRow(rows[i], mapping, dayfirst, owners, categories, fallback)]
CsvRows(file, mapping, dayfirst, owners, categories, fallback) ==
  Entries(SelectSeq(file.rows, NotBlank), mapping, dayfirst, owners, categories, fallback)

\* _timestamp: a date with no clock is its noon; the offset is taken off.
Timestamp(stamp) ==
  IF stamp \in {None, Unreadable} THEN None
  ELSE 24 * stamp.day + (IF stamp.clock = None THEN 12 ELSE stamp.clock) - stamp.zone

\* _transaction: when it was made, else when it posted; its memo, else its payee.
OfxRow(t, fallback) ==
  IF t.amount = None \/ Timestamp(t.posted) = None THEN Error
  ELSE [at |-> IF Timestamp(t.user) # None THEN Timestamp(t.user) ELSE Timestamp(t.posted),
        amount |-> t.amount, text |-> IF t.memo # None THEN t.memo ELSE t.name,
        ext |-> t.fitid, owner |-> None, category |-> fallback, ok |-> TRUE]

\* parse_ofx: every block's transactions, in order.
OfxRows(file, fallback) ==
  FlattenSeq([b \in DOMAIN file.blocks |->
    [i \in DOMAIN file.blocks[b].rows |-> OfxRow(file.blocks[b].rows[i], fallback)]])

\* The file's own balance is its first block's; an undated one is today's.
LedgerBalance(file) == file.blocks[1].balance
BalanceDay(balance, today) ==
  IF Timestamp(balance.at) = None THEN today ELSE Timestamp(balance.at) \div 24

-----------------------------------------------------------------------------
(* The digest                                                              *)

Identity(r) == <<r.at, r.amount, r.text>>

\* import_hash: the row's identity, and how many identical readable rows the file
\* has before it, those another step rejects included.
Digest(rows, i) ==
  <<Identity(rows[i]),
    Cardinality({j \in 1..(i - 1) : Readable(rows[j]) /\ Identity(rows[j]) = Identity(rows[i])})>>

-----------------------------------------------------------------------------
(* The way out (portability.transactions_csv)                              *)

\* _num and isoformat: a plain signed decimal, a year-first date.
Plain(amount) ==
  LET size == IF amount < 0 THEN -amount ELSE amount
  IN [marks |-> IF amount < 0 THEN {"lead"} ELSE {},
      digits |-> IF size % 1000 = 0 THEN <<<<size \div 1000, 4>>>>
                 ELSE <<<<size \div 1000, 4>>, <<size % 1000, 3>>>>,
      seps |-> IF size % 1000 = 0 THEN <<>> ELSE <<".">>]
IsoDate(at) == <<"iso", ((at \div 24 - 1) \div 31) + 1, ((at \div 24 - 1) % 31) + 1>>

CsvHeaders == <<"date", "amount", "description", "category", "owner">>

\* One account's transactions; the payee stands in for a missing description.
TransactionsCsv(rows) ==
  [kind |-> "csv", headers |-> CsvHeaders,
   rows |-> [i \in DOMAIN rows |->
     <<IsoDate(rows[i].at), Plain(rows[i].amount),
       IF rows[i].text # None THEN rows[i].text ELSE rows[i].merchant,
       rows[i].category, rows[i].owner>>]]
=============================================================================
