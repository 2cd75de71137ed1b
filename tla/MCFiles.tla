------------------------------ MODULE MCFiles -------------------------------
(* Two exports of a CSV that overlap, one of another bank with a mapping by hand, *)
(* two OFX statements of the same days, and the sync and a person beside them; or *)
(* the household's own export, between a household with a row or two of every     *)
(* table and one that has lived on its own with some of the same names.           *)
EXTENDS Imports

Coin(units, cents, marks) == [marks |-> marks, digits |-> <<<<units, 3>>, <<cents, 2>>>>, seps |-> <<".">>]
Tea == Coin(5, 0, {"lead"})
Rent == [marks |-> {"("}, digits |-> <<<<1, 1>>, <<200, 3>>>>, seps |-> <<",">>]
On(d) == <<"iso", 1, d>>

Headers == <<"date", "amount", "description", "owner", "date">>
Line(date, amount, text, owner) == <<date, amount, text, owner, None>>
Csv(rows) == [kind |-> "csv", headers |-> Headers, mapping |-> None, rows |-> rows]

\* Two teas, one of them somebody's who is not there; then both, a day later.
First == Csv(<<Line(On(4), Tea, "tea", "nobody"), Line(On(4), Tea, "tea", None),
               Line(None, None, None, None), Line(On(5), Unreadable, "rent", None)>>)
Second == Csv(<<Line(On(4), Tea, "tea", "alex"), Line(On(4), Tea, "tea", None),
                Line(On(5), Rent, "rent", "alex")>>)
Columns == [kind |-> "csv", headers |-> <<None, "credit", "debit", None>>,
            mapping |-> <<"date", "credit", "debit", "category">>,
            rows |-> <<<<<<"slash", 1, 5>>, None, Coin(5, 0, {"lead"}), "food">>,
                       <<<<"slash", 13, 1>>, Coin(5, 0, {}), None, "toys">>>>]

Stamp(d, clock, zone) == [day |-> DayOf(1, d), clock |-> clock, zone |-> zone]
Trn(fitid, amount, posted, user, name, memo) ==
  [fitid |-> fitid, amount |-> amount, posted |-> posted, user |-> user, name |-> name, memo |-> memo]
Ofx(rows, amount, at) ==
  [kind |-> "ofx", mapping |-> None, blocks |-> <<[rows |-> rows, balance |-> [amount |-> amount, at |-> at]]>>]

\* The same days from the bank, newest first, and an older statement without ids.
Bank == Ofx(<<Trn("f3", -1200000, Stamp(5, None, 0), None, "landlord", "rent"),
              Trn("f2", -5000, Stamp(4, None, 0), None, "tea", None),
              Trn("f1", -5000, Stamp(4, None, 0), None, "tea", None)>>, 70, Stamp(5, None, 0))
Older == Ofx(<<Trn(None, -5000, Stamp(4, None, 0), None, None, "tea"),
               Trn(None, None, Stamp(4, None, 0), None, "tea", None),
               Trn(None, -5000, Stamp(6, 20, -5), Stamp(4, 20, -5), "tea", None)>>, 90, Stamp(4, None, 0))

FileSet == {First, Second, Columns, Bank, Older}
Row(at, amount, text, merchant, ext) ==
  [at |-> at, amount |-> amount, text |-> text, merchant |-> merchant, owner |-> None,
   category |-> None, ext |-> ext, hash |-> None,
   source |-> IF ext = None THEN "manual" ELSE "simplefin", review |-> TRUE, after |-> 0, born |-> 0]
ArrivalSet == {Row(Noon(4), -5000, None, "tea", None), Row(Noon(4) + 3, -5000, "tea", None, "f2")}
Interchangeable == Permutations(Requests)

-----------------------------------------------------------------------------
VARIABLES which, db, base, doc, ids, moves

Filed(id, own, refs, val) ==
  [id |-> id, own |-> own, refs |-> refs, val |-> val, hash |-> None, base |-> None]
\* A posting or a trade, typed: converted when it was.
Typing(id, own, refs, val, at) == [Filed(id, own, refs, val) EXCEPT !.base = at]
Par == <<"par">>
Called(word) == [name |-> <<word, "Aa">>]
Kind(k) == [kind |-> k]
Posted(ext, day, amount, text) == [ext |-> ext, day |-> day, amount |-> amount, text |-> text]
In(ccy) == [ccy |-> ccy]
Ties(a, category, owner, transfer) ==
  [account |-> a, category |-> category, owner |-> owner, transfer |-> transfer]

Shape == INSTANCE Portability WITH
           MaxMoves <- 0, Sites <- {}, Starts <- {}, Typed <- {}, Names <- {}, Cut <- {}
Empty == [t \in Shape!Tables |-> <<>>]

Full ==
  [Empty EXCEPT
   !["owners"] = <<Filed(1, Called("shared"), <<>>, Kind("shared")), Filed(2, Called("alex"), <<>>, Kind("person"))>>,
   !["category_groups"] = <<Filed(3, Called("living"), <<>>, "expense"), Filed(4, Called("work"), <<>>, "income")>>,
   !["categories"] = <<Filed(5, Called("other"), [group |-> 3], "x"), Filed(6, Called("other"), [group |-> 4], "y")>>,
   !["tags"] = <<Filed(7, Called("trip"), <<>>, "red")>>,
   !["connections"] = <<Filed(8, Called("bank"), <<>>, "ok"), Filed(9, Called("bank"), <<>>, "ok")>>,
   !["accounts"] = <<Filed(10, Called("card") @@ [ext |-> "visa", kind |-> "credit"], [owner |-> 2, connection |-> 9], -5),
                     Filed(11, Called("cash") @@ [ext |-> None, kind |-> "other"], [owner |-> 1, connection |-> None], 7)>>,
   !["account_documents"] = <<Filed(12, "scan", [account |-> 11], "pdf"), Filed(13, "scan", [account |-> 11], "pdf")>>,
   !["securities"] = <<Filed(14, "fund", <<>>, "etf")>>,
   !["balance_snapshots"] = <<Filed(15, 1, [account |-> 11], 7)>>,
   !["security_prices"] = <<Filed(16, 1, [security |-> 14], 3)>>,
   !["holdings"] = <<Filed(17, "held", [account |-> 11, security |-> 14], 2)>>,
   !["transactions"] = <<Typing(18, Posted("x1", 1, -4, "pay"), Ties(10, 5, None, 26), In("usd"), Par),
                         Typing(19, Posted(None, 1, 4, "pay"), Ties(11, 6, 2, 26), In("usd"), Par),
                         Typing(20, Posted(None, 2, -1, "tea"), Ties(11, None, None, None), In("aud"),
                                <<"over", 2>>)>>,
   !["transaction_splits"] = <<Filed(21, "half", [parent |-> 20, category |-> 5, owner |-> 2], -1)>>,
   !["transaction_tags"] = <<Filed(22, "tag", [parent |-> 20, tag |-> 7], "")>>,
   !["investment_transactions"] =
     <<Typing(23, Posted(None, 1, -3, "fund") @@ [type |-> "buy"],
           [account |-> 11, security |-> 14, transfer |-> None], In("usd"), Par)>>,
   !["transfer_groups"] = <<Filed(26, "pair", <<>>, "auto")>>,
   !["rules"] = <<Filed(24, Called("coffee") @@ [priority |-> 10], [category |-> 6, owner |-> 2, tags |-> {7}], "on"),
                  Filed(25, Called("coffee") @@ [priority |-> 10], [category |-> 5, owner |-> None, tags |-> {}], "on")>>,
   !["fx_rates"] = <<Filed(27, [from |-> "usd", to |-> "aud", day |-> 1], <<>>, 2)>>,
   !["owner_income_profiles"] = <<Filed(28, "profile", [owner |-> 2], 100)>>,
   !["paystubs"] = <<Filed(29, 1, [owner |-> 2], 50)>>,
   !["paystub_lines"] = <<Filed(30, "tax", [parent |-> 29], 9)>>,
   !["recurring_series"] = <<Filed(31, Called("rent"), [account |-> 11, category |-> 5, transaction |-> 20], "monthly")>>]

\* Its Alex and its card are the same ones; its other rows are its own.
Lived ==
  [Empty EXCEPT
   !["owners"] = <<Filed(41, Called("shared"), <<>>, Kind("shared")), Filed(42, [name |-> <<"alex", "aa">>], <<>>, Kind("person"))>>,
   !["accounts"] = <<Filed(43, Called("gold card") @@ [ext |-> "visa", kind |-> "credit"], [owner |-> 41, connection |-> None], -9)>>,
   !["transactions"] = <<Typing(44, Posted("x1", 1, -4, "pay"), Ties(43, None, 42, 46), In("usd"), Par),
                         Typing(45, Posted(None, 1, 4, "cash"), Ties(43, None, None, 46), In("usd"), Par)>>,
   !["transfer_groups"] = <<Filed(46, "pair", <<>>, "manual")>>,
   !["rules"] = <<Filed(47, Called("coffee") @@ [priority |-> 0], [category |-> None, owner |-> 42, tags |-> {}], "off")>>]

TwoSites == {"home", "away"}
New == [Empty EXCEPT !["owners"] = <<Filed(40, Called("shared"), <<>>, Kind("shared"))>>]
Begun == {[home |-> Full, away |-> Lived], [home |-> Full, away |-> New]}
Teas == {[own |-> Posted(None, 2, -1, "tea"), val |-> In("aud")]}
NewNames == {<<"ours", "Aa">>}
Cuts == {"owners", "transactions"}
Export == INSTANCE Portability WITH
            MaxMoves <- 4, Sites <- TwoSites, Starts <- Begun, Typed <- Teas, Names <- NewNames, Cut <- Cuts

MCInit ==
  \/ which = "statements" /\ Init /\ db = None /\ base = None /\ doc = None /\ ids = 0 /\ moves = 0
  \/ which = "export" /\ Init /\ ~account.derived /\ Export!Init
MCNext ==
  /\ \/ which = "statements" /\ Next /\ UNCHANGED <<db, base, doc, ids, moves>>
     \/ which = "export" /\ Export!Next /\ UNCHANGED vars
  /\ UNCHANGED which
MCSpec == MCInit /\ [][MCNext]_<<vars, db, base, doc, ids, moves, which>>

\* A cell is read as whoever wrote it meant it, and our own export reads back.
CellsReadBack == which = "statements" => CellsReadAsWritten /\ ExportReadsBack

\* An export restored elsewhere is the household it was taken from, and the
\* uploaded files can follow it later.
RestoreIsFaithful ==
  which = "export" =>
    /\ Export!TypeOK /\ Export!RestoreIsFaithful
    /\ Export!FilesCanFollow /\ Export!OldBalancesReadTheSame

\* An export merged into a household that has lived on keeps what is there, links
\* no transfer by halves, counts alike rows as often as the larger side has them,
\* and adds nothing when it comes a second time.
MergeKeepsBoth == which = "export" => Export!MergeKeepsBoth
=============================================================================
