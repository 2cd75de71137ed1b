------------------------------ MODULE MCWorker ------------------------------
(* What the worker does, one part of it at a time.  One charge the bank keeps *)
(* rewording over three days; or two alike charges told apart by their words, *)
(* beside a person who edits, enters and deletes; or two workers that race    *)
(* for two jobs of one connection; or the daily rates of two households, of   *)
(* one base currency or of each other's.                                      *)
EXTENDS SyncIngest, SyncQueue, RateFetch, TLC

CONSTANTS c1, c2, a1, cafe, ref, bank1, j1, j2, w1, w2, h1, h2, usd, aud

TwoCharges == {c1, c2}
Alike      == c1 :> a1 @@ c2 :> a1
OtherWords == c1 :> {{cafe}} @@ c2 :> {{ref}}
Days0      == {0}

Same    == h1 :> usd @@ h2 :> usd
Crossed == h1 :> usd @@ h2 :> aud
Starts0 == {[base |-> Same, last |-> 3, rows |-> 2, stated |-> 0],
            [base |-> Same, last |-> 2, rows |-> 1, stated |-> 1],
            [base |-> Crossed, last |-> 1, rows |-> 2, stated |-> 1]}

Symmetry == Permutations(Jobs) \cup Permutations(Workers)

-----------------------------------------------------------------------------
(* The one charge                                                          *)

VARIABLES which, itsBank, itsRows, itsRemapped

OneCharge  == {c1}
Its        == c1 :> a1
AnyWords   == c1 :> {{}, {cafe}, {cafe, ref}}
Days2      == 0..2
Filing     == {"category", "notes"}
One == INSTANCE SyncIngest WITH
         Charges <- OneCharge, AmountOf <- Its, WordsOf <- AnyWords, Days <- Days2, MatchDays <- 1,
         CandidateLimit <- 2, Gestures <- Filing, MaxId <- 4, MaxRows <- 3, MaxEntered <- 0,
         bank <- itsBank, rows <- itsRows, remapped <- itsRemapped

-----------------------------------------------------------------------------
oneVars == <<itsBank, itsRows, itsRemapped>>

MCInit ==
  /\ which \in {"one", "people", "queue", "rates"}
  /\ One!IngestInit /\ IngestInit /\ Init /\ RatesInit
  /\ which # "rates" => start = CHOOSE s \in Starts : TRUE
MCNext ==
  /\ \/ which = "one" /\ One!IngestNext /\ UNCHANGED <<ingestVars, vars, rateVars>>
     \/ which = "people" /\ IngestNext /\ UNCHANGED <<oneVars, vars, rateVars>>
     \/ which = "queue" /\ Next /\ UNCHANGED <<oneVars, ingestVars, rateVars>>
     \/ which = "rates" /\ RatesNext /\ UNCHANGED <<oneVars, ingestVars, vars>>
  /\ UNCHANGED which
MCSpec == MCInit /\ [][MCNext]_<<oneVars, ingestVars, vars, rateVars, which>>

\* One charge is one row, however it is reported: in the file once while the
\* bank reports it, and untouched when a fetch says what the last one said.
OneRowEach == One!IngestTypeOK /\ One!ReportedOnFileOnce /\ One!ResyncIsNoop

\* What a person said of a pending charge is on the posting that replaces it.
WorkArrives == One!WorkReachesThePosting
=============================================================================
