---------------------------- MODULE Investments -----------------------------
(***************************************************************************)
(* A household's positions (module Positions) beside the trades one of     *)
(* them is folded from (module TradeHistory), and what is promised of both.*)
(***************************************************************************)
EXTENDS Positions, TradeHistory

InvestmentsSpec == Spec /\ HistorySpec

\* A position's fold is an average-cost account, however its past was entered: sales keep the cost
\* of a share, and the basis is never more than was paid (fold_history).
FoldIsSound ==
  HistoryTypeOK /\ SalesKeepTheAverage /\ BasisIsWhatWasPaid /\ EntryOrderIsNoMatter

\* What was typed waits behind the trades (_reject_manual_write), and a derived account's balance
\* moves with its positions (_recompute_accounts).
PositionsAreKept == TypedWaitsBehindTrades /\ BalanceFollowsPositions

\* Beside people and syncs that overlap, a filed balance values every position, the bank's rows are
\* its list, and what a person wrote or pinned survives it (sync_holdings).
MirrorIsSound == TypeOK /\ FiledIsWhole /\ HandWorkSurvives /\ SyncMirrorsTheBank
=============================================================================
