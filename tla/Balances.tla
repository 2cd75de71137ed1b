------------------------------ MODULE Balances ------------------------------
(***************************************************************************)
(* Where a balance lands (services/ledger.py): the one rule every writer   *)
(* of an account's balance goes through.  An account's half of it is       *)
(*   balance, asOf   the current balance and its date                      *)
(*   snaps           the recorded history: a balance for some days         *)
(*   derived         valued from its holdings (ADR-0021)                   *)
(***************************************************************************)
EXTENDS Integers

CONSTANT None  \* SQL NULL

\* A table with a row put in, or put in the place of another.
Put(f, x, v) == [y \in DOMAIN f \union {x} |-> IF y = x THEN v ELSE f[y]]

\* The date is not older than the one the account has.
BecomesCurrent(account, on) == account.asOf = None \/ on >= account.asOf

\* _upsert_snapshot_at
Snapshotted(account, on, balance) == [account EXCEPT !.snaps = Put(@, on, balance)]

RecordBalance_LatestWins(seen, account, balance, on, snapshot) ==
  LET moved == [account EXCEPT !.balance = balance, !.asOf = on]
  IN IF snapshot THEN Snapshotted(moved, on, balance) ELSE moved

\* record_balance: the history at the balance's own date, the headline only forward.
\* seen is the account as its writer had read it, account as it is when the write lands.
RecordBalance(seen, account, balance, on, snapshot) ==
  LET moved == IF BecomesCurrent(seen, on)
               THEN [account EXCEPT !.balance = balance, !.asOf = on] ELSE account
  IN IF snapshot THEN Snapshotted(moved, on, balance) ELSE moved
=============================================================================
