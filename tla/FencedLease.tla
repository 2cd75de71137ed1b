----------------------------- MODULE FencedLease -----------------------------
(***************************************************************************)
(* What the sync queue promises the ledger, without saying how.            *)
(*                                                                         *)
(* A resource (a bank connection) is worked on under a claim.  A claim is  *)
(* granted at most once, at most one claim holds a resource at a time, and *)
(* only the claim that holds it may land a payload.  A claim may be taken  *)
(* away at any moment (its worker died, its job was cancelled, its         *)
(* connection was removed), and from then on it can land nothing.          *)
(***************************************************************************)
EXTENDS Integers

CONSTANTS Resources, Claims, None

VARIABLES
  holder,   \* the claim that holds each resource, or None
  granted,  \* every claim ever granted
  landed    \* every claim whose payload has been committed

leaseVars == <<holder, granted, landed>>

TypeOK ==
  /\ holder \in [Resources -> Claims \cup {None}]
  /\ granted \subseteq Claims
  /\ landed \subseteq Claims

Init ==
  /\ holder = [r \in Resources |-> None]
  /\ granted = {}
  /\ landed = {}

Grant(r, k) ==
  /\ holder[r] = None
  /\ k \notin granted
  /\ holder' = [holder EXCEPT ![r] = k]
  /\ granted' = granted \cup {k}
  /\ UNCHANGED landed

\* A claim given up in the transaction that made it: a paused connection.
Forgo(k) ==
  /\ k \notin granted
  /\ granted' = granted \cup {k}
  /\ UNCHANGED <<holder, landed>>

Land(r) ==
  /\ holder[r] # None
  /\ landed' = landed \cup {holder[r]}
  /\ UNCHANGED <<holder, granted>>

\* One reaper pass may take several resources back at once.
Withdraw(S) ==
  /\ holder' = [r \in Resources |-> IF r \in S THEN None ELSE holder[r]]
  /\ UNCHANGED <<granted, landed>>

Next ==
  \/ \E r \in Resources, k \in Claims : Grant(r, k)
  \/ \E k \in Claims : Forgo(k)
  \/ \E r \in Resources : Land(r)
  \/ \E S \in SUBSET Resources : Withdraw(S)

Spec == Init /\ [][Next]_leaseVars
=============================================================================
