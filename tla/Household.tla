----------------------------- MODULE Household -----------------------------
(***************************************************************************)
(* What a household files its ledger under (services/owners.py,            *)
(* services/ownership.py and the categories of services/ledger.py): owners *)
(* a charge is attributed to, and categories whose group gives the type    *)
(* every report reads.  Deleting either moves what was filed under it.     *)
(*                                                                         *)
(* A request that names an owner reads the names first and writes later;   *)
(* the unique index on the lower-cased name is what a race meets.          *)
(***************************************************************************)
EXTENDS Balances, FiniteSets, Functions

CONSTANTS
  AccountIds, OwnerIds, GroupIds, CatIds,  \* ids that may come into use
  RowIds,       \* the transactions
  OwnerNames,   \* the names a person may type for an owner
  Lower,        \* lower(name)
  Requests      \* requests open at once

VARIABLES
  owners,    \* in use: name, shared
  groups,    \* in use: income | expense | transfer
  cats,      \* in use: their group
  rows,      \* each transaction: account, owner, cat and one leg of its split, if any
  accounts,  \* in use (Accounts)
  work,      \* each request's open transaction, or None
  left       \* bound: the operations of each kind a behaviour may still take

filing == <<groups, cats>>

Types == {"income", "expense", "transfer"}
Owner == [name : DOMAIN Lower, shared : BOOLEAN]
Leg == [owner : OwnerIds \union {None}, cat : CatIds \union {None}]
Row == [account : AccountIds, owner : OwnerIds \union {None}, cat : CatIds \union {None},
        leg : Leg \union {None}]

\* The tables of a household, in which what a row, a leg or an account names is there.
FiledIn(x, os, cs) == x.owner \in DOMAIN os \union {None} /\ x.cat \in DOMAIN cs \union {None}
Tables(os, gs, cs, rs, as) ==
  /\ DOMAIN os \subseteq OwnerIds /\ os \in [DOMAIN os -> Owner]
  /\ DOMAIN gs \subseteq GroupIds /\ gs \in [DOMAIN gs -> Types]
  /\ DOMAIN cs \subseteq CatIds /\ cs \in [DOMAIN cs -> DOMAIN gs]
  /\ rs \in [DOMAIN rs -> Row]
  /\ \A i \in DOMAIN rs :
       /\ rs[i].account \in DOMAIN as
       /\ FiledIn(rs[i], os, cs)
       /\ rs[i].leg # None => FiledIn(rs[i].leg, os, cs)
  /\ \A a \in DOMAIN as : as[a].owner \in DOMAIN os

\* Exactly one owner is Shared, and no two read alike.
OwnersApart(os) ==
  /\ \E o \in DOMAIN os : {p \in DOMAIN os : os[p].shared} = {o}
  /\ \A o, p \in DOMAIN os : Lower[os[o].name] = Lower[os[p].name] => o = p

ASSUME NamesAssumption == OwnerNames \subseteq DOMAIN Lower
\* NULL is neither an id nor a leg.
ASSUME NoIdAssumption == None \notin OwnerIds /\ None \notin CatIds /\ None \notin Leg

Spend(kind) == left[kind] > 0 /\ left' = [left EXCEPT ![kind] = @ - 1]

Fresh(ids, used) == CHOOSE i \in ids \ used : TRUE

Without(f, x) == Restrict(f, DOMAIN f \ {x})

\* ensure_shared_owner: it comes with the household and is never deleted
SharedOwner == CHOOSE o \in DOMAIN owners : owners[o].shared

\* split.owner_id, then the transaction's, then the account's
EffectiveOwner(x) ==
  LET own == IF x.owner # None THEN x.owner ELSE accounts[x.account].owner
  IN IF x.leg # None /\ x.leg.owner # None THEN x.leg.owner ELSE own

\* The type a row, or the leg that is read for it, is reported under.
Meaning(x) ==
  LET c == IF x.leg # None THEN x.leg.cat ELSE x.cat
  IN IF c = None THEN "uncategorized" ELSE groups[cats[c]]

\* Every row and leg with f applied to what it is filed under.
Refiled(f(_)) == [i \in DOMAIN rows |->
  LET x == f(rows[i]) IN IF x.leg = None THEN x ELSE [x EXCEPT !.leg = f(x.leg)]]

-----------------------------------------------------------------------------
(* Owners                                                                  *)

Duplicate(name, but) ==
  \E o \in DOMAIN owners \ {but} : Lower[owners[o].name] = Lower[name]

\* create_owner (o is None) and update_owner, up to the flush
NameOwner(r, o, name) ==
  /\ Spend("filing")
  /\ work[r] = None
  /\ ~Duplicate(name, o)
  /\ work' = [work EXCEPT ![r] = [op |-> "owner", owner |-> o, name |-> name]]
  /\ UNCHANGED <<owners, filing, rows, accounts>>

\* _flush_new_owner: a name taken meanwhile is a 409, and the request's work is undone
FlushOwner(r) ==
  /\ work[r] # None
  /\ work[r].op = "owner"
  /\ work' = [work EXCEPT ![r] = None]
  /\ LET w == work[r] IN
       \/ /\ ~Duplicate(w.name, w.owner)
          /\ w.owner = None
          /\ DOMAIN owners # OwnerIds
          /\ owners' = Put(owners, Fresh(OwnerIds, DOMAIN owners), [name |-> w.name, shared |-> FALSE])
       \/ /\ ~Duplicate(w.name, w.owner)
          /\ w.owner \in DOMAIN owners
          /\ owners' = [owners EXCEPT ![w.owner].name = w.name]
       \/ /\ Duplicate(w.name, w.owner) \/ (w.owner # None /\ w.owner \notin DOMAIN owners)
          /\ UNCHANGED owners
  /\ UNCHANGED <<filing, rows, accounts, left>>

\* Rows and legs of one owner, on both tables
Handed(o, to) == Refiled(LAMBDA x : IF x.owner = o THEN [x EXCEPT !.owner = to] ELSE x)

DeleteOwner_NotLegs(o, to) ==
  /\ Spend("filing")
  /\ o \in DOMAIN owners /\ ~owners[o].shared
  /\ to \in DOMAIN owners \ {o}
  /\ owners' = Without(owners, o)
  /\ accounts' = [a \in DOMAIN accounts |->
       IF accounts[a].owner = o THEN [accounts[a] EXCEPT !.owner = to] ELSE accounts[a]]
  /\ rows' = [i \in DOMAIN rows |->
       IF rows[i].owner = o THEN [rows[i] EXCEPT !.owner = to] ELSE rows[i]]
  /\ UNCHANGED <<filing, work>>

\* delete_owner: accounts, rows and legs move, to Shared unless the request says where.
\* The foreign key refuses a delete that a row inserted meanwhile still points at.
DeleteOwner(o, to) ==
  /\ Spend("filing")
  /\ o \in DOMAIN owners /\ ~owners[o].shared
  /\ to \in DOMAIN owners \ {o}
  /\ owners' = Without(owners, o)
  /\ accounts' = [a \in DOMAIN accounts |->
       IF accounts[a].owner = o THEN [accounts[a] EXCEPT !.owner = to] ELSE accounts[a]]
  /\ rows' = Handed(o, to)
  /\ UNCHANGED <<filing, work>>

-----------------------------------------------------------------------------
(* Categories                                                              *)

CreateGroup(type) ==
  /\ Spend("filing")
  /\ DOMAIN groups # GroupIds
  /\ groups' = Put(groups, Fresh(GroupIds, DOMAIN groups), type)
  /\ UNCHANGED <<cats, owners, rows, accounts, work>>

CreateCategory(g) ==
  /\ Spend("filing")
  /\ DOMAIN cats # CatIds
  /\ g \in DOMAIN groups
  /\ cats' = Put(cats, Fresh(CatIds, DOMAIN cats), g)
  /\ UNCHANGED <<groups, owners, rows, accounts, work>>

\* update_category: a move is only ever within one type
UpdateCategory(c, g) ==
  /\ Spend("filing")
  /\ c \in DOMAIN cats /\ g \in DOMAIN groups
  /\ groups[cats[c]] = groups[g]
  /\ cats' = [cats EXCEPT ![c] = g]
  /\ UNCHANGED <<groups, owners, rows, accounts, work>>

\* _reassign_category, on both tables
Reassigned(from, to) == Refiled(LAMBDA x : IF x.cat \in from THEN [x EXCEPT !.cat = to] ELSE x)

\* delete_category: to is None, or another category of the same type
DeleteCategory(c, to) ==
  /\ Spend("filing")
  /\ c \in DOMAIN cats
  /\ to # None => to \in DOMAIN cats \ {c} /\ groups[cats[to]] = groups[cats[c]]
  /\ rows' = Reassigned({c}, to)
  /\ cats' = Without(cats, c)
  /\ UNCHANGED <<groups, owners, accounts, work>>

\* delete_category_group: its categories go with it, and what was filed under them is cleared
DeleteGroup(g) ==
  /\ Spend("filing")
  /\ g \in DOMAIN groups
  /\ LET gone == {c \in DOMAIN cats : cats[c] = g} IN
       /\ rows' = Reassigned(gone, None)
       /\ cats' = Restrict(cats, DOMAIN cats \ gone)
  /\ groups' = Without(groups, g)
  /\ UNCHANGED <<owners, accounts, work>>

\* A person files a row; an owner the household does not have is a 404 (require_owners).
File(i, owner, cat) ==
  /\ Spend("filing")
  /\ owner \in DOMAIN owners \union {None}
  /\ cat \in DOMAIN cats \union {None}
  /\ rows' = [rows EXCEPT ![i].owner = owner, ![i].cat = cat]
  /\ UNCHANGED <<owners, filing, accounts, work>>

HouseholdNext ==
  \/ \E r \in Requests, o \in DOMAIN owners \union {None}, name \in OwnerNames : NameOwner(r, o, name)
  \/ \E r \in Requests : FlushOwner(r)
  \/ \E o, to \in DOMAIN owners : DeleteOwner(o, to)
  \/ \E type \in Types : CreateGroup(type)
  \/ \E g \in DOMAIN groups : CreateCategory(g)
  \/ \E c \in DOMAIN cats, g \in DOMAIN groups : UpdateCategory(c, g)
  \/ \E c \in DOMAIN cats, to \in DOMAIN cats \union {None} : DeleteCategory(c, to)
  \/ \E g \in DOMAIN groups : DeleteGroup(g)
  \/ \E i \in DOMAIN rows, o \in DOMAIN owners \union {None}, c \in DOMAIN cats \union {None} :
       File(i, o, c)

-----------------------------------------------------------------------------
(* Properties                                                              *)

\* Every row ends at an owner the household has, and it has exactly one Shared owner,
\* whatever is deleted (owners.py: the chain is total, ADR-0026).
Attributed ==
  /\ Cardinality({o \in DOMAIN owners : owners[o].shared}) = 1
  /\ \A a \in DOMAIN accounts : accounts[a].owner \in DOMAIN owners
  /\ \A i \in DOMAIN rows :
       /\ EffectiveOwner(rows[i]) \in DOMAIN owners
       /\ EffectiveOwner([rows[i] EXCEPT !.leg = None]) \in DOMAIN owners

\* No two owners of a household read alike, also when two requests name them at once
\* (_reject_duplicate_name looks, the index decides).
OwnersReadApart ==
  \A o, p \in DOMAIN owners : Lower[owners[o].name] = Lower[owners[p].name] => o = p

\* Deleting an owner moves its whole share to one other owner and nobody else's row changes
\* hands, along the whole chain from a leg to its account (delete_owner).
ShareMovesWhole ==
  [][\A gone \in DOMAIN owners \ DOMAIN owners' :
       \E to \in DOMAIN owners' : \A i \in DOMAIN rows :
         LET was == EffectiveOwner(rows[i])
         IN EffectiveOwner(rows[i])' = IF was = gone THEN to ELSE was]_<<owners, rows, accounts>>

\* No edit of the categories changes what a row means to a report: its type stays, or it has
\* no category any more (update_category, delete_category, delete_category_group).
MeaningStands ==
  [][(cats' # cats \/ groups' # groups) =>
       \A i \in DOMAIN rows : Meaning(rows[i])' \in {Meaning(rows[i]), "uncategorized"}]_<<cats, groups, rows>>
=============================================================================
