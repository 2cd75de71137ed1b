----------------------------- MODULE MCLedgerRow -----------------------------
(* A row in a foreign currency and three rules: one files every expense, one   *)
(* splits what acme charges by a fixed leg, a share and the rest, and one names *)
(* a merchant by the category the first may just have set.  Or a row whose      *)
(* writers overlap, under the first.                                            *)
EXTENDS LedgerRow

CONSTANTS food, acme, shop

TwoAmounts == {-10, 6}
TwoDays    == {1, 2}
SecondDay  == {2}
OneRate    == {<<3, 2>>}
Halves     == {<<1, 1, 1>>}
PartsOf    == {<<-4, -6>>, <<8, -2>>}
FoodOnly   == {food}
BothNames  == {acme, shop}

Together   == {{"day"}, {"amount", "day"}, {"category"}, {"merchant"}}

Divide == [when |-> [merchant |-> acme],
           set |-> [split |-> <<[amount |-> -4, category |-> food],
                                [share |-> <<1, 4>>, category |-> None],
                                [category |-> None]>>]]
File   == [when |-> [direction |-> "out"], set |-> [category |-> food]]
Rename == [when |-> [category |-> food], set |-> [merchant |-> shop]]

ThreeRules == <<File, Divide, Rename>>

-----------------------------------------------------------------------------
OneAmount == {-10}
NoRate    == {}
OneRule   == <<File>>
OneName   == {acme}
Apart     == {{"category"}, {"merchant"}}
TwoParts  == {<<-4, -6>>}
EveryOne  == {"sync", "rules", "patch"}
NoOne     == {}
Late == INSTANCE LedgerRow WITH
          Amounts <- OneAmount, Merchants <- OneName, Rated <- NoRate, Rules <- OneRule,
          Shares <- NoOne, Parts <- TwoParts, Sendable <- Apart, Overlaps <- EveryOne

VARIABLE which
MCInit == (which = "alone" /\ Init) \/ (which = "late" /\ Late!Init)
MCNext == /\ (which = "alone" /\ Next) \/ (which = "late" /\ Late!Next)
          /\ UNCHANGED which
MCSpec == MCInit /\ [][MCNext]_<<vars, which>>
LateSpec == which = "late" /\ Late!Init /\ [][Late!Next /\ UNCHANGED which]_<<vars, which>>

\* ADR-0007: what a person set, only a person changes, however the writers overlap.
PeopleAreHeard == [][Late!UserFieldsStand]_vars
=============================================================================
