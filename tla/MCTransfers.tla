----------------------------- MODULE MCTransfers -----------------------------
(* Two withdrawals, one of them in another currency, and the two equal       *)
(* deposits they compete for: the first withdrawal is as far from one as     *)
(* from the other, unless the second has taken one.  Amounts are in minor    *)
(* units, so that two per cent of a hundred is two of them.                  *)
EXTENDS Transfers

CONSTANTS checking, savings, foreign, usd, eur, cA, cB

FourTxns   == 1..4
LastTwo    == 3..4
Accounts   == <<checking, savings, savings, foreign>>
Currencies == [a \in {checking, savings, foreign} |-> IF a = foreign THEN eur ELSE usd]
Worths     == << {<<-100, -100>>}, {<<100, 100>>}, {<<100, 100>>},
                 {<<-90, -98>>, <<-90, None>>, <<0, 0>>} >>
Moments    == <<1, 0, 2, 0>>
TwoClients == {cA, cB}
ClientsAreAlike == Permutations(TwoClients)
=============================================================================
