----------------------------- MODULE MCNotices ------------------------------
(* Two connections fail in turn while one tab polls.                        *)
EXTENDS Notices, TLC

CONSTANTS c1, c2, d1

TwoConnections == {c1, c2}
OneConnection  == {c1}
OneDelivery    == {d1}
=============================================================================
