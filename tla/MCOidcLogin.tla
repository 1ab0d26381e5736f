----------------------------- MODULE MCOidcLogin ------------------------------
(***************************************************************************)
(* Small instances of OidcLogin for TLC: tabs and connections are model    *)
(* values, which the model nowhere orders.                                 *)
(***************************************************************************)
EXTENDS OidcLogin, TLC

CONSTANTS t1, t2, c1, c2, c3

OneTab == {t1}
TwoTabs == {t1, t2}
TwoConns == {c1, c2}
ThreeConns == {c1, c2, c3}
===============================================================================
