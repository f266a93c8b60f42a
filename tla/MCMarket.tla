------------------------------ MODULE MCMarket ------------------------------
(* Two traders and their offers, with no query failing.                     *)
EXTENDS Market
=============================================================================
