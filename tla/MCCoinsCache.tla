---------------------------- MODULE MCCoinsCache ----------------------------
(***************************************************************************)
(* Two outpoints, two spendable coins and an unspendable one, two blocks.  *)
(***************************************************************************)
EXTENDS CoinsCache
=============================================================================
