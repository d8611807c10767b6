--------------------------- MODULE MCTrustDeposit ---------------------------
(* Small instances of TrustDeposit.  A coin is One units of dust. *)
EXTENDS TrustDeposit

\* Nothing owed, an exact and a rounded fraction of a coin, several coins.
MCRates == {0, 3, 5}
MCValues == {0, 1, 7}

MCAmounts == 1..3
=============================================================================
