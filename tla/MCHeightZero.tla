---------------------------- MODULE MCHeightZero ----------------------------
(* A small instance of HeightZero: two delegations to one validator and one  *)
(* to another.                                                               *)
EXTENDS HeightZero

CONSTANTS v1, v2, d1, d2, d3

MCValidatorOf == [d \in {d1, d2, d3} |-> IF d = d3 THEN v2 ELSE v1]
MCAllowedLists == {{}, {v1}}
MCDelegations == {d1, d2, d3}
MCShares == [d \in {d1, d2, d3} |-> IF d = d1 THEN 1 ELSE 2]
MCAddressOf == [v \in {v1, v2} |-> IF v = v1 THEN 1 ELSE 2]
=============================================================================
