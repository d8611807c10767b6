----------------------------- MODULE YieldClaim -----------------------------
(***************************************************************************)
(* What x/td promises its depositors, with no pool, no dust and no block   *)
(* structure.  The depositors' claim, in units of 1/One coin, moves in     *)
(* four ways only: a block adds exactly its yield, a deposit adds whole    *)
(* coins, governance changes the yield of later blocks, and a restart from *)
(* an exported genesis drops the part of a coin not yet paid out.          *)
(***************************************************************************)
EXTENDS Integers

CONSTANT One

VARIABLES
    claim,   \* what the depositors own: coins paid in, and the dust
    yield    \* what the next block adds

vars == <<claim, yield>>

Init == /\ claim \in Int
        /\ claim % One = 0
        /\ yield \in Int

Accrue == /\ claim' = claim + yield
          /\ UNCHANGED yield

Deposit == /\ claim' > claim
           /\ (claim' - claim) % One = 0
           /\ yield' \in Int

Govern == /\ yield' \in Int
          /\ UNCHANGED claim

Restart == /\ claim' = One * (claim \div One)
           /\ UNCHANGED yield

Next == Accrue \/ Deposit \/ Govern \/ Restart

Spec == Init /\ [][Next]_vars

=============================================================================
