------------------------------ MODULE MCCouncil ------------------------------
(* Small instances of Council.  Two messages compete for an index, the third *)
(* is refused by the handler and the fourth is not the policy's.             *)
EXTENDS Council, TLC

Msg(index, operator) ==
    [creator |-> "council", index |-> index, member |-> "m",
     operator |-> operator, status |-> "active"]

MCMessages == {Msg("i1", "o1"), Msg("i1", "o2"), Msg("i2", "bad"),
               [Msg("i2", "o2") EXCEPT !.creator = "member"]}
MCOneMessage == {Msg("i1", "o1")}
MCGenesisLists == {<<>>}

MembersSymmetry == Permutations(Members)
=============================================================================
