------------------------ MODULE MCValidatorRegistry ------------------------
(* A small instance of Testnet: two indexes, two operators that can be       *)
(* onboarded, one of them under either index, messages each check refuses,   *)
(* and commands for one to three nodes.                                      *)
EXTENDS Testnet

Msg(creator, index, operator, status) ==
    [creator |-> creator, index |-> index, member |-> "m",
     operator |-> operator, status |-> status]

MCMessages ==
    { Msg("council", "i1", "o1", "active"),
      Msg("council", "i2", "o1", "inactive"),
      Msg("council", "i1", "o2", "active"),
      Msg("council", "i2", "bad", "active"),
      Msg("member", "i2", "o2", "active"),
      Msg("council", "", "o2", "active"),
      Msg("council", "i2", "o2", "") }

\* More nodes after fewer and fewer after more, with a stake nobody can pay and
\* a piece of the flag that is not a number.
Command(nodes, stakes) == [nodes |-> nodes, stakes |-> stakes]
MCCommands == {Command(1, <<>>), Command(1, <<6>>), Command(2, <<>>),
               Command(2, <<0, 6>>), Command(3, <<>>)}
MCKeys == <<"o1", "o2", "o3", "o4">>
=============================================================================
