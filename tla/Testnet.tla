------------------------------- MODULE Testnet -------------------------------
(***************************************************************************)
(* The chain of ValidatorRegistry started from a genesis: one written by   *)
(* hand, or the one the multi-node command made, whose registry is empty   *)
(* until someone lists entries in it.                                      *)
(***************************************************************************)
EXTENDS ValidatorRegistry, MultiNode

ASSUME TestnetAssumption == \A k \in 1..Len(Keys) : Keys[k] \in Candidates

testnetVars == <<vars, nodeVars>>

\* Before the chain starts: the command's steps.
GenerateFiles ==
    /\ initStep = 0
    /\ NodesNext
    /\ UNCHANGED vars

StartByHand(g) ==
    /\ phase = "idle"
    /\ InitChain(g)
    /\ UNCHANGED nodeVars

\* The nodes start from their files, all with the same entries added.
StartNodes(list) ==
    /\ phase = "done"
    /\ InitChain([list   |-> list,
                  gentxs |-> {tx.operator : tx \in dirs[0].genesis.gentxs}])
    /\ UNCHANGED nodeVars

Proceed == ChainStep /\ UNCHANGED nodeVars

TestnetInit == Init /\ NodesInit

TestnetNext ==
    \/ GenerateFiles
    \/ \E g \in Geneses : StartByHand(g)
    \/ \E list \in Lists : StartNodes(list)
    \/ Proceed

TestnetSpec == TestnetInit /\ [][TestnetNext]_testnetVars

\* A generated testnet runs only with an entry for each of its operators, which
\* the command does not write (testnet_multi_node.go:366, 270).
TestnetNeedsEntries ==
    Running /\ phase = "done" =>
        \A operator \in Accounts :
            \E k \in DOMAIN genesis.list : genesis.list[k].operator = operator

=============================================================================
