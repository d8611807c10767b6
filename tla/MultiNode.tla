------------------------------ MODULE MultiNode ------------------------------
(***************************************************************************)
(* The multi-node command: it fills one directory per node with a key, a   *)
(* gentx and a genesis, copies every gentx to every node and collects them *)
(* into the genesis.  The output directory outlives the command, which may *)
(* stop at any point and be given again for more or fewer nodes.           *)
(*                                                                         *)
(* Nodes count from 0.  A node id is made once per directory and names the *)
(* gentx's file, so a file is named here by its node; the operator's key   *)
(* is made anew each time.  Configuration files and addresses of peers are *)
(* left out.                                                               *)
(***************************************************************************)
EXTENDS Naturals, Sequences

CONSTANTS
    Commands,      \* the commands given: a number of nodes and the stakes flag
    Keys,          \* bound: the operators' addresses, in the order they are made
    Balance,       \* what a node's account holds in the bond denomination
    DefaultStake   \* the stake of a node the flag gives none for

\* Keys are random, so none is made twice.
ASSUME MultiNodeAssumption ==
    /\ Commands \subseteq [nodes : Nat \ {0}, stakes : Seq(Nat)]
    /\ Keys \in Seq(STRING)
    /\ \A k, l \in 1..Len(Keys) : Keys[k] = Keys[l] => k = l

VARIABLES
    command,   \* the command that runs or ran last
    phase,     \* what it does, or how it ended
    node,      \* the node it is at
    used,      \* the keys ever made
    accounts,  \* genAccounts: the operators made by this command, in order
    dirs       \* the output directory: each node's gentxs and genesis

nodeVars == <<command, phase, node, used, accounts, dirs>>

NoGenesis == [accounts |-> {}, gentxs |-> {}]

\* The flag's pieces in order; 0 is one that is not a number and is skipped,
\* so that the ones after it move up.
StakeOf(flag, i) ==
    LET stakes == SelectSeq(flag, LAMBDA a : a # 0)
    IN  IF i < Len(stakes) THEN stakes[i + 1] ELSE DefaultStake

Gentx(i, operator) ==
    [operator |-> operator, amount |-> StakeOf(command.stakes, i)]

Nodes == 0..(command.nodes - 1)

Accounts == {accounts[k] : k \in 1..Len(accounts)}

\* Rewriting one node's directory, made if it is not there.
WithDir(i, dir) == [j \in DOMAIN dirs \cup {i} |-> IF j = i THEN dir ELSE dirs[j]]

DirOf(i) == IF i \in DOMAIN dirs THEN dirs[i]
            ELSE [gentxs |-> [j \in {} |-> {}], genesis |-> NoGenesis]

AtNode(p) == phase = p /\ node < command.nodes

-----------------------------------------------------------------------------

\* The command is given, on whatever an earlier one left.
Generate(c) ==
    /\ phase \in {"idle", "done", "removed", "interrupted", "refused"}
    /\ used + c.nodes <= Len(Keys)
    /\ command' = c
    /\ phase' = "nodes"
    /\ node' = 0
    /\ accounts' = <<>>
    /\ UNCHANGED <<used, dirs>>

\* A new key, and a gentx of it in the node's directory.
NodeFiles ==
    /\ AtNode("nodes")
    /\ LET operator == Keys[used + 1]
           old == DirOf(node).gentxs
           new == [j \in DOMAIN old \cup {node} |->
                      IF j = node THEN Gentx(node, operator) ELSE old[j]]
       IN  /\ dirs' = WithDir(node, [gentxs  |-> new,
                                     genesis |-> DirOf(node).genesis])
           /\ accounts' = Append(accounts, operator)
    /\ used' = used + 1
    /\ node' = node + 1
    /\ UNCHANGED <<command, phase>>

\* An error up to the key takes the whole output directory away.
NodeFails ==
    /\ AtNode("nodes")
    /\ phase' = "removed"
    /\ dirs' = [i \in {} |-> {}]
    /\ UNCHANGED <<command, node, used, accounts>>

\* A faulty variant, rejected by a run: a genesis that is there is kept.
InitGenFilesKept ==
    /\ phase = "nodes"
    /\ node = command.nodes
    /\ dirs' = [i \in DOMAIN dirs |->
                   IF i \in Nodes /\ dirs[i].genesis = NoGenesis
                   THEN [gentxs  |-> dirs[i].gentxs,
                         genesis |-> [accounts |-> Accounts, gentxs |-> {}]]
                   ELSE dirs[i]]
    /\ phase' = "copy"
    /\ node' = 0
    /\ UNCHANGED <<command, used, accounts>>

\* initGenFiles: every node gets a genesis with the new accounts and no gentx.
InitGenFiles ==
    /\ phase = "nodes"
    /\ node = command.nodes
    /\ dirs' = [i \in DOMAIN dirs |->
                   IF i \in Nodes
                   THEN [gentxs  |-> dirs[i].gentxs,
                         genesis |-> [accounts |-> Accounts, gentxs |-> {}]]
                   ELSE dirs[i]]
    /\ phase' = "copy"
    /\ node' = 0
    /\ UNCHANGED <<command, used, accounts>>

\* A faulty variant: a node's directory gets the files it has already.
CopiedToInside(i) == {i}

\* isSubDir: a file goes to every directory it is not in.
CopiedTo(i) == Nodes \ {i}

\* A node gets the others' gentxs, over copies an earlier command left.
CopyGentxs ==
    /\ AtNode("copy")
    /\ LET old   == dirs[node].gentxs
           files == {i \in Nodes : node \in CopiedTo(i)}
           new   == [j \in DOMAIN old \cup files |->
                        IF j \in files THEN dirs[j].gentxs[j] ELSE old[j]]
       IN  dirs' = WithDir(node, [gentxs |-> new, genesis |-> dirs[node].genesis])
    /\ IF node + 1 = command.nodes
       THEN phase' = "collect" /\ node' = 0
       ELSE phase' = phase /\ node' = node + 1
    /\ UNCHANGED <<command, used, accounts>>

\* genutil.CollectTxs reads every gentx in the directory, and each operator
\* needs an account in the genesis that holds the stake.
CollectAccepts(dir) ==
    \A j \in DOMAIN dir.gentxs : /\ dir.gentxs[j].operator \in dir.genesis.accounts
                                 /\ ~ (Balance < dir.gentxs[j].amount)

NodeAppState(dir) ==
    [accounts |-> dir.genesis.accounts,
     gentxs   |-> {dir.gentxs[j] : j \in DOMAIN dir.gentxs}]

\* collectGenFiles: the first node's state becomes every node's.
CollectGenFiles ==
    /\ AtNode("collect")
    /\ CollectAccepts(dirs[node])
    /\ LET appState == IF node = 0 THEN NodeAppState(dirs[0]) ELSE dirs[0].genesis
       IN  dirs' = WithDir(node, [gentxs  |-> dirs[node].gentxs,
                                 genesis |-> appState])
    /\ phase' = IF node + 1 = command.nodes THEN "done" ELSE phase
    /\ node' = node + 1
    /\ UNCHANGED <<command, used, accounts>>

CollectFails ==
    /\ AtNode("collect")
    /\ ~ CollectAccepts(dirs[node])
    /\ phase' = "refused"
    /\ UNCHANGED <<command, node, used, accounts, dirs>>

\* The command stops, by an error that removes nothing or by its user.
Interrupted ==
    /\ phase \in {"nodes", "copy", "collect"}
    /\ phase' = "interrupted"
    /\ UNCHANGED <<command, node, used, accounts, dirs>>

NodesInit ==
    /\ command = [nodes |-> 0, stakes |-> <<>>]
    /\ phase = "idle"
    /\ node = 0
    /\ used = 0
    /\ accounts = <<>>
    /\ dirs = [i \in {} |-> {}]

NodesNext ==
    \/ \E c \in Commands : Generate(c)
    \/ NodeFiles
    \/ NodeFails
    \/ InitGenFiles
    \/ CopyGentxs
    \/ CollectGenFiles
    \/ CollectFails
    \/ Interrupted

-----------------------------------------------------------------------------
(* What is expected of the command. *)

\* "set the canonical application state (they should not differ)" (line 456):
\* whatever earlier commands left, when this one is done every node has the
\* same genesis, with this command's accounts and all of its gentxs, and the
\* node's own directory would have given it no other.
CanonicalGenesis ==
    phase = "done" =>
        \A i \in Nodes :
            /\ dirs[i].genesis =
                  [accounts |-> Accounts,
                   gentxs   |-> {Gentx(j, accounts[j + 1]) : j \in Nodes}]
            /\ NodeAppState(dirs[i]) = dirs[i].genesis

\* The collection refuses only a stake above the balance or a gentx left by a
\* command for more nodes: however the last one ended, one for as many nodes
\* goes through.
RefusedOnlyForLeftovers ==
    phase = "refused" =>
        \/ \E i \in Nodes : Balance < StakeOf(command.stakes, i)
        \/ \E i \in Nodes : ~ (DOMAIN dirs[i].gentxs \subseteq Nodes)

=============================================================================
