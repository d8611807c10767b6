---------------------- MODULE ValidatorRegistryProofs ----------------------
(***************************************************************************)
(* Proofs about ValidatorRegistry, for every set of messages, operators    *)
(* and candidates and every length of the genesis list; and then about     *)
(* MultiNode and Testnet, for every set of commands and every sequence of  *)
(* keys: what the command's genesis holds whatever earlier commands left,  *)
(* and that the chain started from it is the chain of ValidatorRegistry,   *)
(* so that what is proved there holds of it.                               *)
(***************************************************************************)
EXTENDS Testnet, WhitelistProofs

-----------------------------------------------------------------------------
(* The inductive invariant: until the chain runs no operator has a         *)
(* validator, and from the registry's InitGenesis until then the registry  *)
(* is what the genesis list loads.                                         *)

IInv ==
    /\ TypeOK
    /\ IsFiniteSet(DOMAIN registry)
    /\ CheckedAreWhitelisted
    /\ PanicsOnlyUnlisted
    /\ ~ Running => validators = {}
    /\ initStep \in {2, 4} => registry = LoadedFrom(genesis.list)

\* An entry that stays keeps its operator whitelisted.
LEMMA StillWhitelisted ==
    ASSUME CheckedAreWhitelisted,
           \A i \in DOMAIN registry : /\ i \in DOMAIN registry'
                                      /\ registry'[i] = registry[i],
           validators' = validators,
           unchecked' = unchecked
    PROVE  CheckedAreWhitelisted'
  BY DEF CheckedAreWhitelisted, IsValidatorWhitelisted

\* The registry a chain starts with.
LEMMA EmptyIsRegistry ==
    EmptyRegistry \in Registries /\ IsFiniteSet(DOMAIN EmptyRegistry)
<1>1. EmptyRegistry \in [{} -> Entries] /\ DOMAIN EmptyRegistry = {}
  BY DEF EmptyRegistry
<1>. QED
  BY <1>1, FS_EmptySet DEF Registries

LEMMA InitIInv == Init => IInv
<1> SUFFICES ASSUME Init
             PROVE  IInv
  OBVIOUS
<1>1. <<>> \in Lists
  <2>1. <<>> \in [1..0 -> Messages]
    OBVIOUS
  <2>. QED
    BY <2>1, RegistryAssumption DEF Lists
<1>2. genesis \in Geneses
  BY <1>1 DEF Init, Geneses
<1>. QED
  BY <1>2, EmptyIsRegistry
     DEF Init, IInv, TypeOK, CheckedAreWhitelisted, PanicsOnlyUnlisted,
         Running, Panicked

\* The list of a genesis is a sequence of messages.
LEMMA GenesisList ==
    ASSUME NEW list \in Lists
    PROVE  list \in Seq(Messages)
<1>1. PICK n \in 0..GenesisMax : list \in [1..n -> Messages]
  BY DEF Lists
<1>. QED
  BY <1>1, RegistryAssumption

LEMMA GenesisIInv ==
    ASSUME IInv, \/ \E g \in Geneses : InitChain(g)
                 \/ RegistryInitGenesis
                 \/ GenutilInitGenesis
    PROVE  IInv'
<1>0. CASE \E g \in Geneses : InitChain(g)
  <2>1. PICK g \in Geneses : InitChain(g)
    BY <1>0
  <2>. QED
    BY <2>1, EmptyIsRegistry
       DEF InitChain, IInv, TypeOK, CheckedAreWhitelisted,
           PanicsOnlyUnlisted, Running, Panicked
<1>1. CASE RegistryInitGenesis
  <2>1. initStep = 1
    BY <1>1 DEF RegistryInitGenesis, NextModule, InitGenesisOrder
  <2>2. /\ initStep' = 2
        /\ validators' = {}
        /\ unchecked' = {}
        /\ genesis' = genesis
        /\ registry' = LoadedFrom(genesis.list)
    BY <1>1, <2>1 DEF RegistryInitGenesis, IInv, TypeOK, Running
  <2>3. genesis.list \in Seq(Messages)
    BY GenesisList DEF IInv, TypeOK, Geneses
  <2>4. registry' \in Registries /\ IsFiniteSet(DOMAIN registry')
    BY <2>2, <2>3, LoadedIsRegistry
  <2>. QED
    BY <2>2, <2>4 DEF IInv, TypeOK, CheckedAreWhitelisted,
       PanicsOnlyUnlisted, Running, Panicked
<1>2. CASE GenutilInitGenesis
  <2>1. initStep = 2
    BY <1>2 DEF GenutilInitGenesis, NextModule, InitGenesisOrder
  <2>2. /\ genesis' = genesis
        /\ registry' = registry
        /\ registry = LoadedFrom(genesis.list)
        /\ validators = {}
        /\ unchecked' = {}
    BY <1>2, <2>1 DEF GenutilInitGenesis, IInv, TypeOK, Running
  <2>3. \/ /\ \A op \in genesis.gentxs : IsValidatorWhitelisted(registry, op)
           /\ validators' = genesis.gentxs
           /\ initStep' = 3
        \/ /\ \E op \in genesis.gentxs : ~ IsValidatorWhitelisted(registry, op)
           /\ validators' = {}
           /\ initStep' = 4
    BY <1>2, <2>1, <2>2 DEF GenutilInitGenesis
  <2>4. TypeOK'
    <3>1. genesis.gentxs \in SUBSET Candidates
      BY DEF IInv, TypeOK, Geneses
    <3>2. validators' \subseteq Candidates /\ initStep' \in 0..4
      BY <2>3, <3>1
    <3>. QED
      BY <2>2, <3>2 DEF IInv, TypeOK
  <2>5. CheckedAreWhitelisted'
    BY <2>2, <2>3 DEF CheckedAreWhitelisted
  <2>6. PanicsOnlyUnlisted'
    <3>1. genesis.list \in Seq(Messages)
      BY GenesisList DEF IInv, TypeOK, Geneses
    <3>2. \A op \in genesis.gentxs :
            ~ IsValidatorWhitelisted(LoadedFrom(genesis.list), op) =>
                \A k \in DOMAIN genesis.list :
                    genesis.list[k].operator = op =>
                        \E j \in (k + 1)..Len(genesis.list) :
                            genesis.list[j].index = genesis.list[k].index
      BY <3>1, UnlistedIsOverwritten
    <3>. QED
      BY <2>2, <2>3, <3>2 DEF PanicsOnlyUnlisted, Panicked
  <2>. QED
    BY <2>2, <2>3, <2>4, <2>5, <2>6 DEF IInv, Running
<1>. QED
  BY <1>0, <1>1, <1>2

\* While the chain runs no entry changes, and every validator made has one.
LEMMA RunningIInv ==
    ASSUME IInv, Running, [Next]_vars
    PROVE  /\ IInv'
           /\ \A i \in DOMAIN registry :
                 i \in DOMAIN registry' /\ registry'[i] = registry[i]
<1> DEFINE Kept == \A i \in DOMAIN registry :
                      i \in DOMAIN registry' /\ registry'[i] = registry[i]
<1> SUFFICES IInv' /\ Kept
  OBVIOUS
<1>1. ASSUME registry' \in Registries, IsFiniteSet(DOMAIN registry'), Kept,
             UNCHANGED <<genesis, validators, unchecked, initStep>>
      PROVE  IInv'
  <2>1. CheckedAreWhitelisted'
    BY <1>1, StillWhitelisted DEF IInv
  <2>2. Running'
    BY <1>1 DEF Running
  <2>. QED
    BY <1>1, <2>1, <2>2
       DEF IInv, TypeOK, PanicsOnlyUnlisted, Panicked, Running
<1>2. ASSUME NEW m \in Messages, OnboardValidator(m)
      PROVE  IInv' /\ Kept
  <2>1. registry \in Registries /\ IsFiniteSet(DOMAIN registry)
    BY DEF IInv, TypeOK
  <2>2. /\ registry' \in Registries
        /\ IsFiniteSet(DOMAIN registry')
        /\ Kept
    <3>1. OnboardAccepts(registry, m) /\ registry' = Onboarded(registry, m)
      BY <1>2 DEF OnboardValidator
    <3>2. /\ registry' \in Registries
          /\ DOMAIN registry' = DOMAIN registry \cup {m.index}
          /\ \A i \in DOMAIN registry : registry'[i] = registry[i]
      BY <2>1, <3>1, OnboardedKeeps
    <3>. QED
      BY <2>1, <3>2, FS_AddElement
  <2>. QED
    BY <1>1, <1>2, <2>2 DEF OnboardValidator
<1>3. ASSUME NEW op \in Candidates, \/ CreateValidator(op)
                                   \/ CreateCarriedValidator(op)
                                   \/ RemoveValidator(op)
      PROVE  IInv' /\ Kept
  <2>1. UNCHANGED <<genesis, registry, initStep>>
    BY <1>3 DEF CreateValidator, CreateCarriedValidator, RemoveValidator
  <2>2. /\ validators' \subseteq Candidates
        /\ unchecked' \subseteq validators'
        /\ \A v \in validators' \ unchecked' :
              v \in validators \ unchecked \/ IsValidatorWhitelisted(registry, v)
    BY <1>3 DEF CreateValidator, CreateCarriedValidator, RemoveValidator,
       IInv, TypeOK
  <2>3. CheckedAreWhitelisted'
    BY <2>1, <2>2 DEF IInv, CheckedAreWhitelisted
  <2>. QED
    BY <2>1, <2>2, <2>3 DEF IInv, TypeOK, PanicsOnlyUnlisted, Panicked, Running
<1>4. CASE ExportImport
  <2>1. registry \in Registries /\ IsFiniteSet(DOMAIN registry)
    BY DEF IInv, TypeOK
  <2>2. registry' = registry
    BY <1>4, <2>1, ExportRoundTrip DEF ExportImport
  <2>. QED
    BY <1>1, <1>4, <2>1, <2>2 DEF ExportImport
<1>5. CASE UNCHANGED vars
  BY <1>1, <1>5 DEF vars, IInv, TypeOK
<1>6. /\ \A g \in Geneses : ~ InitChain(g)
      /\ ~ RegistryInitGenesis
      /\ ~ GenutilInitGenesis
  BY DEF InitChain, RegistryInitGenesis, GenutilInitGenesis, NextModule, Running
<1>. QED
  BY <1>2, <1>3, <1>4, <1>5, <1>6 DEF Next, ChainStep

LEMMA StepIInv == IInv /\ [Next]_vars => IInv'
<1> SUFFICES ASSUME IInv, [Next]_vars
             PROVE  IInv'
  OBVIOUS
<1>1. CASE Running
  BY <1>1, RunningIInv
<1>2. CASE ~ Running /\ UNCHANGED vars
  BY <1>2 DEF IInv, TypeOK, CheckedAreWhitelisted, PanicsOnlyUnlisted,
     Running, Panicked, vars
<1>3. CASE /\ ~ Running
           /\ \/ \E g \in Geneses : InitChain(g)
              \/ RegistryInitGenesis
              \/ GenutilInitGenesis
  BY <1>3, GenesisIInv
<1>. QED
  BY <1>1, <1>2, <1>3
     DEF Next, ChainStep, OnboardValidator, CreateValidator,
         CreateCarriedValidator, RemoveValidator, ExportImport

\* The strengthening holds in every state of the registry.
THEOREM Invariance == Spec => []IInv
  BY InitIInv, StepIInv, PTL DEF Spec

-----------------------------------------------------------------------------

\* The registry holds entries of messages or of the genesis list.
THEOREM TypeCorrect == Spec => []TypeOK
<1>1. IInv => TypeOK
  BY DEF IInv
<1>. QED
  BY <1>1, Invariance, PTL

\* Whoever came by the decorator has an entry, in every state the chain reaches.
THEOREM CheckedStayWhitelisted == Spec => []CheckedAreWhitelisted
<1>1. IInv => CheckedAreWhitelisted
  BY DEF IInv
<1>. QED
  BY <1>1, Invariance, PTL

\* A genesis that lists the operators of its gentxs starts the chain.
THEOREM PanicsOnlyForUnlisted == Spec => []PanicsOnlyUnlisted
<1>1. IInv => PanicsOnlyUnlisted
  BY DEF IInv
<1>. QED
  BY <1>1, Invariance, PTL

\* No message and no restart rewrites or drops an entry.
THEOREM EntriesAreKept == Spec => EntriesKept
<1> DEFINE Keeps == Running => \A i \in DOMAIN registry :
                       i \in DOMAIN registry' /\ registry'[i] = registry[i]
<1>1. IInv /\ [Next]_vars => [Keeps]_vars
  BY RunningIInv
<1>. QED
  BY <1>1, Invariance, PTL DEF Spec, EntriesKept

-----------------------------------------------------------------------------
(* Testnets.                                                               *)

KeysNow == used - Len(accounts)

\* The genesis initGenFiles writes.
Fresh == [accounts |-> Accounts, gentxs |-> {}]

Whole == [accounts |-> Accounts,
          gentxs   |-> {Gentx(j, accounts[j + 1]) : j \in Nodes}]

\* The gentx of a node is the one this command made.
Current(i, j) == /\ i \in DOMAIN dirs
                 /\ j \in DOMAIN dirs[i].gentxs
                 /\ dirs[i].gentxs[j] = Gentx(j, accounts[j + 1])

\* The keys of this command are the last ones made.
KeysInv ==
    /\ command.nodes \in Nat
    /\ node \in Nat
    /\ used \in Nat
    /\ used <= Len(Keys)
    /\ accounts \in Seq(STRING)
    /\ Len(accounts) <= used
    /\ \A k \in 1..Len(accounts) : accounts[k] = Keys[KeysNow + k]
    /\ phase = "nodes" => /\ node = Len(accounts)
                          /\ node <= command.nodes
                          /\ used + (command.nodes - node) <= Len(Keys)
    /\ phase \in {"copy", "collect", "done", "refused"} =>
          Len(accounts) = command.nodes

\* A gentx in the directory is of some key, and one that this command does not
\* write over is of an earlier key.
LeftInv ==
    \A i \in DOMAIN dirs : \A j \in DOMAIN dirs[i].gentxs :
        /\ j \in Nat
        /\ \E k \in 1..used : dirs[i].gentxs[j].operator = Keys[k]
        /\ j \notin Nodes =>
              \E k \in 1..KeysNow : dirs[i].gentxs[j].operator = Keys[k]

\* How far the command has come.
FilesInv ==
    /\ phase = "nodes" => \A i \in 0..(node - 1) : Current(i, i)
    /\ phase = "copy" =>
          /\ \A i \in Nodes : Current(i, i) /\ dirs[i].genesis = Fresh
          /\ \A i \in 0..(node - 1), j \in Nodes : Current(i, j)
    /\ phase \in {"collect", "done", "refused"} =>
          \A i, j \in Nodes : Current(i, j)
    /\ phase \in {"collect", "done"} =>
          \A i \in Nodes : i < node => /\ dirs[i].genesis = Whole
                                       /\ DOMAIN dirs[i].gentxs = Nodes
    /\ phase = "collect" =>
          \A i \in Nodes : ~ (i < node) => dirs[i].genesis = Fresh
    /\ phase = "done" => node = command.nodes /\ 0 < node
    /\ phase = "refused" => /\ node \in Nodes
                            /\ dirs[node].genesis = Fresh
                            /\ ~ CollectAccepts(dirs[node])

NodesInv == KeysInv /\ LeftInv /\ FilesInv

LEMMA NodesInitInv == NodesInit => NodesInv
<1> SUFFICES ASSUME NodesInit
             PROVE  NodesInv
  OBVIOUS
<1>1. KeysInv
  BY MultiNodeAssumption DEF NodesInit, KeysInv, KeysNow
<1>2. LeftInv /\ FilesInv
  BY DEF NodesInit, LeftInv, FilesInv
<1>. QED
  BY <1>1, <1>2 DEF NodesInv

\* A new command makes what is there earlier than its keys.
LEMMA GenerateInv ==
    ASSUME NodesInv, NEW c \in Commands, Generate(c)
    PROVE  NodesInv'
<1>1. c.nodes \in Nat \ {0} /\ Len(Keys) \in Nat
  BY MultiNodeAssumption
<1>2. /\ KeysInv
      /\ LeftInv
      /\ command' = c
      /\ phase' = "nodes"
      /\ node' = 0
      /\ accounts' = <<>>
      /\ used' = used
      /\ dirs' = dirs
      /\ used + c.nodes <= Len(Keys)
  BY DEF NodesInv, Generate
<1>3. KeysInv' /\ KeysNow' = used
  BY <1>1, <1>2 DEF KeysInv, KeysNow
<1>4. LeftInv'
  BY <1>2, <1>3 DEF LeftInv
<1>5. FilesInv'
  BY <1>2 DEF FilesInv
<1>. QED
  BY <1>3, <1>4, <1>5 DEF NodesInv

\* The state moves on and the files are left.
LEMMA StopsInv ==
    ASSUME NodesInv, NodeFails \/ Interrupted
    PROVE  NodesInv'
<1>1. /\ phase' \in {"removed", "interrupted"}
      /\ UNCHANGED <<command, node, used, accounts>>
      /\ dirs' = dirs \/ dirs' = [i \in {} |-> {}]
  BY DEF NodeFails, Interrupted
<1>2. KeysInv'
  BY <1>1 DEF NodesInv, KeysInv, KeysNow
<1>3. LeftInv'
  BY <1>1 DEF NodesInv, LeftInv, KeysNow, Nodes
<1>4. FilesInv'
  BY <1>1 DEF FilesInv
<1>. QED
  BY <1>2, <1>3, <1>4 DEF NodesInv

\* What rewriting one directory leaves.
LEMMA WithDirIs ==
    ASSUME NEW n, NEW dir, dirs' = WithDir(n, dir)
    PROVE  /\ DOMAIN dirs' = DOMAIN dirs \cup {n}
           /\ dirs'[n] = dir
           /\ \A i \in DOMAIN dirs : i # n => dirs'[i] = dirs[i]
  BY DEF WithDir

LEMMA NodeFilesInv ==
    ASSUME NodesInv, NodeFiles
    PROVE  NodesInv'
<1> DEFINE operator == Keys[used + 1]
           old == DirOf(node).gentxs
           new == [j \in DOMAIN old \cup {node} |->
                      IF j = node THEN Gentx(node, operator) ELSE old[j]]
           dir == [gentxs |-> new, genesis |-> DirOf(node).genesis]
<1>1. /\ phase = "nodes"
      /\ phase' = "nodes"
      /\ node < command.nodes
      /\ dirs' = WithDir(node, dir)
      /\ accounts' = Append(accounts, operator)
      /\ used' = used + 1
      /\ node' = node + 1
      /\ command' = command
  BY DEF NodeFiles, AtNode
<1>2. /\ command.nodes \in Nat
      /\ node \in Nat
      /\ used \in Nat
      /\ Len(Keys) \in Nat
      /\ accounts \in Seq(STRING)
      /\ node = Len(accounts)
      /\ used + (command.nodes - node) <= Len(Keys)
      /\ Len(accounts) <= used
      /\ \A k \in 1..Len(accounts) : accounts[k] = Keys[KeysNow + k]
  BY <1>1, MultiNodeAssumption DEF NodesInv, KeysInv
<1>3. used + 1 \in 1..Len(Keys) /\ operator \in STRING
  BY <1>1, <1>2, MultiNodeAssumption
<1>4. /\ accounts' \in Seq(STRING)
      /\ Len(accounts') = node + 1
      /\ \A k \in 1..node : accounts'[k] = accounts[k]
      /\ accounts'[node + 1] = operator
  BY <1>1, <1>2, <1>3
<1>5. KeysNow' = KeysNow /\ KeysNow \in Nat /\ KeysNow + node = used
  BY <1>1, <1>2, <1>4 DEF KeysNow
<1>6. KeysInv'
  <2>1. ASSUME NEW k \in 1..Len(accounts')
        PROVE  accounts'[k] = Keys[KeysNow' + k]
    <3>1. CASE k = node + 1
      BY <1>2, <1>4, <1>5, <3>1
    <3>2. CASE k \in 1..node
      BY <1>2, <1>4, <1>5, <3>2
    <3>. QED
      BY <1>2, <1>4, <3>1, <3>2
  <2>2. \A k \in 1..Len(accounts') : accounts'[k] = Keys[KeysNow' + k]
    BY <2>1
  <2>. QED
    BY <1>1, <1>2, <1>3, <1>4, <2>2 DEF KeysInv
<1>7. /\ DOMAIN dirs' = DOMAIN dirs \cup {node}
      /\ dirs'[node].gentxs = new
      /\ \A i \in DOMAIN dirs : i # node => dirs'[i] = dirs[i]
  <2> HIDE DEF dir
  <2>1. /\ DOMAIN dirs' = DOMAIN dirs \cup {node}
        /\ dirs'[node] = dir
        /\ \A i \in DOMAIN dirs : i # node => dirs'[i] = dirs[i]
    BY <1>1, WithDirIs
  <2>. QED
    BY <2>1 DEF dir
<1>8. /\ DOMAIN new = DOMAIN old \cup {node}
      /\ new[node] = Gentx(node, operator)
      /\ \A j \in DOMAIN old : j # node => new[j] = old[j]
      /\ \/ node \in DOMAIN dirs /\ old = dirs[node].gentxs
         \/ DOMAIN old = {}
  BY DEF DirOf
<1>9. /\ \A i, j : Gentx(i, j)' = Gentx(i, j)
      /\ Gentx(node, operator).operator = operator
      /\ node \in Nodes
      /\ Nodes' = Nodes
  BY <1>1, <1>2 DEF Gentx, Nodes
<1> HIDE DEF new, old, operator, dir
<1>10. LeftInv'
  <2> SUFFICES ASSUME NEW i \in DOMAIN dirs', NEW j \in DOMAIN dirs'[i].gentxs
               PROVE  /\ j \in Nat
                      /\ \E k \in 1..used' : dirs'[i].gentxs[j].operator = Keys[k]
                      /\ j \notin Nodes =>
                            \E k \in 1..KeysNow :
                                dirs'[i].gentxs[j].operator = Keys[k]
    BY <1>5, <1>9 DEF LeftInv
  <2>1. CASE i = node /\ j = node
    <3>1. dirs'[i].gentxs[j].operator = Keys[used + 1]
      BY <1>7, <1>8, <1>9, <2>1 DEF operator
    <3>. QED
      BY <1>1, <1>2, <1>9, <2>1, <3>1
  <2>2. CASE ~ (i = node /\ j = node)
    <3>1. /\ i \in DOMAIN dirs
          /\ j \in DOMAIN dirs[i].gentxs
          /\ dirs'[i].gentxs[j] = dirs[i].gentxs[j]
      BY <1>7, <1>8, <2>2
    <3>2. \A k \in 1..used : k \in 1..used'
      BY <1>1, <1>2
    <3>. QED
      BY <3>1, <3>2 DEF NodesInv, LeftInv
  <2>. QED
    BY <2>1, <2>2
<1>11. \A i \in 0..(node' - 1) : Current(i, i)'
  <2> SUFFICES ASSUME NEW i \in 0..node
               PROVE  Current(i, i)'
    BY <1>1, <1>2
  <2>1. CASE i = node
    BY <1>4, <1>7, <1>8, <1>9, <2>1 DEF Current
  <2>2. CASE i # node
    <3>1. Current(i, i) /\ i + 1 \in 1..node
      BY <1>1, <1>2, <2>2 DEF NodesInv, FilesInv
    <3>. QED
      BY <1>4, <1>7, <1>9, <2>2, <3>1 DEF Current
  <2>. QED
    BY <2>1, <2>2
<1>12. FilesInv'
  BY <1>1, <1>11 DEF FilesInv
<1>. QED
  BY <1>6, <1>10, <1>12 DEF NodesInv

LEMMA InitGenFilesInv ==
    ASSUME NodesInv, InitGenFiles
    PROVE  NodesInv'
<1>1. /\ phase = "nodes"
      /\ phase' = "copy"
      /\ node = command.nodes
      /\ node' = 0
      /\ UNCHANGED <<command, used, accounts>>
  BY DEF InitGenFiles
<1>2. /\ DOMAIN dirs' = DOMAIN dirs
      /\ \A i \in DOMAIN dirs : dirs'[i].gentxs = dirs[i].gentxs
      /\ \A i \in DOMAIN dirs \cap Nodes : dirs'[i].genesis = Fresh
  BY DEF InitGenFiles, Fresh
<1>3. /\ KeysNow' = KeysNow
      /\ Nodes' = Nodes
      /\ Fresh' = Fresh
      /\ \A i, j : Gentx(i, j)' = Gentx(i, j)
  BY <1>1 DEF KeysNow, Nodes, Fresh, Accounts, Gentx
<1>4. KeysInv'
  BY <1>1, <1>3 DEF NodesInv, KeysInv
<1>5. LeftInv'
  BY <1>1, <1>2, <1>3 DEF NodesInv, LeftInv
<1>6. ASSUME NEW i \in Nodes
      PROVE  Current(i, i)' /\ dirs'[i].genesis = Fresh
  <2>1. Current(i, i)
    BY <1>1 DEF NodesInv, FilesInv, Nodes
  <2>. QED
    BY <1>1, <1>2, <1>3, <2>1 DEF Current
<1>7. FilesInv'
  BY <1>1, <1>3, <1>6 DEF FilesInv
<1>. QED
  BY <1>4, <1>5, <1>7 DEF NodesInv

LEMMA CopyGentxsInv ==
    ASSUME NodesInv, CopyGentxs
    PROVE  NodesInv'
<1> DEFINE old == dirs[node].gentxs
           files == {i \in Nodes : node \in CopiedTo(i)}
           new == [j \in DOMAIN old \cup files |->
                      IF j \in files THEN dirs[j].gentxs[j] ELSE old[j]]
           dir == [gentxs |-> new, genesis |-> dirs[node].genesis]
<1>1. /\ phase = "copy"
      /\ node < command.nodes
      /\ command.nodes \in Nat
      /\ node \in Nat
      /\ dirs' = WithDir(node, dir)
      /\ \/ phase' = "collect" /\ node' = 0 /\ node + 1 = command.nodes
         \/ phase' = "copy" /\ node' = node + 1
      /\ UNCHANGED <<command, used, accounts>>
  BY DEF CopyGentxs, AtNode, NodesInv, KeysInv
<1>2. /\ \A i \in Nodes : Current(i, i) /\ dirs[i].genesis = Fresh
      /\ \A i \in 0..(node - 1), j \in Nodes : Current(i, j)
  BY <1>1 DEF NodesInv, FilesInv
<1>3. node \in Nodes /\ node \in DOMAIN dirs
  <2>1. node \in Nodes
    BY <1>1 DEF Nodes
  <2>. QED
    BY <1>2, <2>1 DEF Current
<1>4. /\ KeysNow' = KeysNow
      /\ Nodes' = Nodes
      /\ Fresh' = Fresh
      /\ \A i, j : Gentx(i, j)' = Gentx(i, j)
  BY <1>1 DEF KeysNow, Nodes, Fresh, Accounts, Gentx
<1>5. files = Nodes \ {node}
  BY <1>3 DEF CopiedTo
<1>6. /\ DOMAIN new = DOMAIN old \cup Nodes
      /\ \A j \in Nodes : new[j] = dirs[j].gentxs[j]
      /\ \A j \in DOMAIN old : j \notin Nodes => new[j] = old[j]
  <2>1. node \in DOMAIN old
    BY <1>2, <1>3 DEF Current
  <2>. QED
    BY <1>3, <1>5, <2>1
<1> HIDE DEF new, files
<1>7. /\ DOMAIN dirs' = DOMAIN dirs
      /\ dirs'[node].gentxs = new
      /\ dirs'[node].genesis = dirs[node].genesis
      /\ \A i \in DOMAIN dirs : i # node => dirs'[i] = dirs[i]
  <2> HIDE DEF dir
  <2>1. /\ DOMAIN dirs' = DOMAIN dirs \cup {node}
        /\ dirs'[node] = dir
        /\ \A i \in DOMAIN dirs : i # node => dirs'[i] = dirs[i]
    BY <1>1, WithDirIs
  <2>. QED
    BY <1>3, <2>1 DEF dir
<1> HIDE DEF old, dir
<1>8. KeysInv'
  BY <1>1, <1>4 DEF NodesInv, KeysInv
<1>9. LeftInv'
  <2> SUFFICES ASSUME NEW i \in DOMAIN dirs', NEW j \in DOMAIN dirs'[i].gentxs
               PROVE  /\ j \in Nat
                      /\ \E k \in 1..used : dirs'[i].gentxs[j].operator = Keys[k]
                      /\ j \notin Nodes =>
                            \E k \in 1..KeysNow :
                                dirs'[i].gentxs[j].operator = Keys[k]
    BY <1>1, <1>4 DEF LeftInv
  <2>1. PICK s \in DOMAIN dirs : /\ j \in DOMAIN dirs[s].gentxs
                                 /\ dirs'[i].gentxs[j] = dirs[s].gentxs[j]
    <3>1. CASE i = node /\ j \in Nodes
      <4>1. j \in DOMAIN dirs /\ j \in DOMAIN dirs[j].gentxs
        BY <1>2, <3>1 DEF Current
      <4>. QED
        BY <1>6, <1>7, <3>1, <4>1
    <3>2. CASE i = node /\ j \notin Nodes
      BY <1>3, <1>6, <1>7, <3>2 DEF old
    <3>3. CASE i # node
      BY <1>7, <3>3
    <3>. QED
      BY <3>1, <3>2, <3>3
  <2>. QED
    BY <2>1 DEF NodesInv, LeftInv
<1>10. ASSUME NEW i \in 0..node, NEW j \in Nodes
       PROVE  Current(i, j)'
  <2>1. CASE i = node
    <3>1. Current(j, j)
      BY <1>2
    <3>. QED
      BY <1>1, <1>3, <1>4, <1>6, <1>7, <2>1, <3>1 DEF Current
  <2>2. CASE i # node
    <3>1. Current(i, j)
      BY <1>1, <1>2, <2>2
    <3>. QED
      BY <1>1, <1>4, <1>7, <2>2, <3>1 DEF Current
  <2>. QED
    BY <2>1, <2>2
<1>11. ASSUME NEW i \in Nodes
       PROVE  Current(i, i)' /\ dirs'[i].genesis = Fresh
  <2>1. Current(i, i) /\ dirs[i].genesis = Fresh
    BY <1>2
  <2>2. CASE i = node
    BY <1>1, <1>7, <1>10, <2>1, <2>2
  <2>3. CASE i # node
    BY <1>1, <1>4, <1>7, <2>1, <2>3 DEF Current
  <2>. QED
    BY <2>2, <2>3
<1>12. FilesInv'
  <2>1. CASE phase' = "copy" /\ node' = node + 1
    <3>1. 0..(node' - 1) = 0..node
      BY <1>1, <2>1
    <3>. QED
      BY <1>4, <1>10, <1>11, <2>1, <3>1 DEF FilesInv
  <2>2. CASE phase' = "collect" /\ node' = 0 /\ node + 1 = command.nodes
    <3>1. Nodes = 0..node
      BY <1>1, <2>2 DEF Nodes
    <3>2. \A i \in Nodes : ~ (i < 0)
      BY <1>1, <3>1
    <3>. QED
      BY <1>4, <1>10, <1>11, <2>2, <3>1, <3>2 DEF FilesInv
  <2>. QED
    BY <1>1, <2>1, <2>2
<1>. QED
  BY <1>8, <1>9, <1>12 DEF NodesInv

LEMMA CollectFailsInv ==
    ASSUME NodesInv, CollectFails
    PROVE  NodesInv'
<1>1. /\ phase = "collect"
      /\ phase' = "refused"
      /\ node < command.nodes
      /\ command.nodes \in Nat
      /\ node \in Nat
      /\ ~ CollectAccepts(dirs[node])
      /\ UNCHANGED <<command, node, used, accounts, dirs>>
  BY DEF CollectFails, AtNode, NodesInv, KeysInv
<1>2. KeysInv' /\ LeftInv'
  BY <1>1 DEF NodesInv, KeysInv, LeftInv, KeysNow, Nodes
<1>3. node \in Nodes /\ ~ (node < node)
  BY <1>1 DEF Nodes
<1>4. Nodes' = Nodes /\ Fresh' = Fresh
  BY <1>1 DEF Nodes, Fresh, Accounts
<1>5. /\ dirs[node].genesis = Fresh
      /\ \A i, j \in Nodes : Current(i, j)
  BY <1>1, <1>3 DEF NodesInv, FilesInv
<1>6. \A i, j : Current(i, j)' <=> Current(i, j)
  BY <1>1 DEF Current, Gentx
<1>7. CollectAccepts(dirs[node])' <=> CollectAccepts(dirs[node])
  BY <1>1 DEF CollectAccepts
<1>8. FilesInv'
  BY <1>1, <1>3, <1>4, <1>5, <1>6, <1>7 DEF FilesInv
<1>. QED
  BY <1>2, <1>8 DEF NodesInv

\* What is accepted holds this command's gentxs and no earlier one: an earlier
\* key has no account.
LEMMA AcceptedIsWhole ==
    ASSUME NodesInv, phase = "collect", NEW n \in Nodes,
           dirs[n].genesis = Fresh, CollectAccepts(dirs[n])
    PROVE  /\ DOMAIN dirs[n].gentxs = Nodes
           /\ NodeAppState(dirs[n]) = Whole
<1>1. \A j \in Nodes : Current(n, j)
  BY DEF NodesInv, FilesInv
<1>2. n \in DOMAIN dirs /\ Nodes \subseteq DOMAIN dirs[n].gentxs
  BY <1>1 DEF Current
<1>3. /\ used \in Nat
      /\ Len(accounts) \in Nat
      /\ Len(accounts) <= used
      /\ used <= Len(Keys)
      /\ Len(Keys) \in Nat
      /\ \A k \in 1..Len(accounts) : accounts[k] = Keys[KeysNow + k]
  BY MultiNodeAssumption DEF NodesInv, KeysInv
<1>4. ASSUME NEW j \in DOMAIN dirs[n].gentxs, j \notin Nodes
      PROVE  FALSE
  <2>1. PICK k \in 1..KeysNow : dirs[n].gentxs[j].operator = Keys[k]
    BY <1>2, <1>4 DEF NodesInv, LeftInv
  <2>2. Keys[k] \in Accounts
    BY <2>1 DEF CollectAccepts, Fresh
  <2>3. PICK l \in 1..Len(accounts) : Keys[k] = accounts[l]
    BY <2>2 DEF Accounts
  <2>4. Keys[k] = Keys[KeysNow + l]
    BY <1>3, <2>3
  <2>5. k \in 1..Len(Keys) /\ KeysNow + l \in 1..Len(Keys) /\ k # KeysNow + l
    BY <1>3 DEF KeysNow
  <2>. QED
    BY <2>4, <2>5, MultiNodeAssumption
<1>5. DOMAIN dirs[n].gentxs = Nodes
  BY <1>2, <1>4
<1>6. \A j \in Nodes : dirs[n].gentxs[j] = Gentx(j, accounts[j + 1])
  BY <1>1 DEF Current
<1>7. {dirs[n].gentxs[j] : j \in Nodes} = {Gentx(j, accounts[j + 1]) : j \in Nodes}
  BY <1>6
<1>8. dirs[n].genesis.accounts = Accounts
  BY DEF Fresh
<1>9. NodeAppState(dirs[n]) =
         [accounts |-> Accounts, gentxs |-> {dirs[n].gentxs[j] : j \in Nodes}]
  BY <1>5, <1>8, Zenon DEF NodeAppState
<1>10. NodeAppState(dirs[n]) = Whole
  BY <1>7, <1>9, Zenon DEF Whole
<1>. QED
  BY <1>5, <1>10

LEMMA CollectGenFilesInv ==
    ASSUME NodesInv, CollectGenFiles
    PROVE  NodesInv'
<1> DEFINE appState == IF node = 0 THEN NodeAppState(dirs[0]) ELSE dirs[0].genesis
           dir == [gentxs |-> dirs[node].gentxs, genesis |-> appState]
<1>1. /\ phase = "collect"
      /\ node < command.nodes
      /\ command.nodes \in Nat
      /\ node \in Nat
      /\ CollectAccepts(dirs[node])
      /\ dirs' = WithDir(node, dir)
      /\ \/ phase' = "collect"
         \/ phase' = "done" /\ node + 1 = command.nodes
      /\ node' = node + 1
      /\ 0 < node'
      /\ UNCHANGED <<command, used, accounts>>
  BY DEF CollectGenFiles, AtNode, NodesInv, KeysInv
<1>2. node \in Nodes /\ ~ (node < node) /\ 0 \in Nodes
  BY <1>1 DEF Nodes
<1>3. /\ \A i, j \in Nodes : Current(i, j)
      /\ \A i \in Nodes : i < node => /\ dirs[i].genesis = Whole
                                      /\ DOMAIN dirs[i].gentxs = Nodes
      /\ \A i \in Nodes : ~ (i < node) => dirs[i].genesis = Fresh
  BY <1>1 DEF NodesInv, FilesInv
<1>4. /\ DOMAIN dirs[node].gentxs = Nodes
      /\ NodeAppState(dirs[node]) = Whole
  BY <1>1, <1>2, <1>3, AcceptedIsWhole
<1>5. appState = Whole
  <2>1. CASE node = 0
    BY <1>4, <2>1
  <2>2. CASE node # 0
    <3>1. 0 < node
      BY <1>1, <2>2
    <3>. QED
      BY <1>2, <1>3, <2>2, <3>1
  <2>. QED
    BY <2>1, <2>2
<1> HIDE DEF appState
<1>6. node \in DOMAIN dirs
  BY <1>2, <1>3 DEF Current
<1>7. /\ DOMAIN dirs' = DOMAIN dirs
      /\ \A i \in DOMAIN dirs : dirs'[i].gentxs = dirs[i].gentxs
      /\ dirs'[node].genesis = Whole
      /\ \A i \in DOMAIN dirs : i # node => dirs'[i].genesis = dirs[i].genesis
  <2> HIDE DEF dir
  <2>1. /\ DOMAIN dirs' = DOMAIN dirs \cup {node}
        /\ dirs'[node] = dir
        /\ \A i \in DOMAIN dirs : i # node => dirs'[i] = dirs[i]
    BY <1>1, WithDirIs
  <2>. QED
    BY <1>5, <1>6, <2>1 DEF dir
<1>8. /\ KeysNow' = KeysNow
      /\ Nodes' = Nodes
      /\ Fresh' = Fresh
      /\ Accounts' = Accounts
      /\ \A i, j : Gentx(i, j)' = Gentx(i, j)
  BY <1>1 DEF KeysNow, Nodes, Fresh, Accounts, Gentx
<1>9. Whole' = Whole
  BY <1>1, <1>8 DEF Whole
<1>10. KeysInv'
  BY <1>1, <1>8 DEF NodesInv, KeysInv
<1>11. LeftInv'
  BY <1>1, <1>7, <1>8 DEF NodesInv, LeftInv
<1>12. \A i, j \in Nodes : Current(i, j)'
  BY <1>1, <1>3, <1>7, <1>8 DEF Current
<1>13. \A i \in Nodes : /\ i \in DOMAIN dirs
                        /\ i < node + 1 <=> i < node \/ i = node
  BY <1>1, <1>3 DEF Current, Nodes
<1>14. \A i \in Nodes : i < node' => /\ dirs'[i].genesis = Whole
                                     /\ DOMAIN dirs'[i].gentxs = Nodes
  BY <1>1, <1>3, <1>4, <1>7, <1>13
<1>15. \A i \in Nodes : ~ (i < node') => dirs'[i].genesis = Fresh
  BY <1>1, <1>3, <1>7, <1>13
<1>16. FilesInv'
  BY <1>1, <1>8, <1>9, <1>12, <1>14, <1>15 DEF FilesInv
<1>. QED
  BY <1>10, <1>11, <1>16 DEF NodesInv

LEMMA NodesStepInv == NodesInv /\ [NodesNext]_nodeVars => NodesInv'
<1> SUFFICES ASSUME NodesInv, [NodesNext]_nodeVars
             PROVE  NodesInv'
  OBVIOUS
<1>1. CASE UNCHANGED nodeVars
  <2>1. KeysInv' /\ LeftInv'
    BY <1>1 DEF nodeVars, NodesInv, KeysInv, LeftInv, KeysNow, Nodes
  <2>2. /\ Nodes' = Nodes
        /\ Fresh' = Fresh
        /\ Whole' = Whole
        /\ \A i, j : Current(i, j)' <=> Current(i, j)
    BY <1>1 DEF nodeVars, Nodes, Fresh, Whole, Accounts, Current, Gentx
  <2>3. CollectAccepts(dirs[node])' <=> CollectAccepts(dirs[node])
    BY <1>1 DEF nodeVars, CollectAccepts
  <2>4. FilesInv'
    BY <1>1, <2>2, <2>3 DEF nodeVars, NodesInv, FilesInv
  <2>. QED
    BY <2>1, <2>4 DEF NodesInv
<1>. QED
  BY <1>1, GenerateInv, StopsInv, NodeFilesInv, InitGenFilesInv, CopyGentxsInv,
     CollectGenFilesInv, CollectFailsInv
     DEF NodesNext

-----------------------------------------------------------------------------
(* The chain and the files together. *)

LEMMA TestnetStep ==
    NodesInv /\ [TestnetNext]_testnetVars => [Next]_vars /\ NodesInv'
<1> SUFFICES ASSUME NodesInv, [TestnetNext]_testnetVars
             PROVE  [Next]_vars /\ NodesInv'
  OBVIOUS
<1>1. CASE GenerateFiles
  BY <1>1, NodesStepInv DEF GenerateFiles
<1>2. ASSUME NEW g \in Geneses, StartByHand(g)
      PROVE  [Next]_vars /\ NodesInv'
  BY <1>2, NodesStepInv DEF StartByHand, Next
<1>3. ASSUME NEW list \in Lists, StartNodes(list)
      PROVE  [Next]_vars /\ NodesInv'
  <2> DEFINE operators == {tx.operator : tx \in dirs[0].genesis.gentxs}
             g == [list |-> list, gentxs |-> operators]
  <2>1. operators \in SUBSET Candidates
    <3>1. /\ phase = "done"
          /\ 0 < node
          /\ node = command.nodes
          /\ node \in Nat
      BY <1>3 DEF StartNodes, NodesInv, FilesInv, KeysInv
    <3>2. 0 \in Nodes
      BY <3>1 DEF Nodes
    <3>3. dirs[0].genesis.gentxs = {Gentx(j, accounts[j + 1]) : j \in Nodes}
      <4>1. dirs[0].genesis = Whole
        BY <3>1, <3>2 DEF NodesInv, FilesInv
      <4>. QED
        BY <4>1 DEF Whole
    <3>4. ASSUME NEW j \in Nodes
          PROVE  Gentx(j, accounts[j + 1]).operator \in Candidates
      <4>1. j + 1 \in 1..Len(accounts) /\ Len(accounts) \in Nat
        BY <3>1 DEF NodesInv, KeysInv, Nodes
      <4>2. KeysNow + (j + 1) \in 1..Len(Keys)
        BY <4>1, MultiNodeAssumption DEF NodesInv, KeysInv, KeysNow
      <4>3. accounts[j + 1] = Keys[KeysNow + (j + 1)]
        BY <4>1 DEF NodesInv, KeysInv
      <4>. QED
        BY <4>2, <4>3, TestnetAssumption DEF Gentx
    <3>. QED
      BY <3>3, <3>4
  <2>2. g \in Geneses
    BY <2>1 DEF Geneses
  <2>3. InitChain(g) /\ UNCHANGED nodeVars
    BY <1>3 DEF StartNodes
  <2> HIDE DEF g
  <2>. QED
    BY <2>2, <2>3, NodesStepInv DEF Next
<1>4. CASE Proceed
  BY <1>4, NodesStepInv DEF Proceed, Next
<1>5. CASE UNCHANGED testnetVars
  BY <1>5, NodesStepInv DEF testnetVars
<1>. QED
  BY <1>1, <1>2, <1>3, <1>4, <1>5 DEF TestnetNext

\* The composition implements ValidatorRegistry: what the command and the start
\* of its nodes do to the chain are steps of the registry's specification.
THEOREM TestnetIsRegistry == TestnetSpec => Spec
<1>1. TestnetInit => Init /\ NodesInv
  BY NodesInitInv DEF TestnetInit
<1>. QED
  BY <1>1, TestnetStep, PTL DEF TestnetSpec, Spec

\* So on a testnet, too, whoever came by the decorator has an
\* entry.
THEOREM TestnetCheckedStayWhitelisted ==
    TestnetSpec => []CheckedAreWhitelisted
  BY TestnetIsRegistry, CheckedStayWhitelisted, PTL

THEOREM NodesInvariance == TestnetSpec => []NodesInv
<1>1. TestnetInit => NodesInv
  BY NodesInitInv DEF TestnetInit
<1>. QED
  BY <1>1, TestnetStep, PTL DEF TestnetSpec

\* Whatever earlier commands left, a command that ends well made every node
\* the same genesis, of its own accounts and gentxs.
THEOREM GenesisIsCanonical == TestnetSpec => []CanonicalGenesis
<1>1. NodesInv => CanonicalGenesis
  <2> SUFFICES ASSUME NodesInv, phase = "done", NEW i \in Nodes
               PROVE  dirs[i].genesis = Whole /\ NodeAppState(dirs[i]) = Whole
    BY Zenon DEF CanonicalGenesis, Whole
  <2>1. /\ dirs[i].genesis = Whole
        /\ DOMAIN dirs[i].gentxs = Nodes
        /\ \A j \in Nodes : dirs[i].gentxs[j] = Gentx(j, accounts[j + 1])
    <3>1. i < node
      BY DEF NodesInv, FilesInv, Nodes, KeysInv
    <3>. QED
      BY <3>1 DEF NodesInv, FilesInv, Current
  <2>2. {dirs[i].gentxs[j] : j \in Nodes} = {Gentx(j, accounts[j + 1]) : j \in Nodes}
    BY <2>1
  <2>3. dirs[i].genesis.accounts = Accounts
    BY <2>1 DEF Whole
  <2>4. NodeAppState(dirs[i]) =
           [accounts |-> Accounts, gentxs |-> {dirs[i].gentxs[j] : j \in Nodes}]
    BY <2>1, <2>3, Zenon DEF NodeAppState
  <2>. QED
    BY <2>1, <2>2, <2>4, Zenon DEF Whole
<1>. QED
  BY <1>1, NodesInvariance, PTL

\* A collection that is refused met a stake nobody can pay or a gentx of a
\* command for more nodes.
THEOREM RefusalsAreExplained == TestnetSpec => []RefusedOnlyForLeftovers
<1>1. NodesInv => RefusedOnlyForLeftovers
  <2> SUFFICES ASSUME NodesInv, phase = "refused",
                      DOMAIN dirs[node].gentxs \subseteq Nodes
               PROVE  \E i \in Nodes : Balance < StakeOf(command.stakes, i)
    BY DEF RefusedOnlyForLeftovers, NodesInv, FilesInv
  <2>1. /\ node \in Nodes
        /\ dirs[node].genesis = Fresh
        /\ ~ CollectAccepts(dirs[node])
        /\ \A j \in Nodes : Current(node, j)
        /\ Len(accounts) = command.nodes
        /\ command.nodes \in Nat
    BY DEF NodesInv, FilesInv, KeysInv
  <2>2. PICK j \in DOMAIN dirs[node].gentxs :
           \/ dirs[node].gentxs[j].operator \notin Accounts
           \/ Balance < dirs[node].gentxs[j].amount
    BY <2>1 DEF CollectAccepts, Fresh
  <2>3. j \in Nodes /\ dirs[node].gentxs[j] = Gentx(j, accounts[j + 1])
    BY <2>1 DEF Current
  <2>4. accounts[j + 1] \in Accounts
    BY <2>1, <2>3 DEF Accounts, Nodes
  <2>. QED
    BY <2>2, <2>3, <2>4 DEF Gentx
<1>. QED
  BY <1>1, NodesInvariance, PTL

-----------------------------------------------------------------------------
(* A running chain's gentxs passed, and a testnet's are the command's. *)

StartInv ==
    /\ Running => \A operator \in genesis.gentxs :
                     IsValidatorWhitelisted(LoadedFrom(genesis.list), operator)
    /\ initStep # 0 /\ phase = "done" => genesis.gentxs = Accounts

\* The genesis the nodes start from has the gentxs of the command's operators.
LEMMA StartNodesGentxs ==
    ASSUME NodesInv, phase = "done"
    PROVE  {tx.operator : tx \in dirs[0].genesis.gentxs} = Accounts
<1>1. /\ node \in Nat
      /\ 0 < node
      /\ node = command.nodes
      /\ Len(accounts) = node
      /\ \A i \in Nodes : i < node => dirs[i].genesis = Whole
  BY DEF NodesInv, FilesInv, KeysInv
<1>2. dirs[0].genesis = Whole
  BY <1>1 DEF Nodes
<1>3. dirs[0].genesis.gentxs = {Gentx(j, accounts[j + 1]) : j \in Nodes}
  BY <1>2 DEF Whole
<1>4. \A j \in Nodes : Gentx(j, accounts[j + 1]).operator = accounts[j + 1]
  BY DEF Gentx
<1>5. \A k \in 1..node : k - 1 \in Nodes /\ (k - 1) + 1 = k
  BY <1>1 DEF Nodes
<1>6. \A j \in Nodes : j + 1 \in 1..node
  BY <1>1 DEF Nodes
<1>7. Accounts = {accounts[k] : k \in 1..node}
  BY <1>1 DEF Accounts
<1>8. {accounts[j + 1] : j \in Nodes} = {accounts[k] : k \in 1..node}
  <2>1. ASSUME NEW k \in 1..node
        PROVE  \E j \in Nodes : accounts[k] = accounts[j + 1]
    <3>1. k - 1 \in Nodes /\ accounts[k] = accounts[(k - 1) + 1]
      BY <1>5
    <3>. QED
      BY <3>1
  <2>. QED
    BY <1>6, <2>1
<1>. QED
  BY <1>3, <1>4, <1>7, <1>8

LEMMA StartStep ==
    ASSUME IInv, NodesInv, StartInv, [TestnetNext]_testnetVars
    PROVE  StartInv'
<1>1. CASE GenerateFiles
  BY <1>1 DEF GenerateFiles, vars, StartInv, Running
<1>2. ASSUME NEW g \in Geneses, StartByHand(g)
      PROVE  StartInv'
  BY <1>2 DEF StartByHand, InitChain, nodeVars, StartInv, Running
<1>3. ASSUME NEW list \in Lists, StartNodes(list)
      PROVE  StartInv'
  <2>1. /\ genesis'.gentxs = Accounts
        /\ initStep' = 1
        /\ UNCHANGED accounts
    BY <1>3, StartNodesGentxs DEF StartNodes, InitChain, nodeVars
  <2>. QED
    BY <2>1 DEF StartInv, Running, Accounts
<1>4. CASE Proceed
  <2>1. /\ genesis' = genesis
        /\ UNCHANGED <<phase, accounts>>
        /\ initStep # 0
    BY <1>4 DEF Proceed, nodeVars, ChainStep, RegistryInitGenesis, NextModule,
       GenutilInitGenesis, OnboardValidator, CreateValidator,
       CreateCarriedValidator, RemoveValidator, ExportImport, Running
  <2>2. \/ Running' <=> Running
        \/ GenutilInitGenesis
        \/ RegistryInitGenesis
    BY <1>4 DEF Proceed, ChainStep, OnboardValidator, CreateValidator,
       CreateCarriedValidator, RemoveValidator, ExportImport, Running
  <2>3. CASE Running' <=> Running
    BY <2>1, <2>3 DEF StartInv, Accounts
  <2>4. CASE GenutilInitGenesis
    <3>1. initStep = 2 /\ registry = LoadedFrom(genesis.list)
      BY <2>4 DEF GenutilInitGenesis, NextModule, InitGenesisOrder, IInv
    <3>2. Running' => \A operator \in genesis.gentxs :
                         IsValidatorWhitelisted(registry, operator)
      BY <2>4, <3>1 DEF GenutilInitGenesis, Running
    <3>. QED
      BY <2>1, <3>1, <3>2 DEF StartInv, Accounts
  <2>5. CASE RegistryInitGenesis
    <3>1. ~ Running'
      BY <2>5 DEF RegistryInitGenesis, NextModule, InitGenesisOrder, Running
    <3>. QED
      BY <2>1, <3>1 DEF StartInv, Accounts
  <2>. QED
    BY <2>2, <2>3, <2>4, <2>5
<1>5. CASE UNCHANGED testnetVars
  BY <1>5 DEF testnetVars, vars, nodeVars, StartInv, Running, Accounts
<1>. QED
  BY <1>1, <1>2, <1>3, <1>4, <1>5 DEF TestnetNext

\* A testnet that runs has an entry for each operator the command made.
THEOREM TestnetsNeedEntries == TestnetSpec => []TestnetNeedsEntries
<1>1. TestnetInit => StartInv
  BY DEF TestnetInit, Init, NodesInit, StartInv, Running
<1>2. IInv /\ NodesInv /\ StartInv /\ [TestnetNext]_testnetVars => StartInv'
  BY StartStep
<1>3. IInv /\ StartInv => TestnetNeedsEntries
  <2> SUFFICES ASSUME IInv, StartInv, Running, phase = "done",
                      NEW operator \in Accounts
               PROVE  \E k \in DOMAIN genesis.list :
                         genesis.list[k].operator = operator
    BY DEF TestnetNeedsEntries
  <2>1. IsValidatorWhitelisted(LoadedFrom(genesis.list), operator)
    BY DEF StartInv, Running
  <2>2. PICK i \in DOMAIN LoadedFrom(genesis.list) :
           LoadedFrom(genesis.list)[i].operator = operator
    BY <2>1 DEF IsValidatorWhitelisted
  <2>3. PICK n \in Nat : genesis.list \in [1..n -> Messages]
    BY RegistryAssumption DEF IInv, TypeOK, Geneses, Lists
  <2>4. DOMAIN genesis.list = 1..n /\ Len(genesis.list) = n
    BY <2>3
  <2>5. i \in {genesis.list[k].index : k \in DOMAIN genesis.list}
    BY <2>2 DEF LoadedFrom
  <2>6. PICK k \in 1..n :
           LoadedFrom(genesis.list)[i] = EntryOf(genesis.list[k])
    BY <2>4, <2>5, LoadedEntry
  <2>. QED
    BY <2>2, <2>4, <2>6 DEF EntryOf
<1>. QED
  BY <1>1, <1>2, <1>3, TestnetIsRegistry, Invariance, NodesInvariance, PTL
     DEF TestnetSpec

=============================================================================
