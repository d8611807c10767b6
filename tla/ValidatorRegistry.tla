------------------------- MODULE ValidatorRegistry -------------------------
(***************************************************************************)
(* Who may run a validator: x/validatorregistry, the ante decorator that   *)
(* reads it for every MsgCreateValidator, and the genesis that fills it    *)
(* and then delivers the gentxs through that decorator.  Staking is seen   *)
(* as the set of the operators that have a validator.                      *)
(*                                                                         *)
(* The decorator sees the messages of a transaction itself and not those   *)
(* that another message carries, so there are two ways to a validator.     *)
(***************************************************************************)
EXTENDS Whitelist

CONSTANTS
    Candidates,  \* operators that send a MsgCreateValidator
    GenesisMax   \* bound: the entries a genesis lists

ASSUME RegistryAssumption == GenesisMax \in Nat

VARIABLES
    genesis,     \* the list of entries and the gentxs the chain starts from
    registry,    \* the registry's map
    validators,  \* the operators that have a validator
    unchecked,   \* history: those of them the decorator did not look at
    initStep     \* 0 before a genesis is given, then the next module to
                 \* initialise; 3 when running, 4 after a panic

vars == <<genesis, registry, validators, unchecked, initStep>>

Lists == UNION {[1..n -> Messages] : n \in 0..GenesisMax}
Geneses == [list : Lists, gentxs : SUBSET Candidates]

EmptyRegistry == [i \in {} |-> {}]

\* A faulty variant, rejected by a run: genutil before the registry.
InitGenesisSwapped == <<"genutil", "validatorregistry">>

\* The two modules' places in the InitGenesis order of the application.
InitGenesisOrder == <<"validatorregistry", "genutil">>

Running == initStep = 3
Panicked == initStep = 4

NextModule(m) == initStep \in {1, 2} /\ InitGenesisOrder[initStep] = m

-----------------------------------------------------------------------------

\* The chain is given a genesis.  A panic committed nothing, so it can be given
\* another one after that.
InitChain(g) ==
    /\ initStep \in {0, 4}
    /\ genesis' = g
    /\ registry' = EmptyRegistry
    /\ validators' = {}
    /\ unchecked' = {}
    /\ initStep' = 1

RegistryInitGenesis ==
    /\ NextModule("validatorregistry")
    /\ registry' = LoadedFrom(genesis.list)
    /\ initStep' = initStep + 1
    /\ UNCHANGED <<genesis, validators, unchecked>>

\* The gentxs pass the ante handler like any transaction, and one that fails
\* panics: the chain does not start.
GenutilInitGenesis ==
    /\ NextModule("genutil")
    /\ IF \A op \in genesis.gentxs : IsValidatorWhitelisted(registry, op)
       THEN /\ validators' = genesis.gentxs
            /\ initStep' = initStep + 1
       ELSE /\ initStep' = 4
            /\ UNCHANGED validators
    /\ UNCHANGED <<genesis, registry, unchecked>>

OnboardValidator(m) ==
    /\ Running
    /\ OnboardAccepts(registry, m)
    /\ registry' = Onboarded(registry, m)
    /\ UNCHANGED <<genesis, validators, unchecked, initStep>>

\* A faulty variant: the whitelist is not looked at.
CreateAnyValidator(op) ==
    /\ Running
    /\ op \notin validators
    /\ validators' = validators \cup {op}
    /\ UNCHANGED <<genesis, registry, unchecked, initStep>>

\* MsgCreateValidator, let through by ValidatorWhitelistDecorator; staking
\* refuses an operator that has a validator.
CreateValidator(op) ==
    /\ Running
    /\ IsValidatorWhitelisted(registry, op)
    /\ op \notin validators
    /\ validators' = validators \cup {op}
    /\ UNCHANGED <<genesis, registry, unchecked, initStep>>

\* MsgCreateValidator in a group proposal or in an authz MsgExec: its handler
\* runs, and the decorator saw the message around it.
CreateCarriedValidator(op) ==
    /\ Running
    /\ op \notin validators
    /\ validators' = validators \cup {op}
    /\ unchecked' = unchecked \cup {op}
    /\ UNCHANGED <<genesis, registry, initStep>>

\* Staking removes a validator when the last delegation is gone.
RemoveValidator(op) ==
    /\ Running
    /\ op \in validators
    /\ validators' = validators \ {op}
    /\ unchecked' = unchecked \ {op}
    /\ UNCHANGED <<genesis, registry, initStep>>

\* The chain stops and starts again from its exported genesis: the registry
\* from its list, the validators from staking's own state.
ExportImport ==
    /\ Running
    /\ \E list \in ExportsOf(registry) : registry' = LoadedFrom(list)
    /\ UNCHANGED <<genesis, validators, unchecked, initStep>>

-----------------------------------------------------------------------------

Init ==
    /\ genesis = [list |-> <<>>, gentxs |-> {}]
    /\ registry = EmptyRegistry
    /\ validators = {}
    /\ unchecked = {}
    /\ initStep = 0

\* What happens once there is a genesis.
ChainStep ==
    \/ RegistryInitGenesis
    \/ GenutilInitGenesis
    \/ \E m \in Messages : OnboardValidator(m)
    \/ \E op \in Candidates : CreateValidator(op)
    \/ \E op \in Candidates : CreateCarriedValidator(op)
    \/ \E op \in Candidates : RemoveValidator(op)
    \/ ExportImport

Next ==
    \/ \E g \in Geneses : InitChain(g)
    \/ ChainStep

Spec == Init /\ [][Next]_vars

-----------------------------------------------------------------------------
(* What is expected of the registry. *)

\* The map's entries are those of a message or of the genesis list.
TypeOK ==
    /\ genesis \in Geneses
    /\ registry \in Registries
    /\ validators \subseteq Candidates
    /\ unchecked \subseteq validators
    /\ initStep \in 0..4

\* Whoever came by the decorator is in the registry long after an entry let it
\* in: through other onboardings, genesis, restarts, and validators removed and
\* made again in either way (validator_whitelist.go:36).
CheckedAreWhitelisted ==
    \A op \in validators \ unchecked : IsValidatorWhitelisted(registry, op)

\* A running chain never loses or rewrites an entry: not by a message that
\* names its index again, not by a restart (msg_server_onboard_validator.go:45).
EntriesKept ==
    [][ Running => \A i \in DOMAIN registry :
                      i \in DOMAIN registry' /\ registry'[i] = registry[i] ]_vars

\* A genesis panics only for a gentx whose operator it does not list, or lists
\* in entries that later ones of the same index overwrite: the whitelist is
\* loaded before the gentxs are delivered (app_config.go:174).
PanicsOnlyUnlisted ==
    LET Overwritten(k) == \E j \in (k + 1)..Len(genesis.list) :
                             genesis.list[j].index = genesis.list[k].index
    IN  Panicked =>
            \E op \in genesis.gentxs :
                \A k \in DOMAIN genesis.list :
                    genesis.list[k].operator = op => Overwritten(k)

-----------------------------------------------------------------------------
(* What the repository says and the code does not do. *)

\* "Only whitelisted validators can create validator nodes on the network"
\* (VALIDATOR_WHITELIST.md:5): whoever has a validator has an entry.
EveryValidatorWhitelisted ==
    \A op \in validators : IsValidatorWhitelisted(registry, op)

=============================================================================
