# Verification of the Verana chain

TLA+ models of the Cosmos SDK application in this repository: what its own
modules, ante decorators and begin/end blockers do, what they promise, and what
is checked and proved of it.

- [The system](#the-system)
- [Modules and the code they model](#modules-and-the-code-they-model)
- [Runs](#runs), [bounds](#bounds-and-why-they-are-enough), [fairness](#fairness)
- [Proofs](#proofs)
- [Where code and text disagree](#where-code-and-text-disagree)
- [What is not modelled](#what-is-not-modelled)
- [Plan](#plan)

## The system

A block is, in order: the begin blockers (`protocolpool` before `td`), the
transactions of the block, each through the ante chain, and the end blockers
(`group` before `validatorregistry`). A chain starts by initialising its modules
from genesis, `validatorregistry` before `genutil`, and may be stopped and
restarted from an exported genesis. All state is in the multistore; every
handler runs to its end on a cached copy, which an error throws away. So there
is no concurrency inside a block. What is hard is the order of the parts of a
block, the time that passes between blocks, several actors' transactions falling
in any order between them, and restarts.

| component | state | operations | talks to |
|---|---|---|---|
| `x/td` | params (value, yield rate), dust | `BeginBlocker`, `FundModule`, `UpdateParams`, genesis | bank accounts `td`, `verana_pool`, `protocolpool` |
| `x/validatorregistry`, registry | map index → entry | `OnboardValidator`, `IsValidatorWhitelisted`, genesis | read by the whitelist decorator, written through the council |
| `x/validatorregistry`, end blocker | none | `executePendingGroupProposals` | queries and executes x/group proposals |
| ante: validator whitelist | none | check of `MsgCreateValidator` | registry |
| ante: proposal timing | none | check of group `MsgExec` | x/group |
| council (x/group, external) | proposals, votes | submit, vote, withdraw, exec, tally, prune | registry, by the messages it executes |
| bank, protocol pool, staking (external) | balances, validators | as called | td, registry |
| export at height zero | distribution state, jailed validators | one command | distribution, staking, slashing |
| app wiring | none | order of the modules in genesis, begin and end of block | all |
| multi-node testnet command | a directory of keys, gentxs and a genesis per node | one command, which may stop anywhere and be given again | genesis of registry and `genutil` |
| in-place testnet command | rewritten state | one command | staking, distribution, slashing, bank |
| protobuf codecs | none | `Marshal`, `Size`, `Unmarshal` of each message | all: transactions, queries, genesis, stores |

What makes each correct:

- **x/td.** Coins are conserved. The trust depositors are owed a yield each
  block; the coins moved and the dust carried over must add up to exactly that,
  while the pool can pay. The dust stays a fraction of a coin, `verana_pool` is
  empty after each begin blocker, and the part of `trust_deposit_value` that
  deposits made is backed by coins.
- **Registry and whitelist.** Whoever made a validator in a transaction of his own
  has an entry, as long as he has it; an entry is neither lost nor rewritten by a
  running chain or a restart; a genesis is refused only for a reason.
- **Export at height zero.** It pays what it owes, accounts for every coin, and
  leaves nothing of the old chain's periods, slashes and heights that the new
  chain would trip over.
- **Council and end blocker.** Nothing is executed before its voting period
  ends. What has ended is tallied and tried in the same block, by nobody's
  message. Of rival accepted proposals the first executed stands.
- **Testnet files.** Whatever an earlier command left behind, the genesis all
  nodes get is the one of the last command, and a refusal has a reason; a chain
  started from it has an entry for each of its operators.
- **Codecs.** What is written is read back, by this version or one with fewer
  fields; no bytes at all make a decoder leave its buffer or run forever; an
  encoding that was cut is refused unless the cut is between fields.

All of this takes the signer of a message as given. Nothing in `ante/ante.go`
justifies that: the list of decorators at lines 37 to 50 has none that verifies
signatures, and `app/app.go:222` puts it in the place of the default one. Where
it matters most is x/td: `ValueBacked` and `ClaimKept` need that `td`, the
account of the module, never sends.

The hazards these are aimed at are listed, each at its line, in `PROJECT.json`.

## Modules and the code they model

| module | models | code |
|---|---|---|
| `LegacyDec` | the decimals x/td computes with: products and quotients rounded half to even, truncation | `cosmossdk.io/math` as x/td uses it |
| `YieldClaim` | abstract: the depositors' claim changes by a yield, a deposit, governance or a restart, and no other way | what `abci.go`'s comments promise |
| `TrustDeposit` | x/td, the bank accounts it touches, the protocol pool's payments, restart | `x/td/keeper/*.go`, `x/td/module/module.go`, `app/app_config.go` |
| `Whitelist` | the registry as a value: what its messages, genesis and readers do to it | `x/validatorregistry/keeper/*.go` |
| `ValidatorRegistry` | genesis order, onboarding, creation and removal of validators, restart | `ante/validator_whitelist.go`, `keeper/genesis.go`, `app/app_config.go` |
| `MultiNode` | the multi-node command and the directory it fills | `cmd/testnet_multi_node.go` |
| `Testnet` | a chain of `ValidatorRegistry` started from a genesis by hand or from the command's | the above and `keeper/genesis.go` |
| `Council` | proposals of one threshold policy, timing decorator, both end blockers | `ante/group_proposal_timing.go`, `x/validatorregistry/module/module.go`, x/group as used |
| `Distribution` | rewards by period, as a value: history with reference counts, slash events, starting infos | x/distribution as the export uses it |
| `HeightZero` | a chain that earns, slashes and withdraws; its export for height zero; the chain that starts from it | `app/export.go` |
| `WireFormat` | varints in machine words, bounds of a payload, sizes, the pieces a message is written from | the shared text of `x/*/types/*.pb.go` |
| `TdMessages`, `RegistryMessages` | the fields of each message, its `Marshal` and its `Size` | `x/td/types/*.pb.go`, `x/validatorregistry/types/*.pb.go` |
| `Wire` | `Unmarshal`: the decoder's loop, its calls for nested messages, the skip function | the same files |
| `MC...` | small instances | |
| `...Proofs` | theorems | |

`Whitelist` is shared: `ValidatorRegistry` and `Council` both extend it, one to
ask who may run a validator and the other to execute proposals that change it.
`Testnet` composes `ValidatorRegistry` with `MultiNode`: its behaviours are those
of the registry's chain with the command's steps between them.

Conventions. A transaction that fails leaves no trace, so a handler's early
return is a guard and a failing message is a stuttering step. Where a failure
does leave a trace it is a step: a proposal's `FAILURE`, a panic at genesis, a
begin blocker that returns early. Operators marked *faulty variant* are
plausible bugs, one at least for each property, and are used by no
specification; putting one in the place of the definition it varies makes the
property named in `PROJECT.json` fail, so each property does depend on the code.

**TrustDeposit.** `bank` holds the uvna balances of `td`, `verana_pool`,
`protocolpool` (with its escrow) and everybody else (`users`). `stage` says which
part of the block is next. `BeginBlocker` is one step: `SendFundsFromVeranaPool`
with its two early returns, then `SendFundsBackToCommunityPool`, which reads the
balance again. `FundModule` counts a deposit into `td` only. `UpdateParams`
replaces the record. The uint64 value wraps at `Word` and its cast to int64 is
`AsInt64`. Dust is an integer of units of `1/One`.

**ValidatorRegistry.** `initStep` is 0 before there is a genesis, walks
`InitGenesisOrder`, is 3 when the chain runs and 4 after a panic, after which
another genesis may be tried. `InitChain` takes every genesis list of up to
`GenesisMax` entries, repeated indexes included, since starting a chain does not
call `GenesisState.Validate`. Staking is the set of operators that have a validator.
`ExportImport` reloads the registry from the list `ExportGenesis` writes.
The decorator looks at the messages of a transaction only, so there are two
ways to a validator: `CreateValidator` is a transaction's own message, with the
decorator's check, and `CreateCarriedValidator` one that a group proposal or an
authz `MsgExec` carries, without it. `unchecked` is a history variable, and holds
who came the second way.

**MultiNode, Testnet.** The command's loop over the nodes is a step per node: a key
and a gentx (`NodeFiles`), the common genesis without gentxs (`InitGenFiles`),
the copying of every gentx to every node, and the collecting, in which the first
node's application state is written to all. `dirs` survives the command. An error
while a node's files are made removes the directory, later ones leave it as it
is, and a process may be killed anywhere (`Interrupted`). Operators' keys are new
each time, node ids, and so the names of the gentx files, are not; hence the
gentxs of an earlier, larger command are found and refused. `StartNodes` starts
the chain from the generated files with any list of entries added, the same in
all nodes, since nodes that disagree on the genesis make no chain.

**Wire.** `stack` holds the calls of `Unmarshal` under way, the innermost last,
each with its buffer, index and message; `skip` is the loop that passes over an
unknown field. One step is one turn of one of the two loops. Numbers are machine
words: a length is a word read as a signed integer, the sum of an index and a
length wraps, and the tests against negative numbers and against the end of the
buffer are the code's, in its order. Every message of both modules is a table of
its fields; the generated text that does not depend on the message, repeated
in seven files, is modelled once. A decimal is its digits, and a text that is not
digits is refused.

**Council.** A proposal keeps its `age`, the block time minus its submit time,
as only that difference is compared; `NextBlock` adds the time between blocks
to all of them. `Exec` is x/group's: tally, run the messages in a cached context,
prune on success, record `FAILURE` otherwise. A `MsgExec` comes as a transaction's
own message (`ExecProposal`, with the decorator's tests), with a submission or a
vote (`ExecModes`), or inside an authz `MsgExec`, where the decorator does not
look (`ExecCarriedProposal`, if `CarriedExec`). `EndBlock` is x/group's end blocker
(tally what has ended, prune what expired), then the registry's: the first page
of proposals, read once, each executed if the snapshot and the store both agree.
`executions` is a history variable, and so are the votes of a proposal after its
tally; no guard reads either.

**HeightZero.** `store` is the distribution module's state with the tokens of the
validators; the operators of `Distribution` take a store to a store, and record
a panic in it. `Export` composes the export's four passes in its order:
`WithdrawEverything`, `ForgetHistory`, `ReinitializeValidators`,
`ReinitializeDelegations`. The loops are folds over the validators and the
delegations. A query's answer, `Pending`, is computed on a copy, as the query
does. A slash burns whole tokens, and the event of it is their part of the tokens,
rounded up; a delegation's stake is cut when it starts to count and rounded when
it is compared (`StakeOf`, `CurrentStake`), as x/staking has two functions for it.
At the end of the export x/staking walks its power index, by power and then by
address, and panics if it meets a validator the allowed list has jailed among the
first `MaxValidators` (`Reached`, `ApplyPanics`); else the list is carried out.

## Runs

| run | configuration | shows |
|---|---|---|
| `td` | `TrustDeposit.cfg` | a dust within a coin, backing, exact payment at the threshold, settled and drained pool, and that x/td implements `YieldClaim` |
| `td_short_pool` | `TrustDepositShortPool.cfg` | violation: a short pool loses the block's yield |
| `td_export` | `TrustDepositExport.cfg` | violation: a restart loses the dust |
| `registry` | `ValidatorRegistry.cfg` | validators that came by the decorator have entries, entries last, a genesis panics only for an operator it does not list or overwrites; generated files are the last command's, refused for leftovers or a stake alone, and need entries |
| `registry_carried` | `ValidatorRegistryCarried.cfg` | violation: a carried `MsgCreateValidator` makes a validator without an entry |
| `council_timing` | `CouncilTiming.cfg` | with executions by `MsgExec` and end blocker only: voting stays open, nothing is early, each block settles what has ended, executions stand |
| `council_try` | `CouncilTry.cfg` | with executions on submission and vote, and carried ones, too: nothing is left unsettled, and what has passed is tried by nobody's message |
| `council_early` | `CouncilEarly.cfg` | violation: `exec: TRY` executes inside the voting period |
| `council_page` | `CouncilPage.cfg` | violation: an accepted proposal past the first page waits |
| `height_zero` | `HeightZero.cfg` | an export pays what is owed, loses no coin, and the new chain never panics on what the old one left |
| `council_no_retry` | `CouncilNoRetry.cfg` | violation: tried too early once, a proposal is not tried again |
| `wire` | `Wire.cfg` | messages are read back as written, also next to unknown fields; cuts are noticed; no buffer makes a decoder panic, stand still or never answer |

Properties, in the words of the code they are about:

- `PoolSettled`: `BeginBlocker` reads the pool's balance, pays out of it and reads
  it again; none is left behind, none comes from a user or the community's pool.
- `DustIsFraction`: what is stored as dust is never a payment that could have been
  made, and never negative.
- `PaysWhenFunded`: at the boundary, where the pool holds exactly what is due,
  all of it is paid.
- `ValueBacked`: the counted deposits are covered by td's coins through every
  interleaving of deposits, proposals, payments and restarts.
- `ClaimKept`: the refinement of `YieldClaim`. The claim is what td owns plus the
  dust; `BeginBlocker` maps to a step that adds the yield, or to a stutter when
  the pool is short; the sweep and all transfers that do not touch td stutter.
- `PoolDrains`: coins in `verana_pool` leave it.
- `CheckedAreWhitelisted`: whoever the decorator let in keeps an entry, over time
  and restarts, beside validators that carried messages made.
  `EveryValidatorWhitelisted` says it of all, and is violated.
- `EntriesKept`, `PanicsOnlyUnlisted`: no entry is lost, and a genesis that panics
  has an operator without one, or with entries that later ones of the same index
  overwrite.
- `VotingStaysOpen`, `NotBeforeVotingEnds`: the decorator's two tests, time and
  status, are both needed at the very instant voting ends, when a vote still
  meets its own time test.
- `SettledAtBlockEnd`, `ExecutedWhenDue`: the order of the end blockers, the
  snapshot the loop walks, and the result it skips.
- `ExecutionsStand`: uniqueness of an index is checked when a message runs.
- `PassedIsTried`: no member has to act after the votes.

- `ExportPaysPending`: each delegation gets from the export what a query would
  have told it, although each payment ends a period and takes from what is
  outstanding. `OutstandingCovers` is why the export need not be unfair to the
  last: what is cut off by rounding always stays with what is outstanding.
- `AccountHoldsAll`, `ReferencesMatch`, `NoPanic`: conservation, the history's
  reference counts, and the checks x/distribution panics on, in the new chain
  as in the old.

- `CanonicalGenesis`: when the command is done all nodes have the same genesis,
  with the accounts this command made and the gentxs of those accounts, although
  each node collects from a directory of its own that earlier commands filled.
- `RefusedOnlyForLeftovers`: the command stops at the collecting for a gentx of an
  account that is not in the genesis, or a stake its account does not hold.
- `TestnetNeedsEntries`: a chain that runs on generated files has an entry for
  each operator of theirs; the command writes none.

- `RoundTrip`: any message, with an unknown field before or after it, and two
  encodings in a row, which read as one message. It holds of `Size`, `Marshal`
  and `Unmarshal` together: `Marshal` fills from the end a buffer that `Size` made.
- `CutIsNoticed`: a prefix of an encoding is read only if it is the encoding of
  what was read, up to a prefix; else a field that was cut gave a value.
- `NoPanic`, `Advances`, `Answers`: for any bytes, no slice expression leaves the
  buffer, each turn moves on, and so there is an answer.

Deadlock is checked in every run that lets the system go on forever. `registry`
does not, as the keys that its commands may make are bounded; neither does
`height_zero`, whose chain ends at its last height or at a panic of the export,
nor `wire`, where an answer ends the call.

### Bounds, and why they are enough

- **td.** `One = 4`, `BlocksPerYear = 3`: a year's yield divides into exact,
  rounded-up and rounded-down fractions, ties included. `MCRates` and `MCValues`
  give yields of nothing, a part of a coin, and more than a coin a block.
  `Supply = 4` (5 in the violation runs) puts the pool below, at and above what is
  due. `Word = 32` leaves room for `SaneParams`: no value reaches the half of it
  from which the cast turns negative.
- **registry.** Two indexes and two operators, one message for each check that
  refuses, one operator under two indexes (removal of one entry would not
  matter) and two operators for one index (the last of a genesis list stays).
  Four operators can send a `MsgCreateValidator`, either way.
  `GenesisMax = 2` allows a repeated index. Commands are for one, two and three
  nodes, without stakes, with a stake above the `Balance`, and with a piece of the
  flag that is not a number before it. Four keys allow one node after three, three
  after one, two after two and any other sequence within four; a gentx of a
  command before the last needs two. Two of the four operators can be listed.
- **council.** Three members with threshold two, the council the setup script
  makes. `MaxProposals = 2` gives rivals for one index. `VotingPeriod = 2` and
  `MaxExecutionPeriod = 2` with blocks one or two apart reach ages before, at and
  after each limit. `MaxStep` must not exceed `MaxExecutionPeriod`: x/group would
  prune a proposal before the registry's end blocker saw it. In the chain the
  execution period is days and blocks are seconds apart. `PageLimit = 100` is the
  query's default; the run that needs a full page sets it to 1. Members are
  interchangeable, and symmetric in the runs of invariants. `council_try` has two
  members, both needed, a voting period of 1 and a minimum execution period of
  1, and no symmetry, as it checks a liveness property.

- **height_zero.** Two delegations to one validator, so that each of the two loops
  meets a validator again after it ended a period for it, and one to another.
  `One = 4`, with blocks that collect 5 coins of 10, half of it commission: ratios,
  stakes and payments all lose fractions, and still pay whole coins. The two
  delegations have one and two shares, so that a third of the rewards, and after a
  slash a third of a token, has to be cut. A slash asks for no token, one, or three,
  which is all of one validator's and more than the other has: a part, all, nothing
  to take, and a fraction that is rounded up. `MaxValidators = 1` and
  `PowerReduction = 2` let a validator jailed by the list be within the walk of the
  index, beyond it, or without power. `MaxHeight = 2`, for the chain
  before an export and again for the one after: a height kept from the old chain
  is then not less than any of the new, which is the case that matters.
  `MaxPeriod = 7` leaves two periods to end by slashes and withdrawals before an
  export, and two again after it.

- **wire.** `WordBits = 16` in the place of 64, `FieldHalf = 128` in the place of
  2^31, the field number's int32: sums and lengths wrap within buffers of five
  bytes. Lengths stay below `Half`, as they do in the code. Each text field has a
  letter of its own, numbers are at the ends of a one-byte varint and of the word,
  one text is longer than 127 bytes. The buffers are every combination of those
  for each message, with field 15 in each wire type and nested groups before and
  after some, every prefix of an encoding, every buffer of up to three bytes of
  twelve that are tags, lengths or ends of groups, and lengths and field numbers
  at the limits of their types.

### Fairness

`FairSpec` asks for weak fairness of the parts of a block only:
`ProtocolPoolBeginBlock`, `BeginBlocker`, `EndBlock` in `TrustDeposit`,
`NextBlock` and `EndBlock` in `Council`. Consensus keeps making blocks and the
application runs its begin and end blockers in each. Nobody owes the chain a
message, so no transaction is fair: `PoolDrains` and `PassedIsTried` hold with
all users silent, which is what they are to show. `Wire` has weak fairness of the
whole next-state relation: `Unmarshal` runs on its caller's goroutine and waits
for nothing.

## Proofs

All theorems hold for every value of the constants that meets the named
assumptions: `OneAssumption` (a coin has at least one unit),
`TrustDepositAssumption`, `WhitelistAssumption`, `RegistryAssumption`,
`CouncilAssumption` (types of the parameters; the empty string is no operator),
`MultiNodeAssumption` (no key is made twice), `TestnetAssumption` (keys are
operators) and `WireAssumption`, `HalfAssumption`, `TagAssumption`,
`InputsAssumption` (the width of a word; the tags of the code fit a word and its
field numbers an int32; inputs are shorter than the largest int), and for the export
`DistributionAssumption` (types; a wallet for each delegation and each validator)
and `HeightZeroAssumption` (types; an order of addresses; the bound on
periods leaves each validator two for each of its delegations, those with which a
chain starts and those an export ends; no more tokens than `One`, 10^18, up to which
a slash's fraction is exact). Properties about money with
parameters in range also assume `SaneParams`: no negative rate, and no value a
genesis or a proposal carries comes so near 2^63 that deposits of the whole
supply could reach it. No line of the code checks that.

`LegacyDecProofs`: a rounded quotient is a nearest integer
(`RoundHalfEvenNearest`), decimals are closed under the operations, truncation
leaves a fraction, and whole coins plus fraction split uniquely.

`TrustDepositProofs`: `TypeCorrect`; then
`IInv == TypeOK /\ SupplyConserved /\ DustBelowOne /\ ValueBacked /\ DustIsFraction`.
The parts need each other. The yield is non-negative only while the value is in
int64's range, which needs `ValueBacked` to bound it by what td holds and
`SupplyConserved` to bound that; `DustIsFraction` needs the yield to be
non-negative; and `ValueBacked` needs that td never pays, so a payment is never
negative, which is `DustIsFraction` again. `SupplyConserved` holds by the shape of
the bank's moves and is only a step of the argument. From it: `DustStaysBelowOne`
(for any parameters), `DustStaysFraction`, `ValueStaysBacked`, `PoolIsSettled`,
`PaysInFull`, and `ImplementsYieldClaim`, the refinement: a case for each action,
the one for `BeginBlocker` by the three outcomes of `SendFundsFromVeranaPool`.

`WhitelistProofs`: lemmas on the registry's operators, for the two modules that use
them. Each index of a list has a last position (`LastPosition`, by a least
counterexample, as induction theorems are out of the prover's reach), so
`LoadedFrom` is a registry (`LoadedIsRegistry`), loading what was exported gives the
registry back (`ExportRoundTrip`), and a message that onboards keeps every entry
(`OnboardedKeeps`).

`ValidatorRegistryProofs`: `IInv` adds to `TypeOK` and the invariants that until
the chain runs no validator exists, that before a genesis and after a panic there
is neither, and that from the registry's `InitGenesis` to
`genutil`'s the registry is `LoadedFrom(genesis.list)`, without which a panic
says nothing of the genesis. From it: `TypeCorrect`, `CheckedStayWhitelisted`,
`PanicsOnlyForUnlisted`, `EntriesAreKept`. The second is about validators that came
by the decorator, and holds beside those of `CreateCarriedValidator`; of these
nothing is claimed. The third needs that an operator without an entry in the loaded
registry has all its entries in the list overwritten (`UnlistedIsOverwritten`).

`CouncilProofs`: for any council, policy, page and distance of blocks,
`TypeCorrect` and `ExecutionsAlwaysStand` from `IInv == TypeOK /\ ExecutionsStand`,
with every way to execute. The other four need an assumption each, and a run
that breaks it is violated:

| Theorem | Assumes | Run without it |
| --- | --- | --- |
| `VotingAlwaysStaysOpen`, `NothingRunsEarly` | no submission or vote with `TRY`, no carried `MsgExec` | `council_early` |
| `EachBlockSettles` | a page holds all proposals | `council_page` |
| `AcceptedAreExecutedWhenDue` | both, and the minimum execution period ends within the voting period | `council_no_retry` |

`VotingStaysOpen` and `NotBeforeVotingEnds` are inductive together (`TimeInv`), and
`FailedForGood` is what the last theorem adds: a failed proposal whose execution
period has not ended carries a message the registry refuses, and as entries are
never taken back, always will. The end blocker's loop is a recursive function of a
position; `LoopInv` says how its store compares with the one the loop began with,
and the least position that broke it would contradict `LoopStep` (`LoopKeeps`).

`ValidatorRegistryProofs`, on testnets: `TestnetIsRegistry`, the composition refines
the chain alone, by the same variables, so every theorem on the chain holds of it
(`TestnetCheckedStayWhitelisted` states one). `NodesInvariance`: the invariant
`KeysInv /\ LeftInv /\ FilesInv` of the command. `KeysInv`: the accounts are the
last keys made, no two the same. `LeftInv`: a gentx in a directory is of a key that
was made, and of an earlier command's if its node is none of this one's. `FilesInv`,
by phase: which nodes have which gentxs and which genesis. From it
`GenesisIsCanonical` and `RefusalsAreExplained`; the second because a gentx of this
command is of an account in the genesis, and can only be refused for its stake. With
`StartInv` and the registry's invariant: `TestnetsNeedEntries`.

`WireProofs`: `DecodersStayInside` proves `TypeOK /\ NoPanic`, together inductive:
the index of every call lies within its buffer, so the sums in the bounds checks
wrap at most once and what wraps is negative, which the checks before a slice
expression then find. `DecodersAdvance`: each turn moves on, from that invariant,
as a varint takes at least one byte and a checked length is not negative.
`TypeCorrect` is a part of the first.

The rest of `WireProofs` is about encodings: `SizeIsLength`, `ReadsBack`,
`CutsAreNoticed`, for messages of any values and any number of entries whose
encoding an int can measure (`Readable`). Recursive functions of a bounded number
(`Power2`, `VarintValue`, a list's size) are reasoned about by a least number that
would break the claim. The argument, bottom up:

- `VarintRead`: the groups `EncodeVarint` writes are the digits of a number to base
  128, so reading returns the number and stops after `Sov` bytes; `VarintCut`: with
  fewer bytes it does not end. `PayloadRead` and `PayloadCut` say the same of a length
  and what it measures, with the wrapped sums of the bounds checks.
- `SizeIsLength`: `Marshal` fills its buffer from the end, so each field's piece is
  put before what is there, and `Size` adds up the lengths of the same pieces. Thus
  the buffer is filled exactly, and an encoding is its parts in a row (`Encoded`),
  also with decimals that are nil.
- `Schema`: the table each decoder is driven by agrees with what is marshalled, field
  by field: the number, the wire type, and the zero value that is not written.
- `FollowsAll`, the inductive invariant: a decoder of the beginning of an encoding of
  `m` never enters the skip function, and its stack is one call (`Frame`) or two, of
  which the outer one waits for the message inside it (`Waits`). A `Frame` stands at
  the end of a part, and its message has the fields read until there and the zero
  values of the others. Only missing bytes refuse a buffer; the end of the buffer
  is the only place of an `ok`.
- `ReadsBack` is the case in which no bytes are missing: the index is at the end and
  all fields are read. For `CutsAreNoticed` the fields read so far are a message
  of their own, and its encoding begins with the parts passed.

`ReadsBack` asks for decimals as `Marshal` makes them (`Settled`): not nil, which is
read back as zero, and no zeros in front, which no decimal has. The inputs of `wire`
are of these kinds: `Whole` meets the hypothesis of `ReadsBack`, `Cuts` that of
`CutsAreNoticed`.

`DistributionProofs` and `HeightZeroProofs` state all properties of `HeightZero`:
`TypeCorrect`, `NeverPanics`, `AccountAlwaysHolds`, `ReferencesAlwaysMatch`,
`OutstandingAlwaysCovers`, `ExportAlwaysPays`. None is inductive. Why a withdrawal
does not panic, or finds its coins outstanding, depends on the whole history since
the delegation started to count, so the inductive invariant (`StaysSound`) is
`IInv == Sound(store, Delegations, height) /\ RoomFor(store, Delegations) /\ Bounded`.
`Sound` says of every validator that its account `Fits` the delegations that count:

- `RefsFit`: entry by entry, the references are one for the last period, one for a
  delegation that counts from there, one for a slash. The sum of them is
  `ReferencesMatch`; it holds since the delegations of a validator count from
  different periods (`Distinct`).
- `SlashesFit`, `RatiosGrow`, `CountsFrom`: slashes are of periods that ended and
  heights that passed, ratios grow along the history, a delegation counts from a
  period without a slash, and slashes of later periods are of later heights. Thus
  the slashes x/distribution finds by height are those it should find by period
  (`SlashesTaken`); this is what breaks when an export keeps an old height.
- `WayFits`: the way of a delegation through the slashes ends with a stake that is
  not more than its part of the tokens, so the check of stakes cannot panic. Both
  are cut, but a slash's fraction is rounded up, so it leaves no stake more than
  its shares' part of the tokens that are left (`FractionBound`, `SlashedStake`).
- `Covered`: commission, rewards not yet divided and what all delegations earned
  (`Owed`, in units of `1/One` squared, before anything is cut off) are outstanding.
  A period moves rewards from one of these to another, as all stakes together are
  within the tokens (`AllEarned`), a slash cuts a
  payment down, a payment takes no more than was earned.

`Sound` takes the set of delegations that count as a parameter, as a loop of the
export or of a genesis is half way through them. `IncrementFits`, `InitializeFits`,
`PaidFits`, `WithdrawFits` and `SlashedFits` say that each operation keeps the
account of its validator fitting, with one delegation more or less; `SoundKept`
that the others are not disturbed. The loops are folds in an order that
is not known: `FoldHolds` and `FoldRuns` prove, by a least part of the set that would
break it, what every step keeps of the delegations taken so far (`DelegatedSound`,
`CommissionsSound`, `RewardsSound`, `ReinitializedSound`). That loops pay what was due
before they began is because a withdrawal leaves what others are due as it was
(`Withdrawn`). `PreparedSound` composes them to the export, which leaves a store
sound at height 0 from any sound store; nothing of the old chain is needed for
that but that its account holds (`ReinitializedSound`).

Every invariant and action property of the passing runs is stated by a theorem,
`RoundTrip` for the encodings of one message. Only model-checked: `RoundTrip` of
encodings with an unknown field before or after them, and of two in a row; and
the liveness properties `PoolDrains`, `PassedIsTried` and `Answers` (liveness is
beyond the prover used).

## Where code and text disagree

Each is a run that ends in a violation, with the quotations in `PROJECT.json`.

1. `x/td/keeper/abci.go:76`: a short pool returns before the dust is stored, so
   the block's yield is lost and not the transfer only.
2. `x/td/keeper/genesis.go:15`: the dust is not exported; the simulation test
   wants no difference between the stores.
3. `ante/group_proposal_timing.go:33`: only `MsgExec` is delayed to the end of the
   voting period; a submission or a vote that executes at once is not.
4. `x/validatorregistry/module/module.go:185`: the end blocker sees the first page
   of a policy's proposals only.
5. `ante/validator_whitelist.go:33`: only the messages of a transaction itself are
   checked; a `MsgCreateValidator` in an authz `MsgExec` or a group proposal makes a
   validator for anyone, against `VALIDATOR_WHITELIST.md:5` (run `registry_carried`).
6. `x/validatorregistry/module/module.go:206`: a proposal that failed because it
   was tried before its minimum execution period is not tried again.

Noticed, without a run: the cast to int64 at `x/td/keeper/abci.go:39` makes the
yield negative for a deposit value of 2^63 or more, which `validateTrustDepositValue`
accepts, against the formula in the comment before it; `COUNCIL_GOVERNANCE.md:858` lets a
member execute "once threshold is met", before the decorator lets it, and
`GROUP_PROPOSAL_TIMING.md:230` calls the minimum execution period a wait "after
voting ends", where x/group counts it from the submission. The help of the
multi-node command (`testnet_multi_node.go:70`) promises the files necessary to
run the validators; their genesis whitelists none, and the chain panics on it
until entries are added. Its comment on the stakes (`:104`) has an invalid one
replaced by the default; it is skipped, and those after it move up. Without
`--accounts-to-fund` the in-place testnet splits an empty string into one empty
address, which does not parse, and the command ends there (`testnet.go:224`).

## What is not modelled

- Messages that another message carries, other than a `MsgCreateValidator`, a group
  `MsgExec` and a proposal's `OnboardValidator`, and transactions of several
  messages. That a message comes from its signer, see above.
- Other groups and policies: the end blocker's outer loops treat each policy as
  the one modelled. Changes of members or policy by the group's admin, which
  abort x/group's open proposals.
- Vote weights other than one, and percentage policies.
- Validators in staking's own genesis, which no decorator sees.
- `term_end`, `consensus_pubkey`: stored and never read. `status` is kept, and read
  by nobody.
- Other denominations, fees, gas. The share value and other parameters of x/td
  that nothing reads.
- The creation heights of unbondings and redelegations and the start heights of
  signing infos, which the export sets to zero; several denominations of fees;
  new, changed and ended delegations around an export.
- Of the multi-node command: ports, peers, configuration files, file formats. Of
  the codecs: texts that are no UTF-8, signs and points of decimals, the fields of
  a page request after the third, and the service and reflection boilerplate.
- The in-place testnet: it rewrites the stores of staking, distribution, slashing
  and bank by calls whose effect is in those modules, and nothing is committed
  before the next block, so that an error, which exits, leaves the old state.
- IBC wiring, command line, simulation stubs, queries: no state or no behaviour
  of their own.

## Plan

Done: `LegacyDec`, `TrustDeposit` with `YieldClaim`; `Whitelist`,
`ValidatorRegistry`, `MultiNode`, `Testnet`; `Council`; `Distribution`,
`HeightZero`; the codecs; the proofs above. What is left, in order of importance:

1. `Chain`: `Council` and `TrustDeposit` with parameter proposals, where a proposal
   drafted before later deposits overwrites `trust_deposit_value`.
2. `HeightZero`, the rest of the export: creation heights of unbondings and
   redelegations, which decide what a later slash may take, and new delegations.
3. The in-place testnet of `testnet.go`.
4. The accuracy of a block's yield: how far `PerBlockYield` may be from the exact
   quotient, from `RoundHalfEvenNearest`.
