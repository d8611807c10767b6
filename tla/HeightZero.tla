----------------------------- MODULE HeightZero -----------------------------
(***************************************************************************)
(* An export for height zero (app/export.go): the chain stops, pays out    *)
(* what it owes its validators and delegators, starts their accounts of    *)
(* rewards afresh, and a new chain starts from that genesis at height 0.   *)
(* The chain before and after it earns, slashes and withdraws rewards;     *)
(* only the export withdraws commissions.                                  *)
(*                                                                         *)
(* The heights of unbondings, redelegations and signing infos, which the   *)
(* export sets to zero as well, are not modelled.                          *)
(***************************************************************************)
EXTENDS Distribution

CONSTANTS
    Fees,            \* the coins of fees there are
    BlockFees,       \* what a block may collect of them
    SlashAmounts,    \* the tokens a slash may ask for
    AllowedLists,    \* the lists of validators not to jail an export is given
    MaxValidators,   \* of x/staking: the validators that are bonded
    PowerReduction,  \* of x/staking: the tokens to a unit of power
    AddressOf,       \* the order of the validators' addresses
    MaxHeight        \* bound: the height of a chain

ASSUME HeightZeroAssumption ==
    /\ Fees \in Nat
    /\ BlockFees \subseteq Nat
    /\ SlashAmounts \subseteq Nat
    /\ AllowedLists \subseteq SUBSET Validators
    /\ MaxValidators \in Nat \ {0}
    /\ PowerReduction \in Nat \ {0}
    /\ AddressOf \in [Validators -> Nat]
    /\ \A v, w \in Validators : AddressOf[v] = AddressOf[w] => v = w
    /\ MaxHeight \in Nat
    \* so few tokens that FractionOf is exact
    /\ \A v \in Validators : TotalShares(v) <= One
    \* room for the first periods of a chain, and for an export after them
    /\ \A v \in Validators : 2 * Cardinality(DelegationsTo(v)) < MaxPeriod

VARIABLES
    store,   \* the distribution module's, with the validators' tokens
    fees,    \* coins of fees not yet paid
    jailed,  \* validators out of the power index
    height,
    stopped  \* why the export panicked, "" if it did not

vars == <<store, fees, jailed, height, stopped>>

\* The bound on periods leaves room for an export.
Room(v) == store.validators[v].period + Cardinality(DelegationsTo(v)) < MaxPeriod

Running == stopped = "" /\ ~ store.panic

-----------------------------------------------------------------------------
(* The chain. *)

\* Distribution, and then slashing, begin a block.
BeginBlock ==
    /\ Running
    /\ height < MaxHeight
    /\ height' = height + 1
    /\ \E v \in Validators, n \in BlockFees :
          /\ n <= fees
          /\ fees' = fees - n
          /\ \/ /\ store' = Allocate(store, v, n)
                /\ UNCHANGED jailed
             \/ \E w \in Validators, amount \in SlashAmounts :
                   /\ Room(w)
                   /\ store' = Slash(Allocate(store, v, n), w, amount, height')
                   /\ jailed' = jailed \cup {w}
    /\ UNCHANGED stopped

Withdraw(d) ==
    /\ Running
    /\ height > 0
    /\ Room(ValidatorOf[d])
    /\ store' = WithdrawRewards(store, d, height)
    /\ UNCHANGED <<fees, jailed, height, stopped>>

Unjail(v) ==
    /\ Running
    /\ height > 0
    /\ v \in jailed
    /\ store.validators[v].tokens > 0
    /\ jailed' = jailed \ {v}
    /\ UNCHANGED <<store, fees, height, stopped>>

-----------------------------------------------------------------------------
(* prepForZeroHeightGenesis. *)

\* The commissions of all validators.
WithdrawCommissions(s) ==
    FoldSet(LAMBDA v, t : WithdrawCommission(t, v), s, Validators)

\* The rewards of all delegations.
WithdrawAllRewards(s) ==
    FoldSet(LAMBDA d, t : WithdrawRewards(t, d, height), s, Delegations)

\* Faulty variant, rejected by a run: the commissions are forgotten.
WithdrawRewardsOnly(s) == WithdrawAllRewards(s)

WithdrawEverything(s) == WithdrawAllRewards(WithdrawCommissions(s))

\* Faulty variant: the slash events stay.
ForgetHistoryOnly(s) ==
    [s EXCEPT !.validators =
        [v \in Validators |-> [@[v] EXCEPT !.history = [p \in Periods |-> Absent]]]]

\* The slash events and the history of every validator.
ForgetHistory(s) ==
    [s EXCEPT !.validators =
        [v \in Validators |->
            [@[v] EXCEPT !.slashes = [p \in Periods |-> NoSlash],
                         !.history = [p \in Periods |-> Absent]]]]

\* Faulty variants: the commission of a part of a coin is kept, or what is
\* outstanding is read after it is reset.
ReinitializeKeepsCommission(s) ==
    FoldSet(LAMBDA v, t :
               [InitializeValidator(
                   [t EXCEPT !.community = @ + t.validators[v].outstanding], v)
                  EXCEPT !.validators[v].commission = t.validators[v].commission],
            s, Validators)

DonateAfterReset(s) ==
    FoldSet(LAMBDA v, t :
               LET u == InitializeValidator(t, v)
               IN  [u EXCEPT !.community = @ + u.validators[v].outstanding],
            s, Validators)

\* What is still outstanding is the community's, and each validator starts anew.
ReinitializeValidators(s) ==
    FoldSet(LAMBDA v, t :
               InitializeValidator(
                   [t EXCEPT !.community = @ + t.validators[v].outstanding], v),
            s, Validators)

\* Each delegation ends a period and counts from there.
Delegated(s, from) ==
    FoldSet(LAMBDA d, t :
               InitializeDelegation(IncrementPeriod(t, ValidatorOf[d]), d, from),
            s, Delegations)

\* Faulty variants: the height is not set to zero first, or no period ends.
ReinitializeAtHeight(s) == Delegated(s, height)

ReinitializeInOnePeriod(s) ==
    FoldSet(LAMBDA d, t : InitializeDelegation(t, d, 0), s, Delegations)

ReinitializeDelegations(s) == Delegated(s, 0)

PreparedStore ==
    ReinitializeDelegations(ReinitializeValidators(ForgetHistory(
        WithdrawEverything(store))))

\* A list that is not empty jails all others.
JailedBy(allowed) ==
    IF allowed = {} THEN jailed ELSE jailed \cup (Validators \ allowed)

\* The power index: validators not jailed before the export, by their power and
\* then by address.
Power(v) == store.validators[v].tokens \div PowerReduction

Ahead(v) ==
    {w \in Validators \ jailed :
        \/ Power(w) > Power(v)
        \/ Power(w) = Power(v) /\ AddressOf[w] < AddressOf[v]}

\* Applying the changes to the validator set walks the index up to the last that
\* may be bonded, or the first without power.
Reached(v) ==
    /\ Cardinality(Ahead(v)) < MaxValidators
    /\ \A w \in Ahead(v) : Power(w) > 0

\* A validator the export jails stays in the index until then, and the walk
\* panics when it finds it there.
ApplyPanics(allowed) == \E v \in JailedBy(allowed) \ jailed : Reached(v)

\* The chain stops and starts again from the export, or the command panics.
Export(allowed) ==
    /\ Running
    /\ height > 0
    /\ IF ApplyPanics(allowed)
       THEN /\ stopped' = "jailed validator in the power index"
            /\ UNCHANGED <<store, jailed, height>>
       ELSE /\ store' = PreparedStore
            /\ jailed' = JailedBy(allowed)
            /\ height' = 0
            /\ UNCHANGED stopped
    /\ UNCHANGED fees

-----------------------------------------------------------------------------

NewStore ==
    [validators |->
        [v \in Validators |->
            [tokens      |-> TotalShares(v),
             outstanding |-> 0,
             commission  |-> 0,
             current     |-> 0,
             period      |-> 1,
             history     |-> [p \in Periods |-> IF p = 0 THEN [ratio |-> 0, refs |-> 1]
                                                ELSE Absent],
             slashes     |-> [p \in Periods |-> NoSlash]]],
     infos     |-> [d \in Delegations |-> [period |-> 0, stake |-> 0, height |-> 0]],
     community |-> 0,
     balance   |-> 0,
     wallets   |-> [o \in Owners |-> 0],
     panic     |-> FALSE]

Init ==
    /\ store = Delegated(NewStore, 0)
    /\ fees = Fees
    /\ jailed = {}
    /\ height = 0
    /\ stopped = ""

Next ==
    \/ BeginBlock
    \/ \E d \in Delegations : Withdraw(d)
    \/ \E v \in Validators : Unjail(v)
    \/ \E allowed \in AllowedLists : Export(allowed)

Spec == Init /\ [][Next]_vars

-----------------------------------------------------------------------------
(* What is expected of an export. *)

\* Amounts and counts keep their ranges: no entry of the history is ever needed
\* by more than two, since each delegation ends a period first (export.go:159).
TypeOK ==
    /\ store \in StoreType
    /\ fees \in 0..Fees
    /\ jailed \subseteq Validators
    /\ height \in 0..MaxHeight
    /\ stopped \in {"", "jailed validator in the power index"}

\* Nothing panics, in the export or on the chain that starts from it: not the
\* check of a stake against the slashes since its height, nor a count of
\* references.  The heights and periods of the old chain must all be gone.
NoPanic == ~ store.panic

\* The account of the module holds exactly what is outstanding and the
\* community's: what the export reads and resets is not lost (export.go:126).
AccountHoldsAll ==
    DecFromInt(store.balance) =
        store.community
            + SumFunction([v \in Validators |-> store.validators[v].outstanding])

\* The history's references are one for each validator, delegation and slash,
\* so it keeps what is needed and nothing else (export.go:109).
ReferencesMatch ==
    \A v \in Validators :
        SumFunction([p \in Periods |-> store.validators[v].history[p].refs]) =
            1 + Cardinality(DelegationsTo(v))
              + Cardinality({p \in Periods : store.validators[v].slashes[p] # NoSlash})

\* Outstanding covers the whole coins all of a validator's delegations would be
\* paid and its commission.
OutstandingCovers ==
    \A v \in Validators :
        store.validators[v].commission
            + SumFunction([d \in DelegationsTo(v) |-> DecFromInt(Pending(store, d, height))])
            <= store.validators[v].outstanding

\* The export pays each delegation and each validator the coins a query would
\* have told it, though every payment it makes before that one ends a period and
\* takes from what is outstanding (export.go:76).
ExportPaysPending ==
    [][ height' < height =>
          /\ \A d \in Delegations :
                store'.wallets[d] = store.wallets[d] + Pending(store, d, height)
          /\ \A v \in Validators :
                store'.wallets[v] =
                    store.wallets[v] + TruncateInt(store.validators[v].commission)
      ]_vars

=============================================================================
