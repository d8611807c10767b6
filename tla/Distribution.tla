---------------------------- MODULE Distribution ----------------------------
(***************************************************************************)
(* Fees and who they belong to: x/distribution, as far as the export of a  *)
(* genesis at height zero drives it (app/export.go).  All of it is         *)
(* external.  A validator's rewards are divided in periods; the history    *)
(* keeps what one token earned up to the end of a period, with a count of  *)
(* who still needs it, and a delegation remembers the period, the stake    *)
(* and the height it counts from.  A slash in between is an event.         *)
(*                                                                         *)
(* Fees are one denomination.  Amounts are units of 1/One, but for tokens, *)
(* wallets and the account's balance, which are whole.  A panic is         *)
(* recorded, and what the operator returns after it is of no interest.     *)
(***************************************************************************)
EXTENDS LegacyDec, FiniteSetsExt

CONSTANTS
    Validators,
    Delegations,
    ValidatorOf,     \* the validator of each delegation
    Shares,          \* the shares of each delegation
    CommissionRate,  \* in units of 1/One
    MaxPeriod        \* bound: the periods of a validator

ASSUME DistributionAssumption ==
    /\ IsFiniteSet(Validators)
    /\ IsFiniteSet(Delegations)
    /\ Delegations \cap Validators = {}   \* a wallet each
    /\ ValidatorOf \in [Delegations -> Validators]
    /\ Shares \in [Delegations -> Nat \ {0}]
    /\ CommissionRate \in 0..One
    /\ MaxPeriod \in Nat \ {0}

Periods == 0..MaxPeriod
Owners == Delegations \cup Validators

DelegationsTo(v) == {d \in Delegations : ValidatorOf[d] = v}
TotalShares(v) == SumFunctionOnSet(Shares, DelegationsTo(v))

\* An entry of the history that is not there, and no slash event.
Absent == [ratio |-> 0, refs |-> 0]
NoSlash == [height |-> 0, fraction |-> 0]

ValidatorRecord == [tokens      : Nat,
                    outstanding : Nat,
                    commission  : Nat,
                    current     : Nat,   \* rewards of the period
                    period      : Periods,
                    history     : [Periods -> [ratio : Nat, refs : 0..2]],
                    slashes     : [Periods -> [height : Nat, fraction : 0..One]]]

StartingInfo == [period : Periods, stake : Nat, height : Nat]

StoreType == [validators : [Validators -> ValidatorRecord],
              infos      : [Delegations -> StartingInfo],
              community  : Nat,
              balance    : Nat,   \* of the module's account
              wallets    : [Owners -> Nat],
              panic      : BOOLEAN]

-----------------------------------------------------------------------------

\* One reference less, and the entry goes with the last.
Dereferenced(entry) == IF entry.refs <= 1 THEN Absent
                       ELSE [entry EXCEPT !.refs = @ - 1]

\* IncrementValidatorPeriod: what a token earned in the period goes into the
\* history.  A validator with no tokens leaves its rewards to the community.
IncrementPeriod(s, v) ==
    LET val    == s.validators[v]
        last   == val.period - 1
        earned == IF val.tokens = 0 THEN 0 ELSE val.current \div val.tokens
        lost   == IF val.tokens = 0 THEN val.current ELSE 0
        entry  == [ratio |-> val.history[last].ratio + earned, refs |-> 1]
    IN  [s EXCEPT
           !.community = @ + lost,
           !.validators[v] =
               [val EXCEPT !.outstanding = @ - lost,
                           !.current = 0,
                           !.period = @ + 1,
                           !.history[last] = Dereferenced(@),
                           !.history[val.period] = entry],
           !.panic = @ \/ val.history[last].refs = 0]

\* The tokens a delegation is worth, cut to the precision,
StakeOf(s, d) ==
    LET v == ValidatorOf[d]
    IN  (Shares[d] * s.validators[v].tokens * One) \div TotalShares(v)

\* and rounded.
CurrentStake(s, d) ==
    LET v == ValidatorOf[d]
    IN  DecQuo(DecFromInt(Shares[d] * s.validators[v].tokens),
               DecFromInt(TotalShares(v)))

\* initializeDelegation: it counts from the last period that ended.
InitializeDelegation(s, d, height) ==
    LET v    == ValidatorOf[d]
        last == s.validators[v].period - 1
    IN  [s EXCEPT
           !.validators[v].history[last].refs = @ + 1,
           !.infos[d] = [period |-> last, stake |-> StakeOf(s, d), height |-> height],
           !.panic = @ \/ s.validators[v].history[last].refs > 2]

\* A slash at the end of a period, since the delegation counts.
TookSlash(s, d, p, height) ==
    LET event == s.validators[ValidatorOf[d]].slashes[p]
        since == s.infos[d].height
    IN  /\ event.fraction > 0
        /\ since < height
        /\ event.height \in since..height

\* What a stake earned between the ends of two periods.
Earned(s, v, from, to, stake) ==
    LET history == s.validators[v].history
    IN  ((history[to].ratio - history[from].ratio) * stake) \div One

\* From the period a delegation counts from to the end of another: what the
\* slashes in between left of the stake, what it earned up to the last of them,
\* and from where it earns.
Through(s, d, ending, height) ==
    LET v     == ValidatorOf[d]
        start == s.infos[d].period
        walk[p \in start..ending] ==
            IF p = start
            THEN [from |-> p, stake |-> s.infos[d].stake, rewards |-> 0]
            ELSE IF TookSlash(s, d, p, height)
            THEN [from    |-> p,
                  stake   |-> (walk[p - 1].stake
                                 * (One - s.validators[v].slashes[p].fraction)) \div One,
                  rewards |-> walk[p - 1].rewards
                                 + Earned(s, v, walk[p - 1].from, p, walk[p - 1].stake)]
            ELSE walk[p - 1]
    IN  walk[ending]

\* CalculateDelegationRewards up to the end of a period.  The stake it arrives at
\* is checked against the delegation's; a difference of a few units is rounding
\* and a greater one panics.
RewardsOf(s, d, ending, height) ==
    LET end   == Through(s, d, ending, height)
        stake == IF end.stake <= CurrentStake(s, d) THEN end.stake ELSE CurrentStake(s, d)
    IN  IF s.infos[d].height = height
        THEN [rewards |-> 0, panic |-> FALSE]
        ELSE [rewards |-> end.rewards + Earned(s, ValidatorOf[d], end.from, ending, stake),
              panic   |-> end.stake > CurrentStake(s, d) + 3]

\* A delegation is paid its rewards, as far as they are outstanding, and lets go
\* of the period it counted from.  A part of a coin goes to the community.
Paid(s, d, calc) ==
    LET v     == ValidatorOf[d]
        val   == s.validators[v]
        owed  == IF calc.rewards <= val.outstanding THEN calc.rewards ELSE val.outstanding
        start == s.infos[d].period
    IN  [s EXCEPT
           !.wallets[d] = @ + TruncateInt(owed),
           !.balance = @ - TruncateInt(owed),
           !.community = @ + owed - DecFromInt(TruncateInt(owed)),
           !.validators[v] = [val EXCEPT !.outstanding = @ - owed,
                                         !.history[start] = Dereferenced(@)],
           !.panic = @ \/ calc.panic \/ val.history[start].refs = 0]

\* WithdrawDelegationRewards: the period ends, and the delegation counts from there.
WithdrawRewards(s, d, height) ==
    LET v     == ValidatorOf[d]
        ended == IncrementPeriod(s, v)
        calc  == RewardsOf(ended, d, ended.validators[v].period - 1, height)
    IN  InitializeDelegation(Paid(ended, d, calc), d, height)

\* WithdrawValidatorCommission.  A part of a coin stays.
WithdrawCommission(s, v) ==
    LET coins == TruncateInt(s.validators[v].commission)
    IN  [s EXCEPT
           !.wallets[v] = @ + coins,
           !.balance = @ - coins,
           !.validators[v].commission = @ - DecFromInt(coins),
           !.validators[v].outstanding = @ - DecFromInt(coins)]

\* AfterValidatorCreated: nothing earned, nothing owed, period one.
InitializeValidator(s, v) ==
    [s EXCEPT !.validators[v] =
        [@ EXCEPT !.history[0] = [ratio |-> 0, refs |-> 1],
                  !.period = 1,
                  !.current = 0,
                  !.commission = 0,
                  !.outstanding = 0]]

\* AllocateTokensToValidator, with fees that have come to the account.
Allocate(s, v, coins) ==
    LET val == s.validators[v]
    IN  [s EXCEPT
           !.balance = @ + coins,
           !.validators[v] = [val EXCEPT !.commission = @ + coins * CommissionRate,
                                         !.current = @ + coins * (One - CommissionRate),
                                         !.outstanding = @ + DecFromInt(coins)]]

\* The part of the tokens that is burned, rounded up.  The quotient is cut to twice
\* the precision first, which up to One tokens makes no difference.
FractionOf(burned, tokens) == (burned * One + tokens - 1) \div tokens

\* Tokens are burned: the period ends with an event of their part of the
\* validator's, which keeps the history's entry, and then they go.
Slashed(s, v, burned, height) ==
    LET ended == IncrementPeriod(s, v)
        val   == ended.validators[v]
        at    == s.validators[v].period
    IN  [ended EXCEPT
           !.validators[v] =
               [val EXCEPT !.history[at].refs = @ + 1,
                           !.slashes[at] = [height   |-> height,
                                            fraction |-> FractionOf(burned, val.tokens)],
                           !.tokens = @ - burned]]

\* Slash: a validator loses no more than it has, and losing nothing is no event.
Slash(s, v, amount, height) ==
    LET tokens == s.validators[v].tokens
        burned == IF amount <= tokens THEN amount ELSE tokens
    IN  IF burned = 0 THEN s ELSE Slashed(s, v, burned, height)

\* What a query says a delegation would be paid, in whole coins.
Pending(s, d, height) ==
    LET v     == ValidatorOf[d]
        ended == IncrementPeriod(s, v)
    IN  TruncateInt(RewardsOf(ended, d, ended.validators[v].period - 1, height).rewards)

=============================================================================
