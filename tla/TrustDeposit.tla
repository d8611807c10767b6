---------------------------- MODULE TrustDeposit ----------------------------
(***************************************************************************)
(* The trust deposit module, x/td.  Each block it owes the td account a    *)
(* yield on params.trust_deposit_value.  Whole coins are moved out of the  *)
(* verana_pool account, the part of a coin is carried to the next block as *)
(* dust, and what is left in verana_pool goes back to the protocol pool.   *)
(* Anyone may fund a module account, and a deposit into td raises the      *)
(* trust deposit value.                                                    *)
(*                                                                         *)
(* The accounts the module never looks at are one account, "users"; the    *)
(* community pool and its escrow are "protocolpool".  Only uvna is         *)
(* modelled.  A transaction that fails changes nothing here, so it is a    *)
(* stuttering step and every handler's early return is a guard.            *)
(***************************************************************************)
EXTENDS LegacyDec

CONSTANTS
    BlocksPerYear,  \* 6311520 in the code
    Word,           \* 2^64: the values of a uint64
    Rates,          \* yield rates a genesis or a proposal may carry
    Values,         \* trust deposit values a genesis or a proposal may carry
    Amounts,        \* amounts a message may carry
    Supply          \* the coins there are

ASSUME TrustDepositAssumption ==
    /\ BlocksPerYear \in Nat \ {0}
    /\ Word \in Nat /\ Word > 1
    /\ Rates \subseteq Int
    /\ Values \subseteq 0..(Word - 1)
    /\ Amounts \subseteq Nat
    /\ Supply \in Nat

VARIABLES
    bank,    \* the uvna balance of each account
    params,  \* the module's parameters, but for the share value nothing reads
    dust,    \* the part of a coin owed to td, in units of 1/One
    stage    \* which part of the block is next

vars == <<bank, params, dust, stage>>

Modules == {"verana_pool", "td", "protocolpool"}
Accounts == {"users"} \cup Modules
Stages == {"protocolpool", "td", "deliver"}

AllCoins(b) == b["users"] + b["verana_pool"] + b["td"] + b["protocolpool"]

Moved(b, from, to, n) == [b EXCEPT ![from] = @ - n, ![to] = @ + n]

-----------------------------------------------------------------------------
(* The yield of a block.  The code casts the uint64 value to int64. *)

AsInt64(v) == IF 2 * v < Word THEN v ELSE v - Word

PerBlockYield(p) ==
    LET annualYield == DecMul(DecFromInt(AsInt64(p.value)), p.rate)
    IN  DecQuo(annualYield, DecFromInt(BlocksPerYear))

\* Faulty variants, each rejected by a run: the whole total stays in the dust
\* after a payment,
PayAndKeepDust ==
    LET total    == dust + PerBlockYield(params)
        transfer == TruncateInt(total)
    IN  [bank |-> IF total >= One /\ bank["verana_pool"] >= transfer
                  THEN Moved(bank, "verana_pool", "td", transfer) ELSE bank,
         dust |-> total]

\* a payment clears the dust,
PayAndResetDust ==
    LET total    == dust + PerBlockYield(params)
        transfer == TruncateInt(total)
    IN  IF total >= One /\ bank["verana_pool"] >= transfer
        THEN [bank |-> Moved(bank, "verana_pool", "td", transfer), dust |-> 0]
        ELSE [bank |-> bank, dust |-> IF total < One THEN total ELSE dust]

\* the pool's balance is not looked at,
PayUnchecked ==
    LET total    == dust + PerBlockYield(params)
        transfer == TruncateInt(total)
    IN  IF total < One
        THEN [bank |-> bank, dust |-> total]
        ELSE [bank |-> Moved(bank, "verana_pool", "td", transfer),
              dust |-> total - DecFromInt(transfer)]

\* or a pool that holds just enough does not pay.
PayBelowBalance ==
    LET total    == dust + PerBlockYield(params)
        transfer == TruncateInt(total)
    IN  IF total < One
        THEN [bank |-> bank, dust |-> total]
        ELSE IF bank["verana_pool"] <= transfer
        THEN [bank |-> bank, dust |-> dust]
        ELSE [bank |-> Moved(bank, "verana_pool", "td", transfer),
              dust |-> total - DecFromInt(transfer)]

\* The balances and the dust after SendFundsFromVeranaPool.  A pool that is
\* short returns before the dust is stored.
SendFundsFromVeranaPool ==
    LET total    == dust + PerBlockYield(params)
        transfer == TruncateInt(total)
    IN  CASE total < One ->
                 [bank |-> bank, dust |-> total]
          [] total >= One /\ bank["verana_pool"] < transfer ->
                 [bank |-> bank, dust |-> dust]
          [] total >= One /\ bank["verana_pool"] >= transfer ->
                 [bank |-> Moved(bank, "verana_pool", "td", transfer),
                  dust |-> total - DecFromInt(transfer)]

\* A faulty variant: nothing is sent back.
SendNothingBack(b) == b

SendFundsBackToCommunityPool(b) ==
    Moved(b, "verana_pool", "protocolpool", b["verana_pool"])

-----------------------------------------------------------------------------

\* Before td in a block, the protocol pool pays its continuous funds.
ProtocolPoolBeginBlock ==
    /\ stage = "protocolpool"
    /\ \E n \in Amounts \cup {0} :
          /\ n <= bank["protocolpool"]
          /\ bank' = Moved(bank, "protocolpool", "verana_pool", n)
    /\ stage' = "td"
    /\ UNCHANGED <<params, dust>>

BeginBlocker ==
    /\ stage = "td"
    /\ bank' = SendFundsBackToCommunityPool(SendFundsFromVeranaPool.bank)
    /\ dust' = SendFundsFromVeranaPool.dust
    /\ stage' = "deliver"
    /\ UNCHANGED params

\* Faulty variants: a deposit the sender does not have, and a deposit into any
\* module counted as a trust deposit.
FundModuleUnfunded(module, amount) ==
    /\ stage = "deliver"
    /\ bank' = Moved(bank, "users", module, amount)
    /\ params' = IF module = "td"
                 THEN [params EXCEPT !.value = (@ + amount) % Word]
                 ELSE params
    /\ UNCHANGED <<dust, stage>>

FundModuleCountsAll(module, amount) ==
    /\ stage = "deliver"
    /\ amount <= bank["users"]
    /\ bank' = Moved(bank, "users", module, amount)
    /\ params' = [params EXCEPT !.value = (@ + amount) % Word]
    /\ UNCHANGED <<dust, stage>>

\* MsgFundModule.  A negative amount panics in sdk.NewCoin, and the
\* transaction fails.
FundModule(module, amount) ==
    /\ stage = "deliver"
    /\ amount <= bank["users"]
    /\ bank' = Moved(bank, "users", module, amount)
    /\ params' = IF module = "td"
                 THEN [params EXCEPT !.value = (@ + amount) % Word]
                 ELSE params
    /\ UNCHANGED <<dust, stage>>

\* MsgUpdateParams from the authority.  It replaces all the parameters, and
\* their Validate accepts any.
UpdateParams(p) ==
    /\ stage = "deliver"
    /\ params' = p
    /\ UNCHANGED <<bank, dust, stage>>

\* The rest of the chain: a bank send to a module account, which
\* blockAccAddrs does not forbid, and a spend of the community pool.  That td
\* and verana_pool never send is an assumption: it takes a chain that checks
\* who signed a message, and the decorators of NewAnteHandler do not.
BankTransfer(from, to, n) ==
    /\ stage = "deliver"
    /\ n <= bank[from]
    /\ bank' = Moved(bank, from, to, n)
    /\ UNCHANGED <<params, dust, stage>>

EndBlock ==
    /\ stage = "deliver"
    /\ stage' = "protocolpool"
    /\ UNCHANGED <<bank, params, dust>>

\* The chain stops after a block and starts again from its exported genesis,
\* which carries the params and not the dust.
ExportImport ==
    /\ stage = "protocolpool"
    /\ dust' = 0
    /\ UNCHANGED <<bank, params, stage>>

-----------------------------------------------------------------------------

AllParams == [value : Values, rate : Rates]

Init ==
    /\ bank \in [Accounts -> 0..Supply]
    /\ AllCoins(bank) = Supply
    /\ params \in AllParams
    /\ dust = 0
    /\ stage = "protocolpool"

Next ==
    \/ ProtocolPoolBeginBlock
    \/ BeginBlocker
    \/ \E m \in Modules, n \in Amounts : FundModule(m, n)
    \/ \E p \in AllParams : UpdateParams(p)
    \/ \E from \in {"users", "protocolpool"}, n \in Amounts :
          \E to \in Accounts \ {from} : BankTransfer(from, to, n)
    \/ EndBlock
    \/ ExportImport

\* Consensus keeps making blocks, so each part of a block is reached; no
\* message is ever owed to the chain.
Fairness == /\ WF_vars(ProtocolPoolBeginBlock)
            /\ WF_vars(BeginBlocker)
            /\ WF_vars(EndBlock)

Spec == Init /\ [][Next]_vars
FairSpec == Spec /\ Fairness

-----------------------------------------------------------------------------
(* What is expected of the module. *)

\* What td owns or is owed, and the promise made about it.
ClaimOf(b, d) == b["td"] * One + d

Claim == INSTANCE YieldClaim
            WITH claim <- ClaimOf(bank, dust), yield <- PerBlockYield(params)

\* With sane parameters the depositors' claim changes only as YieldClaim says:
\* paying, rounding, sweeping and every other step of the chain are neutral.
ClaimKept == Claim!Spec

\* Deposit values stay where int64(params.TrustDepositValue) is exact, and no
\* rate is negative: what a sane genesis and governance guarantee, and no
\* line of the code does.
SaneParams ==
    /\ Rates \subseteq Nat
    /\ \A v \in Values : 2 * (v + Supply) < Word

\* Balances never go below zero and parameters stay in their types.
TypeOK ==
    /\ bank \in [Accounts -> Nat]
    /\ params \in [value : 0..(Word - 1), rate : Rates]
    /\ dust \in Int
    /\ stage \in Stages

\* With sane parameters the dust is a proper fraction of a coin.
DustIsFraction == SaneParams => dust \in 0..(One - 1)

\* The part of the trust deposit value that governance did not set is backed
\* by coins in the td account: FundModule counts a deposit only when td got it.
ValueBacked ==
    SaneParams => \E v \in Values : params.value <= v + bank["td"]

\* Whenever the pool can pay the whole coins due, BeginBlocker pays exactly
\* those: at the threshold, and when the payment empties the pool.
PaysWhenFunded ==
    [][ stage = "td" =>
          LET due == TruncateInt(dust + PerBlockYield(params))
          IN  0 <= due /\ due <= bank["verana_pool"]
                => bank'["td"] = bank["td"] + due ]_vars

\* BeginBlocker leaves verana_pool empty, and what it pays out of it never
\* comes from a user or from the community's coins.
PoolSettled ==
    [][ stage = "td" =>
          /\ bank'["verana_pool"] = 0
          /\ bank'["users"] = bank["users"]
          /\ bank'["protocolpool"] >= bank["protocolpool"] ]_vars

\* Coins put into verana_pool, by a message or a continuous fund, do not stay.
PoolDrains == bank["verana_pool"] > 0 ~> bank["verana_pool"] = 0

-----------------------------------------------------------------------------
(* What the repository says and the code does not do. *)

\* "Not enough funds in verana pool, skip transfer" (abci.go:75): the transfer
\* is skipped, and the yield "added to accumulated dust" (abci.go:54) is kept.
ShortPoolKeepsYield ==
    [][ stage = "td" =>
          ClaimOf(bank', dust') = ClaimOf(bank, dust) + PerBlockYield(params) ]_vars

\* TestAppImportExport (sim_test.go:276): no store differs after an export and
\* an import of its genesis.
ExportKeepsState == [][ ExportImport => UNCHANGED <<params, dust>> ]_vars

=============================================================================
