-------------------------- MODULE TrustDepositProofs --------------------------
(***************************************************************************)
(* Proofs about TrustDeposit, for every scale, year, word size, supply and *)
(* choice of parameters.                                                   *)
(***************************************************************************)
EXTENDS TrustDeposit, LegacyDecProofs

USE TrustDepositAssumption, OneAssumption

-----------------------------------------------------------------------------
(* The yield of a block. *)

LEMMA AsInt64Int ==
    ASSUME NEW v \in 0..(Word - 1)
    PROVE  /\ AsInt64(v) \in Int
           /\ 2 * v < Word => AsInt64(v) = v
  BY DEF AsInt64

LEMMA PerBlockYieldInt ==
    ASSUME NEW p \in [value : 0..(Word - 1), rate : Rates]
    PROVE  /\ PerBlockYield(p) \in Int
           /\ p.rate >= 0 /\ 2 * p.value < Word => PerBlockYield(p) \in Nat
<1> DEFINE v == AsInt64(p.value)
           a == DecMul(DecFromInt(v), p.rate)
           b == DecFromInt(BlocksPerYear)
<1>1. /\ p.value \in 0..(Word - 1)
      /\ p.rate \in Int
  OBVIOUS
<1>2. /\ v \in Int
      /\ 2 * p.value < Word => v >= 0
  BY <1>1, AsInt64Int
<1>3. /\ DecFromInt(v) \in Int
      /\ v >= 0 => DecFromInt(v) >= 0
  BY <1>2 DEF DecFromInt
<1>4. /\ a \in Int
      /\ v >= 0 /\ p.rate >= 0 => a \in Nat
  BY <1>1, <1>3, DecMulInt
<1>5. b \in Nat \ {0}
  BY DEF DecFromInt
<1>6. /\ DecQuo(a, b) \in Int
      /\ a >= 0 => DecQuo(a, b) \in Nat
  BY <1>4, <1>5, DecQuoInt
<1>. QED
  BY <1>2, <1>4, <1>6 DEF PerBlockYield

\* What SendFundsFromVeranaPool returns: what it takes from the pool td gets,
\* it leaves no whole coin in the dust it stores, and unless the pool is short
\* the two together grow by the yield.
LEMMA PaymentSafe ==
    ASSUME TypeOK
    PROVE  LET y == SendFundsFromVeranaPool
           IN  /\ y.bank \in [Accounts -> Nat]
               /\ AllCoins(y.bank) = AllCoins(bank)
               /\ y.bank["users"] = bank["users"]
               /\ y.bank["protocolpool"] = bank["protocolpool"]
               /\ y.bank["td"] >= bank["td"]
               /\ y.dust \in Int
               /\ y.dust < One \/ y.dust = dust
               /\ dust >= 0 /\ PerBlockYield(params) >= 0 => y.dust >= 0
               /\ \/ ClaimOf(y.bank, y.dust) =
                        ClaimOf(bank, dust) + PerBlockYield(params)
                  \/ y.bank = bank /\ y.dust = dust
<1> DEFINE y == SendFundsFromVeranaPool
           total == dust + PerBlockYield(params)
           transfer == TruncateInt(total)
<1>1. /\ PerBlockYield(params) \in Int
      /\ total \in Int
      /\ bank \in [Accounts -> Nat]
      /\ dust \in Int
  BY PerBlockYieldInt DEF TypeOK
<1>2. {"users", "verana_pool", "td", "protocolpool"} \subseteq Accounts
  BY DEF Accounts, Modules
<1>3. CASE total < One
  <2>1. y = [bank |-> bank, dust |-> total]
    BY <1>1, <1>3 DEF SendFundsFromVeranaPool
  <2>. QED
    BY <1>1, <1>2, <1>3, <2>1 DEF ClaimOf
<1>4. CASE total >= One
  <2>1. /\ transfer \in Nat
        /\ total - DecFromInt(transfer) \in 0..(One - 1)
        /\ transfer >= 1
    BY <1>1, <1>4, TruncateIntWhole
  <2>2. CASE bank["verana_pool"] < transfer
    <3>1. y = [bank |-> bank, dust |-> dust]
      BY <1>1, <1>2, <1>4, <2>1, <2>2 DEF SendFundsFromVeranaPool
    <3>. QED
      BY <1>1, <1>2, <3>1
  <2>3. CASE bank["verana_pool"] >= transfer
    <3>1. y = [bank |-> Moved(bank, "verana_pool", "td", transfer),
               dust |-> total - DecFromInt(transfer)]
      BY <1>1, <1>2, <1>4, <2>1, <2>3 DEF SendFundsFromVeranaPool
    <3>2. /\ y.bank \in [Accounts -> Nat]
          /\ y.bank["users"] = bank["users"]
          /\ y.bank["protocolpool"] = bank["protocolpool"]
          /\ y.bank["td"] = bank["td"] + transfer
          /\ y.bank["verana_pool"] = bank["verana_pool"] - transfer
      BY <1>1, <1>2, <2>1, <2>3, <3>1 DEF Moved
    <3>3. AllCoins(y.bank) = AllCoins(bank)
      BY <1>1, <1>2, <2>1, <3>2 DEF AllCoins
    <3>4. y.dust = total - transfer * One
      BY <3>1 DEF DecFromInt
    <3>5. (bank["td"] + transfer) * One = bank["td"] * One + transfer * One
      BY <1>1, <1>2, <2>1
    <3>6. ClaimOf(y.bank, y.dust) = ClaimOf(bank, dust) + PerBlockYield(params)
      BY <1>1, <1>2, <2>1, <3>2, <3>4, <3>5 DEF ClaimOf
    <3>. QED
      BY <1>1, <1>2, <2>1, <3>1, <3>2, <3>3, <3>6
  <2>. QED
    BY <1>1, <1>2, <2>1, <2>2, <2>3
<1>. QED
  BY <1>1, <1>3, <1>4

-----------------------------------------------------------------------------
(* What a move of coins does. *)

\* A move of coins an account has keeps every balance a natural number, keeps
\* their sum, and touches two accounts.
LEMMA MoveSafe ==
    ASSUME NEW b \in [Accounts -> Nat],
           NEW from \in Accounts, NEW to \in Accounts \ {from},
           NEW n \in Nat, n <= b[from]
    PROVE  /\ Moved(b, from, to, n) \in [Accounts -> Nat]
           /\ AllCoins(Moved(b, from, to, n)) = AllCoins(b)
           /\ Moved(b, from, to, n)[from] = b[from] - n
           /\ Moved(b, from, to, n)[to] = b[to] + n
           /\ \A a \in Accounts \ {from, to} : Moved(b, from, to, n)[a] = b[a]
<1> DEFINE m == Moved(b, from, to, n)
<1>1. /\ m \in [Accounts -> Nat]
      /\ m[from] = b[from] - n
      /\ m[to] = b[to] + n
      /\ \A a \in Accounts \ {from, to} : m[a] = b[a]
  BY DEF Moved
<1>2. AllCoins(m) = AllCoins(b)
  BY <1>1 DEF AllCoins, Accounts, Modules
<1>. QED
  BY <1>1, <1>2

\* The sweep empties verana_pool into the protocol pool.
LEMMA SweepSafe ==
    ASSUME NEW b \in [Accounts -> Nat]
    PROVE  LET m == SendFundsBackToCommunityPool(b)
           IN  /\ m \in [Accounts -> Nat]
               /\ AllCoins(m) = AllCoins(b)
               /\ m["verana_pool"] = 0
               /\ m["protocolpool"] = b["protocolpool"] + b["verana_pool"]
               /\ m["users"] = b["users"]
               /\ m["td"] = b["td"]
<1> DEFINE n == b["verana_pool"]
<1>1. /\ "verana_pool" \in Accounts
      /\ "protocolpool" \in Accounts \ {"verana_pool"}
      /\ {"users", "td"} \subseteq Accounts \ {"verana_pool", "protocolpool"}
  BY DEF Accounts, Modules
<1>2. n \in Nat /\ n <= b["verana_pool"] /\ b["verana_pool"] - n = 0
  BY <1>1
<1>. HIDE DEF n
<1>3. /\ Moved(b, "verana_pool", "protocolpool", n) \in [Accounts -> Nat]
      /\ AllCoins(Moved(b, "verana_pool", "protocolpool", n)) = AllCoins(b)
      /\ Moved(b, "verana_pool", "protocolpool", n)["verana_pool"] =
            b["verana_pool"] - n
      /\ Moved(b, "verana_pool", "protocolpool", n)["protocolpool"] =
            b["protocolpool"] + n
      /\ \A a \in Accounts \ {"verana_pool", "protocolpool"} :
            Moved(b, "verana_pool", "protocolpool", n)[a] = b[a]
  BY <1>1, <1>2, MoveSafe
<1>. QED
  BY <1>1, <1>2, <1>3 DEF SendFundsBackToCommunityPool, n

-----------------------------------------------------------------------------
(* Type correctness. *)

LEMMA InitTypeOK == Init => TypeOK
<1> SUFFICES ASSUME Init
             PROVE  TypeOK
  OBVIOUS
<1>1. bank \in [Accounts -> Nat]
  BY DEF Init
<1>2. params \in [value : 0..(Word - 1), rate : Rates]
  BY DEF Init, AllParams
<1>. QED
  BY <1>1, <1>2 DEF Init, TypeOK, Stages

\* What one block's BeginBlocker does to the state.
LEMMA BeginBlockerSafe ==
    ASSUME TypeOK, BeginBlocker
    PROVE  /\ TypeOK'
           /\ AllCoins(bank') = AllCoins(bank)
           /\ bank'["users"] = bank["users"]
           /\ bank'["protocolpool"] >= bank["protocolpool"]
           /\ bank'["verana_pool"] = 0
           /\ bank'["td"] >= bank["td"]
           /\ dust' < One \/ dust' = dust
           /\ dust >= 0 /\ PerBlockYield(params) >= 0 => dust' >= 0
           /\ \/ ClaimOf(bank', dust') =
                    ClaimOf(bank, dust) + PerBlockYield(params)
              \/ bank'["td"] = bank["td"] /\ dust' = dust
<1> DEFINE y == SendFundsFromVeranaPool
           n == y.bank["verana_pool"]
<1>1. /\ y.bank \in [Accounts -> Nat]
      /\ AllCoins(y.bank) = AllCoins(bank)
      /\ y.bank["users"] = bank["users"]
      /\ y.bank["protocolpool"] = bank["protocolpool"]
      /\ y.bank["td"] >= bank["td"]
      /\ y.dust \in Int
      /\ y.dust < One \/ y.dust = dust
      /\ dust >= 0 /\ PerBlockYield(params) >= 0 => y.dust >= 0
      /\ \/ ClaimOf(y.bank, y.dust) =
               ClaimOf(bank, dust) + PerBlockYield(params)
         \/ y.bank = bank /\ y.dust = dust
  BY PaymentSafe
<1>2. /\ {"users", "verana_pool", "td", "protocolpool"} \subseteq Accounts
      /\ n \in Nat
  BY <1>1 DEF Accounts, Modules
<1>3. /\ bank' = SendFundsBackToCommunityPool(y.bank)
      /\ dust' = y.dust
      /\ stage' = "deliver"
      /\ params' = params
  BY DEF BeginBlocker
<1>4. /\ bank' \in [Accounts -> Nat]
      /\ AllCoins(bank') = AllCoins(y.bank)
      /\ bank'["verana_pool"] = 0
      /\ bank'["protocolpool"] = y.bank["protocolpool"] + n
      /\ bank'["users"] = y.bank["users"]
      /\ bank'["td"] = y.bank["td"]
  BY <1>1, <1>3, SweepSafe
<1>5. TypeOK'
  BY <1>1, <1>3, <1>4 DEF TypeOK, Stages
<1>6. ClaimOf(bank', dust') = ClaimOf(y.bank, y.dust)
  BY <1>3, <1>4 DEF ClaimOf
<1>7. \/ ClaimOf(bank', dust') = ClaimOf(bank, dust) + PerBlockYield(params)
      \/ bank'["td"] = bank["td"] /\ dust' = dust
  BY <1>1, <1>3, <1>4, <1>6
<1>8. bank["protocolpool"] \in Nat
  BY <1>2 DEF TypeOK
<1>. QED
  BY <1>1, <1>2, <1>3, <1>4, <1>5, <1>7, <1>8

LEMMA NextTypeOK == TypeOK /\ [Next]_vars => TypeOK'
<1> SUFFICES ASSUME TypeOK, [Next]_vars
             PROVE  TypeOK'
  OBVIOUS
<1>1. CASE ProtocolPoolBeginBlock
  <2>1. PICK n \in Amounts \cup {0} :
          /\ n <= bank["protocolpool"]
          /\ bank' = Moved(bank, "protocolpool", "verana_pool", n)
    BY <1>1 DEF ProtocolPoolBeginBlock
  <2>2. /\ "protocolpool" \in Accounts
        /\ "verana_pool" \in Accounts \ {"protocolpool"}
        /\ n \in Nat
    BY DEF Accounts, Modules
  <2>3. bank' \in [Accounts -> Nat]
    BY <2>1, <2>2, MoveSafe DEF TypeOK
  <2>. QED
    BY <1>1, <2>3 DEF TypeOK, ProtocolPoolBeginBlock, Stages
<1>2. CASE BeginBlocker
  BY <1>2, BeginBlockerSafe
<1>3. ASSUME NEW m \in Modules, NEW n \in Amounts, FundModule(m, n)
      PROVE  TypeOK'
  <2>1. bank' \in [Accounts -> Nat]
    <3>1. /\ "users" \in Accounts
          /\ m \in Accounts \ {"users"}
          /\ n \in Nat
          /\ n <= bank["users"]
      BY <1>3 DEF FundModule, Accounts, Modules
    <3>. QED
      BY <1>3, <3>1, MoveSafe DEF TypeOK, FundModule
  <2>2. (params.value + n) % Word \in 0..(Word - 1)
    <3>1. params.value + n \in Int /\ Word \in Nat \ {0}
      BY DEF TypeOK
    <3>. QED
      BY <3>1, Division
  <2>3. params' \in [value : 0..(Word - 1), rate : Rates]
    BY <1>3, <2>2 DEF TypeOK, FundModule
  <2>. QED
    BY <1>3, <2>1, <2>3 DEF TypeOK, FundModule
<1>4. ASSUME NEW p \in AllParams, UpdateParams(p)
      PROVE  TypeOK'
  BY <1>4 DEF TypeOK, UpdateParams, AllParams
<1>5. ASSUME NEW from \in {"users", "protocolpool"}, NEW n \in Amounts,
             NEW to \in Accounts \ {from}, BankTransfer(from, to, n)
      PROVE  TypeOK'
  <2>1. from \in Accounts /\ n \in Nat /\ n <= bank[from]
    BY <1>5 DEF BankTransfer, Accounts, Modules
  <2>2. bank' \in [Accounts -> Nat]
    BY <1>5, <2>1, MoveSafe DEF TypeOK, BankTransfer
  <2>. QED
    BY <1>5, <2>2 DEF TypeOK, BankTransfer
<1>6. CASE EndBlock
  BY <1>6 DEF TypeOK, EndBlock, Stages
<1>7. CASE ExportImport
  BY <1>7 DEF TypeOK, ExportImport
<1>8. CASE UNCHANGED vars
  BY <1>8 DEF TypeOK, vars
<1>. QED
  BY <1>1, <1>2, <1>3, <1>4, <1>5, <1>6, <1>7, <1>8 DEF Next

\* Balances never go below zero: no step of the module spends coins an account
\* does not have.
THEOREM TypeCorrect == Spec => []TypeOK
  BY InitTypeOK, NextTypeOK, PTL DEF Spec

-----------------------------------------------------------------------------
(* The safety invariants. *)

\* What every step does to the coins: their sum is kept, and td never pays.
LEMMA CoinsStep ==
    ASSUME TypeOK, [Next]_vars
    PROVE  /\ AllCoins(bank') = AllCoins(bank)
           /\ bank'["td"] >= bank["td"]
<1>0. /\ {"users", "verana_pool", "td", "protocolpool"} \subseteq Accounts
      /\ bank \in [Accounts -> Nat]
      /\ bank["td"] \in Nat
  BY DEF TypeOK, Accounts, Modules
<1>. DEFINE Safe == /\ AllCoins(bank') = AllCoins(bank)
                    /\ bank'["td"] >= bank["td"]
<1>1. ASSUME NEW from \in Accounts \ {"td"}, NEW to \in Accounts \ {from},
             NEW n \in Nat, n <= bank[from], bank' = Moved(bank, from, to, n)
      PROVE  Safe
  <2>1. CASE to = "td"
    <3>1. bank'["td"] = bank["td"] + n
      BY <1>0, <1>1, <2>1, MoveSafe
    <3>2. AllCoins(bank') = AllCoins(bank)
      BY <1>0, <1>1, MoveSafe
    <3>. QED
      BY <1>0, <3>1, <3>2
  <2>2. CASE to # "td"
    <3>1. "td" \in Accounts \ {from, to}
      BY <1>0, <1>1, <2>2
    <3>2. bank'["td"] = bank["td"]
      BY <1>0, <1>1, <3>1, MoveSafe
    <3>3. AllCoins(bank') = AllCoins(bank)
      BY <1>0, <1>1, MoveSafe
    <3>. QED
      BY <1>0, <3>2, <3>3
  <2>. QED
    BY <2>1, <2>2
<1>2. CASE ProtocolPoolBeginBlock
  <2>1. PICK n \in Amounts \cup {0} :
          /\ n <= bank["protocolpool"]
          /\ bank' = Moved(bank, "protocolpool", "verana_pool", n)
    BY <1>2 DEF ProtocolPoolBeginBlock
  <2>2. n \in Nat
    OBVIOUS
  <2>. QED
    BY <1>0, <1>1, <2>1, <2>2
<1>3. CASE BeginBlocker
  BY <1>3, BeginBlockerSafe
<1>4. ASSUME NEW m \in Modules, NEW n \in Amounts, FundModule(m, n)
      PROVE  Safe
  <2>1. /\ "users" \in Accounts \ {"td"}
        /\ m \in Accounts \ {"users"}
        /\ n \in Nat
    BY DEF Accounts, Modules
  <2>2. n <= bank["users"] /\ bank' = Moved(bank, "users", m, n)
    BY <1>4 DEF FundModule
  <2>. QED
    BY <1>1, <2>1, <2>2
<1>5. ASSUME NEW from \in {"users", "protocolpool"}, NEW n \in Amounts,
             NEW to \in Accounts \ {from}, BankTransfer(from, to, n)
      PROVE  Safe
  <2>1. from \in Accounts \ {"td"} /\ n \in Nat
    BY DEF Accounts, Modules
  <2>2. n <= bank[from] /\ bank' = Moved(bank, from, to, n)
    BY <1>5 DEF BankTransfer
  <2>. QED
    BY <1>1, <2>1, <2>2
<1>6. ASSUME UNCHANGED bank
      PROVE  Safe
  BY <1>0, <1>6
<1>. QED
  BY <1>2, <1>3, <1>4, <1>5, <1>6
     DEF Next, UpdateParams, EndBlock, ExportImport, vars

\* Coins only move between the accounts.
SupplyConserved == AllCoins(bank) = Supply

\* The dust carried over is less than one coin, whatever the parameters: what
\* SendFundsFromVeranaPool stores is never a payment it could have made.
DustBelowOne == dust < One

\* The inductive invariant.  The dust is a fraction only while the yield is
\* not negative, hence while the deposit value is within int64, hence while
\* it is backed by the coins there are.
IInv == /\ TypeOK
        /\ SupplyConserved
        /\ DustBelowOne
        /\ ValueBacked
        /\ DustIsFraction

\* Backed values are within int64, so the yield is not negative.
LEMMA YieldNotNegative ==
    ASSUME IInv, SaneParams
    PROVE  /\ PerBlockYield(params) \in Nat
           /\ \E v \in Values :
                 params.value <= v + bank["td"] /\ 2 * (v + Supply) < Word
<1>1. PICK v \in Values : params.value <= v + bank["td"]
  BY DEF IInv, ValueBacked
<1>2. /\ bank["users"] \in Nat
      /\ bank["verana_pool"] \in Nat
      /\ bank["td"] \in Nat
      /\ bank["protocolpool"] \in Nat
  BY DEF IInv, TypeOK, Accounts, Modules
<1>3. bank["td"] <= Supply
  BY <1>2 DEF IInv, SupplyConserved, AllCoins
<1>4. /\ v \in Nat
      /\ 2 * (v + Supply) < Word
      /\ params.value \in Nat
      /\ params.rate >= 0
  <2>1. params.value \in 0..(Word - 1) /\ params.rate \in Rates
    BY DEF IInv, TypeOK
  <2>2. Rates \subseteq Nat /\ 2 * (v + Supply) < Word
    BY DEF SaneParams
  <2>3. v \in 0..(Word - 1)
    OBVIOUS
  <2>4. params.rate \in Nat
    BY <2>1, <2>2
  <2>. QED
    BY <2>1, <2>2, <2>3, <2>4
<1>5. 2 * params.value < Word
  BY <1>1, <1>2, <1>3, <1>4
<1>. QED
  BY <1>1, <1>4, <1>5, PerBlockYieldInt DEF IInv, TypeOK

LEMMA InitIInv == Init => IInv
<1> SUFFICES ASSUME Init
             PROVE  IInv
  OBVIOUS
<1>1. TypeOK
  BY InitTypeOK
<1>2. SupplyConserved /\ DustBelowOne
  BY DEF Init, SupplyConserved, DustBelowOne
<1>3. params.value \in Values /\ params.value \in Nat /\ bank["td"] \in Nat
  BY <1>1 DEF Init, AllParams, TypeOK, Accounts, Modules
<1>4. ValueBacked
  BY <1>3 DEF ValueBacked
<1>5. DustIsFraction
  BY DEF Init, DustIsFraction
<1>. QED
  BY <1>1, <1>2, <1>4, <1>5 DEF IInv

LEMMA NextIInv == IInv /\ [Next]_vars => IInv'
<1> SUFFICES ASSUME IInv, [Next]_vars
             PROVE  IInv'
  OBVIOUS
<1>1. TypeOK /\ TypeOK'
  BY NextTypeOK DEF IInv
<1>2. SupplyConserved'
  BY <1>1, CoinsStep DEF IInv, SupplyConserved
<1>3. /\ bank["td"] \in Nat /\ bank'["td"] \in Nat
      /\ bank'["td"] >= bank["td"]
      /\ params.value \in Nat
  BY <1>1, CoinsStep DEF TypeOK, Accounts, Modules
<1>4. ASSUME UNCHANGED params
      PROVE  ValueBacked'
  BY <1>3, <1>4 DEF IInv, ValueBacked
<1>5. ASSUME UNCHANGED dust
      PROVE  DustBelowOne' /\ DustIsFraction'
  BY <1>5 DEF IInv, DustBelowOne, DustIsFraction
<1>6. CASE BeginBlocker
  <2>1. UNCHANGED params
    BY <1>6 DEF BeginBlocker
  <2>2. /\ dust' \in Int /\ dust \in Int
        /\ dust' < One \/ dust' = dust
        /\ dust >= 0 /\ PerBlockYield(params) >= 0 => dust' >= 0
    BY <1>1, <1>6, BeginBlockerSafe DEF TypeOK
  <2>3. DustBelowOne'
    BY <2>2 DEF IInv, DustBelowOne
  <2>4. ASSUME SaneParams
        PROVE  dust' \in 0..(One - 1)
    <3>1. PerBlockYield(params) >= 0
      BY <2>4, YieldNotNegative
    <3>2. dust >= 0
      BY <2>4 DEF IInv, DustIsFraction
    <3>. QED
      BY <2>2, <2>3, <3>1, <3>2 DEF DustBelowOne
  <2>5. DustIsFraction'
    BY <2>4 DEF DustIsFraction, SaneParams
  <2>. QED
    BY <1>1, <1>2, <1>4, <2>1, <2>3, <2>5 DEF IInv
<1>7. ASSUME NEW m \in Modules, NEW n \in Amounts, FundModule(m, n)
      PROVE  IInv'
  <2>1. UNCHANGED dust
    BY <1>7 DEF FundModule
  <2>2. ValueBacked'
    <3>1. CASE m # "td"
      BY <1>4, <1>7, <3>1 DEF FundModule
    <3>2. CASE m = "td"
      <4>1. ASSUME SaneParams
            PROVE  \E v \in Values : params'.value <= v + bank'["td"]
        <5>1. PICK v \in Values :
                params.value <= v + bank["td"] /\ 2 * (v + Supply) < Word
          BY <4>1, YieldNotNegative
        <5>2. /\ "users" \in Accounts /\ "td" \in Accounts \ {"users"}
              /\ n \in Nat /\ v \in Nat
              /\ n <= bank["users"]
              /\ bank' = Moved(bank, "users", "td", n)
              /\ bank \in [Accounts -> Nat]
          BY <1>1, <1>7, <3>2 DEF FundModule, Accounts, Modules, TypeOK
        <5>3. bank'["td"] = bank["td"] + n
          BY <5>2, MoveSafe
        <5>4. /\ bank'["users"] \in Nat
              /\ bank'["verana_pool"] \in Nat
              /\ bank'["protocolpool"] \in Nat
          BY <1>1 DEF TypeOK, Accounts, Modules
        <5>5. bank'["td"] <= Supply
          BY <1>2, <1>3, <5>4 DEF SupplyConserved, AllCoins
        <5>6. params.value + n \in 0..(Word - 1)
          BY <1>3, <5>1, <5>2, <5>3, <5>5
        <5>7. (params.value + n) % Word = params.value + n
          BY <5>6
        <5>8. params'.value = params.value + n
          BY <1>1, <1>7, <3>2, <5>7 DEF FundModule, TypeOK
        <5>. QED
          BY <1>3, <5>1, <5>2, <5>3, <5>8
      <4>. QED
        BY <4>1 DEF ValueBacked, SaneParams
    <3>. QED
      BY <3>1, <3>2
  <2>. QED
    BY <1>1, <1>2, <1>5, <2>1, <2>2 DEF IInv
<1>8. ASSUME NEW p \in AllParams, UpdateParams(p)
      PROVE  IInv'
  <2>1. params'.value \in Values /\ params'.value \in Nat /\ UNCHANGED dust
    BY <1>1, <1>8 DEF UpdateParams, AllParams, TypeOK
  <2>2. ValueBacked'
    BY <1>3, <2>1 DEF ValueBacked
  <2>. QED
    BY <1>1, <1>2, <1>5, <2>1, <2>2 DEF IInv
<1>9. CASE ExportImport
  <2>1. UNCHANGED params /\ dust' = 0
    BY <1>9 DEF ExportImport
  <2>. QED
    BY <1>1, <1>2, <1>4, <2>1 DEF IInv, DustBelowOne, DustIsFraction
<1>10. ASSUME UNCHANGED <<params, dust>>
       PROVE  IInv'
  BY <1>1, <1>2, <1>4, <1>5, <1>10 DEF IInv
<1>. QED
  BY <1>6, <1>7, <1>8, <1>9, <1>10
     DEF Next, ProtocolPoolBeginBlock, BankTransfer, EndBlock, vars

\* IInv holds in every reachable state.
THEOREM Invariance == Spec => []IInv
  BY InitIInv, NextIInv, PTL DEF Spec

\* SendFundsFromVeranaPool never stores a whole coin as dust, whatever the
\* parameters.
THEOREM DustStaysBelowOne == Spec => []DustBelowOne
  BY Invariance, PTL DEF IInv

\* With sane parameters the dust is a proper fraction of a coin.
THEOREM DustStaysFraction == Spec => []DustIsFraction
  BY Invariance, PTL DEF IInv

\* With sane parameters what FundModule counted is backed by coins in td.
THEOREM ValueStaysBacked == Spec => []ValueBacked
  BY Invariance, PTL DEF IInv

-----------------------------------------------------------------------------
(* What a step may not do, and the promise of YieldClaim. *)

\* BeginBlocker empties verana_pool and takes no user's or community coins.
THEOREM PoolIsSettled == Spec => PoolSettled
<1>1. TypeOK /\ [Next]_vars =>
        [ stage = "td" =>
            /\ bank'["verana_pool"] = 0
            /\ bank'["users"] = bank["users"]
            /\ bank'["protocolpool"] >= bank["protocolpool"] ]_vars
  BY BeginBlockerSafe
     DEF Next, ProtocolPoolBeginBlock, FundModule, UpdateParams, BankTransfer,
         EndBlock, ExportImport
<1>. QED
  BY <1>1, TypeCorrect, PTL DEF Spec, PoolSettled

\* Whenever the pool can pay the whole coins due, BeginBlocker pays them.
THEOREM PaysInFull == Spec => PaysWhenFunded
<1> DEFINE total == dust + PerBlockYield(params)
           due == TruncateInt(total)
           y == SendFundsFromVeranaPool
<1>1. ASSUME TypeOK, BeginBlocker, 0 <= due, due <= bank["verana_pool"]
      PROVE  bank'["td"] = bank["td"] + due
  <2>1. /\ total \in Int
        /\ bank \in [Accounts -> Nat]
        /\ {"users", "verana_pool", "td", "protocolpool"} \subseteq Accounts
    BY <1>1, PerBlockYieldInt DEF TypeOK, Accounts, Modules
  <2>2. y.bank \in [Accounts -> Nat]
    BY <1>1, PaymentSafe
  <2>3. bank'["td"] = y.bank["td"]
    BY <1>1, <2>2, SweepSafe DEF BeginBlocker
  <2>4. CASE total < One
    <3>1. y.bank = bank
      BY <2>1, <2>4 DEF SendFundsFromVeranaPool
    <3>2. due = 0
      BY <1>1, <2>1, <2>4, TruncateIntFraction
    <3>3. bank["td"] \in Nat
      BY <2>1
    <3>. HIDE DEF due, y
    <3>. QED
      BY <2>3, <3>1, <3>2, <3>3
  <2>5. CASE total >= One
    <3>1. due \in Nat
      BY <2>1, <2>5, TruncateIntWhole
    <3>2. y.bank = Moved(bank, "verana_pool", "td", due)
      BY <1>1, <2>1, <2>5, <3>1 DEF SendFundsFromVeranaPool
    <3>3. Moved(bank, "verana_pool", "td", due)["td"] = bank["td"] + due
      BY <2>1 DEF Moved
    <3>. QED
      BY <2>3, <3>2, <3>3
  <2>. QED
    BY <2>1, <2>4, <2>5
<1>2. TypeOK /\ [Next]_vars =>
        [ stage = "td" => (0 <= due /\ due <= bank["verana_pool"]
                             => bank'["td"] = bank["td"] + due) ]_vars
  BY <1>1
     DEF Next, ProtocolPoolBeginBlock, FundModule, UpdateParams, BankTransfer,
         EndBlock, ExportImport
<1>. QED
  BY <1>2, TypeCorrect, PTL DEF Spec, PaysWhenFunded

\* Every step is a step of YieldClaim or leaves the claim as it was.
LEMMA NextClaim ==
    ASSUME SaneParams, IInv, IInv', [Next]_vars
    PROVE  [Claim!Next]_(Claim!vars)
<1> DEFINE claim == ClaimOf(bank, dust)
           yield == PerBlockYield(params)
<1>1. /\ bank["td"] \in Nat /\ bank'["td"] \in Nat
      /\ dust \in 0..(One - 1)
      /\ yield' \in Int
  BY YieldNotNegative, PerBlockYieldInt
     DEF IInv, TypeOK, DustIsFraction, Accounts, Modules
<1>2. claim' = bank'["td"] * One + dust'
  BY DEF ClaimOf
<1>3. ASSUME claim' = claim
      PROVE  Claim!Next
  BY <1>1, <1>3 DEF Claim!Next, Claim!Govern
<1>4. ASSUME UNCHANGED dust, NEW n \in Nat, bank'["td"] = bank["td"] + n
      PROVE  Claim!Next
  <2>1. /\ claim' = claim + n * One
        /\ claim \in Int
    BY <1>1, <1>4, OneAssumption DEF ClaimOf
  <2>2. CASE n = 0
    BY <1>3, <2>1, <2>2, OneAssumption
  <2>3. CASE n > 0
    <3>1. n * One > 0
      BY <2>3, OneAssumption
    <3>2. claim' > claim /\ claim' - claim = n * One
      BY <2>1, <3>1
    <3>3. (claim' - claim) % One = 0
      <4>1. 0 \in 0..(One - 1) /\ n \in Int
        BY OneAssumption
      <4>2. (n * One) % One = 0
        BY <4>1, WholeAndFraction
      <4>. QED
        BY <3>2, <4>2
    <3>. HIDE DEF claim, yield
    <3>. QED
      BY <1>1, <3>2, <3>3 DEF Claim!Next, Claim!Deposit, claim, yield
  <2>. QED
    BY <2>2, <2>3
<1>5. ASSUME NEW from \in Accounts \ {"td"}, NEW to \in Accounts \ {from},
             NEW n \in Nat, n <= bank[from], bank' = Moved(bank, from, to, n),
             UNCHANGED dust
      PROVE  Claim!Next
  <2>1. bank \in [Accounts -> Nat] /\ "td" \in Accounts
    BY DEF IInv, TypeOK, Accounts, Modules
  <2>2. CASE to = "td"
    <3>1. bank'["td"] = bank["td"] + n
      BY <1>5, <2>1, <2>2, MoveSafe
    <3>. QED
      BY <1>4, <1>5, <3>1
  <2>3. CASE to # "td"
    <3>1. bank'["td"] = bank["td"]
      BY <1>5, <2>1, <2>3, MoveSafe
    <3>2. claim' = claim
      BY <1>5, <3>1 DEF ClaimOf
    <3>. QED
      BY <1>3, <3>2
  <2>. QED
    BY <2>2, <2>3
<1>6. CASE ProtocolPoolBeginBlock
  <2>1. PICK n \in Amounts \cup {0} :
          /\ n <= bank["protocolpool"]
          /\ bank' = Moved(bank, "protocolpool", "verana_pool", n)
    BY <1>6 DEF ProtocolPoolBeginBlock
  <2>2. /\ "protocolpool" \in Accounts \ {"td"}
        /\ "verana_pool" \in Accounts \ {"protocolpool"}
        /\ n \in Nat
    BY DEF Accounts, Modules
  <2>. QED
    BY <1>5, <1>6, <2>1, <2>2 DEF ProtocolPoolBeginBlock
<1>7. CASE BeginBlocker
  <2>1. CASE claim' = claim + yield
    <3>1. params' = params
      BY <1>7 DEF BeginBlocker
    <3>. QED
      BY <2>1, <3>1 DEF Claim!Next, Claim!Accrue
  <2>2. CASE bank'["td"] = bank["td"] /\ dust' = dust
    BY <1>3, <2>2 DEF ClaimOf
  <2>. QED
    BY <1>7, <2>1, <2>2, BeginBlockerSafe DEF IInv
<1>8. ASSUME NEW m \in Modules, NEW n \in Amounts, FundModule(m, n)
      PROVE  Claim!Next
  <2>1. /\ "users" \in Accounts \ {"td"}
        /\ m \in Accounts \ {"users"}
        /\ n \in Nat
    BY DEF Accounts, Modules
  <2>. QED
    BY <1>5, <1>8, <2>1 DEF FundModule
<1>9. ASSUME NEW from \in {"users", "protocolpool"}, NEW n \in Amounts,
             NEW to \in Accounts \ {from}, BankTransfer(from, to, n)
      PROVE  Claim!Next
  <2>1. from \in Accounts \ {"td"} /\ n \in Nat
    BY DEF Accounts, Modules
  <2>. QED
    BY <1>5, <1>9, <2>1 DEF BankTransfer
<1>10. CASE ExportImport
  <2>1. /\ bank' = bank
        /\ dust' = 0
        /\ params' = params
    BY <1>10 DEF ExportImport
  <2>2. claim \div One = bank["td"]
    BY <1>1, WholeAndFraction DEF ClaimOf
  <2>3. claim' = One * (claim \div One)
    BY <1>1, <2>1, <2>2, OneAssumption DEF ClaimOf
  <2>. QED
    BY <2>1, <2>3 DEF Claim!Next, Claim!Restart
<1>11. ASSUME UNCHANGED <<bank, dust>>
       PROVE  Claim!Next
  BY <1>3, <1>11 DEF ClaimOf
<1>. QED
  BY <1>6, <1>7, <1>8, <1>9, <1>10, <1>11
     DEF Next, UpdateParams, EndBlock, vars

\* x/td implements YieldClaim: rounding, paying, sweeping, dust and blocks
\* are invisible in what the depositors own.
THEOREM ImplementsYieldClaim == ASSUME SaneParams PROVE Spec => ClaimKept
<1>1. Init => Claim!Init
  <2> SUFFICES ASSUME Init
               PROVE  Claim!Init
    OBVIOUS
  <2>1. TypeOK
    BY InitTypeOK
  <2>2. bank["td"] \in Int /\ PerBlockYield(params) \in Int /\ dust = 0
    BY <2>1, PerBlockYieldInt DEF TypeOK, Accounts, Modules, Init
  <2>3. /\ ClaimOf(bank, dust) = bank["td"] * One
        /\ ClaimOf(bank, dust) \in Int
    BY <2>2, OneAssumption DEF ClaimOf
  <2>4. ClaimOf(bank, dust) % One = 0
    BY <2>2, <2>3, WholeAndFraction, OneAssumption
  <2>. QED
    BY <2>2, <2>3, <2>4 DEF Claim!Init
<1>2. IInv /\ IInv' /\ [Next]_vars => [Claim!Next]_(Claim!vars)
  BY NextClaim
<1>. QED
  BY <1>1, <1>2, Invariance, PTL DEF Spec, ClaimKept, Claim!Spec

=============================================================================
