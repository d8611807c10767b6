--------------------------- MODULE HeightZeroProofs ---------------------------
(***************************************************************************)
(* Proofs about HeightZero, for any validators, delegations, rates, fees   *)
(* and fractions: every block, withdrawal and slash keeps the store sound, *)
(* and so does each loop of an export, which pays what is due and leaves   *)
(* the store a new chain could have started with.                          *)
(***************************************************************************)
EXTENDS HeightZero, DistributionProofs

-----------------------------------------------------------------------------
(* Amounts: the fees of a block, and a commission that is withdrawn.       *)

\* Two stores in which a validator differs in amounts only, with as much more
\* outstanding as there is to divide.
AmountsOnly(s, t, v) ==
    LET old == s.validators[v]
        new == t.validators[v]
    IN  /\ t.infos = s.infos
        /\ new.tokens = old.tokens
        /\ new.period = old.period
        /\ new.slashes = old.slashes
        /\ new.history = old.history
        /\ new.outstanding - old.outstanding
              = (new.commission + new.current) - (old.commission + old.current)

\* Then the account of the validator fits as before.
LEMMA AmountsFit ==
    ASSUME NEW s \in StoreType, NEW t \in StoreType,
           NEW v \in Validators, NEW L \in SUBSET DelegationsTo(v),
           NEW h \in Nat, Fits(s, L, v, h), AmountsOnly(s, t, v)
    PROVE  /\ Fits(t, L, v, h)
           /\ \A d \in L : KeepsWay(s, t, d, h)
<1> DEFINE old == s.validators[v]
           new == t.validators[v]
<1>1. /\ RefsFit(s, L, v) /\ SlashesFit(s, v, h) /\ RatiosGrow(s, v)
      /\ (\A d \in L : CountsFrom(s, d, h)) /\ Distinct(s, L)
  BY DEF Fits
<1>2. /\ t.infos = s.infos
      /\ new.tokens = old.tokens
      /\ new.period = old.period
      /\ new.slashes = old.slashes
      /\ new.history = old.history
      /\ new.outstanding - old.outstanding
            = (new.commission + new.current) - (old.commission + old.current)
  BY Zenon DEF AmountsOnly
<1>3. RefsFit(t, L, v)
  <2>1. Ended(t, v) = Ended(s, v)
    BY <1>2 DEF Ended
  <2>2. ASSUME NEW p \in Periods
        PROVE  new.history[p].refs =
                  Bit(p = Ended(t, v)) + Bit(CountedAt(t, L, p)) + Bit(new.slashes[p].fraction > 0)
    <3>1. Bit(CountedAt(t, L, p)) = Bit(CountedAt(s, L, p))
      BY <1>2 DEF CountedAt
    <3>2. old.history[p].refs =
             Bit(p = Ended(s, v)) + Bit(CountedAt(s, L, p)) + Bit(old.slashes[p].fraction > 0)
      BY <1>1, Zenon DEF RefsFit
    <3> HIDE DEF old, new
    <3>. QED
      BY <1>2, <2>1, <3>1, <3>2
  <2>3. new.period >= 1
    BY <1>1, <1>2 DEF RefsFit
  <2>. QED
    BY <2>2, <2>3 DEF RefsFit
<1>4. SlashesFit(t, v, h)
  BY <1>1, <1>2, Zenon DEF SlashesFit
<1>5. RatiosGrow(t, v)
  BY <1>1, <1>2, Zenon DEF RatiosGrow
<1>6. Distinct(t, L)
  BY <1>1, <1>2, Zenon DEF Distinct
<1>7. ASSUME NEW d \in L
      PROVE  /\ CountsFrom(t, d, h)
             /\ KeepsWay(s, t, d, h)
             /\ WayFits(t, d, h)
             /\ Owed(t, d, h) = Owed(s, d, h)
  <2>1. ValidatorOf[d] = v /\ CountsFrom(s, d, h)
    BY <1>1, LinkIsTyped
  <2>2. CountsFrom(t, d, h)
    BY <1>2, <2>1, Zenon DEF CountsFrom
  <2>3. Ended(t, v) = Ended(s, v)
    BY <1>2 DEF Ended
  <2>. QED
    BY <1>2, <1>4, <2>2, <2>3, OwedKept
<1>8. Covered(t, L, v, h)
  <2>1. AllOwed(t, L, h) = AllOwed(s, L, h)
    <3>1. [d \in L |-> Owed(t, d, h)] = [d \in L |-> Owed(s, d, h)]
      BY <1>7
    <3>. QED
      BY <3>1 DEF AllOwed
  <2>2. /\ old.commission \in Nat /\ old.current \in Nat /\ old.outstanding \in Nat
        /\ AllOwed(s, L, h) \in Nat
        /\ One * (old.commission + old.current) + AllOwed(s, L, h) <= One * old.outstanding
    BY CoverType
  <2>3. new.commission \in Nat /\ new.current \in Nat /\ new.outstanding \in Nat
    BY StoreIsTyped DEF RecordTyped
  <2> DEFINE a == old.commission + old.current
             b == new.commission + new.current
             m == old.outstanding
             n == new.outstanding
  <2>4. a \in Int /\ b \in Int /\ m \in Int /\ n \in Int /\ n - m = b - a
    BY <1>2, <2>2, <2>3
  <2>5. One * a + AllOwed(s, L, h) <= One * m
    BY <2>2
  <2> HIDE DEF a, b, m, n
  <2>6. One * n - One * m = One * b - One * a
    <3>1. One * (n - m) = One * n - One * m /\ One * (b - a) = One * b - One * a
      BY <2>4, OneAssumption
    <3>. QED
      BY <2>4, <3>1
  <2>7. One * n \in Int /\ One * m \in Int /\ One * a \in Int /\ One * b \in Int
    BY <2>4, OneAssumption
  <2>8. One * b + AllOwed(t, L, h) <= One * n
    BY <2>1, <2>2, <2>5, <2>6, <2>7
  <2>. QED
    BY <2>8 DEF Covered, AllOwed, b, n
<1>. QED
  BY <1>3, <1>4, <1>5, <1>6, <1>7, <1>8 DEF Fits

\* What a delegation would be due does not change, if what the period earned
\* does not.
LEMMA AmountsDue ==
    ASSUME NEW s \in StoreType, NEW t \in StoreType,
           NEW v \in Validators, NEW L \in SUBSET DelegationsTo(v),
           NEW h \in Nat, Fits(s, L, v, h), AmountsOnly(s, t, v),
           t.validators[v].current = s.validators[v].current, NEW d \in L
    PROVE  NextDue(t, d, h) = NextDue(s, d, h)
<1>1. KeepsWay(s, t, d, h) /\ ValidatorOf[d] = v
  BY AmountsFit, LinkIsTyped
<1>2. /\ t.validators[v].tokens = s.validators[v].tokens
      /\ t.validators[v].period = s.validators[v].period
      /\ t.validators[v].history = s.validators[v].history
  BY Zenon DEF AmountsOnly
<1>3. EarnedInPeriod(t.validators[v]) = EarnedInPeriod(s.validators[v])
  BY <1>2 DEF EarnedInPeriod
<1>4. Ended(t, v) = Ended(s, v)
  BY <1>2 DEF Ended
<1>. QED
  BY <1>1, <1>2, <1>3, <1>4, NextDueKept

\* What a withdrawn commission changes.
CommissionPaid(s, t, v) ==
    LET coins == TruncateInt(s.validators[v].commission)
    IN  /\ t \in StoreType
        /\ AmountsOnly(s, t, v)
        /\ t.panic = s.panic
        /\ t.wallets = [s.wallets EXCEPT ![v] = s.wallets[v] + coins]
        /\ t.balance = s.balance - coins
        /\ t.community = s.community
        /\ \A w \in Validators \ {v} : t.validators[w] = s.validators[w]
        /\ t.validators[v].current = s.validators[v].current
        /\ t.validators[v].outstanding = s.validators[v].outstanding - coins * One

\* A withdrawal of a commission does that.
LEMMA CommissionFields ==
    ASSUME NEW s \in StoreType, NEW v \in Validators, NEW L \in SUBSET DelegationsTo(v),
           NEW h \in Nat, Fits(s, L, v, h), Account(s)
    PROVE  CommissionPaid(s, WithdrawCommission(s, v), v)
<1> DEFINE val == s.validators[v]
           coins == TruncateInt(val.commission)
           whole == coins * One
           new == [val EXCEPT !.commission = val.commission - whole,
                              !.outstanding = val.outstanding - whole]
           wallets == [s.wallets EXCEPT ![v] = s.wallets[v] + coins]
           vals == [s.validators EXCEPT ![v] = new]
           t == WithdrawCommission(s, v)
<1>1. val \in ValidatorRecord
  BY DEF StoreType
<1>2. /\ val.commission \in Nat /\ val.current \in Nat /\ val.outstanding \in Nat
      /\ val.commission <= val.outstanding
  BY CoverType
<1>3. coins \in Nat /\ whole \in Nat /\ val.commission - whole \in Nat
  <2>1. coins \in Nat /\ val.commission - coins * One \in 0..(One - 1)
    BY <1>2, TruncateIntWhole DEF DecFromInt
  <2> HIDE DEF coins
  <2>2. coins * One \in Nat
    BY <2>1, OneAssumption
  <2>. QED
    BY <2>1, <2>2, OneAssumption
<1>4. s.balance \in Nat /\ s.community \in Nat
  BY StoreIsTyped
<1> HIDE DEF coins, whole
<1>5. val.outstanding - whole \in Nat
  BY <1>2, <1>3
<1>6. s.balance - coins \in Nat
  <2>1. val.outstanding <= AllOutstanding(s) /\ AllOutstanding(s) \in Nat
    BY OutstandingType
  <2>2. s.balance * One = s.community + AllOutstanding(s)
    BY AccountIs
  <2>3. s.balance * One \in Int
    BY <1>4, OneAssumption
  <2>4. coins * One <= s.balance * One
    BY <1>2, <1>3, <1>4, <1>5, <2>1, <2>2, <2>3 DEF whole
  <2>5. One * coins <= One * s.balance
    BY <1>3, <1>4, <2>4, OneAssumption
  <2>6. coins <= s.balance
    BY <1>3, <1>4, <2>5, OneAssumption, Cancel
  <2>. QED
    BY <1>3, <1>4, <2>6
<1>7. t = [s EXCEPT !.wallets = wallets,
                    !.balance = s.balance - coins,
                    !.validators = vals]
  <2>1. t = [s EXCEPT
               !.wallets[v] = @ + coins,
               !.balance = @ - coins,
               !.validators[v].commission = @ - whole,
               !.validators[v].outstanding = @ - whole]
    BY Zenon DEF WithdrawCommission, DecFromInt, coins, whole
  <2>2. v \in DOMAIN s.validators /\ v \in DOMAIN s.wallets
    BY StoreIsTyped DEF Owners
  <2>. QED
    BY <2>1, <2>2, ZenonT(40)
<1>8. new \in ValidatorRecord
  <2> HIDE DEF val
  <2>. QED
    BY <1>1, <1>3, <1>5 DEF ValidatorRecord
<1>9. /\ new.tokens = val.tokens /\ new.period = val.period
      /\ new.slashes = val.slashes /\ new.history = val.history
      /\ new.current = val.current
      /\ new.commission = val.commission - whole
      /\ new.outstanding = val.outstanding - whole
  <2> HIDE DEF val
  <2>. QED
    BY <1>1 DEF ValidatorRecord
<1>10. vals \in [Validators -> ValidatorRecord] /\ vals[v] = new
       /\ \A w \in Validators \ {v} : vals[w] = s.validators[w]
  <2> HIDE DEF new
  <2>. QED
    BY <1>8 DEF StoreType
<1>11. wallets \in [Owners -> Nat]
  <2>1. s.wallets \in [Owners -> Nat] /\ v \in Owners
    BY DEF StoreType, Owners
  <2>. QED
    BY <1>3, <2>1
<1> HIDE DEF vals, wallets, t
<1>12. t \in StoreType
  BY <1>6, <1>7, <1>10, <1>11 DEF StoreType
<1>13. /\ t.infos = s.infos /\ t.wallets = wallets /\ t.balance = s.balance - coins
       /\ t.community = s.community /\ t.validators = vals /\ t.panic = s.panic
  BY <1>7 DEF StoreType
<1> HIDE DEF new
<1>14. AmountsOnly(s, t, v)
  <2>1. new.outstanding - val.outstanding
          = (new.commission + new.current) - (val.commission + val.current)
    BY <1>2, <1>3, <1>9
  <2>. QED
    BY <1>9, <1>10, <1>13, <2>1 DEF AmountsOnly
<1>15. t = WithdrawCommission(s, v)
  BY DEF t
<1>. QED
  BY <1>9, <1>10, <1>12, <1>13, <1>14, <1>15 DEF CommissionPaid, coins, whole, wallets

\* It leaves the account fitting, and nobody is due anything else.
LEMMA CommissionFits ==
    ASSUME NEW s \in StoreType, NEW t, NEW v \in Validators,
           NEW L \in SUBSET DelegationsTo(v),
           NEW h \in Nat, Fits(s, L, v, h), Account(s), CommissionPaid(s, t, v)
    PROVE  /\ Account(t)
           /\ Fits(t, L, v, h)
           /\ \A d \in L : NextDue(t, d, h) = NextDue(s, d, h)
<1> DEFINE coins == TruncateInt(s.validators[v].commission)
<1>1. /\ t \in StoreType
      /\ AmountsOnly(s, t, v)
      /\ t.balance = s.balance - coins
      /\ t.community = s.community
      /\ \A w \in Validators \ {v} : t.validators[w] = s.validators[w]
      /\ t.validators[v].current = s.validators[v].current
      /\ t.validators[v].outstanding = s.validators[v].outstanding - coins * One
  BY Zenon DEF CommissionPaid
<1>2. coins \in Nat /\ s.balance \in Nat /\ s.community \in Nat
      /\ s.validators[v].outstanding \in Nat
  BY CoverType, StoreIsTyped, TruncateIntWhole
<1> HIDE DEF coins
<1>3. Account(t)
  <2>1. (s.balance - coins) * One = s.balance * One - coins * One
        /\ s.balance * One \in Int /\ coins * One \in Int
    BY <1>2, OneAssumption
  <2>2. t.balance * One - t.community - t.validators[v].outstanding
           = s.balance * One - s.community - s.validators[v].outstanding
    BY <1>1, <1>2, <2>1
  <2>3. \A w \in Validators \ {v} : t.validators[w].outstanding = s.validators[w].outstanding
    BY <1>1
  <2>. QED
    BY <1>1, <2>2, <2>3, AccountKept
<1>4. Fits(t, L, v, h)
  BY <1>1, AmountsFit
<1>5. \A d \in L : NextDue(t, d, h) = NextDue(s, d, h)
  BY <1>1, AmountsDue
<1>. QED
  BY <1>3, <1>4, <1>5

\* What fees change.
Allocated(s, t, v, n) ==
    /\ t \in StoreType
    /\ AmountsOnly(s, t, v)
    /\ t.panic = s.panic
    /\ t.wallets = s.wallets
    /\ t.balance = s.balance + n
    /\ t.community = s.community
    /\ \A w \in Validators \ {v} : t.validators[w] = s.validators[w]
    /\ t.validators[v].outstanding = s.validators[v].outstanding + n * One

\* An allocation does that.
LEMMA AllocateFields ==
    ASSUME NEW s \in StoreType, NEW v \in Validators, NEW n \in Nat
    PROVE  Allocated(s, Allocate(s, v, n), v, n)
<1> DEFINE val == s.validators[v]
           whole == n * One
           cut == n * CommissionRate
           rest == n * (One - CommissionRate)
           new == [val EXCEPT !.commission = val.commission + cut,
                              !.current = val.current + rest,
                              !.outstanding = val.outstanding + whole]
           vals == [s.validators EXCEPT ![v] = new]
           t == Allocate(s, v, n)
<1>1. val \in ValidatorRecord
  BY DEF StoreType
<1>2. val.commission \in Nat /\ val.current \in Nat /\ val.outstanding \in Nat
  BY <1>1 DEF ValidatorRecord
<1>3. CommissionRate \in Nat /\ One - CommissionRate \in Nat
  BY DistributionAssumption, OneAssumption
<1>4. whole \in Nat /\ cut \in Nat /\ rest \in Nat /\ cut + rest = whole
  <2>1. n * CommissionRate + n * (One - CommissionRate) = n * One
    BY <1>3, OneAssumption
  <2>2. n * CommissionRate \in Nat /\ n * (One - CommissionRate) \in Nat /\ n * One \in Nat
    BY <1>3, OneAssumption
  <2>. QED
    BY <2>1, <2>2
<1>5. s.balance \in Nat
  BY StoreIsTyped
<1> HIDE DEF whole, cut, rest
<1>6. t = [s EXCEPT !.balance = s.balance + n, !.validators = vals]
  <2>1. t = [s EXCEPT !.balance = @ + n, !.validators[v] = new]
    BY Zenon DEF Allocate, DecFromInt, whole, cut, rest
  <2>2. v \in DOMAIN s.validators
    BY StoreIsTyped
  <2> HIDE DEF new
  <2>. QED
    BY <2>1, <2>2
<1>7. new \in ValidatorRecord
  <2>1. /\ val.commission + cut \in Nat
        /\ val.current + rest \in Nat
        /\ val.outstanding + whole \in Nat
    BY <1>2, <1>4
  <2> DEFINE a == val.commission + cut
             b == val.current + rest
             c == val.outstanding + whole
  <2> HIDE DEF val, a, b, c
  <2>2. a \in Nat /\ b \in Nat /\ c \in Nat
    BY <2>1 DEF a, b, c
  <2>3. new = [val EXCEPT !.commission = a, !.current = b, !.outstanding = c]
    BY DEF a, b, c
  <2> HIDE DEF new
  <2>. QED
    BY <1>1, <2>2, <2>3 DEF ValidatorRecord
<1>8. /\ new.tokens = val.tokens /\ new.period = val.period
      /\ new.slashes = val.slashes /\ new.history = val.history
      /\ new.current = val.current + rest
      /\ new.commission = val.commission + cut
      /\ new.outstanding = val.outstanding + whole
  <2> HIDE DEF val
  <2>. QED
    BY <1>1 DEF ValidatorRecord
<1>9. vals \in [Validators -> ValidatorRecord] /\ vals[v] = new
      /\ \A w \in Validators \ {v} : vals[w] = s.validators[w]
  <2> HIDE DEF new
  <2>. QED
    BY <1>7 DEF StoreType
<1>10. s.balance + n \in Nat
  BY <1>5
<1> HIDE DEF vals, t
<1>11. t \in StoreType
  BY <1>6, <1>9, <1>10 DEF StoreType
<1>12. /\ t.infos = s.infos /\ t.wallets = s.wallets /\ t.balance = s.balance + n
       /\ t.community = s.community /\ t.validators = vals /\ t.panic = s.panic
  BY <1>6 DEF StoreType
<1> HIDE DEF new
<1>13. AmountsOnly(s, t, v)
  <2>1. new.outstanding - val.outstanding
          = (new.commission + new.current) - (val.commission + val.current)
    BY <1>2, <1>4, <1>8
  <2>. QED
    BY <1>8, <1>9, <1>12, <2>1 DEF AmountsOnly
<1>14. t = Allocate(s, v, n)
  BY DEF t
<1>. QED
  BY <1>8, <1>9, <1>11, <1>12, <1>13, <1>14 DEF Allocated, whole

-----------------------------------------------------------------------------
(* Sound stores.                                                           *)

\* The delegations of D to one validator.
LEMMA PartIsTyped ==
    ASSUME NEW D \in SUBSET Delegations, NEW v \in Validators
    PROVE  D \cap DelegationsTo(v) \in SUBSET DelegationsTo(v)
OBVIOUS

\* What Sound says, part by part.
LEMMA SoundIs ==
    ASSUME NEW s, NEW D \in SUBSET Delegations, NEW h, Sound(s, D, h)
    PROVE  /\ s \in StoreType
           /\ ~ s.panic
           /\ Account(s)
           /\ \A v \in Validators : /\ Fits(s, D \cap DelegationsTo(v), v, h)
                                    /\ D \cap DelegationsTo(v) \in SUBSET DelegationsTo(v)
BY PartIsTyped DEF Sound

\* A store stays sound when one validator's account fits again, at a later height
\* or with more delegations, and those of the others did not change.
LEMMA SoundKept ==
    ASSUME NEW s, NEW t, NEW v \in Validators,
           NEW D \in SUBSET Delegations, NEW E \in SUBSET Delegations,
           NEW h \in Nat, NEW k \in Nat, h <= k,
           Sound(s, D, h),
           t \in StoreType, t.panic = s.panic, Account(t),
           Fits(t, E \cap DelegationsTo(v), v, k),
           \A w \in Validators \ {v} : /\ t.validators[w] = s.validators[w]
                                       /\ E \cap DelegationsTo(w) = D \cap DelegationsTo(w),
           \A e \in D \ DelegationsTo(v) : t.infos[e] = s.infos[e]
    PROVE  Sound(t, E, k)
<1>1. ASSUME NEW w \in Validators
      PROVE  Fits(t, E \cap DelegationsTo(w), w, k)
  <2>1. CASE w = v
    BY <2>1
  <2>2. CASE w # v
    <3> DEFINE L == D \cap DelegationsTo(w)
    <3>1. s \in StoreType /\ Fits(s, L, w, h) /\ L \in SUBSET DelegationsTo(w)
      BY SoundIs
    <3>2. t.validators[w] = s.validators[w] /\ E \cap DelegationsTo(w) = L
      BY <2>2
    <3>3. \A d \in L : t.infos[d] = s.infos[d]
      <4>1. \A d \in L : d \in D \ DelegationsTo(v)
        BY <2>2 DEF DelegationsTo
      <4>. QED
        BY <4>1
    <3> HIDE DEF L
    <3>4. Fits(t, L, w, k)
      BY <3>1, <3>2, <3>3, FitsKept
    <3>. QED
      BY <3>2, <3>4
  <2>. QED
    BY <2>1, <2>2
<1>2. ~ t.panic
  BY SoundIs
<1>. QED
  BY <1>1, <1>2 DEF Sound

\* Fees keep a store sound.
LEMMA AllocateSound ==
    ASSUME NEW s, NEW v \in Validators, NEW n \in Nat,
           NEW D \in SUBSET Delegations, NEW h \in Nat, Sound(s, D, h)
    PROVE  /\ Sound(Allocate(s, v, n), D, h)
           /\ \A w \in Validators :
                 /\ Allocate(s, v, n).validators[w].period = s.validators[w].period
                 /\ Allocate(s, v, n).validators[w].tokens = s.validators[w].tokens
<1> DEFINE t == Allocate(s, v, n)
           L == D \cap DelegationsTo(v)
<1>1. /\ s \in StoreType /\ Account(s)
      /\ Fits(s, L, v, h) /\ L \in SUBSET DelegationsTo(v)
  BY SoundIs
<1>2. Allocated(s, t, v, n)
  BY <1>1, AllocateFields
<1> HIDE DEF t
<1>3. /\ t \in StoreType /\ AmountsOnly(s, t, v)
      /\ t.panic = s.panic
      /\ t.balance = s.balance + n
      /\ t.community = s.community
      /\ \A w \in Validators \ {v} : t.validators[w] = s.validators[w]
      /\ t.validators[v].outstanding = s.validators[v].outstanding + n * One
  BY <1>2 DEF Allocated
<1>4. /\ t.infos = s.infos /\ t.validators[v].period = s.validators[v].period
      /\ t.validators[v].tokens = s.validators[v].tokens
  BY <1>3 DEF AmountsOnly
<1>5. Fits(t, L, v, h)
  BY <1>1, <1>3, AmountsFit
<1>6. Account(t)
  <2>1. s.balance \in Nat /\ s.community \in Nat /\ s.validators[v].outstanding \in Nat
    BY <1>1, StoreIsTyped, OutstandingType
  <2>2. (s.balance + n) * One = s.balance * One + n * One
        /\ s.balance * One \in Int /\ n * One \in Int
    BY <2>1, OneAssumption
  <2>3. t.balance * One - t.community - t.validators[v].outstanding
           = s.balance * One - s.community - s.validators[v].outstanding
    BY <1>3, <2>1, <2>2
  <2>4. \A w \in Validators \ {v} : t.validators[w].outstanding = s.validators[w].outstanding
    BY <1>3
  <2>. QED
    BY <1>1, <1>3, <2>3, <2>4, AccountKept
<1>7. Sound(t, D, h)
  BY <1>3, <1>4, <1>5, <1>6, SoundKept
<1>8. \A w \in Validators : t.validators[w].period = s.validators[w].period
                            /\ t.validators[w].tokens = s.validators[w].tokens
  BY <1>3, <1>4
<1>. QED
  BY <1>7, <1>8 DEF t

-----------------------------------------------------------------------------
(* A slash.                                                                *)

\* What the event of a slash changes, after the period has ended.
EventTaken(s, t, v, b, f, k) ==
    LET old  == s.validators[v]
        new  == t.validators[v]
        last == Ended(s, v)
    IN  /\ t.infos = s.infos
        /\ t.wallets = s.wallets
        /\ t.balance = s.balance
        /\ t.community = s.community
        /\ t.panic = s.panic
        /\ \A w \in Validators \ {v} : t.validators[w] = s.validators[w]
        /\ new.outstanding = old.outstanding
        /\ new.commission = old.commission
        /\ new.current = old.current
        /\ new.period = old.period
        /\ new.tokens = old.tokens - b
        /\ new.history[last].refs = 2
        /\ new.history[last].ratio = old.history[last].ratio
        /\ new.slashes[last] = [height |-> k, fraction |-> f]
        /\ \A p \in Periods \ {last} : /\ new.history[p] = old.history[p]
                                       /\ new.slashes[p] = old.slashes[p]

\* They do change so when b tokens are burned.
LEMMA SlashedFields ==
    ASSUME NEW s \in StoreType, NEW a, NEW v \in Validators,
           NEW L \in SUBSET DelegationsTo(v),
           NEW h \in Nat, Fits(s, L, v, h), s.validators[v].period < MaxPeriod,
           a = IncrementPeriod(s, v),
           NEW b \in 1..s.validators[v].tokens, NEW k \in Nat,
           NEW f, f = FractionOf(b, s.validators[v].tokens),
           NEW t, t = Slashed(s, v, b, k)
    PROVE  /\ t \in StoreType
           /\ EventTaken(a, t, v, b, f, k)
<1> DEFINE last == s.validators[v].period
           val == a.validators[v]
           event == [height |-> k, fraction |-> f]
           entry == [ratio |-> val.history[last].ratio, refs |-> 2]
           new == [val EXCEPT !.history[last] = entry,
                              !.slashes[last] = event,
                              !.tokens = val.tokens - b]
           vals == [a.validators EXCEPT ![v] = new]
<1>1. a \in StoreType /\ Incremented(s, a, v) /\ Fits(a, L, v, h)
  BY IncrementFits
<1>2. Ended(a, v) = last /\ last \in Periods /\ val.history[last].refs = 1
      /\ val.slashes = s.validators[v].slashes
  <2>1. /\ Ended(a, v) = last
        /\ Ended(a, v) \in Periods
        /\ val.history[Ended(a, v)].refs = 1
        /\ val.slashes = s.validators[v].slashes
    BY <1>1, IncrementHistory, ZenonT(40)
  <2> HIDE DEF val, last
  <2>. QED
    BY <2>1
<1>3. val \in ValidatorRecord
  BY <1>1 DEF StoreType
<1>4. val.tokens = s.validators[v].tokens
  BY <1>1, Zenon DEF Incremented
<1>5. val.tokens - b \in Nat /\ f \in 1..One /\ f = FractionOf(b, val.tokens)
  <2>1. val.tokens \in Nat
    BY <1>3 DEF ValidatorRecord
  <2>. QED
    BY <1>4, <2>1, FractionBound
<1>6. val.history[last] = [ratio |-> val.history[last].ratio, refs |-> 1]
      /\ val.history[last].ratio \in Nat
  <2>1. RecordTyped(val)
    BY <1>3, RecordIsTyped
  <2>. QED
    BY <1>2, <2>1 DEF RecordTyped
<1> DEFINE raw == [val EXCEPT !.history[last].refs = @ + 1,
                              !.slashes[last] = event,
                              !.tokens = @ - b]
<1>7. raw = new
  <2>1. [val.history[last] EXCEPT !.refs = @ + 1] = entry
    <3>1. \A r, x : r = [ratio |-> x, refs |-> 1] =>
                       [r EXCEPT !.refs = @ + 1] = [ratio |-> x, refs |-> 2]
      OBVIOUS
    <3>. QED
      BY <1>6, <3>1
  <2> DEFINE up == [val.history[last] EXCEPT !.refs = @ + 1]
             rest == val.tokens - b
  <2> HIDE DEF event
  <2>2. /\ val = [val EXCEPT !.history = val.history]
        /\ last \in DOMAIN val.history
        /\ val.history \in [Periods -> [ratio : Nat, refs : 0..2]]
        /\ val.slashes \in [Periods -> [height : Nat, fraction : 0..One]]
    <3> HIDE DEF val, last
    <3>. QED
      BY <1>2, <1>3 DEF ValidatorRecord
  <2>3. raw = [val EXCEPT !.history = [val.history EXCEPT ![last] = up],
                          !.slashes = [val.slashes EXCEPT ![last] = event],
                          !.tokens = rest]
    <3> HIDE DEF val, last
    <3>. QED
      BY <1>2, <1>3, <2>2 DEF ValidatorRecord
  <2>4. new = [val EXCEPT !.history = [val.history EXCEPT ![last] = entry],
                          !.slashes = [val.slashes EXCEPT ![last] = event],
                          !.tokens = rest]
    <3> HIDE DEF val, last, entry
    <3>. QED
      BY <1>2, <1>3, <2>2 DEF ValidatorRecord
  <2>5. up = entry
    BY <2>1
  <2> HIDE DEF raw, new, up, entry, rest
  <2>. QED
    BY <2>3, <2>4, <2>5
<1>8. t = [a EXCEPT !.validators = vals]
  <2>1. t = [a EXCEPT !.validators[v] = raw]
    BY <1>5, Zenon DEF Slashed
  <2> HIDE DEF raw, new
  <2>2. v \in DOMAIN a.validators
    BY <1>1, StoreIsTyped
  <2>. QED
    BY <1>7, <2>1, <2>2
<1>9. event \in [height : Nat, fraction : 0..One]
      /\ entry \in [ratio : Nat, refs : 0..2]
  <2>1. f \in 0..One
    BY <1>5, OneAssumption
  <2>. QED
    BY <1>6, <2>1, SMTT(30)
<1> HIDE DEF raw, event, entry
<1>10. new \in ValidatorRecord
  <2> DEFINE rest == val.tokens - b
  <2>1. rest \in Nat
    BY <1>5
  <2> HIDE DEF val, last, rest
  <2>2. new = [val EXCEPT !.history[last] = entry, !.slashes[last] = event, !.tokens = rest]
    BY DEF rest
  <2> HIDE DEF new
  <2>. QED
    BY <1>2, <1>3, <1>9, <2>1, <2>2 DEF ValidatorRecord
<1>11. /\ new.outstanding = val.outstanding
       /\ new.commission = val.commission
       /\ new.current = val.current
       /\ new.period = val.period
       /\ new.tokens = val.tokens - b
       /\ new.history = [val.history EXCEPT ![last] = entry]
       /\ new.slashes = [val.slashes EXCEPT ![last] = event]
  <2> HIDE DEF val, last
  <2>. QED
    BY <1>3 DEF ValidatorRecord
<1>12. /\ new.history[last] = entry
       /\ new.slashes[last] = event
       /\ \A p \in Periods \ {last} : /\ new.history[p] = val.history[p]
                                      /\ new.slashes[p] = val.slashes[p]
  <2>1. DOMAIN val.history = Periods /\ DOMAIN val.slashes = Periods
    BY <1>3 DEF ValidatorRecord
  <2> HIDE DEF new, val, last
  <2>. QED
    BY <1>2, <1>11, <2>1
<1>13. vals \in [Validators -> ValidatorRecord] /\ vals[v] = new
       /\ \A w \in Validators \ {v} : vals[w] = a.validators[w]
  <2> HIDE DEF new
  <2>. QED
    BY <1>1, <1>10 DEF StoreType
<1> HIDE DEF vals, new, last
<1>14. t \in StoreType
  BY <1>1, <1>8, <1>13 DEF StoreType
<1>15. /\ t.infos = a.infos /\ t.wallets = a.wallets /\ t.balance = a.balance
       /\ t.community = a.community /\ t.validators = vals /\ t.panic = a.panic
  BY <1>1, <1>8 DEF StoreType
<1>16. entry.ratio = val.history[last].ratio /\ entry.refs = 2
  BY DEF entry
<1>17. EventTaken(a, t, v, b, f, k)
  BY <1>2, <1>11, <1>12, <1>13, <1>15, <1>16, ZenonT(30) DEF EventTaken, event
<1>. QED
  BY <1>14, <1>17

\* The references, slashes, ratios and starts fit after the event.
LEMMA EventShape ==
    ASSUME NEW s \in StoreType, NEW t \in StoreType,
           NEW v \in Validators, NEW L \in SUBSET DelegationsTo(v),
           NEW h \in Nat, NEW k \in Nat, h < k,
           Fits(s, L, v, h), FreshPeriod(s, L, v),
           NEW b, NEW f \in 1..One, EventTaken(s, t, v, b, f, k)
    PROVE  /\ RefsFit(t, L, v)
           /\ SlashesFit(t, v, k)
           /\ RatiosGrow(t, v)
           /\ \A d \in L : CountsFrom(t, d, k)
           /\ Distinct(t, L)
<1> DEFINE old == s.validators[v]
           new == t.validators[v]
           last == Ended(s, v)
<1>1. /\ RefsFit(s, L, v) /\ SlashesFit(s, v, h) /\ RatiosGrow(s, v)
      /\ (\A d \in L : CountsFrom(s, d, h)) /\ Distinct(s, L)
  BY DEF Fits
<1>2. /\ last \in Periods /\ last \in Nat /\ old.period = last + 1 /\ old.period >= 1
  BY <1>1, PeriodIsTyped
<1>3. /\ t.infos = s.infos
      /\ new.period = old.period
      /\ new.history[last].refs = 2
      /\ new.history[last].ratio = old.history[last].ratio
      /\ new.slashes[last] = [height |-> k, fraction |-> f]
      /\ \A p \in Periods \ {last} : /\ new.history[p] = old.history[p]
                                     /\ new.slashes[p] = old.slashes[p]
  BY Zenon DEF EventTaken
<1>4. old.history[last].refs = 1 /\ old.slashes[last].fraction = 0 /\ ~ CountedAt(s, L, last)
  BY DEF FreshPeriod
<1>5. Ended(t, v) = last
  BY <1>3 DEF Ended
<1>6. new.slashes[last].height = k /\ new.slashes[last].fraction = f /\ f > 0 /\ f # 0
  BY <1>3, OneAssumption
<1> HIDE DEF old, new, last
<1>7. \A p \in Periods : p \in Nat
  BY EntryIsTyped DEF Periods
<1>8. RefsFit(t, L, v)
  <2>1. ASSUME NEW p \in Periods
        PROVE  new.history[p].refs = Bit(p = last) + Bit(CountedAt(t, L, p))
                                        + Bit(new.slashes[p].fraction > 0)
    <3>1. CountedAt(t, L, p) <=> CountedAt(s, L, p)
      BY <1>3 DEF CountedAt
    <3>2. CASE p = last
      <4>1. ~ CountedAt(t, L, p)
        BY <1>4, <3>1, <3>2
      <4>2. /\ Bit(p = last) = 1 /\ Bit(CountedAt(t, L, p)) = 0
            /\ Bit(new.slashes[p].fraction > 0) = 1
        BY <1>6, <3>2, <4>1 DEF Bit
      <4>. QED
        BY <1>3, <3>2, <4>2
    <3>3. CASE p # last
      <4>1. Bit(CountedAt(t, L, p)) = Bit(CountedAt(s, L, p))
        BY <3>1 DEF Bit
      <4>2. old.history[p].refs = Bit(p = last) + Bit(CountedAt(s, L, p))
                                     + Bit(old.slashes[p].fraction > 0)
        BY <1>1 DEF RefsFit, old, last
      <4>. QED
        BY <1>3, <3>3, <4>1, <4>2
    <3>. QED
      BY <3>2, <3>3
  <2>2. new.period >= 1
    BY <1>2, <1>3
  <2>. QED
    BY <1>5, <2>1, <2>2 DEF RefsFit, new
<1>9. SlashesFit(t, v, k)
  <2>1. ASSUME NEW p \in Periods
        PROVE  /\ new.slashes[p].fraction > 0 => p < new.period /\ new.slashes[p].height <= k
               /\ new.slashes[p].fraction = 0 => new.slashes[p] = NoSlash
    <3>1. CASE p = last
      BY <1>2, <1>3, <1>6, <3>1
    <3>2. CASE p # last
      <4>1. /\ old.slashes[p].fraction > 0 => p < old.period /\ old.slashes[p].height <= h
            /\ old.slashes[p].fraction = 0 => old.slashes[p] = NoSlash
        BY <1>1 DEF SlashesFit, old
      <4>2. old.slashes[p].height \in Nat
        BY EntryIsTyped DEF old
      <4>. QED
        BY <1>3, <3>2, <4>1, <4>2
    <3>. QED
      BY <3>1, <3>2
  <2>. QED
    BY <2>1 DEF SlashesFit, new
<1>10. RatiosGrow(t, v)
  <2>1. \A p \in Periods : /\ new.history[p].ratio = old.history[p].ratio
                           /\ new.history[p].refs > 0 => old.history[p].refs > 0
    BY <1>3, <1>4
  <2>. QED
    BY <1>1, <2>1 DEF RatiosGrow, old, new
<1>11. ASSUME NEW d \in L
       PROVE  CountsFrom(t, d, k)
  <2> DEFINE start == s.infos[d].period
  <2>1. /\ d \in Delegations /\ ValidatorOf[d] = v /\ CountsFrom(s, d, h)
        /\ start \in Nat /\ start \in Periods /\ s.infos[d].height \in Nat
    BY <1>1, LinkIsTyped, InfoIsTyped
  <2>2. /\ start < old.period
        /\ s.infos[d].height <= h
        /\ old.slashes[start].fraction = 0
        /\ \A p \in Periods :
              p > start /\ old.slashes[p].fraction > 0 => s.infos[d].height < old.slashes[p].height
    BY <2>1 DEF CountsFrom, old
  <2>3. start # last
    BY <1>4 DEF CountedAt
  <2>4. s.infos[d].height < k
    BY <2>1, <2>2
  <2> HIDE DEF start
  <2>5. /\ start < new.period
        /\ s.infos[d].height <= k
        /\ new.slashes[start].fraction = 0
    BY <1>3, <2>1, <2>2, <2>3, <2>4
  <2>6. ASSUME NEW p \in Periods, p > start, new.slashes[p].fraction > 0
        PROVE  s.infos[d].height < new.slashes[p].height
    <3>1. CASE p = last
      BY <1>6, <2>4, <3>1
    <3>2. CASE p # last
      BY <1>3, <2>2, <2>6, <3>2
    <3>. QED
      BY <3>1, <3>2
  <2>. QED
    BY <1>3, <2>1, <2>5, <2>6 DEF CountsFrom, new, start
<1>12. Distinct(t, L)
  BY <1>1, <1>3 DEF Distinct
<1>. QED
  BY <1>8, <1>9, <1>10, <1>11, <1>12

\* The way of a delegation goes through the slash.
WayTaken(s, t, d, v, f, h, k) ==
    LET way     == Way(s, d, h)
        history == s.validators[v].history
        last    == Ended(s, v)
    IN  Way(t, d, k) =
            [from    |-> last,
             stake   |-> (way.stake * (One - f)) \div One,
             rewards |-> way.rewards
                           + ((history[last].ratio - history[way.from].ratio) * way.stake)
                                \div One]

\* The event is the last step of each way.
LEMMA EventWay ==
    ASSUME NEW s \in StoreType, NEW t \in StoreType,
           NEW v \in Validators, NEW L \in SUBSET DelegationsTo(v),
           NEW h \in Nat, NEW k \in Nat, h < k,
           Fits(s, L, v, h), FreshPeriod(s, L, v),
           NEW b, NEW f \in 1..One, EventTaken(s, t, v, b, f, k),
           NEW d \in L
    PROVE  WayTaken(s, t, d, v, f, h, k)
<1> DEFINE old == s.validators[v]
           new == t.validators[v]
           last == Ended(s, v)
           start == s.infos[d].period
           w == Through(s, d, last - 1, h)
<1>1. /\ d \in Delegations /\ ValidatorOf[d] = v
      /\ start \in Nat /\ start \in Periods /\ s.infos[d].height \in Nat
  BY LinkIsTyped, InfoIsTyped
<1>2. /\ RefsFit(s, L, v) /\ SlashesFit(s, v, h) /\ CountsFrom(s, d, h)
  BY DEF Fits
<1>3. /\ last \in Periods /\ last \in Nat /\ old.period = last + 1
  BY <1>2, PeriodIsTyped
<1>4. SlashesFit(t, v, k) /\ CountsFrom(t, d, k)
  BY EventShape
<1>5. old.slashes[last].fraction = 0 /\ ~ CountedAt(s, L, last)
  BY DEF FreshPeriod
<1>6. start < last /\ s.infos[d].height <= h
  <2>1. start # last
    BY <1>5 DEF CountedAt
  <2>2. start < old.period /\ s.infos[d].height <= h
    BY <1>1, <1>2 DEF CountsFrom
  <2> HIDE DEF start, last, old
  <2>. QED
    BY <1>1, <1>3, <2>1, <2>2
<1>7. /\ t.infos = s.infos
      /\ new.period = old.period
      /\ new.history[last].ratio = old.history[last].ratio
      /\ new.slashes[last] = [height |-> k, fraction |-> f]
      /\ \A p \in Periods \ {last} : /\ new.history[p] = old.history[p]
                                     /\ new.slashes[p] = old.slashes[p]
  BY Zenon DEF EventTaken
<1>8. Ended(t, v) = last
  BY <1>7 DEF Ended
<1>9. last - 1 \in Nat /\ last - 1 \in Periods /\ start <= last - 1 /\ (last - 1) + 1 = last
  <2>1. MaxPeriod \in Nat
    BY DistributionAssumption
  <2> HIDE DEF start, last
  <2>. QED
    BY <1>1, <1>3, <1>6, <2>1 DEF Periods
<1>10. Through(t, d, last - 1, k) = w
  <2>1. KeepsHistory(s, t, d, last - 1)
    <3>1. \A p \in Periods : p <= last - 1 => p # last
      <4> HIDE DEF last
      <4>. QED
        BY <1>3 DEF Periods
    <3> HIDE DEF last
    <3>. QED
      BY <1>1, <1>7, <3>1 DEF KeepsHistory
  <2> HIDE DEF last
  <2>. QED
    BY <1>1, <1>2, <1>4, <1>9, <2>1, WayKept
<1>11. Through(s, d, last, h) = Step(s, d, last, h, w)
  <2> HIDE DEF last
  <2>1. Through(s, d, (last - 1) + 1, h) = Step(s, d, (last - 1) + 1, h, w)
    BY <1>1, <1>9, ThroughUnfolds
  <2>. QED
    BY <1>9, <2>1
<1>12. Way(s, d, h) = w
  <2>1. ~ TookSlash(s, d, last, h)
    BY <1>1, <1>5 DEF TookSlash
  <2>2. Step(s, d, last, h, w) = w
    BY <2>1 DEF Step
  <2>. QED
    BY <1>1, <1>11, <2>2 DEF Way
<1>13. Through(t, d, last, k) = Step(t, d, last, k, w)
  <2> HIDE DEF last, w
  <2>1. t.infos[d].period = start /\ t.infos[d].period \in Nat
    BY <1>1, <1>7
  <2>2. Through(t, d, (last - 1) + 1, k) = Step(t, d, (last - 1) + 1, k, w)
    BY <1>9, <1>10, <2>1, ThroughUnfolds
  <2>. QED
    BY <1>9, <2>2
<1>14. TookSlash(t, d, last, k)
  <2>1. t.infos[d].height < k /\ t.infos[d].height \in Nat
    BY <1>1, <1>6, <1>7
  <2>2. new.slashes[last].height = k /\ new.slashes[last].fraction = f /\ f > 0
    BY <1>7, OneAssumption
  <2>. QED
    BY <1>1, <2>1, <2>2 DEF TookSlash
<1>15. /\ w.from \in Periods /\ w.from <= last
       /\ new.history[w.from].ratio = old.history[w.from].ratio
  <2>1. Way(s, d, h).from \in Periods /\ Way(s, d, h).from <= last
    BY OwedType
  <2> HIDE DEF w, last, new, old
  <2>. QED
    BY <1>7, <1>12, <2>1
<1>16. Earned(t, v, w.from, last, w.stake)
         = ((old.history[last].ratio - old.history[w.from].ratio) * w.stake) \div One
  <2> HIDE DEF w, last, old
  <2>. QED
    BY <1>7, <1>15 DEF Earned
<1>17. Step(t, d, last, k, w)
         = [from |-> last, stake |-> (w.stake * (One - f)) \div One,
            rewards |-> w.rewards
                + ((old.history[last].ratio - old.history[w.from].ratio) * w.stake) \div One]
  <2>1. new.slashes[last].fraction = f
    BY <1>7
  <2> HIDE DEF w, last, old
  <2>. QED
    BY <1>1, <1>14, <1>16, <2>1 DEF Step
<1>18. Way(t, d, k) = Through(t, d, last, k)
  BY <1>1, <1>8 DEF Way
<1> HIDE DEF w, last, old
<1>. QED
  BY <1>12, <1>13, <1>17, <1>18 DEF last, old, WayTaken

\* A stake cut by the event still fits, and nobody gains by the cut.
LEMMA EventOwed ==
    ASSUME NEW s \in StoreType, NEW t \in StoreType,
           NEW v \in Validators, NEW L \in SUBSET DelegationsTo(v),
           NEW h \in Nat, NEW k \in Nat, h < k,
           Fits(s, L, v, h), FreshPeriod(s, L, v),
           NEW b \in 1..s.validators[v].tokens,
           NEW f \in 1..One, b * One <= s.validators[v].tokens * f,
           EventTaken(s, t, v, b, f, k),
           NEW d \in L
    PROVE  /\ WayFits(t, d, k)
           /\ Owed(t, d, k) \in Nat
           /\ Owed(t, d, k) <= Owed(s, d, h)
<1> DEFINE old == s.validators[v]
           new == t.validators[v]
           last == Ended(s, v)
           start == s.infos[d].period
           w == Way(s, d, h)
           y == Way(t, d, k)
           gain == old.history[last].ratio - old.history[w.from].ratio
           N == TotalShares(v)
           S == Shares[d]
<1>1. /\ d \in Delegations /\ ValidatorOf[d] = v
      /\ start \in Nat /\ start \in Periods
  BY LinkIsTyped, InfoIsTyped
<1>2. /\ y.from = last
      /\ y.stake = (w.stake * (One - f)) \div One
      /\ y.rewards = w.rewards + (gain * w.stake) \div One
  <2>1. y = [from    |-> last,
             stake   |-> (w.stake * (One - f)) \div One,
             rewards |-> w.rewards + (gain * w.stake) \div One]
    <3>1. WayTaken(s, t, d, v, f, h, k)
      BY EventWay
    <3>. QED
      BY <3>1, Zenon DEF WayTaken
  <2> HIDE DEF y, w, gain, last
  <2>. QED
    BY <2>1
<1>3. /\ t.infos = s.infos
      /\ new.period = old.period
      /\ new.tokens = old.tokens - b
      /\ new.history[last].ratio = old.history[last].ratio
      /\ new.slashes[last] = [height |-> k, fraction |-> f]
  BY Zenon DEF EventTaken
<1>4. Ended(t, v) = last
  BY <1>3 DEF Ended
<1>5. /\ w.from \in Periods /\ start <= w.from /\ w.from <= last
      /\ w.stake \in Nat /\ w.stake <= StakeOf(s, d)
      /\ w.rewards \in Nat
      /\ old.history[w.from].ratio <= old.history[last].ratio
  BY OwedType
<1>6. last \in Nat /\ last \in Periods
  <2>1. RefsFit(s, L, v)
    BY DEF Fits
  <2>. QED
    BY <2>1, PeriodIsTyped
<1>7. gain \in Nat
  <2>1. old.history[last].ratio \in Nat /\ old.history[w.from].ratio \in Nat
    BY <1>5, <1>6, EntryIsTyped
  <2>. QED
    BY <1>5, <2>1
<1>8. Owed(s, d, h) = One * w.rewards + gain * w.stake
  BY <1>1 DEF Owed
<1>9. Owed(t, d, k) = One * y.rewards
  <2>1. Owed(t, d, k) = One * y.rewards
                          + (new.history[last].ratio - new.history[y.from].ratio) * y.stake
    BY <1>1, <1>4 DEF Owed
  <2>2. new.history[last].ratio \in Nat
    BY <1>6, EntryIsTyped
  <2>3. y.stake \in Nat
    <3>1. w.stake * (One - f) \in Nat
      <4>1. One - f \in Nat
        BY OneAssumption
      <4> HIDE DEF w
      <4>. QED
        BY <1>5, <4>1
    <3> HIDE DEF w, y
    <3>. QED
      BY <1>2, <3>1, OneAssumption, Quotient
  <2>4. y.rewards \in Nat
    <3>1. gain * w.stake \in Nat
      <4> HIDE DEF gain, w
      <4>. QED
        BY <1>5, <1>7
    <3>2. (gain * w.stake) \div One \in Nat
      BY <3>1, OneAssumption, Quotient
    <3> HIDE DEF gain, w, y
    <3>. QED
      BY <1>2, <1>5, <3>2
  <2> DEFINE r == new.history[last].ratio
  <2>5. new.history[y.from].ratio = r
    BY <1>2
  <2>6. (r - new.history[y.from].ratio) * y.stake = 0
    <3> HIDE DEF r, y, new
    <3>. QED
      BY <2>2, <2>3, <2>5 DEF r
  <2>7. One * y.rewards \in Int
    BY <2>4, OneAssumption
  <2> HIDE DEF r, y, last, new
  <2>. QED
    BY <2>1, <2>6, <2>7 DEF r
<1> HIDE DEF old, new, last, start, w, y, gain, N, S
<1>10. gain * w.stake \in Nat /\ One * w.rewards \in Nat
  BY <1>5, <1>7, OneAssumption
<1> DEFINE x == gain * w.stake
           part == x \div One
<1>11. part \in Nat /\ One * part <= x
  <2> HIDE DEF x
  <2>. QED
    BY <1>10, OneAssumption, Quotient DEF x
<1>12. y.rewards = w.rewards + part /\ y.rewards \in Nat
  BY <1>2, <1>5, <1>11
<1>13. /\ Owed(t, d, k) \in Nat
       /\ Owed(t, d, k) <= Owed(s, d, h)
  <2> HIDE DEF part, x
  <2>1. One * y.rewards = One * w.rewards + One * part /\ One * part \in Nat
    BY <1>5, <1>11, <1>12, OneAssumption
  <2>2. Owed(s, d, h) = One * w.rewards + x
    BY <1>8 DEF x
  <2>. QED
    BY <1>9, <1>10, <1>11, <2>1, <2>2 DEF x
<1>14. /\ N \in Nat \ {0} /\ S \in Nat
       /\ N * w.stake <= S * old.tokens * One
  <2>1. N \in Nat \ {0} /\ S \in Nat
    BY <1>1, SharesAreTyped DEF N, S
  <2>2. N * w.stake <= S * old.tokens * One
    BY <1>1, <1>5, StakeBound DEF N, S, old
  <2>. QED
    BY <2>1, <2>2
<1>15. /\ y.stake \in Nat
       /\ N * y.stake <= S * new.tokens * One
  <2>1. old.tokens \in Nat
    BY StoreIsTyped DEF RecordTyped, old
  <2>2. b \in 0..old.tokens /\ b * One <= old.tokens * f
    BY <2>1 DEF old
  <2>3. f \in 0..One
    BY OneAssumption
  <2> DEFINE T == old.tokens
             q == w.stake
             z == (q * (One - f)) \div One
  <2>4. T \in Nat /\ q \in Nat /\ N * q <= S * T * One
    BY <1>5, <1>14, <2>1
  <2>5. y.stake = z /\ new.tokens = T - b
    BY <1>2, <1>3
  <2>6. b \in 0..T /\ b * One <= T * f
    BY <2>2
  <2> HIDE DEF T, q
  <2>7. z \in Nat /\ N * z <= S * (T - b) * One
    BY <1>14, <2>3, <2>4, <2>6, SlashedStake
  <2>. QED
    BY <2>5, <2>7, Zenon
<1>16. y.stake <= StakeOf(t, d)
  BY <1>1, <1>15, StakeBound DEF N, S, new
<1>17. new.slashes[last].fraction > 0
  <2>1. new.slashes[last].fraction = f /\ f > 0
    BY <1>3, OneAssumption
  <2>. QED
    BY <2>1
<1>18. WayFits(t, d, k)
  <2>1. last \in start..last
    BY <1>1, <1>5, <1>6, EntryIsTyped DEF Periods
  <2>2. t.infos[d].period = start
    BY <1>3 DEF start
  <2>. QED
    BY <1>1, <1>2, <1>4, <1>12, <1>15, <1>16, <1>17, <2>1, <2>2 DEF WayFits, y, new
<1>. QED
  BY <1>13, <1>18

\* What holds after a slash of v at height k.
SlashedTo(s, t, L, v, k) ==
    /\ t \in StoreType
    /\ t.panic = s.panic
    /\ Fits(t, L, v, k)
    /\ Account(t)
    /\ t.validators[v].period = s.validators[v].period + 1
    /\ t.infos = s.infos
    /\ \A w \in Validators \ {v} : t.validators[w] = s.validators[w]

\* A slash leaves the account of the validator fitting.
LEMMA SlashedFits ==
    ASSUME NEW s \in StoreType, NEW v \in Validators,
           NEW L \in SUBSET DelegationsTo(v),
           NEW h \in Nat, NEW k \in Nat, h < k,
           Fits(s, L, v, h), Account(s), s.validators[v].period < MaxPeriod,
           NEW b \in 1..s.validators[v].tokens,
           NEW t, t = Slashed(s, v, b, k)
    PROVE  SlashedTo(s, t, L, v, k)
<1> DEFINE a == IncrementPeriod(s, v)
           f == FractionOf(b, s.validators[v].tokens)
<1>1. /\ a \in StoreType
      /\ Incremented(s, a, v)
      /\ a.panic = s.panic
      /\ Fits(a, L, v, h)
      /\ FreshPeriod(a, L, v)
  BY IncrementFits
<1>2. t \in StoreType /\ EventTaken(a, t, v, b, f, k)
  BY SlashedFields
<1>0. f \in 1..One /\ b * One <= s.validators[v].tokens * f
  <2>1. s.validators[v].tokens \in Nat
    BY StoreIsTyped DEF RecordTyped
  <2>. QED
    BY <2>1, FractionBound
<1> HIDE DEF a, f
<1>3. /\ a.infos = s.infos
      /\ \A w \in Validators \ {v} : a.validators[w] = s.validators[w]
      /\ a.validators[v].period = s.validators[v].period + 1
      /\ a.validators[v].tokens = s.validators[v].tokens
  BY <1>1, Zenon DEF Incremented
<1>4. /\ t.infos = a.infos
      /\ t.balance = a.balance
      /\ t.community = a.community
      /\ t.panic = a.panic
      /\ \A w \in Validators \ {v} : t.validators[w] = a.validators[w]
      /\ t.validators[v].outstanding = a.validators[v].outstanding
      /\ t.validators[v].commission = a.validators[v].commission
      /\ t.validators[v].current = a.validators[v].current
      /\ t.validators[v].period = a.validators[v].period
  BY <1>2, Zenon DEF EventTaken
<1>5. /\ RefsFit(t, L, v)
      /\ SlashesFit(t, v, k)
      /\ RatiosGrow(t, v)
      /\ \A d \in L : CountsFrom(t, d, k)
      /\ Distinct(t, L)
  BY <1>0, <1>1, <1>2, EventShape
<1>6. ASSUME NEW d \in L
      PROVE  /\ WayFits(t, d, k)
             /\ Owed(t, d, k) \in Nat
             /\ Owed(t, d, k) <= Owed(a, d, h)
             /\ Owed(a, d, h) \in Nat
  <2>1. Owed(a, d, h) \in Nat
    BY <1>1, OwedType
  <2>2. b \in 1..a.validators[v].tokens /\ b * One <= a.validators[v].tokens * f
    BY <1>0, <1>3
  <2>. QED
    BY <1>0, <1>1, <1>2, <2>1, <2>2, EventOwed
<1>7. Covered(t, L, v, k)
  <2> DEFINE F == [d \in L |-> Owed(a, d, h)]
             G == [d \in L |-> Owed(t, d, k)]
  <2>1. IsFiniteSet(L)
    BY LinksFinite
  <2>2. \A d \in L : F[d] \in Int /\ G[d] \in Int /\ G[d] <= F[d]
    BY <1>6
  <2> HIDE DEF F, G
  <2>3. SumFunctionOnSet(G, L) <= SumFunctionOnSet(F, L)
    BY <2>1, <2>2, SumLeq
  <2>4. SumFunctionOnSet(G, L) \in Int /\ SumFunctionOnSet(F, L) \in Int
    BY <2>1, <2>2, SumType
  <2>5. One * (a.validators[v].commission + a.validators[v].current) + SumFunctionOnSet(F, L)
           <= One * a.validators[v].outstanding
    BY <1>1 DEF Fits, Covered, F
  <2>6. /\ One * (a.validators[v].commission + a.validators[v].current) \in Int
        /\ One * a.validators[v].outstanding \in Int
    <3>1. a.validators[v].commission \in Nat /\ a.validators[v].current \in Nat
          /\ a.validators[v].outstanding \in Nat
      BY <1>1, CoverType
    <3>. QED
      BY <3>1, OneAssumption
  <2>7. One * (t.validators[v].commission + t.validators[v].current) + SumFunctionOnSet(G, L)
           <= One * t.validators[v].outstanding
    BY <1>4, <2>3, <2>4, <2>5, <2>6
  <2>. QED
    BY <2>7 DEF Covered, G
<1>8. Fits(t, L, v, k)
  BY <1>5, <1>6, <1>7 DEF Fits
<1>9. Account(t)
  <2>1. Account(a)
    BY <1>1, IncrementAccount
  <2>2. t.balance * One - t.community - t.validators[v].outstanding
           = a.balance * One - a.community - a.validators[v].outstanding
    BY <1>4
  <2>3. \A w \in Validators \ {v} : t.validators[w].outstanding = a.validators[w].outstanding
    BY <1>4
  <2>. QED
    BY <1>1, <1>2, <2>1, <2>2, <2>3, AccountKept
<1>. QED
  BY <1>1, <1>2, <1>3, <1>4, <1>8, <1>9 DEF SlashedTo

\* A slash keeps the store sound and ends one period.
SlashKeeps(s, t, D, v, k) ==
    /\ Sound(t, D, k)
    /\ t.validators[v].period = s.validators[v].period + 1
    /\ \A w \in Validators \ {v} : t.validators[w] = s.validators[w]

\* At a later height, and with room for a period, it does so.
LEMMA SlashedSound ==
    ASSUME NEW s, NEW v \in Validators, NEW D \in SUBSET Delegations,
           NEW h \in Nat, NEW k \in Nat, h < k, Sound(s, D, h),
           s.validators[v].period < MaxPeriod,
           NEW b \in 1..s.validators[v].tokens
    PROVE  SlashKeeps(s, Slashed(s, v, b, k), D, v, k)
<1> DEFINE L == D \cap DelegationsTo(v)
           t == Slashed(s, v, b, k)
<1>0. t = Slashed(s, v, b, k)
  OBVIOUS
<1>1. /\ s \in StoreType /\ Account(s) /\ Fits(s, L, v, h)
      /\ L \in SUBSET DelegationsTo(v)
  BY SoundIs
<1> HIDE DEF t
<1>2. /\ t \in StoreType
      /\ t.panic = s.panic
      /\ Fits(t, L, v, k)
      /\ Account(t)
      /\ t.validators[v].period = s.validators[v].period + 1
      /\ t.infos = s.infos
      /\ \A w \in Validators \ {v} : t.validators[w] = s.validators[w]
  <2> HIDE DEF L
  <2>1. SlashedTo(s, t, L, v, k)
    BY <1>0, <1>1, SlashedFits
  <2>. QED
    BY <2>1, Zenon DEF SlashedTo
<1>3. Sound(t, D, k)
  BY <1>1, <1>2, SoundKept
<1>4. SlashKeeps(s, t, D, v, k)
  BY <1>2, <1>3 DEF SlashKeeps
<1>. QED
  BY <1>4 DEF t

-----------------------------------------------------------------------------
(* Folds over all delegations, or all validators: what holds of a store and  *)
(* of those that have been taken.                                            *)

\* All delegations end a period and start to count.
LEMMA DelegatedHolds ==
    ASSUME NEW s0 \in StoreType, NEW from, NEW P \in SUBSET ((SUBSET Delegations) \X StoreType),
           <<{}, s0>> \in P,
           ASSUME NEW s \in SUBSET Delegations, s # {}, NEW t \in StoreType,
                  <<s \ {Chosen(s)}, t>> \in P
           PROVE  <<s, InitializeDelegation(IncrementPeriod(t, ValidatorOf[Chosen(s)]), Chosen(s), from)>> \in P
    PROVE  <<Delegations, Delegated(s0, from)>> \in P
<1> DEFINE g == [p \in Delegations \X StoreType |-> InitializeDelegation(IncrementPeriod(p[2], ValidatorOf[p[1]]), p[1], from)]
           Next1(k, s) == IF s = {} THEN s0
                          ELSE InitializeDelegation(IncrementPeriod(k[s \ {Chosen(s)}], ValidatorOf[Chosen(s)]), Chosen(s), from)
           IsIt(k) == k = [s \in SUBSET Delegations |-> Next1(k, s)]
           k0 == CHOOSE k : IsIt(k)
<1>1. IsFiniteSet(Delegations)
  BY DistributionAssumption
<1>2. ASSUME NEW s \in SUBSET Delegations, s # {}, NEW t \in StoreType
      PROVE  g[<<Chosen(s), t>>] = InitializeDelegation(IncrementPeriod(t, ValidatorOf[Chosen(s)]), Chosen(s), from)
  <2>1. Chosen(s) \in Delegations
    BY <1>2, ChosenIsElement
  <2>. QED
    BY <2>1
<1> HIDE DEF g
<1>3. PICK h : IsRun(h, s0, g, Delegations) /\ \A s \in SUBSET Delegations : <<s, h[s]>> \in P
  <2>1. ASSUME NEW s \in SUBSET Delegations, s # {}, NEW t \in StoreType,
               <<s \ {Chosen(s)}, t>> \in P
        PROVE  <<s, g[<<Chosen(s), t>>]>> \in P
    <3>1. <<s, InitializeDelegation(IncrementPeriod(t, ValidatorOf[Chosen(s)]), Chosen(s), from)>> \in P
      BY <2>1
    <3>. QED
      BY <1>2, <2>1, <3>1
  <2>2. Keeps(g, Delegations, StoreType, P)
    BY <2>1 DEF Keeps
  <2> HIDE DEF IsIt, Next1, k0
  <2>3. RunsInto(g, s0, Delegations, P)
    BY <1>1, <2>2, FoldRuns
  <2>. QED
    BY <2>3, Zenon DEF RunsInto
<1>4. IsIt(h)
  <2>1. h = [s \in SUBSET Delegations |-> IF s = {} THEN s0
                                  ELSE g[<<Chosen(s), h[s \ {Chosen(s)}]>>]]
    BY <1>3, Zenon DEF IsRun
  <2>2. ASSUME NEW s \in SUBSET Delegations
        PROVE  (IF s = {} THEN s0 ELSE g[<<Chosen(s), h[s \ {Chosen(s)}]>>]) = Next1(h, s)
    <3>1. CASE s = {}
      BY <3>1
    <3>2. CASE s # {}
      <4>1. h[s \ {Chosen(s)}] \in StoreType
        <5>1. s \ {Chosen(s)} \in SUBSET Delegations
          OBVIOUS
        <5>2. <<s \ {Chosen(s)}, h[s \ {Chosen(s)}]>> \in P
          BY <1>3, <5>1
        <5>. QED
          BY <5>2
      <4>2. g[<<Chosen(s), h[s \ {Chosen(s)}]>>] = Next1(h, s)
        BY <1>2, <3>2, <4>1
      <4> HIDE DEF Next1
      <4>. QED
        BY <3>2, <4>2
    <3>. QED
      BY <3>1, <3>2
  <2> HIDE DEF Next1
  <2>. QED
    BY <2>1, <2>2
<1>5. IsIt(k0)
  <2> HIDE DEF IsIt
  <2>. QED
    BY <1>4, Zenon
<1>6. Delegated(s0, from) = k0[Delegations]
  BY Zenon DEF Delegated, FoldSet, MapThenFoldSet, Chosen
<1> HIDE DEF k0
<1>7. \A s \in SUBSET Delegations : k0[s] = Next1(k0, s)
  <2> HIDE DEF Next1
  <2>. QED
    BY <1>5
<1>8. ASSUME NEW s \in SUBSET Delegations, s # {},
             <<s \ {Chosen(s)}, k0[s \ {Chosen(s)}]>> \in P
      PROVE  <<s, k0[s]>> \in P
  <2>1. k0[s \ {Chosen(s)}] \in StoreType
    BY <1>8
  <2>2. <<s, InitializeDelegation(IncrementPeriod(k0[s \ {Chosen(s)}], ValidatorOf[Chosen(s)]), Chosen(s), from)>> \in P
    BY <1>8, <2>1
  <2>3. k0[s] = InitializeDelegation(IncrementPeriod(k0[s \ {Chosen(s)}], ValidatorOf[Chosen(s)]), Chosen(s), from)
    BY <1>7, <1>8
  <2>. QED
    BY <2>2, <2>3
<1>9. <<{}, k0[{}]>> \in P
  BY <1>7
<1>10. \A s \in SUBSET Delegations : <<s, k0[s]>> \in P
  <2> HIDE DEF IsIt, Next1
  <2>. QED
    BY <1>1, <1>8, <1>9, FoldHolds
<1>. QED
  BY <1>6, <1>10

\* All commissions are withdrawn.
LEMMA CommissionsHold ==
    ASSUME NEW s0 \in StoreType, NEW P \in SUBSET ((SUBSET Validators) \X StoreType),
           <<{}, s0>> \in P,
           ASSUME NEW s \in SUBSET Validators, s # {}, NEW t \in StoreType,
                  <<s \ {Chosen(s)}, t>> \in P
           PROVE  <<s, WithdrawCommission(t, Chosen(s))>> \in P
    PROVE  <<Validators, WithdrawCommissions(s0)>> \in P
<1> DEFINE g == [p \in Validators \X StoreType |-> WithdrawCommission(p[2], p[1])]
           Next1(k, s) == IF s = {} THEN s0
                          ELSE WithdrawCommission(k[s \ {Chosen(s)}], Chosen(s))
           IsIt(k) == k = [s \in SUBSET Validators |-> Next1(k, s)]
           k0 == CHOOSE k : IsIt(k)
<1>1. IsFiniteSet(Validators)
  BY DistributionAssumption
<1>2. ASSUME NEW s \in SUBSET Validators, s # {}, NEW t \in StoreType
      PROVE  g[<<Chosen(s), t>>] = WithdrawCommission(t, Chosen(s))
  <2>1. Chosen(s) \in Validators
    BY <1>2, ChosenIsElement
  <2>. QED
    BY <2>1
<1> HIDE DEF g
<1>3. PICK h : IsRun(h, s0, g, Validators) /\ \A s \in SUBSET Validators : <<s, h[s]>> \in P
  <2>1. ASSUME NEW s \in SUBSET Validators, s # {}, NEW t \in StoreType,
               <<s \ {Chosen(s)}, t>> \in P
        PROVE  <<s, g[<<Chosen(s), t>>]>> \in P
    <3>1. <<s, WithdrawCommission(t, Chosen(s))>> \in P
      BY <2>1
    <3>. QED
      BY <1>2, <2>1, <3>1
  <2>2. Keeps(g, Validators, StoreType, P)
    BY <2>1 DEF Keeps
  <2> HIDE DEF IsIt, Next1, k0
  <2>3. RunsInto(g, s0, Validators, P)
    BY <1>1, <2>2, FoldRuns
  <2>. QED
    BY <2>3, Zenon DEF RunsInto
<1>4. IsIt(h)
  <2>1. h = [s \in SUBSET Validators |-> IF s = {} THEN s0
                                  ELSE g[<<Chosen(s), h[s \ {Chosen(s)}]>>]]
    BY <1>3, Zenon DEF IsRun
  <2>2. ASSUME NEW s \in SUBSET Validators
        PROVE  (IF s = {} THEN s0 ELSE g[<<Chosen(s), h[s \ {Chosen(s)}]>>]) = Next1(h, s)
    <3>1. CASE s = {}
      BY <3>1
    <3>2. CASE s # {}
      <4>1. h[s \ {Chosen(s)}] \in StoreType
        <5>1. s \ {Chosen(s)} \in SUBSET Validators
          OBVIOUS
        <5>2. <<s \ {Chosen(s)}, h[s \ {Chosen(s)}]>> \in P
          BY <1>3, <5>1
        <5>. QED
          BY <5>2
      <4>2. g[<<Chosen(s), h[s \ {Chosen(s)}]>>] = Next1(h, s)
        BY <1>2, <3>2, <4>1
      <4> HIDE DEF Next1
      <4>. QED
        BY <3>2, <4>2
    <3>. QED
      BY <3>1, <3>2
  <2> HIDE DEF Next1
  <2>. QED
    BY <2>1, <2>2
<1>5. IsIt(k0)
  <2> HIDE DEF IsIt
  <2>. QED
    BY <1>4, Zenon
<1>6. WithdrawCommissions(s0) = k0[Validators]
  BY Zenon DEF WithdrawCommissions, FoldSet, MapThenFoldSet, Chosen
<1> HIDE DEF k0
<1>7. \A s \in SUBSET Validators : k0[s] = Next1(k0, s)
  <2> HIDE DEF Next1
  <2>. QED
    BY <1>5
<1>8. ASSUME NEW s \in SUBSET Validators, s # {},
             <<s \ {Chosen(s)}, k0[s \ {Chosen(s)}]>> \in P
      PROVE  <<s, k0[s]>> \in P
  <2>1. k0[s \ {Chosen(s)}] \in StoreType
    BY <1>8
  <2>2. <<s, WithdrawCommission(k0[s \ {Chosen(s)}], Chosen(s))>> \in P
    BY <1>8, <2>1
  <2>3. k0[s] = WithdrawCommission(k0[s \ {Chosen(s)}], Chosen(s))
    BY <1>7, <1>8
  <2>. QED
    BY <2>2, <2>3
<1>9. <<{}, k0[{}]>> \in P
  BY <1>7
<1>10. \A s \in SUBSET Validators : <<s, k0[s]>> \in P
  <2> HIDE DEF IsIt, Next1
  <2>. QED
    BY <1>1, <1>8, <1>9, FoldHolds
<1>. QED
  BY <1>6, <1>10

\* The rewards of all delegations are withdrawn.
LEMMA RewardsHold ==
    ASSUME NEW s0 \in StoreType, NEW P \in SUBSET ((SUBSET Delegations) \X StoreType),
           <<{}, s0>> \in P,
           ASSUME NEW s \in SUBSET Delegations, s # {}, NEW t \in StoreType,
                  <<s \ {Chosen(s)}, t>> \in P
           PROVE  <<s, WithdrawRewards(t, Chosen(s), height)>> \in P
    PROVE  <<Delegations, WithdrawAllRewards(s0)>> \in P
<1> DEFINE g == [p \in Delegations \X StoreType |-> WithdrawRewards(p[2], p[1], height)]
           Next1(k, s) == IF s = {} THEN s0
                          ELSE WithdrawRewards(k[s \ {Chosen(s)}], Chosen(s), height)
           IsIt(k) == k = [s \in SUBSET Delegations |-> Next1(k, s)]
           k0 == CHOOSE k : IsIt(k)
<1>1. IsFiniteSet(Delegations)
  BY DistributionAssumption
<1>2. ASSUME NEW s \in SUBSET Delegations, s # {}, NEW t \in StoreType
      PROVE  g[<<Chosen(s), t>>] = WithdrawRewards(t, Chosen(s), height)
  <2>1. Chosen(s) \in Delegations
    BY <1>2, ChosenIsElement
  <2>. QED
    BY <2>1
<1> HIDE DEF g
<1>3. PICK h : IsRun(h, s0, g, Delegations) /\ \A s \in SUBSET Delegations : <<s, h[s]>> \in P
  <2>1. ASSUME NEW s \in SUBSET Delegations, s # {}, NEW t \in StoreType,
               <<s \ {Chosen(s)}, t>> \in P
        PROVE  <<s, g[<<Chosen(s), t>>]>> \in P
    <3>1. <<s, WithdrawRewards(t, Chosen(s), height)>> \in P
      BY <2>1
    <3>. QED
      BY <1>2, <2>1, <3>1
  <2>2. Keeps(g, Delegations, StoreType, P)
    BY <2>1 DEF Keeps
  <2> HIDE DEF IsIt, Next1, k0
  <2>3. RunsInto(g, s0, Delegations, P)
    BY <1>1, <2>2, FoldRuns
  <2>. QED
    BY <2>3, Zenon DEF RunsInto
<1>4. IsIt(h)
  <2>1. h = [s \in SUBSET Delegations |-> IF s = {} THEN s0
                                  ELSE g[<<Chosen(s), h[s \ {Chosen(s)}]>>]]
    BY <1>3, Zenon DEF IsRun
  <2>2. ASSUME NEW s \in SUBSET Delegations
        PROVE  (IF s = {} THEN s0 ELSE g[<<Chosen(s), h[s \ {Chosen(s)}]>>]) = Next1(h, s)
    <3>1. CASE s = {}
      BY <3>1
    <3>2. CASE s # {}
      <4>1. h[s \ {Chosen(s)}] \in StoreType
        <5>1. s \ {Chosen(s)} \in SUBSET Delegations
          OBVIOUS
        <5>2. <<s \ {Chosen(s)}, h[s \ {Chosen(s)}]>> \in P
          BY <1>3, <5>1
        <5>. QED
          BY <5>2
      <4>2. g[<<Chosen(s), h[s \ {Chosen(s)}]>>] = Next1(h, s)
        BY <1>2, <3>2, <4>1
      <4> HIDE DEF Next1
      <4>. QED
        BY <3>2, <4>2
    <3>. QED
      BY <3>1, <3>2
  <2> HIDE DEF Next1
  <2>. QED
    BY <2>1, <2>2
<1>5. IsIt(k0)
  <2> HIDE DEF IsIt
  <2>. QED
    BY <1>4, Zenon
<1>6. WithdrawAllRewards(s0) = k0[Delegations]
  BY Zenon DEF WithdrawAllRewards, FoldSet, MapThenFoldSet, Chosen
<1> HIDE DEF k0
<1>7. \A s \in SUBSET Delegations : k0[s] = Next1(k0, s)
  <2> HIDE DEF Next1
  <2>. QED
    BY <1>5
<1>8. ASSUME NEW s \in SUBSET Delegations, s # {},
             <<s \ {Chosen(s)}, k0[s \ {Chosen(s)}]>> \in P
      PROVE  <<s, k0[s]>> \in P
  <2>1. k0[s \ {Chosen(s)}] \in StoreType
    BY <1>8
  <2>2. <<s, WithdrawRewards(k0[s \ {Chosen(s)}], Chosen(s), height)>> \in P
    BY <1>8, <2>1
  <2>3. k0[s] = WithdrawRewards(k0[s \ {Chosen(s)}], Chosen(s), height)
    BY <1>7, <1>8
  <2>. QED
    BY <2>2, <2>3
<1>9. <<{}, k0[{}]>> \in P
  BY <1>7
<1>10. \A s \in SUBSET Delegations : <<s, k0[s]>> \in P
  <2> HIDE DEF IsIt, Next1
  <2>. QED
    BY <1>1, <1>8, <1>9, FoldHolds
<1>. QED
  BY <1>6, <1>10

\* All validators start anew.
Anew(s, v) ==
    InitializeValidator([s EXCEPT !.community = @ + s.validators[v].outstanding], v)

\* All validators have started anew.
LEMMA ReinitializedHold ==
    ASSUME NEW s0 \in StoreType, NEW P \in SUBSET ((SUBSET Validators) \X StoreType),
           <<{}, s0>> \in P,
           ASSUME NEW s \in SUBSET Validators, s # {}, NEW t \in StoreType,
                  <<s \ {Chosen(s)}, t>> \in P
           PROVE  <<s, Anew(t, Chosen(s))>> \in P
    PROVE  <<Validators, ReinitializeValidators(s0)>> \in P
<1> DEFINE g == [p \in Validators \X StoreType |-> Anew(p[2], p[1])]
           Next1(k, s) == IF s = {} THEN s0
                          ELSE Anew(k[s \ {Chosen(s)}], Chosen(s))
           IsIt(k) == k = [s \in SUBSET Validators |-> Next1(k, s)]
           k0 == CHOOSE k : IsIt(k)
<1>1. IsFiniteSet(Validators)
  BY DistributionAssumption
<1>2. ASSUME NEW s \in SUBSET Validators, s # {}, NEW t \in StoreType
      PROVE  g[<<Chosen(s), t>>] = Anew(t, Chosen(s))
  <2>1. Chosen(s) \in Validators
    BY <1>2, ChosenIsElement
  <2>. QED
    BY <2>1
<1> HIDE DEF g
<1>3. PICK h : IsRun(h, s0, g, Validators) /\ \A s \in SUBSET Validators : <<s, h[s]>> \in P
  <2>1. ASSUME NEW s \in SUBSET Validators, s # {}, NEW t \in StoreType,
               <<s \ {Chosen(s)}, t>> \in P
        PROVE  <<s, g[<<Chosen(s), t>>]>> \in P
    <3>1. <<s, Anew(t, Chosen(s))>> \in P
      BY <2>1
    <3>. QED
      BY <1>2, <2>1, <3>1
  <2>2. Keeps(g, Validators, StoreType, P)
    BY <2>1 DEF Keeps
  <2> HIDE DEF IsIt, Next1, k0
  <2>3. RunsInto(g, s0, Validators, P)
    BY <1>1, <2>2, FoldRuns
  <2>. QED
    BY <2>3, Zenon DEF RunsInto
<1>4. IsIt(h)
  <2>1. h = [s \in SUBSET Validators |-> IF s = {} THEN s0
                                  ELSE g[<<Chosen(s), h[s \ {Chosen(s)}]>>]]
    BY <1>3, Zenon DEF IsRun
  <2>2. ASSUME NEW s \in SUBSET Validators
        PROVE  (IF s = {} THEN s0 ELSE g[<<Chosen(s), h[s \ {Chosen(s)}]>>]) = Next1(h, s)
    <3>1. CASE s = {}
      BY <3>1
    <3>2. CASE s # {}
      <4>1. h[s \ {Chosen(s)}] \in StoreType
        <5>1. s \ {Chosen(s)} \in SUBSET Validators
          OBVIOUS
        <5>2. <<s \ {Chosen(s)}, h[s \ {Chosen(s)}]>> \in P
          BY <1>3, <5>1
        <5>. QED
          BY <5>2
      <4>2. g[<<Chosen(s), h[s \ {Chosen(s)}]>>] = Next1(h, s)
        BY <1>2, <3>2, <4>1
      <4> HIDE DEF Next1
      <4>. QED
        BY <3>2, <4>2
    <3>. QED
      BY <3>1, <3>2
  <2> HIDE DEF Next1
  <2>. QED
    BY <2>1, <2>2
<1>5. IsIt(k0)
  <2> HIDE DEF IsIt
  <2>. QED
    BY <1>4, Zenon
<1>6. ReinitializeValidators(s0) = k0[Validators]
  BY Zenon DEF ReinitializeValidators, Anew, FoldSet, MapThenFoldSet, Chosen
<1> HIDE DEF k0
<1>7. \A s \in SUBSET Validators : k0[s] = Next1(k0, s)
  <2> HIDE DEF Next1
  <2>. QED
    BY <1>5
<1>8. ASSUME NEW s \in SUBSET Validators, s # {},
             <<s \ {Chosen(s)}, k0[s \ {Chosen(s)}]>> \in P
      PROVE  <<s, k0[s]>> \in P
  <2>1. k0[s \ {Chosen(s)}] \in StoreType
    BY <1>8
  <2>2. <<s, Anew(k0[s \ {Chosen(s)}], Chosen(s))>> \in P
    BY <1>8, <2>1
  <2>3. k0[s] = Anew(k0[s \ {Chosen(s)}], Chosen(s))
    BY <1>7, <1>8
  <2>. QED
    BY <2>2, <2>3
<1>9. <<{}, k0[{}]>> \in P
  BY <1>7
<1>10. \A s \in SUBSET Validators : <<s, k0[s]>> \in P
  <2> HIDE DEF IsIt, Next1
  <2>. QED
    BY <1>1, <1>8, <1>9, FoldHolds
<1>. QED
  BY <1>6, <1>10

-----------------------------------------------------------------------------
(* Periods that end one after the other.                                   *)

\* From s to t, periods have ended for all delegations but R.
PeriodsEnded(s, t, R) ==
    \A v \in Validators :
       t.validators[v].period + Cardinality(R \cap DelegationsTo(v))
          = s.validators[v].period + Cardinality(DelegationsTo(v))

\* One period of one validator has ended.
OnePeriod(s, t, v) ==
    /\ t.validators[v].period = s.validators[v].period + 1
    /\ \A w \in Validators \ {v} : t.validators[w] = s.validators[w]

\* One delegation less to end a period for.
LEMMA PeriodTaken ==
    ASSUME NEW s \in StoreType, NEW t \in StoreType, NEW u \in StoreType,
           NEW R \in SUBSET Delegations, NEW d \in R, NEW v, v = ValidatorOf[d],
           PeriodsEnded(s, t, R), OnePeriod(t, u, v)
    PROVE  PeriodsEnded(s, u, R \ {d})
<1>1. v \in Validators /\ d \in DelegationsTo(v)
  BY InfoIsTyped
<1>2. ASSUME NEW w \in Validators
      PROVE  u.validators[w].period + Cardinality((R \ {d}) \cap DelegationsTo(w))
                = s.validators[w].period + Cardinality(DelegationsTo(w))
  <2> DEFINE L == R \cap DelegationsTo(w)
             M == (R \ {d}) \cap DelegationsTo(w)
  <2>1. IsFiniteSet(L) /\ Cardinality(L) \in Nat
    <3>1. L \in SUBSET DelegationsTo(w)
      OBVIOUS
    <3> HIDE DEF L
    <3>. QED
      BY <3>1, LinksFinite
  <2>2. t.validators[w].period \in Nat /\ s.validators[w].period \in Nat
    BY StoreIsTyped DEF RecordTyped
  <2>3. t.validators[w].period + Cardinality(L)
           = s.validators[w].period + Cardinality(DelegationsTo(w))
    BY DEF PeriodsEnded
  <2>4. CASE w = v
    <3>1. d \in L /\ M = L \ {d}
      BY <1>1, <2>4
    <3> HIDE DEF L, M
    <3>2. Cardinality(M) = Cardinality(L) - 1
      BY <2>1, <3>1, FS_RemoveElement
    <3>3. u.validators[w].period = t.validators[w].period + 1
      BY <2>4 DEF OnePeriod
    <3>4. u.validators[w].period + Cardinality(M) = t.validators[w].period + Cardinality(L)
      BY <2>1, <2>2, <3>2, <3>3
    <3>. QED
      BY <2>3, <3>4 DEF M
  <2>5. CASE w # v
    <3>1. M = L
      BY <2>5 DEF DelegationsTo
    <3>. QED
      BY <2>3, <2>5, <3>1 DEF OnePeriod
  <2>. QED
    BY <2>4, <2>5
<1>. QED
  BY <1>2 DEF PeriodsEnded

\* While a delegation is left there is room for its period.
LEMMA RoomLeft ==
    ASSUME NEW s \in StoreType, NEW t \in StoreType,
           NEW R \in SUBSET Delegations, NEW d \in R, NEW v, v = ValidatorOf[d],
           PeriodsEnded(s, t, R), RoomFor(s, Delegations)
    PROVE  t.validators[v].period < MaxPeriod
<1> DEFINE L == R \cap DelegationsTo(v)
<1>1. v \in Validators /\ d \in L
  BY InfoIsTyped
<1>2. IsFiniteSet(L) /\ Cardinality(L) \in Nat
  <2>1. L \in SUBSET DelegationsTo(v)
    OBVIOUS
  <2> HIDE DEF L
  <2>. QED
    BY <1>1, <2>1, LinksFinite
<1>3. Cardinality(L) # 0
  <2> HIDE DEF L
  <2>. QED
    BY <1>1, <1>2, FS_EmptySet
<1>4. t.validators[v].period + Cardinality(L)
         = s.validators[v].period + Cardinality(DelegationsTo(v))
  BY <1>1 DEF PeriodsEnded
<1>5. s.validators[v].period + Cardinality(DelegationsTo(v)) <= MaxPeriod
  <2>1. Delegations \cap DelegationsTo(v) = DelegationsTo(v)
    BY DEF DelegationsTo
  <2>. QED
    BY <1>1, <2>1 DEF RoomFor
<1>6. t.validators[v].period \in Nat /\ MaxPeriod \in Nat
  BY <1>1, StoreIsTyped, DistributionAssumption DEF RecordTyped
<1> HIDE DEF L
<1>. QED
  BY <1>2, <1>3, <1>4, <1>5, <1>6

\* At the start no period has ended.
LEMMA NothingEnded ==
    ASSUME NEW s
    PROVE  PeriodsEnded(s, s, Delegations)
<1>1. \A v \in Validators : Delegations \cap DelegationsTo(v) = DelegationsTo(v)
  BY DEF DelegationsTo
<1>. QED
  BY <1>1 DEF PeriodsEnded

\* At the end one has for each delegation.
LEMMA AllEnded ==
    ASSUME NEW s \in StoreType, NEW t \in StoreType, PeriodsEnded(s, t, {}),
           NEW v \in Validators
    PROVE  t.validators[v].period = s.validators[v].period + Cardinality(DelegationsTo(v))
<1>1. {} \cap DelegationsTo(v) = {} /\ Cardinality({}) = 0
  BY FS_EmptySet
<1>2. t.validators[v].period + Cardinality({})
         = s.validators[v].period + Cardinality(DelegationsTo(v))
  BY <1>1 DEF PeriodsEnded
<1>3. t.validators[v].period \in Nat
  BY StoreIsTyped DEF RecordTyped
<1>. QED
  BY <1>1, <1>2, <1>3

-----------------------------------------------------------------------------
(* All delegations start to count.                                         *)

\* One delegation ends a period and starts to count.
LEMMA JoinSound ==
    ASSUME NEW s, NEW D \in SUBSET Delegations, NEW d \in Delegations \ D,
           NEW h \in Nat, Sound(s, D, h), NEW v, v = ValidatorOf[d],
           s.validators[v].period < MaxPeriod,
           NEW t, t = InitializeDelegation(IncrementPeriod(s, v), d, h)
    PROVE  /\ Sound(t, D \cup {d}, h)
           /\ OnePeriod(s, t, v)
           /\ t.wallets = s.wallets
<1> DEFINE a == IncrementPeriod(s, v)
           L == D \cap DelegationsTo(v)
<1>1. v \in Validators /\ d \in DelegationsTo(v) /\ s \in StoreType
  BY SoundIs, InfoIsTyped
<1>2. Fits(s, L, v, h) /\ L \in SUBSET DelegationsTo(v) /\ Account(s) /\ d \notin L
  BY <1>1, SoundIs
<1> HIDE DEF L
<1>3. /\ a \in StoreType
      /\ Incremented(s, a, v)
      /\ a.panic = s.panic
      /\ Fits(a, L, v, h)
      /\ FreshPeriod(a, L, v)
  BY <1>1, <1>2, IncrementFits
<1> HIDE DEF a
<1>4. /\ t \in StoreType
      /\ Initialized(a, t, d, h)
      /\ t.panic = a.panic
      /\ Fits(t, L \cup {d}, v, h)
  <2>1. t = InitializeDelegation(a, d, h)
    BY DEF a
  <2>. QED
    BY <1>1, <1>2, <1>3, <2>1, InitializeFits
<1>5. /\ a.infos = s.infos
      /\ a.wallets = s.wallets
      /\ \A w \in Validators \ {v} : a.validators[w] = s.validators[w]
      /\ a.validators[v].period = s.validators[v].period + 1
  BY <1>3, Zenon DEF Incremented
<1>6. /\ \E info : t.infos = [a.infos EXCEPT ![d] = info]
      /\ t.wallets = a.wallets
      /\ \A w \in Validators \ {v} : t.validators[w] = a.validators[w]
      /\ t.validators[v].period = a.validators[v].period
  BY <1>4, Zenon DEF Initialized
<1>7. Account(t)
  <2>1. Account(a)
    BY <1>1, <1>2, <1>3, IncrementAccount
  <2>. QED
    BY <1>1, <1>3, <1>4, <2>1, InitializeAccount
<1>8. \A e \in D \ DelegationsTo(v) : t.infos[e] = s.infos[e]
  <2>1. DOMAIN a.infos = Delegations
    BY <1>3 DEF StoreType
  <2>. QED
    BY <1>1, <1>5, <1>6, <2>1
<1>9. \A w \in Validators \ {v} :
         /\ t.validators[w] = s.validators[w]
         /\ (D \cup {d}) \cap DelegationsTo(w) = D \cap DelegationsTo(w)
  BY <1>5, <1>6 DEF DelegationsTo
<1>10. (D \cup {d}) \cap DelegationsTo(v) = L \cup {d}
  BY <1>1 DEF L
<1>11. Sound(t, D \cup {d}, h)
  <2> DEFINE E == D \cup {d}
  <2>1. E \in SUBSET Delegations /\ Fits(t, E \cap DelegationsTo(v), v, h)
    BY <1>4, <1>10
  <2>2. t.panic = s.panic
    BY <1>3, <1>4
  <2>3. \A w \in Validators \ {v} : /\ t.validators[w] = s.validators[w]
                                    /\ E \cap DelegationsTo(w) = D \cap DelegationsTo(w)
    BY <1>9
  <2> HIDE DEF E
  <2>4. h <= h
    OBVIOUS
  <2>5. Sound(t, E, h)
    BY <1>1, <1>4, <1>7, <1>8, <2>1, <2>2, <2>3, <2>4, SoundKept
  <2>. QED
    BY <2>5 DEF E
<1>. QED
  BY <1>5, <1>6, <1>9, <1>11 DEF OnePeriod

\* Each validator has gone through a period for each of its delegations.
LEMMA DelegatedSound ==
    ASSUME NEW s, NEW h \in Nat, Sound(s, {}, h), RoomFor(s, Delegations)
    PROVE  /\ Sound(Delegated(s, h), Delegations, h)
           /\ PeriodsEnded(s, Delegated(s, h), {})
           /\ Delegated(s, h).wallets = s.wallets
<1> DEFINE Good(U, t) == /\ Sound(t, U, h)
                         /\ PeriodsEnded(s, t, Delegations \ U)
                         /\ t.wallets = s.wallets
           P == {p \in (SUBSET Delegations) \X StoreType : Good(p[1], p[2])}
<1>1. s \in StoreType
  BY DEF Sound
<1>2. <<{}, s>> \in P
  <2>1. Delegations \ {} = Delegations
    OBVIOUS
  <2>. QED
    BY <1>1, <2>1, NothingEnded
<1>3. ASSUME NEW U \in SUBSET Delegations, U # {}, NEW t \in StoreType,
             <<U \ {Chosen(U)}, t>> \in P
      PROVE  <<U, InitializeDelegation(IncrementPeriod(t, ValidatorOf[Chosen(U)]),
                                       Chosen(U), h)>> \in P
  <2> DEFINE d == Chosen(U)
             v == ValidatorOf[d]
             D == U \ {d}
             u == InitializeDelegation(IncrementPeriod(t, v), d, h)
  <2>1. d \in U /\ d \in Delegations \ D /\ D \in SUBSET Delegations
        /\ D \cup {d} = U /\ (Delegations \ D) \ {d} = Delegations \ U
    BY <1>3, ChosenIsElement
  <2>2. Sound(t, D, h) /\ PeriodsEnded(s, t, Delegations \ D) /\ t.wallets = s.wallets
    BY <1>3
  <2> HIDE DEF P, d, D
  <2>3. t.validators[v].period < MaxPeriod
    BY <1>1, <2>1, <2>2, RoomLeft
  <2>4. Sound(u, D \cup {d}, h) /\ OnePeriod(t, u, v) /\ u.wallets = t.wallets
    BY <2>1, <2>2, <2>3, JoinSound
  <2> HIDE DEF u
  <2>5. u \in StoreType
    BY <2>4 DEF Sound
  <2>6. PeriodsEnded(s, u, (Delegations \ D) \ {d})
    BY <1>1, <2>1, <2>2, <2>4, <2>5, PeriodTaken
  <2>7. Good(U, u)
    BY <2>1, <2>2, <2>4, <2>6
  <2>. QED
    BY <2>5, <2>7 DEF P, u, d
<1>4. P \in SUBSET ((SUBSET Delegations) \X StoreType)
  OBVIOUS
<1>5. <<Delegations, Delegated(s, h)>> \in P
  <2> HIDE DEF P
  <2>. QED
    BY <1>1, <1>2, <1>3, <1>4, DelegatedHolds
<1>6. Delegations \ Delegations = {}
  OBVIOUS
<1>. QED
  BY <1>5, <1>6

-----------------------------------------------------------------------------
(* Validators that start anew.                                             *)

\* A history with the first entry only, and no slashes.
FirstHistory == [p \in Periods |-> IF p = 0 THEN [ratio |-> 0, refs |-> 1] ELSE Absent]

\* No slash at any period.
NoSlashes == [p \in Periods |-> NoSlash]

\* What InitializeValidator leaves, with no slashes.
StartsAnew(val) ==
    /\ val.outstanding = 0
    /\ val.commission = 0
    /\ val.current = 0
    /\ val.period = 1
    /\ val.history = FirstHistory
    /\ val.slashes = NoSlashes

\* The first two periods are within the bound.
LEMMA FirstPeriods == 0 \in Periods /\ 1 \in Periods
BY DistributionAssumption DEF Periods

\* Its account fits, before anybody delegates.
LEMMA AnewFits ==
    ASSUME NEW s \in StoreType, NEW v \in Validators, StartsAnew(s.validators[v])
    PROVE  /\ Fits(s, {}, v, 0)
           /\ s.validators[v].period = 1
<1> DEFINE val == s.validators[v]
<1>1. /\ val.outstanding = 0 /\ val.commission = 0 /\ val.current = 0
      /\ val.period = 1 /\ val.history = FirstHistory /\ val.slashes = NoSlashes
  BY DEF StartsAnew
<1>2. Ended(s, v) = 0
  BY <1>1 DEF Ended
<1>3. ASSUME NEW p \in Periods
      PROVE  /\ val.history[p].refs = (IF p = 0 THEN 1 ELSE 0)
             /\ val.history[p].ratio = 0
             /\ val.slashes[p] = NoSlash
             /\ val.slashes[p].fraction = 0
  <2>1. val.history[p] = (IF p = 0 THEN [ratio |-> 0, refs |-> 1] ELSE Absent)
    BY <1>1 DEF FirstHistory
  <2>2. val.slashes[p] = NoSlash
    BY <1>1 DEF NoSlashes
  <2> HIDE DEF val
  <2>. QED
    BY <2>1, <2>2 DEF Absent, NoSlash
<1> HIDE DEF val
<1>4. RefsFit(s, {}, v)
  <2>1. ASSUME NEW p \in Periods
        PROVE  val.history[p].refs = Bit(p = 0) + Bit(CountedAt(s, {}, p))
                                        + Bit(val.slashes[p].fraction > 0)
    <3>1. ~ CountedAt(s, {}, p) /\ ~ (val.slashes[p].fraction > 0)
      BY <1>3 DEF CountedAt
    <3>2. Bit(CountedAt(s, {}, p)) = 0 /\ Bit(val.slashes[p].fraction > 0) = 0
      BY <3>1 DEF Bit
    <3>. QED
      BY <1>3, <3>2 DEF Bit
  <2>. QED
    BY <1>1, <1>2, <2>1 DEF RefsFit, val
<1>5. SlashesFit(s, v, 0)
  BY <1>3 DEF SlashesFit, val
<1>6. RatiosGrow(s, v)
  BY <1>3 DEF RatiosGrow, val
<1>7. Covered(s, {}, v, 0)
  <2>1. SumFunctionOnSet([d \in {} |-> Owed(s, d, 0)], {}) = 0
    BY SumEmpty
  <2>2. One * (0 + 0) + 0 <= One * 0
    BY OneAssumption
  <2>. QED
    BY <1>1, <2>1, <2>2 DEF Covered, val
<1>8. Distinct(s, {})
  BY DEF Distinct
<1>. QED
  BY <1>1, <1>4, <1>5, <1>6, <1>7, <1>8 DEF Fits, val

\* A store of such validators is sound with nobody counting.
LEMMA AnewSound ==
    ASSUME NEW s \in StoreType, ~ s.panic, Account(s),
           \A v \in Validators : StartsAnew(s.validators[v])
    PROVE  /\ Sound(s, {}, 0)
           /\ RoomFor(s, Delegations)
           /\ \A v \in Validators : s.validators[v].period = 1
<1>1. ASSUME NEW v \in Validators
      PROVE  /\ Fits(s, {} \cap DelegationsTo(v), v, 0)
             /\ s.validators[v].period = 1
             /\ s.validators[v].period + Cardinality(Delegations \cap DelegationsTo(v))
                   <= MaxPeriod
  <2>1. {} \cap DelegationsTo(v) = {} /\ Delegations \cap DelegationsTo(v) = DelegationsTo(v)
    BY DEF DelegationsTo
  <2>2. Fits(s, {}, v, 0) /\ s.validators[v].period = 1
    BY AnewFits
  <2>3. Cardinality(DelegationsTo(v)) \in Nat /\ MaxPeriod \in Nat \ {0}
        /\ 2 * Cardinality(DelegationsTo(v)) < MaxPeriod
    BY LinksFinite, HeightZeroAssumption, DistributionAssumption
  <2>4. \A n \in Nat, m \in Nat : 2 * n < m => 1 + n <= m \/ m = 0
    OBVIOUS
  <2>5. 1 + Cardinality(DelegationsTo(v)) <= MaxPeriod
    <3> DEFINE n == Cardinality(DelegationsTo(v))
    <3>1. n \in Nat /\ 2 * n < MaxPeriod
      BY <2>3
    <3> HIDE DEF n
    <3>2. 1 + n <= MaxPeriod
      BY <2>3, <2>4, <3>1
    <3>. QED
      BY <3>2 DEF n
  <2>. QED
    BY <2>1, <2>2, <2>5
<1>. QED
  BY <1>1 DEF Sound, RoomFor

\* So is the store a chain starts with.
LEMMA NewStoreSound ==
    /\ Sound(NewStore, {}, 0)
    /\ RoomFor(NewStore, Delegations)
    /\ \A v \in Validators : NewStore.validators[v].period = 1
<1> DEFINE new(v) == [tokens      |-> TotalShares(v),
                      outstanding |-> 0,
                      commission  |-> 0,
                      current     |-> 0,
                      period      |-> 1,
                      history     |-> FirstHistory,
                      slashes     |-> NoSlashes]
           vals == [v \in Validators |-> new(v)]
           infos == [d \in Delegations |-> [period |-> 0, stake |-> 0, height |-> 0]]
           wallets == [o \in Owners |-> 0]
<1>1. NewStore = [validators |-> vals, infos |-> infos, community |-> 0, balance |-> 0,
                  wallets |-> wallets, panic |-> FALSE]
  BY Zenon DEF NewStore, FirstHistory, NoSlashes
<1>2. FirstHistory \in [Periods -> [ratio : Nat, refs : 0..2]]
      /\ NoSlashes \in [Periods -> [height : Nat, fraction : 0..One]]
  <2>1. [ratio |-> 0, refs |-> 1] \in [ratio : Nat, refs : 0..2]
        /\ Absent \in [ratio : Nat, refs : 0..2]
        /\ NoSlash \in [height : Nat, fraction : 0..One]
    BY OneAssumption DEF Absent, NoSlash
  <2>. QED
    BY <2>1 DEF FirstHistory, NoSlashes
<1>3. ASSUME NEW v \in Validators
      PROVE  new(v) \in ValidatorRecord
  <2> DEFINE T == TotalShares(v)
  <2>1. T \in Nat
    <3>1. IsFiniteSet(DelegationsTo(v)) /\ \A d \in DelegationsTo(v) : Shares[d] \in Nat
      BY DistributionAssumption, FS_Subset DEF DelegationsTo
    <3>. QED
      BY <3>1, SumNat DEF TotalShares
  <2> HIDE DEF T
  <2>. QED
    BY <1>2, <2>1, FirstPeriods DEF ValidatorRecord, T
<1>4. vals \in [Validators -> ValidatorRecord]
  <2> HIDE DEF new
  <2>. QED
    BY <1>3
<1>5. infos \in [Delegations -> StartingInfo] /\ wallets \in [Owners -> Nat]
  BY FirstPeriods DEF StartingInfo
<1>6. \A v \in Validators : StartsAnew(vals[v]) /\ vals[v].outstanding = 0
  BY DEF StartsAnew
<1> HIDE DEF vals, infos, wallets
<1>7. NewStore \in StoreType
  BY <1>1, <1>4, <1>5 DEF StoreType
<1>8. /\ NewStore.validators = vals /\ NewStore.balance = 0 /\ NewStore.community = 0
      /\ NewStore.panic = FALSE
  BY <1>1
<1>9. Account(NewStore)
  <2> DEFINE f == [v \in Validators |-> NewStore.validators[v].outstanding]
  <2>1. \A v \in Validators : f[v] \in Int /\ f[v] = 0 * f[v]
    BY <1>6, <1>8
  <2> HIDE DEF f
  <2>2. IsFiniteSet(Validators) /\ 0 \in Int
    BY DistributionAssumption
  <2>3. SumFunctionOnSet(f, Validators) = 0 * SumFunctionOnSet(f, Validators)
        /\ SumFunctionOnSet(f, Validators) \in Int
    BY <2>1, <2>2, SumScales, SumType
  <2>4. SumFunctionOnSet(f, Validators) = 0
    BY <2>3
  <2>5. 0 * One = 0 + 0
    BY OneAssumption
  <2>. QED
    BY <1>8, <2>4, <2>5 DEF Account, DecFromInt, f
<1>. QED
  BY <1>6, <1>7, <1>8, <1>9, AnewSound

\* What a query on periods and slashes finds after they are deleted.
Cleared(val) ==
    /\ val.history = [p \in Periods |-> Absent]
    /\ val.slashes = NoSlashes

\* Forgetting the history does that, and moves no amount.
LEMMA ForgetClears ==
    ASSUME NEW s \in StoreType, ~ s.panic, Account(s)
    PROVE  /\ ForgetHistory(s) \in StoreType
           /\ ~ ForgetHistory(s).panic
           /\ Account(ForgetHistory(s))
           /\ ForgetHistory(s).wallets = s.wallets
           /\ \A v \in Validators : Cleared(ForgetHistory(s).validators[v])
<1> DEFINE none == [p \in Periods |-> Absent]
           new(val) == [val EXCEPT !.slashes = NoSlashes, !.history = none]
           vals == [v \in Validators |-> new(s.validators[v])]
           t == ForgetHistory(s)
<1>1. none \in [Periods -> [ratio : Nat, refs : 0..2]]
      /\ NoSlashes \in [Periods -> [height : Nat, fraction : 0..One]]
  <2>1. Absent \in [ratio : Nat, refs : 0..2] /\ NoSlash \in [height : Nat, fraction : 0..One]
    BY OneAssumption DEF Absent, NoSlash
  <2>. QED
    BY <2>1 DEF NoSlashes
<1>2. ASSUME NEW val \in ValidatorRecord
      PROVE  /\ new(val) \in ValidatorRecord
             /\ Cleared(new(val))
             /\ new(val).outstanding = val.outstanding
  <2> HIDE DEF none
  <2>. QED
    BY <1>1 DEF ValidatorRecord, Cleared, none
<1>3. t = [s EXCEPT !.validators = vals]
  <2>1. DOMAIN s.validators = Validators
    BY StoreIsTyped
  <2>. QED
    BY <2>1 DEF ForgetHistory, NoSlashes, StoreType
<1>4. \A v \in Validators : s.validators[v] \in ValidatorRecord
  BY DEF StoreType
<1> HIDE DEF new
<1>5. vals \in [Validators -> ValidatorRecord]
      /\ \A v \in Validators : /\ Cleared(vals[v])
                               /\ vals[v].outstanding = s.validators[v].outstanding
  BY <1>2, <1>4
<1> HIDE DEF vals, t
<1>6. t \in StoreType
  BY <1>3, <1>5 DEF StoreType
<1>7. /\ t.validators = vals /\ t.balance = s.balance /\ t.community = s.community
      /\ t.panic = s.panic /\ t.wallets = s.wallets
  BY <1>3 DEF StoreType
<1>8. Account(t)
  <2>1. [v \in Validators |-> t.validators[v].outstanding]
          = [v \in Validators |-> s.validators[v].outstanding]
    BY <1>5, <1>7
  <2>. QED
    BY <1>7, <2>1 DEF Account
<1>. QED
  BY <1>5, <1>6, <1>7, <1>8 DEF t

\* What a validator that starts anew changes.
StartedAnew(s, t, v) ==
    /\ t \in StoreType
    /\ t.panic = s.panic
    /\ Account(t)
    /\ t.wallets = s.wallets
    /\ StartsAnew(t.validators[v])
    /\ \A w \in Validators \ {v} : t.validators[w] = s.validators[w]

\* Starting a validator anew, after its outstanding went to the community,
\* does that.
LEMMA AnewFields ==
    ASSUME NEW s \in StoreType, NEW v \in Validators, Cleared(s.validators[v]), Account(s)
    PROVE  StartedAnew(s, Anew(s, v), v)
<1> DEFINE val == s.validators[v]
           first == [ratio |-> 0, refs |-> 1]
           none == [p \in Periods |-> Absent]
           new == [val EXCEPT !.history[0] = first,
                              !.period = 1,
                              !.current = 0,
                              !.commission = 0,
                              !.outstanding = 0]
           vals == [s.validators EXCEPT ![v] = new]
           community == s.community + val.outstanding
           t == Anew(s, v)
<1>1. val \in ValidatorRecord
  BY DEF StoreType
<1>2. val.history = none /\ val.slashes = NoSlashes
  BY DEF Cleared
<1>3. val.outstanding \in Nat /\ s.community \in Nat /\ s.balance \in Nat
  BY StoreIsTyped, OutstandingType
<1>4. first \in [ratio : Nat, refs : 0..2]
  OBVIOUS
<1>5. t = [s EXCEPT !.community = community, !.validators = vals]
  <2> DEFINE r == [s EXCEPT !.community = @ + val.outstanding]
  <2>1. t = InitializeValidator(r, v)
    BY Zenon DEF Anew
  <2>2. r.validators = s.validators
    BY DEF StoreType
  <2>3. r = [s EXCEPT !.community = community]
    BY DEF StoreType
  <2> HIDE DEF r, community
  <2>4. t = [r EXCEPT !.validators[v] =
                [r.validators[v] EXCEPT !.history[0] = first,
                                        !.period = 1,
                                        !.current = 0,
                                        !.commission = 0,
                                        !.outstanding = 0]]
    BY <2>1, Zenon DEF InitializeValidator
  <2>5. t = [r EXCEPT !.validators[v] = new]
    BY <2>2, <2>4
  <2>6. v \in DOMAIN s.validators
    BY StoreIsTyped
  <2> HIDE DEF new, t
  <2>. QED
    BY <2>2, <2>3, <2>5, <2>6 DEF StoreType
<1>6. /\ new \in ValidatorRecord
      /\ new.outstanding = 0 /\ new.commission = 0 /\ new.current = 0
      /\ new.period = 1 /\ new.slashes = val.slashes
      /\ new.history = [val.history EXCEPT ![0] = first]
  <2> HIDE DEF val, first
  <2>. QED
    BY <1>1, <1>4, FirstPeriods DEF ValidatorRecord
<1>7. [none EXCEPT ![0] = first] = FirstHistory
  BY FirstPeriods DEF FirstHistory
<1> HIDE DEF new, first, none
<1>8. StartsAnew(new)
  BY <1>2, <1>6, <1>7 DEF StartsAnew
<1>9. vals \in [Validators -> ValidatorRecord] /\ vals[v] = new
      /\ \A w \in Validators \ {v} : vals[w] = s.validators[w]
  BY <1>6 DEF StoreType
<1>10. community \in Nat
  BY <1>3
<1> HIDE DEF vals, community, t
<1>11. t \in StoreType
  BY <1>5, <1>9, <1>10 DEF StoreType
<1>12. /\ t.validators = vals /\ t.balance = s.balance /\ t.community = community
       /\ t.panic = s.panic /\ t.wallets = s.wallets
  BY <1>5 DEF StoreType
<1>13. Account(t)
  <2>1. s.balance * One \in Int
    BY <1>3, OneAssumption
  <2>2. t.balance * One - t.community - t.validators[v].outstanding
           = s.balance * One - s.community - s.validators[v].outstanding
    BY <1>3, <1>6, <1>9, <1>12, <2>1 DEF community
  <2>3. \A w \in Validators \ {v} : t.validators[w].outstanding = s.validators[w].outstanding
    BY <1>9, <1>12
  <2>. QED
    BY <1>11, <2>2, <2>3, AccountKept
<1>. QED
  BY <1>8, <1>9, <1>11, <1>12, <1>13 DEF StartedAnew, t

\* When all have started anew, nobody counts and the store is sound.
LEMMA ReinitializedSound ==
    ASSUME NEW s \in StoreType, ~ s.panic, Account(s),
           \A v \in Validators : Cleared(s.validators[v])
    PROVE  /\ Sound(ReinitializeValidators(s), {}, 0)
           /\ RoomFor(ReinitializeValidators(s), Delegations)
           /\ ReinitializeValidators(s).wallets = s.wallets
           /\ \A v \in Validators : ReinitializeValidators(s).validators[v].period = 1
<1> DEFINE Good(U, t) == /\ ~ t.panic
                         /\ Account(t)
                         /\ t.wallets = s.wallets
                         /\ \A v \in U : StartsAnew(t.validators[v])
                         /\ \A v \in Validators \ U : Cleared(t.validators[v])
           P == {p \in (SUBSET Validators) \X StoreType : Good(p[1], p[2])}
           r == ReinitializeValidators(s)
<1>1. <<{}, s>> \in P
  OBVIOUS
<1>2. ASSUME NEW U \in SUBSET Validators, U # {}, NEW t \in StoreType,
             <<U \ {Chosen(U)}, t>> \in P
      PROVE  <<U, Anew(t, Chosen(U))>> \in P
  <2> DEFINE v == Chosen(U)
             D == U \ {v}
             u == Anew(t, v)
  <2>1. v \in U /\ v \in Validators /\ v \in Validators \ D
        /\ Validators \ U \subseteq Validators \ D
    BY <1>2, ChosenIsElement
  <2>2. Good(D, t)
    BY <1>2
  <2> HIDE DEF P, v
  <2>3. StartedAnew(t, u, v)
    BY <2>1, <2>2, AnewFields
  <2> HIDE DEF u
  <2>4. /\ u \in StoreType
        /\ u.panic = t.panic
        /\ Account(u)
        /\ u.wallets = t.wallets
        /\ StartsAnew(u.validators[v])
        /\ \A w \in Validators \ {v} : u.validators[w] = t.validators[w]
    BY <2>3 DEF StartedAnew
  <2>5. \A w \in U : StartsAnew(u.validators[w])
    BY <2>2, <2>4
  <2>6. \A w \in Validators \ U : Cleared(u.validators[w])
    BY <2>1, <2>2, <2>4
  <2>7. Good(U, u)
    BY <2>2, <2>4, <2>5, <2>6
  <2>. QED
    BY <2>4, <2>7 DEF P, u, v
<1>3. P \in SUBSET ((SUBSET Validators) \X StoreType)
  OBVIOUS
<1>4. <<Validators, r>> \in P
  <2> HIDE DEF P
  <2>. QED
    BY <1>1, <1>2, <1>3, ReinitializedHold
<1> HIDE DEF r
<1>5. r \in StoreType /\ Good(Validators, r)
  BY <1>4
<1>6. \A v \in Validators : StartsAnew(r.validators[v])
  BY <1>5
<1>7. /\ Sound(r, {}, 0)
      /\ RoomFor(r, Delegations)
      /\ \A v \in Validators : r.validators[v].period = 1
  BY <1>5, <1>6, AnewSound
<1>. QED
  BY <1>5, <1>7 DEF r

-----------------------------------------------------------------------------
(* Everything is withdrawn.                                                *)

\* Nobody is due anything else when another validator's account changes.
LEMMA NextDueElsewhere ==
    ASSUME NEW s \in StoreType, NEW t \in StoreType,
           NEW v \in Validators, NEW L \in SUBSET DelegationsTo(v),
           NEW h \in Nat, Fits(s, L, v, h),
           t.validators[v] = s.validators[v],
           \A e \in L : t.infos[e] = s.infos[e],
           NEW d \in L
    PROVE  NextDue(t, d, h) = NextDue(s, d, h)
<1>1. ValidatorOf[d] = v
  BY LinkIsTyped
<1>2. Way(t, d, h) = Way(s, d, h)
  <2>1. h <= h
    OBVIOUS
  <2>. QED
    BY <2>1, FitsKept
<1>3. KeepsWay(s, t, d, h)
  BY <1>1, <1>2 DEF KeepsWay
<1>4. Ended(t, v) = Ended(s, v)
  BY DEF Ended
<1>. QED
  BY <1>1, <1>3, <1>4, NextDueKept

\* What holds after one commission is withdrawn.
CommissionTaken(s, t, v, h) ==
    /\ Sound(t, Delegations, h)
    /\ t.validators[v].period = s.validators[v].period
    /\ \A w \in Validators \ {v} : t.validators[w] = s.validators[w]
    /\ t.wallets = [s.wallets EXCEPT ![v] = s.wallets[v]
                                        + TruncateInt(s.validators[v].commission)]
    /\ \A d \in Delegations : NextDue(t, d, h) = NextDue(s, d, h)

\* One withdrawal of a commission does that.
LEMMA CommissionSound ==
    ASSUME NEW s, NEW v \in Validators, NEW h \in Nat, Sound(s, Delegations, h)
    PROVE  CommissionTaken(s, WithdrawCommission(s, v), v, h)
<1> DEFINE t == WithdrawCommission(s, v)
           L(w) == Delegations \cap DelegationsTo(w)
<1>1. s \in StoreType /\ Account(s)
  BY SoundIs
<1>2. \A w \in Validators : Fits(s, L(w), w, h) /\ L(w) \in SUBSET DelegationsTo(w)
  BY SoundIs
<1> HIDE DEF L
<1>3. CommissionPaid(s, t, v)
  BY <1>1, <1>2, CommissionFields
<1> HIDE DEF t
<1>4. /\ Account(t)
      /\ Fits(t, L(v), v, h)
      /\ \A d \in L(v) : NextDue(t, d, h) = NextDue(s, d, h)
  BY <1>1, <1>2, <1>3, CommissionFits
<1>5. /\ t \in StoreType
      /\ AmountsOnly(s, t, v)
      /\ t.panic = s.panic
      /\ t.wallets = [s.wallets EXCEPT ![v] = s.wallets[v]
                                          + TruncateInt(s.validators[v].commission)]
      /\ \A w \in Validators \ {v} : t.validators[w] = s.validators[w]
  BY <1>3 DEF CommissionPaid
<1>6. t.infos = s.infos /\ t.validators[v].period = s.validators[v].period
  BY <1>5 DEF AmountsOnly
<1>7. Sound(t, Delegations, h)
  <2>1. Fits(t, Delegations \cap DelegationsTo(v), v, h) /\ h <= h
    BY <1>4 DEF L
  <2>2. Delegations \in SUBSET Delegations
    OBVIOUS
  <2>. QED
    BY <1>4, <1>5, <1>6, <2>1, <2>2, SoundKept
<1>8. ASSUME NEW d \in Delegations
      PROVE  NextDue(t, d, h) = NextDue(s, d, h)
  <2> DEFINE w == ValidatorOf[d]
  <2>1. w \in Validators /\ d \in L(w)
    BY <1>1, InfoIsTyped DEF L
  <2>2. CASE w = v
    BY <1>4, <2>1, <2>2
  <2>3. CASE w # v
    <3>1. t.validators[w] = s.validators[w] /\ \A e \in L(w) : t.infos[e] = s.infos[e]
      BY <1>5, <1>6, <2>1, <2>3
    <3> HIDE DEF w
    <3>. QED
      BY <1>1, <1>2, <1>5, <2>1, <3>1, NextDueElsewhere
  <2>. QED
    BY <2>2, <2>3
<1>9. CommissionTaken(s, t, v, h)
  BY <1>5, <1>6, <1>7, <1>8 DEF CommissionTaken
<1>. QED
  BY <1>9 DEF t

\* All commissions are paid, in whole coins, and the rewards that are due stay.
CommissionsPaid(s, t, h) ==
    /\ Sound(t, Delegations, h)
    /\ \A v \in Validators :
          /\ t.validators[v].period = s.validators[v].period
          /\ t.wallets[v] = s.wallets[v] + TruncateInt(s.validators[v].commission)
    /\ \A d \in Delegations :
          /\ t.wallets[d] = s.wallets[d]
          /\ NextDue(t, d, h) = NextDue(s, d, h)

\* The loop over all validators does that (app/export.go:76).
LEMMA CommissionsSound ==
    ASSUME NEW s, NEW h \in Nat, Sound(s, Delegations, h)
    PROVE  CommissionsPaid(s, WithdrawCommissions(s), h)
<1> DEFINE Paid1(t, v) == t.wallets[v] = s.wallets[v] + TruncateInt(s.validators[v].commission)
           Same(t, v) == /\ t.wallets[v] = s.wallets[v]
                         /\ t.validators[v] = s.validators[v]
           Kept(t, d) == /\ t.wallets[d] = s.wallets[d]
                         /\ NextDue(t, d, h) = NextDue(s, d, h)
           Good(U, t) == /\ Sound(t, Delegations, h)
                         /\ \A v \in Validators :
                               t.validators[v].period = s.validators[v].period
                         /\ \A v \in U : Paid1(t, v)
                         /\ \A v \in Validators \ U : Same(t, v)
                         /\ \A d \in Delegations : Kept(t, d)
           P == {p \in (SUBSET Validators) \X StoreType : Good(p[1], p[2])}
           r == WithdrawCommissions(s)
<1>1. s \in StoreType /\ <<{}, s>> \in P
  BY DEF Sound
<1>2. ASSUME NEW U \in SUBSET Validators, U # {}, NEW t \in StoreType,
             <<U \ {Chosen(U)}, t>> \in P
      PROVE  <<U, WithdrawCommission(t, Chosen(U))>> \in P
  <2> DEFINE v == Chosen(U)
             D == U \ {v}
             u == WithdrawCommission(t, v)
  <2>1. v \in U /\ v \in Validators /\ v \in Validators \ D
        /\ Validators \ U \subseteq Validators \ D
    BY <1>2, ChosenIsElement
  <2>2. Good(D, t)
    BY <1>2
  <2> HIDE DEF P, v
  <2>3. CommissionTaken(t, u, v, h)
    BY <2>1, <2>2, CommissionSound
  <2> HIDE DEF u
  <2>4. /\ Sound(u, Delegations, h)
        /\ u.validators[v].period = t.validators[v].period
        /\ \A w \in Validators \ {v} : u.validators[w] = t.validators[w]
        /\ u.wallets = [t.wallets EXCEPT ![v] = t.wallets[v]
                                            + TruncateInt(t.validators[v].commission)]
        /\ \A d \in Delegations : NextDue(u, d, h) = NextDue(t, d, h)
    BY <2>3 DEF CommissionTaken
  <2>5. u \in StoreType /\ DOMAIN t.wallets = Owners
    BY <2>4, StoreIsTyped DEF Sound
  <2>6. /\ u.wallets[v] = t.wallets[v] + TruncateInt(t.validators[v].commission)
        /\ \A o \in Owners \ {v} : u.wallets[o] = t.wallets[o]
    BY <2>1, <2>4, <2>5 DEF Owners
  <2>7. \A w \in Validators : u.validators[w].period = s.validators[w].period
    BY <2>2, <2>4
  <2>8. Same(t, v)
    BY <2>1, <2>2
  <2>9. ASSUME NEW w \in U
        PROVE  Paid1(u, w)
    <3>1. CASE w = v
      BY <2>6, <2>8, <3>1
    <3>2. CASE w # v
      <4>1. w \in D /\ w \in Owners \ {v}
        BY <3>2 DEF Owners
      <4>. QED
        BY <2>2, <2>6, <4>1
    <3>. QED
      BY <3>1, <3>2
  <2>10. ASSUME NEW w \in Validators \ U
         PROVE  Same(u, w)
    <3>1. w \in Validators \ D /\ w # v /\ w \in Owners \ {v}
      BY <2>1 DEF Owners
    <3>. QED
      BY <2>2, <2>4, <2>6, <3>1
  <2>11. ASSUME NEW d \in Delegations
         PROVE  Kept(u, d)
    <3>1. d \in Owners \ {v}
      BY <2>1, DistributionAssumption DEF Owners
    <3>. QED
      BY <2>2, <2>4, <2>6, <3>1
  <2>12. Good(U, u)
    BY <2>4, <2>7, <2>9, <2>10, <2>11
  <2>. QED
    BY <2>5, <2>12 DEF P, u, v
<1>3. P \in SUBSET ((SUBSET Validators) \X StoreType)
  OBVIOUS
<1>4. <<Validators, r>> \in P
  <2> HIDE DEF P
  <2>. QED
    BY <1>1, <1>2, <1>3, CommissionsHold
<1> HIDE DEF r
<1>5. Good(Validators, r)
  BY <1>4
<1>6. CommissionsPaid(s, r, h)
  BY <1>5 DEF CommissionsPaid
<1>. QED
  BY <1>6 DEF r

\* What holds after one delegation withdrew its rewards.
RewardsTaken(s, t, d, v, h) ==
    /\ Sound(t, Delegations, h)
    /\ OnePeriod(s, t, v)
    /\ t.wallets = [s.wallets EXCEPT ![d] = s.wallets[d] + TruncateInt(NextDue(s, d, h))]
    /\ \A e \in Delegations \ {d} : NextDue(t, e, h) = NextDue(s, e, h)

\* One withdrawal of rewards does that.
LEMMA WithdrawSound ==
    ASSUME NEW s, NEW d \in Delegations, NEW h \in Nat, Sound(s, Delegations, h),
           NEW v, v = ValidatorOf[d], s.validators[v].period < MaxPeriod
    PROVE  RewardsTaken(s, WithdrawRewards(s, d, h), d, v, h)
<1> DEFINE t == WithdrawRewards(s, d, h)
           L(w) == Delegations \cap DelegationsTo(w)
<1>1. s \in StoreType /\ Account(s)
  BY SoundIs
<1>2. v \in Validators /\ d \in L(v)
  BY <1>1, InfoIsTyped
<1>3. \A w \in Validators : Fits(s, L(w), w, h) /\ L(w) \in SUBSET DelegationsTo(w)
  BY SoundIs
<1> HIDE DEF L
<1>4. Withdrawn(s, t, L(v), d, v, h)
  BY <1>1, <1>2, <1>3, WithdrawFits
<1> HIDE DEF t
<1>5. /\ t \in StoreType
      /\ t.panic = s.panic
      /\ Account(t)
      /\ Fits(t, L(v), v, h)
      /\ t.validators[v].period = s.validators[v].period + 1
      /\ \A w \in Validators \ {v} : t.validators[w] = s.validators[w]
      /\ \A e \in Delegations \ {d} : t.infos[e] = s.infos[e]
      /\ t.wallets = [s.wallets EXCEPT ![d] = s.wallets[d] + TruncateInt(NextDue(s, d, h))]
      /\ \A e \in L(v) \ {d} : NextDue(t, e, h) = NextDue(s, e, h)
  BY <1>4 DEF Withdrawn
<1>6. Sound(t, Delegations, h)
  <2>1. Fits(t, Delegations \cap DelegationsTo(v), v, h) /\ h <= h
    BY <1>5 DEF L
  <2>2. Delegations \in SUBSET Delegations
    OBVIOUS
  <2>3. \A e \in Delegations \ DelegationsTo(v) : t.infos[e] = s.infos[e]
    BY <1>2, <1>5 DEF L
  <2>. QED
    BY <1>2, <1>5, <2>1, <2>2, <2>3, SoundKept
<1>7. ASSUME NEW e \in Delegations \ {d}
      PROVE  NextDue(t, e, h) = NextDue(s, e, h)
  <2> DEFINE w == ValidatorOf[e]
  <2>1. w \in Validators /\ e \in L(w)
    BY <1>1, InfoIsTyped DEF L
  <2>2. CASE w = v
    BY <1>5, <2>1, <2>2
  <2>3. CASE w # v
    <3>1. t.validators[w] = s.validators[w]
      BY <1>5, <2>1, <2>3
    <3>2. \A i \in L(w) : t.infos[i] = s.infos[i]
      <4>1. \A i \in L(w) : i \in Delegations \ {d}
        BY <2>3 DEF L, DelegationsTo
      <4>. QED
        BY <1>5, <4>1
    <3> HIDE DEF w
    <3>. QED
      BY <1>1, <1>3, <1>5, <2>1, <3>1, <3>2, NextDueElsewhere
  <2>. QED
    BY <2>2, <2>3
<1>8. RewardsTaken(s, t, d, v, h)
  BY <1>5, <1>6, <1>7 DEF RewardsTaken, OnePeriod
<1>. QED
  BY <1>8 DEF t

\* All delegations are paid what they were due, in whole coins.
RewardsPaid(s, t, h) ==
    /\ Sound(t, Delegations, h)
    /\ \A v \in Validators : t.wallets[v] = s.wallets[v]
    /\ \A d \in Delegations : t.wallets[d] = s.wallets[d] + TruncateInt(NextDue(s, d, h))

\* The loop over all delegations does that (app/export.go:95).
LEMMA RewardsSound ==
    ASSUME NEW s, height \in Nat, Sound(s, Delegations, height), RoomFor(s, Delegations)
    PROVE  RewardsPaid(s, WithdrawAllRewards(s), height)
<1> DEFINE Paid1(t, d) == t.wallets[d] = s.wallets[d] + TruncateInt(NextDue(s, d, height))
           Kept(t, d) == /\ t.wallets[d] = s.wallets[d]
                         /\ NextDue(t, d, height) = NextDue(s, d, height)
           Good(U, t) == /\ Sound(t, Delegations, height)
                         /\ PeriodsEnded(s, t, Delegations \ U)
                         /\ \A d \in U : Paid1(t, d)
                         /\ \A d \in Delegations \ U : Kept(t, d)
                         /\ \A v \in Validators : t.wallets[v] = s.wallets[v]
           P == {p \in (SUBSET Delegations) \X StoreType : Good(p[1], p[2])}
           r == WithdrawAllRewards(s)
<1>1. s \in StoreType
  BY DEF Sound
<1>2. <<{}, s>> \in P
  <2>1. Delegations \ {} = Delegations
    OBVIOUS
  <2>. QED
    BY <1>1, <2>1, NothingEnded
<1>3. ASSUME NEW U \in SUBSET Delegations, U # {}, NEW t \in StoreType,
             <<U \ {Chosen(U)}, t>> \in P
      PROVE  <<U, WithdrawRewards(t, Chosen(U), height)>> \in P
  <2> DEFINE d == Chosen(U)
             v == ValidatorOf[d]
             D == U \ {d}
             u == WithdrawRewards(t, d, height)
  <2>1. d \in U /\ d \in Delegations /\ d \in Delegations \ D
        /\ D \cup {d} = U /\ (Delegations \ D) \ {d} = Delegations \ U
    BY <1>3, ChosenIsElement
  <2>2. Good(D, t)
    BY <1>3
  <2> HIDE DEF P, d
  <2>3. t.validators[v].period < MaxPeriod
    <3> HIDE DEF D
    <3>. QED
      BY <1>1, <2>1, <2>2, RoomLeft
  <2>4. RewardsTaken(t, u, d, v, height)
    BY <2>1, <2>2, <2>3, WithdrawSound
  <2> HIDE DEF u, v
  <2>5. /\ Sound(u, Delegations, height)
        /\ OnePeriod(t, u, v)
        /\ u.wallets = [t.wallets EXCEPT ![d] = t.wallets[d]
                                            + TruncateInt(NextDue(t, d, height))]
        /\ \A e \in Delegations \ {d} : NextDue(u, e, height) = NextDue(t, e, height)
    BY <2>4 DEF RewardsTaken
  <2>6. u \in StoreType /\ DOMAIN t.wallets = Owners
    BY <2>5, StoreIsTyped DEF Sound
  <2>7. /\ u.wallets[d] = t.wallets[d] + TruncateInt(NextDue(t, d, height))
        /\ \A o \in Owners \ {d} : u.wallets[o] = t.wallets[o]
    BY <2>1, <2>5, <2>6 DEF Owners
  <2>8. PeriodsEnded(s, u, Delegations \ U)
    <3>1. PeriodsEnded(s, u, (Delegations \ D) \ {d})
      <4>1. Delegations \ D \in SUBSET Delegations /\ PeriodsEnded(s, t, Delegations \ D)
        BY <2>2
      <4>. QED
        BY <1>1, <2>1, <2>5, <2>6, <4>1, PeriodTaken DEF v
    <3>. QED
      BY <2>1, <3>1
  <2>9. Kept(t, d)
    BY <2>1, <2>2
  <2>10. ASSUME NEW e \in U
         PROVE  Paid1(u, e)
    <3>1. CASE e = d
      BY <2>7, <2>9, <3>1
    <3>2. CASE e # d
      <4>1. e \in D /\ e \in Owners \ {d}
        BY <3>2 DEF Owners
      <4>. QED
        BY <2>2, <2>7, <4>1
    <3>. QED
      BY <3>1, <3>2
  <2>11. ASSUME NEW e \in Delegations \ U
         PROVE  Kept(u, e)
    <3>1. e \in Delegations \ D /\ e \in Delegations \ {d} /\ e \in Owners \ {d}
      BY <2>1 DEF Owners
    <3>. QED
      BY <2>2, <2>5, <2>7, <3>1
  <2>12. ASSUME NEW w \in Validators
         PROVE  u.wallets[w] = s.wallets[w]
    <3>1. w \in Owners \ {d}
      BY <2>1, DistributionAssumption DEF Owners
    <3>. QED
      BY <2>2, <2>7, <3>1
  <2>13. Good(U, u)
    BY <2>5, <2>8, <2>10, <2>11, <2>12
  <2>. QED
    BY <2>6, <2>13 DEF P, u, d
<1>4. P \in SUBSET ((SUBSET Delegations) \X StoreType)
  OBVIOUS
<1>5. <<Delegations, r>> \in P
  <2> HIDE DEF P
  <2>. QED
    BY <1>1, <1>2, <1>3, <1>4, RewardsHold
<1> HIDE DEF r
<1>6. Good(Delegations, r)
  BY <1>5
<1>7. RewardsPaid(s, r, height)
  BY <1>6 DEF RewardsPaid
<1>. QED
  BY <1>7 DEF r

\* What an export leaves, and what it has paid.
Prepared(s, t, h) ==
    /\ Sound(t, Delegations, 0)
    /\ RoomFor(t, Delegations)
    /\ \A v \in Validators :
          t.wallets[v] = s.wallets[v] + TruncateInt(s.validators[v].commission)
    /\ \A d \in Delegations :
          t.wallets[d] = s.wallets[d] + TruncateInt(NextDue(s, d, h))

\* There is room for a second period for each delegation.
LEMMA FirstRoom ==
    ASSUME NEW s \in StoreType, NEW t \in StoreType, PeriodsEnded(s, t, {}),
           \A v \in Validators : s.validators[v].period = 1
    PROVE  RoomFor(t, Delegations)
<1>1. ASSUME NEW v \in Validators
      PROVE  t.validators[v].period + Cardinality(Delegations \cap DelegationsTo(v))
                <= MaxPeriod
  <2> DEFINE n == Cardinality(DelegationsTo(v))
  <2>1. Delegations \cap DelegationsTo(v) = DelegationsTo(v)
    BY DEF DelegationsTo
  <2>2. n \in Nat /\ MaxPeriod \in Nat /\ 2 * n < MaxPeriod
    BY LinksFinite, HeightZeroAssumption, DistributionAssumption
  <2>3. t.validators[v].period = 1 + n
    BY AllEnded
  <2> HIDE DEF n
  <2>4. t.validators[v].period + n <= MaxPeriod
    BY <2>2, <2>3
  <2>. QED
    BY <2>1, <2>4 DEF n
<1>. QED
  BY <1>1 DEF RoomFor

\* prepForZeroHeightGenesis does that, from any sound store.
LEMMA PreparedSound ==
    ASSUME height \in Nat, Sound(store, Delegations, height), RoomFor(store, Delegations)
    PROVE  Prepared(store, PreparedStore, height)
<1> DEFINE a == WithdrawCommissions(store)
           b == WithdrawAllRewards(a)
           c == ForgetHistory(b)
           e == ReinitializeValidators(c)
           r == Delegated(e, 0)
<1>1. PreparedStore = r
  BY Zenon DEF PreparedStore, WithdrawEverything, ReinitializeDelegations
<1>2. CommissionsPaid(store, a, height)
  BY CommissionsSound
<1> HIDE DEF a
<1>3. /\ Sound(a, Delegations, height)
      /\ \A v \in Validators :
            /\ a.validators[v].period = store.validators[v].period
            /\ a.wallets[v] = store.wallets[v] + TruncateInt(store.validators[v].commission)
      /\ \A d \in Delegations :
            /\ a.wallets[d] = store.wallets[d]
            /\ NextDue(a, d, height) = NextDue(store, d, height)
  BY <1>2 DEF CommissionsPaid
<1>4. RoomFor(a, Delegations)
  BY <1>3 DEF RoomFor
<1>5. RewardsPaid(a, b, height)
  BY <1>3, <1>4, RewardsSound
<1> HIDE DEF b
<1>6. /\ Sound(b, Delegations, height)
      /\ \A v \in Validators : b.wallets[v] = a.wallets[v]
      /\ \A d \in Delegations :
            b.wallets[d] = a.wallets[d] + TruncateInt(NextDue(a, d, height))
  BY <1>5 DEF RewardsPaid
<1>7. b \in StoreType /\ ~ b.panic /\ Account(b)
  BY <1>6 DEF Sound
<1>8. /\ c \in StoreType /\ ~ c.panic /\ Account(c)
      /\ c.wallets = b.wallets
      /\ \A v \in Validators : Cleared(c.validators[v])
  BY <1>7, ForgetClears
<1> HIDE DEF c
<1>9. /\ Sound(e, {}, 0)
      /\ RoomFor(e, Delegations)
      /\ e.wallets = c.wallets
      /\ \A v \in Validators : e.validators[v].period = 1
  BY <1>8, ReinitializedSound
<1> HIDE DEF e
<1>10. /\ Sound(r, Delegations, 0)
       /\ PeriodsEnded(e, r, {})
       /\ r.wallets = e.wallets
  <2>1. 0 \in Nat
    OBVIOUS
  <2>. QED
    BY <1>9, <2>1, DelegatedSound
<1> HIDE DEF r
<1>11. RoomFor(r, Delegations)
  <2>1. e \in StoreType /\ r \in StoreType
    BY <1>9, <1>10 DEF Sound
  <2>. QED
    BY <1>9, <1>10, <2>1, FirstRoom
<1>12. Prepared(store, r, height)
  BY <1>3, <1>6, <1>8, <1>9, <1>10, <1>11 DEF Prepared
<1>. QED
  BY <1>1, <1>12

-----------------------------------------------------------------------------
(* The chain.                                                              *)

\* Room in plain terms.
LEMMA RoomIs ==
    ASSUME NEW s
    PROVE  RoomFor(s, Delegations)
             <=> \A v \in Validators :
                    s.validators[v].period + Cardinality(DelegationsTo(v)) <= MaxPeriod
<1>1. \A v : Delegations \cap DelegationsTo(v) = DelegationsTo(v)
    BY DEF DelegationsTo
<1>2. QED
    BY <1>1 DEF RoomFor

\* Room is left where no period ended, or where there was more.
LEMMA RoomKept ==
    ASSUME NEW s \in StoreType, NEW t, RoomFor(s, Delegations),
           \/ \A v \in Validators : t.validators[v].period = s.validators[v].period
           \/ \E v \in Validators :
                 /\ OnePeriod(s, t, v)
                 /\ s.validators[v].period + Cardinality(DelegationsTo(v)) < MaxPeriod
    PROVE  RoomFor(t, Delegations)
<1>. SUFFICES ASSUME NEW w \in Validators
     PROVE  t.validators[w].period + Cardinality(DelegationsTo(w)) <= MaxPeriod
    BY RoomIs
<1>1. s.validators[w].period + Cardinality(DelegationsTo(w)) <= MaxPeriod
    BY RoomIs
<1>2. /\ s.validators[w].period \in Nat
      /\ MaxPeriod \in Nat
    BY StoreIsTyped, DistributionAssumption DEF RecordTyped
<1>3. Cardinality(DelegationsTo(w)) \in Nat
  <2>1. DelegationsTo(w) \in SUBSET DelegationsTo(w)
    OBVIOUS
  <2>2. QED
    BY <2>1, LinksFinite
<1>4. CASE \A v \in Validators : t.validators[v].period = s.validators[v].period
    BY <1>4, <1>1
<1>5. ASSUME NEW v \in Validators, OnePeriod(s, t, v),
             s.validators[v].period + Cardinality(DelegationsTo(v)) < MaxPeriod
      PROVE  t.validators[w].period + Cardinality(DelegationsTo(w)) <= MaxPeriod
  <2>1. CASE w = v
    BY <2>1, <1>5, <1>2, <1>3 DEF OnePeriod
  <2>2. CASE w # v
    BY <2>2, <1>5, <1>1 DEF OnePeriod
  <2>3. QED
    BY <2>1, <2>2
<1>6. QED
    BY <1>4, <1>5

\* A sound store is sound at a later height.
LEMMA LaterSound ==
    ASSUME NEW s, NEW D \in SUBSET Delegations, NEW h \in Nat, NEW k \in Nat, h <= k,
           Sound(s, D, h)
    PROVE  Sound(s, D, k)
<1>1. /\ s \in StoreType
      /\ ~ s.panic
      /\ Account(s)
    BY SoundIs
<1>2. ASSUME NEW v \in Validators
      PROVE  Fits(s, D \cap DelegationsTo(v), v, k)
  <2>. DEFINE L == D \cap DelegationsTo(v)
  <2>1. Fits(s, L, v, h) /\ L \in SUBSET DelegationsTo(v)
    BY SoundIs
  <2>. HIDE DEF L
  <2>2. Fits(s, L, v, k)
    BY <1>1, <2>1, FitsKept
  <2>3. QED
    BY <2>2 DEF L
<1>3. QED
    BY <1>1, <1>2 DEF Sound

\* What holds between the steps of the chain.
Bounded ==
    /\ fees \in 0..Fees
    /\ jailed \subseteq Validators
    /\ height \in 0..MaxHeight
    /\ stopped \in {"", "jailed validator in the power index"}

\* The inductive invariant.
IInv ==
    /\ Sound(store, Delegations, height)
    /\ RoomFor(store, Delegations)
    /\ Bounded

\* The types of the bounds.
LEMMA BoundsTyped ==
    /\ Fees \in Nat
    /\ MaxHeight \in Nat
    /\ BlockFees \subseteq Nat
    /\ SlashAmounts \subseteq Nat
BY HeightZeroAssumption, Zenon

\* What the invariant says of the store and the height.
LEMMA HeightTyped ==
    ASSUME IInv
    PROVE  /\ store \in StoreType
           /\ height \in Nat
           /\ height \in 0..MaxHeight
           /\ Sound(store, Delegations, height)
           /\ Delegations \in SUBSET Delegations
<1>1. Sound(store, Delegations, height) /\ height \in 0..MaxHeight
    BY DEF IInv, Bounded
<1>2. height \in Nat
    BY <1>1, BoundsTyped
<1>3. Delegations \in SUBSET Delegations
    OBVIOUS
<1>4. store \in StoreType
    BY <1>1 DEF Sound
<1>5. QED
    BY <1>1, <1>2, <1>3, <1>4

\* A chain starts sound.
LEMMA InitSound == Init => IInv
<1>. SUFFICES ASSUME Init
     PROVE  IInv
    OBVIOUS
<1>. DEFINE s == Delegated(NewStore, 0)
<1>1. Sound(NewStore, {}, 0) /\ RoomFor(NewStore, Delegations)
    BY NewStoreSound
<1>2. 0 \in Nat
    OBVIOUS
<1>3. /\ Sound(s, Delegations, 0)
      /\ PeriodsEnded(NewStore, s, {})
    BY <1>1, <1>2, DelegatedSound
<1>. HIDE DEF s
<1>4. NewStore \in StoreType /\ s \in StoreType
    BY <1>1, <1>3 DEF Sound
<1>5. \A v \in Validators : NewStore.validators[v].period = 1
    BY NewStoreSound
<1>6. RoomFor(s, Delegations)
    BY <1>3, <1>4, <1>5, FirstRoom
<1>7. store = s /\ fees = Fees /\ jailed = {} /\ height = 0 /\ stopped = ""
    BY DEF Init, s
<1>8. Bounded
  <2>1. Fees \in Nat /\ MaxHeight \in Nat
    BY BoundsTyped
  <2>2. Fees \in 0..Fees /\ 0 \in 0..MaxHeight
    BY <2>1
  <2>3. QED
    BY <2>2, <1>7 DEF Bounded
<1>9. QED
    BY <1>3, <1>6, <1>7, <1>8 DEF IInv

\* A withdrawal between exports.
LEMMA WithdrawKeeps ==
    ASSUME IInv, NEW d \in Delegations, Withdraw(d)
    PROVE  IInv'
<1>. DEFINE v == ValidatorOf[d]
            t == WithdrawRewards(store, d, height)
<1>1. /\ store \in StoreType
      /\ height \in Nat
      /\ Sound(store, Delegations, height)
    BY HeightTyped
<1>2. v \in Validators
    BY DistributionAssumption
<1>3. /\ Room(v)
      /\ store' = t
      /\ UNCHANGED <<fees, jailed, height, stopped>>
    BY DEF Withdraw
<1>4. /\ store.validators[v].period + Cardinality(DelegationsTo(v)) < MaxPeriod
      /\ RoomFor(store, Delegations)
    BY <1>3 DEF Room, IInv
<1>5. store.validators[v].period < MaxPeriod
  <2>1. DelegationsTo(v) \in SUBSET DelegationsTo(v)
    OBVIOUS
  <2>2. Cardinality(DelegationsTo(v)) \in Nat
    BY <2>1, LinksFinite
  <2>3. store.validators[v].period \in Nat /\ MaxPeriod \in Nat
    BY <1>1, <1>2, StoreIsTyped, DistributionAssumption DEF RecordTyped
  <2>4. QED
    BY <1>4, <2>2, <2>3
<1>. HIDE DEF t
<1>6. RewardsTaken(store, t, d, v, height)
    BY <1>1, <1>2, <1>5, WithdrawSound DEF t
<1>7. Sound(t, Delegations, height) /\ OnePeriod(store, t, v)
    BY <1>6 DEF RewardsTaken
<1>. HIDE DEF v
<1>8. RoomFor(t, Delegations)
    BY <1>1, <1>2, <1>4, <1>7, RoomKept
<1>9. Bounded'
    BY <1>3 DEF IInv, Bounded
<1>10. QED
    BY <1>3, <1>7, <1>8, <1>9 DEF IInv

\* Fees, and with them a slash.
LEMMA BeginBlockKeeps ==
    ASSUME IInv, BeginBlock
    PROVE  IInv'
<1>1. /\ store \in StoreType
      /\ height \in Nat
      /\ Sound(store, Delegations, height)
      /\ RoomFor(store, Delegations)
      /\ Delegations \in SUBSET Delegations
    BY HeightTyped DEF IInv
<1>2. height < MaxHeight /\ height' = height + 1 /\ UNCHANGED stopped
    BY DEF BeginBlock
<1>3. PICK v \in Validators, n \in BlockFees :
          /\ n <= fees
          /\ fees' = fees - n
          /\ \/ /\ store' = Allocate(store, v, n)
                /\ UNCHANGED jailed
             \/ \E w \in Validators, amount \in SlashAmounts :
                   /\ Room(w)
                   /\ store' = Slash(Allocate(store, v, n), w, amount, height')
                   /\ jailed' = jailed \cup {w}
    BY DEF BeginBlock
<1>4. n \in Nat
    BY BoundsTyped
<1>. DEFINE s == Allocate(store, v, n)
<1>5. /\ Sound(s, Delegations, height)
      /\ \A w \in Validators : /\ s.validators[w].period = store.validators[w].period
                               /\ s.validators[w].tokens = store.validators[w].tokens
    BY <1>1, <1>4, AllocateSound
<1>6. \/ store' = s /\ UNCHANGED jailed
      \/ \E w \in Validators, amount \in SlashAmounts :
            /\ Room(w)
            /\ store' = Slash(s, w, amount, height')
            /\ jailed' = jailed \cup {w}
    BY <1>3
<1>. HIDE DEF s
<1>7. s \in StoreType
    BY <1>5 DEF Sound
<1>8. RoomFor(s, Delegations)
    BY <1>1, <1>5, RoomKept
<1>9. /\ height' \in Nat
      /\ height < height'
      /\ height <= height'
      /\ height' \in 0..MaxHeight
    BY <1>1, <1>2, BoundsTyped
<1>10. jailed' \subseteq Validators
    BY <1>6 DEF IInv, Bounded
<1>11. Bounded'
  <2>1. fees' \in 0..Fees
    <3>1. n <= fees /\ fees' = fees - n
      BY <1>3
    <3>2. fees \in 0..Fees
      BY DEF IInv, Bounded
    <3>3. Fees \in Nat
      BY BoundsTyped
    <3>4. QED
      BY <3>1, <3>2, <3>3, <1>4
  <2>2. QED
    BY <2>1, <1>2, <1>9, <1>10 DEF IInv, Bounded
<1>12. CASE store' = s
  <2>1. Sound(s, Delegations, height')
    BY <1>1, <1>5, <1>9, LaterSound
  <2>2. QED
    BY <2>1, <1>12, <1>8, <1>11 DEF IInv
<1>13. ASSUME NEW w \in Validators, NEW amount \in SlashAmounts,
              Room(w),
              store' = Slash(s, w, amount, height'), store' # s
       PROVE  IInv'
  <2>. DEFINE tokens == s.validators[w].tokens
              b == IF amount <= tokens THEN amount ELSE tokens
              t == Slashed(s, w, b, height')
  <2>1. amount \in Nat /\ tokens \in Nat
    BY <1>7, BoundsTyped, StoreIsTyped DEF RecordTyped
  <2>2. b \in 1..tokens /\ store' = t
    <3>1. b # 0 /\ store' = t
      BY <1>13 DEF Slash
    <3>2. b \in Nat /\ b <= tokens
      BY <2>1
    <3>3. QED
      BY <2>1, <3>1, <3>2
  <2>. HIDE DEF b
  <2>3. s.validators[w].period + Cardinality(DelegationsTo(w)) < MaxPeriod
    BY <1>13, <1>5 DEF Room
  <2>4. s.validators[w].period < MaxPeriod
    <3>1. DelegationsTo(w) \in SUBSET DelegationsTo(w)
      OBVIOUS
    <3>2. Cardinality(DelegationsTo(w)) \in Nat
      BY <3>1, LinksFinite
    <3>3. s.validators[w].period \in Nat /\ MaxPeriod \in Nat
      BY <1>7, StoreIsTyped, DistributionAssumption DEF RecordTyped
    <3>4. QED
      BY <2>3, <3>2, <3>3
  <2>. HIDE DEF t
  <2>5. SlashKeeps(s, t, Delegations, w, height')
    BY <1>1, <1>5, <1>9, <2>2, <2>4, SlashedSound DEF t
  <2>6. Sound(t, Delegations, height') /\ OnePeriod(s, t, w)
    BY <2>5 DEF SlashKeeps, OnePeriod
  <2>7. RoomFor(t, Delegations)
    BY <1>7, <1>8, <2>3, <2>6, RoomKept
  <2>8. store' = t
    BY <2>2
  <2>9. QED
    BY <2>6, <2>7, <2>8, <1>11 DEF IInv
<1>14. QED
    BY <1>6, <1>12, <1>13

\* Unjailing leaves the store alone.
LEMMA UnjailKeeps ==
    ASSUME IInv, NEW v \in Validators, Unjail(v)
    PROVE  IInv'
<1>1. /\ UNCHANGED <<store, fees, height, stopped>>
      /\ jailed' = jailed \ {v}
    BY DEF Unjail
<1>2. Bounded'
    BY <1>1 DEF IInv, Bounded
<1>3. QED
    BY <1>1, <1>2 DEF IInv

\* An export, or one that panics.
LEMMA ExportKeeps ==
    ASSUME IInv, NEW allowed \in AllowedLists, Export(allowed)
    PROVE  IInv'
<1>1. /\ height \in Nat
      /\ Sound(store, Delegations, height)
      /\ RoomFor(store, Delegations)
    BY HeightTyped DEF IInv
<1>2. Prepared(store, PreparedStore, height)
    BY <1>1, PreparedSound
<1>3. Sound(PreparedStore, Delegations, 0) /\ RoomFor(PreparedStore, Delegations)
    BY <1>2 DEF Prepared
<1>4. UNCHANGED fees
    BY DEF Export
<1>5. CASE ApplyPanics(allowed)
  <2>1. /\ stopped' = "jailed validator in the power index"
        /\ UNCHANGED <<store, jailed, height>>
    BY <1>5 DEF Export
  <2>2. Bounded'
    BY <2>1, <1>4 DEF IInv, Bounded
  <2>3. QED
    BY <2>1, <2>2, <1>1 DEF IInv
<1>6. CASE ~ ApplyPanics(allowed)
  <2>1. /\ store' = PreparedStore
        /\ jailed' = JailedBy(allowed)
        /\ height' = 0
        /\ UNCHANGED stopped
    BY <1>6 DEF Export
  <2>2. Bounded'
    <3>1. MaxHeight \in Nat
      BY BoundsTyped
    <3>2. 0 \in 0..MaxHeight
      BY <3>1
    <3>3. jailed' \subseteq Validators
      BY <2>1 DEF JailedBy, IInv, Bounded
    <3>4. QED
      BY <2>1, <3>2, <3>3, <1>4 DEF IInv, Bounded
  <2>3. QED
    BY <2>1, <2>2, <1>3 DEF IInv
<1>7. QED
    BY <1>5, <1>6

\* Every step keeps the invariant.
LEMMA NextSound ==
    ASSUME IInv, [Next]_vars
    PROVE  IInv'
<1>1. CASE UNCHANGED vars
  <2>1. UNCHANGED <<store, fees, jailed, height, stopped>>
    BY <1>1 DEF vars
  <2>2. QED
    BY <2>1 DEF IInv, Bounded
<1>2. CASE BeginBlock
    BY <1>2, BeginBlockKeeps
<1>3. ASSUME NEW d \in Delegations, Withdraw(d)
      PROVE  IInv'
    BY <1>3, WithdrawKeeps
<1>4. ASSUME NEW v \in Validators, Unjail(v)
      PROVE  IInv'
    BY <1>4, UnjailKeeps
<1>5. ASSUME NEW allowed \in AllowedLists, Export(allowed)
      PROVE  IInv'
    BY <1>5, ExportKeeps
<1>6. QED
    BY <1>1, <1>2, <1>3, <1>4, <1>5 DEF Next

\* The store stays sound: app/export.go leaves an account that fits, as every
\* block, withdrawal and slash before and after it does.
THEOREM StaysSound == Spec => []IInv
<1>1. IInv /\ [Next]_vars => IInv'
    BY NextSound
<1>2. QED
    BY InitSound, <1>1, PTL DEF Spec

-----------------------------------------------------------------------------
(* What follows.                                                           *)

\* Amounts and counts keep their ranges, through every export (app/export.go:52
\* to 240) and on the chains before and after it.
THEOREM TypeCorrect == Spec => []TypeOK
<1>1. IInv => TypeOK
    BY DEF IInv, Bounded, Sound, TypeOK
<1>2. QED
    BY StaysSound, <1>1, PTL

\* No withdrawal of the export panics (app/export.go:76 to 107), nor one on the
\* chain that starts from it, for a stake beyond what slashes left or a reference
\* that is not there.
THEOREM NeverPanics == Spec => []NoPanic
<1>1. IInv => NoPanic
    BY DEF IInv, Sound, NoPanic
<1>2. QED
    BY StaysSound, <1>1, PTL

\* What is outstanding when validators start anew goes to the community
\* (app/export.go:126), so that the account holds what it is to hold.
THEOREM AccountAlwaysHolds == Spec => []AccountHoldsAll
<1>1. ASSUME Account(store)
      PROVE  AccountHoldsAll
  <2>. DEFINE f == [v \in Validators |-> store.validators[v].outstanding]
  <2>1. DOMAIN f = Validators
    OBVIOUS
  <2>2. DecFromInt(store.balance) = store.community + SumFunctionOnSet(f, Validators)
    BY <1>1 DEF Account
  <2>. HIDE DEF f
  <2>3. DecFromInt(store.balance) = store.community + SumFunction(f)
    BY <2>1, <2>2 DEF SumFunction
  <2>4. QED
    BY <2>3 DEF AccountHoldsAll, f
<1>2. IInv => AccountHoldsAll
    BY <1>1 DEF IInv, Sound
<1>3. QED
    BY StaysSound, <1>2, PTL

\* As many periods are counted from as delegations count, when each counts from
\* one of its own.
LEMMA OwnPeriods ==
    ASSUME NEW s, NEW L, IsFiniteSet(L), Distinct(s, L), NEW T,
           T = {p \in Periods : CountedAt(s, L, p)},
           \A d \in L : s.infos[d].period \in Periods
    PROVE  Cardinality(T) = Cardinality(L)
<1>. DEFINE f == [d \in L |-> s.infos[d].period]
<1>1. f \in [L -> T]
    BY DEF CountedAt
<1>2. \A d, e \in L : f[d] = f[e] => d = e
    BY DEF Distinct
<1>3. \A p \in T : \E d \in L : f[d] = p
    BY DEF CountedAt
<1>. HIDE DEF f
<1>4. DOMAIN f = L
    BY <1>1
<1>5. f \in Injection(L, T)
    BY <1>1, <1>2, <1>4, Zenon DEF Injection, IsInjective
<1>6. f \in Surjection(L, T)
    BY <1>1, <1>3 DEF Surjection
<1>7. QED
    BY <1>5, <1>6, FS_Surjection

\* There are finitely many periods.
LEMMA PeriodsFinite == IsFiniteSet(Periods)
<1>1. MaxPeriod \in Nat
    BY DistributionAssumption
<1>2. QED
    BY <1>1, FS_Interval DEF Periods

\* The account of a validator with all its delegations.
LEMMA WholeFits ==
    ASSUME NEW s, NEW h, Sound(s, Delegations, h), NEW v \in Validators
    PROVE  Fits(s, DelegationsTo(v), v, h)
<1>1. Delegations \cap DelegationsTo(v) = DelegationsTo(v)
    BY DEF DelegationsTo
<1>2. Fits(s, Delegations \cap DelegationsTo(v), v, h)
    BY DEF Sound
<1>3. QED
    BY <1>1, <1>2

\* A sum of the three kinds of references is a sum of counts.
LEMMA ReferencesAdd ==
    ASSUME NEW S, IsFiniteSet(S), NEW A \in SUBSET S, NEW B \in SUBSET S, NEW C \in SUBSET S,
           NEW f,
           \A p \in S : f[p] = Bit(p \in A) + Bit(p \in B) + Bit(p \in C)
    PROVE  SumFunctionOnSet(f, S) = Cardinality(A) + Cardinality(B) + Cardinality(C)
<1>. DEFINE a == [p \in S |-> Bit(p \in A)]
            b == [p \in S |-> Bit(p \in B)]
            c == [p \in S |-> Bit(p \in C)]
            ab == [p \in S |-> a[p] + b[p]]
<1>1. /\ \A p \in S : a[p] = IF p \in A THEN 1 ELSE 0
      /\ \A p \in S : b[p] = IF p \in B THEN 1 ELSE 0
      /\ \A p \in S : c[p] = IF p \in C THEN 1 ELSE 0
    BY DEF Bit
<1>2. \A p \in S : f[p] = (a[p] + b[p]) + c[p]
    BY <1>1
<1>3. \A p \in S : ab[p] = a[p] + b[p]
    OBVIOUS
<1>. HIDE DEF a, b, c, ab
<1>4. \A p \in S : /\ a[p] \in Int
                   /\ b[p] \in Int
                   /\ c[p] \in Int
                   /\ ab[p] \in Int
                   /\ f[p] = ab[p] + c[p]
    BY <1>1, <1>2, <1>3
<1>5. SumFunctionOnSet(a, S) = Cardinality(A)
    BY <1>1, SumCounts
<1>6. SumFunctionOnSet(b, S) = Cardinality(B)
    BY <1>1, SumCounts
<1>7. SumFunctionOnSet(c, S) = Cardinality(C)
    BY <1>1, SumCounts
<1>8. SumFunctionOnSet(ab, S) = SumFunctionOnSet(a, S) + SumFunctionOnSet(b, S)
    BY <1>3, <1>4, SumAdds
<1>9. SumFunctionOnSet(f, S) = SumFunctionOnSet(ab, S) + SumFunctionOnSet(c, S)
    BY <1>4, SumAdds
<1>10. QED
    BY <1>5, <1>6, <1>7, <1>8, <1>9

\* The references of one validator's history.
LEMMA ReferencesOf ==
    ASSUME NEW s \in StoreType, NEW v \in Validators, NEW L \in SUBSET DelegationsTo(v),
           NEW h \in Nat, Fits(s, L, v, h)
    PROVE  SumFunction([p \in Periods |-> s.validators[v].history[p].refs]) =
              1 + Cardinality(L)
                + Cardinality({p \in Periods : s.validators[v].slashes[p] # NoSlash})
<1>. DEFINE f == [p \in Periods |-> s.validators[v].history[p].refs]
            A == {Ended(s, v)}
            B == {p \in Periods : CountedAt(s, L, p)}
            C == {p \in Periods : s.validators[v].slashes[p] # NoSlash}
<1>1. RefsFit(s, L, v) /\ SlashesFit(s, v, h) /\ Distinct(s, L)
    BY DEF Fits
<1>2. Ended(s, v) \in Periods
    BY <1>1, PeriodIsTyped
<1>3. ASSUME NEW p \in Periods
      PROVE  f[p] = Bit(p \in A) + Bit(p \in B) + Bit(p \in C)
  <2>1. f[p] = Bit(p = Ended(s, v)) + Bit(CountedAt(s, L, p))
                 + Bit(s.validators[v].slashes[p].fraction > 0)
    BY <1>1 DEF RefsFit
  <2>2. p \in A <=> p = Ended(s, v)
    OBVIOUS
  <2>3. p \in B <=> CountedAt(s, L, p)
    OBVIOUS
  <2>4. p \in C <=> s.validators[v].slashes[p].fraction > 0
    <3>1. s.validators[v].slashes[p].fraction \in Nat
      BY EntryIsTyped
    <3>2. s.validators[v].slashes[p].fraction = 0 => s.validators[v].slashes[p] = NoSlash
      BY <1>1 DEF SlashesFit
    <3>3. NoSlash.fraction = 0
      BY DEF NoSlash
    <3>4. QED
      BY <3>1, <3>2, <3>3
  <2>. HIDE DEF f, A, B, C
  <2>5. QED
    BY <2>1, <2>2, <2>3, <2>4 DEF Bit
<1>4. A \in SUBSET Periods /\ B \in SUBSET Periods /\ C \in SUBSET Periods
    BY <1>2
<1>5. Cardinality(A) = 1
    BY FS_Singleton
<1>6. Cardinality(B) = Cardinality(L)
  <2>1. IsFiniteSet(L)
    BY LinksFinite
  <2>2. \A d \in L : s.infos[d].period \in Periods
    BY LinkIsTyped, InfoIsTyped
  <2>3. B = {p \in Periods : CountedAt(s, L, p)}
    OBVIOUS
  <2>. HIDE DEF B
  <2>4. QED
    BY <1>1, <2>1, <2>2, <2>3, OwnPeriods
<1>7. DOMAIN f = Periods
    OBVIOUS
<1>8. SumFunctionOnSet(f, Periods) = Cardinality(A) + Cardinality(B) + Cardinality(C)
  <2>. HIDE DEF f, A, B, C
  <2>1. QED
    BY <1>3, <1>4, PeriodsFinite, ReferencesAdd
<1>. HIDE DEF f, A, B
<1>9. SumFunction(f) = 1 + Cardinality(L) + Cardinality(C)
    BY <1>5, <1>6, <1>7, <1>8 DEF SumFunction
<1>10. QED
    BY <1>9 DEF f

\* A validator that starts anew (app/export.go:139) and delegations that count
\* again (app/export.go:159) leave a history with what is needed and no more.
THEOREM ReferencesAlwaysMatch == Spec => []ReferencesMatch
<1>1. ASSUME IInv
      PROVE  ReferencesMatch
  <2>1. /\ height \in Nat
        /\ Sound(store, Delegations, height)
        /\ store \in StoreType
    BY <1>1, HeightTyped
  <2>2. ASSUME NEW v \in Validators
        PROVE  SumFunction([p \in Periods |-> store.validators[v].history[p].refs]) =
                  1 + Cardinality(DelegationsTo(v))
                    + Cardinality({p \in Periods : store.validators[v].slashes[p] # NoSlash})
    <3>1. Fits(store, DelegationsTo(v), v, height)
      BY <2>1, WholeFits
    <3>2. DelegationsTo(v) \in SUBSET DelegationsTo(v)
      OBVIOUS
    <3>3. QED
      BY <2>1, <3>1, <3>2, ReferencesOf
  <2>3. QED
    BY <2>2 DEF ReferencesMatch
<1>2. IInv => ReferencesMatch
    BY <1>1
<1>3. QED
    BY StaysSound, <1>2, PTL

\* A delegation to a validator makes for a period that can end.
LEMMA RoomToEnd ==
    ASSUME NEW s \in StoreType, RoomFor(s, Delegations), NEW v \in Validators,
           DelegationsTo(v) # {}
    PROVE  s.validators[v].period < MaxPeriod
<1>1. s.validators[v].period + Cardinality(DelegationsTo(v)) <= MaxPeriod
    BY RoomIs
<1>2. DelegationsTo(v) \in SUBSET DelegationsTo(v)
    OBVIOUS
<1>3. IsFiniteSet(DelegationsTo(v)) /\ Cardinality(DelegationsTo(v)) \in Nat
    BY <1>2, LinksFinite
<1>4. Cardinality(DelegationsTo(v)) # 0
    BY <1>3, FS_EmptySet
<1>5. s.validators[v].period \in Nat /\ MaxPeriod \in Nat
    BY StoreIsTyped, DistributionAssumption DEF RecordTyped
<1>6. QED
    BY <1>1, <1>3, <1>4, <1>5

\* The whole coins a query promises are within what was earned.
LEMMA PendingCovered ==
    ASSUME NEW s \in StoreType, NEW v \in Validators, NEW L \in SUBSET DelegationsTo(v),
           NEW h \in Nat, Fits(s, L, v, h), s.validators[v].period < MaxPeriod, NEW d \in L
    PROVE  /\ DecFromInt(Pending(s, d, h)) \in Nat
           /\ Owed(IncrementPeriod(s, v), d, h) \in Nat
           /\ One * DecFromInt(Pending(s, d, h)) <= Owed(IncrementPeriod(s, v), d, h)
<1>. DEFINE t == IncrementPeriod(s, v)
            x == Due(t, d, h)
            y == Pending(s, d, h)
            z == Owed(t, d, h)
<1>1. t = IncrementPeriod(s, v)
    OBVIOUS
<1>2. x = NextDue(s, d, h) /\ y = TruncateInt(NextDue(s, d, h))
    BY PendingIs
<1>. HIDE DEF t
<1>3. t \in StoreType /\ Fits(t, L, v, h)
    BY <1>1, IncrementFits
<1>4. x \in Nat /\ One * x <= z
    BY <1>3, RewardsAreDue
<1>5. z \in Nat
    BY <1>3, OwedType
<1>6. y = TruncateInt(x)
    BY <1>2
<1>. HIDE DEF x, y, z
<1>7. y \in Nat /\ x - DecFromInt(y) \in 0..(One - 1)
    BY <1>4, <1>6, TruncateIntWhole
<1>8. DecFromInt(y) \in Nat /\ DecFromInt(y) <= x
    BY <1>4, <1>7, OneAssumption DEF DecFromInt
<1>9. One * DecFromInt(y) <= z
    BY <1>4, <1>5, <1>8, Cancel, OneAssumption
<1>10. QED
    BY <1>5, <1>8, <1>9 DEF t, y, z

\* What one validator's delegations would be paid, and its commission.
LEMMA OutstandingCoversOne ==
    ASSUME NEW s \in StoreType, NEW v \in Validators, NEW L \in SUBSET DelegationsTo(v),
           NEW h \in Nat, Fits(s, L, v, h), s.validators[v].period < MaxPeriod
    PROVE  s.validators[v].commission
              + SumFunctionOnSet([d \in L |-> DecFromInt(Pending(s, d, h))], L)
              <= s.validators[v].outstanding
<1>. DEFINE t == IncrementPeriod(s, v)
            f == [d \in L |-> DecFromInt(Pending(s, d, h))]
            g == [d \in L |-> One * f[d]]
            k == [d \in L |-> Owed(t, d, h)]
            commission == s.validators[v].commission
            outstanding == s.validators[v].outstanding
            lost == LostInPeriod(s.validators[v])
<1>1. \A d \in L : f[d] \in Int /\ k[d] \in Int /\ One * f[d] <= k[d]
  <2>1. ASSUME NEW d \in L
        PROVE  f[d] \in Int /\ k[d] \in Int /\ One * f[d] <= k[d]
    BY PendingCovered
  <2>2. QED
    BY <2>1
<1>2. \A d \in L : g[d] = One * f[d]
    OBVIOUS
<1>3. SumFunctionOnSet(k, L) = AllOwed(t, L, h)
    BY DEF AllOwed
<1>4. t = IncrementPeriod(s, v)
    OBVIOUS
<1>. HIDE DEF t, f, g, k
<1>5. One \in Int /\ IsFiniteSet(L)
    BY OneAssumption, LinksFinite
<1>6. \A d \in L : f[d] \in Int /\ k[d] \in Int /\ g[d] \in Int /\ g[d] <= k[d]
    BY <1>1, <1>2, <1>5
<1>7. SumFunctionOnSet(f, L) \in Int
    BY <1>5, <1>6, SumType
<1>8. SumFunctionOnSet(g, L) = One * SumFunctionOnSet(f, L)
    BY <1>2, <1>5, <1>6, SumScales
<1>9. SumFunctionOnSet(g, L) <= SumFunctionOnSet(k, L)
    BY <1>5, <1>6, SumLeq
<1>10. SumFunctionOnSet(k, L) \in Int
    BY <1>5, <1>6, SumType
<1>11. t \in StoreType /\ Fits(t, L, v, h) /\ Incremented(s, t, v)
    BY <1>4, IncrementFits
<1>12. /\ One * (t.validators[v].commission + t.validators[v].current) + AllOwed(t, L, h)
             <= One * t.validators[v].outstanding
    BY <1>11, CoverType
<1>13. /\ t.validators[v].commission = commission
       /\ t.validators[v].current = 0
       /\ t.validators[v].outstanding = outstanding - lost
    BY <1>11 DEF Incremented
<1>14. /\ commission \in Nat
       /\ outstanding \in Nat
    BY CoverType
<1>15. lost \in Nat
    BY PeriodAmounts
<1>. DEFINE F == SumFunctionOnSet(f, L)
            G == SumFunctionOnSet(g, L)
            K == SumFunctionOnSet(k, L)
<1>. HIDE DEF commission, outstanding, lost, F, G, K
<1>16. /\ One * commission + K <= One * (outstanding - lost)
       /\ F \in Int /\ K \in Int /\ G = One * F /\ G <= K
    BY <1>3, <1>7, <1>8, <1>9, <1>10, <1>12, <1>13, <1>14 DEF F, G, K
<1>17. One * (commission + F) <= One * outstanding
    BY <1>16, <1>14, <1>15, OneAssumption
<1>18. commission + F <= outstanding
    BY <1>17, <1>14, <1>16, Cancel, OneAssumption
<1>19. QED
    BY <1>18 DEF commission, outstanding, F, f

\* The export pays out of what is outstanding (app/export.go:76 to 107), and at any
\* moment that covers all it would pay.
THEOREM OutstandingAlwaysCovers == Spec => []OutstandingCovers
<1>1. ASSUME IInv, NEW v \in Validators
      PROVE  store.validators[v].commission
               + SumFunction([d \in DelegationsTo(v) |-> DecFromInt(Pending(store, d, height))])
               <= store.validators[v].outstanding
  <2>. DEFINE L == DelegationsTo(v)
              f == [d \in L |-> DecFromInt(Pending(store, d, height))]
  <2>1. /\ height \in Nat
        /\ Sound(store, Delegations, height)
        /\ store \in StoreType
        /\ RoomFor(store, Delegations)
    BY <1>1, HeightTyped DEF IInv
  <2>2. Fits(store, L, v, height) /\ L \in SUBSET DelegationsTo(v)
    BY <2>1, WholeFits
  <2>3. DOMAIN f = L
    OBVIOUS
  <2>4. store.validators[v].commission + SumFunctionOnSet(f, L)
           <= store.validators[v].outstanding
    <3>1. CASE L = {}
      <4>1. SumFunctionOnSet(f, {}) = 0
        BY SumEmpty
      <4>. DEFINE F == SumFunctionOnSet(f, L)
      <4>2. F = 0
        BY <3>1, <4>1
      <4>. HIDE DEF L, f, F
      <4>3. /\ store.validators[v].commission \in Nat
            /\ store.validators[v].current \in Nat
            /\ store.validators[v].outstanding \in Nat
            /\ store.validators[v].commission + store.validators[v].current
                  <= store.validators[v].outstanding
        BY <2>1, <2>2, CoverType
      <4>4. QED
        BY <4>2, <4>3 DEF F
    <3>2. CASE L # {}
      <4>1. store.validators[v].period < MaxPeriod
        BY <3>2, <2>1, RoomToEnd
      <4>. HIDE DEF L
      <4>2. QED
        BY <4>1, <2>1, <2>2, OutstandingCoversOne
    <3>3. QED
      BY <3>1, <3>2
  <2>. HIDE DEF f
  <2>5. store.validators[v].commission + SumFunction(f) <= store.validators[v].outstanding
    BY <2>3, <2>4 DEF SumFunction
  <2>6. QED
    BY <2>5 DEF f
<1>2. IInv => OutstandingCovers
    BY <1>1 DEF OutstandingCovers
<1>3. QED
    BY StaysSound, <1>2, PTL

\* An export pays everyone what a query at that moment would have told him
\* (app/export.go:76 to 107), whatever it has paid others before.
THEOREM ExportAlwaysPays == Spec => ExportPaysPending
<1>. DEFINE Pays == height' < height =>
                       /\ \A d \in Delegations :
                             store'.wallets[d] = store.wallets[d] + Pending(store, d, height)
                       /\ \A v \in Validators :
                             store'.wallets[v] =
                                store.wallets[v] + TruncateInt(store.validators[v].commission)
<1>1. ASSUME IInv, Next, height' < height
      PROVE  Pays
  <2>1. /\ height \in Nat
        /\ Sound(store, Delegations, height)
        /\ store \in StoreType
        /\ RoomFor(store, Delegations)
    BY <1>1, HeightTyped DEF IInv
  <2>2. store' = PreparedStore
    <3>1. CASE BeginBlock
      BY <3>1, <1>1, <2>1 DEF BeginBlock
    <3>2. ASSUME NEW d \in Delegations, Withdraw(d)
          PROVE  FALSE
      BY <3>2, <1>1, <2>1 DEF Withdraw
    <3>3. ASSUME NEW v \in Validators, Unjail(v)
          PROVE  FALSE
      BY <3>3, <1>1, <2>1 DEF Unjail
    <3>4. ASSUME NEW allowed \in AllowedLists, Export(allowed)
          PROVE  store' = PreparedStore
      <4>1. height' = height \/ store' = PreparedStore
        BY <3>4 DEF Export
      <4>2. height' # height
        BY <1>1, <2>1
      <4>3. QED
        BY <4>1, <4>2
    <3>5. QED
      BY <1>1, <3>1, <3>2, <3>3, <3>4 DEF Next
  <2>3. Prepared(store, PreparedStore, height)
    BY <2>1, PreparedSound
  <2>. DEFINE t == PreparedStore
  <2>4. /\ \A v \in Validators :
              t.wallets[v] = store.wallets[v] + TruncateInt(store.validators[v].commission)
        /\ \A d \in Delegations :
              t.wallets[d] = store.wallets[d] + TruncateInt(NextDue(store, d, height))
    BY <2>3 DEF Prepared
  <2>5. ASSUME NEW d \in Delegations
        PROVE  Pending(store, d, height) = TruncateInt(NextDue(store, d, height))
    <3>. DEFINE v == ValidatorOf[d]
                L == DelegationsTo(v)
    <3>1. v \in Validators /\ d \in L
      BY <2>1, InfoIsTyped
    <3>2. store.validators[v].period < MaxPeriod
      BY <2>1, <3>1, RoomToEnd
    <3>3. Fits(store, L, v, height) /\ L \in SUBSET DelegationsTo(v)
      BY <2>1, <3>1, WholeFits
    <3>. HIDE DEF v, L
    <3>4. QED
      BY <2>1, <3>1, <3>2, <3>3, PendingIs
  <2>. HIDE DEF t
  <2>6. store' = t
    BY <2>2 DEF t
  <2>7. QED
    BY <2>4, <2>5, <2>6
<1>2. IInv /\ [Next]_vars => [Pays]_vars
    BY <1>1 DEF Pays
<1>3. QED
    BY StaysSound, <1>2, PTL DEF Spec, ExportPaysPending

===============================================================================
