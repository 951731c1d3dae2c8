--------------------- MODULE RevenueDistributionProofs ---------------------
(***************************************************************************)
(* Theorems of RevenueDistribution, proved for every value of its          *)
(* constants that satisfies DistributionAssumption.                        *)
(***************************************************************************)
EXTENDS RevenueDistribution, Sums

\* Rounding down keeps the order.
LEMMA DivKeepsOrder ==
    ASSUME NEW a \in Nat, NEW b \in Nat, NEW d \in Nat \ {0}, a <= b
    PROVE  a \div d \in Nat /\ a \div d <= b \div d
<1> DEFINE q == a \div d
           r == b \div d
<1>1. q \in Int /\ r \in Int /\ q * d <= a /\ a < (q + 1) * d /\ r * d <= b /\ b < (r + 1) * d
  BY SMT
<1>2. q * d < (r + 1) * d
  BY <1>1, SMT
<1>3. q < r + 1
  BY <1>1, <1>2, SMT
<1>4. 0 < (q + 1) * d
  BY <1>1, SMT
<1>5. 0 < q + 1
  BY <1>1, <1>4, SMT
<1> QED
  BY <1>1, <1>3, <1>5, SMT

\* Products of naturals grow with their factors.
LEMMA TimesKeepsOrder ==
    ASSUME NEW a \in Nat, NEW b \in Nat, NEW c \in Nat, NEW d \in Nat, a <= b, c <= d
    PROVE  a * c \in Nat /\ b * d \in Nat /\ a * c <= b * d
<1>1. a * c <= b * c
  BY SMT
<1>2. b * c <= b * d
  BY SMT
<1> QED
  BY <1>1, <1>2, SMT

-----------------------------------------------------------------------------
\* The inductive invariant: types, the conservation of yield, and a release that
\* did not begin in the future.
Inv == TypeOK /\ YieldIsConserved /\ firstDepositTime <= clock

LEMMA ReleasedIsTyped ==
    ASSUME Inv
    PROVE  releasedAmount \in Nat
<1> DEFINE e == clock - firstDepositTime
           released == (totalYield * e) \div vestingDuration
<1>1. e \in Nat /\ totalYield \in Nat /\ vestingDuration \in Nat \ {0}
  BY SMT DEF Inv, TypeOK
<1>2. totalYield * e \in Nat
  BY <1>1, TimesKeepsOrder
<1>3. released \in Nat
  BY <1>1, <1>2, DivKeepsOrder
<1> QED
  BY <1>1, <1>3, SMT DEF releasedAmount

\* Shares are naturals whatever the token's holders do.
LEMMA SharesKeepTypes ==
    ASSUME DistributionAssumption, Inv, Shares!Entry
    PROVE  holding' \in [Accounts -> Nat] /\ issued' \in Nat
<1> USE DEF Inv, TypeOK, DistributionAssumption
<1>1. ASSUME NEW a \in Accounts, NEW n \in Amounts, Shares!Issue(a, n)
      PROVE  holding' \in [Accounts -> Nat] /\ issued' \in Nat
  <2>1. n \in Nat
    OBVIOUS
  <2> QED
    BY <1>1, <2>1, SMT DEF Shares!Issue
<1>2. ASSUME NEW a \in Accounts, NEW n \in Amounts, Shares!Redeem(a, n)
      PROVE  holding' \in [Accounts -> Nat] /\ issued' \in Nat
  <2>1. n \in Nat /\ holding[a] - n \in Nat /\ issued - n \in Nat
    BY <1>2, SMT DEF Shares!Redeem
  <2> QED
    BY <1>2, <2>1, SMT DEF Shares!Redeem
<1>3. ASSUME NEW a \in Accounts, NEW n \in Amounts, NEW b \in Accounts, NEW c \in Accounts,
             NEW fee \in 0 .. n \div 10, Shares!Move(a, b, c, n, fee)
      PROVE  holding' \in [Accounts -> Nat] /\ issued' \in Nat
  <2>1. n \in Nat /\ fee \in Nat /\ n - fee \in Nat
    <3>1. n \in Nat
      OBVIOUS
    <3>2. n \div 10 <= n
      BY <3>1, SMT
    <3> QED
      BY <3>1, <3>2, SMT
  <2>2. ASSUME NEW x \in Accounts
        PROVE  holding[x] - (IF x = a THEN n ELSE 0) + (IF x = c THEN fee ELSE 0)
                          + (IF x = b THEN n - fee ELSE 0) \in Nat
    BY <1>3, <2>1, SMT DEF Shares!Move
  <2> QED
    BY <1>3, <2>2, SMT DEF Shares!Move
<1> QED
  BY <1>1, <1>2, <1>3, SMT DEF Shares!Entry

LEMMA InitInv ==
    ASSUME DistributionAssumption, Init
    PROVE  Inv
<1> PICK duration \in Durations : vestingDuration = Duration(duration)
  BY DEF Init
<1>1. vestingDuration \in Nat \ {0}
  BY SMT DEF DistributionAssumption, Duration
<1>2. holding = [a \in Accounts |-> 0] /\ issued = 0
  BY DEF Init, Shares!Init
<1>3. /\ totalYield = 0 /\ totalClaimed = 0 /\ firstDepositTime = 0
      /\ claimed = [a \in Accounts |-> 0] /\ held = 0 /\ clock = 1 /\ moved = FALSE
  BY DEF Init
<1>4. moved \in BOOLEAN
  BY <1>3
<1>5. /\ holding \in [Accounts -> Nat] /\ issued \in Nat /\ claimed \in [Accounts -> Nat]
      /\ totalYield \in Nat /\ totalClaimed \in Nat /\ firstDepositTime \in Nat
      /\ held \in Nat /\ clock \in Nat \ {0}
      /\ held + totalClaimed = totalYield /\ firstDepositTime <= clock
  BY <1>2, <1>3, SMT
<1> QED
  BY <1>1, <1>4, <1>5 DEF Inv, TypeOK, YieldIsConserved

LEMMA DepositKeepsInv ==
    ASSUME DistributionAssumption, Inv,
           NEW caller \in Accounts, NEW amount \in Deposits, depositYield(caller, amount)
    PROVE  Inv'
<1>1. amount \in Nat
  BY DEF DistributionAssumption
<1> QED
  BY <1>1, SMT DEF Inv, TypeOK, YieldIsConserved, depositYield, shareVars

LEMMA DurationKeepsInv ==
    ASSUME DistributionAssumption, Inv,
           NEW caller \in Accounts, NEW duration \in Durations, setVestingDuration(caller, duration)
    PROVE  Inv'
BY SMT DEF DistributionAssumption, Inv, TypeOK, YieldIsConserved, setVestingDuration, Duration, shareVars

\* What is pending is a natural number, and a claim pays it out of what is held.
LEMMA ClaimKeepsInv ==
    ASSUME DistributionAssumption, Inv, NEW caller \in Accounts, claim(caller)
    PROVE  Inv'
<1> DEFINE p == Pending(caller)
           t == Entitled(caller)
<1>1. p > 0 /\ p <= held /\ issued > 0 /\ holding[caller] > 0
  BY DEF claim
<1>2. p = t - claimed[caller]
  BY <1>1, SMT DEF Pending, Inv, TypeOK
<1>3. t \in Nat
  <2>1. releasedAmount \in Nat /\ holding[caller] \in Nat /\ issued \in Nat \ {0}
    BY <1>1, ReleasedIsTyped, SMT DEF Inv, TypeOK
  <2>2. releasedAmount * holding[caller] \in Nat
    BY <2>1, TimesKeepsOrder
  <2> QED
    BY <2>1, <2>2, DivKeepsOrder DEF Entitled
<1>4. p \in Nat /\ held - p \in Nat
  BY <1>1, <1>2, <1>3, SMT DEF Inv, TypeOK
<1> HIDE DEF p, t
<1>5. /\ claimed' = [claimed EXCEPT ![caller] = t]
      /\ totalClaimed' = totalClaimed + p
      /\ held' = held - p
      /\ UNCHANGED <<shareVars, vestingDuration, totalYield, firstDepositTime, clock, moved>>
  BY DEF claim, p, t
<1> QED
  BY <1>3, <1>4, <1>5, SMT DEF Inv, TypeOK, YieldIsConserved, shareVars

LEMMA ShareStepKeepsInv ==
    ASSUME DistributionAssumption, Inv, ShareStep
    PROVE  Inv'
<1>1. holding' \in [Accounts -> Nat] /\ issued' \in Nat
  BY SharesKeepTypes DEF ShareStep
<1>2. moved' \in BOOLEAN /\ UNCHANGED <<yieldVars, clock>>
  BY DEF ShareStep
<1> QED
  BY <1>1, <1>2, SMT DEF Inv, TypeOK, YieldIsConserved, yieldVars

LEMMA NextKeepsInv ==
    ASSUME DistributionAssumption, Inv, [Next]_vars
    PROVE  Inv'
<1>1. ASSUME NEW caller \in Accounts, NEW amount \in Deposits, depositYield(caller, amount)
      PROVE  Inv'
  BY <1>1, DepositKeepsInv
<1>2. ASSUME NEW caller \in Accounts, NEW duration \in Durations,
             setVestingDuration(caller, duration)
      PROVE  Inv'
  BY <1>2, DurationKeepsInv
<1>3. ASSUME NEW caller \in Accounts, claim(caller) PROVE Inv'
  BY <1>3, ClaimKeepsInv
<1>4. CASE ShareStep
  BY <1>4, ShareStepKeepsInv
<1>5. CASE Tick
  BY <1>5, SMT DEF Tick, Inv, TypeOK, YieldIsConserved, shareVars, yieldVars
<1>6. CASE UNCHANGED vars
  BY <1>6, SMT DEF vars, Inv, TypeOK, YieldIsConserved, shareVars, yieldVars
<1> QED
  BY <1>1, <1>2, <1>3, <1>4, <1>5, <1>6 DEF Next

\* The invariant holds for any holders, amounts, deposits and durations.
THEOREM DistributionInvariant == Spec => []Inv
<1>1. Init => Inv
  BY DistributionAssumption, InitInv
<1>2. Inv /\ [Next]_vars => Inv'
  BY DistributionAssumption, NextKeepsInv
<1> QED
  BY <1>1, <1>2, PTL DEF Spec

\* The contract's counters and clocks never leave their types: no subtraction in
\* claim underflows and the duration it divides by is never 0.
THEOREM TypeCorrect == Spec => []TypeOK
<1>1. Inv => TypeOK
  BY DEF Inv
<1> QED
  BY <1>1, DistributionInvariant, PTL

\* What was deposited is held by the contract or was claimed from it.
THEOREM YieldConserved == Spec => []YieldIsConserved
<1>1. Inv => YieldIsConserved
  BY DEF Inv
<1> QED
  BY <1>1, DistributionInvariant, PTL

-----------------------------------------------------------------------------
\* releasedAmount of any yield y, deposited from time f on, at time c, over d.
Released(y, f, c, d) ==
    LET r == (y * (c - f)) \div d
    IN  IF y = 0 \/ f = 0 THEN 0 ELSE IF r > y THEN y ELSE r

\* Over the same duration, more time and more yield release no less.
LEMMA MoreIsReleased ==
    ASSUME NEW y1 \in Nat, NEW y2 \in Nat, y1 <= y2,
           NEW c1 \in Nat, NEW c2 \in Nat, c1 <= c2,
           NEW f1 \in Nat, NEW f2 \in Nat, f1 <= c1, f2 <= c2, f1 = 0 \/ f2 = f1,
           NEW d \in Nat \ {0}
    PROVE  Released(y2, f2, c2, d) >= Released(y1, f1, c1, d)
<1> DEFINE e1 == c1 - f1
           e2 == c2 - f2
           r1 == (y1 * e1) \div d
           r2 == (y2 * e2) \div d
<1>1. e1 \in Nat /\ e2 \in Nat
  BY SMT
<1>2. y1 * e1 \in Nat /\ y2 * e2 \in Nat
  BY <1>1, TimesKeepsOrder
<1>3. r1 \in Nat /\ r2 \in Nat
  BY <1>2, DivKeepsOrder
<1>4. /\ Released(y1, f1, c1, d) = IF y1 = 0 \/ f1 = 0 THEN 0 ELSE IF r1 > y1 THEN y1 ELSE r1
      /\ Released(y2, f2, c2, d) = IF y2 = 0 \/ f2 = 0 THEN 0 ELSE IF r2 > y2 THEN y2 ELSE r2
  BY DEF Released
<1>5. CASE y1 = 0 \/ f1 = 0
  <2> HIDE DEF r1, r2
  <2> QED
    BY <1>3, <1>4, <1>5, SMT
<1>6. CASE y1 # 0 /\ f1 # 0
  <2>1. e1 <= e2 /\ f2 # 0 /\ y2 # 0
    BY <1>6, SMT
  <2>2. y1 * e1 <= y2 * e2
    BY <1>1, <2>1, TimesKeepsOrder
  <2>3. r1 <= r2
    BY <1>2, <2>2, DivKeepsOrder
  <2> HIDE DEF r1, r2
  <2> QED
    BY <1>3, <1>4, <1>6, <2>1, <2>3, SMT
<1> QED
  BY <1>5, <1>6

\* Time and yield only grow, and the first deposit stays the first.
Forward ==
    /\ totalYield <= totalYield'
    /\ clock <= clock'
    /\ firstDepositTime # 0 => firstDepositTime' = firstDepositTime

LEMMA NextMovesForward ==
    ASSUME DistributionAssumption, Inv, [Next]_vars
    PROVE  Forward
<1> USE DEF Inv, TypeOK, Forward
<1>1. ASSUME NEW caller \in Accounts, NEW amount \in Deposits, depositYield(caller, amount)
      PROVE  Forward
  BY <1>1, SMT DEF depositYield, DistributionAssumption
<1>2. ASSUME NEW caller \in Accounts, NEW duration \in Durations,
             setVestingDuration(caller, duration)
      PROVE  Forward
  BY <1>2, SMT DEF setVestingDuration
<1>3. ASSUME NEW caller \in Accounts, claim(caller) PROVE Forward
  BY <1>3, SMT DEF claim
<1>4. CASE ShareStep
  BY <1>4, SMT DEF ShareStep, yieldVars
<1>5. CASE Tick
  BY <1>5, SMT DEF Tick, yieldVars
<1>6. CASE UNCHANGED vars
  BY <1>6, SMT DEF vars, yieldVars
<1> QED
  BY <1>1, <1>2, <1>3, <1>4, <1>5, <1>6 DEF Next

\* Released yield is never taken back while the duration stays.
THEOREM ReleaseIsKept == Spec => ReleaseNeverGoesBack
<1>1. Inv /\ [Next]_vars => [vestingDuration' = vestingDuration => releasedAmount' >= releasedAmount]_vars
  <2> SUFFICES ASSUME Inv, [Next]_vars, vestingDuration' = vestingDuration
               PROVE  releasedAmount' >= releasedAmount
    OBVIOUS
  <2>1. Inv' /\ Forward
    BY DistributionAssumption, NextKeepsInv, NextMovesForward
  <2>2. /\ totalYield \in Nat /\ totalYield' \in Nat /\ totalYield <= totalYield'
        /\ clock \in Nat /\ clock' \in Nat /\ clock <= clock'
        /\ firstDepositTime \in Nat /\ firstDepositTime' \in Nat
        /\ firstDepositTime <= clock /\ firstDepositTime' <= clock'
        /\ firstDepositTime = 0 \/ firstDepositTime' = firstDepositTime
        /\ vestingDuration \in Nat \ {0}
    BY <2>1 DEF Inv, TypeOK, Forward
  <2> DEFINE before == Released(totalYield, firstDepositTime, clock, vestingDuration)
             after  == Released(totalYield', firstDepositTime', clock', vestingDuration)
  <2>3. after >= before
    BY <2>2, MoreIsReleased
  <2>4. releasedAmount = before /\ releasedAmount' = after
    BY DEF releasedAmount, Released
  <2> QED
    BY <2>3, <2>4
<1>2. Spec => []Inv
  BY DistributionInvariant
<1> QED
  BY <1>1, <1>2, PTL DEF Spec, ReleaseNeverGoesBack

-----------------------------------------------------------------------------
(* What holders are paid. *)

\* The inductive invariant of the payments.  The shares add up to the supply and the
\* claims to what the contract counts.  Until a share moves, what a holder claimed
\* times the supply is at most the whole yield times its shares: released yield is
\* part of the yield, division only rounds down, and a later deposit only adds.
SharesAddUp == SumFunction(holding) = issued

ClaimsWithinShares ==
    ~moved => \A a \in Accounts : claimed[a] * issued <= totalYield * holding[a]

PayInv == Inv /\ SharesAddUp /\ YieldIsAccountedFor /\ ClaimsWithinShares

\* The facts of the invariant in the form the lemmas on sums take.
LEMMA SumsOfTheInvariant ==
    ASSUME PayInv
    PROVE  /\ IsFiniteSet(Accounts)
           /\ holding \in [Accounts -> Nat] /\ claimed \in [Accounts -> Nat]
           /\ issued \in Nat /\ totalClaimed \in Nat /\ totalYield \in Nat /\ held \in Nat
           /\ SumFunctionOnSet(holding, Accounts) = issued
           /\ SumFunctionOnSet(claimed, Accounts) = totalClaimed
           /\ \A a \in Accounts : holding[a] <= issued /\ claimed[a] <= totalClaimed
           /\ held + totalClaimed = totalYield
<1>1. /\ holding \in [Accounts -> Nat] /\ claimed \in [Accounts -> Nat]
      /\ issued \in Nat /\ totalClaimed \in Nat /\ totalYield \in Nat /\ held \in Nat
      /\ DOMAIN holding = Accounts /\ DOMAIN claimed = Accounts
      /\ \A a \in Accounts : holding[a] \in Nat /\ claimed[a] \in Nat
  BY DEF PayInv, Inv, TypeOK
<1>2. /\ SumFunctionOnSet(holding, Accounts) = issued
      /\ SumFunctionOnSet(claimed, Accounts) = totalClaimed
      /\ held + totalClaimed = totalYield
  BY <1>1 DEF PayInv, SharesAddUp, YieldIsAccountedFor, YieldIsConserved, SumFunction
<1>3. IsFiniteSet(Accounts)
  BY DistributionAssumption
<1>4. \A a \in Accounts : holding[a] <= issued
  BY <1>1, <1>2, <1>3, PartOfTheSum
<1>5. \A a \in Accounts : claimed[a] <= totalClaimed
  BY <1>1, <1>2, <1>3, PartOfTheSum
<1> QED
  BY <1>1, <1>2, <1>3, <1>4, <1>5

\* A step of the token keeps the sum of the shares.
LEMMA SharesKeepAddingUp ==
    ASSUME PayInv, [Shares!Entry]_shareVars
    PROVE  SharesAddUp'
<1>1. /\ holding \in [Accounts -> Nat] /\ issued \in Nat
      /\ SumFunctionOnSet(holding, Accounts) = issued
      /\ IsFiniteSet(Accounts) /\ \A a \in Accounts : holding[a] \in Int
  BY SumsOfTheInvariant
<1>2. SUFFICES DOMAIN holding' = Accounts /\ SumFunctionOnSet(holding', Accounts) = issued'
  BY DEF SharesAddUp, SumFunction
<1>3. CASE UNCHANGED shareVars
  BY <1>1, <1>3 DEF shareVars
<1>4. ASSUME NEW a \in Accounts, NEW n \in Amounts, Shares!Issue(a, n)
      PROVE  DOMAIN holding' = Accounts /\ SumFunctionOnSet(holding', Accounts) = issued'
  <2> DEFINE d == n
  <2>1. /\ d \in Int /\ issued' = issued + d /\ DOMAIN holding' = Accounts
        /\ IsGrowth(holding, holding', Accounts, a, d)
    BY <1>1, <1>4, DistributionAssumption DEF Shares!Issue, IsGrowth
  <2> HIDE DEF d
  <2> QED
    BY <1>1, <2>1, SumOfAGrowth
<1>5. ASSUME NEW a \in Accounts, NEW n \in Amounts, Shares!Redeem(a, n)
      PROVE  DOMAIN holding' = Accounts /\ SumFunctionOnSet(holding', Accounts) = issued'
  <2> DEFINE d == -n
  <2>1. /\ d \in Int /\ issued' = issued + d /\ DOMAIN holding' = Accounts
        /\ IsGrowth(holding, holding', Accounts, a, d)
    BY <1>1, <1>5, DistributionAssumption DEF Shares!Redeem, IsGrowth
  <2> HIDE DEF d
  <2> QED
    BY <1>1, <2>1, SumOfAGrowth
<1>6. ASSUME NEW a \in Accounts, NEW n \in Amounts, NEW b \in Accounts, NEW c \in Accounts,
             NEW fee \in 0 .. n \div 10, Shares!Move(a, b, c, n, fee)
      PROVE  DOMAIN holding' = Accounts /\ SumFunctionOnSet(holding', Accounts) = issued'
  <2>1. /\ n \in Int /\ fee \in Int /\ issued' = issued /\ DOMAIN holding' = Accounts
        /\ IsMove(holding, holding', Accounts, a, c, b, n, fee)
    BY <1>1, <1>6, DistributionAssumption DEF Shares!Move, IsMove
  <2> QED
    BY <1>1, <2>1, SumOfAMove
<1> QED
  BY <1>3, <1>4, <1>5, <1>6 DEF Shares!Entry

\* What is released is part of the yield, and what a holder is entitled to is part of
\* what is released: its shares over the supply, rounded down.
LEMMA EntitlementIsAShare ==
    ASSUME PayInv, issued > 0, NEW a \in Accounts
    PROVE  Entitled(a) \in Nat /\ Entitled(a) * issued <= totalYield * holding[a]
<1>1. /\ releasedAmount \in Nat /\ totalYield \in Nat /\ holding[a] \in Nat
      /\ issued \in Nat \ {0}
  BY SumsOfTheInvariant, ReleasedIsTyped DEF PayInv
<1>2. releasedAmount <= totalYield
  BY <1>1 DEF releasedAmount
<1> DEFINE due == releasedAmount * holding[a]
           t == due \div issued
<1>3. due \in Nat /\ due <= totalYield * holding[a] /\ totalYield * holding[a] \in Nat
  BY <1>1, <1>2, TimesKeepsOrder
<1>4. t = Entitled(a)
  BY DEF Entitled
<1> HIDE DEF due
<1>5. t \in Nat /\ t * issued <= due
  <2>1. t \in Nat
    BY <1>1, <1>3, DivKeepsOrder
  <2> QED
    BY <1>1, <1>3, <2>1, SMT
<1> HIDE DEF t
<1>6. t * issued \in Nat
  BY <1>1, <1>5, TimesKeepsOrder
<1> QED
  BY <1>3, <1>4, <1>5, <1>6

\* The payments begin within the invariant, ...
LEMMA InitPays ==
    ASSUME Init
    PROVE  PayInv
<1>1. Inv
  BY DistributionAssumption, InitInv
<1>2. /\ IsFiniteSet(Accounts) /\ issued = 0 /\ totalClaimed = 0 /\ totalYield = 0
      /\ DOMAIN holding = Accounts /\ DOMAIN claimed = Accounts
      /\ \A a \in Accounts : holding[a] = 0 /\ claimed[a] = 0
  BY DistributionAssumption DEF Init, Shares!Init
<1>3. SumFunctionOnSet(holding, Accounts) = 0 /\ SumFunctionOnSet(claimed, Accounts) = 0
  BY <1>2, SumOfZeros
<1>4. SharesAddUp /\ YieldIsAccountedFor
  BY <1>1, <1>2, <1>3 DEF SharesAddUp, YieldIsAccountedFor, SumFunction, Inv
<1>5. ClaimsWithinShares
  BY <1>2 DEF ClaimsWithinShares
<1> QED
  BY <1>1, <1>4, <1>5 DEF PayInv

\* A claim books what it pays, and leaves the holder within its share.
LEMMA ClaimPays ==
    ASSUME PayInv, NEW caller \in Accounts, claim(caller)
    PROVE  YieldIsAccountedFor' /\ ClaimsWithinShares'
<1> DEFINE t == Entitled(caller)
           p == t - claimed[caller]
<1>1. /\ IsFiniteSet(Accounts) /\ \A a \in Accounts : claimed[a] \in Int
      /\ claimed \in [Accounts -> Nat] /\ totalClaimed \in Nat
      /\ SumFunctionOnSet(claimed, Accounts) = totalClaimed
  BY SumsOfTheInvariant
<1>2. issued > 0 /\ t \in Nat /\ t * issued <= totalYield * holding[caller]
  BY EntitlementIsAShare DEF claim
<1>3. Pending(caller) = p
  BY <1>1, <1>2 DEF claim, Pending
<1> HIDE DEF t
<1>4. /\ claimed' = [claimed EXCEPT ![caller] = t] /\ totalClaimed' = totalClaimed + p
      /\ UNCHANGED <<shareVars, totalYield, moved>>
  BY <1>3 DEF claim, t
<1>5. /\ p \in Int /\ IsGrowth(claimed, claimed', Accounts, caller, p)
  BY <1>1, <1>2, <1>4 DEF IsGrowth
<1> HIDE DEF p
<1>6. SumFunctionOnSet(claimed', Accounts) = totalClaimed'
  BY <1>1, <1>4, <1>5, SumOfAGrowth
<1>7. DOMAIN claimed' = Accounts
  BY <1>1, <1>4
<1>8. YieldIsConserved'
  <2>1. Inv'
    BY DistributionAssumption, ClaimKeepsInv DEF PayInv
  <2> QED
    BY <2>1 DEF Inv
<1>9. ClaimsWithinShares'
  <2>1. SUFFICES ASSUME ~moved, NEW a \in Accounts
                 PROVE  claimed'[a] * issued <= totalYield * holding[a]
    BY <1>4 DEF ClaimsWithinShares, shareVars
  <2>2. claimed[a] * issued <= totalYield * holding[a]
    BY <2>1 DEF PayInv, ClaimsWithinShares
  <2>3. (claimed'[a] = t /\ a = caller) \/ claimed'[a] = claimed[a]
    BY <1>1, <1>4
  <2> QED
    BY <1>2, <2>2, <2>3
<1> QED
  BY <1>6, <1>7, <1>8, <1>9 DEF YieldIsAccountedFor, SumFunction

\* A share that moves before anything was claimed leaves the claims at nothing.
LEMMA ShareStepPays ==
    ASSUME PayInv, ShareStep
    PROVE  ClaimsWithinShares'
<1>1. SUFFICES ASSUME ~moved', NEW a \in Accounts
               PROVE  claimed[a] * issued' <= totalYield * holding'[a]
  BY DEF ClaimsWithinShares, ShareStep, yieldVars
<1>2. totalClaimed = 0
  <2>1. ~(totalClaimed > 0)
    BY <1>1, Zenon DEF ShareStep
  <2> QED
    BY <2>1, SumsOfTheInvariant
<1>3. claimed[a] = 0 /\ totalYield \in Nat
  BY <1>2, SumsOfTheInvariant
<1>4. holding'[a] \in Nat /\ issued' \in Nat
  BY DistributionAssumption, SharesKeepTypes DEF PayInv, ShareStep
<1>5. totalYield * holding'[a] \in Nat
  BY <1>3, <1>4, TimesKeepsOrder
<1> QED
  BY <1>3, <1>4, <1>5

\* More yield keeps every claim within its share.
LEMMA DepositPays ==
    ASSUME PayInv, NEW caller \in Accounts, NEW amount \in Deposits, depositYield(caller, amount)
    PROVE  ClaimsWithinShares'
<1>1. /\ UNCHANGED <<holding, issued, claimed, moved>>
      /\ totalYield \in Nat /\ totalYield' \in Nat /\ totalYield <= totalYield'
  BY DistributionAssumption, SumsOfTheInvariant DEF depositYield, shareVars
<1>2. SUFFICES ASSUME ~moved, NEW a \in Accounts
               PROVE  claimed[a] * issued <= totalYield' * holding[a]
  BY <1>1 DEF ClaimsWithinShares
<1>3. /\ claimed[a] * issued <= totalYield * holding[a]
      /\ claimed[a] \in Nat /\ issued \in Nat /\ holding[a] \in Nat
  BY <1>2, SumsOfTheInvariant DEF PayInv, ClaimsWithinShares
<1>4. /\ totalYield * holding[a] <= totalYield' * holding[a]
      /\ totalYield * holding[a] \in Nat /\ totalYield' * holding[a] \in Nat
      /\ claimed[a] * issued \in Nat
  BY <1>1, <1>3, TimesKeepsOrder
<1> QED
  BY <1>3, <1>4

\* ... and every step keeps them in it.
LEMMA NextPays ==
    ASSUME PayInv, [Next]_vars
    PROVE  PayInv'
<1>0. Inv'
  BY DistributionAssumption, NextKeepsInv DEF PayInv
<1>1. [Shares!Entry]_shareVars
  BY DEF Next, vars, depositYield, setVestingDuration, claim, ShareStep, Tick
<1>2. SharesAddUp'
  BY <1>1, SharesKeepAddingUp
<1>3. UNCHANGED <<claimed, totalClaimed>> => YieldIsAccountedFor'
  BY <1>0 DEF PayInv, Inv, YieldIsAccountedFor
<1>4. UNCHANGED <<holding, issued, claimed, moved, totalYield>> => ClaimsWithinShares'
  BY DEF PayInv, ClaimsWithinShares
<1> SUFFICES YieldIsAccountedFor' /\ ClaimsWithinShares'
  BY <1>0, <1>2 DEF PayInv
<1>5. ASSUME NEW caller \in Accounts, NEW amount \in Deposits, depositYield(caller, amount)
      PROVE  YieldIsAccountedFor' /\ ClaimsWithinShares'
  BY <1>3, <1>5, DepositPays DEF depositYield
<1>6. ASSUME NEW caller \in Accounts, NEW duration \in Durations,
             setVestingDuration(caller, duration)
      PROVE  YieldIsAccountedFor' /\ ClaimsWithinShares'
  BY <1>3, <1>4, <1>6 DEF setVestingDuration, shareVars
<1>7. ASSUME NEW caller \in Accounts, claim(caller)
      PROVE  YieldIsAccountedFor' /\ ClaimsWithinShares'
  BY <1>7, ClaimPays
<1>8. CASE ShareStep
  BY <1>3, <1>8, ShareStepPays DEF ShareStep, yieldVars
<1>9. CASE Tick
  BY <1>3, <1>4, <1>9 DEF Tick, shareVars, yieldVars
<1>10. CASE UNCHANGED vars
  BY <1>3, <1>4, <1>10 DEF vars, shareVars, yieldVars
<1> QED
  BY <1>5, <1>6, <1>7, <1>8, <1>9, <1>10 DEF Next

\* The payments stay within the invariant, for any finite number of holders.
THEOREM PaymentInvariant == Spec => []PayInv
BY InitPays, NextPays, PTL DEF Spec

\* Every unit of yield is in the contract or was paid, and the claims of the holders
\* add up to what the contract counts.
THEOREM YieldAccounted == Spec => []YieldIsAccountedFor
<1>1. PayInv => YieldIsAccountedFor
  BY DEF PayInv
<1> QED
  BY <1>1, PaymentInvariant, PTL

\* No holder is paid more than the whole yield.
THEOREM NobodyGetsMore == Spec => []NobodyBeyondTheYield
<1>1. PayInv => NobodyBeyondTheYield
  BY SumsOfTheInvariant DEF NobodyBeyondTheYield
<1> QED
  BY <1>1, PaymentInvariant, PTL

\* Until a share moves after a claim, all that is due to all holders can be paid at
\* once: what they claimed and what is pending, times the supply, is at most the
\* yield times the sum of the shares, which is the supply.
LEMMA DueIsCovered ==
    ASSUME PayInv
    PROVE  StaticSharesAreCovered
<1> DEFINE due == [a \in Accounts |-> Pending(a)]
           all == [a \in Accounts |-> due[a] + claimed[a]]
<1>1. /\ IsFiniteSet(Accounts) /\ claimed \in [Accounts -> Nat] /\ holding \in [Accounts -> Nat]
      /\ SumFunctionOnSet(holding, Accounts) = issued
      /\ SumFunctionOnSet(claimed, Accounts) = totalClaimed
      /\ issued \in Nat /\ totalYield \in Nat /\ held \in Nat
      /\ totalClaimed \in Nat /\ held + totalClaimed = totalYield
  BY SumsOfTheInvariant
<1>2. SUFFICES ASSUME ~moved PROVE SumFunctionOnSet(due, Accounts) <= held
  BY DEF StaticSharesAreCovered, SumFunction
<1>3. CASE issued = 0
  <2>1. \A a \in Accounts : due[a] = 0
    BY <1>3 DEF Pending
  <2> HIDE DEF due
  <2>2. SumFunctionOnSet(due, Accounts) = 0
    BY <1>1, <2>1, SumOfZeros
  <2> QED
    BY <1>1, <2>2
<1>4. CASE issued > 0
  <2>1. ASSUME NEW a \in Accounts
        PROVE  due[a] \in Nat /\ issued * (due[a] + claimed[a]) <= totalYield * holding[a]
    <3>1. claimed[a] * issued <= totalYield * holding[a] /\ claimed[a] \in Nat
      BY <1>1, <1>2 DEF PayInv, ClaimsWithinShares
    <3>2. Entitled(a) \in Nat /\ Entitled(a) * issued <= totalYield * holding[a]
      BY <1>4, EntitlementIsAShare
    <3>3. /\ Pending(a) \in Nat
          /\ Pending(a) + claimed[a] = claimed[a] \/ Pending(a) + claimed[a] = Entitled(a)
      BY <3>1, <3>2 DEF Pending
    <3> DEFINE s == Pending(a) + claimed[a]
    <3>4. s * issued <= totalYield * holding[a] /\ s \in Nat
      BY <3>1, <3>2, <3>3
    <3>5. s = due[a] + claimed[a]
      OBVIOUS
    <3> HIDE DEF s
    <3>6. issued * s <= totalYield * holding[a]
      BY <1>1, <3>4, SMT
    <3> QED
      BY <3>3, <3>5, <3>6
  <2>2. \A a \in Accounts : all[a] = due[a] + claimed[a]
    OBVIOUS
  <2> HIDE DEF all, due
  <2>3. \A a \in Accounts : /\ all[a] \in Int /\ due[a] \in Int /\ claimed[a] \in Int
                           /\ holding[a] \in Int
                           /\ issued * all[a] <= totalYield * holding[a]
    BY <1>1, <2>1, <2>2
  <2>4. issued * SumFunctionOnSet(all, Accounts) <= totalYield * SumFunctionOnSet(holding, Accounts)
    <3> DEFINE k == issued
               c == totalYield
    <3>1. /\ k \in Int /\ c \in Int
          /\ \A a \in Accounts : all[a] \in Int /\ holding[a] \in Int /\ k * all[a] <= c * holding[a]
      BY <1>1, <2>3
    <3> HIDE DEF k, c
    <3>2. k * SumFunctionOnSet(all, Accounts) <= c * SumFunctionOnSet(holding, Accounts)
      BY <1>1, <3>1, SumsCompare
    <3> QED
      BY <3>2 DEF k, c
  <2>5. SumFunctionOnSet(all, Accounts) = SumFunctionOnSet(due, Accounts) + totalClaimed
    BY <1>1, <2>2, <2>3, SumOfSums
  <2> DEFINE n == SumFunctionOnSet(due, Accounts)
  <2>6. n \in Int
    BY <1>1, <2>3, SumIsInt
  <2>7. issued * (n + totalClaimed) <= totalYield * issued
    BY <1>1, <2>4, <2>5
  <2> HIDE DEF n
  <2>8. n + totalClaimed <= totalYield
    BY <1>1, <1>4, <2>6, <2>7, SMT
  <2> QED
    BY <1>1, <2>6, <2>8 DEF n
<1> QED
  BY <1>1, <1>3, <1>4

\* While no share changes hands after the first claim, the contract holds what is due to all
\* holders together, so that no order of their claims (claim, lines 59-73) leaves one unpaid.
THEOREM StaticSharesCovered == Spec => []StaticSharesAreCovered
BY DueIsCovered, PaymentInvariant, PTL
=============================================================================
