--------------------------- MODULE RWATokenProofs ---------------------------
(***************************************************************************)
(* Proofs about RWAToken, for any accounts, word size, fee parameters and  *)
(* compliance settings.                                                    *)
(***************************************************************************)
EXTENDS RWAToken, Sums

\* Wrapping arithmetic stays in the word.
LEMMA WordIsClosed ==
    ASSUME NEW a \in Int, NEW b \in Int
    PROVE  Plus(a, b) \in Uint /\ Minus(a, b) \in Uint
<1>1. \A x \in Int : x % Word \in 0 .. Word - 1
  BY TokenAssumption
<1>2. a + b \in Int /\ a - b \in Int
  OBVIOUS
<1>3. QED
  BY <1>1, <1>2 DEF Plus, Minus, Uint

\* Arithmetic that does not leave the word does not wrap.
LEMMA NoWrap ==
    ASSUME NEW a \in Int, NEW b \in Int
    PROVE  /\ a + b \in Uint => Plus(a, b) = a + b
           /\ a - b \in Uint => Minus(a, b) = a - b
<1>1. \A x \in 0 .. Word - 1 : x % Word = x
  BY TokenAssumption
<1>2. QED
  BY <1>1 DEF Plus, Minus, Uint

\* The fee of a transfer is never negative nor more than the amount.
LEMMA FeeIsPartOfTheAmount ==
    ASSUME TypeOK, NEW amount \in Nat
    PROVE  FeeOf(amount) \in Nat /\ FeeOf(amount) <= amount /\ amount - FeeOf(amount) \in Nat
<1> DEFINE fee == (amount * feeRate) \div Denominator
<1>1. feeRate \in Nat
  BY TokenAssumption DEF TypeOK
<1>2. amount * feeRate \in Nat
  BY <1>1
<1>3. \A x \in Nat : x \div Denominator \in Nat
  BY TokenAssumption
<1>4. fee \in Nat
  BY <1>2, <1>3
<1>5. FeeOf(amount) = IF feeCollector = Zero THEN 0
                      ELSE IF fee > 0 /\ fee >= amount THEN amount - 1 ELSE fee
  BY DEF FeeOf
<1> HIDE DEF fee
<1>6. amount = 0 => fee = 0
  <2>1. 0 * feeRate = 0
    BY <1>1
  <2>2. 0 \div Denominator = 0
    BY TokenAssumption
  <2>3. QED
    BY <2>1, <2>2 DEF fee
<1>7. QED
  BY <1>4, <1>5, <1>6

-----------------------------------------------------------------------------
(* Types *)

\* What a transfer does to the ledger, account by account.
LEMMA MovedIsTyped ==
    ASSUME TypeOK, NEW from \in Accounts, NEW to \in Accounts, NEW amount \in Nat
    PROVE  Moved(from, to, amount) \in [Accounts -> Uint]
<1>1. ASSUME NEW ledger \in [Accounts -> Uint], NEW a \in Accounts, NEW n \in Nat
      PROVE  Credit(ledger, a, n) \in [Accounts -> Uint] /\ Debit(ledger, a, n) \in [Accounts -> Uint]
  <2>1. ledger[a] \in Int
    BY TokenAssumption DEF Uint
  <2>2. Plus(ledger[a], n) \in Uint /\ Minus(ledger[a], n) \in Uint
    BY <2>1, WordIsClosed
  <2>3. QED
    BY <2>2 DEF Credit, Debit
<1>2. FeeOf(amount) \in Nat /\ amount - FeeOf(amount) \in Nat
  BY FeeIsPartOfTheAmount
<1>3. FeeOf(amount) > 0 => feeCollector \in Accounts
  BY DEF FeeOf, TypeOK
<1> DEFINE collected == IF FeeOf(amount) > 0 THEN Credit(balances, feeCollector, FeeOf(amount))
                                             ELSE balances
<1>4. collected \in [Accounts -> Uint]
  BY <1>1, <1>2, <1>3 DEF TypeOK
<1>5. Moved(from, to, amount) = Credit(Debit(collected, from, amount), to, amount - FeeOf(amount))
  BY DEF Moved
<1> HIDE DEF collected
<1>6. QED
  <2>1. Debit(collected, from, amount) \in [Accounts -> Uint]
    BY <1>1, <1>4
  <2>2. QED
    BY <1>1, <1>2, <1>5, <2>1

LEMMA RegistryKeepsTypes ==
    ASSUME RegistryTypeOK, RegistryNext
    PROVE  RegistryTypeOK'
<1>1. ASSUME NEW caller \in Accounts, NEW investor \in Accounts, NEW code \in Countries,
             registerIdentity(caller, investor, code) \/ updateIdentity(caller, investor, code)
      PROVE  RegistryTypeOK'
  <2>1. code \in Codes
    BY DEF Codes
  <2>2. QED
    BY <1>1, <2>1 DEF RegistryTypeOK, registerIdentity, updateIdentity, RegistryRole!RoleTypeOK
<1>2. ASSUME NEW caller \in Accounts, NEW investor \in Accounts, removeIdentity(caller, investor)
      PROVE  RegistryTypeOK'
  <2>1. NoCountry \in Codes
    BY DEF Codes
  <2>2. QED
    BY <1>2, <2>1 DEF RegistryTypeOK, removeIdentity, RegistryRole!RoleTypeOK
<1>3. CASE RegistryRole!RoleStep /\ UNCHANGED <<verified, country>>
  BY <1>3, RegistryAssumption
     DEF RegistryTypeOK, RegistryRole!RoleTypeOK, RegistryRole!RoleStep, RegistryRole!addAgent,
         RegistryRole!removeAgent, RegistryRole!transferOwnership
<1>4. QED
  BY <1>1, <1>2, <1>3 DEF RegistryNext

LEMMA ComplianceKeepsTypes ==
    ASSUME ComplianceTypeOK, ComplianceNext
    PROVE  ComplianceTypeOK'
<1>1. ASSUME NEW caller \in Accounts, NEW investor \in Accounts, NEW cap \in Caps,
             NEW end \in LockupEnds, addToWhitelist(caller, investor, cap, end)
      PROVE  ComplianceTypeOK'
  BY <1>1 DEF ComplianceTypeOK, addToWhitelist, ComplianceRole!RoleTypeOK
<1>2. ASSUME NEW caller \in Accounts, NEW investor \in Accounts,
             removeFromWhitelist(caller, investor)
      PROVE  ComplianceTypeOK'
  BY <1>2 DEF ComplianceTypeOK, removeFromWhitelist, ComplianceRole!RoleTypeOK
<1>3. ASSUME NEW caller \in Accounts, NEW investor \in Accounts, NEW cap \in Caps,
             setMaxHolding(caller, investor, cap)
      PROVE  ComplianceTypeOK'
  BY <1>3 DEF ComplianceTypeOK, setMaxHolding, ComplianceRole!RoleTypeOK
<1>4. ASSUME NEW caller \in Accounts, NEW investor \in Accounts, NEW end \in LockupEnds,
             setLockupEnd(caller, investor, end)
      PROVE  ComplianceTypeOK'
  BY <1>4 DEF ComplianceTypeOK, setLockupEnd, ComplianceRole!RoleTypeOK
<1>5. ASSUME NEW caller \in Accounts, NEW code \in Codes, NEW on \in BOOLEAN,
             setRestrictedCountry(caller, code, on)
      PROVE  ComplianceTypeOK'
  BY <1>5 DEF ComplianceTypeOK, setRestrictedCountry, ComplianceRole!RoleTypeOK
<1>6. CASE Tick
  BY <1>6 DEF ComplianceTypeOK, Tick, ComplianceRole!RoleTypeOK
<1>7. CASE /\ ComplianceRole!RoleStep
           /\ UNCHANGED <<whitelisted, maxHolding, lockupEnd, restricted, clock>>
  BY <1>7, RegistryAssumption
     DEF ComplianceTypeOK, ComplianceRole!RoleTypeOK, ComplianceRole!RoleStep,
         ComplianceRole!addAgent, ComplianceRole!removeAgent, ComplianceRole!transferOwnership
<1>8. QED
  BY <1>1, <1>2, <1>3, <1>4, <1>5, <1>6, <1>7 DEF ComplianceNext

\* The policy contracts hold no token state and the token never writes theirs.
LEMMA PolicyUnchanged ==
    ASSUME RegistryTypeOK, ComplianceTypeOK, UNCHANGED policyVars
    PROVE  RegistryTypeOK' /\ ComplianceTypeOK'
BY DEF policyVars, registryVars, complianceVars, RegistryTypeOK, ComplianceTypeOK,
       RegistryRole!RoleTypeOK, ComplianceRole!RoleTypeOK

LEMMA NextKeepsTypes == TypeOK /\ [Next]_vars => TypeOK'
<1> SUFFICES ASSUME TypeOK, [Next]_vars PROVE TypeOK'
  OBVIOUS
<1> USE DEF tokenVars, roleVars, ledgerVars, switchVars
<1>1. \A amount \in Amounts : amount \in Nat /\ amount \in Uint
  BY TokenAssumption DEF Uint
<1>2. ASSUME NEW caller \in Accounts, NEW to \in Accounts, NEW amount \in Amounts,
             transfer(caller, to, amount)
      PROVE  TypeOK'
  <2>1. balances' \in [Accounts -> Uint]
    BY <1>1, <1>2, MovedIsTyped DEF transfer, Move
  <2>2. QED
    BY <1>2, <2>1, PolicyUnchanged DEF TypeOK, transfer, TokenRole!RoleTypeOK
<1>3. ASSUME NEW caller \in Accounts, NEW spender \in Accounts, NEW amount \in Amounts,
             approve(caller, spender, amount)
      PROVE  TypeOK'
  BY <1>1, <1>3, PolicyUnchanged DEF TypeOK, approve, TokenRole!RoleTypeOK
<1>4. ASSUME NEW caller \in Accounts, NEW from \in Accounts, NEW to \in Accounts,
             NEW amount \in Amounts, transferFrom(caller, from, to, amount)
      PROVE  TypeOK'
  <2>1. balances' \in [Accounts -> Uint]
    BY <1>1, <1>4, MovedIsTyped DEF transferFrom, Move
  <2>2. allowances[from][caller] - amount \in Uint
    BY <1>1, <1>4, TokenAssumption DEF transferFrom, TypeOK, Uint
  <2>3. allowances' \in [Accounts -> [Accounts -> Uint]]
    BY <1>4, <2>2 DEF transferFrom, TypeOK
  <2>4. QED
    BY <1>4, <2>1, <2>3, PolicyUnchanged DEF TypeOK, transferFrom, TokenRole!RoleTypeOK
<1>5. ASSUME NEW ledger \in [Accounts -> Uint], NEW a \in Accounts, NEW n \in Amounts
      PROVE  Credit(ledger, a, n) \in [Accounts -> Uint] /\ Debit(ledger, a, n) \in [Accounts -> Uint]
  <2>1. ledger[a] \in Int /\ n \in Int
    BY <1>1, TokenAssumption DEF Uint
  <2>2. Plus(ledger[a], n) \in Uint /\ Minus(ledger[a], n) \in Uint
    BY <2>1, WordIsClosed
  <2>3. QED
    BY <2>2 DEF Credit, Debit
<1>6. CASE Mint
  <2>1. PICK caller \in Accounts, to \in Accounts, amount \in Amounts : mint(caller, to, amount)
    BY <1>6 DEF Mint
  <2>2. balances' \in [Accounts -> Uint] /\ totalSupply' \in Uint
    <3>1. balances' \in [Accounts -> Uint]
      BY <1>5, <2>1 DEF mint, TypeOK
    <3>2. totalSupply' \in Uint
      BY <1>1, <2>1, TokenAssumption DEF mint, TypeOK, Uint
    <3>3. QED
      BY <3>1, <3>2
  <2>3. QED
    BY <2>1, <2>2, PolicyUnchanged DEF TypeOK, mint, TokenRole!RoleTypeOK
<1>7. CASE Burn
  <2>1. PICK caller \in Accounts, from \in Accounts, amount \in Amounts : burn(caller, from, amount)
    BY <1>7 DEF Burn
  <2>2. balances' \in [Accounts -> Uint] /\ totalSupply' \in Uint
    <3>1. balances' \in [Accounts -> Uint]
      BY <1>5, <2>1 DEF burn, TypeOK
    <3>2. totalSupply' \in Uint
      BY <1>1, <2>1, TokenAssumption DEF burn, TypeOK, Uint
    <3>3. QED
      BY <3>1, <3>2
  <2>3. QED
    BY <2>1, <2>2, PolicyUnchanged DEF TypeOK, burn, TokenRole!RoleTypeOK
<1>8. CASE ForcedTransfer
  <2>1. PICK caller \in Accounts, from \in Accounts, to \in Accounts, amount \in Amounts :
           forcedTransfer(caller, from, to, amount)
    BY <1>8 DEF ForcedTransfer
  <2>2. balances' \in [Accounts -> Uint]
    BY <1>5, <2>1 DEF forcedTransfer, TypeOK
  <2>3. QED
    BY <2>1, <2>2, PolicyUnchanged DEF TypeOK, forcedTransfer, TokenRole!RoleTypeOK
<1>9. CASE SwitchStep
  <2>1. ASSUME NEW caller \in Accounts, pause(caller) \/ unpause(caller)
        PROVE  TypeOK'
    BY <2>1, PolicyUnchanged DEF TypeOK, pause, unpause, TokenRole!RoleTypeOK
  <2>2. ASSUME NEW caller \in Accounts, NEW rate \in Rates, NEW collector \in Collectors,
               setTransferFee(caller, rate, collector)
        PROVE  TypeOK'
    <3>1. rate \in 0 .. MaxRate /\ collector \in Accounts \cup {Zero}
      BY <2>2, TokenAssumption DEF setTransferFee
    <3>2. QED
      BY <2>2, <3>1, PolicyUnchanged DEF TypeOK, setTransferFee, TokenRole!RoleTypeOK
  <2>3. QED
    BY <1>9, <2>1, <2>2 DEF SwitchStep
<1>10. CASE PolicyStep
  <2>1. RegistryTypeOK' /\ ComplianceTypeOK'
    <3>1. CASE RegistryNext /\ UNCHANGED complianceVars
      BY <3>1, RegistryKeepsTypes
         DEF TypeOK, complianceVars, ComplianceTypeOK, ComplianceRole!RoleTypeOK
    <3>2. CASE ComplianceNext /\ UNCHANGED registryVars
      BY <3>2, ComplianceKeepsTypes
         DEF TypeOK, registryVars, RegistryTypeOK, RegistryRole!RoleTypeOK, Codes
    <3>3. QED
      BY <1>10, <3>1, <3>2 DEF PolicyStep
  <2>2. QED
    BY <1>10, <2>1 DEF TypeOK, PolicyStep, TokenRole!RoleTypeOK
<1>11. CASE RoleStep
  BY <1>11, RegistryAssumption, PolicyUnchanged
     DEF RoleStep, TypeOK, TokenRole!RoleTypeOK, TokenRole!RoleStep, TokenRole!addAgent,
         TokenRole!removeAgent, TokenRole!transferOwnership
<1>12. CASE UNCHANGED vars
  BY <1>12, PolicyUnchanged DEF vars, TypeOK, TokenRole!RoleTypeOK
<1>13. QED
  BY <1>2, <1>3, <1>4, <1>6, <1>7, <1>8, <1>9, <1>10, <1>11, <1>12 DEF Next, HolderStep

LEMMA InitTypes == Init => TypeOK
<1> SUFFICES ASSUME Init PROVE TypeOK
  OBVIOUS
<1>1. RegistryTypeOK
  BY RegistryAssumption
     DEF Init, RegistryInit, RegistryTypeOK, RegistryRole!Deployed, RegistryRole!RoleTypeOK, Codes
<1>2. ComplianceTypeOK
  BY RegistryAssumption
     DEF Init, ComplianceInit, ComplianceTypeOK, ComplianceRole!Deployed, ComplianceRole!RoleTypeOK
<1>3. 0 \in Uint /\ 0 \in 0 .. MaxRate
  BY TokenAssumption DEF Uint
<1>4. QED
  BY <1>1, <1>2, <1>3, RegistryAssumption
     DEF Init, TypeOK, TokenRole!Deployed, TokenRole!RoleTypeOK

\* Every balance, allowance and supply stays a uint256, every fee rate in its cap
\* and every policy well formed.
THEOREM TypeCorrect == Spec => []TypeOK
<1>1. QED
  BY InitTypes, NextKeepsTypes, PTL DEF Spec
-----------------------------------------------------------------------------
(* Balances: who may gain, who may lose, and when *)

\* A transfer writes a balance up to three times, with wrapping arithmetic; account by
\* account, and fees aside, it comes to this.
LEMMA MovedByAccount ==
    ASSUME TypeOK, NEW from \in Accounts, NEW to \in Accounts, NEW amount \in Amounts,
           balances[from] >= amount, NEW a \in Accounts, a # feeCollector
    PROVE  LET after == Moved(from, to, amount)[a]
           IN  /\ a \notin {from, to} => after = balances[a]
               /\ a # to => after <= balances[a]
               /\ after <= balances[a] + amount
<1> DEFINE fee == FeeOf(amount)
           collected == IF fee > 0 THEN Credit(balances, feeCollector, fee) ELSE balances
           debited == Debit(collected, from, amount)
<1>1. /\ amount \in Nat /\ fee \in Nat /\ fee <= amount /\ amount - fee \in Nat
      /\ fee > 0 => feeCollector \in Accounts
  <2>1. amount \in Nat
    BY TokenAssumption
  <2>2. fee > 0 => feeCollector \in Accounts
    BY DEF FeeOf, TypeOK
  <2>3. QED
    BY <2>1, <2>2, FeeIsPartOfTheAmount
<1>2. balances \in [Accounts -> Uint] /\ \A b \in Accounts : balances[b] \in Nat
  BY TokenAssumption DEF TypeOK, Uint
<1> HIDE DEF fee
<1>3. /\ DOMAIN collected = Accounts
      /\ collected[a] = balances[a]
  BY <1>1, <1>2 DEF Credit
<1> HIDE DEF collected
<1>4. /\ DOMAIN debited = Accounts
      /\ debited[a] = IF a = from THEN balances[a] - amount ELSE balances[a]
  <2>1. DOMAIN debited = Accounts
        /\ debited[a] = IF a = from THEN Minus(balances[a], amount) ELSE balances[a]
    BY <1>3 DEF Debit
  <2>2. a = from => balances[a] - amount \in Uint
    BY <1>1, <1>2, TokenAssumption DEF Uint
  <2>3. a = from => Minus(balances[a], amount) = balances[a] - amount
    BY <1>1, <1>2, <2>2, NoWrap
  <2>4. QED
    BY <2>1, <2>3
<1> HIDE DEF debited
<1>5. Moved(from, to, amount)[a] = IF a = to THEN Plus(debited[a], amount - fee) ELSE debited[a]
  <2>1. Moved(from, to, amount) = Credit(debited, to, amount - fee)
    BY DEF Moved, fee, collected, debited
  <2>2. QED
    BY <1>4, <2>1 DEF Credit
<1>6. debited[a] \in Nat /\ debited[a] <= balances[a]
  BY <1>1, <1>2, <1>4
<1>7. Plus(debited[a], amount - fee) <= debited[a] + (amount - fee)
  <2>1. \A x \in Nat : x % Word <= x
    BY TokenAssumption
  <2>2. debited[a] + (amount - fee) \in Nat
    BY <1>1, <1>6
  <2>3. QED
    BY <2>1, <2>2 DEF Plus
<1>8. Plus(debited[a], amount - fee) \in Int
  <2>1. debited[a] \in Int /\ amount - fee \in Int
    BY <1>1, <1>6
  <2>2. Plus(debited[a], amount - fee) \in Uint
    BY <2>1, WordIsClosed
  <2>3. QED
    BY <2>2, TokenAssumption DEF Uint
<1>9. QED
  BY <1>1, <1>2, <1>4, <1>5, <1>6, <1>7, <1>8

\* A holder's transfer, its own or by allowance.
HolderMoves ==
    /\ ~paused
    /\ totalSupply' = totalSupply
    /\ \E from, to \in Accounts, amount \in Amounts : Move(from, to, amount)

\* What a holder's step does to balances.
LEMMA HolderStepMoves ==
    ASSUME HolderStep
    PROVE  HolderMoves \/ UNCHANGED <<balances, totalSupply>>
  BY DEF HolderStep, transfer, approve, transferFrom, HolderMoves

\* The four kinds of step that touch a balance.
LEMMA LedgerSteps ==
    ASSUME [Next]_vars
    PROVE  \/ UNCHANGED <<balances, totalSupply>>
           \/ HolderMoves
           \/ Mint
           \/ Burn
           \/ ForcedTransfer
<1> USE DEF tokenVars, ledgerVars
<1>1. CASE HolderStep
  BY <1>1, HolderStepMoves
<1>2. CASE SwitchStep
  BY <1>2 DEF SwitchStep, pause, unpause, setTransferFee
<1>3. CASE PolicyStep
  BY <1>3 DEF PolicyStep
<1>4. CASE RoleStep
  BY <1>4 DEF RoleStep
<1>5. CASE UNCHANGED vars
  BY <1>5 DEF vars
<1>6. QED
  BY <1>1, <1>2, <1>3, <1>4, <1>5 DEF Next

\* While the breaker is on, no balance and no supply changes, agents included.
THEOREM PausedIsFrozen == Spec => PausedMeansFrozen
<1>1. [Next]_vars => [paused => UNCHANGED <<balances, totalSupply>>]_vars
  <2> SUFFICES ASSUME [Next]_vars, paused PROVE UNCHANGED <<balances, totalSupply>>
    OBVIOUS
  <2>1. ~Mint /\ ~Burn /\ ~ForcedTransfer /\ ~HolderMoves
    BY DEF Mint, mint, Burn, burn, ForcedTransfer, forcedTransfer, HolderMoves
  <2>2. QED
    BY <2>1, LedgerSteps
<1>2. QED
  BY <1>1, PTL DEF Spec, PausedMeansFrozen

\* What a mint writes: the receiver's balance, not beyond the exact sum.
LEMMA MintByAccount ==
    ASSUME TypeOK, NEW caller \in Accounts, NEW to \in Accounts, NEW amount \in Amounts,
           mint(caller, to, amount), NEW a \in Accounts
    PROVE  /\ a # to => balances'[a] = balances[a]
           /\ balances'[to] <= balances[to] + amount
           /\ balances'[to] \in Nat /\ balances[to] + amount \in Nat
<1>1. balances \in [Accounts -> Uint] /\ amount \in Nat /\ balances[to] \in Nat
  BY TokenAssumption DEF TypeOK, Uint
<1>2. balances' = Credit(balances, to, amount)
  BY DEF mint
<1>3. /\ a # to => balances'[a] = balances[a]
      /\ balances'[to] = Plus(balances[to], amount)
  BY <1>1, <1>2 DEF Credit
<1>4. \A x \in Nat : x % Word \in Nat /\ x % Word <= x
  BY TokenAssumption
<1>5. balances[to] + amount \in Nat
  BY <1>1
<1>6. QED
  BY <1>3, <1>4, <1>5 DEF Plus

\* Whoever gains by a mint or a transfer, fees aside, is its receiver.
LEMMA GainerIsReceiver ==
    ASSUME TypeOK, [Next]_vars, HolderStep \/ Mint,
           NEW a \in Accounts, a # feeCollector, balances'[a] > balances[a]
    PROVE  CanReceive(a) /\ UnderCap(a, balances'[a])
<1>0. /\ balances[a] \in Nat
      /\ TypeOK'
  BY NextKeepsTypes, TokenAssumption DEF TypeOK, Uint
<1>1. balances'[a] \in Nat
  BY <1>0, TokenAssumption DEF TypeOK, Uint
<1>2. maxHolding[a] \in Nat
  <2>1. maxHolding \in [Accounts -> Caps \cup {0}]
    BY DEF TypeOK, ComplianceTypeOK
  <2>2. maxHolding[a] \in Caps \cup {0}
    BY <2>1
  <2>3. \A c \in Caps \cup {0} : c \in Nat
    BY ComplianceAssumption
  <2>4. QED
    BY <2>2, <2>3
<1>3. CASE HolderMoves
  <2>1. PICK from \in Accounts, to \in Accounts, amount \in Amounts : Move(from, to, amount)
    BY <1>3 DEF HolderMoves
  <2>2. /\ balances' = Moved(from, to, amount) /\ balances[from] >= amount
        /\ canTransfer(from, to) /\ UnderCap(to, balances[to] + amount) /\ amount \in Nat
    BY <2>1, TokenAssumption DEF Move
  <2>3. a # to => balances'[a] <= balances[a]
    BY <2>2, MovedByAccount
  <2>4. balances'[a] <= balances[a] + amount
    BY <2>2, MovedByAccount
  <2>5. a = to
    BY <1>0, <1>1, <2>3
  <2>6. QED
    BY <1>0, <1>1, <1>2, <2>2, <2>4, <2>5 DEF canTransfer, UnderCap
<1>4. CASE Mint
  <2>1. PICK caller \in Accounts, to \in Accounts, amount \in Amounts : mint(caller, to, amount)
    BY <1>4 DEF Mint
  <2>2. a = to
    BY <1>0, <2>1, MintByAccount
  <2>3. balances'[a] <= balances[a] + amount /\ balances[a] + amount \in Nat
    BY <2>1, <2>2, MintByAccount
  <2>4. canTransfer(Zero, a) /\ UnderCap(a, balances[a] + amount)
    BY <2>1, <2>2 DEF mint
  <2>5. QED
    BY <1>1, <1>2, <2>3, <2>4 DEF canTransfer, UnderCap
<1>5. CASE UNCHANGED <<balances, totalSupply>>
  BY <1>0, <1>5
<1>6. QED
  BY <1>3, <1>4, <1>5, HolderStepMoves

\* No transfer and no mint lets an account gain that is not verified, whitelisted and of no
\* restricted country at that moment, fees aside.
THEOREM GainersAreCleared == Spec => ReceiversAreCleared
<1>1. TypeOK /\ [Next]_vars =>
        [\A a \in Accounts :
            balances'[a] > balances[a] /\ a # feeCollector /\ ~CanReceive(a) =>
               ~HolderStep /\ ~Mint]_vars
  BY GainerIsReceiver
<1>2. QED
  BY <1>1, TypeCorrect, PTL DEF Spec, ReceiversAreCleared

\* No mint and no transfer lifts an account over its cap, fees aside.
THEOREM CapsAreKept == Spec => CapsHold
<1>1. TypeOK /\ [Next]_vars =>
        [\A a \in Accounts :
            balances'[a] > balances[a] /\ a # feeCollector /\ ~UnderCap(a, balances'[a]) =>
               ~HolderStep /\ ~Mint]_vars
  BY GainerIsReceiver
<1>2. QED
  BY <1>1, TypeCorrect, PTL DEF Spec, CapsHold

-----------------------------------------------------------------------------
(* Conservation of the supply, and the ledger of TokenLedger *)

\* The inductive invariant.  That no credit wraps needs that no two balances together
\* exceed a word, which needs that all of them add up to the supply.
SupplyInv == TypeOK /\ SupplyIsConserved

\* What % leaves is determined by its range and its congruence class.
LEMMA RemainderIs ==
    ASSUME NEW x \in Int, NEW q \in Int, NEW r \in Uint, x = Word * q + r
    PROVE  x % Word = r
<1> DEFINE p == x \div Word
           m == x % Word
<1>1. Word \in Nat \ {0} /\ r \in Int /\ 0 <= r /\ r < Word
  BY TokenAssumption DEF Uint
<1>2. p \in Int /\ m \in Int /\ x = Word * p + m /\ 0 <= m /\ m < Word
  BY <1>1
<1> HIDE DEF p, m
<1>3. Word * (p - q) = r - m
  BY <1>1, <1>2
<1>4. \A d \in Int : d >= 1 => Word * d >= Word
  BY <1>1
<1>5. \A d \in Int : d <= -1 => Word * d <= -Word
  BY <1>1
<1>6. p - q \in Int /\ ~(p - q >= 1) /\ ~(p - q <= -1)
  BY <1>1, <1>2, <1>3, <1>4, <1>5
<1>7. p = q
  BY <1>2, <1>6
<1> QED
  BY <1>1, <1>2, <1>7 DEF m

\* A credit followed by a debit of the same balance wraps twice, if at all: together they
\* are exact when the result fits.
LEMMA CreditThenDebit ==
    ASSUME NEW b \in Uint, NEW n \in Uint, NEW m \in Uint, b + n - m \in Uint
    PROVE  Minus(Plus(b, n), m) = b + n - m
<1>1. Word \in Nat \ {0} /\ b \in Int /\ n \in Int /\ m \in Int
  BY TokenAssumption DEF Uint
<1>2. CASE b + n < Word
  <2>1. b + n \in Uint
    BY <1>1, <1>2 DEF Uint
  <2> QED
    BY <1>1, <2>1, NoWrap
<1>3. CASE b + n >= Word
  <2>1. b + n - Word \in Uint /\ b + n \in Int /\ b + n = Word * 1 + (b + n - Word)
    BY <1>1, <1>3 DEF Uint
  <2>2. (b + n) % Word = b + n - Word
    BY <2>1, RemainderIs
  <2>3. /\ (b + n - Word) - m \in Int
        /\ (b + n - Word) - m = Word * (-1) + (b + n - m)
    BY <1>1
  <2>4. ((b + n - Word) - m) % Word = b + n - m
    BY <2>3, RemainderIs
  <2> QED
    BY <2>2, <2>4 DEF Plus, Minus
<1> QED
  BY <1>1, <1>2, <1>3

\* The fee is a tenth of the amount at most, since no rate exceeds MaxRate.
LEMMA FeeIsATenth ==
    ASSUME TypeOK, NEW amount \in Nat
    PROVE  FeeOf(amount) \in 0 .. amount \div 10
<1> DEFINE fee == (amount * feeRate) \div Denominator
<1>1. feeRate \in Nat /\ Denominator \in Nat \ {0} /\ 10 * feeRate <= Denominator
  BY TokenAssumption DEF TypeOK
<1>2. amount * feeRate \in Nat
  BY <1>1
<1>3. fee \in Nat /\ fee * Denominator <= amount * feeRate
  <2> DEFINE v == amount * feeRate
  <2>1. v \in Nat
    BY <1>2
  <2> HIDE DEF v
  <2>2. v \div Denominator \in Nat /\ (v \div Denominator) * Denominator <= v
    BY <1>1, <2>1
  <2> QED
    BY <2>2 DEF v
<1> HIDE DEF fee
<1>4. (10 * fee) * Denominator <= amount * Denominator
  <2>1. 10 * (fee * Denominator) <= 10 * (amount * feeRate)
    BY <1>1, <1>2, <1>3
  <2>2. amount * (10 * feeRate) <= amount * Denominator
    BY <1>1
  <2>3. 10 * (amount * feeRate) = amount * (10 * feeRate) /\ (10 * fee) * Denominator = 10 * (fee * Denominator)
    BY <1>1, <1>3
  <2>4. /\ 10 * (fee * Denominator) \in Int /\ 10 * (amount * feeRate) \in Int
        /\ amount * Denominator \in Int
    BY <1>1, <1>3
  <2> QED
    BY <2>1, <2>2, <2>3, <2>4
<1>5. 10 * fee <= amount
  <2>1. \A x, y \in Nat : x * Denominator <= y * Denominator => x <= y
    BY <1>1
  <2> QED
    BY <1>3, <1>4, <2>1
<1>6. fee <= amount \div 10 /\ amount \div 10 \in Nat
  BY <1>3, <1>5
<1>7. FeeOf(amount) = IF feeCollector = Zero THEN 0
                      ELSE IF fee > 0 /\ fee >= amount THEN amount - 1 ELSE fee
  BY DEF FeeOf, fee
<1> QED
  BY <1>3, <1>5, <1>6, <1>7

\* Who gets the fee; nobody does when it is 0.
Collector(from) == IF feeCollector \in Accounts THEN feeCollector ELSE from

\* The balances after a move in plain integers, as TokenLedger writes them.
MovedPlainly(from, to, amount, fee) ==
    [a \in Accounts |-> balances[a] - (IF a = from THEN amount ELSE 0)
                                    + (IF a = Collector(from) THEN fee ELSE 0)
                                    + (IF a = to THEN amount - fee ELSE 0)]

LEMMA SupplyBoundsBalances ==
    ASSUME SupplyInv
    PROVE  /\ balances \in [Accounts -> Nat] /\ totalSupply \in Nat /\ totalSupply < Word
           /\ SumFunctionOnSet(balances, Accounts) = totalSupply
           /\ \A a \in Accounts : balances[a] <= totalSupply
           /\ \A a, b \in Accounts : a # b => balances[a] + balances[b] <= totalSupply
<1>1. /\ balances \in [Accounts -> Nat] /\ totalSupply \in Nat /\ totalSupply < Word
      /\ DOMAIN balances = Accounts
  BY TokenAssumption DEF SupplyInv, TypeOK, Uint
<1>2. SumFunctionOnSet(balances, Accounts) = totalSupply
  BY <1>1 DEF SupplyInv, SupplyIsConserved, SumFunction
<1> QED
  BY <1>1, <1>2, PartOfTheSum, RegistryAssumption

\* A sum that is kept bounds what is summed.
LEMMA PlainMoveFits ==
    ASSUME SupplyInv, NEW from \in Accounts, NEW to \in Accounts, NEW amount \in Nat,
           NEW fee \in Nat, fee <= amount, balances[from] >= amount
    PROVE  LET after == MovedPlainly(from, to, amount, fee)
           IN  /\ after \in [Accounts -> Uint]
               /\ SumFunctionOnSet(after, Accounts) = totalSupply
<1> DEFINE after == MovedPlainly(from, to, amount, fee)
<1>1. balances \in [Accounts -> Nat] /\ totalSupply \in Nat /\ totalSupply < Word
  BY SupplyBoundsBalances
<1>2. Collector(from) \in Accounts
  BY DEF Collector
<1>3. \A a \in Accounts : after[a] = balances[a] - (IF a = from THEN amount ELSE 0)
                                    + (IF a = Collector(from) THEN fee ELSE 0)
                                    + (IF a = to THEN amount - fee ELSE 0)
  BY DEF MovedPlainly
<1>4. after = [a \in Accounts |-> after[a]]
  BY DEF MovedPlainly
<1> HIDE DEF after
<1>5. \A a \in Accounts : after[a] \in Nat
  BY <1>1, <1>3
<1>6. SumFunctionOnSet(after, Accounts) = SumFunctionOnSet(balances, Accounts)
  <2> DEFINE c == Collector(from)
  <2>1. /\ IsFiniteSet(Accounts) /\ c \in Accounts /\ amount \in Int /\ fee \in Int
        /\ \A a \in Accounts : balances[a] \in Int
    BY <1>1, <1>2, RegistryAssumption
  <2>2. IsMove(balances, after, Accounts, from, c, to, amount, fee)
    BY <1>3 DEF IsMove
  <2> HIDE DEF c
  <2> QED
    BY <2>1, <2>2, SumOfAMove
<1>7. SumFunctionOnSet(after, Accounts) = totalSupply
  BY <1>6, SupplyBoundsBalances
<1>8. \A a \in Accounts : after[a] <= totalSupply
  BY <1>5, <1>7, PartOfTheSum, RegistryAssumption
<1>9. \A a \in Accounts : after[a] \in Uint
  BY <1>1, <1>5, <1>8, TokenAssumption DEF Uint
<1> QED
  BY <1>4, <1>7, <1>9 DEF after

\* Three writes with wrapping arithmetic, one after the other and possibly to one
\* account, come to the plain move.
LEMMA TransferIsPlain ==
    ASSUME SupplyInv, NEW from \in Accounts, NEW to \in Accounts, NEW amount \in Uint,
           balances[from] >= amount
    PROVE  Moved(from, to, amount) = MovedPlainly(from, to, amount, FeeOf(amount))
<1> DEFINE fee == FeeOf(amount)
           collected == IF fee > 0 THEN Credit(balances, feeCollector, fee) ELSE balances
           debited == Debit(collected, from, amount)
           after == MovedPlainly(from, to, amount, fee)
<1>1. TypeOK /\ amount \in Nat /\ amount < Word
  BY TokenAssumption DEF SupplyInv, Uint
<1>2. /\ fee \in Nat /\ fee <= amount /\ fee \in Uint /\ amount - fee \in Nat
      /\ fee > 0 => feeCollector \in Accounts /\ Collector(from) = feeCollector
  <2>1. fee \in Nat /\ fee <= amount
    BY <1>1, FeeIsPartOfTheAmount
  <2>2. fee > 0 => feeCollector \in Accounts
    BY <1>1 DEF FeeOf, TypeOK
  <2>3. fee \in Uint /\ amount - fee \in Nat
    BY <1>1, <2>1, TokenAssumption DEF Uint
  <2> QED
    BY <2>1, <2>2, <2>3 DEF Collector
<1>3. /\ balances \in [Accounts -> Nat] /\ totalSupply \in Nat /\ totalSupply < Word
      /\ \A a \in Accounts : balances[a] <= totalSupply /\ balances[a] \in Uint
      /\ \A a, b \in Accounts : a # b => balances[a] + balances[b] <= totalSupply
  <2>1. \A a \in Accounts : balances[a] \in Uint
    BY DEF SupplyInv, TypeOK
  <2> QED
    BY <2>1, SupplyBoundsBalances
<1>4. after \in [Accounts -> Uint]
  BY <1>1, <1>2, PlainMoveFits
<1>5. Moved(from, to, amount) = Credit(debited, to, amount - fee)
  BY DEF Moved
<1>6. /\ after = [a \in Accounts |-> after[a]]
      /\ \A a \in Accounts : after[a] = balances[a] - (IF a = from THEN amount ELSE 0)
                                       + (IF a = Collector(from) THEN fee ELSE 0)
                                       + (IF a = to THEN amount - fee ELSE 0)
  BY DEF MovedPlainly
<1> HIDE DEF fee, after
<1>7. /\ collected = [a \in Accounts |-> collected[a]]
      /\ \A a \in Accounts :
            collected[a] = IF fee > 0 /\ a = Collector(from) THEN Plus(balances[a], fee)
                                                            ELSE balances[a]
  BY <1>2, <1>3 DEF Credit
<1> HIDE DEF collected
<1>8. /\ debited = [a \in Accounts |-> debited[a]]
      /\ \A a \in Accounts :
            debited[a] = IF a = from THEN Minus(collected[a], amount) ELSE collected[a]
  BY <1>7 DEF Debit
<1> HIDE DEF debited
<1>9. ASSUME NEW a \in Accounts
      PROVE  /\ debited[a] \in Int
             /\ debited[a] = balances[a] - (IF a = from THEN amount ELSE 0)
                                         + (IF a = Collector(from) THEN fee ELSE 0)
  <2> DEFINE paid == fee > 0 /\ a = Collector(from)
  <2>0. balances[a] \in Nat /\ balances[a] \in Uint
    BY <1>3
  <2>1. CASE a = from /\ paid
    <3>1. balances[a] + fee - amount \in Uint
      BY <1>1, <1>2, <1>3, <2>1, TokenAssumption DEF Uint
    <3>2. Minus(Plus(balances[a], fee), amount) = balances[a] + fee - amount
      BY <1>2, <2>0, <3>1, CreditThenDebit
    <3>3. debited[a] = balances[a] + fee - amount
      BY <1>7, <1>8, <2>1, <3>2
    <3> QED
      BY <1>1, <1>2, <2>0, <2>1, <3>3
  <2>2. CASE a = from /\ ~paid
    <3>1. balances[a] - amount \in Uint
      BY <1>1, <1>3, <2>2, TokenAssumption DEF Uint
    <3>2. Minus(balances[a], amount) = balances[a] - amount
      BY <1>1, <2>0, <3>1, NoWrap
    <3>3. debited[a] = balances[a] - amount
      BY <1>7, <1>8, <2>2, <3>2
    <3> QED
      BY <1>1, <1>2, <2>0, <2>2, <3>3
  <2>3. CASE a # from /\ paid
    <3>1. balances[a] + fee \in Uint
      <4>1. balances[a] + balances[from] <= totalSupply /\ balances[from] \in Nat
        BY <1>3, <2>3
      <4> QED
        BY <1>1, <1>2, <1>3, <2>0, <4>1, TokenAssumption DEF Uint
    <3>2. Plus(balances[a], fee) = balances[a] + fee
      BY <1>2, <2>0, <3>1, NoWrap
    <3>3. debited[a] = balances[a] + fee
      BY <1>7, <1>8, <2>3, <3>2
    <3> QED
      BY <1>2, <2>0, <2>3, <3>3
  <2>4. CASE a # from /\ ~paid
    BY <1>2, <1>7, <1>8, <2>0, <2>4
  <2> QED
    BY <2>1, <2>2, <2>3, <2>4
<1>10. ASSUME NEW a \in Accounts
       PROVE  Credit(debited, to, amount - fee)[a] = after[a]
  <2>1. Credit(debited, to, amount - fee)[a] =
           IF a = to THEN Plus(debited[a], amount - fee) ELSE debited[a]
    BY <1>8 DEF Credit
  <2>2. after[a] = IF a = to THEN debited[a] + (amount - fee) ELSE debited[a]
    BY <1>1, <1>2, <1>3, <1>6, <1>9
  <2>3. after[a] \in Uint /\ amount - fee \in Int /\ debited[a] \in Int
    BY <1>2, <1>4, <1>9
  <2>4. a = to => Plus(debited[a], amount - fee) = debited[a] + (amount - fee)
    BY <2>2, <2>3, NoWrap
  <2> QED
    BY <2>1, <2>2, <2>4
<1>11. Credit(debited, to, amount - fee) = [a \in Accounts |-> Credit(debited, to, amount - fee)[a]]
  BY <1>8 DEF Credit
<1>12. Credit(debited, to, amount - fee) = after
  BY <1>6, <1>10, <1>11
<1> QED
  BY <1>5, <1>12 DEF after, fee

\* The steps that touch the ledger are steps of TokenLedger.
LEMMA StepIsALedgerStep ==
    ASSUME SupplyInv, [Next]_vars
    PROVE  [Ledger!Next]_<<balances, totalSupply>>
<1> SUFFICES ASSUME ~UNCHANGED <<balances, totalSupply>> PROVE Ledger!Next
  OBVIOUS
<1>0. \A amount \in Amounts : amount \in Uint /\ amount \in Nat
  BY TokenAssumption DEF Uint
<1>1. /\ balances \in [Accounts -> Nat] /\ totalSupply \in Nat /\ totalSupply < Word
      /\ \A a \in Accounts : balances[a] <= totalSupply /\ balances[a] \in Uint
  <2>1. \A a \in Accounts : balances[a] \in Uint
    BY DEF SupplyInv, TypeOK
  <2> QED
    BY <2>1, SupplyBoundsBalances
<1>2. CASE HolderMoves
  <2>1. PICK from \in Accounts, to \in Accounts, amount \in Amounts : Move(from, to, amount)
    BY <1>2 DEF HolderMoves
  <2>2. balances' = MovedPlainly(from, to, amount, FeeOf(amount)) /\ amount <= balances[from]
    BY <1>0, <1>1, <2>1, TransferIsPlain DEF Move
  <2>3. FeeOf(amount) \in 0 .. amount \div 10
    BY <1>0, FeeIsATenth DEF SupplyInv
  <2>4. Collector(from) \in Accounts
    BY DEF Collector
  <2>5. Ledger!Move(from, to, Collector(from), amount, FeeOf(amount))
    BY <1>2, <2>2 DEF Ledger!Move, MovedPlainly, HolderMoves
  <2> QED
    BY <2>3, <2>4, <2>5 DEF Ledger!Next, Ledger!Entry, Ledger!ledgerVars
<1>3. CASE Mint
  <2>1. PICK caller \in Accounts, to \in Accounts, amount \in Amounts : mint(caller, to, amount)
    BY <1>3 DEF Mint
  <2>2. /\ balances' = Credit(balances, to, amount) /\ totalSupply' = totalSupply + amount
        /\ totalSupply + amount < Word
    BY <2>1 DEF mint
  <2>3. balances[to] + amount \in Uint
    BY <1>0, <1>1, <2>2, TokenAssumption DEF Uint
  <2>4. Plus(balances[to], amount) = balances[to] + amount
    BY <1>0, <1>1, <2>3, NoWrap
  <2>5. Ledger!Issue(to, amount)
    BY <2>2, <2>4 DEF Ledger!Issue, Credit
  <2> QED
    BY <2>5 DEF Ledger!Next, Ledger!Entry, Ledger!ledgerVars
<1>4. CASE Burn
  <2>1. PICK caller \in Accounts, from \in Accounts, amount \in Amounts : burn(caller, from, amount)
    BY <1>4 DEF Burn
  <2>2. /\ balances' = Debit(balances, from, amount) /\ totalSupply' = totalSupply - amount
        /\ amount <= balances[from] /\ amount <= totalSupply
    BY <1>0, <1>1, <2>1 DEF burn
  <2>3. balances[from] - amount \in Uint
    BY <1>0, <1>1, <2>2, TokenAssumption DEF Uint
  <2>4. Minus(balances[from], amount) = balances[from] - amount
    BY <1>0, <1>1, <2>3, NoWrap
  <2>5. Ledger!Redeem(from, amount)
    BY <2>2, <2>4 DEF Ledger!Redeem, Debit
  <2> QED
    BY <2>5 DEF Ledger!Next, Ledger!Entry, Ledger!ledgerVars
<1>5. CASE ForcedTransfer
  <2>1. PICK caller \in Accounts, from \in Accounts, to \in Accounts, amount \in Amounts :
           forcedTransfer(caller, from, to, amount)
    BY <1>5 DEF ForcedTransfer
  <2> DEFINE debited == Debit(balances, from, amount)
             after == [a \in Accounts |-> balances[a] - (IF a = from THEN amount ELSE 0)
                                                     + (IF a = from THEN 0 ELSE 0)
                                                     + (IF a = to THEN amount - 0 ELSE 0)]
  <2>2. /\ balances' = Credit(debited, to, amount) /\ totalSupply' = totalSupply
        /\ amount <= balances[from]
    BY <1>0, <1>1, <2>1 DEF forcedTransfer
  <2>3. after \in [Accounts -> Uint]
    <3>1. IsMove(balances, after, Accounts, from, from, to, amount, 0)
      BY DEF IsMove
    <3>2. \A a \in Accounts : after[a] \in Nat
      BY <1>0, <1>1, <2>2
    <3> HIDE DEF after
    <3>3. SumFunctionOnSet(after, Accounts) = SumFunctionOnSet(balances, Accounts)
      <4>1. /\ IsFiniteSet(Accounts) /\ amount \in Int /\ 0 \in Int
            /\ \A a \in Accounts : balances[a] \in Int
        BY <1>0, <1>1, RegistryAssumption
      <4> QED
        BY <3>1, <4>1, SumOfAMove
    <3>4. \A a \in Accounts : after[a] <= totalSupply
      BY <3>2, <3>3, SupplyBoundsBalances, PartOfTheSum, RegistryAssumption
    <3>5. \A a \in Accounts : after[a] \in Uint
      BY <1>1, <3>2, <3>4, TokenAssumption DEF Uint
    <3> QED
      BY <3>5 DEF after
  <2>4. /\ debited = [a \in Accounts |-> debited[a]]
        /\ \A a \in Accounts : debited[a] = IF a = from THEN balances[a] - amount ELSE balances[a]
    <3>1. balances[from] - amount \in Uint
      BY <1>0, <1>1, <2>2, TokenAssumption DEF Uint
    <3>2. Minus(balances[from], amount) = balances[from] - amount
      BY <1>0, <1>1, <3>1, NoWrap
    <3> QED
      BY <1>1, <3>2 DEF Debit
  <2> HIDE DEF debited
  <2>5. ASSUME NEW a \in Accounts PROVE Credit(debited, to, amount)[a] = after[a]
    <3>1. /\ Credit(debited, to, amount)[a] = IF a = to THEN Plus(debited[a], amount) ELSE debited[a]
          /\ debited[a] \in Int /\ amount \in Int
      BY <1>0, <1>1, <2>4 DEF Credit
    <3>2. after[a] = IF a = to THEN debited[a] + amount ELSE debited[a]
      BY <1>0, <1>1, <2>4
    <3>3. after[a] \in Uint
      BY <2>3
    <3> HIDE DEF after
    <3>4. a = to => Plus(debited[a], amount) = debited[a] + amount
      BY <3>1, <3>2, <3>3, NoWrap
    <3> QED
      BY <3>1, <3>2, <3>4
  <2>6. Credit(debited, to, amount) = [a \in Accounts |-> Credit(debited, to, amount)[a]]
    BY <2>4 DEF Credit
  <2>7. balances' = after
    BY <2>2, <2>5, <2>6
  <2>8. Ledger!Move(from, to, from, amount, 0)
    BY <2>2, <2>7 DEF Ledger!Move
  <2>9. 0 \in 0 .. amount \div 10
    BY <1>0
  <2> QED
    BY <2>8, <2>9 DEF Ledger!Next, Ledger!Entry, Ledger!ledgerVars
<1> QED
  BY <1>2, <1>3, <1>4, <1>5, LedgerSteps

\* A step of the ledger keeps the sum.
LEMMA LedgerStepConserves ==
    ASSUME SupplyInv, [Ledger!Next]_<<balances, totalSupply>>
    PROVE  SupplyIsConserved'
<1>1. /\ balances \in [Accounts -> Nat] /\ totalSupply \in Nat
      /\ SumFunctionOnSet(balances, Accounts) = totalSupply
      /\ IsFiniteSet(Accounts) /\ \A a \in Accounts : balances[a] \in Int
  BY SupplyBoundsBalances, RegistryAssumption
<1>2. SUFFICES DOMAIN balances' = Accounts /\ SumFunctionOnSet(balances', Accounts) = totalSupply'
  BY DEF SupplyIsConserved, SumFunction
<1>3. CASE UNCHANGED <<balances, totalSupply>>
  BY <1>1, <1>3
<1>4. ASSUME NEW a \in Accounts, NEW n \in Amounts, Ledger!Issue(a, n)
      PROVE  DOMAIN balances' = Accounts /\ SumFunctionOnSet(balances', Accounts) = totalSupply'
  <2> DEFINE d == n
  <2>1. /\ d \in Int /\ totalSupply' = totalSupply + d /\ DOMAIN balances' = Accounts
        /\ IsGrowth(balances, balances', Accounts, a, d)
    BY <1>1, <1>4, TokenAssumption DEF Ledger!Issue, IsGrowth
  <2> HIDE DEF d
  <2> QED
    BY <1>1, <2>1, SumOfAGrowth
<1>5. ASSUME NEW a \in Accounts, NEW n \in Amounts, Ledger!Redeem(a, n)
      PROVE  DOMAIN balances' = Accounts /\ SumFunctionOnSet(balances', Accounts) = totalSupply'
  <2> DEFINE d == -n
  <2>1. /\ d \in Int /\ totalSupply' = totalSupply + d /\ DOMAIN balances' = Accounts
        /\ IsGrowth(balances, balances', Accounts, a, d)
    BY <1>1, <1>5, TokenAssumption DEF Ledger!Redeem, IsGrowth
  <2> HIDE DEF d
  <2> QED
    BY <1>1, <2>1, SumOfAGrowth
<1>6. ASSUME NEW a \in Accounts, NEW n \in Amounts, NEW b \in Accounts, NEW c \in Accounts,
             NEW fee \in 0 .. n \div 10, Ledger!Move(a, b, c, n, fee)
      PROVE  DOMAIN balances' = Accounts /\ SumFunctionOnSet(balances', Accounts) = totalSupply'
  <2>1. /\ n \in Int /\ fee \in Int /\ totalSupply' = totalSupply /\ DOMAIN balances' = Accounts
        /\ IsMove(balances, balances', Accounts, a, c, b, n, fee)
    BY <1>1, <1>6, TokenAssumption DEF Ledger!Move, IsMove
  <2> QED
    BY <1>1, <2>1, SumOfAMove
<1> QED
  BY <1>3, <1>4, <1>5, <1>6 DEF Ledger!Next, Ledger!Entry

LEMMA InitConserves == Init => SupplyInv
<1> SUFFICES ASSUME Init PROVE SupplyIsConserved
  BY InitTypes DEF SupplyInv
<1>1. DOMAIN balances = Accounts /\ \A a \in Accounts : balances[a] = 0
  BY DEF Init
<1>2. SumFunctionOnSet(balances, Accounts) = 0
  BY <1>1, SumOfZeros, RegistryAssumption
<1> QED
  BY <1>1, <1>2 DEF SupplyIsConserved, SumFunction, Init

LEMMA StepConserves == SupplyInv /\ [Next]_vars => SupplyInv'
BY NextKeepsTypes, StepIsALedgerStep, LedgerStepConserves DEF SupplyInv

\* For any number of accounts the balances add up to the supply, in every state.
THEOREM SupplyStaysConserved == Spec => []SupplyIsConserved
<1>1. SupplyInv => SupplyIsConserved
  BY DEF SupplyInv
<1> QED
  BY <1>1, InitConserves, StepConserves, PTL DEF Spec

\* No transfer changes a locked holder's balance, but that it gains the fees it collects:
\* it is neither sender nor receiver, and what it gains does not wrap, since two balances
\* never exceed a word together.
THEOREM LockedStayPut == Spec => LockedHoldersStayPut
<1>1. ASSUME SupplyInv, HolderStep, NEW a \in Accounts, Locked(a)
      PROVE  /\ ~(balances'[a] < balances[a])
             /\ a # feeCollector => ~(balances'[a] > balances[a])
  <2>1. TypeOK /\ balances[a] \in Nat
    BY <1>1, SupplyBoundsBalances DEF SupplyInv
  <2>2. CASE UNCHANGED <<balances, totalSupply>>
    BY <2>1, <2>2
  <2>3. CASE HolderMoves
    <3>1. PICK from \in Accounts, to \in Accounts, amount \in Amounts : Move(from, to, amount)
      BY <2>3 DEF HolderMoves
    <3>2. /\ balances' = Moved(from, to, amount) /\ balances[from] >= amount
          /\ canTransfer(from, to) /\ amount \in Uint /\ amount \in Nat
      BY <3>1, TokenAssumption DEF Move, Uint
    <3>3. a \notin {from, to}
      BY <1>1, <3>2, ComplianceAssumption DEF canTransfer
    <3>4. balances' = MovedPlainly(from, to, amount, FeeOf(amount))
      BY <1>1, <3>2, TransferIsPlain
    <3>5. FeeOf(amount) \in Nat /\ (a = Collector(from) => a = feeCollector)
      BY <2>1, <3>2, <3>3, FeeIsPartOfTheAmount DEF Collector
    <3>6. balances'[a] = balances[a] + (IF a = Collector(from) THEN FeeOf(amount) ELSE 0)
      BY <2>1, <3>3, <3>4, <3>5 DEF MovedPlainly
    <3> QED
      BY <2>1, <3>5, <3>6
  <2> QED
    BY <1>1, <2>2, <2>3, HolderStepMoves
<1>2. SupplyInv /\ [Next]_vars =>
        [\A a \in Accounts :
            /\ Locked(a)
            /\ balances'[a] < balances[a] \/ (balances'[a] > balances[a] /\ a # feeCollector)
            => ~HolderStep]_vars
  BY <1>1
<1> QED
  BY <1>2, InitConserves, StepConserves, PTL DEF Spec, LockedHoldersStayPut

\* The token implements the ledger of plain integers: its steps issue, redeem or move
\* tokens all at once, and no credit wraps.
THEOREM TokenImplementsLedger == Spec => ImplementsLedger
<1>1. Init => Ledger!Init
  BY DEF Init, Ledger!Init
<1>2. SupplyInv /\ [Next]_vars => [Ledger!Next]_<<balances, totalSupply>>
  BY StepIsALedgerStep
<1> QED
  BY <1>1, <1>2, InitConserves, StepConserves, PTL DEF Spec, ImplementsLedger, Ledger!Spec, Ledger!ledgerVars
=============================================================================
