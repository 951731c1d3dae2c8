------------------------------ MODULE RWAToken ------------------------------
(***************************************************************************)
(* RWAToken.sol with the registry and the compliance module it depends on: *)
(* the ERC-20 ledger of one asset, mint, burn and forced transfer, the     *)
(* transfer fee and the circuit breaker.  A call is one atomic transaction *)
(* and a failed require reverts it, so its guards are the action's.        *)
(*                                                                         *)
(* Amounts are uint256: Word is 2^256.  Arithmetic inside unchecked wraps  *)
(* (Plus, Minus); outside it an overflow reverts (a guard).  caller is     *)
(* _msgSender(): msg.sender, or the signer a trusted forwarder appended.   *)
(***************************************************************************)
EXTENDS ComplianceModule, Functions

CONSTANTS
    Word,            \* 2^256
    Denominator,     \* 10000: rates are in parts of it
    MaxRate,         \* 1000: setTransferFee refuses more than 10%
    Amounts,         \* what callers ask to move
    Rates,           \* fee rates owners ask for
    Collectors       \* fee collectors owners name; Zero is none

ASSUME TokenAssumption ==
    /\ Word \in Nat \ {0}
    /\ Denominator \in Nat \ {0}
    /\ MaxRate \in Nat /\ 10 * MaxRate <= Denominator
    /\ Amounts \subseteq 0 .. Word - 1
    /\ Caps \subseteq 0 .. Word - 1
    /\ Rates \subseteq Nat
    /\ Collectors \subseteq Accounts \cup {Zero}

VARIABLES
    tokenOwner, tokenAgents,
    balances, allowances, totalSupply,
    paused,
    feeRate, feeCollector     \* feeCollector is Zero until it is set

policyVars == <<registryVars, complianceVars>>
ledgerVars == <<balances, allowances, totalSupply>>
switchVars == <<paused, feeRate, feeCollector>>
roleVars == <<tokenOwner, tokenAgents>>
tokenVars == <<roleVars, ledgerVars, switchVars>>
vars == <<policyVars, tokenVars>>

TokenRole == INSTANCE AgentRole WITH owner <- tokenOwner, agents <- tokenAgents

Uint == 0 .. Word - 1
Plus(a, b) == (a + b) % Word
Minus(a, b) == (a - b) % Word

TypeOK ==
    /\ RegistryTypeOK
    /\ ComplianceTypeOK
    /\ TokenRole!RoleTypeOK
    /\ balances \in [Accounts -> Uint]
    /\ allowances \in [Accounts -> [Accounts -> Uint]]
    /\ totalSupply \in Uint
    /\ paused \in BOOLEAN
    /\ feeRate \in 0 .. MaxRate
    /\ feeCollector \in Accounts \cup {Zero}

Init ==
    /\ RegistryInit
    /\ ComplianceInit
    /\ TokenRole!Deployed(Platform)
    /\ balances = [a \in Accounts |-> 0]
    /\ allowances = [a \in Accounts |-> [b \in Accounts |-> 0]]
    /\ totalSupply = 0
    /\ paused = FALSE
    /\ feeRate = 0
    /\ feeCollector = Zero

-----------------------------------------------------------------------------
(* Transfers between holders *)

\* a fee that would swallow the amount is cut to leave 1
FeeRoundedUp(amount) ==   \* mutant of FeeOf
    IF feeCollector = Zero THEN 0 ELSE (amount * feeRate) \div Denominator + 1

FeeOf(amount) ==
    LET fee == (amount * feeRate) \div Denominator
    IN  IF feeCollector = Zero THEN 0
        ELSE IF fee > 0 /\ fee >= amount THEN amount - 1 ELSE fee

\* amount * transferFeeRate is checked arithmetic
FeeIsComputable(amount) == feeCollector # Zero => amount * feeRate < Word

\* three writes, in the contract's order: any of the three may be one account
Credit(ledger, a, amount) == [ledger EXCEPT ![a] = Plus(@, amount)]
Debit(ledger, a, amount) == [ledger EXCEPT ![a] = Minus(@, amount)]

MovedFromCache(from, to, amount) ==   \* mutant of Moved: balances read once, at the start
    LET fee == FeeOf(amount)
    IN  [a \in Accounts |->
            IF a = to THEN Plus(balances[a], amount - fee)
            ELSE IF a = from THEN Minus(balances[a], amount)
            ELSE IF a = feeCollector THEN Plus(balances[a], fee)
            ELSE balances[a]]

Moved(from, to, amount) ==
    LET fee == FeeOf(amount)
        collected == IF fee > 0 THEN Credit(balances, feeCollector, fee) ELSE balances
    IN  Credit(Debit(collected, from, amount), to, amount - fee)

MoveUpToCap(from, to, amount) ==   \* mutant of Move: the cap checked before the amount is added
    /\ balances[from] >= amount
    /\ canTransfer(from, to)
    /\ UnderCap(to, balances[to])
    /\ FeeIsComputable(amount)
    /\ balances' = Moved(from, to, amount)

\* _transfer
Move(from, to, amount) ==
    /\ balances[from] >= amount
    /\ canTransfer(from, to)
    /\ UnderCap(to, balances[to] + amount)
    /\ FeeIsComputable(amount)
    /\ balances' = Moved(from, to, amount)

transfer(caller, to, amount) ==
    /\ ~paused
    /\ Move(caller, to, amount)
    /\ UNCHANGED <<policyVars, roleVars, allowances, totalSupply, switchVars>>

\* pausing does not stop it
approve(caller, spender, amount) ==
    /\ allowances' = [allowances EXCEPT ![caller][spender] = amount]
    /\ UNCHANGED <<policyVars, roleVars, balances, totalSupply, switchVars>>

transferFromAnyTime(caller, from, to, amount) ==   \* mutant: no notPaused
    /\ allowances[from][caller] >= amount
    /\ allowances' = [allowances EXCEPT ![from][caller] = @ - amount]
    /\ Move(from, to, amount)
    /\ UNCHANGED <<policyVars, roleVars, totalSupply, switchVars>>

transferFrom(caller, from, to, amount) ==
    /\ ~paused
    /\ allowances[from][caller] >= amount
    /\ allowances' = [allowances EXCEPT ![from][caller] = @ - amount]
    /\ Move(from, to, amount)
    /\ UNCHANGED <<policyVars, roleVars, totalSupply, switchVars>>

-----------------------------------------------------------------------------
(* The agents' operations *)

mint(caller, to, amount) ==
    /\ TokenRole!IsAgent(caller)
    /\ ~paused
    /\ amount > 0
    /\ canTransfer(Zero, to)
    /\ UnderCap(to, balances[to] + amount)
    /\ totalSupply + amount < Word
    /\ totalSupply' = totalSupply + amount
    /\ balances' = Credit(balances, to, amount)
    /\ UNCHANGED <<policyVars, roleVars, allowances, switchVars>>

burn(caller, from, amount) ==
    /\ TokenRole!IsAgent(caller)
    /\ ~paused
    /\ balances[from] >= amount
    /\ totalSupply >= amount
    /\ balances' = Debit(balances, from, amount)
    /\ totalSupply' = totalSupply - amount
    /\ UNCHANGED <<policyVars, roleVars, allowances, switchVars>>

forcedTransfer(caller, from, to, amount) ==
    /\ TokenRole!IsAgent(caller)
    /\ ~paused
    /\ balances[from] >= amount
    /\ balances' = Credit(Debit(balances, from, amount), to, amount)
    /\ UNCHANGED <<policyVars, roleVars, allowances, totalSupply, switchVars>>

pause(caller) ==
    /\ TokenRole!IsAgent(caller)
    /\ paused' = TRUE
    /\ UNCHANGED <<policyVars, roleVars, ledgerVars, feeRate, feeCollector>>

unpause(caller) ==
    /\ TokenRole!IsAgent(caller)
    /\ paused' = FALSE
    /\ UNCHANGED <<policyVars, roleVars, ledgerVars, feeRate, feeCollector>>

setTransferFeeUncapped(caller, rate, collector) ==   \* mutant: any rate
    /\ TokenRole!IsOwner(caller)
    /\ feeRate' = rate
    /\ feeCollector' = collector
    /\ UNCHANGED <<policyVars, roleVars, ledgerVars, paused>>

setTransferFee(caller, rate, collector) ==
    /\ TokenRole!IsOwner(caller)
    /\ rate <= MaxRate
    /\ feeRate' = rate
    /\ feeCollector' = collector
    /\ UNCHANGED <<policyVars, roleVars, ledgerVars, paused>>

-----------------------------------------------------------------------------
ForcedTransfer ==
    \E caller, from, to \in Accounts, amount \in Amounts : forcedTransfer(caller, from, to, amount)

Mint == \E caller, to \in Accounts, amount \in Amounts : mint(caller, to, amount)

Burn == \E caller, from \in Accounts, amount \in Amounts : burn(caller, from, amount)

HolderStep ==
    \E caller, other \in Accounts, amount \in Amounts :
        \/ transfer(caller, other, amount)
        \/ approve(caller, other, amount)
        \/ \E from \in Accounts : transferFrom(caller, from, other, amount)

SwitchStep ==
    \E caller \in Accounts :
        \/ pause(caller)
        \/ unpause(caller)
        \/ \E rate \in Rates, collector \in Collectors :
              setTransferFee(caller, rate, collector)

PolicyStep ==
    /\ \/ RegistryNext /\ UNCHANGED complianceVars
       \/ ComplianceNext /\ UNCHANGED registryVars
    /\ UNCHANGED tokenVars

RoleStep == TokenRole!RoleStep /\ UNCHANGED <<policyVars, ledgerVars, switchVars>>

Next ==
    \/ HolderStep
    \/ Mint
    \/ Burn
    \/ ForcedTransfer
    \/ SwitchStep
    \/ PolicyStep
    \/ RoleStep

Spec == Init /\ [][Next]_vars

-----------------------------------------------------------------------------
\* No token is made or lost: although balances are written one after the other
\* with wrapping arithmetic, and sender, receiver and collector of a transfer may
\* be the same account, the balances always add up to the total supply
\* (RWAToken.sol:187-188, 201-202, 222-223, 348-356).
SupplyIsConserved == SumFunction(balances) = totalSupply

\* Who gains tokens was cleared at that moment: no transfer, the holder's own or by
\* allowance, and no mint is a step by which an account gains that is not verified, not
\* whitelisted or of a restricted country, whatever was revoked between any two calls;
\* only the collector's fee goes unchecked (ComplianceModule.sol:50-66, RWAToken.sol:178, 329).
ReceiversAreCleared ==
    [][\A a \in Accounts :
          balances'[a] > balances[a] /\ a # feeCollector /\ ~CanReceive(a) =>
             ~HolderStep /\ ~Mint]_vars

\* A locked holder's tokens stay where they are: until its lock-up ends no transfer, its
\* own or by allowance, changes its balance, but that it gains the fees it collects
\* (ComplianceModule.sol:68-79).
LockedHoldersStayPut ==
    [][\A a \in Accounts :
          /\ Locked(a)
          /\ balances'[a] < balances[a] \/ (balances'[a] > balances[a] /\ a # feeCollector)
          => ~HolderStep]_vars

\* No mint and no transfer, the holder's own or by allowance, with or without fee,
\* lifts an account over its cap; only agents' forced transfers and collected fees
\* can (RWAToken.sol:181-185, 332-336).
CapsHold ==
    [][\A a \in Accounts :
          balances'[a] > balances[a] /\ a # feeCollector /\ ~UnderCap(a, balances'[a]) =>
             ~HolderStep /\ ~Mint]_vars

\* While the breaker is on no balance and no supply changes, agents included
\* (modifier notPaused, RWAToken.sol:106-109).
PausedMeansFrozen == [][paused => UNCHANGED <<balances, totalSupply>>]_vars

\* The ledger of TokenLedger: supply and balances behave as plain integers moved all
\* at once, although the contract writes them one by one with wrapping arithmetic,
\* and the fee of a transfer is a tenth of it at most (RWAToken.sol:173-227, 323-359).
Ledger == INSTANCE TokenLedger WITH
    holding <- balances, issued <- totalSupply, Capacity <- Word

ImplementsLedger == Ledger!Spec

\* "only verified investors can hold/trade", README.md:40: whoever sends tokens is
\* verified.  Of the sender canTransfer asks only the whitelist, and removing an
\* identity leaves the whitelist as it is.
OnlyVerifiedTrade ==
    [][\A a \in Accounts : balances'[a] < balances[a] /\ a \notin verified => ~HolderStep]_vars
=============================================================================
