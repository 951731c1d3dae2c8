------------------------ MODULE RevenueDistribution ------------------------
(***************************************************************************)
(* RevenueDistributionToken.sol: the operator of an asset deposits yield,  *)
(* which is released linearly from the first deposit on, and the holders   *)
(* of the asset's token claim their share of what is released.  Shares are *)
(* read live from that token, so the contract is composed with TokenLedger,*)
(* the ledger RWAToken implements.  A call is one atomic transaction.      *)
(*                                                                         *)
(* The yield token is an ERC-20 that reverts when a balance is too small,  *)
(* like the one the tests deploy.  All arithmetic of the contract is       *)
(* checked and the amounts of the model are far from 2^256.                *)
(***************************************************************************)
EXTENDS Integers, FiniteSets, Functions

CONSTANTS
    Accounts,         \* who may hold tokens of the asset
    Agent,            \* the operator, fixed by the constructor
    Amounts,          \* what the token's holders move
    Capacity,         \* the token's supply stays below it
    Deposits,         \* what the operator deposits
    Durations,        \* release durations the operator asks for
    DefaultDuration,  \* 7 days: what 0 stands for
    MaxTime,          \* bound of the model on the clock
    MaxYield          \* bound of the model on the deposits

ASSUME DistributionAssumption ==
    /\ IsFiniteSet(Accounts)    \* an address has 160 bits
    /\ Amounts \subseteq Nat
    /\ Capacity \in Nat
    /\ Deposits \subseteq Nat
    /\ Durations \subseteq Nat
    /\ DefaultDuration \in Nat \ {0}
    /\ MaxTime \in Nat
    /\ MaxYield \in Nat

VARIABLES
    holding, issued,      \* the asset's token
    vestingDuration, totalYield, totalClaimed, firstDepositTime, claimed,
    held,                 \* yieldToken.balanceOf(this contract)
    clock,                \* block.timestamp
    moved                 \* history: did a share change after something was claimed?

shareVars == <<holding, issued>>
yieldVars == <<vestingDuration, totalYield, totalClaimed, firstDepositTime, claimed, held>>
vars == <<shareVars, yieldVars, clock, moved>>

Shares == INSTANCE TokenLedger

TypeOK ==
    /\ holding \in [Accounts -> Nat]
    /\ issued \in Nat
    /\ vestingDuration \in Nat \ {0}
    /\ totalYield \in Nat
    /\ totalClaimed \in Nat
    /\ firstDepositTime \in Nat
    /\ claimed \in [Accounts -> Nat]
    /\ held \in Nat
    /\ clock \in Nat \ {0}
    /\ moved \in BOOLEAN

DurationOrZero(duration) == duration    \* mutant of Duration
Duration(duration) == IF duration > 0 THEN duration ELSE DefaultDuration

Init ==
    /\ Shares!Init
    /\ \E duration \in Durations : vestingDuration = Duration(duration)
    /\ totalYield = 0
    /\ totalClaimed = 0
    /\ firstDepositTime = 0       \* 0: no deposit yet
    /\ claimed = [a \in Accounts |-> 0]
    /\ held = 0
    /\ clock = 1
    /\ moved = FALSE

-----------------------------------------------------------------------------
releasedUncapped ==   \* mutant of releasedAmount
    IF totalYield = 0 \/ firstDepositTime = 0 THEN 0
    ELSE (totalYield * (clock - firstDepositTime)) \div vestingDuration

releasedAmount ==
    LET released == (totalYield * (clock - firstDepositTime)) \div vestingDuration
    IN  IF totalYield = 0 \/ firstDepositTime = 0 THEN 0
        ELSE IF released > totalYield THEN totalYield ELSE released

Entitled(user) == (releasedAmount * holding[user]) \div issued

Pending(user) ==
    IF issued = 0 \/ holding[user] = 0 \/ Entitled(user) <= claimed[user] THEN 0
    ELSE Entitled(user) - claimed[user]

depositYieldRestarting(caller, amount) ==   \* mutant: every deposit restarts the release
    /\ caller = Agent
    /\ amount > 0
    /\ totalYield + amount <= MaxYield
    /\ firstDepositTime' = clock
    /\ totalYield' = totalYield + amount
    /\ held' = held + amount
    /\ UNCHANGED <<shareVars, vestingDuration, totalClaimed, claimed, clock, moved>>

depositYield(caller, amount) ==
    /\ caller = Agent
    /\ amount > 0
    /\ totalYield + amount <= MaxYield    \* bound of the model
    /\ firstDepositTime' = IF firstDepositTime = 0 THEN clock ELSE firstDepositTime
    /\ totalYield' = totalYield + amount
    /\ held' = held + amount
    /\ UNCHANGED <<shareVars, vestingDuration, totalClaimed, claimed, clock, moved>>

claimEntitled(caller) ==   \* mutant: pays what is due, books all it is entitled to
    /\ issued > 0 /\ holding[caller] > 0
    /\ Pending(caller) > 0
    /\ Pending(caller) <= held
    /\ claimed' = [claimed EXCEPT ![caller] = Entitled(caller)]
    /\ totalClaimed' = totalClaimed + Entitled(caller)
    /\ held' = held - Pending(caller)
    /\ UNCHANGED <<shareVars, vestingDuration, totalYield, firstDepositTime, clock, moved>>

claimAdding(caller) ==   \* mutant: adds the entitlement to what was claimed
    /\ issued > 0 /\ holding[caller] > 0
    /\ Pending(caller) > 0
    /\ Pending(caller) <= held
    /\ claimed' = [claimed EXCEPT ![caller] = @ + Entitled(caller)]
    /\ totalClaimed' = totalClaimed + Pending(caller)
    /\ held' = held - Pending(caller)
    /\ UNCHANGED <<shareVars, vestingDuration, totalYield, firstDepositTime, clock, moved>>

\* with nothing pending the call succeeds and changes nothing
claim(caller) ==
    /\ issued > 0 /\ holding[caller] > 0
    /\ Pending(caller) > 0
    /\ Pending(caller) <= held            \* or the yield token reverts the call
    /\ claimed' = [claimed EXCEPT ![caller] = Entitled(caller)]
    /\ totalClaimed' = totalClaimed + Pending(caller)
    /\ held' = held - Pending(caller)
    /\ UNCHANGED <<shareVars, vestingDuration, totalYield, firstDepositTime, clock, moved>>

setVestingDuration(caller, duration) ==
    /\ caller = Agent
    /\ vestingDuration' = Duration(duration)
    /\ UNCHANGED <<shareVars, totalYield, totalClaimed, firstDepositTime, claimed, held, clock, moved>>

\* mints, burns and transfers of the asset's token
ShareStep ==
    /\ Shares!Entry /\ shareVars' # shareVars
    /\ moved' = (moved \/ totalClaimed > 0)
    /\ UNCHANGED <<yieldVars, clock>>

Tick ==
    /\ clock < MaxTime
    /\ clock' = clock + 1
    /\ UNCHANGED <<shareVars, yieldVars, moved>>

Next ==
    \/ \E caller \in Accounts :
          \/ \E amount \in Deposits : depositYield(caller, amount)
          \/ \E duration \in Durations : setVestingDuration(caller, duration)
          \/ claim(caller)
    \/ ShareStep
    \/ Tick

Spec == Init /\ [][Next]_vars

-----------------------------------------------------------------------------
\* what was deposited is held or was claimed
YieldIsConserved == held + totalClaimed = totalYield

\* Every unit of yield is in the contract or with the holder it was paid to, and
\* what the contract counts as claimed is what its holders claimed, however
\* deposits, claims, share transfers and changes of the duration interleave
\* (depositYield and claim, RevenueDistributionToken.sol:46-73).
YieldIsAccountedFor ==
    /\ YieldIsConserved
    /\ totalClaimed = SumFunction(claimed)

\* No holder is ever paid more than was deposited, although it claims again after
\* every deposit, transfer and change of the duration (claim, lines 64-67).
NobodyBeyondTheYield == \A a \in Accounts : claimed[a] <= totalYield

\* As long as no share moved after the first claim, the contract can pay at once
\* all that is due to all holders, whoever claimed how often, whatever the
\* operator deposited later or did to the duration (claim, lines 59-73).
StaticSharesAreCovered ==
    ~moved => SumFunction([a \in Accounts |-> Pending(a)]) <= held

\* Released yield is not taken back: only a change of the duration makes less of it
\* released; time, claims, share transfers and later deposits, which share the
\* first one's timeline, never do (releasedAmount, lines 48-50 and 78-83).
ReleaseNeverGoesBack ==
    [][vestingDuration' = vestingDuration => releasedAmount' >= releasedAmount]_vars

-----------------------------------------------------------------------------
(* What the contract's comments and the project's documents say, and it does not do *)

\* "不影响已存入收益的既有时间线" (does not affect the timeline of yield already
\* deposited), line 94: setting the duration leaves what is released as it is.
TimelineIsKept ==
    [][vestingDuration' # vestingDuration => releasedAmount' = releasedAmount]_vars

\* "随时 claim 已释放收益" (claim the released yield at any time), line 11: what is due
\* to a holder can be paid.  Whoever claims and then passes its shares on lets the
\* receiver claim for them again.
ReleasedYieldIsThere == \A a \in Accounts : Pending(a) <= held
=============================================================================
