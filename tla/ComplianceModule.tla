-------------------------- MODULE ComplianceModule --------------------------
(***************************************************************************)
(* ComplianceModule.sol: the whitelist, holding caps, lock-ups and         *)
(* restricted countries, and the check every mint and transfer asks for.   *)
(* It reads the registry it was deployed with, which never changes.        *)
(***************************************************************************)
EXTENDS IdentityRegistry

CONSTANTS
    Zero,        \* address(0): the sender of a mint
    Caps,        \* the holding caps agents set; 0 is no cap
    LockupEnds,  \* the lock-up ends agents set
    MaxTime      \* bound of the model on the clock

ASSUME ComplianceAssumption ==
    /\ Zero \notin Accounts
    /\ Caps \subseteq Nat
    /\ LockupEnds \subseteq Nat
    /\ MaxTime \in Nat

VARIABLES
    complianceOwner, complianceAgents,
    whitelisted, maxHolding, lockupEnd,   \* _investorRules, field by field
    restricted,                           \* _restrictedCountries
    clock                                 \* block.timestamp

complianceVars == <<complianceOwner, complianceAgents, whitelisted, maxHolding,
                    lockupEnd, restricted, clock>>

ComplianceRole == INSTANCE AgentRole WITH owner <- complianceOwner, agents <- complianceAgents

ComplianceTypeOK ==
    /\ ComplianceRole!RoleTypeOK
    /\ whitelisted \in SUBSET Accounts
    /\ maxHolding \in [Accounts -> Caps \cup {0}]
    /\ lockupEnd \in [Accounts -> LockupEnds \cup {0}]
    /\ restricted \in SUBSET Codes
    /\ clock \in Nat

\* deployed, and the platform whitelisted without cap or lock-up by the script
ComplianceInit ==
    /\ ComplianceRole!Deployed(Platform)
    /\ whitelisted = {Platform}
    /\ maxHolding = [a \in Accounts |-> 0]
    /\ lockupEnd = [a \in Accounts |-> 0]
    /\ restricted = {}
    /\ clock = 0

Locked(a) == clock < lockupEnd[a]

CanReceive(a) ==
    /\ country[a] \notin restricted
    /\ a \in verified
    /\ a \in whitelisted

\* the sender of a transfer need not be verified any more
CanSend(a) ==
    /\ country[a] \notin restricted
    /\ a \in whitelisted

canTransferOrMintFreely(from, to) ==   \* mutant: a mint skips the whole check
    from # Zero => CanReceive(to) /\ CanSend(from) /\ ~Locked(from) /\ ~Locked(to)

canTransferWhenSenderLocked(from, to) ==   \* mutant: the lock-up binds the receiver only
    /\ CanReceive(to)
    /\ from # Zero => CanSend(from) /\ ~Locked(to)

canTransfer(from, to) ==
    /\ CanReceive(to)
    /\ from # Zero => CanSend(from) /\ ~Locked(from) /\ ~Locked(to)

UnderCap(a, holding) == maxHolding[a] > 0 => holding <= maxHolding[a]

-----------------------------------------------------------------------------
addToWhitelist(caller, investor, cap, end) ==
    /\ ComplianceRole!IsAgent(caller)
    /\ investor \in verified
    /\ whitelisted' = whitelisted \cup {investor}
    /\ maxHolding' = [maxHolding EXCEPT ![investor] = cap]
    /\ lockupEnd' = [lockupEnd EXCEPT ![investor] = end]
    /\ UNCHANGED <<complianceOwner, complianceAgents, restricted, clock>>

\* the cap and the lock-up stay
removeFromWhitelist(caller, investor) ==
    /\ ComplianceRole!IsAgent(caller)
    /\ whitelisted' = whitelisted \ {investor}
    /\ UNCHANGED <<complianceOwner, complianceAgents, maxHolding, lockupEnd, restricted, clock>>

setMaxHolding(caller, investor, cap) ==
    /\ ComplianceRole!IsAgent(caller)
    /\ maxHolding' = [maxHolding EXCEPT ![investor] = cap]
    /\ UNCHANGED <<complianceOwner, complianceAgents, whitelisted, lockupEnd, restricted, clock>>

setLockupEnd(caller, investor, end) ==
    /\ ComplianceRole!IsAgent(caller)
    /\ lockupEnd' = [lockupEnd EXCEPT ![investor] = end]
    /\ UNCHANGED <<complianceOwner, complianceAgents, whitelisted, maxHolding, restricted, clock>>

setRestrictedCountry(caller, code, on) ==
    /\ ComplianceRole!IsAgent(caller)
    /\ restricted' = IF on THEN restricted \cup {code} ELSE restricted \ {code}
    /\ UNCHANGED <<complianceOwner, complianceAgents, whitelisted, maxHolding, lockupEnd, clock>>

\* a later block
Tick ==
    /\ clock < MaxTime
    /\ clock' = clock + 1
    /\ UNCHANGED <<complianceOwner, complianceAgents, whitelisted, maxHolding, lockupEnd, restricted>>

ComplianceNext ==
    \/ \E caller, investor \in Accounts :
          \/ \E cap \in Caps, end \in LockupEnds : addToWhitelist(caller, investor, cap, end)
          \/ removeFromWhitelist(caller, investor)
          \/ \E cap \in Caps : setMaxHolding(caller, investor, cap)
          \/ \E end \in LockupEnds : setLockupEnd(caller, investor, end)
    \/ \E caller \in Accounts, code \in Codes, on \in BOOLEAN :
          setRestrictedCountry(caller, code, on)
    \/ Tick
    \/ /\ ComplianceRole!RoleStep
       /\ UNCHANGED <<whitelisted, maxHolding, lockupEnd, restricted, clock>>
=============================================================================
