-------------------------- MODULE IdentityRegistry --------------------------
(***************************************************************************)
(* IdentityRegistry.sol: which addresses passed KYC, and their countries.  *)
(* A call is one atomic transaction; caller is msg.sender.  The identity   *)
(* hash is opaque to every contract and is left out.                       *)
(***************************************************************************)
EXTENDS Integers, FiniteSets

CONSTANTS
    Accounts,    \* every address but address(0)
    Officers,    \* the accounts owners give rights to
    Platform,    \* the account that deploys the contracts and signs for the backend
    Countries    \* the country codes investors are registered with

ASSUME RegistryAssumption ==
    /\ IsFiniteSet(Accounts)    \* an address has 160 bits
    /\ Platform \in Accounts
    /\ Officers \subseteq Accounts
    /\ Countries \subseteq Nat /\ Countries # {}

VARIABLES registryOwner, registryAgents, verified, country

registryVars == <<registryOwner, registryAgents, verified, country>>

RegistryRole == INSTANCE AgentRole WITH owner <- registryOwner, agents <- registryAgents

NoCountry == 0    \* the default of the mapping
Codes == Countries \cup {NoCountry}

RegistryTypeOK ==
    /\ RegistryRole!RoleTypeOK
    /\ verified \in SUBSET Accounts
    /\ country \in [Accounts -> Codes]

\* deployed, and the platform registered by the deployment script, which also makes
\* the token's own address an agent: it calls no agent function and is left out
RegistryInit ==
    /\ RegistryRole!Deployed(Platform)
    /\ verified = {Platform}
    /\ \E c \in Countries :
          country = [a \in Accounts |-> IF a = Platform THEN c ELSE NoCountry]

registerIdentity(caller, investor, code) ==
    /\ RegistryRole!IsAgent(caller)
    /\ investor \notin verified
    /\ verified' = verified \cup {investor}
    /\ country' = [country EXCEPT ![investor] = code]
    /\ UNCHANGED <<registryOwner, registryAgents>>

updateIdentity(caller, investor, code) ==
    /\ RegistryRole!IsAgent(caller)
    /\ investor \in verified
    /\ country' = [country EXCEPT ![investor] = code]
    /\ UNCHANGED <<registryOwner, registryAgents, verified>>

removeIdentity(caller, investor) ==
    /\ RegistryRole!IsAgent(caller)
    /\ investor \in verified
    /\ verified' = verified \ {investor}
    /\ country' = [country EXCEPT ![investor] = NoCountry]
    /\ UNCHANGED <<registryOwner, registryAgents>>

RegistryNext ==
    \/ \E caller, investor \in Accounts :
          \/ \E code \in Countries : registerIdentity(caller, investor, code)
          \/ \E code \in Countries : updateIdentity(caller, investor, code)
          \/ removeIdentity(caller, investor)
    \/ RegistryRole!RoleStep /\ UNCHANGED <<verified, country>>
=============================================================================
