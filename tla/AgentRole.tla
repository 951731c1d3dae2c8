----------------------------- MODULE AgentRole -----------------------------
(***************************************************************************)
(* The owner and the agents every contract under contracts/erc3643 keeps   *)
(* for itself, with the same code in each: the deployer is the owner and   *)
(* the first agent; onlyAgent lets the owner pass too; only the owner      *)
(* changes either.  A call whose require fails reverts and changes         *)
(* nothing: its action is not enabled.                                     *)
(***************************************************************************)
CONSTANTS
    Accounts,    \* every address but address(0)
    Officers     \* the accounts rights are given to

VARIABLES owner, agents

RoleTypeOK == owner \in Accounts /\ agents \in SUBSET Accounts

Deployed(deployer) == owner = deployer /\ agents = {deployer}

IsOwner(caller) == caller = owner
IsAgent(caller) == caller \in agents \/ caller = owner

addAgent(caller, agent) ==
    /\ IsOwner(caller)
    /\ agents' = agents \cup {agent}
    /\ UNCHANGED owner

removeAgent(caller, agent) ==
    /\ IsOwner(caller)
    /\ agents' = agents \ {agent}
    /\ UNCHANGED owner

\* the old owner stays an agent if it was one
transferOwnership(caller, newOwner) ==
    /\ IsOwner(caller)
    /\ owner' = newOwner
    /\ UNCHANGED agents

RoleStep ==
    \E caller \in Accounts, account \in Officers :
        \/ addAgent(caller, account)
        \/ removeAgent(caller, account)
        \/ transferOwnership(caller, account)
=============================================================================
