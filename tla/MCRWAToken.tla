----------------------------- MODULE MCRWAToken -----------------------------
(* Instances of RWAToken for TLC. *)
EXTENDS RWAToken, TLC, FiniteSetsExt

CONSTANT MaxFeatures    \* bound of the model: how many features act at once

Symmetry == Permutations(Accounts \ {Platform})

Ones(S) == Cardinality(S)

\* What differs from the plain case, an unlocked, uncapped market of verified and
\* whitelisted holders without fees, with the deployer as only owner and agent; a
\* change of owner or agents leaves no room for another.
Features ==
    LET set(b) == IF b THEN 1 ELSE 0
    IN  set(paused) + set(feeRate > 0) + Ones(restricted)
        + Ones({a \in Accounts : maxHolding[a] > 0}) + Ones({a \in Accounts : lockupEnd[a] > 0})
        + set(\E a \in Accounts, n \in Amounts : balances[a] % n > 0)
        + Ones({p \in Accounts \X Accounts : allowances[p[1]][p[2]] > 0})
        + Ones(whitelisted \ verified) + Ones({Platform} \ whitelisted)
        + MaxFeatures * (set(<<registryOwner, registryAgents>> # <<Platform, {Platform}>>)
                         + set(<<complianceOwner, complianceAgents>> # <<Platform, {Platform}>>)
                         + set(<<tokenOwner, tokenAgents>> # <<Platform, {Platform}>>))

FewFeatures == Features <= MaxFeatures
=============================================================================
