---------------------------- MODULE TokenLedger ----------------------------
(***************************************************************************)
(* What a token ledger promises: holdings change by issuing, redeeming and *)
(* moving tokens, in plain integers and all at once.  A move takes the     *)
(* amount from one account, gives at most a tenth of it to a collector and *)
(* the rest to the receiver, however many of the three are the same.       *)
(***************************************************************************)
EXTENDS Integers

CONSTANTS Accounts, Amounts, Capacity

VARIABLES holding, issued

ledgerVars == <<holding, issued>>

Init == holding = [a \in Accounts |-> 0] /\ issued = 0

Issue(a, n) ==
    /\ issued + n < Capacity
    /\ holding' = [holding EXCEPT ![a] = @ + n]
    /\ issued' = issued + n

Redeem(a, n) ==
    /\ n <= holding[a] /\ n <= issued
    /\ holding' = [holding EXCEPT ![a] = @ - n]
    /\ issued' = issued - n

Move(from, to, collector, n, fee) ==
    /\ n <= holding[from]
    /\ holding' = [a \in Accounts |->
                      holding[a] - (IF a = from THEN n ELSE 0)
                                 + (IF a = collector THEN fee ELSE 0)
                                 + (IF a = to THEN n - fee ELSE 0)]
    /\ UNCHANGED issued

Entry ==
    \E a \in Accounts, n \in Amounts :
        \/ Issue(a, n)
        \/ Redeem(a, n)
        \/ \E b, c \in Accounts, fee \in 0 .. n \div 10 : Move(a, b, c, n, fee)

\* stuttering is allowed anyway: a step is one that changes the ledger
Next == ledgerVars' # ledgerVars /\ Entry

Spec == Init /\ [][Next]_ledgerVars
=============================================================================
