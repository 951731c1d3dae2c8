----------------------------- MODULE LoginGuard -----------------------------
(***************************************************************************)
(* Registration and login: backend/internal/user behind the rate limiter   *)
(* of backend/internal/middleware.  The guard counts the failures of a key *)
(* (client address and e-mail) in memory and locks it; it is asked, the    *)
(* password is verified and the outcome is recorded in three steps of the  *)
(* handler, each on the goroutine of its request.                          *)
(*                                                                         *)
(* Time is in ticks.  A lock keeps how long it still lasts, an admitted    *)
(* request how long ago it was.                                            *)
(***************************************************************************)
EXTENDS Integers, Sequences, FiniteSets, Functions, SequencesExt

CONSTANTS
    Addresses,    \* client addresses
    Emails,
    Logins,       \* goroutines serving POST /api/auth/login
    Signups,      \* calls of POST /api/auth/register
    MaxFails,     \* 5 in the code
    LockTicks,    \* 15 minutes in the code
    Window,       \* 1 minute in the code
    Limit,        \* 60 requests in the code
    MaxRequests   \* bound of the model on logins

ASSUME GuardAssumption ==
    /\ {MaxFails, LockTicks, Window, Limit} \subseteq Nat \ {0}
    /\ MaxRequests \in Nat
    /\ IsFiniteSet(Logins)

VARIABLES
    accounts,  \* the e-mails with a row in users
    signup,    \* where each registration is
    requests,  \* the rate limiter: ages of the requests admitted by address
    states,    \* the guard: failures and lock by key
    login,     \* where each login is
    served,    \* how many logins have begun
    tries      \* history: failed verifications by key, since it was last released

guardVars == <<accounts, signup, requests, states, login, served, tries>>

-----------------------------------------------------------------------------
Keys == Addresses \X Emails

\* "left" ticks of a lock: none was ever set, it lasts, it ends at this instant (0), it is
\* over (-1)
NoLock == LockTicks + 1

Absent == [count |-> 0, left |-> NoLock]  \* a key without a state and one with no failure

Locked(k) == states[k].left \in 1..LockTicks

AtEnd(k) == states[k].left = 0

Over(k) == states[k].left = -1

GuardInit ==
    /\ accounts = {}
    /\ signup = [s \in Signups |-> [at |-> "idle"]]
    /\ requests = [a \in Addresses |-> <<>>]
    /\ states = [k \in Keys |-> Absent]
    /\ login = [p \in Logins |-> [at |-> "idle"]]
    /\ served = 0
    /\ tries = [k \in Keys |-> 0]

-----------------------------------------------------------------------------
\* Service.Register: look for the e-mail, hash, insert; the column is UNIQUE

FindByEmail(s) ==
    /\ signup[s].at = "idle"
    /\ \E m \in Emails : signup' = [signup EXCEPT ![s] =
           IF m \in accounts THEN [at |-> "ended"] ELSE [at |-> "hashing", email |-> m]]
    /\ UNCHANGED <<accounts, requests, states, login, served, tries>>

CreateUser(s) ==
    /\ signup[s].at = "hashing"
    /\ accounts' = accounts \cup {signup[s].email}
    /\ signup' = [signup EXCEPT ![s] = [at |-> "ended"]]
    /\ UNCHANGED <<requests, states, login, served, tries>>

Register(s) == FindByEmail(s) \/ CreateUser(s)

-----------------------------------------------------------------------------
\* RateLimiter.Allow: what is as old as the window is forgotten

Kept(a) == SelectSeq(requests[a], LAMBDA age : age < Window)

\* mutant: asking whether a key is locked forgets its failures
AfterCheckForgetting(k) == IF Locked(k) THEN states[k] ELSE Absent

\* LoginGuard.Check: only a lock that has ended is cleared, with the count
AfterCheck(k) == IF AtEnd(k) \/ Over(k) THEN Absent ELSE states[k]

\* the limiter, then the guard; whoever either turns away is answered at once
Check(p) ==
    /\ login[p].at = "idle" /\ served < MaxRequests
    /\ served' = served + 1
    /\ \E k \in Keys :
           LET a == k[1]
               allowed == Len(Kept(a)) < Limit
           IN  /\ requests' = [requests EXCEPT ![a] = IF allowed THEN Append(Kept(a), 0) ELSE Kept(a)]
               /\ states' = IF allowed THEN [states EXCEPT ![k] = AfterCheck(k)] ELSE states
               /\ login' = IF allowed /\ ~Locked(k)
                           THEN [login EXCEPT ![p] = [at |-> "checked", key |-> k]]
                           ELSE login
               /\ tries' = IF allowed /\ AtEnd(k) THEN [tries EXCEPT ![k] = 0] ELSE tries
    /\ UNCHANGED <<accounts, signup>>

\* right or wrong; without an account it is always wrong, and a failing read is a failure
Authenticate(p) ==
    /\ login[p].at = "checked"
    /\ LET k == login[p].key
       IN  \/ /\ k[2] \in accounts
              /\ login' = [login EXCEPT ![p].at = "right"]
              /\ UNCHANGED tries
           \/ /\ login' = [login EXCEPT ![p].at = "wrong"]
              /\ tries' = [tries EXCEPT ![k] = @ + 1]
    /\ UNCHANGED <<accounts, signup, requests, states, served>>

\* a lock that is over is forgotten; one that ends at this instant is not
Counted(k) == (IF Over(k) THEN 0 ELSE states[k].count) + 1

RecordFail(p) ==
    /\ login[p].at = "wrong"
    /\ LET k == login[p].key
       IN  states' = [states EXCEPT ![k] =
               IF Counted(k) >= MaxFails THEN [count |-> 0, left |-> LockTicks]
               ELSE [count |-> Counted(k), left |-> IF Over(k) THEN NoLock ELSE @.left]]
    /\ login' = [login EXCEPT ![p] = [at |-> "idle"]]
    /\ UNCHANGED <<accounts, signup, requests, served, tries>>

Reset(p) ==
    /\ login[p].at = "right"
    /\ states' = [states EXCEPT ![login[p].key] = Absent]
    /\ tries' = [tries EXCEPT ![login[p].key] = 0]
    /\ login' = [login EXCEPT ![p] = [at |-> "idle"]]
    /\ UNCHANGED <<accounts, signup, requests, served>>

Login(p) == Check(p) \/ Authenticate(p) \/ RecordFail(p) \/ Reset(p)

-----------------------------------------------------------------------------
\* A key is released when its lock is over, or when a check finds it at its end.
Tick ==
    /\ requests' = [a \in Addresses |-> [i \in DOMAIN Kept(a) |-> Kept(a)[i] + 1]]
    /\ states' = [k \in Keys |->
           IF states[k].left \in 0..LockTicks THEN [states[k] EXCEPT !.left = @ - 1] ELSE states[k]]
    /\ tries' = [k \in Keys |-> IF AtEnd(k) THEN 0 ELSE tries[k]]
    /\ requests' # requests \/ states' # states
    /\ UNCHANGED <<accounts, signup, login, served>>

\* guard and limiter are in memory only
Restart ==
    /\ requests' = [a \in Addresses |-> <<>>]
    /\ states' = [k \in Keys |-> Absent]
    /\ tries' = [k \in Keys |-> 0]
    /\ login' = [p \in Logins |-> [at |-> "idle"]]
    /\ signup' = [s \in Signups |-> [at |-> "ended"]]
    /\ UNCHANGED <<accounts, served>>

GuardNext ==
    \/ \E s \in Signups : Register(s)
    \/ \E p \in Logins : Login(p)
    \/ Tick \/ Restart

-----------------------------------------------------------------------------
GuardTypeOK ==
    /\ accounts \subseteq Emails
    /\ signup \in [Signups -> [at : {"idle", "ended"}] \cup [at : {"hashing"}, email : Emails]]
    /\ requests \in [Addresses -> Seq(0..Window)]
    /\ states \in [Keys -> [count : 0..(MaxFails - 1), left : -1..NoLock]]
    /\ login \in [Logins -> [at : {"idle"}] \cup [at : {"checked", "right", "wrong"}, key : Keys]]
    /\ served \in 0..MaxRequests
    /\ tries \in [Keys -> Nat]

\* guard.go:19 allows a key maxFails failures before it is locked.  Logins that pass the
\* check side by side exceed that, but by no more than the others that are under way: from
\* one release of a key to the next, whatever interleaves, a password is guessed at most
\* that often.
FailuresAreBounded == \A k \in Keys : tries[k] <= MaxFails + Cardinality(Logins) - 1

\* guard.go:19 locks a key for lockDuration.  A login that passed the check before the lock
\* and succeeds after it removes the lock.
LocksLast ==
    [][\A k \in Keys : Locked(k) => states'[k].left \in {states[k].left - 1, states[k].left, LockTicks}]_guardVars
=============================================================================
