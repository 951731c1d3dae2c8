-------------------------- MODULE ChainSenderProofs --------------------------
(***************************************************************************)
(* Theorems of ChainSender, for any number of callers: its nonces never    *)
(* collide, its gas ledger is right, and it implements ChainCall.          *)
(***************************************************************************)
EXTENDS ChainSender, Sums

\* The mutex is held by whoever is between ReadNonce and the end of sendTransaction.
HolderIsAlone == \A c \in Callers : pc[c] \in Waiting => txMu = c

\* The nonces of the pool are not used up, and no two are the same.
PoolIsOrderly ==
    /\ IsFiniteSet(pool)
    /\ \A t \in pool : t.nonce >= Len(mined)
    /\ \A t, u \in pool : t.nonce = u.nonce => t = u

NonceIsFree ==
    \A c \in Callers : pc[c] = "signed" =>
        /\ nonce[c] >= Len(mined)
        /\ \A t \in pool : t.nonce # nonce[c]

\* A caller has one transaction at most, and it is in the pool or mined.
OneTransactionEach ==
    /\ \A t \in pool : pc[t.by] \in {"sent", "failed"} /\ ~IsMined(t.by)
    /\ \A t, u \in pool : t.by = u.by => t = u
    /\ \A c \in Callers : IsMined(c) => pc[c] \in {"sent", "failed", "forwarded", "ok"}

\* Success is said of what took effect, and booked of nothing else.
ToldTheTruth ==
    /\ \A c \in Callers : pc[c] \in {"forwarded", "ok"} => Effective(c)
    /\ \A r \in gasLedger : Effective(r)

\* One signed request takes effect once, however many relays of it are mined.
RequestsAreUsedOnce ==
    \A r, q \in Relays : RequestOf[r] = RequestOf[q] /\ Effective(r) /\ Effective(q) => r = q

SenderInv ==
    /\ TypeOK
    /\ HolderIsAlone
    /\ PoolIsOrderly
    /\ NonceIsFree
    /\ OneTransactionEach
    /\ ToldTheTruth
    /\ RequestsAreUsedOnce

\* There is a nonce the node has no transaction for, and PendingNonce is one.
LEMMA FreeNonceExists ==
    ASSUME TypeOK, IsFiniteSet(pool)
    PROVE  \E n \in Len(mined)..(Len(mined) + Cardinality(pool)) : \A t \in pool : t.nonce # n
<1> DEFINE L == Len(mined)
           k == Cardinality(pool)
           I == L..(L + k)
<1>1. L \in Nat /\ k \in Nat
  BY FS_CardinalityType DEF TypeOK
<1>2. IsFiniteSet(I) /\ Cardinality(I) = k + 1
  <2> HIDE DEF L, k
  <2>1. IsFiniteSet(I) /\ Cardinality(I) = IF L > L + k THEN 0 ELSE (L + k) - L + 1
    BY <1>1, FS_Interval
  <2> QED
    BY <1>1, <2>1
<1>3. SUFFICES ASSUME \A n \in I : \E t \in pool : t.nonce = n
               PROVE  FALSE
  OBVIOUS
<1> DEFINE f == [n \in I |-> CHOOSE t \in pool : t.nonce = n]
<1>4. \A n \in I : f[n] \in pool /\ f[n].nonce = n
  BY <1>3
<1>5. f \in [I -> pool]
  BY <1>4
<1> HIDE DEF f
<1>6. k < Cardinality(I)
  BY <1>1, <1>2
<1>7. \E x, y \in I : x # y /\ f[x] = f[y]
  BY <1>2, <1>5, <1>6, FS_PigeonHole DEF k
<1> QED
  BY <1>4, <1>7

LEMMA PendingNonceIsFree ==
    ASSUME TypeOK, IsFiniteSet(pool)
    PROVE  /\ PendingNonce \in Nat /\ PendingNonce >= Len(mined)
           /\ \A t \in pool : t.nonce # PendingNonce
<1> DEFINE Free == {n \in Len(mined)..(Len(mined) + Cardinality(pool)) : \A t \in pool : t.nonce # n}
<1>1. Len(mined) \in Nat /\ Cardinality(pool) \in Nat
  BY FS_CardinalityType DEF TypeOK
<1>2. Free # {}
  BY FreeNonceExists
<1>3. Free \in SUBSET Nat
  BY <1>1
<1>4. \E x \in Free : \A y \in Free : x <= y
  <2> HIDE DEF Free
  <2> QED
    BY <1>2, <1>3, LeastNatural
<1>5. PendingNonce \in Free
  BY <1>4 DEF PendingNonce, Min
<1> QED
  BY <1>1, <1>5

\* What a transaction did does not change when others are mined after it.
LEMMA EffectStays ==
    ASSUME mined \in Seq(Callers), NEW d \in Callers, mined' = Append(mined, d),
           reverted' \in {reverted, reverted \cup {d}}, NEW c \in Callers
    PROVE  /\ IsMined(c)' <=> IsMined(c) \/ c = d
           /\ c # d => (Effective(c)' = Effective(c)) /\ (IsMined(c)' = IsMined(c))
<1>1. /\ Len(mined) \in Nat /\ Len(mined') = Len(mined) + 1
      /\ \A i \in 1..Len(mined) : mined'[i] = mined[i]
      /\ mined'[Len(mined) + 1] = d
  OBVIOUS
<1>2. 1..Len(mined') = 1..Len(mined) \cup {Len(mined) + 1}
  BY <1>1
<1>3. IsMined(c)' <=> IsMined(c) \/ c = d
  BY <1>1, <1>2 DEF IsMined
<1> QED
  BY <1>3 DEF Effective, IsMined

\* A step that mines nothing.
LEMMA NothingIsMined ==
    ASSUME mined' = mined, reverted' = reverted, NEW c
    PROVE  (Effective(c)' = Effective(c)) /\ (IsMined(c)' = IsMined(c))
  BY DEF Effective, IsMined

LEMMA SenderInitInv == ASSUME Init PROVE SenderInv
<1>1. TypeOK
  <2>1. MaxEvictions \in Nat
    BY SenderAssumption
  <2>2. mined \in Seq(Callers) /\ reverted \subseteq Callers
    BY DEF Init
  <2>3. pc \in [Callers -> Stages]
    BY DEF Init, Stages
  <2>4. /\ expired = {} /\ txMu = Nobody /\ nonce = [c \in Callers |-> 0] /\ pool = {}
        /\ evictions = 0 /\ dbFee = Nobody /\ gasLedger = {} /\ overlapped = FALSE
    BY DEF Init
  <2>5. nonce \in [Callers -> Nat] /\ evictions \in 0..MaxEvictions
    BY <2>1, <2>4
  <2> QED
    BY <2>2, <2>3, <2>4, <2>5 DEF TypeOK
<1>2. HolderIsAlone /\ NonceIsFree
  BY DEF Init, HolderIsAlone, NonceIsFree, Waiting
<1>3. PoolIsOrderly /\ OneTransactionEach /\ ToldTheTruth /\ RequestsAreUsedOnce
  <2>1. mined = <<>> /\ pool = {} /\ gasLedger = {} /\ \A c \in Callers : pc[c] = "idle"
    BY DEF Init
  <2>2. \A c : ~IsMined(c)
    BY <2>1 DEF IsMined
  <2> QED
    BY <2>1, <2>2, FS_EmptySet
       DEF PoolIsOrderly, OneTransactionEach, ToldTheTruth, RequestsAreUsedOnce, Effective
<1> QED
  BY <1>1, <1>2, <1>3 DEF SenderInv

\* A caller that has not sent, and one whose transaction was mined, have none in the pool.
LEMMA NothingInThePool ==
    ASSUME SenderInv, NEW c \in Callers,
           pc[c] \in {"idle", "saved", "queued", "locked", "signed", "forwarded"} \/ IsMined(c)
    PROVE  /\ \A t \in pool : t.by # c
           /\ pc[c] \in {"idle", "saved", "queued", "locked", "signed"} => ~IsMined(c)
  BY DEF SenderInv, OneTransactionEach

\* A caller takes a step that leaves the node alone.
LEMMA CallerStep ==
    ASSUME SenderInv, TypeOK', NEW c \in Callers, NEW stage \in Stages,
           pc' = [pc EXCEPT ![c] = stage], UNCHANGED <<pool, mined, reverted>>,
           \A d \in Callers \ {c} : nonce'[d] = nonce[d],
           stage \in Waiting => txMu' = c,
           txMu' = txMu \/ txMu \in {c, Nobody},
           stage = "signed" => nonce'[c] >= Len(mined) /\ \A t \in pool : t.nonce # nonce'[c],
           \A t \in pool : t.by = c => stage \in {"sent", "failed"},
           IsMined(c) => stage \in {"sent", "failed", "forwarded", "ok"},
           stage \in {"forwarded", "ok"} => Effective(c),
           \A r \in gasLedger' : r \in gasLedger \/ Effective(r)
    PROVE  SenderInv'
<1>1. /\ pc'[c] = stage
      /\ \A d \in Callers \ {c} : pc'[d] = pc[d]
  BY DEF SenderInv, TypeOK
<1>2. \A d \in Callers : (Effective(d)' = Effective(d)) /\ (IsMined(d)' = IsMined(d))
  BY NothingIsMined
<1>3. HolderIsAlone'
  BY <1>1, SenderAssumption DEF SenderInv, HolderIsAlone
<1>4. PoolIsOrderly' /\ NonceIsFree'
  BY <1>1 DEF SenderInv, PoolIsOrderly, NonceIsFree
<1>5. \A t \in pool : t.by \in Callers
  BY DEF SenderInv, TypeOK, Transaction
<1>6. OneTransactionEach'
  BY <1>1, <1>2, <1>5 DEF SenderInv, OneTransactionEach
<1>7. ToldTheTruth'
  <2>1. gasLedger' \subseteq Callers
    BY DEF TypeOK, Callers
  <2> QED
    BY <1>1, <1>2, <2>1 DEF SenderInv, ToldTheTruth
<1>8. RequestsAreUsedOnce'
  BY <1>2 DEF SenderInv, RequestsAreUsedOnce, Callers
<1> QED
  BY <1>3, <1>4, <1>6, <1>7, <1>8 DEF SenderInv

LEMMA ReturnMoves ==
    ASSUME TypeOK, NEW c \in Callers, NEW stage \in Stages, Return(c, stage)
    PROVE  /\ pc' = [pc EXCEPT ![c] = stage] /\ pc' \in [Callers -> Stages]
           /\ expired' \subseteq Callers /\ txMu' = Nobody
           /\ nonce' \in [Callers -> Nat] /\ \A d \in Callers \ {c} : nonce'[d] = nonce[d]
  BY DEF TypeOK, Return, To

LEMMA HolderHolds ==
    ASSUME SenderInv, NEW c \in Callers, pc[c] \in Waiting PROVE txMu = c
  BY DEF SenderInv, HolderIsAlone

LEMMA LockStep == ASSUME SenderInv, NEW c \in Callers, Lock(c) PROVE SenderInv'
<1>1. "locked" \in Stages
  BY DEF Stages, Waiting
<1>2. TypeOK'
  BY <1>1 DEF SenderInv, TypeOK, Lock, To, node, rows
<1>3. \A t \in pool : t.by # c
  BY NothingInThePool DEF Lock
<1>4. ~IsMined(c)
  BY NothingInThePool DEF Lock
<1> QED
  BY <1>1, <1>2, <1>3, <1>4, CallerStep DEF Lock, To, node, rows

LEMMA ReadNonceStep == ASSUME SenderInv, NEW c \in Callers, ReadNonce(c) PROVE SenderInv'
<1>1. "signed" \in Stages /\ "signed" \notin {"forwarded", "ok"}
  BY DEF Stages, Waiting
<1>2. /\ PendingNonce \in Nat /\ PendingNonce >= Len(mined)
      /\ \A t \in pool : t.nonce # PendingNonce
  BY PendingNonceIsFree DEF SenderInv, PoolIsOrderly
<1>3. nonce'[c] = PendingNonce /\ \A d \in Callers \ {c} : nonce'[d] = nonce[d]
  BY DEF SenderInv, TypeOK, ReadNonce
<1>4. TypeOK'
  BY <1>1, <1>2 DEF SenderInv, TypeOK, ReadNonce, To, node, rows
<1>5. (\A t \in pool : t.by # c) /\ ~IsMined(c)
  BY NothingInThePool DEF ReadNonce
<1>6. txMu = c /\ txMu' = c
  BY HolderHolds DEF ReadNonce, Waiting
<1> QED
  BY <1>1, <1>2, <1>3, <1>4, <1>5, <1>6, CallerStep DEF ReadNonce, To, node, rows

\* The node accepts a transaction; the caller waits for it, or never hears of it.
LEMMA SubmitStep == ASSUME SenderInv, NEW c \in Callers, Submit(c) \/ SubmitUnheard(c) PROVE SenderInv'
<1> DEFINE new == [nonce |-> nonce[c], by |-> c]
<1>1. /\ pc[c] = "signed" /\ pool' = pool \cup {new} /\ UNCHANGED <<mined, reverted, evictions, rows>>
      /\ \A t \in pool : t.nonce # nonce[c]
  BY DEF Submit, SubmitUnheard, Accepted
<1>2. PICK stage \in {"sent", "failed"} : pc' = [pc EXCEPT ![c] = stage] /\ (stage = "sent" => txMu' = c)
  <2>1. txMu = c
    BY <1>1, HolderHolds DEF Waiting
  <2>2. CASE Submit(c)
    BY <2>1, <2>2 DEF Submit, To
  <2>3. CASE SubmitUnheard(c)
    <3>1. pc' = [pc EXCEPT ![c] = "failed"]
      BY <2>3 DEF SubmitUnheard, Return, To
    <3> QED
      BY <3>1
  <2> QED
    BY <2>2, <2>3
<1>3. TypeOK /\ stage \in Stages
  BY DEF SenderInv, Stages, Waiting, Ended
<1>4. /\ expired' \subseteq Callers /\ txMu' \in {c, Nobody}
      /\ nonce' \in [Callers -> Nat] /\ \A d \in Callers \ {c} : nonce'[d] = nonce[d]
  BY <1>3, <1>1, HolderHolds DEF TypeOK, Submit, SubmitUnheard, Return, Waiting
<1>5. new \in Transaction /\ new.nonce = nonce[c] /\ new.by = c
  BY <1>3 DEF TypeOK, Transaction
<1> HIDE DEF new
<1>6. TypeOK'
  <2>1. pc' \in [Callers -> Stages]
    BY <1>2, <1>3 DEF TypeOK
  <2>2. pool' \subseteq Transaction
    BY <1>1, <1>3, <1>5 DEF TypeOK
  <2> QED
    BY <1>1, <1>3, <1>4, <2>1, <2>2 DEF TypeOK, rows
<1>7. /\ pc'[c] = stage
      /\ \A d \in Callers \ {c} : pc'[d] = pc[d]
  BY <1>2, <1>3 DEF TypeOK
<1>8. \A d \in Callers : (Effective(d)' = Effective(d)) /\ (IsMined(d)' = IsMined(d))
  BY <1>1, NothingIsMined
<1>9. (\A t \in pool : t.by # c) /\ ~IsMined(c)
  BY <1>1, NothingInThePool
<1>10. txMu = c
  BY <1>1, HolderHolds DEF Waiting
<1>11. HolderIsAlone'
  <2>1. \A d \in Callers \ {c} : pc[d] \notin Waiting
    BY <1>10 DEF SenderInv, HolderIsAlone
  <2> QED
    BY <1>2, <1>7, <2>1 DEF HolderIsAlone, Waiting
<1>12. PoolIsOrderly'
  <2>1. IsFiniteSet(pool')
    BY <1>1, FS_AddElement DEF SenderInv, PoolIsOrderly
  <2>2. nonce[c] >= Len(mined)
    BY <1>1 DEF SenderInv, NonceIsFree
  <2> QED
    BY <1>1, <1>5, <2>1, <2>2 DEF SenderInv, PoolIsOrderly
<1>13. NonceIsFree'
  <2>1. \A d \in Callers : pc'[d] # "signed"
    BY <1>7, <1>10 DEF SenderInv, HolderIsAlone, Waiting
  <2> QED
    BY <2>1 DEF NonceIsFree
<1>14. OneTransactionEach'
  <2>1. \A t \in pool : t.by \in Callers
    BY <1>3 DEF TypeOK, Transaction
  <2> QED
    BY <1>1, <1>5, <1>7, <1>8, <1>9, <2>1 DEF SenderInv, OneTransactionEach
<1>15. ToldTheTruth'
  <2>1. gasLedger' = gasLedger /\ gasLedger \subseteq Callers
    BY <1>1, <1>3 DEF TypeOK, Callers, rows
  <2> QED
    BY <1>7, <1>8, <2>1 DEF SenderInv, ToldTheTruth
<1>16. RequestsAreUsedOnce'
  BY <1>8 DEF SenderInv, RequestsAreUsedOnce, Callers
<1> QED
  BY <1>6, <1>11, <1>12, <1>13, <1>14, <1>15, <1>16 DEF SenderInv

\* sendTransaction returns, with an error or with a receipt.
LEMMA ReturnStep ==
    ASSUME SenderInv, NEW c \in Callers, CallFails(c) \/ WaitMined(c) \/ GiveUp(c)
    PROVE  SenderInv'
<1>1. PICK stage \in {"failed", "forwarded", "ok"} :
          /\ Return(c, stage)
          /\ stage \in {"forwarded", "ok"} => Effective(c)
          /\ stage \in {"forwarded", "ok"} => IsMined(c)
  BY DEF CallFails, WaitMined, GiveUp, Success, Effective
<1>2. stage \in Stages /\ stage \notin Waiting
  BY DEF Stages, Ended, Waiting
<1>3. /\ pc[c] \in Waiting
      /\ UNCHANGED <<node, rows>>
  BY DEF CallFails, WaitMined, GiveUp, Waiting
<1>4. TypeOK'
  BY <1>1, <1>2, <1>3, ReturnMoves DEF SenderInv, TypeOK, node, rows
<1>5. \A t \in pool : t.by = c => stage \in {"sent", "failed"}
  BY <1>1, NothingInThePool
<1>6. stage # "signed"
  BY <1>1
<1>7. /\ pc' = [pc EXCEPT ![c] = stage] /\ txMu = c
      /\ \A d \in Callers \ {c} : nonce'[d] = nonce[d]
  BY <1>1, <1>2, <1>3, ReturnMoves, HolderHolds DEF SenderInv
<1> QED
  BY <1>1, <1>2, <1>3, <1>4, <1>5, <1>6, <1>7, CallerStep DEF node, rows

\* The steps of a relay and of an update outside sendTransaction.
LEMMA RequestStep ==
    ASSUME SenderInv, NEW c \in Callers, (c \in Relays /\ Execute(c)) \/ (c \in Updates /\ UpdateFees(c))
    PROVE  SenderInv'
<1>1. PICK stage \in {"refused", "queued", "ok", "saved", "savedOnly"} :
          /\ To(c, stage)
          /\ stage = "ok" <=> pc[c] = "forwarded"
  BY DEF Execute, CheckNonce, CheckFails, RecordGas, UpdateFees, UpsertFee, UpsertFails, SetTransferFee, To
<1>2. stage \in Stages /\ stage \notin Waiting
  BY DEF Stages, Ended, Waiting
<1>3. pc[c] \in {"idle", "saved", "forwarded"} /\ UNCHANGED <<expired, txMu, nonce, node>>
  BY DEF Execute, CheckNonce, CheckFails, RecordGas, UpdateFees, UpsertFee, UpsertFails, SetTransferFee, rows
<1>4. /\ gasLedger' \subseteq Relays
      /\ dbFee' \in Updates \cup {Nobody} /\ overlapped' \in BOOLEAN
      /\ \A r \in gasLedger' : r \in gasLedger \/ (r = c /\ pc[c] = "forwarded")
  BY DEF SenderInv, TypeOK, Execute, CheckNonce, CheckFails, RecordGas, UpdateFees, UpsertFee, UpsertFails,
     SetTransferFee, rows
<1>5. TypeOK'
  BY <1>1, <1>2, <1>3, <1>4 DEF SenderInv, TypeOK, To, node
<1>6. pc[c] = "forwarded" => Effective(c)
  BY DEF SenderInv, ToldTheTruth
<1>7. /\ \A t \in pool : t.by # c
      /\ pc[c] # "forwarded" => ~IsMined(c)
  BY <1>3, NothingInThePool
<1> QED
  BY <1>1, <1>2, <1>3, <1>4, <1>5, <1>6, <1>7, CallerStep DEF To, node

LEMMA MineStep == ASSUME SenderInv, NEW t \in pool, Mine(t) PROVE SenderInv'
<1>1. /\ t.nonce = Len(mined) /\ pool' = pool \ {t} /\ mined' = Append(mined, t.by)
      /\ reverted' \in {reverted, reverted \cup {t.by}}
      /\ UNCHANGED <<pc, expired, txMu, nonce, evictions, rows>>
  BY DEF Mine
<1>2. TypeOK /\ t \in Transaction /\ t.by \in Callers
  BY DEF SenderInv, TypeOK, Transaction
<1>3. Len(mined) \in Nat /\ mined' \in Seq(Callers) /\ Len(mined') = Len(mined) + 1
  BY <1>1, <1>2 DEF TypeOK
<1>4. TypeOK'
  BY <1>1, <1>2, <1>3 DEF TypeOK, rows
<1>5. /\ \A c \in Callers \ {t.by} : (Effective(c)' = Effective(c)) /\ (IsMined(c)' = IsMined(c))
      /\ ~Effective(t.by)
  BY <1>1, <1>2, EffectStays DEF SenderInv, TypeOK, OneTransactionEach, Effective
<1>6. \A u \in pool : u.nonce \in Nat /\ u.by \in Callers
  BY <1>2 DEF TypeOK, Transaction
<1>7. HolderIsAlone'
  BY <1>1 DEF SenderInv, HolderIsAlone
<1>8. PoolIsOrderly'
  <2>1. IsFiniteSet(pool')
    BY <1>1, FS_RemoveElement DEF SenderInv, PoolIsOrderly
  <2>2. \A u \in pool' : u.nonce >= Len(mined')
    BY <1>1, <1>3, <1>6 DEF SenderInv, PoolIsOrderly
  <2> QED
    BY <1>1, <2>1, <2>2 DEF SenderInv, PoolIsOrderly
<1>9. NonceIsFree'
  <2>1. \A c \in Callers : nonce[c] \in Nat
    BY <1>2 DEF TypeOK
  <2> QED
    BY <1>1, <1>3, <2>1 DEF SenderInv, NonceIsFree
<1>10. OneTransactionEach'
  BY <1>1, <1>2, <1>5, <1>6 DEF SenderInv, OneTransactionEach
<1>11. ToldTheTruth'
  <2>1. gasLedger' = gasLedger /\ gasLedger \subseteq Callers
    BY <1>1, <1>2 DEF TypeOK, Callers, rows
  <2> QED
    BY <1>1, <1>5, <2>1 DEF SenderInv, ToldTheTruth
<1>12. RequestsAreUsedOnce'
  <2>1. SUFFICES ASSUME NEW r \in Relays, NEW q \in Relays, RequestOf[r] = RequestOf[q],
                        Effective(r)', Effective(q)', r # q
                 PROVE  FALSE
    BY DEF RequestsAreUsedOnce
  <2>2. r \in Callers /\ q \in Callers
    BY DEF Callers
  <2>3. t.by \in Relays /\ Effective(t.by)' => ~RequestUsed(t.by)
    BY DEF Mine, MustRevert, Effective
  <2>4. CASE t.by \notin {r, q}
    BY <1>5, <2>1, <2>2, <2>4 DEF SenderInv, RequestsAreUsedOnce
  <2>5. CASE t.by = r
    BY <1>5, <2>1, <2>2, <2>3, <2>5 DEF RequestUsed
  <2>6. CASE t.by = q
    BY <1>5, <2>1, <2>2, <2>3, <2>6 DEF RequestUsed
  <2> QED
    BY <2>4, <2>5, <2>6
<1> QED
  BY <1>4, <1>7, <1>8, <1>9, <1>10, <1>11, <1>12 DEF SenderInv

\* Transactions are forgotten, contexts expire, or nothing happens.
LEMMA BesideTheCallers ==
    ASSUME SenderInv, TypeOK', pool' \subseteq pool,
           UNCHANGED <<pc, txMu, nonce, mined, reverted, gasLedger>>
    PROVE  SenderInv'
<1>1. \A d \in Callers : (Effective(d)' = Effective(d)) /\ (IsMined(d)' = IsMined(d))
  BY NothingIsMined
<1>2. HolderIsAlone' /\ NonceIsFree'
  BY DEF SenderInv, HolderIsAlone, NonceIsFree
<1>3. PoolIsOrderly'
  BY FS_Subset DEF SenderInv, PoolIsOrderly
<1>4. OneTransactionEach' /\ ToldTheTruth'
  <2>1. gasLedger \subseteq Callers /\ \A t \in pool : t.by \in Callers
    BY DEF SenderInv, TypeOK, Callers, Transaction
  <2> QED
    BY <1>1, <2>1 DEF SenderInv, OneTransactionEach, ToldTheTruth
<1>5. RequestsAreUsedOnce'
  BY <1>1 DEF SenderInv, RequestsAreUsedOnce, Callers
<1> QED
  BY <1>2, <1>3, <1>4, <1>5 DEF SenderInv

LEMMA SenderStepInv == ASSUME SenderInv, [Next]_vars PROVE SenderInv'
<1>1. ASSUME NEW c \in Callers, Step(c) PROVE SenderInv'
  BY <1>1, LockStep, ReadNonceStep, SubmitStep, ReturnStep, RequestStep DEF Step, SendTransaction
<1>2. ASSUME NEW c \in Callers, Expire(c) PROVE SenderInv'
  <2>1. TypeOK'
    BY <1>2 DEF SenderInv, TypeOK, Expire, node, rows
  <2> QED
    BY <1>2, <2>1, BesideTheCallers DEF Expire, node, rows
<1>3. ASSUME NEW t \in pool, Evict(t) PROVE SenderInv'
  <2>1. TypeOK'
    BY <1>3, SenderAssumption DEF SenderInv, TypeOK, Evict, rows
  <2> QED
    BY <1>3, <2>1, BesideTheCallers DEF Evict, rows
<1>4. CASE UNCHANGED vars
  <2>1. TypeOK'
    BY <1>4 DEF SenderInv, TypeOK, vars, node, rows
  <2> QED
    BY <1>4, <2>1, BesideTheCallers DEF vars, node, rows
<1> QED
  BY <1>1, <1>2, <1>3, <1>4, MineStep DEF Next

LEMMA SpecInv == Spec => []SenderInv
  BY SenderInitInv, SenderStepInv, PTL DEF Spec

-----------------------------------------------------------------------------
\* TypeOK for any number of callers; the steps below rest on it.
THEOREM TypesAreKept == Spec => []TypeOK
  BY SpecInv, PTL DEF SenderInv

\* No two calls of sendTransaction sign one nonce, and none signs a nonce the node has a
\* transaction for (client.go:21-23): among any number of callers, whatever the node mines
\* or forgets meanwhile.
THEOREM NoncesAreApart == Spec => []NoncesNeverCollide
<1>1. SenderInv => NoncesNeverCollide
  BY DEF SenderInv, HolderIsAlone, NonceIsFree, NoncesNeverCollide, Waiting
<1> QED
  BY <1>1, SpecInv, PTL

\* The gas ledger lists executed requests only, and each signed request once, however many
\* relays carry it (relay/service.go:91).
THEOREM GasLedgerIsRight == Spec => []GasIsAccountedFor
<1>1. SenderInv => GasIsAccountedFor
  BY DEF SenderInv, TypeOK, ToldTheTruth, RequestsAreUsedOnce, GasIsAccountedFor
<1> QED
  BY <1>1, SpecInv, PTL

-----------------------------------------------------------------------------
\* The saved fee and the fee of the contract

NoneFailed == \A u \in Updates : pc[u] # "failed"

\* Updates that never overlapped: the one under way is the one that wrote the saved fee, ...
OneUnderWay == ~overlapped => \A u \in Updates : UnderWay(u) => dbFee = u

\* ... and as none has failed, the contract's fee is that of the update which waits for the
\* receipt of a transaction that is mined, and the saved one when none is under way.
FeesFollow ==
    ~overlapped /\ NoneFailed =>
        /\ \A u \in Updates : pc[u] = "sent" /\ Effective(u) => ChainFee = u
        /\ (\A u \in Updates : ~UnderWay(u)) => dbFee \in OnlySaved \/ ChainFee = dbFee

FeeInv == OneUnderWay /\ FeesFollow

\* A transaction that is mined changes the contract's fee if it is an update that takes effect.
LEMMA FeeOfMined ==
    ASSUME mined \in Seq(Callers), NEW c \in Callers, ~IsMined(c), mined' = Append(mined, c),
           reverted' \in {reverted, reverted \cup {c}}
    PROVE  ChainFee' = IF c \in Updates \ reverted' THEN c ELSE ChainFee
<1>1. /\ Len(mined) \in Nat /\ Len(mined') = Len(mined) + 1
      /\ \A i \in 1..Len(mined) : mined'[i] = mined[i]
      /\ mined'[Len(mined) + 1] = c
  OBVIOUS
<1>2. /\ 1..Len(mined') = 1..Len(mined) \cup {Len(mined) + 1}
      /\ \A i \in 1..Len(mined) : mined[i] \in reverted' <=> mined[i] \in reverted
  BY <1>1 DEF IsMined
<1>3. CASE c \in Updates \ reverted'
  <2>1. /\ Len(mined) + 1 \in FeeChanges'
        /\ \A i \in FeeChanges' : i \in Nat /\ Len(mined) + 1 >= i
    BY <1>1, <1>2, <1>3 DEF FeeChanges
  <2>2. Max(FeeChanges)' = Len(mined) + 1
    BY <1>1, <2>1 DEF Max
  <2> QED
    BY <1>1, <1>3, <2>1, <2>2 DEF ChainFee
<1>4. CASE c \notin Updates \ reverted'
  <2>1. FeeChanges' = FeeChanges
    BY <1>1, <1>2, <1>4 DEF FeeChanges
  <2>2. Max(FeeChanges)' = Max(FeeChanges)
    BY <2>1 DEF Max
  <2>3. ASSUME FeeChanges # {} PROVE Max(FeeChanges) \in 1..Len(mined)
    <3> DEFINE Left == {n \in 0..Len(mined) : Len(mined) - n \in FeeChanges}
    <3>1. PICK i \in FeeChanges : TRUE
      BY <2>3
    <3>2. \A j \in FeeChanges : j \in 1..Len(mined)
      BY DEF FeeChanges
    <3>3. Len(mined) - i \in 0..Len(mined) /\ Len(mined) - (Len(mined) - i) = i
      BY <1>1, <3>2
    <3>4. Left \in SUBSET Nat /\ Left # {}
      BY <1>1, <3>3
    <3>5. PICK n \in Left : \A m \in Left : n <= m
      <4> HIDE DEF Left
      <4> QED
        BY <3>4, LeastNatural
    <3>6. ASSUME NEW j \in FeeChanges PROVE Len(mined) - n >= j
      <4>1. Len(mined) - j \in 0..Len(mined) /\ Len(mined) - (Len(mined) - j) = j
        BY <1>1, <3>2
      <4>2. n <= Len(mined) - j
        BY <3>5, <4>1
      <4> QED
        BY <1>1, <3>2, <3>5, <4>2
    <3>7. Len(mined) - n \in FeeChanges
      BY <3>5
    <3>8. \E x \in FeeChanges : \A y \in FeeChanges : x >= y
      BY <3>6, <3>7
    <3> QED
      BY <3>2, <3>8 DEF Max
  <2> QED
    BY <1>1, <1>4, <2>1, <2>2, <2>3 DEF ChainFee
<1> QED
  BY <1>3, <1>4

\* A step in which no update moves.
LEMMA SameFees ==
    ASSUME SenderInv, FeeInv, UNCHANGED <<mined, reverted>>, dbFee' = dbFee, overlapped' = overlapped,
           \A u \in Updates : pc'[u] = pc[u]
    PROVE  FeeInv'
<1>1. \A u \in Updates : (UnderWay(u)' = UnderWay(u)) /\ (Effective(u)' = Effective(u))
  BY NothingIsMined DEF UnderWay
<1>2. ChainFee' = ChainFee
  BY DEF ChainFee, FeeChanges
<1> QED
  BY <1>1, <1>2 DEF FeeInv, OneUnderWay, FeesFollow, NoneFailed

\* An update moves after it saved its fee.
LEMMA UpdateMoves ==
    ASSUME SenderInv, FeeInv, NEW u \in Updates, NEW stage \in Stages,
           pc' = [pc EXCEPT ![u] = stage], UNCHANGED <<mined, reverted>>,
           dbFee' = dbFee, overlapped' = overlapped, pc[u] # "failed",
           stage \notin {"idle"} \cup Ended => UnderWay(u),
           stage = "sent" => ~IsMined(u),
           stage \in {"idle"} \cup Ended /\ UnderWay(u) =>
               stage = "failed" \/ u \in OnlySaved \/ (pc[u] = "sent" /\ Effective(u))
    PROVE  FeeInv'
<1>1. /\ pc'[u] = stage
      /\ \A v \in Updates \ {u} : pc'[v] = pc[v]
  BY DEF SenderInv, TypeOK, Callers
<1>2. \A v \in Updates : Effective(v)' = Effective(v)
  BY NothingIsMined
<1>3. ChainFee' = ChainFee
  BY DEF ChainFee, FeeChanges
<1>4. /\ \A v \in Updates \ {u} : UnderWay(v)' = UnderWay(v)
      /\ UnderWay(u)' => UnderWay(u)
      /\ UnderWay(u)' <=> stage \notin {"idle"} \cup Ended
  BY <1>1 DEF UnderWay
<1>5. OneUnderWay'
  BY <1>4 DEF FeeInv, OneUnderWay
<1>6. FeesFollow'
  <2>1. SUFFICES ASSUME ~overlapped', NoneFailed' PROVE FeesFollow'
    BY DEF FeesFollow
  <2>2. ~overlapped /\ NoneFailed /\ stage # "failed"
    BY <1>1, <2>1 DEF NoneFailed
  <2>3. ASSUME NEW v \in Updates, pc'[v] = "sent", Effective(v)' PROVE ChainFee' = v
    BY <1>1, <1>2, <1>3, <2>2, <2>3 DEF FeeInv, FeesFollow, Effective
  <2>4. ASSUME \A v \in Updates : ~UnderWay(v)' PROVE dbFee' \in OnlySaved \/ ChainFee' = dbFee'
    <3>1. CASE UnderWay(u)
      BY <1>3, <1>4, <2>2, <2>4, <3>1 DEF FeeInv, OneUnderWay, FeesFollow
    <3>2. CASE ~UnderWay(u)
      BY <1>3, <1>4, <2>2, <2>4, <3>2 DEF FeeInv, FeesFollow
    <3> QED
      BY <3>1, <3>2
  <2> QED
    BY <2>3, <2>4 DEF FeesFollow
<1> QED
  BY <1>5, <1>6 DEF FeeInv

\* An update saves its fee: it is the only one under way, or the updates overlap.
LEMMA UpsertFeeStep ==
    ASSUME SenderInv, FeeInv, NEW u \in Updates, UpsertFee(u)
    PROVE  FeeInv'
<1>1. /\ pc[u] = "idle" /\ pc'[u] = "saved" /\ dbFee' = u
      /\ \A v \in Updates \ {u} : pc'[v] = pc[v]
  BY DEF SenderInv, TypeOK, Callers, UpsertFee, To
<1>2. CASE overlapped'
  BY <1>2 DEF FeeInv, OneUnderWay, FeesFollow
<1>3. CASE ~overlapped'
  <2>1. \A v \in Updates : ~UnderWay(v)
    BY <1>3 DEF UpsertFee
  <2>2. \A v \in Updates \ {u} : ~UnderWay(v)' /\ pc'[v] # "sent"
    BY <1>1, <2>1 DEF UnderWay, Ended
  <2>3. UnderWay(u)'
    BY <1>1 DEF UnderWay, Ended
  <2> QED
    BY <1>1, <2>2, <2>3 DEF FeeInv, OneUnderWay, FeesFollow
<1> QED
  BY <1>2, <1>3

LEMMA UpdateStep ==
    ASSUME SenderInv, FeeInv, NEW u \in Updates, Step(u)
    PROVE  FeeInv'
<1>1. u \in Callers /\ u \notin Relays
  BY SenderAssumption DEF Callers
<1>2. CASE UpsertFee(u)
  BY <1>2, UpsertFeeStep
<1>3. CASE UpsertFails(u) \/ SetTransferFee(u) \/ Lock(u) \/ ReadNonce(u) \/ Submit(u)
  <2>1. PICK stage \in {"refused", "savedOnly", "queued", "locked", "signed", "sent"} :
            /\ pc' = [pc EXCEPT ![u] = stage] /\ UNCHANGED <<mined, reverted>>
            /\ dbFee' = dbFee /\ overlapped' = overlapped
            /\ stage = "refused" => pc[u] = "idle"
            /\ stage # "refused" => pc[u] \in {"saved", "queued", "locked", "signed"}
            /\ stage = "savedOnly" => u \in OnlySaved
    BY <1>3 DEF UpsertFails, SetTransferFee, Lock, ReadNonce, Submit, Accepted, To, node, rows
  <2>2. stage \in Stages /\ pc[u] # "failed"
    BY <2>1 DEF Stages, Waiting, Ended
  <2>3. pc[u] \in {"saved", "queued", "locked", "signed"} => UnderWay(u) /\ ~IsMined(u)
    BY <1>1, NothingInThePool DEF UnderWay, Ended
  <2>4. pc[u] = "idle" => ~UnderWay(u)
    BY DEF UnderWay
  <2> QED
    BY <2>1, <2>2, <2>3, <2>4, UpdateMoves DEF Ended
<1>4. CASE SubmitUnheard(u) \/ CallFails(u) \/ WaitMined(u) \/ GiveUp(u)
  <2>1. PICK stage \in {"failed", "ok"} :
            /\ pc' = [pc EXCEPT ![u] = stage] /\ UNCHANGED <<mined, reverted>>
            /\ dbFee' = dbFee /\ overlapped' = overlapped
            /\ pc[u] # "failed"
            /\ stage = "ok" => pc[u] = "sent" /\ Effective(u)
    BY <1>1, <1>4 DEF SubmitUnheard, CallFails, WaitMined, GiveUp, Accepted, Success, Return, To, node, rows
  <2>2. stage \in Stages /\ stage \in Ended /\ stage # "sent"
    BY DEF Stages, Ended
  <2> QED
    BY <2>1, <2>2, UpdateMoves
<1> QED
  BY <1>1, <1>2, <1>3, <1>4 DEF Step, SendTransaction, UpdateFees

LEMMA RelayStep ==
    ASSUME SenderInv, FeeInv, NEW r \in Relays, Step(r)
    PROVE  FeeInv'
<1>1. r \in Callers /\ r \notin Updates
  BY SenderAssumption DEF Callers
<1>2. \E stage : pc' = [pc EXCEPT ![r] = stage]
  BY <1>1 DEF Step, SendTransaction, Execute, CheckNonce, CheckFails, RecordGas,
     Lock, ReadNonce, Submit, SubmitUnheard, CallFails, WaitMined, GiveUp, Return, To
<1>3. UNCHANGED <<mined, reverted>> /\ dbFee' = dbFee /\ overlapped' = overlapped
  BY <1>1 DEF Step, SendTransaction, Execute, CheckNonce, CheckFails, RecordGas,
     Lock, ReadNonce, Submit, SubmitUnheard, CallFails, WaitMined, GiveUp, Accepted, node, rows
<1>4. \A u \in Updates : pc'[u] = pc[u]
  BY <1>1, <1>2 DEF SenderInv, TypeOK, Callers
<1> QED
  BY <1>3, <1>4, SameFees

\* The node mines a transaction of a relay, or of the one update that waits.
LEMMA MinedFee ==
    ASSUME SenderInv, FeeInv, NEW t \in pool, Mine(t)
    PROVE  FeeInv'
<1> DEFINE c == t.by
<1>1. /\ TypeOK /\ c \in Callers /\ mined' = Append(mined, c)
      /\ reverted' \in {reverted, reverted \cup {c}}
      /\ UNCHANGED <<pc, dbFee, overlapped>>
  BY DEF SenderInv, TypeOK, Transaction, Mine, rows
<1>2. pc[c] \in {"sent", "failed"} /\ ~IsMined(c)
  BY DEF SenderInv, OneTransactionEach
<1> HIDE DEF c
<1>3. \A u \in Updates \ {c} : Effective(u)' = Effective(u)
  BY <1>1, EffectStays DEF TypeOK, Callers
<1>4. ChainFee' = IF c \in Updates \ reverted' THEN c ELSE ChainFee
  BY <1>1, <1>2, FeeOfMined DEF TypeOK
<1>5. \A u \in Updates : UnderWay(u)' = UnderWay(u)
  BY <1>1 DEF UnderWay
<1>6. OneUnderWay'
  BY <1>1, <1>5 DEF FeeInv, OneUnderWay
<1>7. FeesFollow'
  <2>1. SUFFICES ASSUME ~overlapped', NoneFailed' PROVE FeesFollow'
    BY DEF FeesFollow
  <2>2. ~overlapped /\ NoneFailed
    BY <1>1, <2>1 DEF NoneFailed
  <2>3. CASE c \notin Updates
    BY <1>1, <1>3, <1>4, <1>5, <2>2, <2>3 DEF FeeInv, FeesFollow
  <2>4. CASE c \in Updates
    <3>1. pc[c] = "sent" /\ UnderWay(c)
      BY <1>2, <2>2, <2>4 DEF NoneFailed, UnderWay, Ended
    <3>2. ASSUME NEW u \in Updates, pc'[u] = "sent", Effective(u)' PROVE ChainFee' = u
      <4>1. UnderWay(u)
        BY <1>1, <3>2 DEF UnderWay, Ended
      <4>2. u = c
        BY <2>2, <2>4, <3>1, <4>1 DEF FeeInv, OneUnderWay
      <4>3. u \notin reverted'
        BY <3>2 DEF Effective
      <4> QED
        BY <1>4, <2>4, <4>2, <4>3
    <3> QED
      BY <1>5, <2>4, <3>1, <3>2 DEF FeesFollow
  <2> QED
    BY <2>3, <2>4
<1> QED
  BY <1>6, <1>7 DEF FeeInv

LEMMA FeeInitInv == ASSUME Init PROVE FeeInv
<1>1. /\ \A u \in Updates : pc[u] = "idle"
      /\ dbFee = Nobody /\ mined = <<>>
  BY DEF Init, Callers
<1>2. ChainFee = Nobody
  BY <1>1 DEF ChainFee, FeeChanges
<1> QED
  BY <1>1, <1>2 DEF FeeInv, OneUnderWay, FeesFollow, UnderWay

LEMMA FeeStepInv == ASSUME SenderInv, FeeInv, [Next]_vars PROVE FeeInv'
<1>1. ASSUME NEW c \in Callers, Step(c) PROVE FeeInv'
  BY <1>1, UpdateStep, RelayStep DEF Callers
<1>2. ASSUME NEW c \in Callers, Expire(c) PROVE FeeInv'
  BY <1>2, SameFees DEF Expire, node, rows
<1>3. ASSUME NEW t \in pool, Mine(t) \/ Evict(t) PROVE FeeInv'
  BY <1>3, MinedFee, SameFees DEF Evict, rows
<1>4. CASE UNCHANGED vars
  BY <1>4, SameFees DEF vars, node, rows
<1> QED
  BY <1>1, <1>2, <1>3, <1>4 DEF Next

\* As long as updates follow one another and each was answered without an error, the fee the
\* contract charges is the one that is saved, unless that one was saved without a treasury
\* address (revenue/handler.go:67-80): whatever relays, evictions, lost answers and
\* timeouts come between.
THEOREM FeesStayTogether == Spec => []FeesAgreeUnlessReported
<1>1. SenderInv /\ FeeInv => FeesAgreeUnlessReported
  <2> SUFFICES ASSUME SenderInv, FeeInv,
                      \A u \in Updates : pc[u] \in {"idle", "ok", "refused", "savedOnly"},
                      ~overlapped, dbFee \notin OnlySaved
               PROVE  ChainFee = dbFee
    BY DEF FeesAgreeUnlessReported
  <2>1. NoneFailed /\ \A u \in Updates : ~UnderWay(u)
    BY DEF NoneFailed, UnderWay, Ended
  <2> QED
    BY <2>1 DEF FeeInv, FeesFollow
<1>2. Init => FeeInv
  BY FeeInitInv
<1>3. SenderInv /\ FeeInv /\ [Next]_vars => FeeInv'
  BY FeeStepInv
<1> QED
  BY <1>1, <1>2, <1>3, SpecInv, PTL DEF Spec

-----------------------------------------------------------------------------
\* ChainSender implements ChainCall.

call == [c \in Callers |-> Told(c)]

effect == [c \in Callers |-> Effective(c)]

\* What the stages say of a call.
LEMMA ToldOf ==
    ASSUME NEW c
    PROVE  /\ pc[c] \in {"idle", "saved", "refused", "savedOnly"} => Told(c) = "idle"
           /\ pc[c] \in {"queued", "locked", "signed", "sent"} => Told(c) = "pending"
           /\ pc[c] \in {"forwarded", "ok"} => Told(c) = "ok"
           /\ pc[c] = "failed" => Told(c) = "failed"
  BY DEF Told, Waiting

LEMMA ToldOfNext ==
    ASSUME NEW c
    PROVE  /\ pc'[c] \in {"idle", "saved", "refused", "savedOnly"} => Told(c)' = "idle"
           /\ pc'[c] \in {"queued", "locked", "signed", "sent"} => Told(c)' = "pending"
           /\ pc'[c] \in {"forwarded", "ok"} => Told(c)' = "ok"
           /\ pc'[c] = "failed" => Told(c)' = "failed"
  BY DEF Told, Waiting

\* One caller moves, and no transaction is mined.
LEMMA OneIsTold ==
    ASSUME TypeOK, NEW c \in Callers, NEW stage \in Stages, pc' = [pc EXCEPT ![c] = stage],
           UNCHANGED <<mined, reverted>>
    PROVE  /\ call' = [call EXCEPT ![c] = Told(c)']
           /\ pc'[c] = stage
           /\ effect' = effect
<1>1. pc'[c] = stage /\ \A d \in Callers \ {c} : pc'[d] = pc[d]
  BY DEF TypeOK
<1>2. \A d \in Callers \ {c} : Told(d)' = Told(d)
  BY <1>1 DEF Told
<1>3. \A d \in Callers : Effective(d)' = Effective(d)
  BY NothingIsMined
<1> QED
  BY <1>1, <1>2, <1>3 DEF call, effect

LEMMA SameCalls ==
    ASSUME UNCHANGED <<pc, mined, reverted>>
    PROVE  call' = call /\ effect' = effect
<1>1. \A d \in Callers : (Told(d)' = Told(d)) /\ (Effective(d)' = Effective(d))
  BY NothingIsMined DEF Told
<1> QED
  BY <1>1 DEF call, effect

\* A caller moves without a word about its call.
LEMMA StaysTold ==
    ASSUME TypeOK, NEW c \in Callers, NEW stage \in Stages, pc' = [pc EXCEPT ![c] = stage],
           UNCHANGED <<mined, reverted>>, Told(c)' = Told(c)
    PROVE  call' = call /\ effect' = effect
  BY OneIsTold DEF call

LEMMA AbstractOf ==
    ASSUME NEW c \in Callers
    PROVE  /\ call[c] = Told(c) /\ effect[c] = Effective(c)
           /\ call[c] = "idle" /\ call' = [call EXCEPT ![c] = "pending"] /\ effect' = effect => Abstract!Begin(c)
           /\ call[c] = "pending" /\ call' = [call EXCEPT ![c] = "failed"] /\ effect' = effect => Abstract!Fail(c)
           /\ call[c] = "pending" /\ effect[c] /\ call' = [call EXCEPT ![c] = "ok"] /\ effect' = effect
                 => Abstract!Succeed(c)
           /\ call[c] \in {"pending", "failed"} /\ ~effect[c] /\ effect' = [effect EXCEPT ![c] = TRUE]
              /\ call' = call => Abstract!TakeEffect(c)
  BY DEF Abstract!Begin, Abstract!Fail, Abstract!Succeed, Abstract!TakeEffect, call, effect

\* Steps of a caller: the start of its call, the end of it, or nothing that ChainCall knows.
LEMMA CallerRefines ==
    ASSUME SenderInv, NEW c \in Callers, Step(c)
    PROVE  Abstract!Begin(c) \/ Abstract!Succeed(c) \/ Abstract!Fail(c) \/ (call' = call /\ effect' = effect)
<1>1. TypeOK /\ call[c] = Told(c) /\ effect[c] = Effective(c)
  BY AbstractOf DEF SenderInv
<1>2. CASE Lock(c) \/ ReadNonce(c) \/ Submit(c)
  <2>1. PICK stage \in {"locked", "signed", "sent"} :
            pc' = [pc EXCEPT ![c] = stage] /\ UNCHANGED <<mined, reverted>> /\ pc[c] \in {"queued", "locked", "signed"}
    BY <1>2 DEF Lock, ReadNonce, Submit, Accepted, To, node
  <2>2. stage \in Stages
    BY DEF Stages, Waiting
  <2>3. pc'[c] = stage
    BY <1>1, <2>1, <2>2, OneIsTold
  <2>4. Told(c)' = Told(c)
    BY <2>1, <2>3, ToldOf, ToldOfNext
  <2> QED
    BY <1>1, <2>1, <2>2, <2>4, StaysTold
<1>3. CASE SubmitUnheard(c) \/ CallFails(c) \/ WaitMined(c) \/ GiveUp(c)
  <2>1. PICK stage \in {"failed", "forwarded", "ok"} :
            /\ Return(c, stage) /\ UNCHANGED <<mined, reverted>>
            /\ stage # "failed" => Effective(c)
    BY <1>3 DEF SubmitUnheard, CallFails, WaitMined, GiveUp, Accepted, Success, node
  <2>2. stage \in Stages
    BY DEF Stages, Ended
  <2>3. pc' = [pc EXCEPT ![c] = stage]
    BY <2>1 DEF Return, To
  <2>4. pc'[c] = stage /\ call' = [call EXCEPT ![c] = Told(c)'] /\ effect' = effect
    BY <1>1, <2>1, <2>2, <2>3, OneIsTold
  <2>5. call[c] = "pending"
    BY <1>1, <1>3, ToldOf DEF SubmitUnheard, CallFails, WaitMined, GiveUp
  <2>6. IF stage = "failed" THEN Told(c)' = "failed" ELSE Told(c)' = "ok"
    BY <2>4, ToldOfNext
  <2> QED
    BY <1>1, <2>1, <2>4, <2>5, <2>6, AbstractOf
<1>4. CASE (c \in Relays /\ Execute(c)) \/ (c \in Updates /\ UpdateFees(c))
  <2>1. PICK stage \in {"refused", "queued", "ok", "saved", "savedOnly"} :
            /\ pc' = [pc EXCEPT ![c] = stage] /\ UNCHANGED <<mined, reverted>>
            /\ IF stage = "ok" THEN pc[c] = "forwarded" ELSE pc[c] \in {"idle", "saved"}
    BY <1>4 DEF Execute, CheckNonce, CheckFails, RecordGas, UpdateFees, UpsertFee, UpsertFails,
       SetTransferFee, To, node
  <2>2. stage \in Stages
    BY DEF Stages, Ended
  <2>3. pc'[c] = stage /\ call' = [call EXCEPT ![c] = Told(c)'] /\ effect' = effect
    BY <1>1, <2>1, <2>2, OneIsTold
  <2>4. CASE stage = "queued"
    BY <1>1, <2>1, <2>3, <2>4, ToldOf, ToldOfNext, AbstractOf
  <2>5. CASE stage # "queued"
    <3>1. Told(c)' = Told(c)
      BY <2>1, <2>3, <2>5, ToldOf, ToldOfNext
    <3> QED
      BY <1>1, <2>1, <2>2, <3>1, StaysTold
  <2> QED
    BY <2>4, <2>5
<1> QED
  BY <1>2, <1>3, <1>4 DEF Step, SendTransaction

\* A transaction that is mined takes effect, the first time for its caller, or reverts.
LEMMA MineRefines ==
    ASSUME SenderInv, NEW t \in pool, Mine(t)
    PROVE  Abstract!TakeEffect(t.by) \/ (call' = call /\ effect' = effect)
<1> DEFINE c == t.by
<1>1. /\ TypeOK /\ c \in Callers /\ pc' = pc
      /\ mined' = Append(mined, c) /\ reverted' \in {reverted, reverted \cup {c}}
  BY DEF SenderInv, TypeOK, Transaction, Mine
<1>2. pc[c] \in {"sent", "failed"} /\ ~IsMined(c)
  BY DEF SenderInv, OneTransactionEach
<1> HIDE DEF c
<1>3. /\ \A d \in Callers \ {c} : Effective(d)' = Effective(d)
      /\ Effective(c) => IsMined(c)
  BY <1>1, EffectStays DEF TypeOK, Effective
<1>4. call' = call
  BY <1>1 DEF call, Told
<1>5. call[c] \in {"pending", "failed"} /\ ~effect[c]
  BY <1>1, <1>2, <1>3, AbstractOf, ToldOf
<1>6. effect' = effect \/ effect' = [effect EXCEPT ![c] = TRUE]
  <2>1. effect' = [effect EXCEPT ![c] = Effective(c)']
    BY <1>1, <1>3 DEF effect
  <2>2. CASE Effective(c)'
    <3>1. Effective(c)' = TRUE
      BY <2>2 DEF Effective
    <3> QED
      BY <2>1, <3>1
  <2>3. CASE ~Effective(c)'
    <3>1. Effective(c)' = FALSE /\ Effective(c) = FALSE
      BY <1>2, <1>3, <2>3 DEF Effective
    <3> QED
      BY <2>1, <3>1 DEF effect
  <2> QED
    BY <2>2, <2>3
<1>7. Abstract!TakeEffect(c) \/ (call' = call /\ effect' = effect)
  BY <1>1, <1>4, <1>5, <1>6, AbstractOf
<1> QED
  BY <1>7 DEF c

\* ChainSender keeps what ChainCall promises to the packages that call the chain: a call is
\* answered once, "ok" only of a transaction that took effect, and each takes effect once.
THEOREM SenderImplementsChainCall == Spec => ImplementsChainCall
<1>1. Init => Abstract!Init
  <2> SUFFICES ASSUME Init PROVE Abstract!Init
    OBVIOUS
  <2>1. \A c \in Callers : pc[c] = "idle" /\ ~Effective(c)
    BY DEF Init, Effective, IsMined
  <2>2. \A c \in Callers : Told(c) = "idle" /\ Effective(c) = FALSE
    BY <2>1, ToldOf DEF Effective
  <2> QED
    BY <2>2 DEF Abstract!Init
<1>2. SenderInv /\ [Next]_vars => [Abstract!Next]_<<call, effect>>
  <2> SUFFICES ASSUME SenderInv, [Next]_vars PROVE Abstract!Next \/ (call' = call /\ effect' = effect)
    OBVIOUS
  <2>1. ASSUME NEW c \in Callers, Step(c) PROVE Abstract!Next \/ (call' = call /\ effect' = effect)
    BY <2>1, CallerRefines DEF Abstract!Next
  <2>2. ASSUME NEW t \in pool, Mine(t) PROVE Abstract!Next \/ (call' = call /\ effect' = effect)
    <3>1. t.by \in Callers
      BY DEF SenderInv, TypeOK, Transaction
    <3> QED
      BY <2>2, <3>1, MineRefines DEF Abstract!Next
  <2>3. ASSUME UNCHANGED <<pc, mined, reverted>> PROVE call' = call /\ effect' = effect
    BY <2>3, SameCalls
  <2>4. CASE (\E c \in Callers : Expire(c)) \/ (\E t \in pool : Evict(t)) \/ UNCHANGED vars
    BY <2>3, <2>4 DEF Expire, Evict, vars, node
  <2> QED
    BY <2>1, <2>2, <2>4 DEF Next
<1> QED
  BY <1>1, <1>2, SpecInv, PTL DEF Spec, ImplementsChainCall, Abstract!Spec, call, effect
=============================================================================
