--------------------------- MODULE DistLockProofs ---------------------------
(***************************************************************************)
(* Proofs about DistLock for every set of nodes and tokens, every lease    *)
(* duration and drift, any number of late requests and restarts.           *)
(***************************************************************************)
EXTENDS DistLock, FiniteSetTheorems, TLAPS

(***************************************************************************)
(* Type correctness.                                                       *)
(***************************************************************************)

LEMMA ValidityNat == Validity \in Nat
BY DriftAssumption DEF Validity

LEMMA TypeInit == Init => TypeOK
BY DEF Init, TypeOK, CallState, PC

\* A node that executes a request stores the requester's lease where there is
\* none, an expired one or its own, deletes an expired lease or on release the
\* requester's own, or does nothing.
LEMMA ExecuteEffect ==
    ASSUME NEW kind, NEW n, NEW t, NEW ok, Execute(kind, n, t, ok)
    PROVE  \/ StoreLease(n, t) /\ (owner[n] = NoToken \/ owner[n] = t \/ MayBeExpired(n))
           \/ DeleteLease(n) /\ (MayBeExpired(n) \/ (kind = "release" /\ owner[n] = t))
           \/ UNCHANGED storeVars
BY Zenon DEF Execute, StoreAcquire, StoreRenew, StoreRelease

LEMMA ExecuteType ==
    ASSUME TypeOK, NEW kind, NEW n \in Node, NEW t \in Token, NEW ok,
           Execute(kind, n, t, ok)
    PROVE  /\ owner' \in [Node -> Token \cup {NoToken}]
           /\ expiresAt' \in [Node -> Nat]
<1> USE DriftAssumption DEF TypeOK
<1>1. CASE StoreLease(n, t)
  BY <1>1 DEF StoreLease
<1>2. CASE DeleteLease(n)
  BY <1>2 DEF DeleteLease
<1>3. CASE UNCHANGED storeVars
  BY SMTT(30), <1>3 DEF storeVars
<1> QED
  BY <1>1, <1>2, <1>3, ExecuteEffect

LEMMA LeaseStepType ==
    ASSUME TypeOK, NEW t \in Token,
           \/ AcquireStep(t) \/ AcquireCoordinatorStep(t)
           \/ RunRenewStep(t) \/ RenewCoordinatorStep(t) \/ ReleaseStep(t)
    PROVE  TypeOK'
<1> USE ValidityNat, NodeAssumption DEF TypeOK, Kind, CallState, PC
<1>1. CASE NewLease(t)
  BY <1>1 DEF NewLease
<1>2. CASE AcquireSucceeds(t)
  BY <1>2 DEF AcquireSucceeds
<1>3. CASE FailAcquire(t)
  BY <1>3 DEF FailAcquire, Cancel, ForgetValidity
<1>4. CASE AcquireLock(t)
  BY <1>4 DEF AcquireLock, ExecuteNodes
<1>5. CASE AcquireReport(t)
  BY <1>5 DEF AcquireReport
<1>6. CASE AcquireUnlock(t)
  BY <1>6 DEF AcquireUnlock, ForgetCalls
<1>7. CASE RenewLoop(t)
  <2>0. now >= validUntil[t] <=> ~(now < validUntil[t])
    OBVIOUS
  <2>1. CASE now >= validUntil[t]
    <3>1. Lose(t) /\ UNCHANGED wakeAt
      BY <1>7, <2>0, <2>1, Zenon DEF RenewLoop
    <3> QED
      BY <1>7, <3>1 DEF RenewLoop, Lose, Cancel, ForgetValidity
  <2>2. CASE now < validUntil[t]
    <3> DEFINE third == (validUntil[t] - now) \div 3
    <3>1. now < validUntil[t] /\ wakeAt' = [wakeAt EXCEPT ![t] = now + third]
      BY <1>7, <2>0, <2>2, Zenon DEF RenewLoop
    <3>2. third \in Nat
      BY <3>1
    <3>3. /\ pc' = [pc EXCEPT ![t] = "timer"]
          /\ UNCHANGED <<now, owner, expiresAt, late, lostOn, nodes, ctx, mu, call,
                         acq, ren, user, validUntil, startedAt>>
      BY <1>7, <2>0, <2>2, Zenon DEF RenewLoop
    <3> HIDE DEF third
    <3> QED
      BY <3>1, <3>2, <3>3
  <2> QED
    BY <2>0, <2>1, <2>2
<1>8. CASE RenewTimer(t)
  BY <1>8 DEF RenewTimer
<1>9. CASE RenewCancelled(t)
  BY <1>9 DEF RenewCancelled, ForgetValidity
<1>10. CASE RenewResult(t)
  BY <1>10 DEF RenewResult
<1>11. CASE RenewErr(t)
  <2>1. CASE Lose(t)
    BY <1>11, <2>1 DEF RenewErr, Lose, Cancel, ForgetValidity
  <2>2. CASE ~Lose(t)
    <3>1. /\ pc' = [pc EXCEPT ![t] = "done"]
          /\ validUntil' = [validUntil EXCEPT ![t] = 0]
          /\ UNCHANGED <<now, owner, expiresAt, late, lostOn, nodes, ctx, mu, call,
                         acq, ren, user, startedAt, wakeAt>>
      BY <1>11, <2>2, Zenon DEF RenewErr, ForgetValidity
    <3> QED
      BY <3>1
  <2> QED
    BY <2>1, <2>2
<1>12. CASE RenewTooLate(t)
  BY <1>12 DEF RenewTooLate
<1>13. CASE RenewAttempt(t)
  BY <1>13 DEF RenewAttempt, ExecuteNodes
<1>14. CASE RenewBackOff(t)
  BY <1>14 DEF RenewBackOff, ForgetCalls
<1>15. CASE RenewSucceeds(t)
  BY <1>15 DEF RenewSucceeds, RenewUnlock, ForgetCalls
<1>16. CASE RenewExpires(t)
  BY <1>16 DEF RenewExpires, RenewUnlock, ForgetCalls
<1>17. CASE RenewStops(t)
  BY <1>17 DEF RenewStops, RenewUnlock, ForgetCalls
<1>18. CASE CleanupLock(t)
  BY <1>18 DEF CleanupLock, ExecuteNodes
<1>19. CASE ReleaseUnlock(t)
  BY <1>19 DEF ReleaseUnlock, ForgetCalls
<1>20. CASE Release(t)
  BY <1>20 DEF Release, Cancel
<1>21. CASE ReleaseGivesUp(t)
  BY <1>21 DEF ReleaseGivesUp
<1>22. CASE ReleaseLock(t)
  BY <1>22 DEF ReleaseLock, ExecuteNodes
<1> QED
  BY ZenonT(30), <1>1, <1>2, <1>3, <1>4, <1>5, <1>6, <1>7, <1>8, <1>9, <1>10, <1>11, <1>12,
     <1>13, <1>14, <1>15, <1>16, <1>17, <1>18, <1>19, <1>20, <1>21, <1>22
     DEF AcquireStep, AcquireCoordinatorStep, RunRenewStep, RenewCoordinatorStep,
         ReleaseStep, AcquireErr, AcquireCtxDone

LEMMA TypeNext == IInv /\ [Next]_vars => TypeOK'
<1> SUFFICES ASSUME IInv, [Next]_vars PROVE TypeOK'
  OBVIOUS
<1>0. TypeOK
  BY DEF IInv
<1>1. CASE Tick
  BY <1>0, <1>1 DEF Tick, TypeOK, leaseVars
<1>2. ASSUME NEW t \in Token,
             \/ AcquireStep(t) \/ AcquireCoordinatorStep(t)
             \/ RunRenewStep(t) \/ RenewCoordinatorStep(t) \/ ReleaseStep(t)
      PROVE  TypeOK'
  BY <1>0, <1>2, LeaseStepType
<1>3. ASSUME NEW t \in Token, NEW n \in Node, CallServed(t, n)
      PROVE  TypeOK'
  <2>1. PICK ok \in BOOLEAN, seen \in {"ok", "idle"} :
            Execute(mu[t], n, t, ok) /\ call' = [call EXCEPT ![t][n] = seen]
    BY Zenon, <1>3 DEF CallServed
  <2>2. owner' \in [Node -> Token \cup {NoToken}] /\ expiresAt' \in [Node -> Nat]
    BY <1>0, <2>1, ExecuteType
  <2> QED
    BY <1>0, <1>3, <2>1, <2>2 DEF CallServed, TypeOK, CallState
<1>4. ASSUME NEW t \in Token, NEW n \in Node, CallFails(t, n)
      PROVE  TypeOK'
  <2>1. mu[t] \in Kind
    BY <1>4 DEF CallFails, IInv, TypeOK, MuInv
  <2> QED
    BY <1>0, <1>4, <2>1 DEF CallFails, TypeOK, CallState, Request, Kind
<1>5. ASSUME NEW r \in late, LateServed(r)
      PROVE  TypeOK'
  <2>1. r.token \in Token /\ r.node \in Node
    BY <1>0 DEF TypeOK, Request
  <2>2. owner' \in [Node -> Token \cup {NoToken}] /\ expiresAt' \in [Node -> Nat]
    BY Zenon, <1>0, <1>5, <2>1, ExecuteType DEF LateServed
  <2> QED
    BY <1>0, <1>5, <2>2 DEF LateServed, leaseVars, TypeOK
<1>6. ASSUME NEW n \in Node, Restart(n)
      PROVE  TypeOK'
  BY <1>0, <1>6 DEF Restart, DeleteLease, leaseVars, TypeOK
<1>7. CASE UNCHANGED vars
  BY <1>0, <1>7 DEF vars, TypeOK
<1> QED
  BY <1>1, <1>2, <1>3, <1>4, <1>5, <1>6, <1>7 DEF Next

(***************************************************************************)
(* The inductive invariant.                                                *)
(***************************************************************************)

LEMMA IInvInit == Init => IInv
<1> SUFFICES ASSUME Init PROVE IInv
  OBVIOUS
<1> USE ValidityNat DEF Init
<1>1. TypeOK
  BY TypeInit
<1>2. LateInv
  BY DEF LateInv
<1>3. ASSUME NEW t \in Token
      PROVE  MuInv(t) /\ PcInv(t) /\ TimeInv(t) /\ GrantInv(t)
  BY DEF MuInv, PcInv, TimeInv, GrantInv, HeldPC
<1>4. \A n \in Node : expiresAt[n] <= now + LeaseDuration
  BY DriftAssumption
<1> QED
  BY <1>1, <1>2, <1>3, <1>4 DEF IInv

\* The conjuncts about token u survive a step that leaves u and the nodes alone.
LEMMA OtherToken ==
    ASSUME IInv, NEW u \in Token,
           UNCHANGED <<now, owner, expiresAt, lostOn>>,
           nodes'[u] = nodes[u], ctx'[u] = ctx[u], mu'[u] = mu[u], call'[u] = call[u],
           pc'[u] = pc[u], acq'[u] = acq[u], ren'[u] = ren[u],
           validUntil'[u] = validUntil[u], startedAt'[u] = startedAt[u]
    PROVE  MuInv(u)' /\ PcInv(u)' /\ TimeInv(u)' /\ GrantInv(u)'
<1>1. MuInv(u) /\ PcInv(u) /\ TimeInv(u) /\ GrantInv(u)
  BY DEF IInv
<1>2. MuInv(u)'
  BY <1>1 DEF MuInv
<1>3. PcInv(u)'
  BY <1>1 DEF PcInv
<1>4. TimeInv(u)'
  BY <1>1 DEF TimeInv
<1>5. \A n, v : Backed(u, n, v)' <=> Backed(u, n, v)
  BY DEF Backed
<1>6. \A v : QuorumBacked(u, v)' <=> QuorumBacked(u, v)
  BY <1>5 DEF QuorumBacked
<1>7. GrantInv(u)'
  BY SMTT(30), <1>1, <1>5, <1>6 DEF GrantInv
<1> QED
  BY <1>2, <1>3, <1>4, <1>7

\* The conjuncts about token t survive every step of the goroutines of t.
LEMMA OwnToken ==
    ASSUME IInv, NEW t \in Token,
           \/ AcquireStep(t) \/ AcquireCoordinatorStep(t)
           \/ RunRenewStep(t) \/ RenewCoordinatorStep(t) \/ ReleaseStep(t)
    PROVE  MuInv(t)' /\ PcInv(t)' /\ TimeInv(t)' /\ GrantInv(t)'
<1> DEFINE Goal == MuInv(t)' /\ PcInv(t)' /\ TimeInv(t)' /\ GrantInv(t)'
<1>0. TypeOK /\ MuInv(t) /\ PcInv(t) /\ TimeInv(t) /\ GrantInv(t)
  BY DEF IInv
<1> USE <1>0, ValidityNat DEF TypeOK, HeldPC
<1>1. CASE NewLease(t)
  <2>1. MuInv(t)'
    BY <1>1 DEF NewLease, MuInv, PcInv, Kind
  <2>2. PcInv(t)'
    BY <1>1 DEF NewLease, PcInv, MuInv
  <2>3. TimeInv(t)'
    BY <1>1 DEF NewLease, TimeInv, PcInv, MuInv
  <2>4. GrantInv(t)'
    BY <1>1 DEF NewLease, GrantInv, QuorumBacked, Backed, MuInv, PcInv, TimeInv
  <2> QED
    BY <2>1, <2>2, <2>3, <2>4
<1>2. CASE AcquireSucceeds(t)
  BY Zenon, <1>2 DEF AcquireSucceeds,
      MuInv, PcInv, TimeInv, GrantInv, QuorumBacked, Backed
<1>3. CASE FailAcquire(t)
  <2>1. MuInv(t)'
    BY <1>3 DEF FailAcquire, Cancel, ForgetValidity, MuInv, PcInv
  <2>2. PcInv(t)'
    BY <1>3 DEF FailAcquire, Cancel, ForgetValidity, PcInv, MuInv
  <2>3. TimeInv(t)'
    BY <1>3 DEF FailAcquire, Cancel, ForgetValidity, TimeInv
  <2>4. GrantInv(t)'
    <3>1. ctx'[t] # "active"
      BY <1>3 DEF FailAcquire, Cancel
    <3> QED
      BY Zenon, <3>1 DEF GrantInv
  <2> QED
    BY <2>1, <2>2, <2>3, <2>4
<1>4. CASE AcquireLock(t)
  BY <1>4 DEF AcquireLock, ExecuteNodes,
      MuInv, PcInv, TimeInv, GrantInv, QuorumBacked, Backed
<1>5. CASE AcquireReport(t)
  <2>1. MuInv(t)'
    BY <1>5 DEF AcquireReport, MuInv
  <2>2. PcInv(t)'
    BY <1>5 DEF AcquireReport, PcInv, MuInv
  <2>3. TimeInv(t)'
    BY <1>5 DEF AcquireReport, TimeInv
  <2>4. GrantInv(t)'
    <3>1. Successes(t) \in SUBSET nodes[t]
      BY DEF Successes, MuInv
    <3>2. ctx[t] = "active" => \A n \in Successes(t) : Backed(t, n, validUntil[t])
      BY <1>5 DEF AcquireReport, Successes, GrantInv
    <3>3. ctx[t] = "active" => QuorumBacked(t, validUntil[t])
      BY <1>5, <3>1, <3>2 DEF AcquireReport, Quorate, QuorumBacked
    <3> QED
      BY Zenon, <1>5, <3>3 DEF AcquireReport, GrantInv, QuorumBacked, Backed, MuInv
  <2> QED
    BY <2>1, <2>2, <2>3, <2>4
<1>6. CASE AcquireUnlock(t)
  <2>1. MuInv(t)'
    BY <1>6 DEF AcquireUnlock, ForgetCalls, MuInv
  <2>2. PcInv(t)'
    BY <1>6 DEF AcquireUnlock, ForgetCalls, PcInv, MuInv
  <2>3. TimeInv(t)'
    BY <1>6 DEF AcquireUnlock, ForgetCalls, TimeInv, PcInv, MuInv
  <2>4. GrantInv(t)'
    <3>1. CASE acq[t] = "drain"
      BY ZenonT(30), <1>6, <3>1 DEF AcquireUnlock, GrantInv, QuorumBacked, Backed, MuInv
    <3>2. CASE acq[t] = "run"
      BY Zenon, <1>6, <3>2 DEF AcquireUnlock, GrantInv, MuInv, PcInv
    <3> QED
      BY SMTT(30), <1>6, <3>1, <3>2 DEF AcquireUnlock
  <2> QED
    BY <2>1, <2>2, <2>3, <2>4
<1>7. CASE RenewLoop(t)
  <2>1. MuInv(t)'
    BY <1>7 DEF RenewLoop, Lose, Cancel, ForgetValidity, MuInv
  <2>2. PcInv(t)'
    BY <1>7 DEF RenewLoop, Lose, Cancel, ForgetValidity, PcInv, MuInv
  <2>3. TimeInv(t)'
    BY <1>7 DEF RenewLoop, Lose, Cancel, ForgetValidity, TimeInv, PcInv, MuInv
  <2>4. GrantInv(t)'
    <3>1. UNCHANGED <<now, owner, expiresAt, lostOn, nodes, call, acq, ren, startedAt>>
      BY <1>7, Zenon DEF RenewLoop
    <3>2. Lose(t) \/ UNCHANGED <<ctx, validUntil>>
      BY <1>7, ZenonT(30) DEF RenewLoop
    <3>3. CASE Lose(t)
      BY ZenonT(30), <3>3 DEF Lose, Cancel, GrantInv
    <3>4. CASE UNCHANGED <<ctx, validUntil>>
      BY ZenonT(30), <3>1, <3>4 DEF GrantInv, QuorumBacked, Backed
    <3> QED
      BY <3>2, <3>3, <3>4
  <2> QED
    BY <2>1, <2>2, <2>3, <2>4
<1>8. CASE RenewTimer(t)
  <2>1. MuInv(t)'
    BY <1>8 DEF RenewTimer, MuInv, PcInv
  <2>2. PcInv(t)'
    BY <1>8 DEF RenewTimer, PcInv, MuInv
  <2>3. TimeInv(t)'
    BY <1>8 DEF RenewTimer, TimeInv, PcInv, MuInv
  <2>4. GrantInv(t)'
    BY ZenonT(30), <1>8 DEF RenewTimer, GrantInv, QuorumBacked, Backed, MuInv, PcInv, TimeInv
  <2> QED
    BY <2>1, <2>2, <2>3, <2>4
<1>9. CASE RenewCancelled(t)
  <2>1. MuInv(t)'
    BY <1>9 DEF RenewCancelled, ForgetValidity, MuInv, PcInv
  <2>2. PcInv(t)'
    BY <1>9 DEF RenewCancelled, ForgetValidity, PcInv, MuInv
  <2>3. TimeInv(t)'
    BY SMTT(30), <1>9 DEF RenewCancelled, ForgetValidity, TimeInv
  <2>4. GrantInv(t)'
    <3>1. ctx'[t] # "active"
      BY <1>9 DEF RenewCancelled
    <3> QED
      BY Zenon, <3>1 DEF GrantInv
  <2> QED
    BY <2>1, <2>2, <2>3, <2>4
<1>10. CASE RenewResult(t)
  <2>1. MuInv(t)'
    BY <1>10 DEF RenewResult, MuInv
  <2>2. PcInv(t)'
    BY <1>10 DEF RenewResult, PcInv, MuInv
  <2>3. TimeInv(t)'
    BY SMTT(30), <1>10 DEF RenewResult, TimeInv, PcInv, MuInv
  <2>4. GrantInv(t)'
    BY Zenon, <1>10 DEF RenewResult, GrantInv, QuorumBacked, Backed, MuInv, PcInv, TimeInv
  <2> QED
    BY <2>1, <2>2, <2>3, <2>4
<1>11. CASE RenewErr(t)
  <2>1. MuInv(t)'
    BY <1>11 DEF RenewErr, Lose, Cancel, ForgetValidity, MuInv, PcInv
  <2>2. PcInv(t)'
    BY <1>11 DEF RenewErr, Lose, Cancel, ForgetValidity, PcInv, MuInv
  <2>3. TimeInv(t)'
    BY SMTT(30), <1>11 DEF RenewErr, Lose, Cancel, ForgetValidity, TimeInv
  <2>4. GrantInv(t)'
    <3>1. ctx'[t] # "active"
      BY SMTT(30), <1>11 DEF RenewErr, Lose, Cancel
    <3> QED
      BY Zenon, <3>1 DEF GrantInv
  <2> QED
    BY <2>1, <2>2, <2>3, <2>4
<1>12. CASE RenewTooLate(t)
  BY ZenonT(30), <1>12 DEF RenewTooLate,
      MuInv, PcInv, TimeInv, GrantInv, QuorumBacked, Backed
<1>13. CASE RenewAttempt(t)
  <2>1. MuInv(t)'
    BY <1>13 DEF RenewAttempt, ExecuteNodes, CtxDone, MuInv
  <2>2. PcInv(t)'
    BY <1>13 DEF RenewAttempt, ExecuteNodes, CtxDone, PcInv, MuInv
  <2>3. TimeInv(t)'
    BY SMTT(30), <1>13 DEF RenewAttempt, ExecuteNodes, CtxDone, TimeInv, PcInv, MuInv
  <2>4. GrantInv(t)'
    BY ZenonT(30), <1>13 DEF RenewAttempt, ExecuteNodes, CtxDone, GrantInv, QuorumBacked, Backed, MuInv, PcInv, TimeInv
  <2> QED
    BY <2>1, <2>2, <2>3, <2>4
<1>14. CASE RenewBackOff(t)
  BY Zenon, <1>14 DEF RenewBackOff, ForgetCalls,
      MuInv, PcInv, TimeInv, GrantInv, QuorumBacked, Backed
<1>15. CASE RenewSucceeds(t)
  <2>1. MuInv(t)'
    BY <1>15 DEF RenewSucceeds, RenewUnlock, ForgetCalls, Quorate, Successes, MuInv
  <2>2. PcInv(t)'
    BY <1>15 DEF RenewSucceeds, RenewUnlock, ForgetCalls, Quorate, Successes, PcInv, MuInv
  <2>3. TimeInv(t)'
    BY SMTT(30), <1>15 DEF RenewSucceeds, RenewUnlock, ForgetCalls, Quorate, Successes, TimeInv, PcInv, MuInv
  <2>4. GrantInv(t)'
    <3>1. Successes(t) \in SUBSET nodes[t]
      BY DEF Successes, MuInv
    <3>2. ctx[t] = "active" =>
            \A n \in Successes(t) : Backed(t, n, startedAt[t] + Validity)
      BY <1>15 DEF RenewSucceeds, Successes, GrantInv
    <3>3. ctx[t] = "active" => QuorumBacked(t, startedAt[t] + Validity)
      BY <1>15, <3>1, <3>2 DEF RenewSucceeds, Quorate, QuorumBacked
    <3> QED
      BY Zenon, <1>15, <3>3 DEF RenewSucceeds, RenewUnlock, GrantInv, QuorumBacked, Backed, MuInv
  <2> QED
    BY <2>1, <2>2, <2>3, <2>4
<1>16. CASE RenewExpires(t)
  <2>1. MuInv(t)'
    BY SMTT(30), <1>16 DEF RenewExpires, RenewUnlock, ForgetCalls, MuInv
  <2>2. PcInv(t)'
    BY ZenonT(30), <1>16 DEF RenewExpires, RenewUnlock, PcInv, MuInv
  <2>3. TimeInv(t)'
    BY SMTT(30), <1>16 DEF RenewExpires, RenewUnlock, TimeInv
  <2>4. GrantInv(t)'
    <3>1. /\ ren'[t] = "err" /\ acq[t] # "run"
          /\ UNCHANGED <<now, owner, expiresAt, lostOn, nodes, ctx, acq, validUntil>>
      BY <1>16 DEF RenewExpires, RenewUnlock, MuInv
    <3> QED
      BY ZenonT(30), <3>1 DEF GrantInv, QuorumBacked, Backed
  <2> QED
    BY <2>1, <2>2, <2>3, <2>4
<1>17. CASE RenewStops(t)
  <2>1. MuInv(t)'
    BY <1>17 DEF RenewStops, RenewUnlock, ForgetCalls, MuInv, PcInv
  <2>2. PcInv(t)'
    BY <1>17 DEF RenewStops, RenewUnlock, ForgetCalls, PcInv, MuInv
  <2>3. TimeInv(t)'
    BY SMTT(30), <1>17 DEF RenewStops, RenewUnlock, ForgetCalls, TimeInv
  <2>4. GrantInv(t)'
    <3>1. /\ ren'[t] = "err" /\ acq[t] # "run"
          /\ UNCHANGED <<now, owner, expiresAt, lostOn, nodes, ctx, acq, validUntil>>
      BY SMTT(30), <1>17 DEF RenewStops, RenewUnlock, MuInv
    <3> QED
      BY ZenonT(30), <3>1 DEF GrantInv, QuorumBacked, Backed
  <2> QED
    BY <2>1, <2>2, <2>3, <2>4
<1>18. CASE CleanupLock(t)
  BY ZenonT(30), <1>18 DEF CleanupLock, ExecuteNodes,
      MuInv, PcInv, TimeInv, GrantInv, QuorumBacked, Backed
<1>19. CASE ReleaseUnlock(t)
  BY ZenonT(30), <1>19 DEF ReleaseUnlock, ForgetCalls,
      MuInv, PcInv, TimeInv, GrantInv, QuorumBacked, Backed
<1>20. CASE Release(t)
  BY ZenonT(30), <1>20 DEF Release, Cancel,
      MuInv, PcInv, TimeInv, GrantInv, QuorumBacked, Backed
<1>21. CASE ReleaseGivesUp(t)
  BY ZenonT(30), <1>21 DEF ReleaseGivesUp,
      MuInv, PcInv, TimeInv, GrantInv, QuorumBacked, Backed
<1>22. CASE ReleaseLock(t)
  BY ZenonT(30), <1>22 DEF ReleaseLock, ExecuteNodes,
      MuInv, PcInv, TimeInv, GrantInv, QuorumBacked, Backed
<1> QED
  BY ZenonT(30), <1>1, <1>2, <1>3, <1>4, <1>5, <1>6, <1>7, <1>8, <1>9, <1>10, <1>11, <1>12, <1>13, <1>14, <1>15, <1>16, <1>17, <1>18, <1>19, <1>20, <1>21, <1>22
     DEF AcquireStep, AcquireCoordinatorStep, RunRenewStep, RenewCoordinatorStep,
         ReleaseStep, AcquireErr, AcquireCtxDone

\* Backed in the next state, for a deadline v that does not change.
BackedNext(t, n, v) ==
    \/ n \in lostOn'[t]
    \/ now' >= v
    \/ owner'[n] = t /\ v + ClockDrift <= expiresAt'[n]

\* What a node executes for token t keeps every entry that backs a lease, except
\* that a release may remove an entry of t itself.
LEMMA ExecuteKeepsBacked ==
    ASSUME TypeOK, NEW kind, NEW m \in Node, NEW t \in Token, NEW ok,
           Execute(kind, m, t, ok), UNCHANGED <<now, lostOn>>,
           NEW u \in Token, NEW n \in Node, NEW v \in Int,
           v <= now + Validity, Backed(u, n, v), kind = "release" => t # u
    PROVE  BackedNext(u, n, v)
<1> USE DriftAssumption DEF TypeOK, Validity, Backed, BackedNext
<1>1. CASE StoreLease(m, t) /\ (owner[m] = NoToken \/ owner[m] = t \/ MayBeExpired(m))
  BY <1>1, NoTokenAssumption DEF StoreLease, MayBeExpired
<1>2. CASE DeleteLease(m) /\ (MayBeExpired(m) \/ (kind = "release" /\ owner[m] = t))
  BY <1>2 DEF DeleteLease, MayBeExpired
<1>3. CASE UNCHANGED storeVars
  BY <1>3 DEF storeVars
<1> QED
  BY ZenonT(30), <1>1, <1>2, <1>3, ExecuteEffect

\* No deadline lies more than one validity period ahead.
LEMMA TimeBounds ==
    ASSUME TypeOK, NEW u \in Token, TimeInv(u)
    PROVE  /\ validUntil[u] \in Int /\ validUntil[u] <= now + Validity
           /\ startedAt[u] + Validity \in Int
           /\ startedAt[u] + Validity <= now + Validity
           /\ now + Validity \in Int
<1>1. now \in Nat /\ validUntil[u] \in Nat /\ startedAt[u] \in Nat
  BY DEF TypeOK
<1>2. validUntil[u] <= now + Validity /\ startedAt[u] <= now
  BY DEF TimeInv
<1> QED
  BY <1>1, <1>2, ValidityNat

\* The conjuncts about token u survive a step of the nodes or of the clock that
\* keeps the entries backing u and whose new successes are backed.
LEMMA NodeStep ==
    ASSUME IInv, TypeOK', now' >= now, NEW u \in Token,
           UNCHANGED <<nodes, ctx, mu, pc, acq, ren, user, validUntil, startedAt>>,
           ctx[u] = "active" =>
               \A n \in Node, v \in Int :
                   v <= now + Validity /\ Backed(u, n, v) => BackedNext(u, n, v),
           \A n \in Node : call'[u][n] # "idle" => call[u][n] # "idle",
           ctx[u] = "active" =>
               \A n \in Node : call'[u][n] = "ok" =>
                   call[u][n] = "ok" \/ BackedNext(u, n, now + Validity)
    PROVE  MuInv(u)' /\ PcInv(u)' /\ TimeInv(u)' /\ GrantInv(u)'
<1> DEFINE renewedUntil == startedAt[u] + Validity
<1>1. TypeOK /\ MuInv(u) /\ PcInv(u) /\ TimeInv(u) /\ GrantInv(u)
  BY DEF IInv
<1>2. MuInv(u)'
  BY ZenonT(30), <1>1 DEF MuInv
<1>3. PcInv(u)'
  BY ZenonT(30), <1>1 DEF PcInv
<1>4. TimeInv(u)'
  BY SMTT(30), <1>1, ValidityNat DEF TimeInv, TypeOK
<1>5. GrantInv(u)'
  <2> SUFFICES ASSUME ctx[u] = "active" PROVE GrantInv(u)'
    BY ZenonT(30) DEF GrantInv
  <2>1. /\ validUntil[u] \in Int /\ validUntil[u] <= now + Validity
        /\ renewedUntil \in Int /\ renewedUntil <= now + Validity
        /\ now + Validity \in Int
    BY ZenonT(30), <1>1, TimeBounds
  <2>2. ASSUME NEW n \in Node, NEW v \in Int, v <= now + Validity,
               call[u][n] = "ok" => Backed(u, n, v), call'[u][n] = "ok"
        PROVE  BackedNext(u, n, v)
    <3>1. CASE call[u][n] = "ok"
      BY <2>2, <3>1
    <3>2. CASE call[u][n] # "ok"
      <4>1. BackedNext(u, n, now + Validity)
        BY SMTT(30), <2>2, <3>2
      <4>2. now' \in Nat /\ expiresAt'[n] \in Nat
        BY ZenonT(30) DEF TypeOK
      <4> QED
        BY SMTT(30), <2>1, <2>2, <4>1, <4>2, DriftAssumption DEF BackedNext
    <3> QED
      BY ZenonT(30), <3>1, <3>2
  <2>3. ASSUME NEW v \in Int, v <= now + Validity, QuorumBacked(u, v)
        PROVE  \E Q \in SUBSET nodes[u] :
                   IsQuorum(Q, nodes[u]) /\ \A n \in Q : BackedNext(u, n, v)
    BY Zenon, <1>1, <2>3 DEF QuorumBacked, TypeOK
  <2>4. acq[u] = "run" =>
          \A n \in Node : call'[u][n] = "ok" => BackedNext(u, n, validUntil[u])
    BY ZenonT(30), <1>1, <2>1, <2>2 DEF GrantInv
  <2>5. ren[u] = "run" =>
          \A n \in Node : call'[u][n] = "ok" => BackedNext(u, n, renewedUntil)
    BY ZenonT(30), <1>1, <2>1, <2>2 DEF GrantInv
  <2>6. acq[u] \in {"drain", "ok"} =>
          \E Q \in SUBSET nodes[u] :
              IsQuorum(Q, nodes[u]) /\ \A n \in Q : BackedNext(u, n, validUntil[u])
    BY ZenonT(30), <1>1, <2>1, <2>3 DEF GrantInv
  <2>7. ren[u] = "ok" =>
          \E Q \in SUBSET nodes[u] :
              IsQuorum(Q, nodes[u]) /\ \A n \in Q : BackedNext(u, n, renewedUntil)
    BY ZenonT(30), <1>1, <2>1, <2>3 DEF GrantInv
  <2> QED
    BY ZenonT(30), <2>4, <2>5, <2>6, <2>7 DEF GrantInv, QuorumBacked, Backed, BackedNext
<1> QED
  BY Zenon, <1>2, <1>3, <1>4, <1>5

\* The goroutines of t touch neither the nodes nor another lease.
LEMMA LeaseStepFrame ==
    ASSUME TypeOK, NEW t \in Token,
           \/ AcquireStep(t) \/ AcquireCoordinatorStep(t)
           \/ RunRenewStep(t) \/ RenewCoordinatorStep(t) \/ ReleaseStep(t)
    PROVE  /\ UNCHANGED <<now, owner, expiresAt, late, lostOn>>
           /\ \A u \in Token \ {t} :
                /\ nodes'[u] = nodes[u] /\ ctx'[u] = ctx[u] /\ mu'[u] = mu[u]
                /\ call'[u] = call[u] /\ pc'[u] = pc[u] /\ acq'[u] = acq[u]
                /\ ren'[u] = ren[u] /\ validUntil'[u] = validUntil[u]
                /\ startedAt'[u] = startedAt[u]
           /\ ctx[t] # "active" => ctx'[t] = ctx[t]
<1> USE DEF TypeOK
<1>1. CASE NewLease(t)
  BY <1>1 DEF NewLease
<1>2. CASE AcquireSucceeds(t)
  BY <1>2 DEF AcquireSucceeds
<1>3. CASE FailAcquire(t)
  BY <1>3 DEF FailAcquire, Cancel, ForgetValidity
<1>4. CASE AcquireLock(t)
  BY <1>4 DEF AcquireLock, ExecuteNodes
<1>5. CASE AcquireReport(t)
  BY <1>5 DEF AcquireReport
<1>6. CASE AcquireUnlock(t)
  BY SMTT(30), <1>6 DEF AcquireUnlock, ForgetCalls
<1>7. CASE RenewLoop(t)
  <2>1. /\ pc' \in {[pc EXCEPT ![t] = "timer"], [pc EXCEPT ![t] = "lost"]}
        /\ Lose(t) \/ UNCHANGED <<ctx, validUntil>>
        /\ UNCHANGED <<now, owner, expiresAt, late, lostOn, nodes, mu, call, acq, ren,
                       startedAt>>
    BY <1>7, Zenon DEF RenewLoop, Lose
  <2> QED
    BY ZenonT(30), <2>1 DEF Lose, Cancel, ForgetValidity
<1>8. CASE RenewTimer(t)
  BY <1>8 DEF RenewTimer
<1>9. CASE RenewCancelled(t)
  BY <1>9 DEF RenewCancelled, ForgetValidity
<1>10. CASE RenewResult(t)
  BY SMTT(30), <1>10 DEF RenewResult
<1>11. CASE RenewErr(t)
  <2>1. CASE Lose(t)
    BY <1>11, <2>1 DEF RenewErr, Lose, Cancel, ForgetValidity
  <2>2. CASE ~Lose(t)
    BY <1>11, <2>2 DEF RenewErr, ForgetValidity
  <2> QED
    BY ZenonT(30), <2>1, <2>2
<1>12. CASE RenewTooLate(t)
  BY <1>12 DEF RenewTooLate
<1>13. CASE RenewAttempt(t)
  BY <1>13 DEF RenewAttempt, ExecuteNodes
<1>14. CASE RenewBackOff(t)
  BY <1>14 DEF RenewBackOff, ForgetCalls
<1>15. CASE RenewSucceeds(t)
  BY <1>15 DEF RenewSucceeds, RenewUnlock, ForgetCalls
<1>16. CASE RenewExpires(t)
  BY <1>16 DEF RenewExpires, RenewUnlock, ForgetCalls
<1>17. CASE RenewStops(t)
  BY <1>17 DEF RenewStops, RenewUnlock, ForgetCalls
<1>18. CASE CleanupLock(t)
  BY <1>18 DEF CleanupLock, ExecuteNodes
<1>19. CASE ReleaseUnlock(t)
  BY <1>19 DEF ReleaseUnlock, ForgetCalls
<1>20. CASE Release(t)
  BY <1>20 DEF Release, Cancel
<1>21. CASE ReleaseGivesUp(t)
  BY <1>21 DEF ReleaseGivesUp
<1>22. CASE ReleaseLock(t)
  BY <1>22 DEF ReleaseLock, ExecuteNodes
<1> QED
  BY ZenonT(30), <1>1, <1>2, <1>3, <1>4, <1>5, <1>6, <1>7, <1>8, <1>9, <1>10, <1>11, <1>12,
     <1>13, <1>14, <1>15, <1>16, <1>17, <1>18, <1>19, <1>20, <1>21, <1>22
     DEF AcquireStep, AcquireCoordinatorStep, RunRenewStep, RenewCoordinatorStep,
         ReleaseStep, AcquireErr, AcquireCtxDone

LEMMA ExecuteOk ==
    ASSUME NEW kind, NEW n, NEW t, Execute(kind, n, t, TRUE), kind # "release"
    PROVE  StoreLease(n, t)
BY Zenon DEF Execute, StoreAcquire, StoreRenew

LEMMA ExpiryNext ==
    IInv /\ [Next]_vars => \A n \in Node : expiresAt'[n] <= now' + LeaseDuration
<1> SUFFICES ASSUME IInv, [Next]_vars, NEW n \in Node
             PROVE  expiresAt'[n] <= now' + LeaseDuration
  OBVIOUS
<1>0. TypeOK /\ expiresAt[n] <= now + LeaseDuration
  BY DEF IInv
<1> USE DriftAssumption
<1>1. ASSUME UNCHANGED now, NEW m \in Node, NEW kind, NEW t \in Token, NEW ok,
             Execute(kind, m, t, ok)
      PROVE  expiresAt'[n] <= now' + LeaseDuration
  <2>1. StoreLease(m, t) \/ DeleteLease(m) \/ UNCHANGED storeVars
    BY <1>1, ExecuteEffect
  <2>2. now \in Nat /\ expiresAt \in [Node -> Nat]
    BY <1>0 DEF TypeOK
  <2> QED
    <3> USE <2>2
    <3>1. CASE StoreLease(m, t)
      BY <1>0, <1>1, <3>1 DEF StoreLease
    <3>2. CASE DeleteLease(m)
      BY <1>0, <1>1, <3>2 DEF DeleteLease
    <3>3. CASE UNCHANGED storeVars
      BY <1>0, <1>1, <3>3 DEF storeVars
    <3> QED
      BY <2>1, <3>1, <3>2, <3>3
<1>2. CASE Tick
  BY <1>0, <1>2 DEF Tick, TypeOK
<1>3. ASSUME NEW t \in Token,
             \/ AcquireStep(t) \/ AcquireCoordinatorStep(t)
             \/ RunRenewStep(t) \/ RenewCoordinatorStep(t) \/ ReleaseStep(t)
      PROVE  expiresAt'[n] <= now' + LeaseDuration
  BY <1>0, <1>3, LeaseStepFrame
<1>4. ASSUME NEW t \in Token, NEW m \in Node, CallServed(t, m) \/ CallFails(t, m)
      PROVE  expiresAt'[n] <= now' + LeaseDuration
  BY <1>0, <1>1, <1>4 DEF CallServed, CallFails
<1>5. ASSUME NEW r \in late, LateServed(r)
      PROVE  expiresAt'[n] <= now' + LeaseDuration
  BY <1>0, <1>1, <1>5 DEF LateServed, Request, TypeOK
<1>6. ASSUME NEW m \in Node, Restart(m)
      PROVE  expiresAt'[n] <= now' + LeaseDuration
  BY <1>0, <1>6 DEF Restart, DeleteLease, TypeOK
<1>7. CASE UNCHANGED vars
  BY <1>0, <1>7 DEF vars
<1> QED
  BY <1>2, <1>3, <1>4, <1>5, <1>6, <1>7 DEF Next

LEMMA IInvNext == IInv /\ [Next]_vars => IInv'
<1> SUFFICES ASSUME IInv, [Next]_vars PROVE IInv'
  OBVIOUS
<1> DEFINE Inv(u) == MuInv(u) /\ PcInv(u) /\ TimeInv(u) /\ GrantInv(u)
<1>0. TypeOK /\ LateInv /\ \A u \in Token : Inv(u)
  BY DEF IInv
<1>T. TypeOK'
  BY TypeNext
<1>E. (\A n \in Node : expiresAt[n] <= now + LeaseDuration)'
  BY ExpiryNext
<1> SUFFICES LateInv' /\ \A u \in Token : Inv(u)'
  BY <1>T, <1>E DEF IInv
<1>1. ASSUME NEW t \in Token,
             \/ AcquireStep(t) \/ AcquireCoordinatorStep(t)
             \/ RunRenewStep(t) \/ RenewCoordinatorStep(t) \/ ReleaseStep(t)
      PROVE  LateInv' /\ \A u \in Token : Inv(u)'
  <2>1. LateInv'
    <3>1. /\ UNCHANGED late
          /\ \A u \in Token : ctx[u] # "active" => ctx'[u] = ctx[u]
      BY ZenonT(30), <1>0, <1>1, LeaseStepFrame
    <3>2. \A r \in late : r.token \in Token
      BY <1>0 DEF TypeOK, Request
    <3> QED
      BY SMTT(30), <1>0, <3>1, <3>2 DEF LateInv
  <2>2. Inv(t)'
    BY SMTT(30), <1>1, OwnToken
  <2>3. ASSUME NEW u \in Token, u # t PROVE Inv(u)'
    BY ZenonT(30), <1>0, <1>1, <2>3, LeaseStepFrame, OtherToken
  <2> QED
    BY <2>1, <2>2, <2>3
<1>2. CASE Tick
  <2>1. LateInv'
    BY SMTT(30), <1>0, <1>2 DEF Tick, LateInv, leaseVars
  <2>2. ASSUME NEW u \in Token PROVE Inv(u)'
    <3>1. \A n \in Node, v \in Int : Backed(u, n, v) => BackedNext(u, n, v)
      BY <1>0, <1>2 DEF Tick, Backed, BackedNext, TypeOK
    <3>2. now' >= now
      BY <1>0, <1>2 DEF Tick, TypeOK
    <3> QED
      <4>1. UNCHANGED <<nodes, ctx, mu, call, pc, acq, ren, user, validUntil, startedAt>>
        BY <1>2 DEF Tick, leaseVars
      <4> QED
        BY ZenonT(30), <1>T, <3>1, <3>2, <4>1, NodeStep
  <2> QED
    BY <2>1, <2>2
<1>3. ASSUME NEW t \in Token, NEW n \in Node, CallServed(t, n)
      PROVE  LateInv' /\ \A u \in Token : Inv(u)'
  <2>1. PICK ok \in BOOLEAN, seen \in {"ok", "idle"} :
            /\ Execute(mu[t], n, t, ok)
            /\ seen = "ok" => ok
            /\ call' = [call EXCEPT ![t][n] = seen]
    BY ZenonT(30), <1>3 DEF CallServed
  <2>2. LateInv'
    BY <1>0, <1>3 DEF CallServed, LateInv
  <2>3. ASSUME NEW u \in Token PROVE Inv(u)'
    <3>1. ctx[u] = "active" => (mu[t] = "release" => t # u)
      BY <1>0 DEF MuInv
    <3>2. ctx[u] = "active" =>
            \A m \in Node, v \in Int :
                v <= now + Validity /\ Backed(u, m, v) => BackedNext(u, m, v)
      BY <1>0, <1>3, <2>1, <3>1, ExecuteKeepsBacked DEF CallServed
    <3>3. \A m \in Node : call'[u][m] # "idle" => call[u][m] # "idle"
      BY <1>0, <1>3, <2>1 DEF CallServed, TypeOK
    <3>4. ctx[u] = "active" =>
            \A m \in Node : call'[u][m] = "ok" =>
                call[u][m] = "ok" \/ BackedNext(u, m, now + Validity)
      <4> SUFFICES ASSUME ctx[u] = "active", NEW m \in Node, call'[u][m] = "ok",
                          call[u][m] # "ok"
                   PROVE  BackedNext(u, m, now + Validity)
        OBVIOUS
      <4>1. u = t /\ m = n /\ seen = "ok"
        BY <1>0, <2>1 DEF TypeOK
      <4>2. ok = TRUE
        BY <2>1, <4>1
      <4>3. StoreLease(n, t)
        BY Zenon, <2>1, <3>1, <4>1, <4>2, ExecuteOk
      <4> QED
        <5>1. owner'[m] = u /\ expiresAt'[m] = now + LeaseDuration
          BY ZenonT(30), <1>0, <4>1, <4>3 DEF StoreLease, TypeOK
        <5>2. now \in Nat
          BY Zenon, <1>0 DEF TypeOK
        <5> QED
          BY SMTT(30), <5>1, <5>2, DriftAssumption DEF BackedNext, Validity
    <3> QED
      <4>1. /\ now' >= now
            /\ UNCHANGED <<nodes, ctx, mu, pc, acq, ren, user, validUntil, startedAt>>
        <5>1. now \in Nat
          BY <1>0 DEF TypeOK
        <5> QED
          BY <1>3, <5>1 DEF CallServed
      <4> QED
        BY Zenon, <1>T, <3>2, <3>3, <3>4, <4>1, NodeStep
  <2> QED
    BY <2>2, <2>3
<1>4. ASSUME NEW t \in Token, NEW n \in Node, CallFails(t, n)
      PROVE  LateInv' /\ \A u \in Token : Inv(u)'
  <2>1. LateInv'
    <3>1. UNCHANGED ctx
      BY <1>4 DEF CallFails
    <3>2. late' \subseteq late \cup {[kind |-> mu[t], token |-> t, node |-> n]}
      BY <1>4 DEF CallFails
    <3>3. mu[t] = "release" => ctx[t] # "active"
      BY <1>0 DEF MuInv
    <3>4. ASSUME NEW r \in late', r.kind = "release" PROVE ctx'[r.token] # "active"
      <4>1. CASE r \in late
        <5>1. ctx[r.token] # "active"
          BY SMTT(30), <1>0, <3>4, <4>1 DEF LateInv
        <5> QED
          BY <3>1, <5>1
      <4>2. CASE r = [kind |-> mu[t], token |-> t, node |-> n]
        BY SMTT(30), <3>1, <3>3, <3>4, <4>2
      <4> QED
        BY <3>2, <3>4, <4>1, <4>2
    <3> QED
      BY <3>4 DEF LateInv
  <2>2. ASSUME NEW u \in Token PROVE Inv(u)'
    <3>1. \A m \in Node, v \in Int : Backed(u, m, v) => BackedNext(u, m, v)
      BY <1>4 DEF CallFails, Backed, BackedNext
    <3>2. \A m \in Node : call'[u][m] # "idle" => call'[u][m] = call[u][m]
      BY <1>0, <1>4 DEF CallFails, TypeOK
    <3>3. /\ now' >= now
          /\ UNCHANGED <<nodes, ctx, mu, pc, acq, ren, user, validUntil, startedAt>>
      <4>1. now \in Nat
        BY <1>0 DEF TypeOK
      <4> QED
        BY <1>4, <4>1 DEF CallFails
    <3> QED
      BY ZenonT(30), <1>T, <3>1, <3>2, <3>3, NodeStep
  <2> QED
    BY <2>1, <2>2
<1>5. ASSUME NEW r \in late, LateServed(r)
      PROVE  LateInv' /\ \A u \in Token : Inv(u)'
  <2>1. r.token \in Token /\ r.node \in Node
    BY <1>0 DEF TypeOK, Request
  <2>2. LateInv'
    BY SMTT(30), <1>0, <1>5 DEF LateServed, LateInv, leaseVars
  <2>3. ASSUME NEW u \in Token PROVE Inv(u)'
    <3>1. ctx[u] = "active" => (r.kind = "release" => r.token # u)
      BY <1>0 DEF LateInv
    <3>2. PICK ok \in BOOLEAN : Execute(r.kind, r.node, r.token, ok)
      BY SMTT(30), <1>5 DEF LateServed
    <3>3. ctx[u] = "active" =>
            \A m \in Node, v \in Int :
                v <= now + Validity /\ Backed(u, m, v) => BackedNext(u, m, v)
      BY Zenon, <1>0, <1>5, <2>1, <3>1, <3>2, ExecuteKeepsBacked DEF LateServed
    <3> QED
      <4>1. /\ now' >= now /\ UNCHANGED call
            /\ UNCHANGED <<nodes, ctx, mu, pc, acq, ren, user, validUntil, startedAt>>
        BY SMTT(30), <1>0, <1>5 DEF LateServed, leaseVars, TypeOK
      <4> QED
        BY ZenonT(30), <1>T, <3>3, <4>1, NodeStep
  <2> QED
    BY <2>2, <2>3
<1>6. ASSUME NEW n \in Node, Restart(n)
      PROVE  LateInv' /\ \A u \in Token : Inv(u)'
  <2>1. LateInv'
    BY ZenonT(30), <1>0, <1>6 DEF Restart, LateInv, leaseVars
  <2>2. ASSUME NEW u \in Token PROVE Inv(u)'
    <3>1. \A m \in Node, v \in Int : Backed(u, m, v) => BackedNext(u, m, v)
      BY <1>0, <1>6 DEF Restart, DeleteLease, Backed, BackedNext, TypeOK
    <3>2. /\ now' >= now /\ UNCHANGED call
          /\ UNCHANGED <<nodes, ctx, mu, pc, acq, ren, user, validUntil, startedAt>>
      <4>1. now \in Nat
        BY <1>0 DEF TypeOK
      <4> QED
        BY <1>6, <4>1 DEF Restart, leaseVars
    <3> QED
      BY ZenonT(30), <1>T, <3>1, <3>2, NodeStep
  <2> QED
    BY SMTT(30), <2>1, <2>2
<1>7. CASE UNCHANGED vars
  <2>1. LateInv'
    BY SMTT(30), <1>0, <1>7 DEF LateInv, vars
  <2>2. ASSUME NEW u \in Token PROVE Inv(u)'
    BY Zenon, <1>0, <1>7, OtherToken DEF vars
  <2> QED
    BY <2>1, <2>2
<1> QED
  BY <1>1, <1>2, <1>3, <1>4, <1>5, <1>6, <1>7 DEF Next

(***************************************************************************)
(* The theorems.                                                           *)
(***************************************************************************)

\* The inductive invariant holds in every reachable state.
THEOREM Invariance == Spec => []IInv
BY IInvInit, IInvNext, PTL DEF Spec

\* Every variable keeps its type.
THEOREM TypeCorrect == Spec => []TypeOK
<1>1. IInv => TypeOK
  BY DEF IInv
<1> QED
  BY <1>1, Invariance, PTL

\* A live lease is backed by a quorum of its nodes.
LEMMA LiveBacked ==
    ASSUME IInv, NEW t \in Token, Live(t)
    PROVE  /\ nodes[t] \in Snapshots
           /\ \E Q \in SUBSET nodes[t] :
                /\ IsQuorum(Q, nodes[t])
                /\ \A n \in Q : n \in lostOn[t] \/ owner[n] = t
<1>1. TypeOK /\ PcInv(t) /\ GrantInv(t)
  BY DEF IInv
<1>2. QuorumBacked(t, ValidEnd(t))
  BY ZenonT(30), <1>1 DEF Live, HeldPC, ValidEnd, PcInv, GrantInv
<1>3. PICK Q \in SUBSET nodes[t] :
        IsQuorum(Q, nodes[t]) /\ \A n \in Q : Backed(t, n, ValidEnd(t))
  BY ZenonT(30), <1>2 DEF QuorumBacked
<1>4. ~(now >= ValidEnd(t))
  BY <1>1, ValidityNat DEF Live, ValidEnd, TypeOK
<1>5. nodes[t] \in Snapshots
  BY <1>1 DEF Live, HeldPC, PcInv
<1> QED
  BY Zenon, <1>3, <1>4, <1>5 DEF Backed

\* Two leases are never live together unless a restart wiped one of them from a
\* node: for every set of nodes, every duration and drift, any number of clients
\* and any delay or loss of calls.
THEOREM Exclusion == Spec => []MutualExclusion
<1>1. IInv => MutualExclusion
  <2> SUFFICES ASSUME IInv, NEW t1 \in Token, NEW t2 \in Token, Live(t1), Live(t2),
                      t1 # t2, lostOn[t1] \cup lostOn[t2] = {}
               PROVE  FALSE
    BY DEF MutualExclusion
  <2>1. PICK Q1 \in SUBSET nodes[t1] :
          IsQuorum(Q1, nodes[t1]) /\ \A n \in Q1 : owner[n] = t1
    BY LiveBacked
  <2>2. PICK Q2 \in SUBSET nodes[t2] :
          IsQuorum(Q2, nodes[t2]) /\ \A n \in Q2 : owner[n] = t2
    BY LiveBacked
  <2>3. Q1 \cap Q2 # {}
    BY <2>1, <2>2, LiveBacked, OverlapAssumption DEF SnapshotsOverlap
  <2>4. PICK n : n \in Q1 /\ n \in Q2
    BY <2>3
  <2>5. owner[n] = t1
    BY <2>1, <2>4
  <2>6. owner[n] = t2
    BY <2>2, <2>4
  <2> QED
    BY <2>5, <2>6
<1> QED
  BY <1>1, Invariance, PTL

\* While a lease is active, a node keeps an entry of it that is not yet due and
\* never shortens it, except by a restart.
THEOREM EntriesStable == Spec => EntryStable
<1> DEFINE Keep(n, t) ==
      /\ owner[n] = t
      /\ ctx[t] = "active"
      /\ now + ClockDrift < expiresAt[n]
      => \/ owner'[n] = t /\ expiresAt'[n] >= expiresAt[n]
         \/ n \in lostOn'[t]
<1>1. ASSUME IInv, [Next]_vars, NEW n \in Node, NEW t \in Token PROVE Keep(n, t)
  <2> SUFFICES ASSUME owner[n] = t, ctx[t] = "active", now + ClockDrift < expiresAt[n]
               PROVE  \/ owner'[n] = t /\ expiresAt'[n] >= expiresAt[n]
                      \/ n \in lostOn'[t]
    OBVIOUS
  <2>0. TypeOK /\ LateInv /\ MuInv(t) /\ expiresAt[n] <= now + LeaseDuration
    BY <1>1 DEF IInv
  <2> USE DriftAssumption, NoTokenAssumption
  <2>1. ASSUME NEW m \in Node, NEW kind, NEW u \in Token, NEW ok,
               Execute(kind, m, u, ok), kind = "release" => u # t
        PROVE  owner'[n] = t /\ expiresAt'[n] >= expiresAt[n]
    <3>1. \/ /\ StoreLease(m, u)
             /\ owner[m] = NoToken \/ owner[m] = u \/ MayBeExpired(m)
          \/ /\ DeleteLease(m)
             /\ MayBeExpired(m) \/ (kind = "release" /\ owner[m] = u)
          \/ UNCHANGED storeVars
      BY ZenonT(30), <2>1, ExecuteEffect
    <3>T. now \in Nat /\ expiresAt \in [Node -> Nat] /\ owner \in [Node -> Token \cup {NoToken}]
      BY <2>0 DEF TypeOK
    <3>2. CASE m # n
      BY <3>1, <3>2, <3>T DEF StoreLease, DeleteLease, storeVars
    <3>3. CASE m = n
      <4>1. ~MayBeExpired(m) /\ owner[m] = t /\ t # NoToken
        BY SMTT(30), <3>3, <3>T DEF MayBeExpired
      <4>2. (StoreLease(m, u) /\ u = t) \/ UNCHANGED storeVars
        BY ZenonT(30), <2>1, <3>1, <4>1
      <4> QED
        BY <2>0, <3>3, <3>T, <4>1, <4>2 DEF StoreLease, storeVars
    <3> QED
      BY SMTT(30), <3>2, <3>3
  <2>2. CASE Tick
    BY <2>0, <2>2 DEF Tick, TypeOK
  <2>3. ASSUME NEW u \in Token,
               \/ AcquireStep(u) \/ AcquireCoordinatorStep(u)
               \/ RunRenewStep(u) \/ RenewCoordinatorStep(u) \/ ReleaseStep(u)
        PROVE  owner'[n] = t /\ expiresAt'[n] >= expiresAt[n]
    <3>1. UNCHANGED <<owner, expiresAt>>
      BY ZenonT(30), <2>0, <2>3, LeaseStepFrame
    <3> QED
      BY SMTT(30), <2>0, <3>1 DEF TypeOK
  <2>4. ASSUME NEW u \in Token, NEW m \in Node, CallServed(u, m) \/ CallFails(u, m)
        PROVE  owner'[n] = t /\ expiresAt'[n] >= expiresAt[n]
    <3>1. CASE CallServed(u, m)
      <4>1. PICK ok \in BOOLEAN : Execute(mu[u], m, u, ok)
        BY <3>1 DEF CallServed
      <4>2. mu[u] = "release" => u # t
        BY <2>0 DEF MuInv
      <4> QED
        BY <2>1, <4>1, <4>2
    <3>2. CASE CallFails(u, m)
      <4>1. UNCHANGED <<owner, expiresAt>>
        BY SMTT(30), <3>2 DEF CallFails
      <4> QED
        BY <2>0, <4>1 DEF TypeOK
    <3> QED
      BY ZenonT(30), <2>4, <3>1, <3>2
  <2>5. ASSUME NEW r \in late, LateServed(r)
        PROVE  owner'[n] = t /\ expiresAt'[n] >= expiresAt[n]
    BY ZenonT(30), <2>0, <2>1, <2>5 DEF LateServed, LateInv, Request, TypeOK
  <2>6. ASSUME NEW m \in Node, Restart(m)
        PROVE  (owner'[n] = t /\ expiresAt'[n] >= expiresAt[n]) \/ n \in lostOn'[t]
    BY <2>0, <2>6 DEF Restart, DeleteLease, TypeOK
  <2>7. CASE UNCHANGED vars
    BY <2>0, <2>7 DEF vars, TypeOK
  <2> QED
    BY ZenonT(30), <1>1, <2>2, <2>3, <2>4, <2>5, <2>6, <2>7 DEF Next
<1>2. IInv /\ [Next]_vars => [\A n \in Node : \A t \in Token : Keep(n, t)]_vars
  BY <1>1
<1> QED
  BY <1>2, Invariance, PTL DEF Spec, EntryStable

-----------------------------------------------------------------------------
(***************************************************************************)
(* Which membership changes keep OverlapAssumption: the quorums of         *)
(* newLease over two snapshots.                                            *)
(***************************************************************************)

\* Any two quorums of S1 and S2 meet when the snapshots together are no larger
\* than the two halves plus one.
THEOREM QuorumsOverlap ==
    ASSUME NEW S1 \in SUBSET Node, NEW S2 \in SUBSET Node,
           Cardinality(S1 \cup S2) <= Cardinality(S1) \div 2 + Cardinality(S2) \div 2 + 1,
           NEW Q1 \in SUBSET S1, NEW Q2 \in SUBSET S2,
           IsQuorum(Q1, S1), IsQuorum(Q2, S2)
    PROVE  Q1 \cap Q2 # {}
<1> SUFFICES ASSUME Q1 \cap Q2 = {} PROVE FALSE
  OBVIOUS
<1>1. IsFiniteSet(S1) /\ IsFiniteSet(S2) /\ IsFiniteSet(S1 \cup S2)
      /\ IsFiniteSet(Q1) /\ IsFiniteSet(Q2)
  BY NodeAssumption, FS_Subset
<1>2. Cardinality(Q1 \cup Q2) = Cardinality(Q1) + Cardinality(Q2)
  <2>1. Cardinality(Q1 \cap Q2) = 0
    BY ZenonT(30), FS_EmptySet
  <2>2. Cardinality(Q1 \cup Q2) = Cardinality(Q1) + Cardinality(Q2) - Cardinality(Q1 \cap Q2)
    BY <1>1, FS_Union
  <2>3. Cardinality(Q1) \in Nat /\ Cardinality(Q2) \in Nat
    BY <1>1, FS_CardinalityType
  <2> QED
    BY <2>1, <2>2, <2>3
<1>3. Cardinality(Q1 \cup Q2) <= Cardinality(S1 \cup S2)
  <2>1. Q1 \cup Q2 \in SUBSET (S1 \cup S2)
    OBVIOUS
  <2> QED
    BY <1>1, <2>1, FS_Subset
<1>4. /\ Cardinality(Q1) \in Nat /\ Cardinality(Q2) \in Nat
      /\ Cardinality(S1) \in Nat /\ Cardinality(S2) \in Nat
      /\ Cardinality(S1 \cup S2) \in Nat
  BY <1>1, FS_CardinalityType
<1> QED
  BY <1>2, <1>3, <1>4 DEF IsQuorum

LEMMA Half ==
    ASSUME NEW k \in Nat
    PROVE  /\ k \div 2 \in Nat
           /\ k <= 2 * (k \div 2) + 1
           /\ (k + 1) \div 2 \in Nat
           /\ k <= k \div 2 + (k + 1) \div 2
OBVIOUS

\* A client that does not know of the machine just added, or removed, and one
\* that does can never both get a quorum: changing one machine at a time is safe.
THEOREM OneMachineAtATime ==
    ASSUME NEW S \in SUBSET Node, NEW x \in Node \ S,
           NEW S1 \in {S, S \cup {x}}, NEW S2 \in {S, S \cup {x}},
           NEW Q1 \in SUBSET S1, NEW Q2 \in SUBSET S2,
           IsQuorum(Q1, S1), IsQuorum(Q2, S2)
    PROVE  Q1 \cap Q2 # {}
<1> DEFINE k == Cardinality(S)
<1>1. IsFiniteSet(S)
  BY NodeAssumption, FS_Subset
<1>2. Cardinality(S \cup {x}) = k + 1 /\ k \in Nat /\ k + 1 \in Nat
  BY <1>1, FS_AddElement, FS_CardinalityType
<1>3. Cardinality(S1 \cup S2) <= Cardinality(S1) \div 2 + Cardinality(S2) \div 2 + 1
  <2>1. CASE S1 = S2
    <3>1. S1 \cup S2 = S1 /\ Cardinality(S1) \in Nat
      BY SMTT(30), <1>2, <2>1
    <3> DEFINE h == Cardinality(S1) \div 2
    <3>2. h \in Nat /\ Cardinality(S1) <= 2 * h + 1
      BY <3>1, Half
    <3>3. Cardinality(S2) \div 2 = h
      BY <2>1
    <3> HIDE DEF h
    <3>4. Cardinality(S1) <= h + h + 1
      BY <3>1, <3>2
    <3> QED
      BY Zenon, <3>1, <3>3, <3>4 DEF h
  <2>2. CASE S1 # S2
    <3>1. S1 \cup S2 = S \cup {x}
      BY <2>2
    <3>2. \/ Cardinality(S1) = k /\ Cardinality(S2) = k + 1
          \/ Cardinality(S1) = k + 1 /\ Cardinality(S2) = k
      BY <1>2, <2>2
    <3> HIDE DEF k
    <3> DEFINE h1 == k \div 2
               h2 == (k + 1) \div 2
    <3>3. h1 \in Nat /\ h2 \in Nat /\ k <= h1 + h2
      BY <1>2, Half
    <3>4. Cardinality(S1) \div 2 + Cardinality(S2) \div 2 = h1 + h2
      BY <3>2, <3>3
    <3>5. Cardinality(S1 \cup S2) = k + 1
      BY <1>2, <3>1
    <3> HIDE DEF h1, h2
    <3>6. k + 1 <= (h1 + h2) + 1
      BY <1>2, <3>3
    <3> QED
      BY <3>4, <3>5, <3>6, Zenon
  <2> QED
    BY <2>1, <2>2
<1> QED
  BY Zenon, <1>3, QuorumsOverlap

-----------------------------------------------------------------------------
(***************************************************************************)
(* DistLock implements LeaseService while no node restarts.                *)
(***************************************************************************)

NoLoss == \A t \in Token : lostOn[t] = {}

Holder == IF \E t \in Token : Live(t) THEN CHOOSE t \in Token : Live(t) ELSE NoToken

LEMMA NoLossInvariant ==
    ASSUME Restartable = {}
    PROVE  Spec => []NoLoss
<1>1. Init => NoLoss
  BY SMTT(30) DEF Init, NoLoss
<1>2. IInv /\ NoLoss /\ [Next]_vars => NoLoss'
  <2> SUFFICES ASSUME IInv, NoLoss, [Next]_vars PROVE UNCHANGED lostOn
    BY DEF NoLoss
  <2>1. ASSUME NEW t \in Token,
               \/ AcquireStep(t) \/ AcquireCoordinatorStep(t)
               \/ RunRenewStep(t) \/ RenewCoordinatorStep(t) \/ ReleaseStep(t)
        PROVE  UNCHANGED lostOn
    BY ZenonT(30), <2>1, LeaseStepFrame DEF IInv
  <2> QED
    BY Zenon, <2>1 DEF Next, vars, Tick, CallServed, CallFails, LateServed, Restart
<1> QED
  BY <1>1, <1>2, Invariance, PTL DEF Spec

\* At most one lease is live while no restart has wiped a lease.
LEMMA OneLive ==
    ASSUME IInv, NoLoss, NEW t1 \in Token, NEW t2 \in Token, Live(t1), Live(t2)
    PROVE  t1 = t2
<1> SUFFICES ASSUME t1 # t2 PROVE FALSE
  OBVIOUS
<1>1. PICK Q1 \in SUBSET nodes[t1] :
        IsQuorum(Q1, nodes[t1]) /\ \A n \in Q1 : owner[n] = t1
  BY SMTT(30), LiveBacked DEF NoLoss
<1>2. PICK Q2 \in SUBSET nodes[t2] :
        IsQuorum(Q2, nodes[t2]) /\ \A n \in Q2 : owner[n] = t2
  BY ZenonT(30), LiveBacked DEF NoLoss
<1>3. Q1 \cap Q2 # {}
  BY ZenonT(30), <1>1, <1>2, LiveBacked, OverlapAssumption DEF SnapshotsOverlap
<1> QED
  BY <1>1, <1>2, <1>3

PastPC == HeldPC \cup {"lost", "losing", "done"}
Past == {t \in Token : pc[t] \in HeldPC \cup {"lost", "losing", "done"}}

\* Of the steps of its goroutines, only AcquireSucceeds makes a lease live or
\* moves it to the past holders: the others shorten nothing they do not end.
LEMMA OwnLive ==
    ASSUME IInv, NEW t \in Token, ~AcquireSucceeds(t),
           \/ AcquireStep(t) \/ AcquireCoordinatorStep(t)
           \/ RunRenewStep(t) \/ RenewCoordinatorStep(t) \/ ReleaseStep(t)
    PROVE  /\ Live(t)' => Live(t)
           /\ pc'[t] \in PastPC <=> pc[t] \in PastPC
<1>0. TypeOK /\ MuInv(t) /\ PcInv(t) /\ TimeInv(t)
  BY SMTT(30) DEF IInv
<1> USE <1>0, ValidityNat DEF TypeOK, PcInv, Live, ValidEnd, HeldPC, PastPC
<1>1. CASE AcquireStep(t)
  BY ZenonT(30), <1>1 DEF AcquireStep, NewLease, AcquireErr, AcquireCtxDone, FailAcquire, Cancel,
              ForgetValidity
<1>2. CASE AcquireCoordinatorStep(t)
  <2>1. UNCHANGED <<now, ctx, pc, ren, validUntil, startedAt>>
    BY ZenonT(30), <1>2 DEF AcquireCoordinatorStep, AcquireLock, AcquireReport, AcquireUnlock
  <2> QED
    BY ZenonT(30), <2>1
<1>3. CASE RenewLoop(t)
  <2>1. /\ Lose(t) \/ UNCHANGED <<ctx, validUntil>>
        /\ pc[t] = "loop" /\ pc' \in {[pc EXCEPT ![t] = "timer"], [pc EXCEPT ![t] = "lost"]}
        /\ UNCHANGED <<now, ren, startedAt>>
    BY <1>3, Zenon DEF RenewLoop, Lose
  <2> QED
    BY ZenonT(30), <2>1 DEF Lose, Cancel
<1>4. CASE RenewTimer(t) \/ RenewCancelled(t) \/ RenewResult(t)
  <2>1. CASE RenewTimer(t)
    BY ZenonT(30), <2>1 DEF RenewTimer
  <2>2. CASE RenewCancelled(t)
    BY ZenonT(30), <2>2 DEF RenewCancelled
  <2>3. CASE RenewResult(t)
    BY ZenonT(30), <2>3 DEF RenewResult
  <2> QED
    BY ZenonT(30), <1>4, <2>1, <2>2, <2>3
<1>5. CASE RenewErr(t)
  BY ZenonT(30), <1>5 DEF RenewErr, Lose, Cancel, ForgetValidity
<1>6. CASE RenewSucceeds(t)
  <2>1. /\ ctx[t] = "active" /\ now < validUntil[t]
        /\ ren[t] = "run" /\ ren' = [ren EXCEPT ![t] = "ok"]
        /\ UNCHANGED <<now, ctx, pc, validUntil, startedAt>>
    <3>1. now \in Nat /\ validUntil[t] \in Nat
      OBVIOUS
    <3>2. \A i, j \in Nat : ~(i >= j) => i < j
      OBVIOUS
    <3> QED
      BY <1>6, <3>1, <3>2, ZenonT(30) DEF RenewSucceeds, RenewUnlock, CtxDone
  <2>2. pc[t] \in {"renew", "lost", "losing", "done"}
    BY SMTT(30), <2>1
  <2> QED
    BY Zenon, <2>1, <2>2
<1>7. CASE RenewTooLate(t) \/ RenewAttempt(t) \/ RenewBackOff(t)
  BY ZenonT(30), <1>7 DEF RenewTooLate, RenewAttempt, RenewBackOff
<1>8. CASE RenewExpires(t) \/ RenewStops(t)
  BY ZenonT(30), <1>8 DEF RenewExpires, RenewStops, RenewUnlock
<1>9. CASE ReleaseStep(t)
  <2>1. CASE CleanupLock(t)
    BY ZenonT(30), <2>1 DEF CleanupLock
  <2>2. CASE ReleaseUnlock(t)
    BY ZenonT(30), <2>2 DEF ReleaseUnlock
  <2>3. CASE Release(t)
    BY ZenonT(30), <2>3 DEF Release, Cancel
  <2>4. CASE ReleaseGivesUp(t)
    BY ZenonT(30), <2>4 DEF ReleaseGivesUp
  <2>5. CASE ReleaseLock(t)
    BY ZenonT(30), <2>5 DEF ReleaseLock
  <2> QED
    BY ZenonT(30), <1>9, <2>1, <2>2, <2>3, <2>4, <2>5 DEF ReleaseStep
<1> QED
  BY ZenonT(30), <1>1, <1>2, <1>3, <1>4, <1>5, <1>6, <1>7, <1>8, <1>9
     DEF RunRenewStep, RenewCoordinatorStep

LEMMA LiveStep ==
    ASSUME IInv, [Next]_vars, \A t \in Token : ~AcquireSucceeds(t)
    PROVE  \A u \in Token : /\ Live(u)' => Live(u)
                            /\ pc'[u] \in PastPC <=> pc[u] \in PastPC
<1>0. TypeOK
  BY Zenon DEF IInv
<1> SUFFICES ASSUME NEW u \in Token
             PROVE  (Live(u)' => Live(u)) /\ (pc'[u] \in PastPC <=> pc[u] \in PastPC)
  OBVIOUS
<1>1. ASSUME NEW t \in Token,
             \/ AcquireStep(t) \/ AcquireCoordinatorStep(t)
             \/ RunRenewStep(t) \/ RenewCoordinatorStep(t) \/ ReleaseStep(t)
      PROVE  (Live(u)' => Live(u)) /\ (pc'[u] \in PastPC <=> pc[u] \in PastPC)
  <2>1. CASE u = t
    BY ZenonT(30), <1>1, <2>1, OwnLive
  <2>2. CASE u # t
    <3>1. /\ UNCHANGED now
          /\ ctx'[u] = ctx[u] /\ pc'[u] = pc[u] /\ ren'[u] = ren[u]
          /\ validUntil'[u] = validUntil[u] /\ startedAt'[u] = startedAt[u]
      BY ZenonT(30), <1>0, <1>1, <2>2, LeaseStepFrame
    <3> QED
      BY ZenonT(30), <3>1 DEF Live, ValidEnd
  <2> QED
    BY SMTT(30), <2>1, <2>2
<1>2. CASE Tick
  <2>1. now' = now + 1 /\ UNCHANGED <<pc, ctx, ren, validUntil, startedAt>>
    BY <1>2 DEF Tick, leaseVars
  <2>2. ValidEnd(u)' = ValidEnd(u) /\ ValidEnd(u) \in Int
    <3>1. validUntil[u] \in Nat /\ startedAt[u] \in Nat
      BY <1>0 DEF TypeOK
    <3> QED
      BY <2>1, <3>1, ValidityNat DEF ValidEnd
  <2>3. now \in Nat
    BY <1>0 DEF TypeOK
  <2>4. now + 1 < ValidEnd(u) => now < ValidEnd(u)
    BY <2>2, <2>3
  <2>5. Live(u)' => pc[u] \in HeldPC /\ ctx[u] = "active" /\ now + 1 < ValidEnd(u)
    BY <2>1, <2>2 DEF Live
  <2> QED
    BY Zenon, <2>1, <2>4, <2>5 DEF Live
<1>3. ASSUME UNCHANGED <<now, pc, ctx, ren, validUntil, startedAt>>
      PROVE  (Live(u)' => Live(u)) /\ (pc'[u] \in PastPC <=> pc[u] \in PastPC)
  BY <1>3 DEF Live, ValidEnd
<1> QED
  BY Zenon, <1>1, <1>2, <1>3
     DEF Next, vars, CallServed, CallFails, LateServed, Restart, leaseVars

LEMMA HolderIs ==
    IInv /\ NoLoss => \A t \in Token : Live(t) => Holder = t
<1> SUFFICES ASSUME IInv, NoLoss, NEW t \in Token, Live(t) PROVE Holder = t
  OBVIOUS
<1>1. (CHOOSE u \in Token : Live(u)) \in Token /\ Live(CHOOSE u \in Token : Live(u))
  BY Zenon
<1> QED
  BY <1>1, OneLive, Zenon DEF Holder

\* While no node restarts, pkg/distlock implements LeaseService: one holder at a
\* time, and no return of an acquisition that stopped holding.
THEOREM Refinement ==
    ASSUME Restartable = {}
    PROVE  Spec => ImplementsLeaseService
<1>1. Init => Holder = NoToken /\ Past = {}
  BY DEF Init, Holder, Past, Live, HeldPC
<1>2. IInv /\ IInv' /\ NoLoss /\ NoLoss' /\ [Next]_vars
        => \/ Holder' = Holder /\ Past' = Past
           \/ Holder # NoToken /\ Holder' = NoToken /\ Past' = Past
           \/ \E t \in Token : /\ Holder = NoToken /\ t \notin Past
                               /\ Holder' = t /\ Past' = Past \cup {t}
  <2> SUFFICES ASSUME IInv, IInv', NoLoss, NoLoss', [Next]_vars
               PROVE  \/ Holder' = Holder /\ Past' = Past
                      \/ Holder # NoToken /\ Holder' = NoToken /\ Past' = Past
                      \/ \E t \in Token : /\ Holder = NoToken /\ t \notin Past
                                          /\ Holder' = t /\ Past' = Past \cup {t}
    OBVIOUS
  <2>0. \A t \in Token : Live(t)' => Holder' = t
    <3>1. (IInv /\ NoLoss => \A t \in Token : Live(t) => Holder = t)'
      BY HolderIs, PTL
    <3> QED
      BY <3>1
  <2>1. CASE \E t \in Token : AcquireSucceeds(t)
    <3>1. PICK t \in Token : AcquireSucceeds(t)
      BY SMTT(30), <2>1
    <3>2. TypeOK /\ PcInv(t)
      BY ZenonT(30) DEF IInv
    <3>3. Live(t)' /\ t \notin Past /\ ~Live(t)
      BY ZenonT(30), <3>1, <3>2 DEF AcquireSucceeds, PcInv, TypeOK, Live, ValidEnd, HeldPC, Past
    <3>4. \A u \in Token \ {t} : Live(u)' <=> Live(u)
      BY ZenonT(30), <3>1, <3>2 DEF AcquireSucceeds, TypeOK, Live, ValidEnd
    <3>5. Past' = Past \cup {t}
      BY <3>1, <3>2 DEF AcquireSucceeds, TypeOK, Past, HeldPC
    <3>6. Holder' = t
      BY <2>0, <3>3
    <3>7. \A u \in Token : ~Live(u)
      BY <2>0, <3>3, <3>4, <3>6
    <3>8. Holder = NoToken
      BY <3>7 DEF Holder
    <3> QED
      BY <3>3, <3>5, <3>6, <3>8
  <2>2. CASE \A t \in Token : ~AcquireSucceeds(t)
    <3>1. \A u \in Token : /\ Live(u)' => Live(u)
                           /\ pc'[u] \in PastPC <=> pc[u] \in PastPC
      BY <2>2, LiveStep
    <3>2. Past' = Past
      BY <3>1 DEF Past, PastPC
    <3>3. CASE \E t \in Token : Live(t)'
      <4>1. PICK t \in Token : Live(t)'
        BY <3>3
      <4>2. Live(t)
        BY <3>1, <4>1
      <4>3. Holder = t /\ Holder' = t
        BY <2>0, <4>1, <4>2, HolderIs
      <4> QED
        BY <3>2, <4>3
    <3>4. CASE \A t \in Token : ~Live(t)'
      <4>1. Holder' = NoToken
        BY <3>4 DEF Holder
      <4> QED
        BY <3>2, <4>1
    <3> QED
      BY <3>3, <3>4
  <2> QED
    BY <2>1, <2>2
<1>3. Init => Abstract!Init
  BY <1>1 DEF Abstract!Init, Holder, Past
<1>4. IInv /\ IInv' /\ NoLoss /\ NoLoss' /\ [Next]_vars
        => [Abstract!Next]_<<Holder, Past>>
  BY <1>2, Zenon DEF Abstract!Next, Abstract!End, Abstract!Grant, Holder, Past
<1> QED
  BY <1>3, <1>4, Invariance, NoLossInvariant, PTL
     DEF Spec, ImplementsLeaseService, Abstract!Spec, Holder, Past
=============================================================================
