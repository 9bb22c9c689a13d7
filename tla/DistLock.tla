------------------------------ MODULE DistLock ------------------------------
(***************************************************************************)
(* pkg/distlock: a Redlock-style distributed lease over independent nodes. *)
(*                                                                         *)
(* One resource is modelled: a MemoryStore keys its leases by resource and *)
(* no operation touches two resources.  A Token stands for one acquisition *)
(* attempt, that is for one Lease object: Locker.Acquire makes a fresh     *)
(* token and a fresh Lease for every attempt of its retry loop.            *)
(*                                                                         *)
(* A Lease is worked on by up to four goroutines, and each has its own     *)
(* control state below: the caller of acquire, which becomes runRenew      *)
(* (pc), the coordinator of acquire (acq), the coordinator of renew (ren)  *)
(* and a caller of Release (user).  They meet in operationMu (mu), in the  *)
(* lease context (ctx) and in the one-slot result channels, which the      *)
(* final values of acq and ren stand for.                                  *)
(*                                                                         *)
(* Time is a discrete clock that the lockers read exactly.  A node's clock *)
(* may run up to ClockDrift too fast or too slow over one lease duration,  *)
(* so a node judges a lease expired at some moment between ClockDrift      *)
(* before and ClockDrift after the nominal end.                            *)
(***************************************************************************)
EXTENDS Integers, FiniteSets

CONSTANTS
    Node,           \* machines that serve the Lease API
    Token,          \* ownership tokens, one per acquisition attempt
    NoToken,        \* "no lease stored"
    Snapshots,      \* the node sets Cluster.Nodes may return
    LeaseDuration,  \* Config.LeaseDuration, in ticks
    ClockDrift,     \* Config.clockDrift(), in ticks
    MaxLate,        \* bound on the requests executed after their caller gave up on them
    Restartable,    \* the nodes that may restart, losing their MemoryStore
    Releasers,      \* the acquisitions whose holder calls Lease.Release
    MaxTime         \* bound on the clock

ASSUME NoTokenAssumption == NoToken \notin Token
ASSUME DriftAssumption ==
    LeaseDuration \in Nat /\ ClockDrift \in Nat /\ ClockDrift <= LeaseDuration
ASSUME NodeAssumption == IsFiniteSet(Node) /\ Snapshots \subseteq SUBSET Node
ASSUME FaultAssumption == MaxLate \in Nat /\ Restartable \subseteq Node
ASSUME ReleasersAssumption == Releasers \subseteq Token
ASSUME MaxTimeAssumption == MaxTime \in Nat

\* A set of successes Q that reaches the lease quorum len(nodes)/2 + 1.
IsQuorum(Q, S) == Cardinality(Q) >= Cardinality(S) \div 2 + 1

\* Every two quorums of snapshots in use share a node: what doc.go asks of
\* membership changes.
SnapshotsOverlap ==
    \A S1, S2 \in Snapshots : \A Q1 \in SUBSET S1, Q2 \in SUBSET S2 :
        IsQuorum(Q1, S1) /\ IsQuorum(Q2, S2) => Q1 \cap Q2 # {}

ASSUME OverlapAssumption == SnapshotsOverlap

VARIABLES
    now,         \* the clock
    owner,       \* MemoryStore of each node: token of the stored lease or NoToken
    expiresAt,   \* MemoryStore of each node: nominal end of the stored lease
    late,        \* requests abandoned by their caller and still travelling
    lostOn,      \* history: the nodes on which a restart wiped the lease
    nodes,       \* Lease.nodes, the snapshot
    ctx,         \* Lease.ctx: "active" or the cancellation cause
    mu,          \* Lease.operationMu: "free" or the operation holding it
    call,        \* the node calls of the operation holding operationMu
    pc,          \* acquire and then runRenew
    acq,         \* the coordinator goroutine of acquire and its resultCh
    ren,         \* the coordinator goroutine of renew and its resultCh
    user,        \* a caller of Lease.Release
    validUntil,  \* validUntil of acquire and of runRenew
    startedAt,   \* startedAt of the current renewal attempt
    wakeAt       \* when the timer of runRenew fires

storeVars == <<owner, expiresAt>>
leaseVars == <<nodes, ctx, mu, call, pc, acq, ren, user, validUntil, startedAt, wakeAt>>
vars == <<now, owner, expiresAt, late, lostOn, nodes, ctx, mu, call, pc, acq,
          ren, user, validUntil, startedAt, wakeAt>>

Kind == {"acquire", "renew", "release"}
Request == [kind : Kind, token : Token, node : Node]
CallState == {"idle", "sent", "ok"}
PC == {"new", "acquire", "cleanup", "cleaning", "failed",
       "loop", "timer", "renew", "lost", "losing", "done"}

TypeOK ==
    /\ now \in Nat
    /\ owner \in [Node -> Token \cup {NoToken}]
    /\ expiresAt \in [Node -> Nat]
    /\ late \in SUBSET Request
    /\ lostOn \in [Token -> SUBSET Node]
    /\ nodes \in [Token -> SUBSET Node]
    /\ ctx \in [Token -> {"active", "failed", "lost", "released"}]
    /\ mu \in [Token -> {"free"} \cup Kind]
    /\ call \in [Token -> [Node -> CallState]]
    /\ pc \in [Token -> PC]
    /\ acq \in [Token -> {"none", "start", "run", "drain", "ok", "err"}]
    /\ ren \in [Token -> {"none", "start", "run", "wait", "ok", "err"}]
    /\ user \in [Token -> {"none", "wait", "release", "returned", "gaveup"}]
    /\ validUntil \in [Token -> Nat]
    /\ startedAt \in [Token -> Nat]
    /\ wakeAt \in [Token -> Nat]

Init ==
    /\ now = 0
    /\ owner = [n \in Node |-> NoToken]
    /\ expiresAt = [n \in Node |-> 0]
    /\ late = {}
    /\ lostOn = [t \in Token |-> {}]
    /\ nodes = [t \in Token |-> {}]
    /\ ctx = [t \in Token |-> "active"]
    /\ mu = [t \in Token |-> "free"]
    /\ call = [t \in Token |-> [n \in Node |-> "idle"]]
    /\ pc = [t \in Token |-> "new"]
    /\ acq = [t \in Token |-> "none"]
    /\ ren = [t \in Token |-> "none"]
    /\ user = [t \in Token |-> "none"]
    /\ validUntil = [t \in Token |-> 0]
    /\ startedAt = [t \in Token |-> 0]
    /\ wakeAt = [t \in Token |-> 0]

-----------------------------------------------------------------------------
(***************************************************************************)
(* The node side: MemoryStore, reached through the Lease gRPC service.     *)
(***************************************************************************)

MayBeExpired(n) == now + ClockDrift >= expiresAt[n]
MayBeUnexpired(n) == now < expiresAt[n] + ClockDrift

StoreLease(n, t) ==
    /\ owner' = [owner EXCEPT ![n] = t]
    /\ expiresAt' = [expiresAt EXCEPT ![n] = now + LeaseDuration]

DeleteLease(n) ==
    /\ owner' = [owner EXCEPT ![n] = NoToken]
    /\ expiresAt' = [expiresAt EXCEPT ![n] = 0]

\* MemoryStore.Acquire: any unexpired lease refuses, also one of the same token.
StoreAcquire(n, t, ok) ==
    \/ ok /\ (owner[n] = NoToken \/ MayBeExpired(n)) /\ StoreLease(n, t)
    \/ ~ok /\ owner[n] # NoToken /\ MayBeUnexpired(n) /\ UNCHANGED storeVars

\* Mutant: a renewal with another token deletes the lease.
StoreRenewDropsOther(n, t, ok) ==
    \/ ok /\ owner[n] = t /\ MayBeUnexpired(n) /\ StoreLease(n, t)
    \/ ~ok /\ owner[n] # t /\ DeleteLease(n)
    \/ ~ok /\ owner[n] = t /\ MayBeExpired(n) /\ DeleteLease(n)

\* MemoryStore.Renew: only the owner of an unexpired lease extends it, an
\* expired one is deleted whoever asks.
StoreRenew(n, t, ok) ==
    \/ ok /\ owner[n] = t /\ MayBeUnexpired(n) /\ StoreLease(n, t)
    \/ ~ok /\ owner[n] # NoToken /\ MayBeExpired(n) /\ DeleteLease(n)
    \/ /\ ~ok
       /\ owner[n] = NoToken \/ (owner[n] # t /\ MayBeUnexpired(n))
       /\ UNCHANGED storeVars

\* MemoryStore.Release: as Renew, but the owner's request deletes the lease.
StoreRelease(n, t, ok) ==
    \/ ok /\ owner[n] = t /\ MayBeUnexpired(n) /\ DeleteLease(n)
    \/ ~ok /\ owner[n] # NoToken /\ MayBeExpired(n) /\ DeleteLease(n)
    \/ /\ ~ok
       /\ owner[n] = NoToken \/ (owner[n] # t /\ MayBeUnexpired(n))
       /\ UNCHANGED storeVars

Execute(kind, n, t, ok) ==
    \/ kind = "acquire" /\ StoreAcquire(n, t, ok)
    \/ kind = "renew" /\ StoreRenew(n, t, ok)
    \/ kind = "release" /\ StoreRelease(n, t, ok)

\* The node executes the call and answers.  The call ends without success
\* ("idle") when the node refuses or when its answer never reaches the caller,
\* to whom the result is then unknown.
CallServed(t, n) ==
    /\ call[t][n] = "sent"
    /\ \E ok \in BOOLEAN, seen \in {"ok", "idle"} :
        /\ Execute(mu[t], n, t, ok)
        /\ seen = "ok" => ok
        /\ call' = [call EXCEPT ![t][n] = seen]
    /\ UNCHANGED <<now, late, lostOn, nodes, ctx, mu, pc, acq, ren, user,
                   validUntil, startedAt, wakeAt>>

\* The call returns an error before the node executed it: unreachable node,
\* NodeCallTimeout, deadline or cancelled context.  The request is gone or,
\* if MaxLate allows, still on its way.
CallFails(t, n) ==
    /\ call[t][n] = "sent"
    /\ call' = [call EXCEPT ![t][n] = "idle"]
    /\ \/ UNCHANGED late
       \/ Cardinality(late) < MaxLate
          /\ late' = late \cup {[kind |-> mu[t], token |-> t, node |-> n]}
    /\ UNCHANGED <<now, owner, expiresAt, lostOn, nodes, ctx, mu, pc, acq, ren,
                   user, validUntil, startedAt, wakeAt>>

\* A node executes a request whose caller has long gone.
LateServed(r) ==
    /\ r \in late
    /\ \E ok \in BOOLEAN : Execute(r.kind, r.node, r.token, ok)
    /\ late' = late \ {r}
    /\ UNCHANGED <<now, lostOn, leaseVars>>

\* A node restarts: the leases in its memory are lost.
Restart(n) ==
    /\ n \in Restartable
    /\ owner[n] # NoToken
    /\ lostOn' = [lostOn EXCEPT ![owner[n]] = @ \cup {n}]
    /\ DeleteLease(n)
    /\ UNCHANGED <<now, late, leaseVars>>

-----------------------------------------------------------------------------
(***************************************************************************)
(* Operations under operationMu.                                           *)
(***************************************************************************)

\* Mutants: the drift is not subtracted; the subtraction is reversed.
ValidityWithoutDrift == LeaseDuration
ValidityReversed == ClockDrift - LeaseDuration

Validity == LeaseDuration - ClockDrift

Successes(t) == {n \in Node : call[t][n] = "ok"}
\* Mutant: half of the nodes are enough.
QuorateByHalf(t) == Cardinality(Successes(t)) >= Cardinality(nodes[t]) \div 2
Quorate(t) == IsQuorum(Successes(t), nodes[t])
AllReturned(t) == \A n \in Node : call[t][n] # "sent"

\* The context of a node call: the lease context with deadline validUntil.
CtxDone(t) == ctx[t] # "active" \/ now >= validUntil[t]

\* executeNodes: one call per node at once.  A node returns an error at once
\* when the context is already done.
ExecuteNodes(t, done) ==
    call' = [call EXCEPT ![t] = [n \in Node |->
        IF n \in nodes[t] /\ ~done THEN "sent" ELSE "idle"]]

ForgetCalls(t) == call' = [call EXCEPT ![t] = [n \in Node |-> "idle"]]

\* CancelCauseFunc: only the first cause is kept.
Cancel(t, cause) == ctx' = [ctx EXCEPT ![t] = IF @ = "active" THEN cause ELSE @]

\* One attempt of Locker.Acquire: a fresh token and Lease on the snapshot, and
\* the first lines of acquire up to the start of its coordinator.
NewLease(t) ==
    /\ pc[t] = "new"
    /\ \E S \in Snapshots \ {{}} : nodes' = [nodes EXCEPT ![t] = S]
    /\ validUntil' = [validUntil EXCEPT ![t] = now + Validity]
    /\ pc' = [pc EXCEPT ![t] = "acquire"]
    /\ acq' = [acq EXCEPT ![t] = "start"]
    /\ UNCHANGED <<now, owner, expiresAt, late, lostOn, ctx, mu, call, ren, user,
                   startedAt, wakeAt>>

\* Mutant: the calls are not made under the lease context.
AcquireLockDetached(t) ==
    /\ acq[t] = "start"
    /\ mu[t] = "free"
    /\ mu' = [mu EXCEPT ![t] = "acquire"]
    /\ acq' = [acq EXCEPT ![t] = "run"]
    /\ ExecuteNodes(t, FALSE)
    /\ UNCHANGED <<now, owner, expiresAt, late, lostOn, nodes, ctx, pc, ren, user,
                   validUntil, startedAt, wakeAt>>

\* The coordinator of acquire takes operationMu and calls every node.
AcquireLock(t) ==
    /\ acq[t] = "start"
    /\ mu[t] = "free"
    /\ mu' = [mu EXCEPT ![t] = "acquire"]
    /\ acq' = [acq EXCEPT ![t] = "run"]
    /\ ExecuteNodes(t, CtxDone(t))
    /\ UNCHANGED <<now, owner, expiresAt, late, lostOn, nodes, ctx, pc, ren, user,
                   validUntil, startedAt, wakeAt>>

\* It reports success as soon as a quorum has answered.
AcquireReport(t) ==
    /\ acq[t] = "run"
    /\ Quorate(t)
    /\ acq' = [acq EXCEPT ![t] = "drain"]
    /\ UNCHANGED <<now, owner, expiresAt, late, lostOn, nodes, ctx, mu, call, pc,
                   ren, user, validUntil, startedAt, wakeAt>>

\* Mutant: operationMu stays locked.
AcquireKeepsLock(t) ==
    /\ \/ acq[t] = "drain"
       \/ acq[t] = "run" /\ ~Quorate(t)
    /\ AllReturned(t)
    /\ acq' = [acq EXCEPT ![t] = IF @ = "drain" THEN "ok" ELSE "err"]
    /\ ForgetCalls(t)
    /\ UNCHANGED <<now, owner, expiresAt, late, lostOn, nodes, ctx, mu, pc, ren,
                   user, validUntil, startedAt, wakeAt>>

\* It unlocks operationMu when every call has returned, and reports an error
\* if there was no quorum.
AcquireUnlock(t) ==
    /\ \/ acq[t] = "drain"
       \/ acq[t] = "run" /\ ~Quorate(t)
    /\ AllReturned(t)
    /\ acq' = [acq EXCEPT ![t] = IF @ = "drain" THEN "ok" ELSE "err"]
    /\ mu' = [mu EXCEPT ![t] = "free"]
    /\ ForgetCalls(t)
    /\ UNCHANGED <<now, owner, expiresAt, late, lostOn, nodes, ctx, pc, ren, user,
                   validUntil, startedAt, wakeAt>>

\* acquire receives success in time and starts runRenew.
AcquireSucceeds(t) ==
    /\ pc[t] = "acquire"
    /\ acq[t] \in {"drain", "ok"}
    /\ now < validUntil[t]
    /\ pc' = [pc EXCEPT ![t] = "loop"]
    /\ UNCHANGED <<now, owner, expiresAt, late, lostOn, nodes, ctx, mu, call, acq,
                   ren, user, validUntil, startedAt, wakeAt>>

\* The local validUntil goes out of scope once the lease context is cancelled.
ForgetValidity(t) == validUntil' = [validUntil EXCEPT ![t] = 0]

FailAcquire(t) ==
    /\ pc[t] = "acquire"
    /\ pc' = [pc EXCEPT ![t] = "cleanup"]
    /\ Cancel(t, "failed")
    /\ ForgetValidity(t)
    /\ UNCHANGED <<now, owner, expiresAt, late, lostOn, nodes, mu, call, acq, ren,
                   user, startedAt, wakeAt>>

\* acquire receives an error, or a success that comes too late.
AcquireErr(t) ==
    /\ \/ acq[t] = "err"
       \/ acq[t] \in {"drain", "ok"} /\ now >= validUntil[t]
    /\ FailAcquire(t)

\* The context passed to Acquire ends, at any moment.
AcquireCtxDone(t) == FailAcquire(t)

\* release, called by acquire after a failure or by runRenew after a loss, with
\* a context that is never done.
CleanupLock(t) ==
    /\ pc[t] \in {"cleanup", "lost"}
    /\ mu[t] = "free"
    /\ mu' = [mu EXCEPT ![t] = "release"]
    /\ pc' = [pc EXCEPT ![t] = IF @ = "cleanup" THEN "cleaning" ELSE "losing"]
    /\ ExecuteNodes(t, FALSE)
    /\ UNCHANGED <<now, owner, expiresAt, late, lostOn, nodes, ctx, acq, ren, user,
                   validUntil, startedAt, wakeAt>>

\* The end of release, whoever called it; runRenew then closes done.
ReleaseUnlock(t) ==
    /\ mu[t] = "release"
    /\ AllReturned(t)
    /\ mu' = [mu EXCEPT ![t] = "free"]
    /\ ForgetCalls(t)
    /\ pc' = [pc EXCEPT ![t] = IF @ = "cleaning" THEN "failed"
                               ELSE IF @ = "losing" THEN "done" ELSE @]
    /\ user' = [user EXCEPT ![t] = IF @ = "release" THEN "returned" ELSE @]
    /\ UNCHANGED <<now, owner, expiresAt, late, lostOn, nodes, ctx, acq, ren,
                   validUntil, startedAt, wakeAt>>

-----------------------------------------------------------------------------
(***************************************************************************)
(* Renewal and Release.                                                    *)
(***************************************************************************)

\* runRenew breaks out of its loop and cancels the lease.
Lose(t) ==
    /\ pc' = [pc EXCEPT ![t] = "lost"]
    /\ Cancel(t, "lost")
    /\ ForgetValidity(t)

\* The head of the loop of runRenew: stop when no validity remains, or arm the
\* timer with two thirds of it left.
RenewLoop(t) ==
    /\ pc[t] = "loop"
    /\ \/ now >= validUntil[t] /\ Lose(t) /\ UNCHANGED wakeAt
       \/ /\ now < validUntil[t]
          /\ pc' = [pc EXCEPT ![t] = "timer"]
          /\ wakeAt' = [wakeAt EXCEPT ![t] = now + (validUntil[t] - now) \div 3]
          /\ UNCHANGED <<ctx, validUntil>>
    /\ UNCHANGED <<now, owner, expiresAt, late, lostOn, nodes, mu, call, acq, ren,
                   user, startedAt>>

\* The timer fires and renew starts its coordinator.
RenewTimer(t) ==
    /\ pc[t] = "timer"
    /\ now >= wakeAt[t]
    /\ pc' = [pc EXCEPT ![t] = "renew"]
    /\ ren' = [ren EXCEPT ![t] = "start"]
    /\ wakeAt' = [wakeAt EXCEPT ![t] = 0]
    /\ UNCHANGED <<now, owner, expiresAt, late, lostOn, nodes, ctx, mu, call, acq,
                   user, validUntil, startedAt>>

\* runRenew sees the cancelled lease context while it waits for the timer.
RenewCancelled(t) ==
    /\ pc[t] = "timer"
    /\ ctx[t] # "active"
    /\ pc' = [pc EXCEPT ![t] = "done"]
    /\ wakeAt' = [wakeAt EXCEPT ![t] = 0]
    /\ ForgetValidity(t)
    /\ UNCHANGED <<now, owner, expiresAt, late, lostOn, nodes, ctx, mu, call, acq,
                   ren, user, startedAt>>

\* The coordinator of renew gets operationMu and finds its context done.
RenewTooLate(t) ==
    /\ ren[t] = "start"
    /\ mu[t] = "free"
    /\ CtxDone(t)
    /\ ren' = [ren EXCEPT ![t] = "err"]
    /\ UNCHANGED <<now, owner, expiresAt, late, lostOn, nodes, ctx, mu, call, pc,
                   acq, user, validUntil, startedAt, wakeAt>>

\* The coordinator of renew starts an attempt: the first one when it gets
\* operationMu, and a further one when the backoff interval is over.
RenewAttempt(t) ==
    /\ \/ ren[t] = "start" /\ mu[t] = "free" /\ ~CtxDone(t)
       \/ ren[t] = "wait"
    /\ mu' = [mu EXCEPT ![t] = "renew"]
    /\ ren' = [ren EXCEPT ![t] = "run"]
    /\ startedAt' = [startedAt EXCEPT ![t] = now]
    /\ ExecuteNodes(t, CtxDone(t))
    /\ UNCHANGED <<now, owner, expiresAt, late, lostOn, nodes, ctx, pc, acq, user,
                   validUntil, wakeAt>>

\* Every node has answered and the attempt falls short of a quorum: back off,
\* still under operationMu.
RenewBackOff(t) ==
    /\ ren[t] = "run"
    /\ AllReturned(t)
    /\ ~CtxDone(t)
    /\ ~Quorate(t)
    /\ ren' = [ren EXCEPT ![t] = "wait"]
    /\ ForgetCalls(t)
    /\ UNCHANGED <<now, owner, expiresAt, late, lostOn, nodes, ctx, mu, pc, acq,
                   user, validUntil, startedAt, wakeAt>>

\* Mutant: operationMu stays locked.
RenewKeepsLock(t, outcome) ==
    /\ ren' = [ren EXCEPT ![t] = outcome]
    /\ ForgetCalls(t)
    /\ UNCHANGED <<now, owner, expiresAt, late, lostOn, nodes, ctx, mu, pc, acq,
                   user, validUntil, startedAt, wakeAt>>

RenewUnlock(t, outcome) ==
    /\ ren' = [ren EXCEPT ![t] = outcome]
    /\ mu' = [mu EXCEPT ![t] = "free"]
    /\ ForgetCalls(t)
    /\ UNCHANGED <<now, owner, expiresAt, late, lostOn, nodes, ctx, pc, acq, user,
                   validUntil, startedAt, wakeAt>>

\* Mutant: the end of the current validity is not checked.
RenewSucceedsLate(t) ==
    /\ ren[t] = "run"
    /\ AllReturned(t)
    /\ ctx[t] = "active"
    /\ Quorate(t)
    /\ RenewUnlock(t, "ok")

\* A quorum renewed the lease before its current validity ended.
RenewSucceeds(t) ==
    /\ ren[t] = "run"
    /\ AllReturned(t)
    /\ ~CtxDone(t)
    /\ Quorate(t)
    /\ RenewUnlock(t, "ok")

\* The attempt outlived its context or the current validity.
RenewExpires(t) ==
    /\ ren[t] = "run"
    /\ AllReturned(t)
    /\ CtxDone(t)
    /\ RenewUnlock(t, "err")

\* The backoff stops, by its configuration or because the context is done.
RenewStops(t) ==
    /\ ren[t] = "wait"
    /\ RenewUnlock(t, "err")

\* Mutant: the new validity counts from the end of the attempt.
RenewResultFromNow(t) ==
    /\ pc[t] = "renew"
    /\ ren[t] = "ok"
    /\ validUntil' = [validUntil EXCEPT ![t] = now + Validity]
    /\ ren' = [ren EXCEPT ![t] = "none"]
    /\ pc' = [pc EXCEPT ![t] = "loop"]
    /\ startedAt' = [startedAt EXCEPT ![t] = 0]
    /\ UNCHANGED <<now, owner, expiresAt, late, lostOn, nodes, ctx, mu, call, acq,
                   user, wakeAt>>

\* renew returns the new deadline to runRenew.
RenewResult(t) ==
    /\ pc[t] = "renew"
    /\ ren[t] = "ok"
    /\ validUntil' = [validUntil EXCEPT ![t] = startedAt[t] + Validity]
    /\ ren' = [ren EXCEPT ![t] = "none"]
    /\ pc' = [pc EXCEPT ![t] = "loop"]
    /\ startedAt' = [startedAt EXCEPT ![t] = 0]
    /\ UNCHANGED <<now, owner, expiresAt, late, lostOn, nodes, ctx, mu, call, acq,
                   user, wakeAt>>

\* Mutant: renew waits for its coordinator only.
RenewErrWaits(t) ==
    /\ pc[t] = "renew"
    /\ ren[t] = "err"
    /\ \/ ctx[t] = "active" /\ Lose(t)
       \/ /\ ctx[t] # "active"
          /\ pc' = [pc EXCEPT ![t] = "done"]
          /\ ForgetValidity(t)
          /\ UNCHANGED ctx
    /\ UNCHANGED <<now, owner, expiresAt, late, lostOn, nodes, mu, call, acq, ren,
                   user, startedAt, wakeAt>>

\* renew returns an error to runRenew: the coordinator's, or that of its own
\* context, whatever the coordinator is doing.
RenewErr(t) ==
    /\ pc[t] = "renew"
    /\ ren[t] = "err" \/ CtxDone(t)
    /\ \/ ctx[t] = "active" /\ Lose(t)
       \/ /\ ctx[t] # "active"
          /\ pc' = [pc EXCEPT ![t] = "done"]
          /\ ForgetValidity(t)
          /\ UNCHANGED ctx
    /\ UNCHANGED <<now, owner, expiresAt, late, lostOn, nodes, mu, call, acq, ren,
                   user, startedAt, wakeAt>>

\* The holder calls Lease.Release.
Release(t) ==
    /\ t \in Releasers
    /\ pc[t] \in {"loop", "timer", "renew", "lost", "losing", "done"}
    /\ user[t] = "none"
    /\ user' = [user EXCEPT ![t] = "wait"]
    /\ Cancel(t, "released")
    /\ UNCHANGED <<now, owner, expiresAt, late, lostOn, nodes, mu, call, pc, acq,
                   ren, validUntil, startedAt, wakeAt>>

\* The context passed to Release ends before it has operationMu.
ReleaseGivesUp(t) ==
    /\ user[t] = "wait"
    /\ user' = [user EXCEPT ![t] = "gaveup"]
    /\ UNCHANGED <<now, owner, expiresAt, late, lostOn, nodes, ctx, mu, call, pc,
                   acq, ren, validUntil, startedAt, wakeAt>>

\* Renewal is done: Release takes operationMu and calls every node.
ReleaseLock(t) ==
    /\ user[t] = "wait"
    /\ pc[t] = "done"
    /\ mu[t] = "free"
    /\ mu' = [mu EXCEPT ![t] = "release"]
    /\ user' = [user EXCEPT ![t] = "release"]
    /\ ExecuteNodes(t, FALSE)
    /\ UNCHANGED <<now, owner, expiresAt, late, lostOn, nodes, ctx, pc, acq, ren,
                   validUntil, startedAt, wakeAt>>

Tick ==
    /\ now < MaxTime
    /\ now' = now + 1
    /\ UNCHANGED <<owner, expiresAt, late, lostOn, leaseVars>>

-----------------------------------------------------------------------------
\* The goroutine that runs acquire and its cleanup.
AcquireStep(t) ==
    \/ NewLease(t) \/ AcquireSucceeds(t) \/ AcquireErr(t) \/ AcquireCtxDone(t)

AcquireCoordinatorStep(t) == AcquireLock(t) \/ AcquireReport(t) \/ AcquireUnlock(t)

RunRenewStep(t) ==
    RenewLoop(t) \/ RenewTimer(t) \/ RenewCancelled(t) \/ RenewResult(t) \/ RenewErr(t)

RenewCoordinatorStep(t) ==
    \/ RenewTooLate(t) \/ RenewAttempt(t) \/ RenewBackOff(t)
    \/ RenewSucceeds(t) \/ RenewExpires(t) \/ RenewStops(t)

ReleaseStep(t) ==
    \/ CleanupLock(t) \/ ReleaseUnlock(t)
    \/ Release(t) \/ ReleaseGivesUp(t) \/ ReleaseLock(t)

Next ==
    \/ Tick
    \/ \E t \in Token :
        \/ AcquireStep(t) \/ AcquireCoordinatorStep(t)
        \/ RunRenewStep(t) \/ RenewCoordinatorStep(t) \/ ReleaseStep(t)
    \/ \E t \in Token, n \in Node : CallServed(t, n) \/ CallFails(t, n)
    \/ \E r \in late : LateServed(r)
    \/ \E n \in Node : Restart(n)

Spec == Init /\ [][Next]_vars

\* Goroutines are scheduled: a lease's goroutine that can take a step takes one.
\* Starting an acquisition, the end of a caller's context, calling Release and a
\* backoff that stops are choices, and get no fairness.
GoroutineFairness ==
    \A t \in Token :
        /\ WF_vars(AcquireSucceeds(t) \/ AcquireErr(t))
        /\ WF_vars(AcquireCoordinatorStep(t))
        /\ WF_vars(RunRenewStep(t))
        /\ WF_vars(RenewTooLate(t) \/ RenewAttempt(t) \/ RenewBackOff(t)
                   \/ RenewSucceeds(t) \/ RenewExpires(t))
        /\ WF_vars(CleanupLock(t) \/ ReleaseUnlock(t) \/ ReleaseLock(t))

\* A node call returns: NodeCallTimeout bounds it and a Node returns promptly
\* when its context is done.
CallFairness ==
    \A t \in Token, n \in Node : WF_vars(CallServed(t, n) \/ CallFails(t, n))

\* Only the renewal goroutine is sure to run; node calls may hang for ever.
HangingSpec == Spec /\ \A t \in Token : WF_vars(RunRenewStep(t))

-----------------------------------------------------------------------------
(***************************************************************************)
(* Properties.                                                             *)
(***************************************************************************)

HeldPC == {"loop", "timer", "renew"}

\* The end of the validity the lease can rely on: a renewal that reached its
\* quorum counts from then on, before runRenew has received it.
ValidEnd(t) ==
    IF pc[t] = "renew" /\ ren[t] = "ok" THEN startedAt[t] + Validity ELSE validUntil[t]

\* Acquire has returned the lease, its context is not done, and it is valid.
Live(t) == pc[t] \in HeldPC /\ ctx[t] = "active" /\ now < ValidEnd(t)

\* Two leases are never live together unless a node restart wiped one of them
\* from a node: Locker.Acquire and the renewals of runRenew give exclusion
\* whatever the delays, the timeouts and the drift of the node clocks.
MutualExclusion ==
    \A t1, t2 \in Token :
        Live(t1) /\ Live(t2) /\ t1 # t2 => lostOn[t1] \cup lostOn[t2] # {}

\* Once the release of a failed, lost or released lease has started, no other
\* call of that lease is outstanding or will be sent: operationMu and the
\* cancelled lease context order Release behind every Acquire and Renew.
CleanupIsLast ==
    \A t \in Token :
        \/ pc[t] \in {"cleaning", "failed", "losing"}
        \/ user[t] \in {"release", "returned"}
        => \A n \in Node : call[t][n] = "sent" => mu[t] = "release"

\* While a lease is not cancelled, no node drops or replaces an entry of it that
\* is not yet due, except by a restart: the token checks of MemoryStore.
EntryStable ==
    [][\A n \in Node : \A t \in Token :
        /\ owner[n] = t
        /\ ctx[t] = "active"
        /\ now + ClockDrift < expiresAt[n]
        => \/ owner'[n] = t /\ expiresAt'[n] >= expiresAt[n]
           \/ n \in lostOn'[t]]_vars

\* "no node can create this lease after cleanup has run" (comment in acquire).
NoLeaseCreatedAfterCleanup ==
    [][\A t \in Token, n \in Node :
        pc[t] = "failed" /\ owner[n] # t => owner'[n] # t]_vars

\* A lease whose validity is over is cancelled, so that its holder stops, even
\* if node calls never return: renew and runRenew watch the deadline themselves.
LossSignalled ==
    \A t \in Token :
        pc[t] \in HeldPC /\ ctx[t] = "active" /\ now >= ValidEnd(t) ~> ctx[t] # "active"

\* Every attempt of acquire returns, successful or cleaned up, if node calls
\* return: operationMu, the result channel and the drain of the calls never
\* block it for good.
AcquireReturns ==
    GoroutineFairness /\ CallFairness =>
        \A t \in Token :
            pc[t] \in {"acquire", "cleanup", "cleaning"}
                ~> pc[t] \notin {"acquire", "cleanup", "cleaning"}

\* Lease.Release returns if node calls return, whatever renewal was doing when
\* it was called.
ReleaseReturns ==
    GoroutineFairness /\ CallFairness =>
        \A t \in Token : user[t] = "wait" ~> user[t] \in {"returned", "gaveup"}

\* The lease behaves as LeaseService while no node restarts.
Abstract == INSTANCE LeaseService WITH
    holder <- IF \E t \in Token : Live(t) THEN CHOOSE t \in Token : Live(t) ELSE NoToken,
    past <- {t \in Token : pc[t] \in HeldPC \cup {"lost", "losing", "done"}}
ImplementsLeaseService == Abstract!Spec

-----------------------------------------------------------------------------
(***************************************************************************)
(* The inductive invariant behind MutualExclusion: a lease is backed by a  *)
(* quorum of nodes that cannot drop it before its validity ends.           *)
(***************************************************************************)

\* Node n keeps the lease at least until v, unless a restart wiped it.
Backed(t, n, v) ==
    \/ n \in lostOn[t]
    \/ now >= v
    \/ owner[n] = t /\ v + ClockDrift <= expiresAt[n]

QuorumBacked(t, v) ==
    \E Q \in SUBSET nodes[t] : IsQuorum(Q, nodes[t]) /\ \A n \in Q : Backed(t, n, v)

\* operationMu and the goroutine that holds it.
MuInv(t) ==
    /\ mu[t] = "acquire" <=> acq[t] \in {"run", "drain"}
    /\ mu[t] = "renew" <=> ren[t] \in {"run", "wait"}
    /\ mu[t] = "release" => ctx[t] # "active"
    /\ \A n \in Node : call[t][n] # "idle" => n \in nodes[t] /\ mu[t] # "free"

\* The goroutines of a lease that is not cancelled.
PcInv(t) ==
    /\ nodes[t] \in Snapshots \cup {{}}
    /\ pc[t] # "new" => nodes[t] # {}
    /\ pc[t] = "new" => acq[t] = "none"
    /\ pc[t] \in {"new", "acquire"} => ctx[t] = "active"
    /\ pc[t] \in HeldPC => acq[t] \in {"drain", "ok"}
    /\ ctx[t] = "active" => pc[t] \in {"new", "acquire"} \cup HeldPC
    /\ ren[t] # "none" => pc[t] \in {"renew", "lost", "losing", "done"}

TimeInv(t) ==
    /\ validUntil[t] <= now + Validity
    /\ startedAt[t] <= now
    /\ ctx[t] = "active" /\ ren[t] \in {"run", "wait", "ok"}
        => validUntil[t] <= startedAt[t] + Validity

LateInv == \A r \in late : r.kind = "release" => ctx[r.token] # "active"

GrantInv(t) ==
    ctx[t] = "active" =>
        /\ acq[t] = "run" =>
            \A n \in Node : call[t][n] = "ok" => Backed(t, n, validUntil[t])
        /\ acq[t] \in {"drain", "ok"} => QuorumBacked(t, validUntil[t])
        /\ ren[t] = "run" =>
            \A n \in Node : call[t][n] = "ok" => Backed(t, n, startedAt[t] + Validity)
        /\ ren[t] = "ok" => QuorumBacked(t, startedAt[t] + Validity)

IInv ==
    /\ TypeOK
    /\ \A n \in Node : expiresAt[n] <= now + LeaseDuration
    /\ LateInv
    /\ \A t \in Token : MuInv(t) /\ PcInv(t) /\ TimeInv(t) /\ GrantInv(t)
=============================================================================
