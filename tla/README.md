# A TLA+ verification of uncloud

This directory holds TLA+ specifications of uncloud, the TLC configurations that model-check them on small instances,
and TLAPS proofs of the theorems that matter most. `PROJECT.json` links every definition to the source lines it
models and lists the runs, the mutants (a mutated definition that must break a property), the hazards and the findings.

To check a run: `tlc -config DistLock.cfg MCDistLock`. To check the proofs: `tlapm DistLockProofs.tla`.

## The system

uncloud runs containers on a cluster of machines without a central control plane.

| Part | State | Operations | Talks to |
| --- | --- | --- | --- |
| Client, `pkg/client` and `uc` | none between commands | deploy, stop, start, remove services; add and remove machines | the API proxy of one machine |
| Rolling deployment, `pkg/client/deploy` | a plan: a list of operations | plan, run/replace/remove/stop containers, run pre-deploy hooks | the Docker servers of the machines |
| Volume scheduler, `pkg/client/deploy/scheduler/volume.go` | eligible machines per service and volume | propagate constraints, schedule | the deployment |
| Leases, `pkg/distlock` | leases in a MemoryStore per machine, Lease objects in clients | acquire, renew, release | the Lease service of every machine |
| Log merging, `pkg/client/logmerger.go` | a queue, a watermark, semaphores per stream | read, emit in order, detect stalls | log streams |
| API proxy, `internal/machine/api/proxy` | caches of backends and connections | route one-to-one and one-to-many calls, flush | the machine API servers |
| Machine daemon, `internal/machine` | state.json, the initialised channel | init, join, reset, run | cluster controller, store |
| Cluster controller, `internal/machine/cluster.go` | peers, endpoints | sync the store before joining, sync machine info, configure peers | store, WireGuard |
| Membership, `internal/machine/cluster` | machine rows, allocated subnets | add, update, remove, list machines | store |
| WireGuard network, `internal/machine/network` | peers with status and endpoints | configure, rotate endpoints, notify watchers | kernel |
| Store, `internal/machine/store`, `internal/corrosion` | an eventually consistent SQLite (Corrosion) | rows, subscriptions, resubscription | the stores of the other machines |
| Docker controller and server, `internal/machine/docker` | containers, their specs in a local database | create, start, stop, remove; sync containers to the store | Docker, store |
| Caddy controller, `internal/machine/caddyconfig` | the fingerprint of the last loaded configuration | generate, load, write the Caddyfile | store subscription, Caddy |
| DNS, `internal/machine/dns` | service name to addresses | update from the store, answer, forward | store subscription |
| Corrosion service, migration | the old store, the seed file | start, restart, migrate, apply the seed | files |

What makes it hard: commands are sequences of remote calls that can fail, take effect without an answer, or be cut
off anywhere and run again; every machine decides from its own, possibly stale, replica of the store; leases depend on
clocks that drift; goroutines meet in mutexes and unbuffered channels. What it has to get right: one holder of a lease
at a time; a deployment that keeps the service running, ends in what the spec asks for and can be retried; one writer
of a volume; a cluster in which names and subnets are unique; derived state (Caddy, DNS, peers) that follows the store.

`PROJECT.json` lists all the parts with their status, and every hazard at the line where it bites.

## Plan

1. **Done:** `DistLock`, `LeaseService`, `DistLockProofs` (leases); `Rollout` (deployments and service commands);
   `LogMerger` (merged log streams).
2. `CaddyController` (what Caddy runs follows the store), `CorroMigrate` (crash at every step; idempotence),
   `ProxyBackends` (caches under concurrency).
3. `VolumeScheduler` (propagation against a reference definition; with `Rollout` for the machines it yields).
4. `Membership` (replicas of the store, add and remove machines, IPAM), `MachineLifecycle` (init, join, reset with
   crashes) composed with it; an abstract membership with unique subnets that it implements while adds are serialised.
5. `Subscription` (gaps, resubscription) and `ContainerSync` (Docker events, debouncing, store, subscribers) composed
   with `CaddyController` and DNS: the derived state eventually equals a function of the containers.
6. `Peers` (endpoint rotation and the lock order of controller and network loop).
7. Two concurrent deployments in `Rollout`, and deployments under a lease of `DistLock`.
8. Proofs, after each module is checked: `Rollout` (HookGate, OneHookAtATime, at most one operation in progress),
   `LogMerger` (order while no stream stalls), `CaddyController` and `ContainerSync` (safety), `Membership`
   (uniqueness under serialised adds), `CorroMigrate` (no data is lost).

Bounds stay at two or three machines, two or three concurrent actors and one or two faults of each kind. The modules
use no recursive operators, so that theorems can be stated about them.

## DistLock: leases

`DistLock` models `pkg/distlock/locker.go`, the `MemoryStore` and the Lease service for one resource. A token is one
acquisition attempt. Its goroutines have a control variable each: `pc` (the caller of `acquire`, later `runRenew`),
`acq` and `ren` (the coordinators of `acquire` and `renew`, whose final values stand for the one-slot result
channels), `user` (a caller of `Release`). They meet in `mu` (`operationMu`) and `ctx` (the lease context). A node call
is sent, executed by the node or not, and answered or not; an abandoned request can be executed later (`late`), and
a restarting node loses its store (`lostOn` records it). Lockers read an exact clock; a node may judge expiry up to
`ClockDrift` early or late. `LeaseService` is the abstract specification: one holder, and none comes back.

| Run | Instance | Shows |
| --- | --- | --- |
| `distlock_quorum` | 3 nodes, 2 attempts | `MutualExclusion`; implements `LeaseService` |
| `distlock_drift` | 2 nodes, drift 1 of 3 ticks, a caller of Release | exclusion at the boundary of validity; `CleanupIsLast`; `EntryStable` |
| `distlock_faults` | 2 nodes, one of them new to some clients, one late request | the inductive invariant `IInv`; `EntryStable` |
| `distlock_live` | 1 attempt on 2 nodes, one of which restarts, one late request | `IInv`; `LossSignalled` though calls hang; `AcquireReturns` and `ReleaseReturns` when they end |
| `distlock_late_request` | one late request | *violation:* a cancelled Acquire call is executed after the cleanup |

Two attempts suffice to break exclusion, three nodes are the smallest set with a proper majority, and the clock runs
for the duration of one lease, so that expiry and renewal both happen. Restarts are checked with one attempt only, for
the sake of the time TLC takes; the proofs have no such bound. Deadlock is not checked: the system may rest,
and the clock is bounded. Fairness: `HangingSpec` assumes only that Go schedules `runRenew` when it can run, so node
calls may hang for ever. `AcquireReturns` and `ReleaseReturns` assume more, and say so: every goroutine is scheduled
(`GoroutineFairness`), and a node call ends because its context has a deadline (`CallFairness`).

### Proofs

`DistLockProofs` proves, for all constants that satisfy the assumptions of `DistLock` (finitely many nodes,
`ClockDrift <= LeaseDuration`, snapshots whose quorums meet):

- `Invariance`: `IInv` is inductive. Exclusion alone is not: it needs that every active lease is *backed* by a quorum
  of nodes that store its token until `ClockDrift` after its validity (`GrantInv`), and for that to be kept, who
  holds `operationMu` and which calls can be outstanding (`MuInv`, `PcInv`), how deadlines relate to the clock
  (`TimeInv`), and that late release requests belong to cancelled leases (`LateInv`).
- `TypeCorrect`, `Exclusion`: two live leases would have two backing quorums, which share a node with two owners.
- `EntriesStable`: the action property, from the same invariant.
- `Refinement`: with no restarts, every step is a step of `LeaseService` or a stutter.
- `QuorumsOverlap`, `OneMachineAtATime`: when snapshots satisfy the assumption; one machine added or removed is safe.

Liveness is checked by TLC only.

## Rollout: deployments

`Rollout` models one service. `containers` holds every container ever created (in the order of creation, with its
service ID, machine, spec, kind and state); `up` the reachable machines; `cli` the command in progress with its plan
and position, or how the last command ended. `Plans` is `RollingStrategy.Plan` as a set, because machines are shuffled
and Go iterates over maps in any order: `planReplicated` (the sorts, the round robin and the removals), `planGlobal` with
`reconcileGlobalContainer`, `determineUpdateOrder`, `preDeployOperations`. `Deploy` is `Validate` (the snapshot of the
containers), `Plan` the rest of planning, at a later moment. Every client call of an operation is an action: `InspectOld`,
`StopFirst`, `Create`, `Start`, `Healthy` or `Unhealthy`, `RollbackStop`, `RollbackStart`, `StopOld`, `RemoveOld`, `Stop`,
`StopHook`, `RemoveHook`, `HookExited`, `HookTimeout`. `Call` is what they share: the call works, or is refused, or fails
before or after its effect. `Abort` interrupts a command anywhere after planning. `StopService`, `StartService` and
`RemoveService` make one call per container in any order. Docker is external: it refuses to bind a taken host port and
to remove a running container, and lists the newest container first.

A spec is abstracted to what planning and Docker tell apart; `version` stands for the other compared fields.
Resource-only updates count as another version, since the code recreates in both cases. Commands run one after the other.

| Run | Instance | Shows |
| --- | --- | --- |
| `rollout_replicated` | 2 machines, up to 2 replicas, 3 deployments; a fault, an unhealthy container, an outage at any moment | `KeepsReplicas`, `Converged`, `Idempotent` |
| `rollout_global` | 2 machines, host ports, an unhealthy container, an interruption, a stop, start or remove in between | `OneServiceID`, `KeepsMachines`, `Converged`, `CleanDeploymentSucceeds` |
| `rollout_hooks` | global service with a volume and a hook on 1 machine, 3 deployments, plain or forced and unmonitored; a fault, an unhealthy container, an interruption, an outage | `HookGate`, `OneHookAtATime`, `SingleWriter`, `DeploymentsEnd` |
| `rollout_retry_volume` | replicated service with a volume | *violation* of `SingleWriter` |
| `rollout_retry_unhealthy` | replicated service | *violation* of `SuccessMeansHealthy` |

The violations are two ways in which a retry after a failed update departs from the documentation; the findings in
`PROJECT.json` quote it. For replicated services `planReplicated` may pick the stopped container of the failed
update as the one to replace. With a volume the new container then runs beside the old one; with a host port in place
of the volume its start fails, on every retry. Global services are not affected, as `rollout_global` and
`rollout_hooks` show.

Three deployments give a first version, a failing update and a retry; two machines give every order of the
round robin; the bound on containers is never reached. Deadlock is not checked, since the user may stop giving
commands.

`SingleWriter` counts every running container that mounts the volume. A pre-deploy hook keeps the mounts of its service
and runs before the old container is replaced, so old container and hook write side by side on every update; that is
how hooks are documented, and the one overlap the property admits. What it excludes is a container that is started
beside an older one or beside a hook, the hook of an interrupted deployment included. It is stated for services that
leave the update order to the default and keep their hook, until there are faults (an ignored error of the rollback's
stop leaves both containers running), outages, or service commands (`uc start` starts failed containers too). Two things
about interrupted hooks follow from the code and are not covered: `waitForExit` stops the hook of a cancelled
deployment with the context that was cancelled, so the hook keeps running; and a later deployment whose spec has no
hook does not stop it. Volumes are those of one name.

`OneHookAtATime` and `OneServiceID` are stated for clusters without outages, and an outage does break them: a deployment
sees neither the hook nor the service ID of a machine that doesn't answer. `Converged` speaks of the containers the
deployment knows of, for the same reason.

`DeploymentsEnd` is checked under weak fairness of `Step` while all machines answer (`Answered`). Client calls have no
deadline: the connectors set a retry policy and nothing else, and most calls first list the containers of all machines.
A call to a machine that doesn't answer may fail or never return, so the model promises no step during an outage, and
`DeploymentsEnd` promises no end. This holds for a hook as well: `waitForExit` polls with `ctx`, not with the
`timeoutCtx` that carries the hook's timeout, so a poll that never returns holds up the deployment beyond the timeout.
While the machines answer, calls return, health monitoring is bounded by the monitor period or the health check's
own timeout, and the select of `waitForExit` takes the expired timeout sooner or later, as Go picks among ready cases
at random. No machine has to come back and no hook has to exit. That `uc stop`, `start` and `rm` end is not checked.

Nothing about `Rollout` is proved yet: it is model-checked only.

## LogMerger: merged log streams

`LogMerger` models `pkg/client/logmerger.go`. `input` is what each stream carries: logs, heartbeats, errors, and logs
whose timestamp could not be parsed (0). A reader goroutine receives an entry (`Receive`), waits for a slot of its
stream's semaphore (`AcquireSlot`) and hands it to the run loop (`HandleEntry`, `HandleClosed`), which updates the
watermark and emits entry by entry (`Emit`, `EndEmit`), so that readers run in between. `Stall` is a tick that finds
streams without events for the timeout; wall-clock time is abstracted, so it may find any stream that is neither closed
nor stalled. That includes a stream whose reader waits for a slot, because such a stream sends no events either.
`Flush` and `Finish` are the end. That every stream is in the order of its timestamps is an assumption
(`OrderAssumption`). The error entries that announce a stall are left out of `out`.

| Run | Instance | Shows |
| --- | --- | --- |
| `log_merger` | 2 streams of up to 2 entries of every kind, 1 slot each, up to 2 ticks with stalls | `SlotsExact`, `NothingLost`, `Ordered`, `ClosesUnlessStalled` |
| `log_merger_throttled` | 2 streams of up to 3 logs | *violation* of `OutputCloses` |

One slot instead of 100 makes throttling happen with two entries; two timestamps tell earlier, equal and later apart.
`FairSpec` assumes that the run loop and the readers are scheduled, that the streams end and that the output is read.
The violation: one stream's reader waits for a slot because the other stream is behind, it is therefore taken for
stalled, and the other stream closes; with no active stream the watermark never moves again. All of this is
model-checked only; a proof of `Ordered` is planned.

## Not modelled

Everything the plan lists from step 2 on, yet. Not planned: the command line and its output, connectors and SSH, key
handling and netlink, firewall rules, formatting of Caddyfiles, parsing of Compose files and specs, image push and pull,
the test cluster and the experiments: I/O and conversions without a protocol of their own.
