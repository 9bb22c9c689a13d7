------------------------------ MODULE Rollout ------------------------------
(***************************************************************************)
(* A rolling deployment of one service: pkg/client/deploy plans a sequence *)
(* of operations from what the machines report (RollingStrategy), and      *)
(* pkg/client/deploy/operation executes them, one client call at a time.   *)
(* The machines run Docker; a call can fail, be lost after it took effect, *)
(* or find its machine unreachable; the command itself can be interrupted  *)
(* between any two calls and be run again with the same or another spec.   *)
(* The other commands that change the same containers (uc stop, uc start,  *)
(* uc rm) are modelled with the calls they make.                           *)
(***************************************************************************)
EXTENDS Naturals, FiniteSets, SequencesExt

CONSTANTS
  Machines,        \* the machines of the cluster
  Specs,           \* the specifications a user may deploy
  Flags,           \* how: records of force (--recreate) and skipHealth
  Mode,            \* the mode of the service, which a deployment can't change
  VolumeOn,        \* the machines that have the data volume of the service
  MaxContainers,   \* bound: containers ever created
  MaxDeployments,  \* bound: deployments started
  MaxCommands,     \* bound: stop, start and remove commands
  MaxFaults,       \* bound: calls that fail or lose their response
  MaxUnhealthy,    \* bound: health monitoring periods that fail
  MaxAborts,       \* bound: commands interrupted half-way
  MaxOutages       \* bound: machines becoming unreachable

Ids == 1..MaxContainers

(***************************************************************************)
(* A ServiceSpec, by what the strategy and Docker tell apart: "version"    *)
(* stands for the fields of the container that EvalContainerSpecChange     *)
(* compares, a host port is a pair of a port and an address or "any".      *)
(***************************************************************************)
ASSUME SpecsAssumption ==
  \A s \in Specs : /\ s.replicas \in Nat \ {0}
                   /\ s.order \in {"", "start-first", "stop-first"}
                   /\ {s.volume, s.preDeploy, s.pullAlways} \subseteq BOOLEAN
                   /\ s.placement \subseteq Machines
                   /\ IsFiniteSet(s.hostPorts)

ASSUME FlagsAssumption == Flags \subseteq [force : BOOLEAN, skipHealth : BOOLEAN]

ASSUME ModeAssumption == Mode \in {"replicated", "global"}

VARIABLES
  containers,  \* per container ID, in the order of creation
  up,          \* the machines that answer
  cli,         \* the command in progress, or the outcome of the last one
  used         \* how much of each bound has been used

vars == <<containers, up, cli, used>>

None == [state |-> "none"]

ContainerStates == {"created", "running", "exited"}

\* What a container of this service is: the service ID in its label, its
\* machine and spec, whether it is the container of a pre-deploy hook, its
\* state, whether health monitoring approved it, and the exit code of a hook.
Container(sid, m, s, hook) ==
  [service |-> sid, machine |-> m, spec |-> s, hook |-> hook,
   state |-> "created", passed |-> FALSE, code |-> 0]

Exists(id) == containers[id].state \in ContainerStates
Running(id) == containers[id].state = "running"

\* What InspectService finds under the name of the service: the containers of
\* the reachable machines. It fails if they carry different service IDs.
Visible == {id \in Ids : Exists(id) /\ containers[id].machine \in up}
ServiceIDs == {containers[id].service : id \in Visible}

Created == Cardinality({id \in Ids : containers[id].state # "none"})

\* The regular containers that run the service.
Serving == {id \in Ids : Running(id) /\ ~containers[id].hook}

\* The state of a command: where it is (pc), the service ID, spec and flags
\* of a deployment, what it saw when it started (seen, running) and the
\* machines it planned for, the operations left, the container the current
\* one creates and whether its old one was running, the old hooks left to
\* remove (todo), the calls left of a stop, start or remove command
\* (pending), and how the command ended. "first" is the number of containers
\* created before it and "clean" tells that no fault happened since.
Idle ==
  [pc |-> "idle", result |-> "none", service |-> 0, spec |-> CHOOSE s \in Specs : TRUE,
   force |-> FALSE, skipHealth |-> FALSE, seen |-> {}, running |-> {},
   first |-> 0, machines |-> {}, plan |-> <<>>, new |-> 0,
   wasRunning |-> FALSE, todo |-> <<>>, pending |-> {}, clean |-> TRUE]

Init ==
  /\ containers = [id \in Ids |-> None]
  /\ up = Machines
  /\ cli = Idle
  /\ used = [deployments |-> 0, commands |-> 0, faults |-> 0, unhealthy |-> 0,
             aborts |-> 0, outages |-> 0]

-----------------------------------------------------------------------------
(* Planning: pkg/client/deploy/strategy.go, container.go, scheduler.      *)

\* Two host ports conflict if their numbers are equal and one of them is
\* published on all the addresses, or both on the same one.
PortsConflict(p, q) ==
  /\ p[1] = q[1]
  /\ p[2] = "any" \/ q[2] = "any" \/ p[2] = q[2]

ConflictingServicePorts(old, new) ==
  {p \in new.hostPorts : \E q \in old.hostPorts : PortsConflict(p, q)}

\* EvalContainerSpecChange: number of replicas, update order and pre-deploy
\* hook are not compared; anything else that differs needs a new container.
UpToDateSpec(old, new) ==
  /\ ~new.pullAlways
  /\ old.version = new.version
  /\ old.placement = new.placement
  /\ old.hostPorts = new.hostPorts
  /\ old.volume = new.volume

UpToDate(id) ==
  /\ id \in cli.running
  /\ ~cli.force
  /\ UpToDateSpec(containers[id].spec, cli.spec)

\* The machines of "available" that meet the constraints; ListVolumes knows
\* of the volumes on the reachable machines only.
EligibleMachines(s, available) ==
  {m \in available : /\ s.placement = {} \/ m \in s.placement
                     /\ s.volume => m \in VolumeOn \cap up}

\* Mutants: the order without the check of the ports, or of the volumes.
determineUpdateOrderNoPorts(old, new) ==
  IF new.order # "" THEN new.order
  ELSE IF new.replicas <= 1 /\ new.volume THEN "stop-first"
  ELSE "start-first"
determineUpdateOrderNoVolumes(old, new) ==
  IF new.order # "" THEN new.order
  ELSE IF ConflictingServicePorts(old, new) # {} THEN "stop-first"
  ELSE "start-first"

determineUpdateOrder(old, new) ==
  IF new.order # "" THEN new.order
  ELSE IF ConflictingServicePorts(old, new) # {} THEN "stop-first"
  ELSE IF new.replicas <= 1 /\ new.volume THEN "stop-first"
  ELSE "start-first"

Op(kind, m, id, order) == [kind |-> kind, machine |-> m, ctr |-> id, order |-> order]
RunOp(m) == Op("run", m, 0, "")
ReplaceOp(id) ==
  Op("replace", containers[id].machine, id,
     determineUpdateOrder(containers[id].spec, cli.spec))
RemoveOp(id) == Op("remove", containers[id].machine, id, "")
StopOp(id) == Op("stop", containers[id].machine, id, "")

\* Docker lists the containers of a machine from the newest to the oldest.
Newest(S) == [i \in 1..Cardinality(S) |->
                CHOOSE id \in S : Cardinality({j \in S : j > id}) = i - 1]

Listed(m) == Newest({id \in cli.seen : ~containers[id].hook /\ containers[id].machine = m})

\* The sort of planReplicated moves every up-to-date container to the front,
\* the last one first, and keeps the order of the others.
ContainersOnMachine(m) ==
  LET Fresh(id) == UpToDate(id)
      Stale(id) == ~UpToDate(id)
  IN  Reverse(SelectSeq(Listed(m), Fresh)) \o SelectSeq(Listed(m), Stale)

UpToDateOnMachine(m) ==
  Cardinality({id \in cli.seen : /\ ~containers[id].hook
                                 /\ containers[id].machine = m
                                 /\ UpToDate(id)})

\* Mutant: the machines are not sorted at all.
MachineBeforeNone(m, n) == FALSE

\* Machines with up-to-date containers come first, then those with most
\* containers; machines that tie are in random order.
MachineBefore(m, n) ==
  \/ UpToDateOnMachine(m) > UpToDateOnMachine(n)
  \/ /\ UpToDateOnMachine(m) = 0
     /\ UpToDateOnMachine(n) = 0
     /\ Len(Listed(m)) > Len(Listed(n))

Orders(S) == SetToSeqs(S)
SortedOrders(S) ==
  {ms \in Orders(S) : \A i, j \in 1..Len(ms) : i < j => ~MachineBefore(ms[j], ms[i])}

\* The operation of the i-th replica (from 0), placed round-robin on ms: the
\* k-th visit of a machine takes its k-th container.
ReplicaOps(ms, i) ==
  LET m == ms[(i % Len(ms)) + 1]
      k == (i \div Len(ms)) + 1
      cs == ContainersOnMachine(m)
  IN  IF k > Len(cs) THEN <<RunOp(m)>>
      ELSE IF UpToDate(cs[k]) THEN <<>>
      ELSE <<ReplaceOp(cs[k])>>

\* Mutant: the last visited container of the machine is taken twice.
UnvisitedOffByOne(ms, m) ==
  LET visits == Cardinality({i \in 0..(cli.spec.replicas - 1) :
                               ms[(i % Len(ms)) + 1] = m})
      cs == ContainersOnMachine(m)
  IN  SubSeq(cs, visits + 2, Len(cs))

\* The containers of m that no replica visited.
Unvisited(ms, m) ==
  LET visits == Cardinality({i \in 0..(cli.spec.replicas - 1) :
                               ms[(i % Len(ms)) + 1] = m})
      cs == ContainersOnMachine(m)
  IN  SubSeq(cs, visits + 1, Len(cs))

RemoveOps(ids) == [i \in 1..Len(ids) |-> RemoveOp(ids[i])]

\* Go iterates over the map of remaining containers in any order: "rest".
planReplicated(ms, rest) ==
  FlattenSeq([i \in 1..cli.spec.replicas |-> ReplicaOps(ms, i - 1)])
    \o FlattenSeq([i \in 1..Len(rest) |-> RemoveOps(Unvisited(ms, rest[i]))])

\* Mutant: stopped containers are left where none runs.
reconcileGlobalContainerKeepStopped(m) ==
  LET cs == Listed(m)
      Others(id) == LET Other(x) == x # id IN SelectSeq(cs, Other)
      fresh == {i \in 1..Len(cs) : UpToDate(cs[i])}
      live == {i \in 1..Len(cs) : cs[i] \in cli.running}
      First(S) == cs[CHOOSE i \in S : \A j \in S : i <= j]
  IN  IF fresh # {} THEN RemoveOps(Others(First(fresh)))
      ELSE IF live # {} THEN <<ReplaceOp(First(live))>> \o RemoveOps(Others(First(live)))
      ELSE <<RunOp(m)>>

reconcileGlobalContainer(m) ==
  LET cs == Listed(m)
      Others(id) == LET Other(x) == x # id IN SelectSeq(cs, Other)
      fresh == {i \in 1..Len(cs) : UpToDate(cs[i])}
      live == {i \in 1..Len(cs) : cs[i] \in cli.running}
      First(S) == cs[CHOOSE i \in S : \A j \in S : i <= j]
      Conflicting(id) ==
        /\ id \in cli.running
        /\ ConflictingServicePorts(containers[id].spec, cli.spec) # {}
      stops == SelectSeq(Others(First(live)), Conflicting)
  IN  IF fresh # {} THEN RemoveOps(Others(First(fresh)))
      ELSE IF live # {}
           THEN [i \in 1..Len(stops) |-> StopOp(stops[i])]
                  \o <<ReplaceOp(First(live))>> \o RemoveOps(Others(First(live)))
      ELSE <<RunOp(m)>> \o RemoveOps(cs)

planGlobal(ms, rest) ==
  FlattenSeq([i \in 1..Len(ms) |-> reconcileGlobalContainer(ms[i])])
    \o FlattenSeq([i \in 1..Len(rest) |-> RemoveOps(Listed(rest[i]))])

\* The hook runs where the first container is run or replaced, after the
\* hook containers still running have been stopped.
preDeployOperations(plan) ==
  LET rolls == {i \in 1..Len(plan) : plan[i].kind \in {"run", "replace"}}
      hooks == Newest({id \in cli.seen : containers[id].hook})
      Live(id) == id \in cli.running
      stops == SelectSeq(hooks, Live)
      m == plan[CHOOSE i \in rolls : \A j \in rolls : i <= j].machine
  IN  IF ~cli.spec.preDeploy \/ rolls = {} THEN <<>>
      ELSE [i \in 1..Len(stops) |-> StopOp(stops[i])] \o <<Op("hook", m, 0, "")>>

\* The plans that RollingStrategy.Plan can return.
Plans(eligible) ==
  LET holders == {containers[id].machine : id \in cli.seen}
      bare == IF Mode = "replicated"
              THEN {planReplicated(ms, rest) :
                      ms \in SortedOrders(eligible), rest \in Orders(holders)}
              ELSE {planGlobal(ms, rest) :
                      ms \in Orders(eligible), rest \in Orders(holders \ eligible)}
  IN  {preDeployOperations(p) \o p : p \in bare}

-----------------------------------------------------------------------------
(* Executing: pkg/client/deploy/operation and the calls of pkg/client.     *)

o == Head(cli.plan)

OldHooks(c) == Newest({id \in c.seen : containers[id].hook})

FirstStep(op) ==
  IF op.kind = "remove" THEN "stopOld"
  ELSE IF op.kind = "stop" THEN "stop"
  ELSE IF op.kind = "replace" /\ op.order = "stop-first" THEN "inspect"
  ELSE IF op.kind = "hook" /\ OldHooks(cli) # <<>> THEN "stopHook"
  ELSE "create"

Finish(c, result) ==
  [c EXCEPT !.pc = "idle", !.result = result, !.plan = <<>>, !.new = 0,
            !.wasRunning = FALSE, !.todo = <<>>]

\* SequenceOperation.Execute: go on with the operations p.
Begin(c, p) ==
  IF p = <<>> THEN Finish(c, "ok")
  ELSE [c EXCEPT !.plan = p, !.pc = FirstStep(Head(p)), !.new = 0,
                 !.wasRunning = FALSE,
                 !.todo = IF Head(p).kind = "hook" THEN OldHooks(c) ELSE <<>>]

Goto(pc) == [cli EXCEPT !.pc = pc]
NextOp == Begin(cli, Tail(cli.plan))
Failed == Finish(cli, "failed")

(***************************************************************************)
(* A call of the client that changes the containers to "after" if it is    *)
(* able to; cli becomes ok or err. A fault makes it return an error, after *)
(* the change or instead of it.                                            *)
(***************************************************************************)
Call(able, after, ok, err) ==
  /\ \/ /\ able
        /\ containers' = after
        /\ cli' = ok
        /\ UNCHANGED used
     \/ /\ ~able
        /\ cli' = err
        /\ UNCHANGED <<containers, used>>
     \/ /\ used.faults < MaxFaults
        /\ used' = [used EXCEPT !.faults = @ + 1]
        /\ containers' = containers \/ (able /\ containers' = after)
        /\ cli' = [err EXCEPT !.clean = FALSE]
  /\ UNCHANGED up

InState(id, st) == [containers EXCEPT ![id].state = st]

\* StopContainer has no effect on a container that is not running.
StopContainer(id, ok, err) ==
  Call(id \in Visible, IF Running(id) THEN InState(id, "exited") ELSE containers, ok, err)

\* Docker can't bind a host port that a running container of the machine has.
PortsFree(id) ==
  \/ containers[id].hook
  \/ \A x \in Serving \ {id} :
       containers[x].machine = containers[id].machine =>
         ConflictingServicePorts(containers[x].spec, containers[id].spec) = {}

StartContainer(id, ok, err) ==
  Call(id \in Visible /\ (Running(id) \/ PortsFree(id)), InState(id, "running"), ok, err)

\* Mutant: the ID of a removed container becomes free again.
RemoveContainerForget(id, ok, err) ==
  Call(id \in Visible /\ ~Running(id), InState(id, "none"), ok, err)

\* Docker refuses to remove a running container without the force option.
RemoveContainer(id, ok, err) ==
  Call(id \in Visible /\ ~Running(id), InState(id, "removed"), ok, err)

CreateContainer(sid, m, s, hook, ok, err) ==
  /\ Created < MaxContainers
  /\ Call(m \in up,
          [containers EXCEPT ![Created + 1] = Container(sid, m, s, hook)], ok, err)

-----------------------------------------------------------------------------
(* Deployment.Plan: Validate inspects the service, and the strategy then   *)
(* plans for the machines that are available at that later moment.         *)

\* Mutant: hook containers are not listed.
DeployIgnoresHooks(s, f) ==
  /\ cli.pc = "idle"
  /\ used.deployments < MaxDeployments
  /\ used' = [used EXCEPT !.deployments = @ + 1]
  /\ LET seen == {id \in Visible : ~containers[id].hook}
     IN  cli' = [Idle EXCEPT !.pc = "plan", !.service = 1, !.spec = s,
                             !.force = f.force, !.skipHealth = f.skipHealth,
                             !.seen = seen, !.running = {id \in seen : Running(id)},
                             !.first = Created]
  /\ UNCHANGED <<containers, up>>

\* Mutant: the stopped containers are not listed, as without the All option.
DeployRunningOnly(s, f) ==
  /\ cli.pc = "idle"
  /\ used.deployments < MaxDeployments
  /\ used' = [used EXCEPT !.deployments = @ + 1]
  /\ LET seen == {id \in Visible : Running(id)}
         ids == {containers[id].service : id \in seen}
     IN  cli' = [Idle EXCEPT
                   !.pc = IF Cardinality(ids) > 1 THEN "idle" ELSE "plan",
                   !.result = IF Cardinality(ids) > 1 THEN "ambiguous" ELSE "none",
                   !.service = IF Cardinality(ids) = 1 THEN CHOOSE sid \in ids : TRUE
                               ELSE used.deployments + 1,
                   !.spec = s, !.force = f.force, !.skipHealth = f.skipHealth,
                   !.seen = seen, !.running = seen, !.first = Created]
  /\ UNCHANGED <<containers, up>>

\* A service that is not found gets a new ID.
Deploy(s, f) ==
  /\ cli.pc = "idle"
  /\ used.deployments < MaxDeployments
  /\ used' = [used EXCEPT !.deployments = @ + 1]
  /\ cli' = [Idle EXCEPT
               !.pc = IF Cardinality(ServiceIDs) > 1 THEN "idle" ELSE "plan",
               !.result = IF Cardinality(ServiceIDs) > 1 THEN "ambiguous" ELSE "none",
               !.service = IF Cardinality(ServiceIDs) = 1
                           THEN CHOOSE sid \in ServiceIDs : TRUE
                           ELSE used.deployments + 1,
               !.spec = s, !.force = f.force, !.skipHealth = f.skipHealth,
               !.seen = Visible, !.running = {id \in Visible : Running(id)},
               !.first = Created]
  /\ UNCHANGED <<containers, up>>

\* The membership may still report a machine that doesn't answer any more.
Plan ==
  /\ cli.pc = "plan"
  /\ \E late \in SUBSET (Machines \ up) :
       LET eligible == EligibleMachines(cli.spec, up \cup late)
           c == [cli EXCEPT !.machines = eligible, !.clean = @ /\ late = {}]
       IN  \/ eligible = {} /\ cli' = Finish(c, "noMachines")
           \/ /\ eligible # {}
              /\ \E p \in Plans(eligible) : cli' = Begin(c, p)
  /\ UNCHANGED <<containers, up, used>>

\* ReplaceContainerOperation: a stop-first replacement remembers whether the
\* old container was running and stops it if it was.
InspectOld ==
  /\ cli.pc = "inspect"
  /\ Call(o.ctr \in Visible, containers,
          [cli EXCEPT !.wasRunning = Running(o.ctr),
                      !.pc = IF Running(o.ctr) THEN "stopFirst" ELSE "create"],
          Failed)

StopFirst ==
  /\ cli.pc = "stopFirst"
  /\ StopContainer(o.ctr, Goto("create"), Failed)

\* Run, replace and hook operations create a container and start it.
Create ==
  /\ cli.pc = "create"
  /\ CreateContainer(cli.service, o.machine, cli.spec, o.kind = "hook",
                     [cli EXCEPT !.pc = "start", !.new = Created + 1], Failed)

AfterHealthy(c) ==
  IF o.kind = "run" THEN Begin(c, Tail(c.plan))
  ELSE [c EXCEPT !.pc = IF o.order = "stop-first" THEN "removeOld" ELSE "stopOld"]

\* Mutant: the health of a new container is never waited for.
StartNoWait ==
  /\ cli.pc = "start"
  /\ StartContainer(cli.new,
                    IF o.kind = "hook" THEN Goto("waitExit") ELSE AfterHealthy(cli),
                    Failed)

Start ==
  /\ cli.pc = "start"
  /\ StartContainer(cli.new,
                    IF o.kind = "hook" THEN Goto("waitExit")
                    ELSE IF cli.skipHealth THEN AfterHealthy(cli)
                    ELSE Goto("wait"),
                    Failed)

\* WaitContainerHealthy approves the container.
Healthy ==
  /\ cli.pc = "wait"
  /\ cli.new \in Visible
  /\ containers' = [containers EXCEPT ![cli.new].passed = TRUE]
  /\ cli' = AfterHealthy(cli)
  /\ UNCHANGED <<up, used>>

\* WaitContainerHealthy fails: the container is unhealthy, or it can't be
\* inspected. A run operation leaves the container as it is.
Unhealthy ==
  /\ cli.pc = "wait"
  /\ \/ cli.new \notin Visible /\ UNCHANGED used
     \/ /\ used.unhealthy < MaxUnhealthy
        /\ used' = [used EXCEPT !.unhealthy = @ + 1]
  /\ cli' = IF o.kind = "run" THEN Finish(cli, "unhealthy")
            ELSE Goto("rollbackStop")
  /\ UNCHANGED <<containers, up>>

\* Mutant: the old container is not restarted.
RollbackStopOnly ==
  /\ cli.pc = "rollbackStop"
  /\ StopContainer(cli.new, Finish(cli, "unhealthy"), Finish(cli, "unhealthy"))

\* The rollback ignores an error of stopping the new container; it restarts
\* the old one if this operation has stopped it.
RollbackStop ==
  /\ cli.pc = "rollbackStop"
  /\ LET c == IF o.order = "stop-first" /\ cli.wasRunning THEN Goto("rollbackStart")
              ELSE Finish(cli, "unhealthy")
     IN  StopContainer(cli.new, c, c)

RollbackStart ==
  /\ cli.pc = "rollbackStart"
  /\ StartContainer(o.ctr, Finish(cli, "unhealthy"), Finish(cli, "rollbackFailed"))

\* The end of a start-first replacement, and the whole remove operation.
StopOld ==
  /\ cli.pc = "stopOld"
  /\ StopContainer(o.ctr, Goto("removeOld"), Failed)

RemoveOld ==
  /\ cli.pc = "removeOld"
  /\ RemoveContainer(o.ctr, NextOp, Failed)

\* StopContainerOperation and StopPreDeployOperation. The not-found error of
\* the client is not the one that StopPreDeployOperation tolerates.
Stop ==
  /\ cli.pc = "stop"
  /\ StopContainer(o.ctr, NextOp, Failed)

\* RunPreDeployOperation stops, ignoring errors, and removes the old hooks.
StopHook ==
  /\ cli.pc = "stopHook"
  /\ StopContainer(Head(cli.todo), Goto("removeHook"), Goto("removeHook"))

RemoveHook ==
  /\ cli.pc = "removeHook"
  /\ RemoveContainer(Head(cli.todo),
                     [cli EXCEPT !.todo = Tail(@),
                                 !.pc = IF Len(cli.todo) = 1 THEN "create" ELSE "stopHook"],
                     Failed)

\* Mutant: the exit code is not looked at.
HookExitedAnyCode ==
  /\ cli.pc = "waitExit"
  /\ Call(cli.new \in Visible, containers, IF Running(cli.new) THEN cli ELSE NextOp, Failed)
  /\ cli' # cli

\* waitForExit polls the hook container until it exits ...
HookExited ==
  /\ cli.pc = "waitExit"
  /\ Call(cli.new \in Visible, containers,
          IF Running(cli.new) THEN cli
          ELSE IF containers[cli.new].code = 0 THEN NextOp
          ELSE Finish(cli, "hookFailed"),
          Failed)
  /\ cli' # cli

\* Mutant: the timeout is not applied to a hook that still runs.
HookTimeoutLenient ==
  /\ cli.pc = "waitExit"
  /\ ~Running(cli.new)
  /\ StopContainer(cli.new, Finish(cli, "hookFailed"), Finish(cli, "hookFailed"))

\* ... or the time is over and the hook is stopped, ignoring errors.
HookTimeout ==
  /\ cli.pc = "waitExit"
  /\ StopContainer(cli.new, Finish(cli, "hookFailed"), Finish(cli, "hookFailed"))

\* The command is killed, or its context is cancelled: every call it still
\* makes fails at once.
Abort ==
  /\ cli.pc \notin {"idle", "plan"}
  /\ used.aborts < MaxAborts
  /\ used' = [used EXCEPT !.aborts = @ + 1]
  /\ cli' = [Finish(cli, "aborted") EXCEPT !.pending = {}]
  /\ UNCHANGED <<containers, up>>

-----------------------------------------------------------------------------
(* StopService, StartService and RemoveService inspect the service, by its *)
(* name or ID, and make the calls for its containers concurrently.         *)

\* The regular containers and, if hooks is TRUE, the hook containers of sid.
ContainersOf(sid, hooks) ==
  {id \in Visible : containers[id].service = sid /\ (containers[id].hook => hooks)}

Settle(left, result) ==
  [cli EXCEPT !.pending = left, !.result = result,
              !.pc = IF left = {} THEN "idle" ELSE "command"]

ServiceCommand(ids, first) ==
  /\ cli.pc = "idle"
  /\ ids # {}
  /\ used.commands < MaxCommands
  /\ used' = [used EXCEPT !.commands = @ + 1]
  /\ cli' = [Idle EXCEPT !.pc = "command", !.result = "commandDone",
                         !.pending = {<<id, first>> : id \in ids}]
  /\ UNCHANGED <<containers, up>>

StopService(sid) == ServiceCommand(ContainersOf(sid, TRUE), "stop")
StartService(sid) == ServiceCommand(ContainersOf(sid, FALSE), "start")
RemoveService(sid) == ServiceCommand(ContainersOf(sid, TRUE), "stopRemove")

\* The next call of the goroutine p[1]. RemoveService takes a container that
\* it doesn't find any more, on a machine that left, as removed.
ServiceCall(p) ==
  LET left == cli.pending \ {p}
      ok == Settle(left, cli.result)
      err == Settle(left, "commandFailed")
      stopped == Settle(left \cup {<<p[1], "remove">>}, cli.result)
  IN  /\ cli.pc = "command"
      /\ \/ p[2] = "stop" /\ StopContainer(p[1], ok, err)
         \/ p[2] = "start" /\ StartContainer(p[1], ok, err)
         \/ p[2] = "stopRemove" /\ StopContainer(p[1], stopped, err)
         \/ /\ p[2] = "remove"
            /\ RemoveContainer(p[1], ok, IF p[1] \in Visible THEN err ELSE ok)

-----------------------------------------------------------------------------
(* What happens on the machines.                                           *)

\* The process of a hook container ends with some exit code.
HookExits(id, code) ==
  /\ Running(id)
  /\ containers[id].hook
  /\ containers' = [containers EXCEPT ![id].state = "exited", ![id].code = code]
  /\ UNCHANGED <<up, cli, used>>

MachineDown(m) ==
  /\ m \in up
  /\ used.outages < MaxOutages
  /\ used' = [used EXCEPT !.outages = @ + 1]
  /\ up' = up \ {m}
  /\ cli' = [cli EXCEPT !.clean = FALSE]
  /\ UNCHANGED containers

MachineUp(m) ==
  /\ m \notin up
  /\ up' = up \cup {m}
  /\ cli' = [cli EXCEPT !.clean = FALSE]
  /\ UNCHANGED <<containers, used>>

Step ==
  \/ Plan \/ InspectOld \/ StopFirst \/ Create \/ Start \/ Healthy \/ Unhealthy
  \/ RollbackStop \/ RollbackStart \/ StopOld \/ RemoveOld \/ Stop
  \/ StopHook \/ RemoveHook \/ HookExited \/ HookTimeout

Next ==
  \/ \E s \in Specs, f \in Flags : Deploy(s, f)
  \/ Step
  \/ Abort
  \/ \E sid \in ServiceIDs : StopService(sid) \/ StartService(sid) \/ RemoveService(sid)
  \/ \E p \in cli.pending : ServiceCall(p)
  \/ \E id \in Ids, code \in {0, 1} : HookExits(id, code)
  \/ \E m \in Machines : MachineDown(m) \/ MachineUp(m)

Spec == Init /\ [][Next]_vars

(***************************************************************************)
(* A call has no deadline, the poll of a hook included (waitForExit polls  *)
(* with ctx, not with timeoutCtx). One to a machine that doesn't answer    *)
(* may fail, or it may never return; and nearly every call of the client   *)
(* first lists the containers on all the machines (InspectService). So a   *)
(* deployment is certain to make its next step only while every machine    *)
(* answers. No machine needs to come back and no hook needs to exit.       *)
(***************************************************************************)
Answered == up = Machines

LiveSpec == Spec /\ WF_vars(Answered /\ Step)

-----------------------------------------------------------------------------
(* Properties.                                                             *)

Results == {"none", "ok", "failed", "unhealthy", "rollbackFailed", "hookFailed",
            "noMachines", "ambiguous", "aborted", "commandDone", "commandFailed"}
Steps == {"idle", "plan", "inspect", "stopFirst", "create", "start", "wait",
          "rollbackStop", "rollbackStart", "stopOld", "removeOld", "stop",
          "stopHook", "removeHook", "waitExit", "command"}

\* Every variable has its type, the operations of a plan included.
TypeOK ==
  /\ \A id \in Ids :
       \/ containers[id] = None
       \/ /\ containers[id].machine \in Machines
          /\ containers[id].spec \in Specs
          /\ containers[id].state \in ContainerStates \cup {"removed"}
          /\ id <= Created
  /\ up \subseteq Machines
  /\ cli.pc \in Steps /\ cli.result \in Results /\ cli.spec \in Specs
  /\ cli.seen \cup cli.running \subseteq Ids /\ cli.new \in Ids \cup {0}
  /\ \A i \in 1..Len(cli.plan) :
       /\ cli.plan[i].kind \in {"run", "replace", "remove", "stop", "hook"}
       /\ cli.plan[i].machine \in Machines
       /\ cli.plan[i].ctr \in cli.seen \cup {0}

\* The containers of this deployment: those it saw and those it made.
Own == {id \in Ids : Exists(id) /\ (id \in cli.seen \/ id > cli.first)}

\* The containers that a user of the service can count on: they ran before
\* the deployment, or it has approved them.
Approved == {id \in Own \cap Serving : id \in cli.running \/ containers[id].passed \/ cli.skipHealth}

Rolling == cli.pc \notin {"idle", "command"}

\* The deployment in progress, or the last one, has taken a container down
\* before its successor is up: the price of stop-first.
StopFirstGap ==
  IF Rolling THEN cli.wasRunning
  ELSE cli.result \in {"failed", "aborted", "rollbackFailed"}

\* A rolling deployment of a replicated service keeps as many approved
\* containers as ran before it, up to the number of replicas it wants, except
\* for the one that a stop-first replacement is about. It holds at every step
\* of a deployment, and after a failed health check has been rolled back.
KeepsReplicas ==
  (Mode = "replicated" /\ (Rolling \/ cli.result \in Results \ {"commandDone", "commandFailed"})) =>
    LET before == Cardinality({id \in cli.running : ~containers[id].hook})
        kept == IF before < cli.spec.replicas THEN before ELSE cli.spec.replicas
    IN  Cardinality(Approved) + (IF StopFirstGap THEN 1 ELSE 0) >= kept

\* A rolling deployment of a global service leaves no machine without a
\* running container that had one and still is to have one, except while, or
\* after, a stop-first replacement on one machine was cut off.
KeepsMachines ==
  (Mode = "global" /\ (Rolling \/ cli.result \in Results \ {"commandDone", "commandFailed"})) =>
    LET had == {containers[id].machine : id \in {x \in cli.running : ~containers[x].hook}}
        has == {containers[id].machine : id \in Approved}
    IN  Cardinality((had \cap cli.machines) \ has) <= (IF StopFirstGap THEN 1 ELSE 0)

Regular == {id \in Own : ~containers[id].hook}

\* A deployment that reports success leaves exactly what its spec asks for:
\* of the containers it knows of, the wanted number runs, on the machines it
\* planned for, all with the new spec; none is left stopped or superfluous.
Converged ==
  cli.result = "ok" =>
    /\ \A id \in Regular :
         /\ Running(id)
         /\ containers[id].machine \in cli.machines
         /\ UpToDateSpec(containers[id].spec, [cli.spec EXCEPT !.pullAlways = FALSE])
    /\ IF Mode = "replicated" THEN Cardinality(Regular) = cli.spec.replicas
       ELSE \A m \in cli.machines :
              Cardinality({id \in Regular : containers[id].machine = m}) = 1

\* Deploying a spec again does nothing where the containers already are what
\* it asks for and are spread evenly over the eligible machines: no order of
\* the machines makes the strategy move a replica.
Idempotent ==
  LET eligible == EligibleMachines(cli.spec, up)
      seen == {id \in cli.seen : ~containers[id].hook}
      On(m) == Cardinality({id \in seen : containers[id].machine = m})
  IN  ( /\ cli.pc = "plan" /\ Mode = "replicated"
        /\ Cardinality(seen) = cli.spec.replicas
        /\ \A id \in seen : UpToDate(id) /\ containers[id].machine \in eligible
        /\ \A m, n \in eligible : On(m) <= On(n) + 1 )
      => Plans(eligible) = {<<>>}

\* No container of a deployment is made before its pre-deploy hook, the one
\* this deployment started, has exited with code 0.
HookGate ==
  \A id \in Regular :
    (id > cli.first /\ containers[id].spec.preDeploy) =>
      \E h \in Own : /\ h > cli.first /\ h < id /\ containers[h].hook
                    /\ containers[h].state = "exited" /\ containers[h].code = 0

\* Two pre-deploy hooks (database migrations, say) never run at the same
\* time, though an earlier deployment may have been cut off with one running,
\* as long as every machine could be reached: a deployment doesn't know of the
\* hook on a machine that didn't answer, and starts its own beside it.
OneHookAtATime ==
  used.outages = 0 =>
    Cardinality({id \in Ids : Running(id) /\ containers[id].hook}) <= 1

\* The running containers that write to the volume of the service: a hook
\* container keeps the mounts of the service.
Writers == {id \in Ids : Running(id) /\ containers[id].spec.volume}

\* What stop-first is for. The containers of a service with a volume, hooks
\* included, take turns on a machine, but for one overlap: the pre-deploy hook
\* runs beside the container that was there before it, on every update. No
\* other container is started while one made earlier, or a hook, still runs,
\* whether health checks fail or deployments are cut off. It is said of a
\* service that leaves the order to the default and keeps its hook, and as long
\* as there are only deployments, no failing calls and no outages. It holds for
\* a global service; of a replicated one with a single replica it is false, as
\* the run rollout_retry_volume shows.
SingleWriter ==
  used.commands = 0 /\ used.faults = 0 /\ used.outages = 0 =>
  \A id, x \in Writers :
    (id < x /\ containers[id].machine = containers[x].machine) =>
      containers[x].hook /\ ~containers[id].hook

\* All containers under the name of the service carry one service ID, after
\* commands that were cut off half-way or left only stopped containers too: no
\* deployment makes the name ambiguous, unless a machine was out of reach.
OneServiceID ==
  used.outages = 0 =>
    Cardinality({containers[id].service : id \in {x \in Ids : Exists(x)}}) <= 1

\* A deployment that meets no fault, no outage, no unhealthy container and no
\* failing hook succeeds, whatever earlier deployments have left behind.
CleanDeploymentSucceeds == cli.result = "failed" => ~cli.clean

\* After a deployment that reports success without skipping the health
\* monitoring, every container of the service has passed it.
SuccessMeansHealthy ==
  (cli.result = "ok" /\ ~cli.skipHealth) => \A id \in Regular : containers[id].passed

\* Every deployment ends, unless a machine stops answering: neither a hook that
\* never exits, nor a rollback, nor what an outage or a cut-off deployment has
\* left behind, holds it up for ever. One that met an outage ends as well, once
\* all the machines answer again and keep doing so.
DeploymentsEnd == Rolling ~> (~Rolling \/ ~Answered)
=============================================================================
