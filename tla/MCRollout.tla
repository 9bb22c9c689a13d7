----------------------------- MODULE MCRollout -----------------------------
(* Instances of Rollout for TLC.                                           *)
EXTENDS Rollout

MCSpec(version, replicas) ==
  [version |-> version, replicas |-> replicas, order |-> "", volume |-> FALSE,
   preDeploy |-> FALSE, pullAlways |-> FALSE, placement |-> {}, hostPorts |-> {}]

WithPort(s) == [s EXCEPT !.hostPorts = {<<80, "any">>}]
WithVolume(s) == [s EXCEPT !.volume = TRUE]
WithHook(s) == [s EXCEPT !.preDeploy = TRUE]

OneMachine == {"m1"}
TwoMachines == {"m1", "m2"}
Plain == {[force |-> FALSE, skipHealth |-> FALSE]}
PlainOrBoth == {[force |-> b, skipHealth |-> b] : b \in BOOLEAN}

\* Replicated: an update, scaling, and an update with stop-first.
ReplicatedSpecs ==
  {MCSpec(1, 2), MCSpec(2, 2), MCSpec(1, 1), [MCSpec(2, 2) EXCEPT !.order = "stop-first"]}

\* Global with a host port on one address, on another, on all, and all on
\* one machine only: uc start can leave two containers with the first two
\* running, and both have to make way for the third.
GlobalSpecs ==
  {[MCSpec(1, 1) EXCEPT !.hostPorts = {<<80, "ip1">>}],
   [MCSpec(2, 1) EXCEPT !.hostPorts = {<<80, "ip2">>}],
   WithPort(MCSpec(1, 1)),
   [WithPort(MCSpec(1, 1)) EXCEPT !.placement = {"m1"}]}

VolumeSpecs == {WithVolume(MCSpec(1, 1)), WithVolume(MCSpec(2, 1))}
HookSpecs == {WithHook(s) : s \in VolumeSpecs}
PlainSpecs == {MCSpec(1, 1), MCSpec(2, 1)}
=============================================================================
