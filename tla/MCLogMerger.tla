---------------------------- MODULE MCLogMerger ----------------------------
(* Instances of LogMerger for TLC.                                         *)
EXTENDS LogMerger

Two == {"a", "b"}

\* All sequences of up to n entries with timestamps up to m that are in order.
InOrder(in) ==
    \A i, j \in 1..Len(in) :
        i < j /\ in[i].kind # "error" /\ in[j].kind # "error" /\ in[j].ts # 0
            => in[i].ts <= in[j].ts
Kinds(m) ==
    [kind : {"log"}, ts : 0..m] \cup [kind : {"heartbeat"}, ts : 1..m]
        \cup [kind : {"error"}, ts : {0}]
Feeds(n, m) == {in \in UNION {[1..k -> Kinds(m)] : k \in 0..n} : InOrder(in)}

Logs(n, m) == {in \in UNION {[1..k -> [kind : {"log"}, ts : 1..m]] : k \in 0..n} : InOrder(in)}

\* Stream a carries anything, stream b a single entry or some log entries.
MixedInputs ==
    {[s \in Two |-> IF s = "a" THEN a ELSE b] :
        a \in Feeds(2, 2), b \in Feeds(1, 2) \cup Logs(2, 2)}
LogInputs == [Two -> Logs(3, 3)]
=============================================================================
