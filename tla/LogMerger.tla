----------------------------- MODULE LogMerger -----------------------------
(***************************************************************************)
(* pkg/client/logmerger.go: log streams merged into one by timestamp.      *)
(*                                                                         *)
(* A reader goroutine per stream takes entries from the stream, waits for  *)
(* one of MaxInFlight slots (the semaphore) and hands the entry to the     *)
(* run loop.  The loop queues log entries and emits those up to the        *)
(* watermark, the smallest of the timestamps last seen on the streams that *)
(* are neither closed nor stalled.  A slot is free again when its entry    *)
(* has been emitted.                                                       *)
(***************************************************************************)
EXTENDS Integers, Sequences, FiniteSets

CONSTANTS
    Stream,             \* the input streams
    Inputs,             \* what they may carry: functions from Stream to sequences
    MaxInFlight,        \* logMergerMaxInFlightPerStream
    HeartbeatInterval,  \* logMergerHeartbeatDebounceInterval
    MaxStalls           \* bound on the ticks that find stalled streams; 0: no detection

\* The timestamp 0 is the zero time: one that could not be parsed, or none.
Entry == [kind : {"log", "heartbeat", "error"}, ts : Nat]

ASSUME StreamAssumption == IsFiniteSet(Stream) /\ Stream # {}
ASSUME InputsAssumption == Inputs \subseteq [Stream -> Seq(Entry)]
ASSUME SlotsAssumption == MaxInFlight \in Nat \ {0}
ASSUME BoundsAssumption == HeartbeatInterval \in Nat \ {0} /\ MaxStalls \in Nat

\* Each stream reports its entries in the order of their timestamps.
ASSUME OrderAssumption ==
    \A in \in Inputs : \A s \in Stream : \A i, j \in 1..Len(in[s]) :
        /\ i < j
        /\ in[s][i].kind # "error"
        /\ in[s][j].kind # "error"
        /\ in[s][j].ts # 0
        => in[s][i].ts <= in[s][j].ts

None == "none"
ASSUME NoneAssumption == None \notin Stream

VARIABLES
    input,        \* the entries of the streams; never changes
    read,         \* how many of them the reader has received
    reader,       \* where the reader goroutine is
    slots,        \* taken slots of the semaphore
    lastSeen,     \* mergerStream.lastSeen
    closed,       \* mergerStream.closed
    stalled,      \* mergerStream.stalled
    queue,        \* logsHeap: the stream and index of each queued entry
    watermark,
    lastEmitted,
    phase,        \* where the run loop is
    heartbeat,    \* the stream whose heartbeat the loop is processing, or None
    out,          \* the log and error entries sent to the output
    floor,        \* history: the largest timestamp sent, heartbeats included
    everStalled,  \* history: the streams that have been found stalled
    stalls        \* how many ticks have found some

vars == <<input, read, reader, slots, lastSeen, closed, stalled, queue, watermark,
          lastEmitted, phase, heartbeat, out, floor, everStalled, stalls>>

Ts(e) == input[e[1]][e[2]].ts
KindOf(e) == input[e[1]][e[2]].kind
Entries == UNION {{<<s, i>> : i \in 1..Len(input[s])} : s \in Stream}

Larger(a, b) == IF a < b THEN b ELSE a

Init ==
    /\ input \in Inputs
    /\ read = [s \in Stream |-> 0]
    /\ reader = [s \in Stream |-> "receive"]
    /\ slots = [s \in Stream |-> 0]
    /\ lastSeen = [s \in Stream |-> 0]
    /\ closed = {}
    /\ stalled = {}
    /\ queue = {}
    /\ watermark = 0
    /\ lastEmitted = 0
    /\ phase = "select"
    /\ heartbeat = None
    /\ out = {}
    /\ floor = 0
    /\ everStalled = {}
    /\ stalls = 0

-----------------------------------------------------------------------------
(***************************************************************************)
(* The reader goroutines.                                                  *)
(***************************************************************************)

loopVars == <<lastSeen, closed, stalled, queue, watermark, lastEmitted, phase,
              heartbeat, out, floor, everStalled, stalls>>

\* Mutant: the reader goes past the end of its stream.
ReceivePastEnd(s) ==
    /\ reader[s] = "receive"
    /\ read' = [read EXCEPT ![s] = @ + 1]
    /\ reader' = [reader EXCEPT ![s] = "acquire"]
    /\ UNCHANGED <<input, slots, loopVars>>

Receive(s) ==
    /\ reader[s] = "receive"
    /\ IF read[s] < Len(input[s])
       THEN /\ read' = [read EXCEPT ![s] = @ + 1]
            /\ reader' = [reader EXCEPT ![s] = "acquire"]
       ELSE /\ reader' = [reader EXCEPT ![s] = "close"]
            /\ UNCHANGED read
    /\ UNCHANGED <<input, slots, loopVars>>

AcquireSlot(s) ==
    /\ reader[s] = "acquire"
    /\ slots[s] < MaxInFlight
    /\ slots' = [slots EXCEPT ![s] = @ + 1]
    /\ reader' = [reader EXCEPT ![s] = "send"]
    /\ UNCHANGED <<input, read, loopVars>>

-----------------------------------------------------------------------------
(***************************************************************************)
(* The run loop.                                                           *)
(***************************************************************************)

\* Mutant: streams that have not reported anything yet are ignored.
WatermarkOfReporting(seen, cl, st) ==
    LET active == {s \in Stream \ (cl \cup st) : seen[s] # 0}
    IN  IF active = {} THEN watermark
        ELSE CHOOSE w \in {seen[s] : s \in active} : \A s \in active : w <= seen[s]

\* Mutant: a closed stream still holds the watermark back.
WatermarkOfClosed(seen, cl, st) ==
    LET active == Stream \ st
    IN  IF active = {} THEN watermark
        ELSE CHOOSE w \in {seen[s] : s \in active} : \A s \in active : w <= seen[s]

\* updateWatermark, for the given states of the streams: nothing changes when
\* no stream is active.
Watermark(seen, cl, st) ==
    LET active == Stream \ (cl \cup st)
    IN  IF active = {} THEN watermark
        ELSE CHOOSE w \in {seen[s] : s \in active} : \A s \in active : w <= seen[s]

\* Mutant: the slot of the entry is not released.
ForwardKeepsSlot(s, e) ==
    /\ KindOf(e) = "error" \/ (KindOf(e) = "log" /\ Ts(e) = 0)
    /\ out' = out \cup {e}
    /\ UNCHANGED <<slots, lastSeen, queue, watermark, phase, heartbeat>>

\* Errors and entries without a timestamp are sent at once.
Forward(s, e) ==
    /\ KindOf(e) = "error" \/ (KindOf(e) = "log" /\ Ts(e) = 0)
    /\ out' = out \cup {e}
    /\ slots' = [slots EXCEPT ![s] = @ - 1]
    /\ UNCHANGED <<lastSeen, queue, watermark, phase, heartbeat>>

Enqueue(s, e) ==
    /\ KindOf(e) = "heartbeat" \/ (KindOf(e) = "log" /\ Ts(e) # 0)
    /\ lastSeen' = [lastSeen EXCEPT ![s] = Larger(@, Ts(e))]
    /\ queue' = IF KindOf(e) = "log" THEN queue \cup {e} ELSE queue
    /\ heartbeat' = IF KindOf(e) = "heartbeat" THEN s ELSE None
    /\ watermark' = Watermark(lastSeen', closed, stalled')
    /\ phase' = "emit"
    /\ UNCHANGED <<out, slots>>

HandleEntry(s) ==
    LET e == <<s, read[s]>>
    IN  /\ phase = "select"
        /\ reader[s] = "send"
        /\ reader' = [reader EXCEPT ![s] = "receive"]
        /\ stalled' = stalled \ {s}
        /\ Forward(s, e) \/ Enqueue(s, e)
        /\ UNCHANGED <<input, read, closed, lastEmitted, floor, everStalled, stalls>>

HandleClosed(s) ==
    /\ phase = "select"
    /\ reader[s] = "close"
    /\ reader' = [reader EXCEPT ![s] = "done"]
    /\ closed' = closed \cup {s}
    /\ stalled' = stalled \ {s}
    /\ watermark' = Watermark(lastSeen, closed', stalled')
    /\ phase' = "emit"
    /\ UNCHANGED <<input, read, slots, lastSeen, queue, lastEmitted, heartbeat, out,
                   floor, everStalled, stalls>>

\* checkStalledStreams: the streams in S had no event for StallTimeout. A
\* stream can be among them because its machine is silent, because its reader
\* waits for a slot, or because the output was not read for that long.
Stall(S) ==
    /\ phase = "select"
    /\ stalls < MaxStalls
    /\ S # {} /\ S \subseteq Stream \ (closed \cup stalled)
    /\ stalls' = stalls + 1
    /\ stalled' = stalled \cup S
    /\ everStalled' = everStalled \cup S
    /\ watermark' = Watermark(lastSeen, closed, stalled')
    /\ phase' = "emit"
    /\ UNCHANGED <<input, read, reader, slots, lastSeen, closed, queue, lastEmitted,
                   heartbeat, out, floor>>

\* The entry on top of the heap; entries with equal timestamps are in any order.
Top(e) == e \in queue /\ \A x \in queue : Ts(e) <= Ts(x)

Pop(e) ==
    /\ queue' = queue \ {e}
    /\ out' = out \cup {e}
    /\ slots' = [slots EXCEPT ![e[1]] = @ - 1]
    /\ floor' = Larger(floor, Ts(e))

Ready(e) == Top(e) /\ watermark # 0 /\ Ts(e) <= watermark

\* One round of emitReadyEntries.
Emit(e) ==
    /\ phase = "emit"
    /\ Ready(e)
    /\ Pop(e)
    /\ lastEmitted' = Ts(e)
    /\ UNCHANGED <<input, read, reader, lastSeen, closed, stalled, watermark, phase,
                   heartbeat, everStalled, stalls>>

\* A heartbeat is passed on, with the watermark as its timestamp, unless
\* something was sent shortly before.
HeartbeatDue ==
    /\ heartbeat # None
    /\ watermark # 0
    /\ lastEmitted = 0 \/ watermark - lastEmitted >= HeartbeatInterval

EndEmit ==
    /\ phase = "emit"
    /\ \A e \in queue : ~Ready(e)
    /\ phase' = "select"
    /\ heartbeat' = None
    /\ lastEmitted' = IF HeartbeatDue THEN watermark ELSE lastEmitted
    /\ floor' = IF HeartbeatDue THEN Larger(floor, watermark) ELSE floor
    /\ slots' = IF heartbeat = None THEN slots
                ELSE [slots EXCEPT ![heartbeat] = @ - 1]
    /\ UNCHANGED <<input, read, reader, lastSeen, closed, stalled, queue, watermark,
                   out, everStalled, stalls>>

\* All readers have finished: the rest of the queue is sent ...
Flush(e) ==
    /\ phase = "select"
    /\ \A s \in Stream : reader[s] = "done"
    /\ Top(e)
    /\ Pop(e)
    /\ UNCHANGED <<input, read, reader, lastSeen, closed, stalled, watermark,
                   lastEmitted, phase, heartbeat, everStalled, stalls>>

\* Mutant: the output is closed without the rest of the queue.
FinishEarly ==
    /\ phase = "select"
    /\ \A s \in Stream : reader[s] = "done"
    /\ phase' = "done"
    /\ UNCHANGED <<input, read, reader, slots, lastSeen, closed, stalled, queue,
                   watermark, lastEmitted, heartbeat, out, floor, everStalled, stalls>>

\* ... and the output is closed.
Finish ==
    /\ phase = "select"
    /\ \A s \in Stream : reader[s] = "done"
    /\ queue = {}
    /\ phase' = "done"
    /\ UNCHANGED <<input, read, reader, slots, lastSeen, closed, stalled, queue,
                   watermark, lastEmitted, heartbeat, out, floor, everStalled, stalls>>

ReaderStep(s) == Receive(s) \/ AcquireSlot(s)

LoopStep ==
    \/ \E s \in Stream : HandleEntry(s) \/ HandleClosed(s)
    \/ \E e \in queue : Emit(e) \/ Flush(e)
    \/ EndEmit
    \/ Finish

Next ==
    \/ \E s \in Stream : ReaderStep(s)
    \/ LoopStep
    \/ \E S \in SUBSET Stream : Stall(S)

Spec == Init /\ [][Next]_vars

\* The goroutines run, the streams end and the output is read.
FairSpec == Spec /\ WF_vars(LoopStep) /\ \A s \in Stream : WF_vars(ReaderStep(s))

-----------------------------------------------------------------------------
(***************************************************************************)
(* Properties.                                                             *)
(***************************************************************************)

TypeOK ==
    /\ input \in [Stream -> Seq(Entry)]
    /\ read \in [Stream -> Nat]
    /\ \A s \in Stream : read[s] <= Len(input[s])
    /\ reader \in [Stream -> {"receive", "acquire", "send", "close", "done"}]
    /\ slots \in [Stream -> Int]
    /\ lastSeen \in [Stream -> Nat]
    /\ closed \in SUBSET Stream /\ stalled \in SUBSET Stream
    /\ queue \in SUBSET Entries /\ out \in SUBSET Entries
    /\ watermark \in Nat /\ lastEmitted \in Nat /\ floor \in Nat
    /\ phase \in {"select", "emit", "done"}
    /\ heartbeat \in Stream \cup {None}
    /\ everStalled \in SUBSET Stream
    /\ stalls \in Nat

\* The entries of s that hold a slot: the queued ones, the one its reader is
\* handing over and the heartbeat that is being processed.
InFlight(s) ==
    Cardinality({e \in queue : e[1] = s})
      + (IF reader[s] = "send" THEN 1 ELSE 0)
      + (IF heartbeat = s THEN 1 ELSE 0)

\* The semaphore of a stream counts exactly its entries in flight: no path of
\* the run loop forgets to release a slot or releases one twice.
SlotsExact == \A s \in Stream : slots[s] = InFlight(s)

\* Log entries come out in the order of their timestamps, with respect to all
\* entries and heartbeats sent before; only an entry of a stream that had been
\* found stalled can be late.
Ordered ==
    [][\A e \in out' \ out :
        KindOf(e) = "log" /\ Ts(e) # 0 /\ e[1] \notin everStalled => floor <= Ts(e)]_vars

\* When the output is closed, every log and error entry has been sent.
NothingLost ==
    phase = "done" => out = {e \in Entries : KindOf(e) # "heartbeat"}

\* "The returned channel is closed when all input streams are closed."
OutputCloses == <>(phase = "done")

\* The output is closed in the end unless some stream has been found stalled:
\* neither the slots nor the watermark hold back the last entries for good.
ClosesUnlessStalled == <>(phase = "done" \/ everStalled # {})
=============================================================================
