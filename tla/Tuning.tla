------------------------------- MODULE Tuning -------------------------------
(***************************************************************************)
(* What adjusts an established connection: the switchable congestion       *)
(* controller, driven by quinn while other threads switch it between BBR   *)
(* and Brutal; the task that fits the flow-control windows to the path;    *)
(* and the task that reports metrics.                                      *)
(*                                                                         *)
(* A controller object is shared by its handles. quinn asks the factory    *)
(* for an object when it makes a path, clones the handle when only the     *)
(* peer's port changed, and returns to the path before when the new one    *)
(* cannot be validated. A Hysteria2 server disables path management, and   *)
(* its connections only ever rebind. The window task is spawned by SQuic   *)
(* servers, the metrics task by Hysteria2. Rate 0 stands for BBR.          *)
(***************************************************************************)
EXTENDS Integers

CONSTANTS
    Switchers,          \* calls of configure_connection_brutal or _bbr
    Rates,              \* bytes per second they ask for; 0 stands for BBR
    InitialMtu, Mtus,   \* the MTU a path begins with, and those found later
    MaxObjects,         \* bound on the controllers of the connection
    Rtts,               \* round-trip times in units of 1/Nanos s
    Cwnds,              \* congestion windows
    SendRate,           \* the rate the window task was given
    MinimumSend, MinimumReceive,    \* and its minimum windows
    Nanos,              \* nanoseconds in a second
    Max64, Max128,      \* u64::MAX and u128::MAX
    MaxVarInt,          \* VarInt::MAX
    MaxPackets          \* bound on the packets counted

ASSUME TuningAssumption ==
    /\ Rates \subseteq Nat /\ Mtus \subseteq Nat /\ Rtts \subseteq Nat /\ Cwnds \subseteq Nat
    /\ InitialMtu \in Nat /\ MaxObjects \in Nat \ {0} /\ MaxPackets \in Nat
    /\ Nanos \in Nat \ {0} /\ Max64 \in Nat /\ Max128 \in Nat /\ MaxVarInt \in Nat
    /\ SendRate \in 0..Max64 /\ MinimumSend \in 0..Max64 /\ MinimumReceive \in 0..Max64
    /\ (Max64 + 1) * Nanos <= Max128

VARIABLES
    family,             \* "squic" or "hysteria2"
    link,               \* "open" or "closed"
    path,               \* the current path: its controller object and its MTU
    fallback,           \* the path to return to, while the current one is validated
    made,               \* number of controller objects made
    state,              \* SwitchState of each object: the rate of the controller
                        \* that runs, its MTU, and the fields kind and current_mtu
    switch,             \* progress of each switcher
    rate, hold,         \* the rate it asks for, and the object it has a handle of
    chosen,             \* rate of the last switch that returned true (history)
    moved,              \* a new controller came into use since, or while that
                        \* switch was under way (history)
    late,               \* switchers whose handle is from before (history)
    windowTask, sample, window,     \* the window task, the statistics it read
                                    \* last, and the windows it set
    metricsTask, counted, previous, reported    \* the metrics task, packets sent
                                    \* since it began, those at its last report,
                                    \* and the sum of its reports

pathVars == <<path, fallback, made>>
switchVars == <<switch, rate, hold>>
historyVars == <<chosen, moved, late>>
controlVars == <<pathVars, state, switchVars, historyVars>>
windowVars == <<windowTask, sample, window>>
metricsVars == <<metricsTask, counted, previous, reported>>
tuningVars == <<family, link, controlVars, windowVars, metricsVars>>

Objects == 1..MaxObjects

MaxOf(a, b) == IF a >= b THEN a ELSE b
MinOf(a, b) == IF a <= b THEN a ELSE b

-----------------------------------------------------------------------------
(***************************************************************************)
(* The congestion controller.                                              *)
(***************************************************************************)

\* SwitchableCongestionFactory::build
Build == [runs |-> 0, with |-> InitialMtu, kind |-> 0, current_mtu |-> InitialMtu]

\* set_brutal and set_bbr: a new controller with the MTU on record
SetController(o, r) ==
    LET mtu == state[o].current_mtu IN
    state' = [state EXCEPT ![o] = [runs |-> r, with |-> mtu, kind |-> r, current_mtu |-> mtu]]

\* The call begins: it gets a handle of the current path's controller.
TakeHandle(s, r) ==
    /\ switch[s] = "idle"
    /\ switch' = [switch EXCEPT ![s] = "holding"]
    /\ rate' = [rate EXCEPT ![s] = r]
    /\ hold' = [hold EXCEPT ![s] = path.object]
    /\ UNCHANGED <<family, link, pathVars, state, historyVars, windowVars, metricsVars>>

\* Brutal with a rate of 0 is refused.
RefuseSwitch(s) ==
    /\ switch[s] = "idle"
    /\ switch' = [switch EXCEPT ![s] = "done"]
    /\ UNCHANGED <<family, link, pathVars, state, rate, hold, historyVars,
                   windowVars, metricsVars>>

\* Later, under the lock of the state, the controller is replaced.
ApplySwitch(s) ==
    /\ switch[s] = "holding"
    /\ switch' = [switch EXCEPT ![s] = "done"]
    /\ rate' = [rate EXCEPT ![s] = 0]
    /\ hold' = [hold EXCEPT ![s] = 1]
    /\ SetController(hold[s], rate[s])
    /\ chosen' = rate[s]
    /\ moved' = (s \in late)
    /\ late' = late \ {s}
    /\ UNCHANGED <<family, link, pathVars, windowVars, metricsVars>>

OnMtuUpdate(m) ==
    [state EXCEPT ![path.object] = [runs |-> @.runs, with |-> m, kind |-> @.kind, current_mtu |-> m]]

\* MTU discovery has found another MTU, or a black hole.
MtuChanges(m) ==
    /\ link = "open"
    /\ path' = [path EXCEPT !.mtu = m]
    /\ state' = OnMtuUpdate(m)
    /\ UNCHANGED <<family, link, fallback, made, switchVars, historyVars,
                   windowVars, metricsVars>>

\* quinn keeps the last validated path while it validates a new one.
LeavePath == fallback' = IF fallback = {} THEN {path} ELSE fallback

Moved == moved' = TRUE /\ late' = {s \in Switchers : switch[s] = "holding"}

\* The peer's address changed: a new path with a controller from the factory.
NewPath ==
    /\ family = "squic"
    /\ link = "open" /\ made < MaxObjects
    /\ LeavePath
    /\ made' = made + 1
    /\ path' = [object |-> made', mtu |-> InitialMtu]
    /\ state' = [state EXCEPT ![made'] = Build]
    /\ Moved
    /\ UNCHANGED <<family, link, switchVars, chosen, windowVars, metricsVars>>

\* Slip: a clone has a state of its own.
CloneBoxCopies(o) == made + 1

\* Clone for SwitchableController: another handle of the same object
CloneBox(o) == o

\* Only the port changed: the new path takes over what the old one learned.
Rebind ==
    /\ link = "open"
    /\ CloneBox(path.object) \in Objects
    /\ LeavePath
    /\ path' = [path EXCEPT !.object = CloneBox(path.object)]
    /\ made' = IF path'.object > made THEN path'.object ELSE made
    /\ state' = [state EXCEPT ![path'.object] = state[path.object]]
    /\ UNCHANGED <<family, link, switchVars, historyVars, windowVars, metricsVars>>

PathValidated ==
    /\ link = "open"
    /\ fallback' = {}
    /\ UNCHANGED <<family, link, path, made, state, switchVars, historyVars,
                   windowVars, metricsVars>>

\* The new path was not validated in time.
ReturnToPath ==
    /\ link = "open"
    /\ \E p \in fallback : path' = p
    /\ fallback' = {}
    /\ IF path'.object = path.object THEN UNCHANGED <<moved, late>> ELSE Moved
    /\ UNCHANGED <<family, link, made, state, switchVars, chosen, windowVars, metricsVars>>

-----------------------------------------------------------------------------
(***************************************************************************)
(* The window task.                                                        *)
(***************************************************************************)
SaturatingMul(a, b, max) == MinOf(a * b, max)

\* Slip: the product is taken in 64 bits.
AdaptiveWindow64(bps, rtt, minimum) ==
    MaxOf(MinOf(SaturatingMul(SaturatingMul(bps, rtt, Max64) \div Nanos, 2, Max128), Max64), minimum)

AdaptiveWindow(bps, rtt, minimum) ==
    LET bdp == SaturatingMul(bps, rtt, Max128) \div Nanos
        target == MinOf(SaturatingMul(bdp, 2, Max128), Max64)
    IN  MaxOf(target, minimum)

\* update_connection_windows
Windows(stats) ==
    LET mtuWindow == SaturatingMul(stats.mtu, 10, Max64) IN
    [send |-> MaxOf(MaxOf(AdaptiveWindow(SendRate, stats.rtt, MinimumSend),
                          SaturatingMul(stats.cwnd, 2, Max64)), mtuWindow),
     receive |-> MinOf(MaxOf(AdaptiveWindow(0, stats.rtt, MinimumReceive), mtuWindow), MaxVarInt)]

\* A second has passed: the windows are set again, or the task ends.
WindowTick(rtt, cwnd) ==
    /\ windowTask = "running"
    /\ IF link = "closed"
       THEN windowTask' = "ended" /\ UNCHANGED <<sample, window>>
       ELSE LET stats == [rtt |-> rtt, cwnd |-> cwnd, mtu |-> path.mtu] IN
            /\ sample' = stats
            /\ window' = Windows(stats)
            /\ UNCHANGED windowTask
    /\ UNCHANGED <<family, link, controlVars, metricsVars>>

-----------------------------------------------------------------------------
(***************************************************************************)
(* The metrics task.                                                       *)
(***************************************************************************)
Alive == {"running", "checking"}

PacketSent ==
    /\ link = "open" /\ metricsTask \in Alive /\ counted < MaxPackets
    /\ counted' = counted + 1
    /\ UNCHANGED <<family, link, controlVars, windowVars, metricsTask, previous, reported>>

\* Two seconds have passed: what was counted since the last report.
MetricsTick ==
    /\ metricsTask = "running"
    /\ reported' = reported + MaxOf(counted - previous, 0)
    /\ previous' = counted
    /\ metricsTask' = "checking"
    /\ UNCHANGED <<family, link, controlVars, windowVars, counted>>

\* Slip: the task goes on for ever.
MetricsCheckNothing ==
    /\ metricsTask = "checking"
    /\ metricsTask' = "running"
    /\ UNCHANGED <<family, link, controlVars, windowVars, counted, previous, reported>>

\* Having reported, it looks whether the connection has ended.
MetricsCheck ==
    /\ metricsTask = "checking"
    /\ metricsTask' = IF link = "closed" THEN "ended" ELSE "running"
    /\ UNCHANGED <<family, link, controlVars, windowVars, counted, previous, reported>>

\* The tasks' owner is dropped, which aborts them.
DropTasks ==
    /\ windowTask' = IF windowTask = "running" THEN "aborted" ELSE windowTask
    /\ metricsTask' = IF metricsTask \in Alive THEN "aborted" ELSE metricsTask
    /\ UNCHANGED <<family, link, controlVars, sample, window, counted, previous, reported>>

CloseConnection ==
    /\ link = "open"
    /\ link' = "closed"
    /\ UNCHANGED <<family, controlVars, windowVars, metricsVars>>

-----------------------------------------------------------------------------
\* spawn sets the windows before the task runs.
TuningInit ==
    /\ family \in {"squic", "hysteria2"}
    /\ link = "open"
    /\ path = [object |-> 1, mtu |-> InitialMtu]
    /\ fallback = {}
    /\ made = 1
    /\ state = [o \in Objects |-> Build]
    /\ switch = [s \in Switchers |-> "idle"]
    /\ rate = [s \in Switchers |-> 0]
    /\ hold = [s \in Switchers |-> 1]
    /\ chosen = 0
    /\ moved = FALSE
    /\ late = {}
    /\ windowTask = IF family = "squic" THEN "running" ELSE "none"
    /\ \E rtt \in Rtts, cwnd \in Cwnds :
         sample = [rtt |-> rtt, cwnd |-> cwnd, mtu |-> InitialMtu]
    /\ window = Windows(sample)
    /\ metricsTask = IF family = "hysteria2" THEN "running" ELSE "none"
    /\ counted = 0 /\ previous = 0 /\ reported = 0

TuningNext ==
    \/ \E s \in Switchers : (\E r \in Rates : TakeHandle(s, r)) \/ RefuseSwitch(s) \/ ApplySwitch(s)
    \/ \E m \in Mtus : MtuChanges(m)
    \/ NewPath \/ Rebind \/ PathValidated \/ ReturnToPath
    \/ \E rtt \in Rtts, cwnd \in Cwnds : WindowTick(rtt, cwnd)
    \/ PacketSent \/ MetricsTick \/ MetricsCheck \/ DropTasks \/ CloseConnection

\* The timers of the two tasks go off.
TuningFairness ==
    /\ WF_tuningVars(\E rtt \in Rtts, cwnd \in Cwnds : WindowTick(rtt, cwnd))
    /\ WF_tuningVars(MetricsTick \/ MetricsCheck)

TuningSpec == TuningInit /\ [][TuningNext]_tuningVars /\ TuningFairness

-----------------------------------------------------------------------------
(***************************************************************************)
(* A switch that returned true is in force and stays in force, also one    *)
(* whose handle was taken before the peer's port changed or before another *)
(* MTU was found: the controller that runs is the one congestion_kind      *)
(* reports, and it has the MTU that quinn reported last. Only a path with  *)
(* a controller of its own starts again with BBR, and a switch through a   *)
(* handle taken before may then have no effect on it.                      *)
(***************************************************************************)
SwitchHolds ==
    LET current == state[path.object] IN
    /\ current.runs = current.kind
    /\ current.with = current.current_mtu
    /\ ~moved => current.kind = chosen

(***************************************************************************)
(* The send window holds two bandwidth-delay products, two congestion      *)
(* windows and ten packets, unless it is the largest there is, and no more *)
(* than the largest of these and the minimum; the receive window holds ten *)
(* packets and is a VarInt. No rate and no round-trip time makes the       *)
(* arithmetic overflow into a small window.                                *)
(***************************************************************************)
WindowsFit ==
    LET bits == 2 * SendRate * sample.rtt IN
    /\ window.send \in MinimumSend..Max64
    /\ \/ window.send = Max64
       \/ /\ (window.send + 2) * Nanos > bits
          /\ window.send >= 2 * sample.cwnd
          /\ window.send >= 10 * sample.mtu
    /\ \/ window.send * Nanos <= bits
       \/ window.send \in {MinimumSend, 2 * sample.cwnd, 10 * sample.mtu}
       \/ window.send = Max64 /\ 2 * sample.cwnd >= Max64
       \/ window.send = Max64 /\ 10 * sample.mtu >= Max64
    /\ window.receive <= MaxVarInt
    /\ window.receive = MaxVarInt \/ window.receive >= MaxOf(MinimumReceive, MinOf(10 * sample.mtu, Max64))

(***************************************************************************)
(* Both tasks hold a handle of the connection; they let go of it once the  *)
(* connection is closed, although each looks for its end only once in a    *)
(* period and the metrics task reports first; and its reports, differences *)
(* of counters that go on meanwhile, count no packet twice.                *)
(***************************************************************************)
TasksEndWithConnection ==
    link = "closed" ~> /\ windowTask # "running" /\ metricsTask \notin Alive
                       /\ reported <= counted

=============================================================================
