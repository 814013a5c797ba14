---------------------------- MODULE DeviceEvents ----------------------------
(***************************************************************************)
(* How a change of a device reaches the script: the dirty flag, the        *)
(* monitor flag and the callback of every device (divais.h, divais.cpp,    *)
(* gpiodev.cpp), and the part of run() that scans the devices and decides  *)
(* whether to call the script's loop function (apis.cpp).                  *)
(*                                                                         *)
(* The devices are GPIO pins: inputs, whose line changes by itself, and    *)
(* outputs, which the script and the REST server drive.  Everything here   *)
(* happens on the main thread except the change of a line and the arrival  *)
(* of a request; WebSync models the locking of the latter.                 *)
(***************************************************************************)
EXTENDS Naturals, Sequences

CONSTANTS Devs,           \* the devices, in the order of Inst::_devs
          Pins,           \* those that are inputs
          CallbackReads,  \* the script's callback calls dev.get_value()
          PulseOn,        \* run(f, pulseme) with pulseme > 0
          MaxRequests     \* bound: REST requests in a behaviour

Dev  == {Devs[i] : i \in 1..Len(Devs)}
Outs == Dev \ Pins

ASSUME DevsAssumption == Devs \in Seq(Dev)
ASSUME PinsAssumption == Pins \subseteq Dev
ASSUME FlagsAssumption == CallbackReads \in BOOLEAN /\ PulseOn \in BOOLEAN
ASSUME RequestsAssumption == MaxRequests \in Nat

VARIABLES
  line,      \* the level of each device's line
  dirty,     \* Divais::_mon_dirt
  monitor,   \* Divais::_monitor
  hooked,    \* Divais::_on_event is a function
  snap,      \* BaseSqEnvi::snap_
  pending,   \* Inst::_pending: at most one setting <<device, what>>
  requests,  \* requests so far
  due,       \* then - now >= pulseme
  mpc,       \* where run() is
  at,        \* the device check_devs looks at
  raised,    \* the devices whose notify_ifdirty returned true in this scan
  told,      \* the level last handed to each device's callback (history)
  owed,      \* the device signalled a change no function heard of (history)
  muted,     \* devices the scan dropped a change of, told nobody (history)
  news       \* devices that changed since the loop function ran (history)

flags   == <<dirty, monitor, hooked>>
web     == <<snap, pending, requests>>
loop    == <<mpc, at, raised, due>>
history == <<told, owed, muted, news>>
vars    == <<line, flags, web, loop, history>>

Level   == {0, 1}
Nothing == 2                    \* no level was handed out yet
Setting == {"read", "write", "on", "off"}
MainPC  == {"check", "callback", "decide", "call", "timers", "gone"}

evented == raised # {}

(* check_devs starts: it looks at the first device, if there is one *)
Scan == IF Devs = <<>> THEN "decide" ELSE "check"

TypeOK ==
  /\ line \in [Dev -> Level]
  /\ dirty \in [Dev -> BOOLEAN] /\ monitor \in [Dev -> BOOLEAN]
  /\ hooked \in [Dev -> BOOLEAN]
  /\ snap \in BOOLEAN /\ pending \in {<<>>} \cup (Dev \X Setting)
  /\ requests \in 0..MaxRequests
  /\ due \in BOOLEAN /\ mpc \in MainPC /\ at \in 1..(Len(Devs) + 1)
  /\ raised \subseteq Dev
  /\ told \in [Dev -> Level \cup {Nothing}] /\ owed \in [Dev -> BOOLEAN]
  /\ muted \subseteq Dev /\ news \subseteq Dev

(* The script's main() hooked some inputs, drove some outputs and calls     *)
(* run().                                                                   *)
Init ==
  /\ line \in [Dev -> Level]
  /\ \E hooks \in SUBSET Pins, driven \in SUBSET Outs :
        /\ hooked = [d \in Dev |-> d \in hooks]
        /\ monitor = hooked
        /\ dirty = [d \in Dev |-> d \in hooks \cup driven]
        /\ owed = dirty
        /\ news = driven
  /\ snap = FALSE /\ pending = <<>> /\ requests = 0
  /\ due = FALSE /\ mpc = Scan /\ at = 1 /\ raised = {}
  /\ told = [d \in Dev |-> Nothing] /\ muted = {}

-----------------------------------------------------------------------------
(* The devices.                                                            *)

(* Divais::on_event and its overrides: the devices in D were read, written *)
(* or set.                                                                 *)
Touch_Nobody(D) == UNCHANGED <<dirty, owed>>
Touch(D) ==
  /\ dirty' = [d \in Dev |-> dirty[d] \/ d \in D]
  /\ owed' = [d \in Dev |-> owed[d] \/ d \in D]

(* An output takes the level it is written, an input refuses it.            *)
Drive_Raw(D) == \E level \in [D \cap Outs -> Level \cup {2}] :
  /\ line' = [d \in Dev |-> IF d \in D \cap Outs THEN level[d] ELSE line[d]]
  /\ news' = news \cup (D \cap Outs)

Drive(D) == \E level \in [D \cap Outs -> Level] :
  /\ line' = [d \in Dev |-> IF d \in D \cap Outs THEN level[d] ELSE line[d]]
  /\ news' = news \cup (D \cap Outs)

(* The line of an input changes. *)
LineChanges(p) ==
  /\ line' = [line EXCEPT ![p] = 1 - line[p]]
  /\ news' = news \cup {p}
  /\ UNCHANGED <<flags, web, loop, told, owed, muted>>

(* set_cb: f # null starts monitoring, null stops it.                       *)
SetCallback(p, on) ==
  /\ monitor' = [monitor EXCEPT ![p] = on]
  /\ hooked' = [hooked EXCEPT ![p] = on]
  /\ dirty' = [dirty EXCEPT ![p] = dirty[p] \/ on]
  /\ owed' = [owed EXCEPT ![p] = owed[p] \/ on]

-----------------------------------------------------------------------------
(* run().                                                                  *)

NextDevice(r) ==
  /\ at' = at + 1
  /\ raised' = r
  /\ mpc' = IF at = Len(Devs) THEN "decide" ELSE "check"

(* notify_ifdirty of a device that is not monitored or not dirty            *)
CheckQuiet_Silent ==
  /\ mpc = "check"
  /\ ~(monitor[Devs[at]] /\ dirty[Devs[at]])
  /\ NextDevice(raised)
  /\ UNCHANGED <<line, flags, web, due, history>>

CheckQuiet ==
  /\ mpc = "check"
  /\ LET d == Devs[at] IN
        /\ ~(monitor[d] /\ dirty[d])
        /\ NextDevice(IF dirty[d] THEN raised \cup {d} ELSE raised)
  /\ UNCHANGED <<line, flags, web, due, history>>

(* notify_ifdirty of a monitored dirty device: _call_cb(get_value()) reads  *)
(* the line, which sets the flag, clears the flag and then calls the        *)
(* script's callback.  The change of a device that is monitored without one, *)
(* which only the REST setting "_M=1" can bring about, is dropped here: its *)
(* flag is cleared and no function runs.                                    *)
CheckMonitored ==
  /\ mpc = "check"
  /\ LET d == Devs[at] IN
        /\ monitor[d] /\ dirty[d]
        /\ dirty' = [dirty EXCEPT ![d] = FALSE]
        /\ IF hooked[d]
             THEN /\ owed' = [owed EXCEPT ![d] = FALSE]
                  /\ told' = [told EXCEPT ![d] = line[d]]
                  /\ mpc' = "callback"
                  /\ UNCHANGED <<at, raised, muted>>
             ELSE /\ muted' = muted \cup {d}
                  /\ NextDevice(raised)
                  /\ UNCHANGED <<told, owed>>
  /\ UNCHANGED <<line, monitor, hooked, web, due, news>>

(* The script's callback: reads its device or not, drives outputs.  What    *)
(* notify_ifdirty returns is the flag after it.                             *)
CallbackEffect_ClearAfter(d, W) ==
  LET D == (IF CallbackReads THEN {d} ELSE {}) \cup W IN
    /\ owed' = [e \in Dev |-> owed[e] \/ e \in D]
    /\ dirty' = [e \in Dev |-> (dirty[e] \/ e \in D) /\ e # d]

CallbackEffect(d, W) == Touch((IF CallbackReads THEN {d} ELSE {}) \cup W)

Callback ==
  /\ mpc = "callback"
  /\ LET d == Devs[at] IN
       \E W \in SUBSET Outs :
        /\ CallbackEffect(d, W)
        /\ Drive(W)
        /\ NextDevice(IF dirty'[d] THEN raised \cup {d} ELSE raised)
  /\ UNCHANGED <<monitor, hooked, web, due, told, muted>>

(* comit_devs: the stored setting reaches the device.                       *)
Commit ==
  /\ pending' = <<>>
  /\ IF pending = <<>>
       THEN UNCHANGED <<line, flags, owed, news>>
       ELSE LET d == pending[1]
                op == pending[2]
            IN /\ Touch({d})
               /\ monitor' = [monitor EXCEPT ![d] =
                                IF op = "on" THEN TRUE
                                ELSE IF op = "off" THEN FALSE ELSE monitor[d]]
               /\ IF op = "write" THEN Drive({d}) ELSE UNCHANGED <<line, news>>
               /\ UNCHANGED hooked

(* pulse elapsed || snap_ || evented *)
PassWanted == due \/ snap \/ evented

NoPass ==
  /\ mpc = "decide"
  /\ ~PassWanted
  /\ mpc' = "timers"
  /\ UNCHANGED <<line, flags, web, at, raised, due, history>>

(* a request wants its answer: commit, do not call the loop function        *)
SnapPass ==
  /\ mpc = "decide"
  /\ PassWanted /\ snap
  /\ snap' = FALSE
  /\ Commit
  /\ mpc' = "timers"
  /\ UNCHANGED <<requests, at, raised, due, told, muted>>

LoopPass ==
  /\ mpc = "decide"
  /\ PassWanted /\ ~snap
  /\ Commit
  /\ mpc' = "call"
  /\ UNCHANGED <<snap, requests, at, raised, due, told, muted>>

(* The loop function hears of the devices raised in this scan.  It drives   *)
(* outputs, reads inputs, and returns true or false.                        *)
Heard(d) == evented /\ d \in raised

LoopFunction ==
  /\ mpc = "call"
  /\ \E W \in SUBSET Outs, R \in SUBSET Pins : \E level \in [W -> Level] :
        /\ line' = [d \in Dev |-> IF d \in W THEN level[d] ELSE line[d]]
        /\ dirty' = [d \in Dev |-> dirty[d] \/ d \in W \cup R]
        /\ owed' = [d \in Dev |-> (owed[d] /\ ~Heard(d)) \/ d \in W \cup R]
        /\ news' = W
  /\ due' = FALSE
  /\ mpc' \in {"timers", "gone"}
  /\ UNCHANGED <<monitor, hooked, web, at, raised, told, muted>>

(* any of the script's functions: hook or unhook an input                   *)
ScriptSetsCallback ==
  /\ mpc \in {"callback", "call", "timers"}
  /\ \E p \in Pins, on \in BOOLEAN : SetCallback(p, on)
  /\ UNCHANGED <<line, web, loop, told, muted, news>>

(* call_backs sleeps; the next iteration scans the devices again            *)
NextIteration ==
  /\ mpc = "timers"
  /\ mpc' = Scan /\ at' = 1 /\ raised' = {}
  /\ UNCHANGED <<line, flags, web, due, history>>

MainStep ==
  \/ CheckQuiet \/ CheckMonitored \/ Callback
  \/ NoPass \/ SnapPass \/ LoopPass \/ LoopFunction \/ NextIteration

-----------------------------------------------------------------------------
(* web_set_data stored a setting; a refresh or a write also raises snap_.   *)
Request ==
  /\ mpc # "gone"
  /\ requests < MaxRequests
  /\ requests' = requests + 1
  /\ pending' \in Dev \X Setting
  /\ snap' \in {snap, TRUE}
  /\ UNCHANGED <<line, flags, loop, history>>

PulseElapses ==
  /\ PulseOn /\ ~due /\ mpc # "gone"
  /\ due' = TRUE
  /\ UNCHANGED <<line, flags, web, mpc, at, raised, history>>

Ended == mpc = "gone" /\ UNCHANGED vars

Next ==
  \/ MainStep
  \/ ScriptSetsCallback
  \/ \E p \in Pins : mpc # "gone" /\ LineChanges(p)
  \/ Request
  \/ PulseElapses
  \/ Ended

Spec == Init /\ [][Next]_vars

(* The main thread is scheduled and the script's functions return.  Nothing *)
(* makes a line change or a request arrive.                                 *)
FairSpec == Spec /\ WF_vars(MainStep) /\ WF_vars(PulseElapses)
-----------------------------------------------------------------------------
(* A function of the script runs for the device: its callback, or the loop  *)
(* function after a scan that raised it.                                    *)
Hearing(d) ==
  \/ mpc = "callback" /\ d = Devs[at]
  \/ mpc = "call" /\ Heard(d)

(* A change a device signalled stays flagged until the callback or the loop *)
(* function ran for it, although reading a device for its callback raises   *)
(* the very flag that the scan clears, the callback may raise it again, and *)
(* a pass for a REST request drops the scan's result (apis.cpp:516-533).    *)
(* The one exception is a device that was monitored without a callback:     *)
(* what it signalled was dropped (CheckMonitored).                          *)
ChangeKept == \A d \in Dev : owed[d] => dirty[d] \/ d \in muted

(* ... and one of the two does run for it, however many requests come in    *)
(* between.                                                                 *)
ChangeHeard ==
  \A d \in Dev :
     owed[d] ~> (Hearing(d) \/ ~owed[d] \/ d \in muted \/ mpc = "gone")

(* What one would expect and the code does not have: no change is dropped.  *)
(* "_M=1" of the REST interface makes a device monitored that has no        *)
(* callback, and notify_ifdirty then clears its flag for nobody             *)
(* (divais.h:106-148).                                                      *)
NoChangeDropped == muted = {}

(* README.md:122, "calls callback when the pb state is changes": a level    *)
(* the callback of a monitored pin has not seen is handed to it, unless it  *)
(* changes back.                                                            *)
ChangeNoticed ==
  \A p \in Pins :
     (monitor[p] /\ hooked[p] /\ told[p] # line[p])
        ~> (told[p] = line[p] \/ ~monitor[p] \/ ~hooked[p] \/ mpc = "gone")

(* README.md:125, "run loop() calling it at 1000 ms interval, though when   *)
(* pb state changes": the loop function runs because the interval is over   *)
(* or because some device changed since it ran last.                        *)
LoopHasCause ==
  [][mpc = "call" /\ mpc' \in {"timers", "gone"} => due \/ news # {}]_vars
=============================================================================
