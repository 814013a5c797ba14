----------------------------- MODULE LoopTimers -----------------------------
(***************************************************************************)
(* Time in the main loop of circinus: the pulse of run(f, pulseme), the    *)
(* script's timers (Inst::set_timer, Inst::call_backs) and the feeding of  *)
(* the hardware watchdog, with the arithmetic on size_t that they do.      *)
(*                                                                         *)
(* Time is counted in ticks of tick_count() modulo Word, so behaviours are *)
(* unbounded and differences wrap as they do in the code.  What the        *)
(* devices and the REST server do to the loop is a choice here; they are   *)
(* modelled in DeviceEvents and WebSync.                                   *)
(***************************************************************************)
EXTENDS Naturals

CONSTANTS Word,          \* size_t counts modulo Word
          NumTimers,     \* timers have the unique ids 1..NumTimers
          Delays,        \* what scripts pass as milis
          Pulse,         \* run()'s pulseme, > 0
          Dogs,          \* what scripts pass to enable_wd, in ticks; 0: off
          Slow,          \* bound: ticks one iteration of the loop takes
          MaxRequests    \* bound: passes taken by REST requests

Ids == 1..NumTimers
Half == Word \div 2

(* How far the histories count. *)
Longest == CHOOSE d \in Delays : \A e \in Delays : e <= d
MaxDog == CHOOSE d \in Dogs : \A e \in Dogs : e <= d
Starved == MaxDog + 3 * Slow + 1

ASSUME WordAssumption ==
  Word \in Nat /\ \A n \in Delays \cup {Pulse, MaxDog} : n + 3 * Slow < Half
ASSUME BoundsAssumption ==
  /\ Delays \subseteq Nat /\ \E d \in Delays : \A e \in Delays : e <= d
  /\ Dogs \subseteq Nat /\ \E d \in Dogs : \A e \in Dogs : e <= d
  /\ NumTimers \in Nat /\ Pulse \in Nat \ {0}
  /\ Slow \in Nat /\ MaxRequests \in Nat

VARIABLES
  clock,     \* tick_count()
  now,       \* when the last pass that called the loop function began
  then,      \* when this iteration began
  nowwd,     \* when run() last fed the watchdog
  wdto,      \* Wdto
  timers,    \* Inst::_cbs: [id -> [remember, delay]] for the ids in use
  running,   \* ApStat == RUNNING
  requests,  \* passes taken by REST requests so far
  mpc,       \* where run() is
  at,        \* the timer call_backs looks at
  phase,     \* ticks since each timer was set or, once it has fired, since
             \* the pass it last fired at (history)
  fired,     \* the timer has fired since it was set (history)
  hunger     \* ticks since the watchdog was fed or programmed, 0 while
             \* it is off (history)

loop    == <<now, then, nowwd, mpc, at>>
history == <<phase, fired, hunger>>
vars    == <<clock, loop, wdto, timers, running, requests, history>>

MainPC == {"top", "decide", "call", "dog", "sweep", "callback", "gone"}
Tick   == 0..(Word - 1)

Minus(a, b) == (a + Word - b) % Word

TypeOK ==
  /\ clock \in Tick /\ now \in Tick /\ then \in Tick /\ nowwd \in Tick
  /\ wdto \in Dogs \cup {0}
  /\ DOMAIN timers \subseteq Ids
  /\ \A i \in DOMAIN timers : timers[i] \in [remember : Tick, delay : Delays]
  /\ running \in BOOLEAN /\ requests \in 0..MaxRequests
  /\ mpc \in MainPC /\ at \in 1..(NumTimers + 1)
  /\ phase \in [Ids -> 0..Longest]
  /\ fired \in [Ids -> BOOLEAN] /\ hunger \in 0..Starved

(* run() has read the clock; the script's file may have turned the watchdog *)
(* on before, at most Slow ticks ago.                                       *)
Init ==
  /\ clock \in {0, Word - 1} /\ now = clock /\ then = clock /\ nowwd = clock
  /\ wdto \in Dogs \cup {0}
  /\ timers = <<>> /\ running = TRUE /\ requests = 0
  /\ mpc = "top" /\ at = 1
  /\ phase = [i \in Ids |-> 0]
  /\ fired = [i \in Ids |-> FALSE]
  /\ hunger \in IF wdto = 0 THEN {0} ELSE 0..Slow

-----------------------------------------------------------------------------
Least(a, b) == IF a < b THEN a ELSE b

Older(n, limit) == IF n < limit THEN n + 1 ELSE n

(* A tick.  An iteration takes at most Slow of them. *)
TimePasses ==
  /\ mpc # "gone"
  /\ Minus(clock, then) < Slow
  /\ clock' = (clock + 1) % Word
  /\ phase' = [i \in Ids |-> Older(phase[i], Longest)]
  /\ hunger' = IF wdto = 0 THEN hunger ELSE Older(hunger, Starved)
  /\ UNCHANGED <<loop, wdto, timers, running, requests, fired>>

-----------------------------------------------------------------------------
(* The script.                                                             *)

Without(i) == [j \in DOMAIN timers \ {i} |-> timers[j]]
With(i, t) == [j \in DOMAIN timers \cup {i} |-> IF j = i THEN t ELSE timers[j]]

(* set_timer(f, milis, uniq): an id in use is erased by milis = 0 and       *)
(* refused otherwise.                                                       *)
SetTimer(i, milis) ==
  IF i \in DOMAIN timers
    THEN /\ timers' = IF milis = 0 THEN Without(i) ELSE timers
         /\ UNCHANGED <<phase, fired>>
    ELSE /\ timers' = With(i, [remember |-> clock, delay |-> milis])
         /\ phase' = [phase EXCEPT ![i] = 0]
         /\ fired' = [fired EXCEPT ![i] = FALSE]

(* Where functions of the script run: of a device, in check_devs, the loop  *)
(* function, and of a timer.                                                *)
ScriptPC == {"decide", "call", "callback"}

(* One of them sets a timer.  A function does not erase the timer it runs   *)
(* for: call_backs would go on from a freed element.                        *)
ScriptSetsTimer ==
  /\ mpc \in ScriptPC
  /\ \E i \in Ids, milis \in Delays :
        /\ ~(mpc = "callback" /\ i = at /\ milis = 0)
        /\ SetTimer(i, milis)
  /\ UNCHANGED <<clock, loop, wdto, running, requests, hunger>>

(* wd_pull(): a device that cannot be opened or refuses turns Wdto off, and *)
(* is left as it is.  Nothing is counted while Wdto is 0.                   *)
Pull(timeout) ==
  /\ wdto' \in {timeout, 0}
  /\ hunger' = 0

(* enable_wd(seconds), of any function the script has and as often as it    *)
(* likes: the device gets the timeout that run() waits out, but run()'s     *)
(* nowwd stays as it is.  With 0 the device is not told.                    *)
ScriptEnablesDog ==
  /\ mpc \in ScriptPC
  /\ \E timeout \in Dogs : Pull(timeout)
  /\ UNCHANGED <<clock, loop, timers, running, requests, phase, fired>>

(* bark(): nothing while the watchdog is off; nowwd stays as it is.         *)
ScriptBarks ==
  /\ mpc \in ScriptPC
  /\ wdto # 0
  /\ Pull(wdto)
  /\ UNCHANGED <<clock, loop, timers, running, requests, phase, fired>>

-----------------------------------------------------------------------------
(* run().                                                                  *)

Goto(l) == mpc' = l

Top ==
  /\ mpc = "top"
  /\ IF running THEN then' = clock /\ Goto("decide") ELSE Goto("gone") /\ UNCHANGED then
  /\ UNCHANGED <<clock, now, nowwd, at, wdto, timers, running, requests, history>>

(* pulseme > 0 && then - now >= pulseme *)
PulseOver == Minus(then, now) >= Pulse

(* snap_ was up: the pass is the request's *)
RequestPass ==
  /\ mpc = "decide"
  /\ requests < MaxRequests
  /\ requests' = requests + 1
  /\ Goto("dog")
  /\ UNCHANGED <<clock, now, then, nowwd, at, wdto, timers, running, history>>

(* the interval is over, or a device had an event *)
LoopPass ==
  /\ mpc = "decide"
  /\ \E evented \in BOOLEAN :
        IF PulseOver \/ evented THEN now' = then /\ Goto("call")
                                ELSE Goto("dog") /\ UNCHANGED now
  /\ UNCHANGED <<clock, then, nowwd, at, wdto, timers, running, requests, history>>

(* the loop function returns true; false and an exception end run() *)
LoopReturns ==
  /\ mpc = "call"
  /\ mpc' \in {"dog", "gone"}
  /\ UNCHANGED <<clock, now, then, nowwd, at, wdto, timers, running, requests, history>>

(* (then - nowwd) > Wdto*1000: feed the watchdog.  The device bites when    *)
(* its Wdto seconds are over: run() begins to be late where it begins to    *)
(* feed.                                                                    *)
DogHungry == wdto # 0 /\ Minus(then, nowwd) > wdto

FeedDog_Forgotten ==
  /\ mpc = "dog"
  /\ IF DogHungry THEN nowwd' = then ELSE UNCHANGED nowwd
  /\ Goto("sweep") /\ at' = 1
  /\ UNCHANGED <<clock, now, then, wdto, timers, running, requests, history>>

FeedDog ==
  /\ mpc = "dog"
  /\ IF DogHungry
       THEN nowwd' = then /\ Pull(wdto)
       ELSE UNCHANGED <<nowwd, hunger, wdto>>
  /\ Goto("sweep") /\ at' = 1
  /\ UNCHANGED <<clock, now, then, timers, running, requests, phase, fired>>

-----------------------------------------------------------------------------
(* call_backs(now).                                                        *)

(* curtick - t.remember >= t.delay, in size_t *)
Expired_Exactly(i) == Minus(now, timers[i].remember) = timers[i].delay
Expired(i) == Minus(now, timers[i].remember) >= timers[i].delay

SkipTimer ==
  /\ mpc = "sweep" /\ at <= NumTimers
  /\ at \in DOMAIN timers => ~Expired(at)
  /\ at' = at + 1
  /\ UNCHANGED <<clock, now, then, nowwd, mpc, wdto, timers, running, requests, history>>

(* t.remember = curtick *)
Remembered_Unchanged(i) == timers[i].remember
Remembered_NextDue(i) == now + timers[i].delay
Remembered(i) == now

FireTimer ==
  /\ mpc = "sweep" /\ at \in DOMAIN timers
  /\ Expired(at)
  /\ timers' = [timers EXCEPT ![at].remember = Remembered(at)]
  /\ phase' = [phase EXCEPT ![at] = Least(Minus(clock, now), Longest)]
  /\ fired' = [fired EXCEPT ![at] = TRUE]
  /\ Goto("callback")
  /\ UNCHANGED <<clock, now, then, nowwd, at, wdto, running, requests, hunger>>

(* The function's result is ignored; an exception sets ApStat and the       *)
(* sweep goes on.                                                           *)
TimerReturns ==
  /\ mpc = "callback"
  /\ running' \in {running, FALSE}
  /\ Goto("sweep") /\ at' = at + 1
  /\ UNCHANGED <<clock, now, then, nowwd, wdto, timers, requests, history>>

(* usleep, and the next iteration *)
SweepOver ==
  /\ mpc = "sweep" /\ at > NumTimers
  /\ Goto("top") /\ at' = 1
  /\ UNCHANGED <<clock, now, then, nowwd, wdto, timers, running, requests, history>>

MainStep ==
  \/ Top \/ RequestPass \/ LoopPass \/ LoopReturns \/ FeedDog
  \/ SkipTimer \/ FireTimer \/ TimerReturns \/ SweepOver

Ended == mpc = "gone" /\ UNCHANGED vars

Next ==
  \/ MainStep
  \/ ScriptSetsTimer
  \/ ScriptEnablesDog \/ ScriptBarks
  \/ TimePasses
  \/ Ended

Spec == Init /\ [][Next]_vars

(* The main thread is scheduled, the script's functions return, time        *)
(* passes.                                                                  *)
FairSpec == Spec /\ WF_vars(MainStep) /\ WF_vars(TimePasses)
-----------------------------------------------------------------------------
Fires(i) == mpc = "sweep" /\ mpc' = "callback" /\ at = i

(* A timer that has fired fires again only when its delay is over, counted  *)
(* from the pass it last fired at, also when the tick counter wraps         *)
(* (inst.cpp:177-179).                                                      *)
SpacedFires ==
  [][\A i \in Ids : Fires(i) /\ fired[i] => phase[i] >= timers[i].delay]_vars

(* Every timer in use fires, and fires again: its function is called until  *)
(* the id is erased or run() ends.                                          *)
TimerFires ==
  \A i \in Ids :
     i \in DOMAIN timers
       ~> (i \notin DOMAIN timers \/ (mpc = "callback" /\ at = i) \/ mpc = "gone")

(* How late run() feeds: a watchdog that is on is overdue for at most the    *)
(* time of three iterations, whenever and however often the script programs *)
(* it, though run() counts from its own last feeding and judges by the      *)
(* start of the iteration (apis.cpp:463-493, 538).  A device with less      *)
(* tolerance than that bites.                                               *)
OverdueAtMost == wdto # 0 /\ mpc # "gone" => hunger <= wdto + 3 * Slow

(* Fed before the timeout the device was given: the code does not do this   *)
(* unless the script barks.  enable_wd gives the device Wdto seconds        *)
(* (apis.cpp:293), and run() waits for more than Wdto seconds (apis.cpp:538)*)
FedInTime == wdto # 0 /\ mpc # "gone" => hunger <= wdto

(* readme2.md:122, "ctx().set_timer(turnoff_fan,30000,1)", and inst.cpp:277 *)
(* "now": a timer does not fire before its delay is over.                   *)
FiresNotEarly == [][\A i \in Ids : Fires(i) /\ ~fired[i] => phase[i] >= timers[i].delay]_vars

(* readme2.md:147, "return false; // destroy this timer": there is a way    *)
(* for a function to end its timer.                                         *)
FunctionEndsTimer ==
  [][mpc = "callback" /\ mpc' = "sweep" => at \notin DOMAIN timers']_vars
=============================================================================
