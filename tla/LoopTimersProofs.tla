-------------------------- MODULE LoopTimersProofs --------------------------
(***************************************************************************)
(* Proofs about LoopTimers for every width of the tick counter, set of     *)
(* delays, watchdog interval and pace of the loop that the assumptions of  *)
(* the module allow.                                                       *)
(***************************************************************************)
EXTENDS LoopTimers, Integers, TLAPS

-----------------------------------------------------------------------------
(* Arithmetic modulo Word.                                                 *)

LEMMA WordFacts ==
  /\ Word \in Nat \ {0} /\ MaxDog \in Nat /\ Slow \in Nat /\ Pulse \in Nat
  /\ MaxDog + 3 * Slow < Word
  /\ \A d \in Dogs \cup {0} : d \in Nat /\ d <= MaxDog
  /\ Longest \in Nat /\ Starved \in Nat
<1>1. Longest \in Delays
  BY BoundsAssumption DEF Longest
<1>2. Half \in Nat /\ Half <= Word
  BY WordAssumption DEF Half
<1>3. MaxDog \in Dogs /\ \A d \in Dogs : d <= MaxDog
  BY BoundsAssumption DEF MaxDog
<1>4. MaxDog \in Nat /\ \A d \in Dogs \cup {0} : d \in Nat /\ d <= MaxDog
  BY <1>3, BoundsAssumption
<1>5. QED
  BY <1>1, <1>2, <1>4, WordAssumption, BoundsAssumption DEF Starved

LEMMA ModSmall ==
  ASSUME NEW W \in Nat \ {0}, NEW x \in Nat, x < 2 * W
  PROVE  x % W = IF x < W THEN x ELSE x - W
<1>1. x % W \in 0..(W - 1) /\ x = W * (x \div W) + (x % W) /\ x \div W \in Int
  OBVIOUS
<1>2. CASE x < W
  BY <1>2
<1>3. CASE x >= W
  BY <1>3
<1>4. QED
  BY <1>2, <1>3

LEMMA MinusIs ==
  ASSUME NEW a \in Tick, NEW b \in Tick
  PROVE  /\ Minus(a, b) = IF a >= b THEN a - b ELSE (a + Word) - b
         /\ Minus(a, b) \in Tick
<1>1. Word \in Nat \ {0}
  BY WordFacts
<1>2. a \in 0..(Word - 1) /\ b \in 0..(Word - 1)
  BY DEF Tick
<1> DEFINE x == a + Word - b
<1>3. x \in Nat /\ x < 2 * Word
  BY <1>1, <1>2
<1>4. x % Word = IF x < Word THEN x ELSE x - Word
  BY <1>1, <1>3, ModSmall
<1>5. QED
  BY <1>1, <1>2, <1>4 DEF Minus, Tick

(* The clock ticks. *)
LEMMA NextTick ==
  ASSUME NEW a \in Tick, NEW b \in Tick
  PROVE  /\ (a + 1) % Word \in Tick
         /\ Minus(a, b) < Word - 1 => Minus((a + 1) % Word, b) = Minus(a, b) + 1
<1>1. Word \in Nat \ {0}
  BY WordFacts
<1>2. a \in 0..(Word - 1) /\ b \in 0..(Word - 1)
  BY DEF Tick
<1>3. (a + 1) % Word = IF a + 1 < Word THEN a + 1 ELSE 0
  <2>1. a + 1 \in Nat /\ a + 1 < 2 * Word
    BY <1>1, <1>2
  <2>2. (a + 1) % Word = IF a + 1 < Word THEN a + 1 ELSE (a + 1) - Word
    BY <1>1, <2>1, ModSmall
  <2>3. QED
    BY <1>1, <1>2, <2>2
<1>4. (a + 1) % Word \in Tick
  BY <1>1, <1>2, <1>3 DEF Tick
<1> DEFINE c == (a + 1) % Word
<1>5. Minus(a, b) = IF a >= b THEN a - b ELSE (a + Word) - b
  BY MinusIs
<1>6. Minus(c, b) = IF c >= b THEN c - b ELSE (c + Word) - b
  BY <1>4, MinusIs
<1> HIDE DEF c
<1>7. c = IF a + 1 < Word THEN a + 1 ELSE 0
  BY <1>3 DEF c
<1>8. Minus(a, b) < Word - 1 => Minus(c, b) = Minus(a, b) + 1
  BY <1>1, <1>2, <1>5, <1>6, <1>7
<1>9. QED
  BY <1>4, <1>8 DEF c

(* Differences add up as long as they do not reach Word. *)
LEMMA MinusAdds ==
  ASSUME NEW a \in Tick, NEW b \in Tick, NEW c \in Tick,
         Minus(a, b) + Minus(b, c) < Word
  PROVE  Minus(a, c) = Minus(a, b) + Minus(b, c)
<1>1. Word \in Nat \ {0}
  BY WordFacts
<1>2. a \in 0..(Word - 1) /\ b \in 0..(Word - 1) /\ c \in 0..(Word - 1)
  BY DEF Tick
<1>3. /\ Minus(a, b) = IF a >= b THEN a - b ELSE (a + Word) - b
      /\ Minus(b, c) = IF b >= c THEN b - c ELSE (b + Word) - c
      /\ Minus(a, c) = IF a >= c THEN a - c ELSE (a + Word) - c
  BY MinusIs
<1>4. QED
  BY <1>1, <1>2, <1>3

LEMMA MinusSelf == ASSUME NEW a \in Tick PROVE Minus(a, a) = 0
<1>1. a \in Int /\ a - a = 0
  BY WordFacts DEF Tick
<1>2. QED
  BY <1>1, MinusIs

-----------------------------------------------------------------------------
(* Types.                                                                  *)

TypeInv == TypeOK /\ (mpc = "callback" => at <= NumTimers)

LEMMA OlderStays ==
  ASSUME NEW limit \in Nat, NEW n \in 0..limit
  PROVE  Older(n, limit) \in 0..limit /\ Older(n, limit) <= n + 1
BY DEF Older

LEMMA InitTypes == Init => TypeInv
<1> SUFFICES ASSUME Init PROVE TypeInv
  OBVIOUS
<1>1. clock \in Tick /\ now \in Tick /\ then \in Tick /\ nowwd \in Tick
  BY WordFacts DEF Init, Tick
<1>2. DOMAIN timers = {}
  BY DEF Init
<1>3. /\ wdto \in Dogs \cup {0} /\ running \in BOOLEAN /\ requests \in 0..MaxRequests
      /\ mpc = "top" /\ at \in 1..(NumTimers + 1)
  BY BoundsAssumption DEF Init
<1>4. /\ phase \in [Ids -> 0..Longest] /\ fired \in [Ids -> BOOLEAN]
      /\ hunger \in 0..Starved
  BY WordFacts DEF Init, Starved
<1>5. QED
  BY <1>1, <1>2, <1>3, <1>4 DEF TypeInv, TypeOK, MainPC

LEMMA PullTypes ==
  ASSUME TypeInv, NEW timeout \in Dogs \cup {0}, Pull(timeout)
  PROVE  wdto' \in Dogs \cup {0} /\ hunger' \in 0..Starved
BY WordFacts DEF Pull, TypeInv, TypeOK

(* The script's set_timer. *)
LEMMA SetTimerTypes ==
  ASSUME TypeInv, NEW i \in Ids, NEW milis \in Delays, SetTimer(i, milis)
  PROVE  /\ DOMAIN timers' \subseteq Ids
         /\ \A j \in DOMAIN timers' : timers'[j] \in [remember : Tick, delay : Delays]
         /\ phase' \in [Ids -> 0..Longest] /\ fired' \in [Ids -> BOOLEAN]
<1>1. /\ DOMAIN timers \subseteq Ids /\ clock \in Tick
      /\ \A j \in DOMAIN timers : timers[j] \in [remember : Tick, delay : Delays]
      /\ phase \in [Ids -> 0..Longest] /\ fired \in [Ids -> BOOLEAN]
      /\ 0 \in 0..Longest
  BY WordFacts DEF TypeInv, TypeOK
<1>2. CASE i \in DOMAIN timers
  BY <1>1, <1>2 DEF SetTimer, Without
<1>3. CASE i \notin DOMAIN timers
  <2>1. [remember |-> clock, delay |-> milis] \in [remember : Tick, delay : Delays]
    BY <1>1
  <2>2. timers' = With(i, [remember |-> clock, delay |-> milis])
    BY <1>3 DEF SetTimer
  <2>3. phase' \in [Ids -> 0..Longest] /\ fired' \in [Ids -> BOOLEAN]
    BY <1>1, <1>3 DEF SetTimer
  <2>4. QED
    BY <1>1, <2>1, <2>2, <2>3 DEF With
<1>4. QED
  BY <1>2, <1>3

LEMMA NextTypes ==
  ASSUME TypeInv, Next
  PROVE  TypeInv'
<1>0. TypeOK
  BY DEF TypeInv
<1>1. CASE TimePasses
  <2>1. clock' \in Tick
    BY <1>0, <1>1, NextTick DEF TimePasses, TypeOK
  <2>2. phase' \in [Ids -> 0..Longest] /\ hunger' \in 0..Starved
    BY <1>0, <1>1, WordFacts, OlderStays DEF TimePasses, TypeOK
  <2>3. UNCHANGED <<loop, wdto, timers, running, requests, fired>>
    BY <1>1 DEF TimePasses
  <2>4. QED
    BY <2>1, <2>2, <2>3 DEF TypeInv, TypeOK, loop
<1>2. CASE ScriptSetsTimer
  <2>1. PICK i \in Ids, milis \in Delays : SetTimer(i, milis)
    BY <1>2 DEF ScriptSetsTimer
  <2>2. UNCHANGED <<clock, loop, wdto, running, requests, hunger>>
    BY <1>2 DEF ScriptSetsTimer
  <2>3. QED
    BY <2>1, <2>2, SetTimerTypes DEF TypeInv, TypeOK, loop
<1>3. CASE ScriptEnablesDog
  <2>1. wdto' \in Dogs \cup {0} /\ hunger' \in 0..Starved
    BY <1>0, <1>3, PullTypes DEF ScriptEnablesDog, TypeOK
  <2>2. UNCHANGED <<clock, loop, timers, running, requests, phase, fired>>
    BY <1>3 DEF ScriptEnablesDog
  <2>3. QED
    BY <2>1, <2>2 DEF TypeInv, TypeOK, loop
<1>4. CASE Top
  <2>1. then' \in Tick /\ mpc' \in {"decide", "gone"}
    BY <1>0, <1>4 DEF Top, Goto, TypeOK
  <2>2. UNCHANGED <<clock, now, nowwd, at, wdto, timers, running, requests, history>>
    BY <1>4 DEF Top
  <2>3. QED
    BY <2>1, <2>2 DEF TypeInv, TypeOK, history, MainPC
<1>5. CASE RequestPass
  <2>1. requests' \in 0..MaxRequests /\ mpc' = "dog"
    BY <1>0, <1>5, BoundsAssumption DEF RequestPass, Goto, TypeOK
  <2>2. UNCHANGED <<clock, now, then, nowwd, at, wdto, timers, running, history>>
    BY <1>5 DEF RequestPass
  <2>3. QED
    BY <2>1, <2>2 DEF TypeInv, TypeOK, history, MainPC
<1>6. CASE LoopPass
  <2>1. now' \in Tick /\ mpc' \in {"call", "dog"}
    BY <1>0, <1>6 DEF LoopPass, Goto, TypeOK
  <2>2. UNCHANGED <<clock, then, nowwd, at, wdto, timers, running, requests, history>>
    BY <1>6 DEF LoopPass
  <2>3. QED
    BY <2>1, <2>2 DEF TypeInv, TypeOK, history, MainPC
<1>7. CASE LoopReturns
  <2>1. mpc' \in {"dog", "gone"}
    BY <1>7 DEF LoopReturns
  <2>2. UNCHANGED <<clock, now, then, nowwd, at, wdto, timers, running, requests, history>>
    BY <1>7 DEF LoopReturns
  <2>3. QED
    BY <2>1, <2>2 DEF TypeInv, TypeOK, history, MainPC
<1>8. CASE FeedDog
  <2>1. nowwd' \in Tick /\ hunger' \in 0..Starved /\ wdto' \in Dogs \cup {0}
    BY <1>0, <1>8, PullTypes DEF FeedDog, TypeOK
  <2>2. mpc' = "sweep" /\ at' \in 1..(NumTimers + 1)
    BY <1>8, BoundsAssumption DEF FeedDog, Goto
  <2>3. UNCHANGED <<clock, now, then, timers, running, requests, phase, fired>>
    BY <1>8 DEF FeedDog
  <2>4. QED
    BY <2>1, <2>2, <2>3 DEF TypeInv, TypeOK, MainPC
<1>9. CASE SkipTimer
  <2>1. at' \in 1..(NumTimers + 1) /\ mpc' = "sweep"
    BY <1>0, <1>9, BoundsAssumption DEF SkipTimer, TypeOK
  <2>2. UNCHANGED <<clock, now, then, nowwd, wdto, timers, running, requests, history>>
    BY <1>9 DEF SkipTimer
  <2>3. QED
    BY <2>1, <2>2 DEF TypeInv, TypeOK, history, MainPC
<1>10. CASE FireTimer
  <2>1. at \in DOMAIN timers /\ at \in Ids /\ at <= NumTimers
    BY <1>0, <1>10, BoundsAssumption DEF FireTimer, TypeOK, Ids
  <2>2. /\ DOMAIN timers' \subseteq Ids
        /\ \A j \in DOMAIN timers' : timers'[j] \in [remember : Tick, delay : Delays]
    BY <1>0, <1>10, <2>1 DEF FireTimer, Remembered, TypeOK
  <2>3. phase' \in [Ids -> 0..Longest] /\ fired' \in [Ids -> BOOLEAN]
    <3>1. Minus(clock, now) \in Nat
      <4>1. Minus(clock, now) \in Tick
        BY <1>0, MinusIs DEF TypeOK
      <4>2. QED
        BY <4>1, WordFacts DEF Tick
    <3>2. Least(Minus(clock, now), Longest) \in 0..Longest
      BY <3>1, WordFacts DEF Least
    <3>3. QED
      BY <1>0, <1>10, <3>2 DEF FireTimer, TypeOK
  <2>4. mpc' = "callback"
    BY <1>10 DEF FireTimer, Goto
  <2>5. UNCHANGED <<clock, now, then, nowwd, at, wdto, running, requests, hunger>>
    BY <1>10 DEF FireTimer
  <2>6. QED
    BY <2>1, <2>2, <2>3, <2>4, <2>5 DEF TypeInv, TypeOK, MainPC
<1>11. CASE TimerReturns
  <2>1. at' \in 1..(NumTimers + 1) /\ mpc' = "sweep"
    BY <1>11, BoundsAssumption DEF TimerReturns, Goto, TypeInv, TypeOK
  <2>2. running' \in BOOLEAN
    BY <1>0, <1>11 DEF TimerReturns, TypeOK
  <2>3. UNCHANGED <<clock, now, then, nowwd, wdto, timers, requests, history>>
    BY <1>11 DEF TimerReturns
  <2>4. QED
    BY <2>1, <2>2, <2>3 DEF TypeInv, TypeOK, history, MainPC
<1>12. CASE SweepOver
  <2>1. at' \in 1..(NumTimers + 1) /\ mpc' = "top"
    BY <1>12, BoundsAssumption DEF SweepOver, Goto
  <2>2. UNCHANGED <<clock, now, then, nowwd, wdto, timers, running, requests, history>>
    BY <1>12 DEF SweepOver
  <2>3. QED
    BY <2>1, <2>2 DEF TypeInv, TypeOK, history, MainPC
<1>13. CASE Ended
  BY <1>13 DEF Ended, vars, loop, history, TypeInv, TypeOK
<1>14. CASE ScriptBarks
  <2>1. wdto' \in Dogs \cup {0} /\ hunger' \in 0..Starved
    BY <1>0, <1>14, PullTypes DEF ScriptBarks, TypeOK
  <2>2. UNCHANGED <<clock, loop, timers, running, requests, phase, fired>>
    BY <1>14 DEF ScriptBarks
  <2>3. QED
    BY <2>1, <2>2 DEF TypeInv, TypeOK, loop
<1>15. QED
  BY <1>1, <1>2, <1>3, <1>4, <1>5, <1>6, <1>7, <1>8, <1>9, <1>10, <1>11, <1>12, <1>13,
     <1>14 DEF Next, MainStep

-----------------------------------------------------------------------------
(* The watchdog.                                                           *)

Age == Minus(clock, then)   \* of this iteration
Gap == Minus(then, nowwd)   \* since run() last fed the dog, at its start

(* The dog is judged once an iteration, between "dog" and "sweep".          *)
Unjudged == mpc \in {"decide", "call", "dog"}

(* Programmed in this iteration or, too late to be judged, in the last one: *)
(* nothing is known of nowwd, which run() did not move while it was off.    *)
JustEnabled == hunger <= Age + (IF Unjudged THEN Slow ELSE 0)

Watched ==
  /\ Gap <= wdto + (IF Unjudged THEN Slow ELSE 0)
  /\ hunger <= Gap + Age + Slow

DogInv ==
  /\ Age <= Slow
  /\ wdto # 0 /\ mpc # "gone" => JustEnabled \/ Watched

LEMMA Differences ==
  ASSUME TypeInv
  PROVE  /\ Age \in Nat /\ Gap \in Nat /\ hunger \in Nat /\ wdto \in Nat /\ wdto <= MaxDog
         /\ Slow \in Nat /\ MaxDog \in Nat /\ Word \in Nat /\ MaxDog + 3 * Slow < Word
<1>1. Age \in Tick /\ Gap \in Tick
  BY MinusIs DEF TypeInv, TypeOK, Age, Gap
<1>2. Age \in Nat /\ Gap \in Nat
  BY <1>1, WordFacts DEF Tick
<1>3. QED
  BY <1>2, WordFacts DEF TypeInv, TypeOK

LEMMA InitDog == Init => DogInv
<1> SUFFICES ASSUME Init PROVE DogInv
  OBVIOUS
<1>1. TypeInv
  BY InitTypes
<1>2. Age = 0 /\ Gap = 0
  BY <1>1, MinusSelf DEF Init, Age, Gap, TypeInv, TypeOK
<1>3. hunger <= Slow /\ mpc = "top"
  BY WordFacts DEF Init
<1>4. QED
  BY <1>1, <1>2, <1>3, Differences DEF DogInv, Watched

(* Steps that do not look at the clock and leave the dog alone. *)
LEMMA OtherDog ==
  ASSUME TypeInv, DogInv,
         UNCHANGED <<clock, then, nowwd, wdto, hunger>>,
         \/ mpc' = mpc
         \/ mpc' = "gone"
         \/ mpc = "decide" /\ mpc' \in {"call", "dog"}
         \/ mpc = "call" /\ mpc' = "dog"
         \/ mpc \notin {"decide", "call", "dog"} /\ mpc' \notin {"decide", "call", "dog"}
  PROVE  DogInv' \/ mpc = "gone"
<1>1. Age' = Age /\ Gap' = Gap /\ hunger' = hunger /\ wdto' = wdto
  BY DEF Age, Gap, Minus
<1>2. QED
  BY <1>1, Differences DEF DogInv, JustEnabled, Watched, Unjudged

LEMMA NextDog ==
  ASSUME TypeInv, DogInv, Next
  PROVE  DogInv'
<1>0. /\ clock \in Tick /\ then \in Tick /\ nowwd \in Tick
      /\ Age \in Nat /\ Gap \in Nat /\ hunger \in Nat /\ wdto \in Nat /\ wdto <= MaxDog
      /\ Slow \in Nat /\ MaxDog \in Nat /\ Word \in Nat /\ MaxDog + 3 * Slow < Word
  BY Differences DEF TypeInv, TypeOK
<1>1. CASE TimePasses
  <2>1. Age < Slow /\ then' = then /\ nowwd' = nowwd /\ mpc' = mpc /\ wdto' = wdto
    BY <1>1 DEF TimePasses, loop, Age
  <2>2. Age' = Age + 1
    <3>1. Minus((clock + 1) % Word, then) = Minus(clock, then) + 1
      BY <1>0, <2>1, NextTick DEF Age
    <3>2. QED
      BY <1>1, <2>1, <3>1 DEF TimePasses, Age, Minus
  <2>3. Gap' = Gap
    BY <2>1 DEF Gap, Minus
  <2>4. hunger' \in Nat /\ hunger' <= hunger + 1
    BY <1>0, <1>1, WordFacts, OlderStays DEF TimePasses, TypeInv, TypeOK, Older
  <2>5. QED
    BY <1>0, <2>1, <2>2, <2>3, <2>4 DEF DogInv, JustEnabled, Watched, Unjudged
<1>2. CASE ScriptEnablesDog \/ ScriptBarks
  <2>1. clock' = clock /\ then' = then /\ (wdto' = 0 \/ hunger' = 0)
    BY <1>2 DEF ScriptEnablesDog, ScriptBarks, Pull, loop
  <2>2. Age' = Age
    BY <2>1 DEF Age, Minus
  <2>3. QED
    BY <1>0, <2>1, <2>2 DEF DogInv, JustEnabled
<1>3. CASE Top
  <2>1. CASE running
    <3>1. /\ mpc = "top" /\ mpc' = "decide" /\ then' = clock /\ clock' = clock
          /\ nowwd' = nowwd /\ wdto' = wdto /\ hunger' = hunger
      BY <1>3, <2>1 DEF Top, Goto, history
    <3>2. Age' = 0
      <4>1. Age' = Minus(clock, clock)
        BY <3>1 DEF Age, Minus
      <4>2. QED
        BY <4>1, <1>0, MinusSelf
    <3>3. CASE wdto = 0
      BY <1>0, <3>1, <3>2, <3>3 DEF DogInv
    <3>4. CASE wdto # 0 /\ JustEnabled
      <4>1. hunger <= Age /\ Age <= Slow
        BY <1>0, <3>1, <3>4 DEF DogInv, JustEnabled, Unjudged
      <4>2. QED
        BY <1>0, <3>1, <3>2, <4>1 DEF DogInv, JustEnabled, Unjudged
    <3>5. CASE wdto # 0 /\ Watched
      <4>1. Gap <= wdto /\ hunger <= Gap + Age + Slow /\ Age <= Slow
        BY <3>1, <3>5, <1>0 DEF DogInv, Watched, Unjudged
      <4>2. Gap' = Minus(clock, nowwd)
        BY <3>1 DEF Gap, Minus
      <4>3. Minus(clock, nowwd) = Age + Gap
        <5>1. Minus(clock, then) + Minus(then, nowwd) < Word
          BY <1>0, <4>1 DEF Age, Gap
        <5>2. QED
          BY <1>0, <5>1, MinusAdds DEF Age, Gap
      <4>4. QED
        BY <1>0, <3>1, <3>2, <4>1, <4>2, <4>3 DEF DogInv, Watched, Unjudged
    <3>6. QED
      BY <3>1, <3>3, <3>4, <3>5 DEF DogInv
  <2>2. CASE ~running
    <3>1. mpc' = "gone" /\ clock' = clock /\ then' = then
      BY <1>3, <2>2 DEF Top, Goto
    <3>2. Age' = Age
      BY <3>1 DEF Age, Minus
    <3>3. QED
      BY <3>1, <3>2 DEF DogInv
  <2>3. QED
    BY <2>1, <2>2
<1>4. CASE FeedDog
  <2>1. mpc = "dog" /\ mpc' = "sweep" /\ clock' = clock /\ then' = then
    BY <1>4 DEF FeedDog, Goto
  <2>2. Age' = Age
    BY <2>1 DEF Age, Minus
  <2>3. CASE DogHungry
    <3>1. nowwd' = then /\ (wdto' = 0 \/ (wdto' = wdto /\ hunger' = 0))
      BY <1>4, <2>3 DEF FeedDog, Pull
    <3>2. Gap' = 0
      <4>1. Gap' = Minus(then, then)
        BY <2>1, <3>1 DEF Gap, Minus
      <4>2. QED
        BY <4>1, <1>0, MinusSelf
    <3>3. CASE wdto' = 0
      BY <2>2, <3>3 DEF DogInv
    <3>4. CASE wdto' = wdto /\ hunger' = 0
      BY <1>0, <2>1, <2>2, <3>1, <3>2, <3>4 DEF DogInv, Watched, Unjudged
    <3>5. QED
      BY <3>1, <3>3, <3>4
  <2>4. CASE ~DogHungry
    <3>1. nowwd' = nowwd /\ hunger' = hunger /\ wdto' = wdto
      BY <1>4, <2>4 DEF FeedDog
    <3>2. Gap' = Gap
      BY <2>1, <3>1 DEF Gap, Minus
    <3>3. wdto # 0 => Gap <= wdto
      BY <1>0, <2>4 DEF DogHungry, Gap
    <3>4. QED
      BY <1>0, <2>1, <2>2, <3>1, <3>2, <3>3 DEF DogInv, JustEnabled, Watched, Unjudged
  <2>5. QED
    BY <2>3, <2>4
<1>5. CASE \/ ScriptSetsTimer \/ RequestPass \/ LoopPass \/ LoopReturns
           \/ SkipTimer \/ FireTimer \/ TimerReturns \/ SweepOver \/ Ended
  <2>1. UNCHANGED <<clock, then, nowwd, wdto, hunger>>
    BY <1>5 DEF ScriptSetsTimer, RequestPass, LoopPass, LoopReturns, SkipTimer, FireTimer,
       TimerReturns, SweepOver, Ended, vars, loop, history
  <2>2. \/ mpc' = mpc
        \/ mpc' = "gone"
        \/ mpc = "decide" /\ mpc' \in {"call", "dog"}
        \/ mpc = "call" /\ mpc' = "dog"
        \/ mpc \notin {"decide", "call", "dog"} /\ mpc' \notin {"decide", "call", "dog"}
    BY <1>5 DEF ScriptSetsTimer, RequestPass, LoopPass, LoopReturns, SkipTimer, FireTimer,
       TimerReturns, SweepOver, Ended, vars, loop, Goto
  <2>3. mpc = "gone" => mpc' = "gone"
    BY <1>5 DEF ScriptSetsTimer, RequestPass, LoopPass, LoopReturns, SkipTimer, FireTimer,
       TimerReturns, SweepOver, Ended, vars, loop, Goto
  <2>4. Age' = Age
    BY <2>1 DEF Age, Minus
  <2>5. QED
    BY <2>1, <2>2, <2>3, <2>4, OtherDog DEF DogInv
<1>6. QED
  BY <1>1, <1>2, <1>3, <1>4, <1>5 DEF Next, MainStep

LEMMA DogInvariant == Spec => [](TypeInv /\ DogInv)
<1>1. Init => TypeInv /\ DogInv
  BY InitTypes, InitDog
<1>2. (TypeInv /\ DogInv) /\ [Next]_vars => (TypeInv /\ DogInv)'
  <2>1. ASSUME TypeInv, DogInv, Next PROVE TypeInv' /\ DogInv'
    BY <2>1, NextTypes, NextDog
  <2>2. ASSUME TypeInv, DogInv, UNCHANGED vars PROVE TypeInv' /\ DogInv'
    BY <2>2 DEF vars, loop, history, TypeInv, TypeOK, DogInv, JustEnabled, Watched, Unjudged,
       Age, Gap, Minus
  <2>3. QED
    BY <2>1, <2>2
<1>3. QED
  BY <1>1, <1>2, PTL DEF Spec

(* The variables keep their types; in particular the timers the script sets *)
(* while the sweep is under way never lead it past the last one.            *)
THEOREM TimerTypes == Spec => []TypeOK
BY DogInvariant, PTL DEF TypeInv

(* A watchdog that is on is overdue for three iterations at most, whichever *)
(* timeouts the script programs and when, whichever calls of the device     *)
(* fail, and wherever the tick counter wraps while run() leaves nowwd alone *)
(* (apis.cpp:463-493, 538).                                                 *)
THEOREM FeedingDelayBounded == Spec => []OverdueAtMost
<1>1. TypeInv /\ DogInv => OverdueAtMost
  <2> SUFFICES ASSUME TypeInv, DogInv, wdto # 0, mpc # "gone"
               PROVE  hunger <= wdto + 3 * Slow
    BY DEF OverdueAtMost
  <2>1. Age <= Slow /\ (JustEnabled \/ Watched)
    BY DEF DogInv
  <2>2. CASE JustEnabled
    BY <2>1, <2>2, Differences DEF JustEnabled
  <2>3. CASE Watched
    BY <2>1, <2>3, Differences DEF Watched
  <2>4. QED
    BY <2>1, <2>2, <2>3
<1>2. QED
  BY <1>1, DogInvariant, PTL

-----------------------------------------------------------------------------
(* How timers are spaced.  Of a timer that fired, and that is not older     *)
(* than every delay, the age is what the code computes from `remember`; and *)
(* the clock was read for this pass, and for the pass `now` belongs to, not *)
(* before.                                                                  *)

Spaced(i) ==
  \/ phase[i] = Longest
  \/ /\ phase[i] = Minus(clock, timers[i].remember)
     /\ Minus(clock, now) <= phase[i]
     /\ mpc = "decide" => Age <= phase[i]

SpaceInv == \A i \in DOMAIN timers : fired[i] => Spaced(i)

LEMMA LongestIs ==
  /\ Longest \in Nat /\ Longest < Word - 1 /\ Word \in Nat
  /\ \A d \in Delays : d \in Nat /\ d <= Longest
<1>1. Longest \in Delays /\ \A d \in Delays : d <= Longest
  BY BoundsAssumption DEF Longest
<1>2. Longest < Half /\ Half \in Nat /\ Half * 2 <= Word /\ Word \in Nat
  BY <1>1, WordAssumption, BoundsAssumption DEF Half
<1>3. QED
  BY <1>1, <1>2, BoundsAssumption

(* From c to b and from b to a is not further than from c to a. *)
LEMMA MinusBetween ==
  ASSUME NEW a \in Tick, NEW b \in Tick, NEW c \in Tick, Minus(a, b) <= Minus(a, c)
  PROVE  Minus(b, c) <= Minus(a, c)
<1>1. Word \in Nat \ {0}
  BY WordFacts
<1>2. a \in 0..(Word - 1) /\ b \in 0..(Word - 1) /\ c \in 0..(Word - 1)
  BY DEF Tick
<1>3. /\ Minus(a, b) = IF a >= b THEN a - b ELSE (a + Word) - b
      /\ Minus(b, c) = IF b >= c THEN b - c ELSE (b + Word) - c
      /\ Minus(a, c) = IF a >= c THEN a - c ELSE (a + Word) - c
  BY MinusIs
<1>4. QED
  BY <1>1, <1>2, <1>3

LEMMA TickSpace ==
  ASSUME TypeInv, SpaceInv, TimePasses
  PROVE  SpaceInv'
<1>1. /\ clock' = (clock + 1) % Word /\ phase' = [i \in Ids |-> Older(phase[i], Longest)]
      /\ UNCHANGED <<now, then, mpc, timers, fired>>
  BY DEF TimePasses, loop
<1>2. /\ clock \in Tick /\ now \in Tick /\ then \in Tick /\ DOMAIN timers \subseteq Ids
      /\ \A i \in DOMAIN timers : timers[i].remember \in Tick
      /\ phase \in [Ids -> 0..Longest]
  BY DEF TypeInv, TypeOK
<1>3. ASSUME NEW b \in Tick, NEW n \in Nat, Minus(clock, b) <= n, n < Longest
      PROVE  Minus(clock', b) = Minus(clock, b) + 1
  <2>1. Minus(clock, b) < Word - 1
    <3>1. Minus(clock, b) \in Tick
      BY <1>2, MinusIs
    <3>2. QED
      BY <1>3, <3>1, LongestIs DEF Tick
  <2>2. QED
    BY <1>1, <1>2, <2>1, NextTick
<1> SUFFICES ASSUME NEW i \in DOMAIN timers, fired[i] PROVE Spaced(i)'
  BY <1>1 DEF SpaceInv
<1>4. phase[i] \in Nat /\ phase[i] <= Longest /\ Spaced(i) /\ phase'[i] = Older(phase[i], Longest)
  BY <1>1, <1>2, LongestIs DEF SpaceInv
<1>5. CASE phase[i] = Longest
  BY <1>4, <1>5 DEF Older, Spaced
<1>6. CASE phase[i] # Longest
  <2>1. /\ phase[i] = Minus(clock, timers[i].remember) /\ Minus(clock, now) <= phase[i]
        /\ mpc = "decide" => Minus(clock, then) <= phase[i]
        /\ phase[i] < Longest
    BY <1>4, <1>6, LongestIs DEF Spaced, Age
  <2>2. phase'[i] = phase[i] + 1
    BY <1>4, <2>1 DEF Older
  <2>3. /\ Minus(clock', timers[i].remember) = Minus(clock, timers[i].remember) + 1
        /\ Minus(clock', now) = Minus(clock, now) + 1
    BY <1>2, <1>3, <1>4, <2>1
  <2>4. mpc = "decide" => Minus(clock', then) = Minus(clock, then) + 1
    BY <1>2, <1>3, <1>4, <2>1
  <2>5. Minus(clock, now) \in Int /\ Minus(clock, then) \in Int
    <3>1. Minus(clock, now) \in Tick /\ Minus(clock, then) \in Tick
      BY <1>2, MinusIs
    <3>2. QED
      BY <3>1, WordFacts DEF Tick
  <2>6. Minus(clock', now) <= phase[i] + 1 /\ (mpc = "decide" => Minus(clock', then) <= phase[i] + 1)
    BY <1>4, <2>1, <2>3, <2>4, <2>5
  <2>7. /\ Minus(clock, now)' = Minus(clock', now) /\ Age' = Minus(clock', then)
        /\ Minus(clock, timers[i].remember)' = Minus(clock', timers[i].remember)
    BY <1>1 DEF Minus, Age
  <2>8. QED
    BY <1>1, <2>1, <2>2, <2>3, <2>6, <2>7 DEF Spaced
<1>7. QED
  BY <1>5, <1>6

(* A new timer has not fired; the others are as they were. *)
LEMMA SetSpace ==
  ASSUME TypeInv, SpaceInv, ScriptSetsTimer
  PROVE  SpaceInv'
<1>1. PICK i \in Ids, milis \in Delays : SetTimer(i, milis)
  BY DEF ScriptSetsTimer
<1>2. UNCHANGED <<clock, now, then, mpc>>
  BY DEF ScriptSetsTimer, loop
<1>3. fired \in [Ids -> BOOLEAN] /\ phase \in [Ids -> 0..Longest] /\ DOMAIN timers \subseteq Ids
  BY DEF TypeInv, TypeOK
<1> SUFFICES ASSUME NEW j \in DOMAIN timers', fired'[j] PROVE Spaced(j)'
  BY DEF SpaceInv
<1>4. /\ j \in DOMAIN timers /\ timers'[j] = timers[j]
      /\ phase'[j] = phase[j] /\ fired'[j] = fired[j]
  <2>1. CASE i \in DOMAIN timers
    BY <1>1, <2>1 DEF SetTimer, Without
  <2>2. CASE i \notin DOMAIN timers
    <3>1. /\ timers' = With(i, [remember |-> clock, delay |-> milis])
          /\ phase' = [phase EXCEPT ![i] = 0] /\ fired' = [fired EXCEPT ![i] = FALSE]
      BY <1>1, <2>2 DEF SetTimer
    <3>2. fired'[i] = FALSE
      BY <1>3, <3>1
    <3>3. j # i
      BY <3>2
    <3>4. QED
      BY <1>3, <3>1, <3>3 DEF With
  <2>3. QED
    BY <2>1, <2>2
<1>5. Spaced(j)
  BY <1>4 DEF SpaceInv
<1>6. QED
  BY <1>2, <1>4, <1>5 DEF Spaced, Age, Minus

LEMMA FireSpace ==
  ASSUME TypeInv, SpaceInv, FireTimer
  PROVE  SpaceInv'
<1>1. /\ timers' = [timers EXCEPT ![at].remember = now] /\ at \in DOMAIN timers
      /\ phase' = [phase EXCEPT ![at] = Least(Minus(clock, now), Longest)]
      /\ fired' = [fired EXCEPT ![at] = TRUE]
      /\ mpc' = "callback" /\ UNCHANGED <<clock, now, then>>
  BY DEF FireTimer, Remembered, Goto
<1>2. /\ clock \in Tick /\ now \in Tick /\ DOMAIN timers \subseteq Ids
      /\ timers[at] \in [remember : Tick, delay : Delays]
      /\ phase \in [Ids -> 0..Longest] /\ fired \in [Ids -> BOOLEAN]
  BY <1>1 DEF TypeInv, TypeOK
<1>3. Minus(clock, now) \in Nat /\ Longest \in Nat
  <2>1. Minus(clock, now) \in Tick
    BY <1>2, MinusIs
  <2>2. QED
    BY <2>1, WordFacts DEF Tick
<1> SUFFICES ASSUME NEW i \in DOMAIN timers', fired'[i] PROVE Spaced(i)'
  BY DEF SpaceInv
<1>4. i \in DOMAIN timers /\ i \in Ids
  BY <1>1, <1>2
<1>5. CASE i = at
  <2>1. timers'[i].remember = now /\ phase'[i] = Least(Minus(clock, now), Longest)
    BY <1>1, <1>2, <1>4, <1>5
  <2>2. Minus(clock, timers[i].remember)' = Minus(clock, now) /\ Minus(clock, now)' = Minus(clock, now)
    BY <1>1, <2>1 DEF Minus
  <2>3. QED
    BY <1>1, <1>3, <2>1, <2>2 DEF Spaced, Least
<1>6. CASE i # at
  <2>1. timers'[i] = timers[i] /\ phase'[i] = phase[i] /\ fired'[i] = fired[i]
    BY <1>1, <1>2, <1>4, <1>6
  <2>2. Spaced(i)
    BY <1>4, <2>1 DEF SpaceInv
  <2>3. QED
    BY <1>1, <2>1, <2>2 DEF Spaced, Minus
<1>7. QED
  BY <1>5, <1>6

LEMMA NextSpace ==
  ASSUME TypeInv, SpaceInv, [Next]_vars
  PROVE  SpaceInv'
<1>1. CASE TimePasses
  BY <1>1, TickSpace
<1>2. CASE ScriptSetsTimer
  BY <1>2, SetSpace
<1>3. CASE FireTimer
  BY <1>3, FireSpace
<1>4. CASE Top
  <2>1. UNCHANGED <<clock, now, timers, phase, fired>>
    BY <1>4 DEF Top, history
  <2>2. mpc' = "decide" => Age' = 0
    <3>1. ASSUME mpc' = "decide" PROVE then' = clock /\ clock' = clock
      BY <1>4, <3>1 DEF Top, Goto
    <3>2. clock \in Tick
      BY DEF TypeInv, TypeOK
    <3>3. QED
      BY <3>1, <3>2, MinusSelf DEF Age, Minus
  <2>3. \A i \in DOMAIN timers : phase[i] >= 0
    BY LongestIs DEF TypeInv, TypeOK
  <2>4. QED
    BY <2>1, <2>2, <2>3 DEF SpaceInv, Spaced, Minus
<1>5. CASE LoopPass
  <2>1. /\ mpc = "decide" /\ mpc' # "decide"
        /\ now' = now \/ now' = then
        /\ UNCHANGED <<clock, timers, phase, fired>>
    BY <1>5 DEF LoopPass, Goto, history
  <2>2. QED
    BY <2>1 DEF SpaceInv, Spaced, Minus, Age
<1>6. CASE \/ ScriptEnablesDog \/ ScriptBarks \/ RequestPass \/ LoopReturns \/ FeedDog \/ SkipTimer
           \/ TimerReturns \/ SweepOver \/ Ended \/ UNCHANGED vars
  <2>1. UNCHANGED <<clock, now, then, timers, phase, fired>> /\ (mpc' = "decide" => mpc = "decide")
    BY <1>6 DEF ScriptEnablesDog, ScriptBarks, RequestPass, LoopReturns, FeedDog, SkipTimer, TimerReturns,
       SweepOver, Ended, Goto, vars, loop, history
  <2>2. QED
    BY <2>1 DEF SpaceInv, Spaced, Minus, Age
<1>7. QED
  BY <1>1, <1>2, <1>3, <1>4, <1>5, <1>6 DEF Next, MainStep

LEMMA SpaceInvariant == Spec => [](TypeInv /\ SpaceInv)
<1>1. Init => SpaceInv
  BY DEF Init, SpaceInv
<1>2. TypeInv /\ SpaceInv /\ [Next]_vars => SpaceInv'
  BY NextSpace
<1>3. Spec => []TypeInv
  BY DogInvariant, PTL
<1>4. QED
  BY <1>1, <1>2, <1>3, PTL DEF Spec

(* A timer that fired fires again when its delay is over and not before,    *)
(* although the sweep compares with the time of the pass, which may be old, *)
(* and wherever the tick counter wraps (inst.cpp:177-179).                  *)
THEOREM FiresSpaced == Spec => SpacedFires
<1>1. TypeInv /\ SpaceInv /\ [Next]_vars
        => [\A i \in Ids : Fires(i) /\ fired[i] => phase[i] >= timers[i].delay]_vars
  <2> SUFFICES ASSUME TypeInv, SpaceInv, Next, NEW i \in Ids, Fires(i), fired[i]
               PROVE  phase[i] >= timers[i].delay
    OBVIOUS
  <2>1. FireTimer
    BY DEF Fires, Next, MainStep, TimePasses, ScriptSetsTimer, ScriptEnablesDog, ScriptBarks, Top,
           RequestPass, LoopPass, LoopReturns, FeedDog, SkipTimer, TimerReturns, SweepOver, Ended, Goto,
           vars, loop
  <2>2. at = i /\ i \in DOMAIN timers /\ Minus(now, timers[i].remember) >= timers[i].delay
    BY <2>1 DEF Fires, FireTimer, Expired
  <2>3. /\ clock \in Tick /\ now \in Tick /\ timers[i].remember \in Tick
        /\ timers[i].delay \in Delays /\ phase[i] \in 0..Longest
    BY <2>2 DEF TypeInv, TypeOK
  <2>4. Spaced(i) /\ timers[i].delay \in Nat /\ timers[i].delay <= Longest
    BY <2>2, <2>3, LongestIs DEF SpaceInv
  <2>5. CASE phase[i] = Longest
    BY <2>4, <2>5, LongestIs
  <2>6. CASE /\ phase[i] = Minus(clock, timers[i].remember)
             /\ Minus(clock, now) <= phase[i]
    <3>1. Minus(now, timers[i].remember) <= phase[i]
      BY <2>3, <2>6, MinusBetween
    <3>2. Minus(now, timers[i].remember) \in Int /\ phase[i] \in Int
      <4>1. Minus(now, timers[i].remember) \in Tick
        BY <2>3, MinusIs
      <4>2. QED
        BY <2>3, <4>1, LongestIs DEF Tick
    <3>3. QED
      BY <2>2, <2>4, <3>1, <3>2
  <2>7. QED
    BY <2>4, <2>5, <2>6 DEF Spaced
<1>2. QED
  BY <1>1, SpaceInvariant, PTL DEF Spec, SpacedFires
=============================================================================
