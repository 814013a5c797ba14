------------------------- MODULE DeviceEventsProofs -------------------------
(***************************************************************************)
(* Proofs about DeviceEvents for every list of devices, every choice of    *)
(* inputs, with a callback that reads its pin and with one that does not.  *)
(***************************************************************************)
EXTENDS DeviceEvents, TLAPS

(* The flags are functions on the devices. *)
FlagsOK ==
  /\ dirty \in [Dev -> BOOLEAN] /\ owed \in [Dev -> BOOLEAN]
  /\ monitor \in [Dev -> BOOLEAN] /\ hooked \in [Dev -> BOOLEAN]

(* While it looks at a device, the scan is within the list of devices.      *)
ScanOK ==
  /\ at \in Nat
  /\ mpc \in {"check", "callback"} => at \in 1..Len(Devs)

KeptInv == FlagsOK /\ ScanOK /\ ChangeKept

LEMMA DeviceAt ==
  ASSUME NEW i \in 1..Len(Devs)
  PROVE  Devs[i] \in Dev
BY DEF Dev

(* Starting a scan and going on to the next device stay within the list.    *)
LEMMA ScanStarts ==
  ASSUME at' = 1, mpc' = Scan
  PROVE  ScanOK'
<1>1. CASE Devs = <<>>
  BY <1>1 DEF Scan, ScanOK
<1>2. CASE Devs # <<>>
  <2>1. Len(Devs) \in Nat /\ Len(Devs) > 0
    BY <1>2, DevsAssumption
  <2>2. QED
    BY <2>1 DEF ScanOK
<1>3. QED
  BY <1>1, <1>2

LEMMA ScanGoesOn ==
  ASSUME ScanOK, mpc \in {"check", "callback"}, NEW r, NextDevice(r)
  PROVE  ScanOK'
<1>1. Len(Devs) \in Nat
  BY DevsAssumption
<1>2. QED
  BY <1>1 DEF ScanOK, NextDevice

(* Raising flags keeps what is promised about them.                         *)
LEMMA TouchKeeps ==
  ASSUME NEW D, Touch(D), FlagsOK, ChangeKept, UNCHANGED muted
  PROVE  /\ dirty' \in [Dev -> BOOLEAN] /\ owed' \in [Dev -> BOOLEAN]
         /\ ChangeKept'
BY DEF Touch, ChangeKept, FlagsOK

LEMMA CommitKeeps ==
  ASSUME Commit, FlagsOK, ChangeKept, UNCHANGED muted
  PROVE  FlagsOK' /\ ChangeKept'
<1>1. CASE pending = <<>>
  BY <1>1 DEF Commit, ChangeKept, FlagsOK, flags
<1>2. CASE pending # <<>>
  <2>1. Touch({pending[1]}) /\ UNCHANGED hooked
    BY <1>2 DEF Commit
  <2>2. monitor' \in [Dev -> BOOLEAN]
    BY <1>2 DEF Commit, FlagsOK
  <2>3. QED
    BY <2>1, <2>2, TouchKeeps DEF FlagsOK
<1>3. QED
  BY <1>1, <1>2

(* No step lets a flag go down that a function of the script should still   *)
(* hear of.                                                                 *)
LEMMA KeptStep == KeptInv /\ [Next]_vars => KeptInv'
<1> SUFFICES ASSUME FlagsOK, ScanOK, ChangeKept, [Next]_vars
             PROVE  FlagsOK' /\ ScanOK' /\ ChangeKept'
  BY DEF KeptInv
<1> DEFINE Kept == FlagsOK' /\ ScanOK' /\ ChangeKept'
<1> USE DEF flags, web, loop, history
<1>1. ASSUME CheckQuiet PROVE Kept
  <2>1. UNCHANGED <<flags, owed, muted>> /\ mpc = "check"
    BY <1>1 DEF CheckQuiet
  <2>2. PICK r : NextDevice(r)
    BY <1>1 DEF CheckQuiet
  <2>3. QED
    BY <2>1, <2>2, ScanGoesOn DEF FlagsOK, ChangeKept
<1>2. ASSUME CheckMonitored PROVE Kept
  <2> DEFINE d == Devs[at]
  <2>1. /\ dirty' = [dirty EXCEPT ![d] = FALSE]
        /\ \/ owed' = [owed EXCEPT ![d] = FALSE] /\ UNCHANGED muted
           \/ muted' = muted \cup {d} /\ UNCHANGED owed
        /\ UNCHANGED <<monitor, hooked>>
        /\ mpc = "check"
    BY <1>2 DEF CheckMonitored
  <2>2. d \in Dev
    BY <2>1, DeviceAt DEF ScanOK
  <2>3. FlagsOK' /\ ChangeKept'
    BY <2>1, <2>2 DEF ChangeKept, FlagsOK
  <2>4. CASE hooked[d]
    BY <1>2, <2>1, <2>3, <2>4 DEF CheckMonitored, ScanOK
  <2>5. CASE ~hooked[d]
    BY <1>2, <2>1, <2>3, <2>5, ScanGoesOn DEF CheckMonitored
  <2>6. QED
    BY <2>4, <2>5
<1>3. ASSUME Callback PROVE Kept
  <2>1. PICK D : Touch(D)
    BY <1>3 DEF Callback, CallbackEffect
  <2>2. PICK r : NextDevice(r)
    BY <1>3 DEF Callback
  <2>3. mpc = "callback" /\ UNCHANGED <<monitor, hooked, muted>>
    BY <1>3 DEF Callback
  <2>4. QED
    BY <2>1, <2>2, <2>3, TouchKeeps, ScanGoesOn DEF FlagsOK
<1>4. ASSUME NoPass PROVE Kept
  BY <1>4 DEF NoPass, ChangeKept, FlagsOK, ScanOK
<1>5. ASSUME SnapPass PROVE Kept
  BY <1>5, CommitKeeps DEF SnapPass, ScanOK
<1>6. ASSUME LoopPass PROVE Kept
  BY <1>6, CommitKeeps DEF LoopPass, ScanOK
<1>7. ASSUME LoopFunction PROVE Kept
  <2>1. PICK W \in SUBSET Outs, R \in SUBSET Pins :
          /\ dirty' = [d \in Dev |-> dirty[d] \/ d \in W \cup R]
          /\ owed' = [d \in Dev |-> (owed[d] /\ ~Heard(d)) \/ d \in W \cup R]
    BY <1>7 DEF LoopFunction
  <2>2. UNCHANGED <<monitor, hooked, muted, at>> /\ mpc' \in {"timers", "gone"}
    BY <1>7 DEF LoopFunction
  <2>3. QED
    BY <2>1, <2>2 DEF ChangeKept, FlagsOK, ScanOK
<1>8. ASSUME NextIteration PROVE Kept
  BY <1>8, ScanStarts DEF NextIteration, ChangeKept, FlagsOK
<1>9. ASSUME ScriptSetsCallback PROVE Kept
  <2>1. PICK p \in Pins, on \in BOOLEAN : SetCallback(p, on)
    BY <1>9 DEF ScriptSetsCallback
  <2>2. p \in Dev
    BY PinsAssumption
  <2>3. FlagsOK'
    BY <2>1, <2>2 DEF SetCallback, FlagsOK
  <2>4. ChangeKept'
    BY <1>9, <2>1, <2>2 DEF ScriptSetsCallback, SetCallback, FlagsOK, ChangeKept
  <2>5. QED
    BY <1>9, <2>3, <2>4 DEF ScriptSetsCallback, ScanOK
<1>10. ASSUME NEW p \in Pins, LineChanges(p) PROVE Kept
  BY <1>10 DEF LineChanges, ChangeKept, FlagsOK, ScanOK
<1>11. ASSUME Request PROVE Kept
  BY <1>11 DEF Request, ChangeKept, FlagsOK, ScanOK
<1>12. ASSUME PulseElapses PROVE Kept
  BY <1>12 DEF PulseElapses, ChangeKept, FlagsOK, ScanOK
<1>13. CASE Ended \/ UNCHANGED vars
  BY <1>13 DEF Ended, vars, ChangeKept, FlagsOK, ScanOK
<1>14. QED
  BY <1>1, <1>2, <1>3, <1>4, <1>5, <1>6, <1>7, <1>8, <1>9, <1>10, <1>11, <1>12, <1>13
     DEF Next, MainStep

LEMMA KeptInit == Init => KeptInv
<1> SUFFICES ASSUME Init PROVE KeptInv
  OBVIOUS
<1>1. FlagsOK /\ ChangeKept
  BY DEF Init, FlagsOK, ChangeKept
<1>2. ScanOK
  <2>1. CASE Devs = <<>>
    BY <2>1 DEF Init, Scan, ScanOK
  <2>2. CASE Devs # <<>>
    <3>1. Len(Devs) \in Nat /\ Len(Devs) > 0
      BY <2>2, DevsAssumption
    <3>2. QED
      BY <3>1 DEF Init, ScanOK
  <2>3. QED
    BY <2>1, <2>2
<1>3. QED
  BY <1>1, <1>2 DEF KeptInv

(* Every change a device signalled is flagged until a function of the       *)
(* script ran for it.                                                       *)
THEOREM SignalledChangeKept == Spec => []ChangeKept
<1>1. KeptInv => ChangeKept
  BY DEF KeptInv
<1>2. QED
  BY <1>1, KeptInit, KeptStep, PTL DEF Spec

-----------------------------------------------------------------------------
(* Types.  The parts of TypeOK that FlagsOK does not hold.                  *)
LineOK ==
  /\ line \in [Dev -> Level] /\ told \in [Dev -> Level \cup {Nothing}]
  /\ muted \subseteq Dev /\ news \subseteq Dev
WebOK ==
  /\ snap \in BOOLEAN /\ pending \in {<<>>} \cup (Dev \X Setting)
  /\ requests \in 0..MaxRequests
LoopOK ==
  /\ due \in BOOLEAN /\ mpc \in MainPC /\ at \in 1..(Len(Devs) + 1)
  /\ raised \subseteq Dev

LEMMA DevCount == Len(Devs) \in Nat
BY DevsAssumption

LEMMA ScanIsPC == Scan \in MainPC
BY DEF Scan, MainPC

LEMMA FirstDevice == 1 \in 1..(Len(Devs) + 1)
BY DevCount

LEMMA NextDeviceTypes ==
  ASSUME ScanOK, mpc \in {"check", "callback"}, NEW r \in SUBSET Dev, NextDevice(r),
         due' \in BOOLEAN
  PROVE  LoopOK'
<1>1. at \in 1..Len(Devs)
  BY DEF ScanOK
<1>2. at' = at + 1 /\ raised' = r
  BY DEF NextDevice
<1>3. at' \in 1..(Len(Devs) + 1)
  BY <1>1, <1>2, DevCount
<1>4. mpc' \in MainPC
  BY DEF NextDevice, MainPC
<1>5. QED
  BY <1>2, <1>3, <1>4 DEF LoopOK

(* The levels a step drives outputs to are levels. *)
LEMMA DriveTypes ==
  ASSUME LineOK, NEW D \in SUBSET Dev, Drive(D), told' \in [Dev -> Level \cup {Nothing}],
         UNCHANGED muted
  PROVE  LineOK'
<1>1. PICK level \in [D \cap Outs -> Level] :
        /\ line' = [d \in Dev |-> IF d \in D \cap Outs THEN level[d] ELSE line[d]]
        /\ news' = news \cup (D \cap Outs)
  BY DEF Drive
<1>2. line' \in [Dev -> Level]
  <2>1. \A d \in Dev : (IF d \in D \cap Outs THEN level[d] ELSE line[d]) \in Level
    BY <1>1 DEF LineOK
  <2>2. QED
    BY <1>1, <2>1
<1>3. news' \subseteq Dev
  BY <1>1 DEF LineOK
<1>4. QED
  BY <1>2, <1>3 DEF LineOK

(* What reaches the devices and what is left of the request.                *)
LEMMA CommitTypes ==
  ASSUME LineOK, WebOK, Commit, snap' \in BOOLEAN, UNCHANGED <<requests, told, muted>>
  PROVE  LineOK' /\ WebOK'
<1>1. WebOK'
  BY DEF Commit, WebOK
<1>2. CASE pending = <<>>
  BY <1>1, <1>2 DEF Commit, LineOK
<1>3. CASE pending # <<>>
  <2>1. pending[1] \in Dev
    BY <1>3 DEF WebOK
  <2>2. CASE pending[2] = "write"
    <3>1. Drive({pending[1]})
      BY <1>3, <2>2 DEF Commit
    <3>2. told' \in [Dev -> Level \cup {Nothing}]
      BY DEF LineOK
    <3>3. QED
      BY <1>1, <2>1, <3>1, <3>2, DriveTypes
  <2>3. CASE pending[2] # "write"
    BY <1>1, <1>3, <2>3 DEF Commit, LineOK
  <2>4. QED
    BY <2>2, <2>3
<1>4. QED
  BY <1>2, <1>3

LEMMA TypeStep ==
  ASSUME LineOK, WebOK, LoopOK, ScanOK, FlagsOK, [Next]_vars
  PROVE  LineOK' /\ WebOK' /\ LoopOK'
<1> DEFINE Typed == LineOK' /\ WebOK' /\ LoopOK'
<1> USE DEF flags, web, loop, history
<1>0. mpc \in {"check", "callback"} => Devs[at] \in Dev
  BY DeviceAt DEF ScanOK
<1>1. ASSUME CheckQuiet PROVE Typed
  <2>1. mpc = "check" /\ UNCHANGED <<line, web, due, told, muted, news>>
    BY <1>1 DEF CheckQuiet
  <2>2. PICK r \in SUBSET Dev : NextDevice(r)
    BY <1>0, <1>1, <2>1 DEF CheckQuiet, LoopOK
  <2>3. LoopOK'
    <3>1. due' \in BOOLEAN
      BY <2>1 DEF LoopOK
    <3>2. QED
      BY <2>1, <2>2, <3>1, NextDeviceTypes
  <2>4. QED
    BY <2>1, <2>3 DEF LineOK, WebOK
<1>2. ASSUME CheckMonitored PROVE Typed
  <2>1. mpc = "check" /\ UNCHANGED <<line, web, due, news>>
    BY <1>2 DEF CheckMonitored
  <2>2. due' \in BOOLEAN
    BY <2>1 DEF LoopOK
  <2>3. CASE hooked[Devs[at]]
    <3>1. told' = [told EXCEPT ![Devs[at]] = line[Devs[at]]]
          /\ mpc' = "callback" /\ UNCHANGED <<at, raised, muted>>
      BY <1>2, <2>3 DEF CheckMonitored
    <3>2. LineOK'
      BY <1>0, <2>1, <3>1 DEF LineOK
    <3>3. LoopOK'
      BY <2>2, <3>1 DEF LoopOK, MainPC
    <3>4. QED
      BY <2>1, <3>2, <3>3 DEF WebOK
  <2>4. CASE ~hooked[Devs[at]]
    <3>1. NextDevice(raised) /\ UNCHANGED told /\ muted' = muted \cup {Devs[at]}
      BY <1>2, <2>4 DEF CheckMonitored
    <3>2. raised \in SUBSET Dev
      BY DEF LoopOK
    <3>3. LoopOK'
      BY <2>1, <2>2, <3>1, <3>2, NextDeviceTypes
    <3>4. QED
      BY <1>0, <2>1, <3>1, <3>3 DEF LineOK, WebOK
  <2>5. QED
    BY <2>3, <2>4
<1>3. ASSUME Callback PROVE Typed
  <2>1. mpc = "callback" /\ UNCHANGED <<web, due, told, muted>>
    BY <1>3 DEF Callback
  <2>2. PICK W \in SUBSET Outs : Drive(W)
    BY <1>3 DEF Callback
  <2>3. PICK r \in SUBSET Dev : NextDevice(r)
    BY <1>0, <1>3, <2>1 DEF Callback, LoopOK
  <2>4. LineOK'
    <3>1. W \in SUBSET Dev
      BY DEF Outs
    <3>2. told' \in [Dev -> Level \cup {Nothing}]
      BY <2>1 DEF LineOK
    <3>3. QED
      BY <2>1, <2>2, <3>1, <3>2, DriveTypes
  <2>5. LoopOK'
    <3>1. due' \in BOOLEAN
      BY <2>1 DEF LoopOK
    <3>2. QED
      BY <2>1, <2>3, <3>1, NextDeviceTypes
  <2>6. QED
    BY <2>1, <2>4, <2>5 DEF WebOK
<1>4. ASSUME NoPass PROVE Typed
  BY <1>4 DEF NoPass, LineOK, WebOK, LoopOK, MainPC
<1>5. ASSUME SnapPass \/ LoopPass PROVE Typed
  <2>1. Commit /\ snap' \in BOOLEAN /\ UNCHANGED <<requests, told, muted>>
    BY <1>5 DEF SnapPass, LoopPass, WebOK
  <2>2. LoopOK'
    BY <1>5 DEF SnapPass, LoopPass, LoopOK, MainPC
  <2>3. QED
    BY <2>1, <2>2, CommitTypes
<1>6. ASSUME LoopFunction PROVE Typed
  <2>1. PICK W \in SUBSET Outs, R \in SUBSET Pins : \E level \in [W -> Level] :
          line' = [d \in Dev |-> IF d \in W THEN level[d] ELSE line[d]] /\ news' = W
    BY <1>6 DEF LoopFunction
  <2>2. PICK level \in [W -> Level] :
          line' = [d \in Dev |-> IF d \in W THEN level[d] ELSE line[d]] /\ news' = W
    BY <2>1
  <2>3. line' \in [Dev -> Level]
    <3>1. \A d \in Dev : (IF d \in W THEN level[d] ELSE line[d]) \in Level
      BY DEF LineOK
    <3>2. QED
      BY <2>2, <3>1
  <2>4. UNCHANGED <<web, at, raised, told, muted>> /\ due' = FALSE /\ mpc' \in {"timers", "gone"}
    BY <1>6 DEF LoopFunction
  <2>5. LineOK'
    BY <2>2, <2>3, <2>4 DEF LineOK, Outs
  <2>6. QED
    BY <2>4, <2>5 DEF WebOK, LoopOK, MainPC
<1>7. ASSUME NextIteration PROVE Typed
  BY <1>7, ScanIsPC, FirstDevice DEF NextIteration, LineOK, WebOK, LoopOK
<1>8. ASSUME ScriptSetsCallback PROVE Typed
  BY <1>8 DEF ScriptSetsCallback, LineOK, WebOK, LoopOK
<1>9. ASSUME NEW p \in Pins, LineChanges(p) PROVE Typed
  <2>1. line' = [line EXCEPT ![p] = 1 - line[p]] /\ news' = news \cup {p}
        /\ UNCHANGED <<web, loop, told, muted>>
    BY <1>9 DEF LineChanges
  <2>2. p \in Dev
    BY PinsAssumption
  <2>3. 1 - line[p] \in Level
    <3>1. line[p] = 0 \/ line[p] = 1
      BY <2>2 DEF LineOK, Level
    <3>2. QED
      BY <3>1 DEF Level
  <2>4. LineOK'
    BY <2>1, <2>2, <2>3 DEF LineOK
  <2>5. QED
    BY <2>1, <2>4 DEF WebOK, LoopOK
<1>10. ASSUME Request PROVE Typed
  <2>1. requests < MaxRequests /\ requests' = requests + 1
    BY <1>10 DEF Request
  <2>2. requests' \in 0..MaxRequests
    BY <2>1, RequestsAssumption DEF WebOK
  <2>3. pending' \in Dev \X Setting /\ snap' \in BOOLEAN
        /\ UNCHANGED <<line, loop, told, muted, news>>
    BY <1>10 DEF Request, WebOK
  <2>4. QED
    BY <2>2, <2>3 DEF LineOK, WebOK, LoopOK
<1>11. ASSUME PulseElapses PROVE Typed
  BY <1>11 DEF PulseElapses, LineOK, WebOK, LoopOK
<1>12. CASE Ended \/ UNCHANGED vars
  BY <1>12 DEF Ended, vars, LineOK, WebOK, LoopOK
<1>13. QED
  BY <1>1, <1>2, <1>3, <1>4, <1>5, <1>6, <1>7, <1>8, <1>9, <1>10, <1>11, <1>12
     DEF Next, MainStep

(* The variables keep their types: the scan never looks past the last       *)
(* device, and a line never takes a value that is no level.                 *)
THEOREM DeviceTypes == Spec => []TypeOK
<1> DEFINE TypeInv == LineOK /\ WebOK /\ LoopOK /\ KeptInv
<1>1. Init => TypeInv
  <2> SUFFICES ASSUME Init PROVE TypeInv
    OBVIOUS
  <2>1. LineOK
    BY DEF Init, LineOK, Outs
  <2>2. WebOK
    <3>1. 0 \in 0..MaxRequests
      BY RequestsAssumption
    <3>2. QED
      BY <3>1 DEF Init, WebOK
  <2>3. LoopOK
    BY ScanIsPC, FirstDevice DEF Init, LoopOK
  <2>4. KeptInv
    BY KeptInit
  <2>5. QED
    BY <2>1, <2>2, <2>3, <2>4
<1>2. TypeInv /\ [Next]_vars => TypeInv'
  BY TypeStep, KeptStep DEF KeptInv
<1>3. TypeInv => TypeOK
  BY DEF KeptInv, FlagsOK, LineOK, WebOK, LoopOK, TypeOK
<1>4. QED
  BY <1>1, <1>2, <1>3, PTL DEF Spec
=============================================================================
