--------------------------- MODULE WebSyncProofs ---------------------------
(***************************************************************************)
(* Proofs about WebSync for every set of REST threads, every bound on the  *)
(* calls, with and without a pulse.                                        *)
(***************************************************************************)
EXTENDS WebSync, FiniteSetTheorems, TLAPS

(* What a pass applies is one of two batches, both or none.                *)
LEMMA BatchSetFinite ==
  ASSUME NEW a, NEW b, NEW s \in SUBSET ({a, b} \ {0})
  PROVE  Cardinality(s) \in Nat
<1>1. IsFiniteSet({a})
  BY FS_Singleton
<1>2. IsFiniteSet({a} \cup {b})
  BY <1>1, FS_AddElement
<1>3. s \subseteq {a} \cup {b}
  OBVIOUS
<1>4. IsFiniteSet(s)
  BY <1>2, <1>3, FS_Subset
<1>5. QED
  BY <1>4, FS_CardinalityType

(* A step keeps every variable in its type.                                *)
LEMMA TypeStep == TypeOK /\ [Next]_vars => TypeOK'
<1> SUFFICES ASSUME TypeOK, [Next]_vars PROVE TypeOK'
  OBVIOUS
<1> USE DEF TypeOK, MainPC, BackPC, RestPC, Kind, Stage, mainVars, restVars, sync, history, life
<1>1. ASSUME NEW r \in RestThreads, RestTop(r) PROVE TypeOK'
  BY <1>1 DEF RestTop, Goto
<1>2. ASSUME NEW r \in RestThreads, RestSpun(r) PROVE TypeOK'
  BY <1>2 DEF RestSpun, Goto
<1>3. ASSUME NEW r \in RestThreads, Acquire(r) PROVE TypeOK'
  BY <1>3 DEF Acquire, Goto
<1>4. ASSUME NEW r \in RestThreads, CheckPending(r) PROVE TypeOK'
  BY <1>4 DEF CheckPending, Goto
<1>5. ASSUME NEW r \in RestThreads, AssignPending(r) PROVE TypeOK'
  BY <1>5 DEF AssignPending, Goto
<1>6. ASSUME NEW r \in RestThreads, LetGoSnap(r) PROVE TypeOK'
  BY <1>6 DEF LetGoSnap, Goto
<1>7. ASSUME NEW r \in RestThreads, LetGoUnready(r) PROVE TypeOK'
  <2>1. pc' \in [RestThreads -> RestPC]
    BY <1>7 DEF LetGoUnready, Goto
  <2>2. kind' \in [RestThreads -> Kind] /\ stage' \in [RestThreads -> Stage]
    BY <1>7 DEF LetGoUnready, Returned
  <2>3. full' \in [RestThreads -> BOOLEAN]
    BY <1>7 DEF LetGoUnready, Returned
  <2>4. mine' \in [RestThreads -> Nat]
    BY <1>7 DEF LetGoUnready, Returned
  <2>5. UNCHANGED <<mainVars, calls, snap, pending, history, life>>
    BY <1>7 DEF LetGoUnready
  <2>6. ready' \in BOOLEAN /\ mutex' \in RestThreads \cup {NoThread}
    BY <1>7 DEF LetGoUnready
  <2>7. QED
    BY <2>1, <2>2, <2>3, <2>4, <2>5, <2>6
<1>8. ASSUME NEW r \in RestThreads, WaitPred(r) PROVE TypeOK'
  BY <1>8 DEF WaitPred, Goto
<1>9. ASSUME NEW r \in RestThreads, WaitBlock(r) PROVE TypeOK'
  BY <1>9 DEF WaitBlock, Goto
<1>10. ASSUME NEW r \in RestThreads, WaitRelock(r) PROVE TypeOK'
  BY <1>10 DEF WaitRelock, Goto
<1>11. ASSUME NEW r \in RestThreads, AssertReady(r) PROVE TypeOK'
  <2>1. aborted' \in BOOLEAN /\ running' \in BOOLEAN
    BY <1>11 DEF AssertReady
  <2>2. pc' \in [RestThreads -> RestPC] /\ mpc' \in MainPC
    BY <1>11 DEF AssertReady, Goto
  <2>3. UNCHANGED <<back, bysnap, visiting, due, kind, full, stage, mine, calls, sync,
                     pending, history, stop>>
    BY <1>11 DEF AssertReady
  <2>4. QED
    BY <2>1, <2>2, <2>3
<1>12. ASSUME NEW r \in RestThreads, Unlock(r) PROVE TypeOK'
  <2>1. pc' \in [RestThreads -> RestPC]
    BY <1>12 DEF Unlock, Goto
  <2>2. kind' \in [RestThreads -> Kind] /\ stage' \in [RestThreads -> Stage]
    BY <1>12 DEF Unlock, Returned
  <2>3. full' \in [RestThreads -> BOOLEAN]
    BY <1>12 DEF Unlock, Returned
  <2>4. mine' \in [RestThreads -> Nat]
    BY <1>12 DEF Unlock, Returned
  <2>5. UNCHANGED <<mainVars, calls, snap, pending, history, life>>
    BY <1>12 DEF Unlock
  <2>6. ready' \in BOOLEAN /\ mutex' \in RestThreads \cup {NoThread}
    BY <1>12 DEF Unlock
  <2>7. QED
    BY <2>1, <2>2, <2>3, <2>4, <2>5, <2>6
<1>13. ASSUME NEW r \in RestThreads, RestSelectFails(r) PROVE TypeOK'
  <2>1. running' \in BOOLEAN /\ pc' \in [RestThreads -> RestPC]
    BY <1>13 DEF RestSelectFails, Goto
  <2>2. UNCHANGED <<mainVars, kind, full, stage, mine, calls, sync, pending, history,
                   stop, aborted>>
    BY <1>13 DEF RestSelectFails
  <2>3. QED
    BY <2>1, <2>2
<1>14. ASSUME NEW r \in RestThreads, RestCall(r) PROVE TypeOK'
  <2>1. kind' \in [RestThreads -> Kind] /\ calls' \in Nat /\ pc' \in [RestThreads -> RestPC]
    BY <1>14 DEF RestCall, Goto
  <2>2. full' \in [RestThreads -> BOOLEAN]
    BY <1>14 DEF RestCall
  <2>3. UNCHANGED <<mainVars, stage, mine, sync, pending, history, life>>
    BY <1>14 DEF RestCall
  <2>4. QED
    BY <2>1, <2>2, <2>3
<1>15. ASSUME NEW r \in RestThreads, SpuriousWake(r) PROVE TypeOK'
  BY <1>15 DEF SpuriousWake, Goto
<1>16. ASSUME NotifySet PROVE TypeOK'
  BY <1>16 DEF NotifySet, MainGoto
<1>17. ASSUME NotifyWake PROVE TypeOK'
  BY <1>17 DEF NotifyWake, MainGoto, Woken
<1>18. ASSUME MainTop PROVE TypeOK'
  BY <1>18 DEF MainTop, Notify, MainGoto
<1>19. ASSUME MainTest PROVE TypeOK'
  BY <1>19 DEF MainTest, MainGoto
<1>20. ASSUME MainBranch PROVE TypeOK'
  BY <1>20 DEF MainBranch, MainGoto
<1>21. ASSUME MainClearSnap PROVE TypeOK'
  BY <1>21 DEF MainClearSnap, MainGoto
<1>22. ASSUME CommitBegin PROVE TypeOK'
  BY <1>22 DEF CommitBegin, MainGoto
<1>23. ASSUME CommitEnd PROVE TypeOK'
  <2>1. PICK s \in SUBSET ({visiting, pending} \ {0}) :
            applied' = applied \cup s /\ count' = count + Cardinality(s)
    BY <1>23 DEF CommitEnd
  <2>2. Cardinality(s) \in Nat
    BY <2>1, BatchSetFinite
  <2>3. UNCHANGED <<back, bysnap, visiting, due, restVars, sync, pending, serial, life>> /\ mpc' = "wipe"
    BY <1>23 DEF CommitEnd, MainGoto
  <2>4. QED
    BY <2>1, <2>2, <2>3
<1>24. ASSUME CommitClear PROVE TypeOK'
  BY <1>24 DEF CommitClear, Notify, MainGoto, PendingAfterCommit
<1>25. ASSUME MainNotifyAgain PROVE TypeOK'
  BY <1>25 DEF MainNotifyAgain, Notify, MainGoto
<1>26. ASSUME MainLeave PROVE TypeOK'
  BY <1>26 DEF MainLeave, MainGoto
<1>27. ASSUME MainJoin PROVE TypeOK'
  BY <1>27 DEF MainJoin, MainGoto
<1>28. ASSUME MainCall PROVE TypeOK'
  BY <1>28 DEF MainCall, Notify, MainGoto
<1>29. ASSUME MainThrow PROVE TypeOK'
  BY <1>29 DEF MainThrow, Notify, MainGoto
<1>30. ASSUME MainTimers PROVE TypeOK'
  <2>1. running' \in BOOLEAN /\ mpc' \in MainPC
    BY <1>30 DEF MainTimers, MainGoto
  <2>2. UNCHANGED <<back, bysnap, visiting, due, restVars, sync, pending, history, stop, aborted>>
    BY <1>30 DEF MainTimers
  <2>3. QED
    BY <2>1, <2>2
<1>31. ASSUME ScriptReply PROVE TypeOK'
  BY <1>31 DEF ScriptReply, Notify, MainGoto
<1>32. ASSUME Signal PROVE TypeOK'
  <2>1. running' \in BOOLEAN
    BY <1>32 DEF Signal
  <2>2. UNCHANGED <<mainVars, restVars, sync, pending, history, stop, aborted>>
    BY <1>32 DEF Signal
  <2>3. QED
    BY <2>1, <2>2
<1>33. ASSUME PulseElapses PROVE TypeOK'
  BY <1>33 DEF PulseElapses
<1>34. CASE UNCHANGED vars
  BY <1>34 DEF vars
<1>35. QED
  BY <1>1, <1>2, <1>3, <1>4, <1>5, <1>6, <1>7, <1>8, <1>9, <1>10, <1>11, <1>12, <1>13, <1>14, <1>15, <1>16, <1>17, <1>18, <1>19, <1>20, <1>21, <1>22, <1>23, <1>24, <1>25, <1>26, <1>27, <1>28, <1>29, <1>30, <1>31, <1>32, <1>33, <1>34 DEF Next, RestStep, MainStep, MainScript

(* Every variable keeps its type: the flags of BaseSqEnvi are initialised  *)
(* before the script can start a REST server (main.cpp:139-140).           *)
THEOREM TypeCorrect == Spec => []TypeOK
<1>1. Init => TypeOK
  <2> SUFFICES ASSUME Init PROVE TypeOK
    OBVIOUS
  <2>1. full \in [RestThreads -> BOOLEAN]
    BY DEF Init
  <2>2. ready \in BOOLEAN /\ snap \in BOOLEAN /\ due \in BOOLEAN /\ bysnap \in BOOLEAN
    BY DEF Init
  <2>3. running \in BOOLEAN /\ stop \in BOOLEAN /\ aborted \in BOOLEAN
    BY DEF Init
  <2>4. QED
    BY <2>1, <2>2, <2>3 DEF Init, TypeOK, MainPC, BackPC, RestPC, Kind, Stage
<1>2. QED
  BY <1>1, TypeStep, PTL DEF Spec

-----------------------------------------------------------------------------
(* Why no batch is applied twice or after a newer one: outside the window   *)
(* between the end of comit_devs' loop and its clear(), a batch that is     *)
(* stored is newer than everything applied.                                 *)
FreshInv ==
  /\ pending <= serial /\ visiting <= serial
  /\ \A b \in applied : b <= serial
  /\ pending # 0 /\ mpc \notin {"wipe", "gone"} => \A b \in applied : b < pending
  /\ Within("iterend") /\ visiting # 0 => \A b \in applied : b < visiting

LEMMA FreshStep == TypeOK /\ FreshInv /\ [Next]_vars => FreshInv'
<1> SUFFICES ASSUME TypeOK, FreshInv, [Next]_vars PROVE FreshInv'
  OBVIOUS
<1> USE DEF FreshInv, Within, TypeOK, BackPC, mainVars, restVars, sync, history, life
<1>1. ASSUME NEW r \in RestThreads, RestTop(r) PROVE FreshInv'
  BY <1>1 DEF RestTop, Goto
<1>2. ASSUME NEW r \in RestThreads, RestSpun(r) PROVE FreshInv'
  BY <1>2 DEF RestSpun, Goto
<1>3. ASSUME NEW r \in RestThreads, Acquire(r) PROVE FreshInv'
  BY <1>3 DEF Acquire, Goto
<1>4. ASSUME NEW r \in RestThreads, CheckPending(r) PROVE FreshInv'
  BY <1>4 DEF CheckPending, Goto
<1>5. ASSUME NEW r \in RestThreads, AssignPending(r) PROVE FreshInv'
  BY <1>5 DEF AssignPending, Goto
<1>6. ASSUME NEW r \in RestThreads, LetGoSnap(r) PROVE FreshInv'
  BY <1>6 DEF LetGoSnap, Goto
<1>7. ASSUME NEW r \in RestThreads, LetGoUnready(r) PROVE FreshInv'
  BY <1>7 DEF LetGoUnready, Goto, Returned
<1>8. ASSUME NEW r \in RestThreads, WaitPred(r) PROVE FreshInv'
  BY <1>8 DEF WaitPred, Goto
<1>9. ASSUME NEW r \in RestThreads, WaitBlock(r) PROVE FreshInv'
  BY <1>9 DEF WaitBlock, Goto
<1>10. ASSUME NEW r \in RestThreads, WaitRelock(r) PROVE FreshInv'
  BY <1>10 DEF WaitRelock, Goto
<1>11. ASSUME NEW r \in RestThreads, AssertReady(r) PROVE FreshInv'
  BY <1>11 DEF AssertReady, Goto
<1>12. ASSUME NEW r \in RestThreads, Unlock(r) PROVE FreshInv'
  BY <1>12 DEF Unlock, Goto, Returned
<1>13. ASSUME NEW r \in RestThreads, RestSelectFails(r) PROVE FreshInv'
  BY <1>13 DEF RestSelectFails, Goto
<1>14. ASSUME NEW r \in RestThreads, RestCall(r) PROVE FreshInv'
  BY <1>14 DEF RestCall, Goto
<1>15. ASSUME NEW r \in RestThreads, SpuriousWake(r) PROVE FreshInv'
  BY <1>15 DEF SpuriousWake, Goto
<1>16. ASSUME NotifySet PROVE FreshInv'
  BY <1>16 DEF NotifySet, MainGoto
<1>17. ASSUME NotifyWake PROVE FreshInv'
  BY <1>17 DEF NotifyWake, MainGoto, Woken
<1>18. ASSUME MainTop PROVE FreshInv'
  BY <1>18 DEF MainTop, Notify, MainGoto
<1>19. ASSUME MainTest PROVE FreshInv'
  BY <1>19 DEF MainTest, MainGoto
<1>20. ASSUME MainBranch PROVE FreshInv'
  BY <1>20 DEF MainBranch, MainGoto
<1>21. ASSUME MainClearSnap PROVE FreshInv'
  BY <1>21 DEF MainClearSnap, MainGoto
<1>22. ASSUME CommitBegin PROVE FreshInv'
  BY <1>22 DEF CommitBegin, MainGoto
<1>23. ASSUME CommitEnd PROVE FreshInv'
  BY <1>23 DEF CommitEnd, MainGoto
<1>24. ASSUME CommitClear PROVE FreshInv'
  BY <1>24 DEF CommitClear, Notify, MainGoto, PendingAfterCommit
<1>25. ASSUME MainNotifyAgain PROVE FreshInv'
  BY <1>25 DEF MainNotifyAgain, Notify, MainGoto
<1>26. ASSUME MainLeave PROVE FreshInv'
  BY <1>26 DEF MainLeave, MainGoto
<1>27. ASSUME MainJoin PROVE FreshInv'
  BY <1>27 DEF MainJoin, MainGoto
<1>28. ASSUME MainCall PROVE FreshInv'
  BY <1>28 DEF MainCall, Notify, MainGoto
<1>29. ASSUME MainThrow PROVE FreshInv'
  BY <1>29 DEF MainThrow, Notify, MainGoto
<1>30. ASSUME MainTimers PROVE FreshInv'
  BY <1>30 DEF MainTimers, MainGoto
<1>31. ASSUME ScriptReply PROVE FreshInv'
  BY <1>31 DEF ScriptReply, Notify, MainGoto
<1>32. ASSUME Signal PROVE FreshInv'
  BY <1>32 DEF Signal
<1>33. ASSUME PulseElapses PROVE FreshInv'
  BY <1>33 DEF PulseElapses
<1>34. CASE UNCHANGED vars
  BY <1>34 DEF vars
<1>35. QED
  BY <1>1, <1>2, <1>3, <1>4, <1>5, <1>6, <1>7, <1>8, <1>9, <1>10, <1>11, <1>12, <1>13, <1>14, <1>15, <1>16, <1>17, <1>18, <1>19, <1>20, <1>21, <1>22, <1>23, <1>24, <1>25, <1>26, <1>27, <1>28, <1>29, <1>30, <1>31, <1>32, <1>33, <1>34 DEF Next, RestStep, MainStep, MainScript

(* A pass of the main loop never walks over a batch that has been applied   *)
(* or is older than one that has (Inst::comit_devs against web_set_data).   *)
THEOREM BatchFreshness == Spec => []FreshVisit
<1>1. Init => FreshInv
  BY DEF Init, FreshInv, Within
<1>2. FreshInv => FreshVisit
  BY DEF FreshInv, FreshVisit, Within
<1>3. QED
  BY <1>1, <1>2, FreshStep, TypeCorrect, PTL DEF Spec

-----------------------------------------------------------------------------
(* Why a waiting request is not forgotten: no thread's batch is newer than  *)
(* the newest accepted one, so a later batch never looks like an old one.   *)
CoveredInv ==
  /\ \A r \in RestThreads : mine[r] <= serial
  /\ RequestCovered

LEMMA CoveredStep == TypeOK /\ CoveredInv /\ [Next]_vars => CoveredInv'
<1> SUFFICES ASSUME TypeOK, CoveredInv, [Next]_vars PROVE CoveredInv'
  OBVIOUS
<1> USE DEF CoveredInv, RequestCovered, Within, Ended, TypeOK, RestPC, mainVars, restVars, sync, history, life
<1>1. ASSUME NEW r \in RestThreads, RestTop(r) PROVE CoveredInv'
  BY <1>1 DEF RestTop, Goto
<1>2. ASSUME NEW r \in RestThreads, RestSpun(r) PROVE CoveredInv'
  BY <1>2 DEF RestSpun, Goto
<1>3. ASSUME NEW r \in RestThreads, Acquire(r) PROVE CoveredInv'
  BY <1>3 DEF Acquire, Goto
<1>4. ASSUME NEW r \in RestThreads, CheckPending(r) PROVE CoveredInv'
  BY <1>4 DEF CheckPending, Goto
<1>5. ASSUME NEW r \in RestThreads, AssignPending(r) PROVE CoveredInv'
  BY <1>5 DEF AssignPending, Goto
<1>6. ASSUME NEW r \in RestThreads, LetGoSnap(r) PROVE CoveredInv'
  BY <1>6 DEF LetGoSnap, Goto
<1>7. ASSUME NEW r \in RestThreads, LetGoUnready(r) PROVE CoveredInv'
  BY <1>7 DEF LetGoUnready, Goto, Returned
<1>8. ASSUME NEW r \in RestThreads, WaitPred(r) PROVE CoveredInv'
  BY <1>8 DEF WaitPred, Goto
<1>9. ASSUME NEW r \in RestThreads, WaitBlock(r) PROVE CoveredInv'
  BY <1>9 DEF WaitBlock, Goto
<1>10. ASSUME NEW r \in RestThreads, WaitRelock(r) PROVE CoveredInv'
  BY <1>10 DEF WaitRelock, Goto
<1>11. ASSUME NEW r \in RestThreads, AssertReady(r) PROVE CoveredInv'
  BY <1>11 DEF AssertReady, Goto
<1>12. ASSUME NEW r \in RestThreads, Unlock(r) PROVE CoveredInv'
  BY <1>12 DEF Unlock, Goto, Returned
<1>13. ASSUME NEW r \in RestThreads, RestSelectFails(r) PROVE CoveredInv'
  BY <1>13 DEF RestSelectFails, Goto
<1>14. ASSUME NEW r \in RestThreads, RestCall(r) PROVE CoveredInv'
  BY <1>14 DEF RestCall, Goto
<1>15. ASSUME NEW r \in RestThreads, SpuriousWake(r) PROVE CoveredInv'
  BY <1>15 DEF SpuriousWake, Goto
<1>16. ASSUME NotifySet PROVE CoveredInv'
  BY <1>16 DEF NotifySet, MainGoto
<1>17. ASSUME NotifyWake PROVE CoveredInv'
  BY <1>17 DEF NotifyWake, MainGoto, Woken
<1>18. ASSUME MainTop PROVE CoveredInv'
  BY <1>18 DEF MainTop, Notify, MainGoto
<1>19. ASSUME MainTest PROVE CoveredInv'
  BY <1>19 DEF MainTest, MainGoto
<1>20. ASSUME MainBranch PROVE CoveredInv'
  BY <1>20 DEF MainBranch, MainGoto
<1>21. ASSUME MainClearSnap PROVE CoveredInv'
  BY <1>21 DEF MainClearSnap, MainGoto
<1>22. ASSUME CommitBegin PROVE CoveredInv'
  BY <1>22 DEF CommitBegin, MainGoto
<1>23. ASSUME CommitEnd PROVE CoveredInv'
  BY <1>23 DEF CommitEnd, MainGoto
<1>24. ASSUME CommitClear PROVE CoveredInv'
  BY <1>24 DEF CommitClear, Notify, MainGoto, PendingAfterCommit
<1>25. ASSUME MainNotifyAgain PROVE CoveredInv'
  BY <1>25 DEF MainNotifyAgain, Notify, MainGoto
<1>26. ASSUME MainLeave PROVE CoveredInv'
  BY <1>26 DEF MainLeave, MainGoto
<1>27. ASSUME MainJoin PROVE CoveredInv'
  BY <1>27 DEF MainJoin, MainGoto
<1>28. ASSUME MainCall PROVE CoveredInv'
  BY <1>28 DEF MainCall, Notify, MainGoto
<1>29. ASSUME MainThrow PROVE CoveredInv'
  BY <1>29 DEF MainThrow, Notify, MainGoto
<1>30. ASSUME MainTimers PROVE CoveredInv'
  BY <1>30 DEF MainTimers, MainGoto
<1>31. ASSUME ScriptReply PROVE CoveredInv'
  BY <1>31 DEF ScriptReply, Notify, MainGoto
<1>32. ASSUME Signal PROVE CoveredInv'
  BY <1>32 DEF Signal
<1>33. ASSUME PulseElapses PROVE CoveredInv'
  BY <1>33 DEF PulseElapses
<1>34. CASE UNCHANGED vars
  BY <1>34 DEF vars
<1>35. QED
  BY <1>1, <1>2, <1>3, <1>4, <1>5, <1>6, <1>7, <1>8, <1>9, <1>10, <1>11, <1>12, <1>13, <1>14, <1>15, <1>16, <1>17, <1>18, <1>19, <1>20, <1>21, <1>22, <1>23, <1>24, <1>25, <1>26, <1>27, <1>28, <1>29, <1>30, <1>31, <1>32, <1>33, <1>34 DEF Next, RestStep, MainStep, MainScript

(* While a client waits for its batch, the batch is covered by snap_ or by  *)
(* the pass under way (run(), apis.cpp:522-525).                            *)
THEOREM NoRequestForgotten == Spec => []RequestCovered
<1>1. Init => CoveredInv
  BY DEF Init, CoveredInv, RequestCovered, Within, Ended
<1>2. CoveredInv => RequestCovered
  BY DEF CoveredInv
<1>3. QED
  BY <1>1, <1>2, CoveredStep, TypeCorrect, PTL DEF Spec

-----------------------------------------------------------------------------
(* With one REST thread only that thread lowers ready_, so it is still up   *)
(* when the wait is over.                                                   *)
ReadyInv ==
  /\ ~aborted
  /\ \A r \in RestThreads : pc[r] = "assert" => ready

LEMMA ReadyStep ==
  ASSUME \A r, t \in RestThreads : r = t
  PROVE  TypeOK /\ ReadyInv /\ [Next]_vars => ReadyInv'
<1> SUFFICES ASSUME TypeOK, ReadyInv, [Next]_vars PROVE ReadyInv'
  OBVIOUS
<1> USE DEF ReadyInv, TypeOK, RestPC, mainVars, restVars, sync, history, life
<1>1. ASSUME NEW r \in RestThreads, RestTop(r) PROVE ReadyInv'
  BY <1>1 DEF RestTop, Goto
<1>2. ASSUME NEW r \in RestThreads, RestSpun(r) PROVE ReadyInv'
  BY <1>2 DEF RestSpun, Goto
<1>3. ASSUME NEW r \in RestThreads, Acquire(r) PROVE ReadyInv'
  BY <1>3 DEF Acquire, Goto
<1>4. ASSUME NEW r \in RestThreads, CheckPending(r) PROVE ReadyInv'
  BY <1>4 DEF CheckPending, Goto
<1>5. ASSUME NEW r \in RestThreads, AssignPending(r) PROVE ReadyInv'
  BY <1>5 DEF AssignPending, Goto
<1>6. ASSUME NEW r \in RestThreads, LetGoSnap(r) PROVE ReadyInv'
  BY <1>6 DEF LetGoSnap, Goto
<1>7. ASSUME NEW r \in RestThreads, LetGoUnready(r) PROVE ReadyInv'
  BY <1>7 DEF LetGoUnready, Goto, Returned
<1>8. ASSUME NEW r \in RestThreads, WaitPred(r) PROVE ReadyInv'
  BY <1>8 DEF WaitPred, Goto
<1>9. ASSUME NEW r \in RestThreads, WaitBlock(r) PROVE ReadyInv'
  BY <1>9 DEF WaitBlock, Goto
<1>10. ASSUME NEW r \in RestThreads, WaitRelock(r) PROVE ReadyInv'
  BY <1>10 DEF WaitRelock, Goto
<1>11. ASSUME NEW r \in RestThreads, AssertReady(r) PROVE ReadyInv'
  BY <1>11 DEF AssertReady, Goto
<1>12. ASSUME NEW r \in RestThreads, Unlock(r) PROVE ReadyInv'
  BY <1>12 DEF Unlock, Goto, Returned
<1>13. ASSUME NEW r \in RestThreads, RestSelectFails(r) PROVE ReadyInv'
  BY <1>13 DEF RestSelectFails, Goto
<1>14. ASSUME NEW r \in RestThreads, RestCall(r) PROVE ReadyInv'
  BY <1>14 DEF RestCall, Goto
<1>15. ASSUME NEW r \in RestThreads, SpuriousWake(r) PROVE ReadyInv'
  BY <1>15 DEF SpuriousWake, Goto
<1>16. ASSUME NotifySet PROVE ReadyInv'
  BY <1>16 DEF NotifySet, MainGoto
<1>17. ASSUME NotifyWake PROVE ReadyInv'
  BY <1>17 DEF NotifyWake, MainGoto, Woken
<1>18. ASSUME MainTop PROVE ReadyInv'
  BY <1>18 DEF MainTop, Notify, MainGoto
<1>19. ASSUME MainTest PROVE ReadyInv'
  BY <1>19 DEF MainTest, MainGoto
<1>20. ASSUME MainBranch PROVE ReadyInv'
  BY <1>20 DEF MainBranch, MainGoto
<1>21. ASSUME MainClearSnap PROVE ReadyInv'
  BY <1>21 DEF MainClearSnap, MainGoto
<1>22. ASSUME CommitBegin PROVE ReadyInv'
  BY <1>22 DEF CommitBegin, MainGoto
<1>23. ASSUME CommitEnd PROVE ReadyInv'
  BY <1>23 DEF CommitEnd, MainGoto
<1>24. ASSUME CommitClear PROVE ReadyInv'
  BY <1>24 DEF CommitClear, Notify, MainGoto, PendingAfterCommit
<1>25. ASSUME MainNotifyAgain PROVE ReadyInv'
  BY <1>25 DEF MainNotifyAgain, Notify, MainGoto
<1>26. ASSUME MainLeave PROVE ReadyInv'
  BY <1>26 DEF MainLeave, MainGoto
<1>27. ASSUME MainJoin PROVE ReadyInv'
  BY <1>27 DEF MainJoin, MainGoto
<1>28. ASSUME MainCall PROVE ReadyInv'
  BY <1>28 DEF MainCall, Notify, MainGoto
<1>29. ASSUME MainThrow PROVE ReadyInv'
  BY <1>29 DEF MainThrow, Notify, MainGoto
<1>30. ASSUME MainTimers PROVE ReadyInv'
  BY <1>30 DEF MainTimers, MainGoto
<1>31. ASSUME ScriptReply PROVE ReadyInv'
  BY <1>31 DEF ScriptReply, Notify, MainGoto
<1>32. ASSUME Signal PROVE ReadyInv'
  BY <1>32 DEF Signal
<1>33. ASSUME PulseElapses PROVE ReadyInv'
  BY <1>33 DEF PulseElapses
<1>34. CASE UNCHANGED vars
  BY <1>34 DEF vars
<1>35. QED
  BY <1>1, <1>2, <1>3, <1>4, <1>5, <1>6, <1>7, <1>8, <1>9, <1>10, <1>11, <1>12, <1>13, <1>14, <1>15, <1>16, <1>17, <1>18, <1>19, <1>20, <1>21, <1>22, <1>23, <1>24, <1>25, <1>26, <1>27, <1>28, <1>29, <1>30, <1>31, <1>32, <1>33, <1>34 DEF Next, RestStep, MainStep, MainScript

(* The assert of web_set_data (inst.cpp:299) holds when the program has one *)
(* REST thread, whatever the script and the clients do.                     *)
THEOREM SingleThreadAssert ==
  ASSUME \A r, t \in RestThreads : r = t
  PROVE  Spec => []AssertHolds
<1>1. Init => ReadyInv
  BY DEF Init, ReadyInv
<1>2. ReadyInv => AssertHolds
  BY DEF ReadyInv, AssertHolds
<1>3. TypeOK /\ ReadyInv /\ [Next]_vars => ReadyInv'
  BY ReadyStep
<1>4. QED
  BY <1>1, <1>2, <1>3, TypeCorrect, PTL DEF Spec

-----------------------------------------------------------------------------
(* Each step of the hand-over is a step of BatchOrder or leaves its         *)
(* variables alone.                                                         *)
LEMMA OrderStep == TypeOK /\ FreshInv /\ [Next]_vars => [Order!Next]_(Order!vars)
<1> SUFFICES ASSUME TypeOK, FreshInv, [Next]_vars PROVE [Order!Next]_(Order!vars)
  OBVIOUS
<1> USE DEF Order!vars, mainVars, restVars, sync, history, life
<1>1. ASSUME NEW r \in RestThreads, RestTop(r) PROVE [Order!Next]_(Order!vars)
  BY <1>1 DEF RestTop, Goto
<1>2. ASSUME NEW r \in RestThreads, RestSpun(r) PROVE [Order!Next]_(Order!vars)
  BY <1>2 DEF RestSpun, Goto
<1>3. ASSUME NEW r \in RestThreads, Acquire(r) PROVE [Order!Next]_(Order!vars)
  BY <1>3 DEF Acquire, Goto
<1>4. ASSUME NEW r \in RestThreads, CheckPending(r) PROVE [Order!Next]_(Order!vars)
  BY <1>4 DEF CheckPending, Goto
<1>5. ASSUME NEW r \in RestThreads, AssignPending(r) PROVE [Order!Next]_(Order!vars)
  <2>1. CASE full[r]
    BY <1>5, <2>1 DEF AssignPending, Order!Next, Order!Accept
  <2>2. CASE ~full[r]
    BY <1>5, <2>2 DEF AssignPending
  <2>3. QED
    BY <2>1, <2>2
<1>6. ASSUME NEW r \in RestThreads, LetGoSnap(r) PROVE [Order!Next]_(Order!vars)
  BY <1>6 DEF LetGoSnap, Goto
<1>7. ASSUME NEW r \in RestThreads, LetGoUnready(r) PROVE [Order!Next]_(Order!vars)
  BY <1>7 DEF LetGoUnready, Goto, Returned
<1>8. ASSUME NEW r \in RestThreads, WaitPred(r) PROVE [Order!Next]_(Order!vars)
  BY <1>8 DEF WaitPred, Goto
<1>9. ASSUME NEW r \in RestThreads, WaitBlock(r) PROVE [Order!Next]_(Order!vars)
  BY <1>9 DEF WaitBlock, Goto
<1>10. ASSUME NEW r \in RestThreads, WaitRelock(r) PROVE [Order!Next]_(Order!vars)
  BY <1>10 DEF WaitRelock, Goto
<1>11. ASSUME NEW r \in RestThreads, AssertReady(r) PROVE [Order!Next]_(Order!vars)
  BY <1>11 DEF AssertReady, Goto
<1>12. ASSUME NEW r \in RestThreads, Unlock(r) PROVE [Order!Next]_(Order!vars)
  BY <1>12 DEF Unlock, Goto, Returned
<1>13. ASSUME NEW r \in RestThreads, RestSelectFails(r) PROVE [Order!Next]_(Order!vars)
  BY <1>13 DEF RestSelectFails, Goto
<1>14. ASSUME NEW r \in RestThreads, RestCall(r) PROVE [Order!Next]_(Order!vars)
  BY <1>14 DEF RestCall, Goto
<1>15. ASSUME NEW r \in RestThreads, SpuriousWake(r) PROVE [Order!Next]_(Order!vars)
  BY <1>15 DEF SpuriousWake, Goto
<1>16. ASSUME NotifySet PROVE [Order!Next]_(Order!vars)
  BY <1>16 DEF NotifySet, MainGoto
<1>17. ASSUME NotifyWake PROVE [Order!Next]_(Order!vars)
  BY <1>17 DEF NotifyWake, MainGoto, Woken
<1>18. ASSUME MainTop PROVE [Order!Next]_(Order!vars)
  BY <1>18 DEF MainTop, Notify, MainGoto
<1>19. ASSUME MainTest PROVE [Order!Next]_(Order!vars)
  BY <1>19 DEF MainTest, MainGoto
<1>20. ASSUME MainBranch PROVE [Order!Next]_(Order!vars)
  BY <1>20 DEF MainBranch, MainGoto
<1>21. ASSUME MainClearSnap PROVE [Order!Next]_(Order!vars)
  BY <1>21 DEF MainClearSnap, MainGoto
<1>22. ASSUME CommitBegin PROVE [Order!Next]_(Order!vars)
  BY <1>22 DEF CommitBegin, MainGoto
<1>23. ASSUME CommitEnd PROVE [Order!Next]_(Order!vars)
  <2>1. PICK s \in SUBSET ({visiting, pending} \ {0}) :
            applied' = applied \cup s /\ count' = count + Cardinality(s)
    BY <1>23 DEF CommitEnd
  <2>2. serial' = serial /\ mpc = "iterend"
    BY <1>23 DEF CommitEnd
  <2>3. \A b \in s : b \in 1..serial /\ \A c \in applied : c < b
    BY <2>2 DEF TypeOK, FreshInv, Within
  <2>4. CASE s = {}
    <3>1. applied' = applied
      BY <2>1, <2>4
    <3>2. count' = count
      BY <2>1, <2>4, FS_EmptySet DEF TypeOK
    <3>3. QED
      BY <2>2, <3>1, <3>2
  <2>5. CASE s # {}
    <3>1. s \in SUBSET (1..serial)
      BY <2>3
    <3>2. \A b \in s : Order!Newer(b)
      BY <2>3 DEF Order!Newer
    <3>3. Order!Cardinality(s) = Cardinality(s)
      BY DEF Order!Cardinality, Cardinality, Order!IsFiniteSet, IsFiniteSet
    <3>4. Order!Apply
      BY <2>1, <2>2, <2>5, <3>1, <3>2, <3>3 DEF Order!Apply
    <3>5. QED
      BY <3>4 DEF Order!Next
  <2>6. QED
    BY <2>4, <2>5
<1>24. ASSUME CommitClear PROVE [Order!Next]_(Order!vars)
  BY <1>24 DEF CommitClear, Notify, MainGoto, PendingAfterCommit
<1>25. ASSUME MainNotifyAgain PROVE [Order!Next]_(Order!vars)
  BY <1>25 DEF MainNotifyAgain, Notify, MainGoto
<1>26. ASSUME MainLeave PROVE [Order!Next]_(Order!vars)
  BY <1>26 DEF MainLeave, MainGoto
<1>27. ASSUME MainJoin PROVE [Order!Next]_(Order!vars)
  BY <1>27 DEF MainJoin, MainGoto
<1>28. ASSUME MainCall PROVE [Order!Next]_(Order!vars)
  BY <1>28 DEF MainCall, Notify, MainGoto
<1>29. ASSUME MainThrow PROVE [Order!Next]_(Order!vars)
  BY <1>29 DEF MainThrow, Notify, MainGoto
<1>30. ASSUME MainTimers PROVE [Order!Next]_(Order!vars)
  BY <1>30 DEF MainTimers, MainGoto
<1>31. ASSUME ScriptReply PROVE [Order!Next]_(Order!vars)
  BY <1>31 DEF ScriptReply, Notify, MainGoto
<1>32. ASSUME Signal PROVE [Order!Next]_(Order!vars)
  BY <1>32 DEF Signal
<1>33. ASSUME PulseElapses PROVE [Order!Next]_(Order!vars)
  BY <1>33 DEF PulseElapses
<1>34. CASE UNCHANGED vars
  BY <1>34 DEF vars
<1>35. QED
  BY <1>1, <1>2, <1>3, <1>4, <1>5, <1>6, <1>7, <1>8, <1>9, <1>10, <1>11, <1>12, <1>13, <1>14, <1>15, <1>16, <1>17, <1>18, <1>19, <1>20, <1>21, <1>22, <1>23, <1>24, <1>25, <1>26, <1>27, <1>28, <1>29, <1>30, <1>31, <1>32, <1>33, <1>34 DEF Next, RestStep, MainStep, MainScript

(* The hand-over between web_set_data and comit_devs delivers batches at    *)
(* most once and in the order they were accepted, for any number of REST    *)
(* threads.                                                                 *)
THEOREM HandOverOrder == Spec => InOrderAtMostOnce
<1>1. Init => Order!Init
  BY DEF Init, Order!Init
<1>2. Init => FreshInv
  BY DEF Init, FreshInv, Within
<1>3. QED
  BY <1>1, <1>2, FreshStep, OrderStep, TypeCorrect, PTL DEF Spec, InOrderAtMostOnce, Order!Spec
=============================================================================
