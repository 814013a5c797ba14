------------------------------ MODULE WebSync -------------------------------
(***************************************************************************)
(* The hand-over between the REST threads and the main loop of circinus.   *)
(*                                                                         *)
(* A REST thread (restsrv.cpp) turns a request into a batch of device      *)
(* settings and calls Inst::web_set_data, which stores the batch in        *)
(* _pending under BaseSqEnvi::mutex_ and, when the client wants fresh      *)
(* data, raises snap_, lowers ready_ and waits on condvar_.  The main      *)
(* thread (run() in apis.cpp) polls snap_, applies _pending to the devices *)
(* (comit_devs, which takes no lock), calls the script's loop function and *)
(* releases the waiters (notify, which takes no lock either).              *)
(*                                                                         *)
(* Every access to a shared variable is a step of its own.  A batch is its *)
(* serial number, 0 the empty batch: which devices it names does not       *)
(* matter here (RequestPlan models that).                                  *)
(***************************************************************************)
EXTENDS Naturals, FiniteSets

CONSTANTS RestThreads,  \* threads running RestSrv::thread_main
          NoThread,     \* owner of the free mutex
          MaxCalls,     \* bound: calls of web_set_data in a behaviour
          PulseOn       \* run(f, pulseme) with pulseme > 0

ASSUME NoThreadAssumption == NoThread \notin RestThreads
ASSUME MaxCallsAssumption == MaxCalls \in Nat
ASSUME PulseAssumption == PulseOn \in BOOLEAN

VARIABLES
  running,   \* ApStat == RUNNING
  stop,      \* Mpthrd::_bstop of the REST servers
  aborted,   \* the assert of web_set_data has failed
  mutex,     \* owner of BaseSqEnvi::mutex_
  ready,     \* BaseSqEnvi::ready_
  snap,      \* BaseSqEnvi::snap_
  pending,   \* Inst::_pending
  due,       \* then - now >= pulseme
  mpc,       \* where the main thread is
  back,      \* where it goes on after the notify() under way
  bysnap,    \* the pass under way was asked for through snap_
  visiting,  \* the batch comit_devs iterates over
  pc,        \* where each REST thread is
  kind,      \* the request it serves
  full,      \* whether that request names a device the program has
  stage,     \* which of the let_thread_go calls it is in
  mine,      \* the batch it stored last
  calls,     \* calls of web_set_data so far
  serial,    \* batches accepted so far (history)
  applied,   \* batches applied so far (history)
  count      \* how often a batch was applied (history)

mainVars == <<mpc, back, bysnap, visiting, due>>
restVars == <<pc, kind, full, stage, mine, calls>>
sync     == <<mutex, ready, snap>>
history  == <<serial, applied, count>>
life     == <<running, stop, aborted>>
vars     == <<mainVars, restVars, sync, pending, history, life>>

MainPC == {"top", "test", "branch", "clear", "iter", "iterend", "wipe", "fun",
           "again", "final", "set", "wake", "timers", "leave", "join", "gone"}
BackPC == {"test", "iterend", "fun", "timers", "again", "final", "leave"}
RestPC == {"top", "spin", "lock", "check", "assign", "assert", "unlock",
           "snap", "unready", "pred", "block", "waiting", "relock", "done"}
Kind   == {"refresh", "write", "post"}  \* apply > 0; apply < 0; apply = 0
Stage  == {"drain", "sync", "respin"}

(* The main thread has left run(): nobody reads snap_ any more. *)
Ended == mpc \in {"leave", "join", "gone"}

TypeOK ==
  /\ running \in BOOLEAN /\ stop \in BOOLEAN /\ aborted \in BOOLEAN
  /\ mutex \in RestThreads \cup {NoThread}
  /\ ready \in BOOLEAN /\ snap \in BOOLEAN /\ due \in BOOLEAN
  /\ pending \in Nat /\ visiting \in Nat
  /\ mpc \in MainPC /\ back \in BackPC /\ bysnap \in BOOLEAN
  /\ pc \in [RestThreads -> RestPC]
  /\ kind \in [RestThreads -> Kind]
  /\ full \in [RestThreads -> BOOLEAN]
  /\ stage \in [RestThreads -> Stage]
  /\ mine \in [RestThreads -> Nat]
  /\ calls \in Nat /\ serial \in Nat
  /\ applied \in SUBSET Nat /\ count \in Nat

Init ==
  /\ running = TRUE /\ stop = FALSE /\ aborted = FALSE
  /\ mutex = NoThread /\ ready = TRUE /\ snap = FALSE
  /\ pending = 0 /\ visiting = 0 /\ due = FALSE
  /\ mpc = "top" /\ back = "timers" /\ bysnap = FALSE
  /\ pc = [r \in RestThreads |-> "top"]
  /\ kind = [r \in RestThreads |-> "post"]
  /\ full = [r \in RestThreads |-> FALSE]
  /\ stage = [r \in RestThreads |-> "sync"]
  /\ mine = [r \in RestThreads |-> 0]
  /\ calls = 0 /\ serial = 0 /\ applied = {} /\ count = 0

-----------------------------------------------------------------------------
(* The REST threads.                                                       *)

Goto(r, l) == pc' = [pc EXCEPT ![r] = l]

(* web_set_data has returned: its parameters and locals are gone. *)
Returned(r) ==
  /\ kind' = [kind EXCEPT ![r] = "post"]
  /\ full' = [full EXCEPT ![r] = FALSE]
  /\ stage' = [stage EXCEPT ![r] = "sync"]
  /\ mine' = [mine EXCEPT ![r] = 0]

(* while(!is_stopped() && ApStat==RUNNING) *)
RestTop(r) ==
  /\ pc[r] = "top"
  /\ Goto(r, IF running /\ ~stop THEN "spin" ELSE "done")
  /\ UNCHANGED <<mainVars, kind, full, stage, mine, calls, sync, pending, history, life>>

(* _spin() has served every client that had something to say. *)
RestSpun(r) ==
  /\ pc[r] = "spin"
  /\ Goto(r, "top")
  /\ UNCHANGED <<mainVars, kind, full, stage, mine, calls, sync, pending, history, life>>

(* select = -1, be it for a signal: ApStat=EXIT_APP.  That _bstop is raised  *)
(* as well tells this thread nothing more.                                  *)
RestSelectFails(r) ==
  /\ pc[r] = "spin"
  /\ running' = FALSE
  /\ Goto(r, "top")
  /\ UNCHANGED <<mainVars, kind, full, stage, mine, calls, sync, pending, history,
                 stop, aborted>>

(* A request that reaches web_set_data(devs, apply).  One spin may serve     *)
(* several of them without looking at ApStat again.                         *)
RestCall(r) ==
  /\ pc[r] = "spin"
  /\ calls < MaxCalls
  /\ calls' = calls + 1
  /\ \E k \in Kind, f \in BOOLEAN :
        /\ kind' = [kind EXCEPT ![r] = k]
        /\ full' = [full EXCEPT ![r] = f]
  /\ Goto(r, "lock")
  /\ UNCHANGED <<mainVars, stage, mine, sync, pending, history, life>>

Acquire(r) ==
  /\ pc[r] = "lock"
  /\ mutex = NoThread
  /\ mutex' = r
  /\ Goto(r, "check")
  /\ UNCHANGED <<mainVars, kind, full, stage, mine, calls, ready, snap, pending, history, life>>

(* if(!_pending.empty()) wait for a pass of the main loop first *)
CheckPending(r) ==
  /\ pc[r] = "check"
  /\ IF pending # 0
       THEN Goto(r, "snap") /\ stage' = [stage EXCEPT ![r] = "drain"]
       ELSE Goto(r, "assign") /\ UNCHANGED stage
  /\ UNCHANGED <<mainVars, kind, full, mine, calls, sync, pending, history, life>>

(* _pending = devs;  if(apply > 0) let_thread_go and wait *)
AssignPending(r) ==
  /\ pc[r] = "assign"
  /\ IF full[r]
       THEN serial' = serial + 1 /\ pending' = serial + 1
            /\ mine' = [mine EXCEPT ![r] = serial + 1]
       ELSE UNCHANGED serial /\ pending' = 0 /\ mine' = [mine EXCEPT ![r] = 0]
  /\ IF kind[r] = "refresh"
       THEN Goto(r, "snap") /\ stage' = [stage EXCEPT ![r] = "sync"]
       ELSE Goto(r, "unlock") /\ UNCHANGED stage
  /\ UNCHANGED <<mainVars, kind, full, calls, sync, applied, count, life>>

(* let_thread_go(): snap_ = true, then ready_ = false *)
LetGoSnap(r) ==
  /\ pc[r] = "snap"
  /\ snap' = TRUE
  /\ Goto(r, "unready")
  /\ UNCHANGED <<mainVars, kind, full, stage, mine, calls, mutex, ready, pending, history, life>>

LetGoUnready(r) ==
  /\ pc[r] = "unready"
  /\ ready' = FALSE
  /\ IF stage[r] = "respin"
       THEN Goto(r, "spin") /\ Returned(r)
       ELSE Goto(r, "pred") /\ UNCHANGED <<kind, full, stage, mine>>
  /\ UNCHANGED <<mainVars, calls, mutex, snap, pending, history, life>>

(* condvar_.wait(lck, pred): look at ready_ ... *)
WaitPred(r) ==
  /\ pc[r] = "pred"
  /\ Goto(r, IF ~ready THEN "block" ELSE IF stage[r] = "drain" THEN "assign" ELSE "assert")
  /\ UNCHANGED <<mainVars, kind, full, stage, mine, calls, sync, pending, history, life>>

(* ... and, in a later step, release the mutex and sleep.  *)
WaitBlock(r) ==
  /\ pc[r] = "block"
  /\ mutex' = NoThread
  /\ Goto(r, "waiting")
  /\ UNCHANGED <<mainVars, kind, full, stage, mine, calls, ready, snap, pending, history, life>>

(* The C++ library allows wake-ups nobody asked for. *)
SpuriousWake(r) ==
  /\ pc[r] = "waiting"
  /\ Goto(r, "relock")
  /\ UNCHANGED <<mainVars, kind, full, stage, mine, calls, sync, pending, history, life>>

WaitRelock_NoPredicate(r) ==
  /\ pc[r] = "relock"
  /\ mutex = NoThread
  /\ mutex' = r
  /\ Goto(r, IF stage[r] = "drain" THEN "assign" ELSE "assert")
  /\ UNCHANGED <<mainVars, kind, full, stage, mine, calls, ready, snap, pending, history, life>>

WaitRelock(r) ==
  /\ pc[r] = "relock"
  /\ mutex = NoThread
  /\ mutex' = r
  /\ Goto(r, "pred")
  /\ UNCHANGED <<mainVars, kind, full, stage, mine, calls, ready, snap, pending, history, life>>

(* assert(ready_): the makefile does not define NDEBUG, so a failure ends   *)
(* the whole process.                                                       *)
AssertReady(r) ==
  /\ pc[r] = "assert"
  /\ aborted' = ~ready
  /\ IF ready
       THEN Goto(r, "unlock") /\ UNCHANGED <<mpc, running>>
       ELSE /\ pc' = [t \in RestThreads |-> "done"]
            /\ mpc' = "gone"
            /\ running' = FALSE
  /\ UNCHANGED <<back, bysnap, visiting, due, kind, full, stage, mine, calls, sync,
                 pending, history, stop>>

(* The lock goes out of scope; a GET with a value then builds its reply     *)
(* and lets the main thread go once more, without the lock.                 *)
Unlock(r) ==
  /\ pc[r] = "unlock"
  /\ mutex' = NoThread
  /\ IF kind[r] = "write"
       THEN /\ Goto(r, "snap")
            /\ stage' = [stage EXCEPT ![r] = "respin"]
            /\ UNCHANGED <<kind, full, mine>>
       ELSE Goto(r, "spin") /\ Returned(r)
  /\ UNCHANGED <<mainVars, calls, ready, snap, pending, history, life>>

(* What a thread does on its own. *)
RestStep(r) ==
  \/ RestTop(r) \/ RestSpun(r) \/ Acquire(r) \/ CheckPending(r) \/ AssignPending(r)
  \/ LetGoSnap(r) \/ LetGoUnready(r) \/ WaitPred(r) \/ WaitBlock(r)
  \/ WaitRelock(r) \/ AssertReady(r) \/ Unlock(r)

-----------------------------------------------------------------------------
(* The main thread.                                                        *)

MainGoto(l) == mpc' = l

(* notify() is a subroutine: where to go on is in back. *)
Notify(l) == MainGoto("set") /\ back' = l

NotifySet_Both ==
  /\ mpc = "set"
  /\ ready' = TRUE
  /\ snap' = FALSE
  /\ MainGoto("wake")
  /\ UNCHANGED <<back, bysnap, visiting, due, restVars, mutex, pending, history, life>>

NotifySet ==
  /\ mpc = "set"
  /\ ready' = TRUE
  /\ MainGoto("wake")
  /\ UNCHANGED <<back, bysnap, visiting, due, restVars, mutex, snap, pending, history, life>>

(* condvar_.notify_all() *)
Woken_Nobody(r) == pc[r]
Woken(r) == IF pc[r] = "waiting" THEN "relock" ELSE pc[r]

NotifyWake ==
  /\ mpc = "wake"
  /\ pc' = [r \in RestThreads |-> Woken(r)]
  /\ MainGoto(back)
  /\ back' = "timers"
  /\ UNCHANGED <<bysnap, visiting, due, kind, full, stage, mine, calls, sync,
                 pending, history, life>>

(* while(ApStat==RUNNING); leaving the loop runs the last notify() *)
MainTop ==
  /\ mpc = "top"
  /\ IF running THEN MainGoto("test") /\ UNCHANGED back ELSE Notify("leave")
  /\ UNCHANGED <<bysnap, visiting, due, restVars, sync, pending, history, life>>

(* pulse elapsed || snap_ || a device has an event *)
PassWanted(evented) == due \/ snap \/ evented

MainTest ==
  /\ mpc = "test"
  /\ \E evented \in BOOLEAN :
        MainGoto(IF PassWanted(evented) THEN "branch" ELSE "timers")
  /\ UNCHANGED <<back, bysnap, visiting, due, restVars, sync, pending, history, life>>

(* snap_ is read a second time *)
MainBranch ==
  /\ mpc = "branch"
  /\ bysnap' = snap
  /\ MainGoto(IF snap THEN "clear" ELSE "iter")
  /\ UNCHANGED <<back, visiting, due, restVars, sync, pending, history, life>>

MainClearSnap ==
  /\ mpc = "clear"
  /\ snap' = FALSE
  /\ MainGoto("iter")
  /\ UNCHANGED <<back, bysnap, visiting, due, restVars, mutex, ready, pending, history, life>>

(* comit_devs: the loop over _pending starts ... *)
CommitBegin_OffByOne ==
  /\ mpc = "iter"
  /\ visiting' = pending - 1
  /\ MainGoto("iterend")
  /\ UNCHANGED <<back, bysnap, due, restVars, sync, pending, history, life>>

CommitBegin ==
  /\ mpc = "iter"
  /\ visiting' = pending
  /\ MainGoto("iterend")
  /\ UNCHANGED <<back, bysnap, due, restVars, sync, pending, history, life>>

(* ... and ends.  When a REST thread replaced the map meanwhile, the race   *)
(* lets any of the two batches, both or none have been visited.             *)
CommitEnd ==
  /\ mpc = "iterend"
  /\ \E s \in SUBSET ({visiting, pending} \ {0}) :
        /\ visiting = pending => s = {pending} \ {0}
        /\ applied' = applied \cup s
        /\ count' = count + Cardinality(s)
  /\ MainGoto("wipe")
  /\ UNCHANGED <<back, bysnap, visiting, due, restVars, sync, pending, serial, life>>

(* _pending.clear() *)
PendingAfterCommit_Kept == pending
PendingAfterCommit == 0

(* The batch is cleared: then notify() at once, or the script's loop function *)
CommitClear ==
  /\ mpc = "wipe"
  /\ pending' = PendingAfterCommit
  /\ visiting' = 0
  /\ IF bysnap THEN Notify("timers") /\ UNCHANGED due
               ELSE MainGoto("fun") /\ due' = FALSE /\ UNCHANGED back
  /\ UNCHANGED <<bysnap, restVars, sync, history, life>>

(* f returned true or false; either way notify() comes next *)
MainCall ==
  /\ mpc = "fun"
  /\ \E more \in BOOLEAN : Notify(IF more THEN "again" ELSE "final")
  /\ UNCHANGED <<bysnap, visiting, due, restVars, sync, pending, history, life>>

(* The script threw, in f or in one of its get or set functions, which the  *)
(* scan and the commit call: ApStat=RESTART, then the last notify().  What  *)
(* was not committed stays in _pending.                                     *)
MainThrow ==
  /\ mpc \in {"test", "iterend", "fun"}
  /\ mpc = "iterend" => visiting # 0
  /\ running' = FALSE
  /\ visiting' = 0
  /\ Notify("leave")
  /\ UNCHANGED <<bysnap, due, restVars, sync, pending, history, stop, aborted>>

(* the second notify() of the pass, or the one after the loop *)
MainNotifyAgain ==
  /\ mpc \in {"again", "final"}
  /\ Notify(IF mpc = "again" THEN "timers" ELSE "leave")
  /\ UNCHANGED <<bysnap, visiting, due, restVars, sync, pending, history, life>>

(* call_backs: a timer's script may throw, which sets ApStat *)
MainTimers ==
  /\ mpc = "timers"
  /\ running' \in {running, FALSE}
  /\ MainGoto("top")
  /\ UNCHANGED <<back, bysnap, visiting, due, restVars, sync, pending, history, stop, aborted>>

(* RestSrv::reply, called by the script's functions: a callback of the scan, *)
(* a set function while a batch is committed, f, a timer's function.        *)
ScriptReply ==
  /\ mpc \in {"test", "iterend", "fun", "timers"}
  /\ mpc = "iterend" => visiting # 0
  /\ Notify(mpc)
  /\ UNCHANGED <<bysnap, visiting, due, restVars, sync, pending, history, life>>

(* run() is over: ~RestSrv raises _bstop ... *)
MainLeave ==
  /\ mpc = "leave"
  /\ stop' = TRUE
  /\ MainGoto("join")
  /\ UNCHANGED <<back, bysnap, visiting, due, restVars, sync, pending, history, running, aborted>>

(* ... and joins the threads *)
MainJoin ==
  /\ mpc = "join"
  /\ \A r \in RestThreads : pc[r] = "done"
  /\ MainGoto("gone")
  /\ UNCHANGED <<back, bysnap, visiting, due, restVars, sync, pending, history, life>>

MainScript == MainTest \/ CommitEnd \/ MainCall \/ MainThrow \/ MainTimers

MainStep ==
  \/ NotifySet \/ NotifyWake \/ MainTop \/ MainBranch
  \/ MainClearSnap \/ CommitBegin \/ CommitClear
  \/ MainNotifyAgain \/ MainLeave \/ MainJoin \/ MainScript

-----------------------------------------------------------------------------
(* SIGINT, SIGTERM *)
Signal ==
  /\ running
  /\ running' = FALSE
  /\ UNCHANGED <<mainVars, restVars, sync, pending, history, stop, aborted>>

(* time passes: then - now reaches pulseme *)
PulseElapses ==
  /\ PulseOn
  /\ ~due
  /\ due' = TRUE
  /\ UNCHANGED <<mpc, back, bysnap, visiting, restVars, sync, pending, history, life>>

Next ==
  \/ \E r \in RestThreads : RestStep(r)
  \/ \E r \in RestThreads : RestSelectFails(r)
  \/ \E r \in RestThreads : RestCall(r)
  \/ \E r \in RestThreads : SpuriousWake(r)
  \/ MainStep
  \/ ScriptReply
  \/ Signal
  \/ PulseElapses

Spec == Init /\ [][Next]_vars

(* Threads are scheduled and time passes; the script's functions return.    *)
(* Nothing makes a client send requests, a signal arrive, the script reply  *)
(* or a condition variable wake spuriously.                                 *)
Fairness ==
  /\ \A r \in RestThreads : WF_vars(RestStep(r))
  /\ WF_vars(MainStep)
  /\ SF_vars(MainScript)
  /\ WF_vars(PulseElapses)

FairSpec == Spec /\ Fairness
-----------------------------------------------------------------------------
(* Properties.                                                             *)

(* The main thread is at l, be it in a reply() the script calls there.      *)
Within(l) == mpc = l \/ (mpc \in {"set", "wake"} /\ back = l)

(* A thread that asked for a pass and waits for it is not forgotten: as     *)
(* long as its batch sits in _pending either snap_ is up or the pass under  *)
(* way is about to read, is reading or has applied that batch               *)
(* (run() clears snap_ before comit_devs, apis.cpp:522-525), unless the     *)
(* script threw and the program is on its way out.                          *)
RequestCovered ==
  \A r \in RestThreads :
     (/\ stage[r] = "sync" /\ pending = mine[r] /\ mine[r] # 0
      /\ pc[r] \in {"unready", "pred", "block", "waiting", "relock"})
     => \/ snap
        \/ mpc = "iter"
        \/ Within("iterend") /\ visiting = pending
        \/ mpc = "wipe" /\ pending \in applied
        \/ Within("leave") \/ Ended

(* comit_devs never walks over a batch that was applied before, and never  *)
(* over one older than a batch applied before, although REST threads write *)
(* _pending while the main thread reads and clears it without the lock.    *)
FreshVisit ==
  mpc = "iterend" /\ visiting # 0 => \A b \in applied : b < visiting

(* The whole hand-over delivers batches at most once and in order.         *)
Order == INSTANCE BatchOrder WITH serial <- serial, applied <- applied, count <- count
InOrderAtMostOnce == Order!Spec

(* inst.cpp:299 asserts ready_ after the wait.                              *)
AssertHolds == ~aborted

(* Every call of web_set_data comes back while the main loop runs:          *)
(* "wait for main to finish && get data & return JSON" (restsrv.cpp:620).   *)
CallReturns ==
  \A r \in RestThreads :
     pc[r] = "lock" ~> (pc[r] \in {"spin", "top", "done"} \/ Ended)

(* What restsrv.cpp:620 says of a request with '?': when the wait is over   *)
(* the main thread has done the batch of this very request.                 *)
ReplyAfterCommit ==
  \A r \in RestThreads :
     pc[r] = "unlock" /\ kind[r] = "refresh" /\ mine[r] # 0 => mine[r] \in applied

(* When the loop function returned false, the server's threads are joined   *)
(* and the program is gone (~RestSrv).                                      *)
ProgramEnds == mpc = "final" ~> mpc = "gone"

(* What inst.cpp:292 says of the stored batch ("let main thread to write    *)
(* chnanges"): every accepted batch is still stored, is being applied or    *)
(* has been applied.                                                        *)
NoBatchLost == \A b \in 1..serial : b \in applied \/ b = pending \/ b = visiting
=============================================================================
