---------------------------- MODULE RequestPlan -----------------------------
(***************************************************************************)
(* What a REST request means: how RestSrv turns a query or a JSON body     *)
(* into batches for Inst::web_set_data (restsrv.cpp:397-667), and what     *)
(* comit_devs then does to the devices (inst.cpp:144-162).                 *)
(*                                                                         *)
(* One REST thread serves one request at a time, so that mutex_ has one    *)
(* taker.  Between its waits the accesses of web_set_data are one step     *)
(* here, as are the iteration of comit_devs over what it finds, and its    *)
(* clear(); WebSync takes them apart.  A wait looks at ready_ alone: any   *)
(* notify() ends it, a batch stored after it replaces the one before,      *)
(* applied or not, and what "pass" says is what is left to promise.        *)
(***************************************************************************)
EXTENDS Integers, Sequences

CONSTANTS Devs,        \* the devices of the program (Inst::_devs)
          Unknown,     \* a name no device has
          Props,       \* property names
          NoProp,      \* "device" rather than "device/property"
          EDevs,       \* the names that begin with 'e'
          MaxVal,      \* values are 0..MaxVal
          MaxParams,   \* bound: parameters of a query, devices of a body
          MaxParts     \* bound: requests of a behaviour, and their parts

ASSUME UnknownAssumption == Unknown \notin Devs
ASSUME EDevsAssumption == EDevs \subseteq Devs \cup {Unknown}
ASSUME NoPropAssumption == NoProp \notin Props
ASSUME BoundsAssumption ==
  MaxVal \in Nat /\ MaxParams \in Nat /\ MaxParts \in Nat

VARIABLES
  stage,    \* where the REST thread is: idle, store, drain, wait, answer
  job,      \* the request it serves
  todo,     \* the calls of web_set_data still to make
  pending,  \* Inst::_pending
  ready,    \* BaseSqEnvi::ready_
  main,     \* what the main loop does with _pending: loop (elsewhere),
            \* commit, torn (_pending was assigned meanwhile), clear
  visiting, \* the texts its iteration may come by
  pass,     \* what it did with what the request stored (history): none is
            \* stored, stored, begun (with it), done, or raced: stored while
            \* it was busy with _pending, or over a batch not done
  value,    \* what was last written to each property
  err,      \* the "err" field of the answer
  fresh,    \* devices read since the request arrived (history)
  touched,  \* properties written since the request arrived (history)
  asked,    \* settings of all requests so far (history)
  parts     \* requests so far, and their parts (history)

vars == <<stage, job, todo, pending, ready, main, visiting, pass, value, err,
          fresh, touched, asked, parts>>
history == <<fresh, touched, asked, parts>>

Val    == 0..MaxVal
NoVal  == -1                    \* no "=value" in a query parameter
Setting == [prop : Props, val : Val]
SmallSeq(S) == UNION {[1..n -> S] : n \in 0..MaxParams}

(* A query is ?device/property=value&..., each part but the device optional *)
Param == [ask : BOOLEAN, dev : Devs \cup {Unknown}, prop : Props \cup {NoProp},
          val : Val \cup {NoVal}]
(* A member of a body is "device":{"property":value,...,"refresh":1}, or    *)
(* "device":x with an x that is no object                                   *)
Member == {m \in [dev : Devs \cup {Unknown}, object : BOOLEAN,
                   sets : SmallSeq(Setting), refresh : BOOLEAN] :
             m.object \/ (m.sets = <<>> /\ ~m.refresh)}

Query == [params : SmallSeq(Param) \ {<<>>}]
All   == [ask : BOOLEAN, category : SUBSET Devs]
Body  == [members : SmallSeq(Member)]
Idle  == [none : {0}]
IsQuery(j) == "params" \in DOMAIN j
IsAll(j)   == "category" \in DOMAIN j
IsBody(j)  == "members" \in DOMAIN j

(* The text a batch holds for a device: READDEV, or settings in a row       *)
Text  == [read : BOOLEAN, sets : SmallSeq([prop : Props, val : Val])]
Read  == [read |-> TRUE, sets |-> <<>>]
Empty == [read |-> FALSE, sets |-> <<>>]
Write(s) == [read |-> FALSE, sets |-> s]
Batch == UNION {[D -> Text] : D \in SUBSET Devs}
NoBatch == [d \in {} |-> Empty]
Texts(b) == {<<d, b[d]>> : d \in DOMAIN b}

NotMade == -2                   \* the apply of a call that is not made
Call == [batch : Batch, apply : {NotMade, -1, 0, 1}]

TypeOK ==
  /\ stage \in {"idle", "store", "drain", "wait", "answer"}
  /\ job \in Query \cup All \cup Body \cup Idle
  /\ todo \in Seq(Call)
  /\ pending \in Batch
  /\ ready \in BOOLEAN /\ main \in {"loop", "commit", "torn", "clear"}
  /\ visiting \subseteq Devs \X Text
  /\ pass \in {"none", "stored", "begun", "done", "raced"}
  /\ value \in [Devs \X Props -> Val]
  /\ err \in {0, 2, 3, 4}
  /\ fresh \subseteq Devs /\ touched \subseteq Devs \X Props
  /\ asked \subseteq Devs \X Props \X Val
  /\ parts \in 0..MaxParts

Init ==
  /\ stage = "idle" /\ job = [none |-> 0] /\ todo = <<>> /\ pending = NoBatch
  /\ ready = TRUE /\ main = "loop" /\ visiting = {} /\ pass = "none"
  /\ value = [x \in Devs \X Props |-> 0]
  /\ err = 0 /\ fresh = {} /\ touched = {} /\ asked = {} /\ parts = 0

-----------------------------------------------------------------------------
(* _get_from_query.                                                        *)

(* 1 for a leading '?', -1 for a '=' without one, 0 for neither             *)
Refresh(p) == IF p.ask THEN 1 ELSE IF p.val # NoVal THEN -1 ELSE 0

(* "device/property" is a write, also when there is no '=': its value is    *)
(* empty then, which the devices read as 0 (atoi)                           *)
Value(p) == IF p.val = NoVal THEN 0 ELSE p.val

ParamText_Raw(p) ==
  IF Refresh(p) = 0 THEN Empty
  ELSE IF p.prop = NoProp THEN Read
  ELSE Write(<<[prop |-> p.prop, val |-> p.val]>>)
ParamText(p) ==
  IF Refresh(p) = 0 THEN Empty
  ELSE IF p.prop = NoProp THEN Read
  ELSE Write(<<[prop |-> p.prop, val |-> Value(p)]>>)

(* A device keeps what the last parameter that names it says.               *)
LastNaming(ps, d) ==
  CHOOSE i \in DOMAIN ps : ps[i].dev = d /\ \A j \in DOMAIN ps :
                                               ps[j].dev = d => j <= i
Named(s) == {s[i].dev : i \in DOMAIN s} \cap Devs
QueryBatch(ps) == [d \in Named(ps) |-> ParamText(ps[LastNaming(ps, d)])]

(* The last parameter decides for the whole query what is done with it.     *)
QueryCalls(ps) ==
  LET updates == Refresh(ps[Len(ps)]) IN
    IF updates = 0 THEN <<>>
    ELSE <<[batch |-> QueryBatch(ps), apply |-> updates]>>

(* _get_add_devices: "/", "/?", "/category", "/?category"                   *)
AllCalls(j) ==
  IF j.ask THEN <<[batch |-> [d \in j.category |-> Read], apply |-> 1]>> ELSE <<>>

(* _process_forjson_post and _defer_to_device: one call per known device,   *)
(* with nothing in its batch when the member is no object, and none for a   *)
(* member no device answers to.  A body for the device in the path is that  *)
(* of one member, of an unknown one when there is no such device.           *)
MemberCall(m) == [batch |-> [d \in IF m.object THEN {m.dev} ELSE {} |-> Write(m.sets)],
                  apply |-> IF m.refresh THEN 1 ELSE 0]
NoCall == [batch |-> NoBatch, apply |-> NotMade]

BodyCalls_Leak(ms) ==      \* kvs not emptied between the devices
  [i \in DOMAIN ms |-> IF ms[i].dev \notin Devs THEN NoCall
                       ELSE IF i = 1 THEN MemberCall(ms[i])
                       ELSE MemberCall([ms[i] EXCEPT !.sets = ms[1].sets \o @])]
BodyCalls(ms) ==
  [i \in DOMAIN ms |-> IF ms[i].dev \in Devs THEN MemberCall(ms[i]) ELSE NoCall]

(* NO_DEVICE is 3, PARTIAL_ERR 4.                                           *)
BodyErr_Late(ms) == IF ms = <<>> \/ ms[Len(ms)].dev \in Devs THEN 0 ELSE 3
BodyErr(ms) ==
  IF \A i \in DOMAIN ms : ms[i].dev \in Devs THEN 0
  ELSE IF Named(ms) # {} THEN 4 ELSE 3

-----------------------------------------------------------------------------
(* The REST thread.                                                        *)

Waiting == stage = "idle" /\ parts < MaxParts
Parts(s) == IF s = <<>> THEN 2 ELSE 1 + Len(s)

Begin(j, s, calls, e, A) ==
  /\ parts + Parts(s) <= MaxParts
  /\ parts' = parts + Parts(s)
  /\ job' = j
  /\ todo' = calls
  /\ err' = e
  /\ pass' = "none"
  /\ fresh' = {} /\ touched' = {}
  /\ asked' = asked \cup (A \cap (Devs \X Props \X Val))
  /\ stage' = IF calls = <<>> THEN "answer" ELSE "store"
  /\ UNCHANGED <<pending, ready, main, visiting, value>>

(* A text that begins with "/e" or "/?e" is taken for a category, also when *)
(* it names a device.                                                       *)
GetQuery == Waiting /\ \E j \in Query :
  /\ j.params[1].dev \notin EDevs
  /\ Begin(j, j.params, QueryCalls(j.params), 0,
           {<<p.dev, p.prop, Value(p)>> : p \in {j.params[i] : i \in DOMAIN j.params}})
GetAll == Waiting /\ \E j \in All : Begin(j, <<>>, AllCalls(j), 0, {})
Post == Waiting /\ \E j \in Body :
  Begin(j, j.members, BodyCalls(j.members), BodyErr(j.members),
        UNION {{<<m.dev, m.sets[k].prop, m.sets[k].val>> : k \in DOMAIN m.sets} :
                 m \in {j.members[i] : i \in DOMAIN j.members}})
PostBroken == Waiting /\ Begin([members |-> <<>>], <<>>, <<>>, 2, {})   \* INVALID_J

(* web_set_data.  Over a batch that is still there it waits first.          *)
Drain ==
  /\ stage = "store" /\ Head(todo) # NoCall /\ pending # NoBatch
  /\ ready' = FALSE
  /\ stage' = "drain"
  /\ UNCHANGED <<job, todo, pending, main, visiting, pass, value, err, history>>

Onward(rest) == IF rest = <<>> THEN "answer" ELSE "store"

Assigned_Once(batch) ==    \* what is there stays
  /\ pending' = IF pending = NoBatch THEN batch ELSE pending
  /\ main' = IF main = "commit" THEN "torn" ELSE main
  /\ visiting' = IF main \in {"commit", "torn"} THEN visiting \cup Texts(batch) ELSE visiting
  /\ pass' = IF main = "loop" /\ pass \in {"none", "done"} THEN "stored" ELSE "raced"
Assigned(batch) ==
  /\ pending' = batch
  /\ main' = IF main = "commit" THEN "torn" ELSE main
  /\ visiting' = IF main \in {"commit", "torn"} THEN visiting \cup Texts(batch) ELSE visiting
  /\ pass' = IF main = "loop" /\ pass \in {"none", "done"} THEN "stored" ELSE "raced"

Store ==
  /\ \/ stage = "store" /\ Head(todo) # NoCall /\ pending = NoBatch
     \/ stage = "drain" /\ ready
  /\ Assigned(Head(todo).batch)
  /\ IF Head(todo).apply > 0 THEN ready' = FALSE /\ stage' = "wait"
                             ELSE UNCHANGED ready /\ stage' = Onward(Tail(todo))
  /\ todo' = Tail(todo)
  /\ UNCHANGED <<job, value, err, history>>

WaitEnds ==
  /\ stage = "wait" /\ ready
  /\ stage' = Onward(todo)
  /\ UNCHANGED <<job, todo, pending, ready, main, visiting, pass, value, err, history>>

PassOver ==
  /\ stage = "store" /\ Head(todo) = NoCall
  /\ stage' = Onward(Tail(todo))
  /\ todo' = Tail(todo)
  /\ UNCHANGED <<job, pending, ready, main, visiting, pass, value, err, history>>

(* _build_forjson, or the error text: the answer goes to the client.  After *)
(* a query that wrote without waiting the main loop is let go (respin).     *)
Respin == IsQuery(job) /\ Refresh(job.params[Len(job.params)]) < 0
Answer ==
  /\ stage = "answer"
  /\ stage' = "idle"
  /\ job' = [none |-> 0]
  /\ ready' = (ready /\ ~Respin)
  /\ err' = 0
  /\ pass' = "none" /\ fresh' = {} /\ touched' = {}
  /\ UNCHANGED <<todo, pending, main, visiting, value, asked, parts>>

-----------------------------------------------------------------------------
(* The main thread: comit_devs splits a text at its first '=', so that the  *)
(* device sees the first property, with the others inside its value.        *)
Wrote(text) == IF text.sets = <<>> THEN {} ELSE {text.sets[1]}
Writes(S) == UNION {{<<t[1], s.prop, s.val>> : s \in Wrote(t[2])} : t \in S}

CommitBegins ==
  /\ main = "loop"
  /\ main' = "commit"
  /\ visiting' = Texts(pending)
  /\ pass' = IF pass = "stored" THEN "begun" ELSE pass
  /\ UNCHANGED <<stage, job, todo, pending, ready, value, err, history>>

(* The map assigned while it is iterated over: the iteration may come by    *)
(* any of the texts from before and after.                                  *)
CommitEnds ==
  /\ main \in {"commit", "torn"}
  /\ \E seen \in SUBSET visiting :
       /\ main = "commit" => seen = visiting
       /\ value' \in [Devs \X Props -> Val]
       /\ \A d \in Devs, p \in Props :
            LET new == {v \in Val : <<d, p, v>> \in Writes(seen)}
            IN value'[<<d, p>>] \in IF new = {} THEN {value[<<d, p>>]} ELSE new
       /\ touched' = touched \cup {<<w[1], w[2]>> : w \in Writes(seen)}
       /\ fresh' = fresh \cup {d \in Devs : \E t \in seen : t[1] = d /\ t[2].read}
  /\ main' = "clear" /\ visiting' = {}
  /\ pass' = IF pass = "begun" THEN "done" ELSE pass
  /\ UNCHANGED <<stage, job, todo, pending, ready, err, asked, parts>>

Clears ==
  /\ main = "clear"
  /\ main' = "loop"
  /\ pending' = NoBatch
  /\ UNCHANGED <<stage, job, todo, ready, visiting, pass, value, err, history>>

(* notify(): of a pass, whatever it committed, of the end of run(), and of  *)
(* RestSrv::reply, which a script calls where it likes.                     *)
Notify ==
  /\ ~ready
  /\ ready' = TRUE
  /\ UNCHANGED <<stage, job, todo, pending, main, visiting, pass, value, err, history>>

Next == \/ GetQuery \/ GetAll \/ Post \/ PostBroken
        \/ Drain \/ Store \/ WaitEnds \/ PassOver \/ Answer
        \/ CommitBegins \/ CommitEnds \/ Clears \/ Notify

Spec == Init /\ [][Next]_vars

-----------------------------------------------------------------------------
Once(s, i) == \A j \in DOMAIN s : s[j].dev = s[i].dev => j = i

(* The devices a client asked to have read: those of a query of nothing but *)
(* "?device", and those of "/?".                                            *)
Wanted ==
  IF IsAll(job) /\ job.ask THEN job.category
  ELSE IF IsQuery(job) /\ \A i \in DOMAIN job.params :
                             job.params[i].ask /\ job.params[i].prop = NoProp
    THEN Named(job.params)
  ELSE {}

(* When a pass of the main loop that found what the request stored is over  *)
(* by the answer, the answer holds values read after the request came       *)
(* (restsrv.cpp:619-620), whatever the request before left in _pending.     *)
(* When none is, the wait ended too early, and the answer may be stale: but *)
(* then the reads are still in _pending, unless the store met a pass at     *)
(* work.                                                                    *)
FreshAnswer ==
  stage = "answer" =>
    /\ pass = "done" => Wanted \subseteq fresh
    /\ pass # "raced" =>
         \/ Wanted \subseteq fresh
         \/ \A d \in Wanted : d \in DOMAIN pending /\ pending[d].read

(* A body is stored in as many batches as it has devices: when the last of  *)
(* them met a pass, and each was stored after the one before was done, its  *)
(* answer finds every device with its first setting.                        *)
SettingsReached ==
  stage = "answer" /\ IsBody(job) /\ pass = "done" =>
    \A i \in DOMAIN job.members :
      LET m == job.members[i] IN
        Once(job.members, i) /\ m.dev \in Devs /\ m.sets # <<>> =>
          value[<<m.dev, m.sets[1].prop>>] = m.sets[1].val

(* A body is answered without an error only if each name in it is a         *)
(* device's, and, unless one of its stores met a batch not done or a pass   *)
(* at work, each device has taken its settings or has them in _pending.     *)
SilentMeansAccepted ==
  stage = "answer" /\ IsBody(job) /\ err = 0 =>
    \A i \in DOMAIN job.members :
      LET m == job.members[i] IN
        /\ m.dev \in Devs
        /\ pass # "raced" /\ Once(job.members, i) /\ m.sets # <<>> =>
             \/ <<m.dev, m.sets[1].prop>> \in touched
             \/ m.dev \in DOMAIN pending /\ pending[m.dev].sets = m.sets

(* The same without the condition, which fails: inst.cpp:292 replaces the   *)
(* batch of one member by that of the next after any notify().              *)
NoSettingLost ==
  stage = "answer" /\ IsBody(job) /\ err = 0 =>
    \A i \in DOMAIN job.members :
      LET m == job.members[i] IN
        Once(job.members, i) /\ m.sets # <<>> =>
          \/ <<m.dev, m.sets[1].prop>> \in touched
          \/ m.dev \in DOMAIN pending /\ pending[m.dev].sets = m.sets

(* Writes go where they were addressed: what a property changes to is what  *)
(* some request asked of that property of that device (the value of a       *)
(* "device/property" without '=' being the empty one).                      *)
Addressed ==
  [][\A d \in Devs, p \in Props :
       value'[<<d, p>>] # value[<<d, p>>] =>
         <<d, p, value'[<<d, p>>]>> \in asked]_vars

(* restsrv.cpp:619-620, "?device/prop [...] let main thread get the data":  *)
(* a query of nothing but "?device/prop" writes nothing.                    *)
AskingOnlyReads ==
  IsQuery(job) /\ (\A i \in DOMAIN job.params :
                     job.params[i].ask /\ job.params[i].val = NoVal)
    => touched = {}

(* restsrv.cpp:621, "no ? [...] let man thread the refresh any puts": when  *)
(* a query without '?' was answered, each of its puts is done or stored.    *)
PutsAccepted ==
  stage = "answer" /\ IsQuery(job) /\ (\A i \in DOMAIN job.params :
                                         ~job.params[i].ask)
    => \A i \in DOMAIN job.params :
         LET p == job.params[i] IN
           p.dev \in Devs /\ p.prop # NoProp /\ p.val # NoVal =>
             \/ <<p.dev, p.prop>> \in touched
             \/ /\ p.dev \in DOMAIN pending
                /\ [prop |-> p.prop, val |-> p.val] \in Wrote(pending[p.dev])
=============================================================================
