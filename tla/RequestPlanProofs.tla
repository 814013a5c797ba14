-------------------------- MODULE RequestPlanProofs --------------------------
(***************************************************************************)
(* Proofs about RequestPlan, for any devices and properties and any number *)
(* of parameters, values and requests.                                     *)
(***************************************************************************)
EXTENDS RequestPlan, WellFoundedInduction, SequenceTheorems, TLAPS

Job == Query \cup All \cup Body

(* The calls of web_set_data a request makes, and how many were made.       *)
Calls(j) ==
  IF IsQuery(j) THEN QueryCalls(j.params)
  ELSE IF IsAll(j) THEN AllCalls(j)
  ELSE BodyCalls(j.members)
Done == Len(Calls(job)) - Len(todo)

(* What is still to do is the rest of the calls of the request.             *)
WalkOK ==
  /\ stage \in {"idle", "answer"} => todo = <<>>
  /\ stage \in {"store", "drain"} => todo # <<>>
  /\ stage = "drain" => Head(todo) # NoCall
  /\ stage # "idle" =>
       /\ job \in Job
       /\ Len(todo) <= Len(Calls(job))
       /\ \A k \in 1..Len(todo) : todo[k] = Calls(job)[Done + k]

(* A call was taken when what it reads was read, and when the member it     *)
(* stands for, if no other names its device, has its first setting.         *)
ReadDevs(b) == {d \in DOMAIN b : b[d].read}
Known(i) == job.members[i].dev \in Devs
Alone(i) == Once(job.members, i) /\ Known(i) /\ job.members[i].sets # <<>>
Settled(m) ==
  /\ <<m.dev, m.sets[1].prop>> \in touched
  /\ value[<<m.dev, m.sets[1].prop>>] = m.sets[1].val
Taken(k) ==
  /\ ReadDevs(Calls(job)[k].batch) \subseteq fresh
  /\ IsBody(job) /\ Alone(k) => Settled(job.members[k])

(* What "pass" stands for.  While it is "stored" or "begun", one call of    *)
(* those made, n, is what is pending; the others were taken before it.      *)
PassOK ==
  stage # "idle" =>
    /\ pass = "none" => \A k \in 1..Done : Calls(job)[k] = NoCall
    /\ pass \in {"stored", "begun"} =>
         \E n \in 1..Done : /\ Calls(job)[n] # NoCall /\ pending = Calls(job)[n].batch
                           /\ \A k \in 1..Done : k # n => Taken(k)
    /\ pass = "done" => \A k \in 1..Done : Taken(k)
HandOK ==
  /\ main \in {"loop", "clear"} => visiting = {}
  /\ pass = "stored" => main = "loop"
  /\ pass = "begun" => main = "commit" /\ visiting = Texts(pending)
  /\ pass = "done" => main # "torn"
  /\ pass = "done" /\ main # "clear" => pending = NoBatch /\ visiting = {}

ErrOK == stage # "idle" /\ IsBody(job) => err \in {2, BodyErr(job.members)}

(* Every setting on its way to a device was asked for.                      *)
BatchAsked(b, A) == \A d \in DOMAIN b : \A s \in Wrote(b[d]) : <<d, s.prop, s.val>> \in A
AskedOK ==
  /\ BatchAsked(pending, asked)
  /\ Writes(visiting) \subseteq asked
  /\ \A k \in 1..Len(todo) : BatchAsked(todo[k].batch, asked)

PlanInv == TypeOK /\ WalkOK /\ PassOK /\ HandOK /\ ErrOK /\ AskedOK

-----------------------------------------------------------------------------
(* Data.                                                                   *)

(* A set of positions has a last one.                                       *)
LEMMA LastPosition ==
  ASSUME NEW n \in Nat, NEW T, T \subseteq 1..n, T # {}
  PROVE  \E x \in T : \A y \in T : y <= x
<1> DEFINE R == OpToRel(<, Nat)
           U == {z \in Nat : n - z \in T}
<1>1. PICK t \in T : TRUE
  OBVIOUS
<1>2. n - t \in U
  OBVIOUS
<1>3. U \subseteq Nat /\ U # {}
  BY <1>2
<1> HIDE DEF U
<1>4. PICK x \in U : \A y \in U : ~(<<y, x>> \in R)
  BY <1>3, NatLessThanWellFounded, WFMin
<1>5. ASSUME NEW y \in U PROVE x <= y
  <2>1. x \in Nat /\ y \in Nat
    BY <1>3, <1>4
  <2>2. ~(y < x)
    BY <2>1, <1>4 DEF OpToRel
  <2>3. QED
    BY <2>1, <2>2
<1>6. n - x \in T
  BY DEF U
<1>7. ASSUME NEW y \in T PROVE y <= n - x
  <2>1. n - y \in U
    BY DEF U
  <2>2. x <= n - y /\ x \in Nat
    BY <2>1, <1>5, <1>3
  <2>3. QED
    BY <2>2
<1>8. QED
  BY <1>6, <1>7

LEMMA SmallSeqIs ==
  ASSUME NEW S, NEW s \in SmallSeq(S)
  PROVE  /\ s \in Seq(S) /\ Len(s) \in 0..MaxParams /\ DOMAIN s = 1..Len(s)
         /\ \A i \in 1..Len(s) : s[i] \in S
<1>1. PICK n \in 0..MaxParams : s \in [1..n -> S]
  BY DEF SmallSeq
<1>2. n \in Nat
  BY BoundsAssumption
<1>3. QED
  BY <1>1, <1>2

LEMMA LastNamingIs ==
  ASSUME NEW ps \in SmallSeq(Param), NEW d \in Named(ps)
  PROVE  LastNaming(ps, d) \in 1..Len(ps) /\ ps[LastNaming(ps, d)].dev = d
<1> DEFINE T == {i \in 1..Len(ps) : ps[i].dev = d}
<1>1. DOMAIN ps = 1..Len(ps) /\ Len(ps) \in Nat
  BY SmallSeqIs, BoundsAssumption
<1>2. T # {}
  BY <1>1 DEF Named
<1>3. PICK x \in T : \A y \in T : y <= x
  BY <1>1, <1>2, LastPosition
<1>4. \E i \in DOMAIN ps : ps[i].dev = d /\ \A j \in DOMAIN ps : ps[j].dev = d => j <= i
  BY <1>1, <1>3
<1>5. QED
  BY <1>1, <1>4 DEF LastNaming

LEMMA BatchIs ==
  ASSUME NEW b
  PROVE  b \in Batch <=> b = [d \in DOMAIN b |-> b[d]] /\ DOMAIN b \subseteq Devs
                         /\ \A d \in DOMAIN b : b[d] \in Text
BY DEF Batch

LEMMA NoBatchIs == NoBatch \in Batch /\ DOMAIN NoBatch = {}
BY DEF NoBatch, Batch

LEMMA JobIs ==
  ASSUME NEW j
  PROVE  /\ j \in Query => IsQuery(j) /\ j.params \in SmallSeq(Param) /\ j.params # <<>>
         /\ j \in All => IsAll(j) /\ ~IsQuery(j) /\ j.ask \in BOOLEAN /\ j.category \subseteq Devs
         /\ j \in Body => IsBody(j) /\ ~IsAll(j) /\ ~IsQuery(j) /\ j.members \in SmallSeq(Member)
         /\ j \in Job /\ IsQuery(j) => j \in Query
         /\ j \in Job /\ IsAll(j) => j \in All
         /\ j \in Job /\ IsBody(j) => j \in Body
BY DEF Job, Query, All, Body, IsQuery, IsAll, IsBody

LEMMA FewCalls ==
  ASSUME NEW c \in Call
  PROVE  /\ <<>> \in Seq(Call) /\ Len(<<>>) = 0
         /\ <<c>> \in Seq(Call) /\ Len(<<c>>) = 1 /\ <<c>>[1] = c
OBVIOUS

LEMMA LenNone == ASSUME NEW s, s = <<>> PROVE Len(s) = 0
OBVIOUS

LEMMA BodyNotEmpty ==
  ASSUME NEW s, s # <<>>, DOMAIN s = 1..Len(s), Len(s) \in Nat, NEW i \in DOMAIN s
  PROVE  Len(s) \in 1..Len(s)
OBVIOUS

(* The texts of a query and of a member. *)
LEMMA TextIs ==
  /\ Read \in Text /\ Empty \in Text
  /\ \A p \in Param : MaxParams > 0 => ParamText(p) \in Text
  /\ \A s \in SmallSeq(Setting) : Write(s) \in Text
<1>1. <<>> \in SmallSeq(Setting)
  BY BoundsAssumption DEF SmallSeq
<1>2. Read \in Text /\ Empty \in Text
  BY <1>1 DEF Text, Read, Empty, Setting
<1>3. \A s \in SmallSeq(Setting) : Write(s) \in Text
  BY DEF Text, Write, Setting
<1>4. ASSUME NEW p \in Param, MaxParams > 0, p.prop # NoProp
      PROVE  Write(<<[prop |-> p.prop, val |-> Value(p)]>>) \in Text
  <2>1. p.prop \in Props /\ Value(p) \in Val
    BY <1>4, BoundsAssumption DEF Param, Value, Val, NoVal
  <2>2. [prop |-> p.prop, val |-> Value(p)] \in Setting
    BY <2>1 DEF Setting
  <2>3. <<[prop |-> p.prop, val |-> Value(p)]>> \in [1..1 -> Setting]
    BY <2>2
  <2>4. 1 \in 0..MaxParams
    BY <1>4, BoundsAssumption
  <2>5. <<[prop |-> p.prop, val |-> Value(p)]>> \in SmallSeq(Setting)
    BY <2>3, <2>4 DEF SmallSeq
  <2>6. QED
    BY <2>5, <1>3
<1>5. QED
  BY <1>2, <1>3, <1>4 DEF ParamText

LEMMA QueryBatchIs ==
  ASSUME NEW ps \in SmallSeq(Param), ps # <<>>
  PROVE  /\ QueryBatch(ps) \in Batch /\ DOMAIN QueryBatch(ps) = Named(ps)
         /\ \A d \in Named(ps) : \E i \in 1..Len(ps) :
              ps[i].dev = d /\ QueryBatch(ps)[d] = ParamText(ps[i])
<1>1. /\ Len(ps) \in 0..MaxParams /\ \A i \in 1..Len(ps) : ps[i] \in Param
      /\ ps \in Seq(Param)
  BY SmallSeqIs
<1>2. MaxParams > 0
  BY <1>1, BoundsAssumption
<1>3. \A d \in Named(ps) : LastNaming(ps, d) \in 1..Len(ps) /\ ps[LastNaming(ps, d)].dev = d
  BY LastNamingIs
<1>4. DOMAIN QueryBatch(ps) = Named(ps) /\ Named(ps) \subseteq Devs
  BY DEF QueryBatch, Named
<1>5. \A d \in Named(ps) : QueryBatch(ps)[d] = ParamText(ps[LastNaming(ps, d)])
  BY DEF QueryBatch
<1>6. \A d \in Named(ps) : QueryBatch(ps)[d] \in Text
  BY <1>1, <1>2, <1>3, <1>5, TextIs
<1>7. QueryBatch(ps) \in Batch
  BY <1>4, <1>6 DEF Batch, QueryBatch
<1>8. QED
  BY <1>3, <1>4, <1>5, <1>7

(* Every call of a body is one member's, or none.                           *)
LEMMA BodyCallsIs ==
  ASSUME NEW ms \in SmallSeq(Member)
  PROVE  /\ BodyCalls(ms) \in Seq(Call) /\ Len(BodyCalls(ms)) = Len(ms) /\ Len(ms) \in Nat
         /\ \A i \in 1..Len(ms) : /\ ms[i] \in Member
                                  /\ BodyCalls(ms)[i] = IF ms[i].dev \in Devs THEN MemberCall(ms[i])
                                                        ELSE NoCall
<1>1. Len(ms) \in 0..MaxParams /\ DOMAIN ms = 1..Len(ms) /\ \A i \in 1..Len(ms) : ms[i] \in Member
  BY SmallSeqIs
<1>2. Len(ms) \in Nat
  BY <1>1, BoundsAssumption
<1>3. NoCall \in Call
  BY NoBatchIs DEF NoCall, Call, NotMade
<1>4. ASSUME NEW i \in 1..Len(ms), ms[i].dev \in Devs PROVE MemberCall(ms[i]) \in Call
  <2>1. ms[i] \in Member /\ ms[i].sets \in SmallSeq(Setting)
    BY <1>1 DEF Member
  <2>2. Write(ms[i].sets) \in Text
    BY <2>1, TextIs
  <2> DEFINE D == IF ms[i].object THEN {ms[i].dev} ELSE {}
  <2>3. D \in SUBSET Devs /\ [d \in D |-> Write(ms[i].sets)] \in [D -> Text]
    BY <1>4, <2>2
  <2>5. [d \in D |-> Write(ms[i].sets)] \in Batch
    BY <2>3 DEF Batch
  <2>4. QED
    BY <2>5 DEF MemberCall, Call, NotMade
<1>5. \A i \in 1..Len(ms) : (IF ms[i].dev \in Devs THEN MemberCall(ms[i]) ELSE NoCall) \in Call
  BY <1>3, <1>4
<1>6. BodyCalls(ms) = [i \in 1..Len(ms) |-> IF ms[i].dev \in Devs THEN MemberCall(ms[i]) ELSE NoCall]
  BY <1>1 DEF BodyCalls
<1>7. BodyCalls(ms) \in [1..Len(ms) -> Call]
  BY <1>5, <1>6
<1>8. QED
  BY <1>1, <1>2, <1>6, <1>7

LEMMA CallsIs ==
  ASSUME NEW j \in Job
  PROVE  Calls(j) \in Seq(Call) /\ Len(Calls(j)) \in Nat
<1>1. CASE j \in Query
  <2>1. j.params \in SmallSeq(Param) /\ j.params # <<>> /\ Calls(j) = QueryCalls(j.params)
    BY <1>1, JobIs DEF Calls
  <2>2. Len(j.params) \in 1..Len(j.params) /\ j.params[Len(j.params)] \in Param
    BY <2>1, SmallSeqIs, BoundsAssumption
  <2>3. Refresh(j.params[Len(j.params)]) \in {-1, 0, 1}
    BY DEF Refresh
  <2>4. QueryBatch(j.params) \in Batch
    BY <2>1, QueryBatchIs
  <2> DEFINE c == [batch |-> QueryBatch(j.params), apply |-> Refresh(j.params[Len(j.params)])]
  <2>5. c \in Call
    BY <2>3, <2>4 DEF Call, NotMade
  <2>6. Calls(j) = <<>> \/ Calls(j) = <<c>>
    BY <2>1 DEF QueryCalls
  <2> HIDE DEF c
  <2>7. QED
    BY <2>5, <2>6, FewCalls
<1>2. CASE j \in All
  <2>1. j.ask \in BOOLEAN /\ j.category \subseteq Devs /\ Calls(j) = AllCalls(j)
    BY <1>2, JobIs DEF Calls
  <2>2. [d \in j.category |-> Read] \in Batch
    BY <2>1, TextIs DEF Batch
  <2> DEFINE c == [batch |-> [d \in j.category |-> Read], apply |-> 1]
  <2>3. c \in Call
    BY <2>2 DEF Call, NotMade
  <2>4. Calls(j) = <<>> \/ Calls(j) = <<c>>
    BY <2>1 DEF AllCalls
  <2> HIDE DEF c
  <2>5. QED
    BY <2>3, <2>4, FewCalls
<1>3. CASE j \in Body
  BY <1>3, JobIs, BodyCallsIs DEF Calls
<1>4. QED
  BY <1>1, <1>2, <1>3 DEF Job

-----------------------------------------------------------------------------
(* A request asks for every setting its calls hold.                        *)

Sane == Devs \X Props \X Val

LEMMA WroteIs ==
  /\ Wrote(Read) = {} /\ Wrote(Empty) = {}
  /\ \A s : Wrote(Write(s)) = IF s = <<>> THEN {} ELSE {s[1]}
BY DEF Wrote, Read, Empty, Write

AskedByQuery(ps) == {<<p.dev, p.prop, Value(p)>> : p \in {ps[i] : i \in DOMAIN ps}}
AskedByBody(ms) ==
  UNION {{<<m.dev, m.sets[k].prop, m.sets[k].val>> : k \in DOMAIN m.sets} :
           m \in {ms[i] : i \in DOMAIN ms}}

LEMMA QueryAsked ==
  ASSUME NEW ps \in SmallSeq(Param), ps # <<>>, NEW k \in 1..Len(QueryCalls(ps))
  PROVE  BatchAsked(QueryCalls(ps)[k].batch, AskedByQuery(ps) \cap Sane)
<1>1. QueryCalls(ps)[k].batch = QueryBatch(ps)
  BY DEF QueryCalls
<1>2. SUFFICES ASSUME NEW d \in Named(ps), NEW s \in Wrote(QueryBatch(ps)[d])
               PROVE  <<d, s.prop, s.val>> \in AskedByQuery(ps) \cap Sane
  BY <1>1, QueryBatchIs DEF BatchAsked
<1>3. PICK i \in 1..Len(ps) : ps[i].dev = d /\ QueryBatch(ps)[d] = ParamText(ps[i])
  BY QueryBatchIs
<1>4. ps[i] \in Param /\ DOMAIN ps = 1..Len(ps) /\ d \in Devs
  BY SmallSeqIs DEF Named
<1>5. /\ ps[i].prop # NoProp
      /\ Wrote(QueryBatch(ps)[d]) =
           {<<[prop |-> ps[i].prop, val |-> Value(ps[i])]>>[1]}
  BY <1>3, WroteIs DEF ParamText
<1>6. s.prop = ps[i].prop /\ s.val = Value(ps[i])
  BY <1>5
<1>7. ps[i].prop \in Props /\ Value(ps[i]) \in Val
  BY <1>4, <1>5, BoundsAssumption DEF Param, Value, Val, NoVal
<1>8. <<d, ps[i].prop, Value(ps[i])>> \in AskedByQuery(ps)
  BY <1>3, <1>4 DEF AskedByQuery
<1>9. QED
  BY <1>4, <1>6, <1>7, <1>8 DEF Sane

LEMMA BodyAsked ==
  ASSUME NEW ms \in SmallSeq(Member), NEW k \in 1..Len(BodyCalls(ms))
  PROVE  BatchAsked(BodyCalls(ms)[k].batch, AskedByBody(ms) \cap Sane)
<1>1. /\ ms[k] \in Member /\ k \in DOMAIN ms
      /\ BodyCalls(ms)[k] = IF ms[k].dev \in Devs THEN MemberCall(ms[k]) ELSE NoCall
  BY BodyCallsIs, SmallSeqIs
<1>2. CASE ms[k].dev \notin Devs
  BY <1>1, <1>2, NoBatchIs DEF BatchAsked, NoCall
<1>3. CASE ms[k].dev \in Devs
  <2>1. BodyCalls(ms)[k].batch = [d \in IF ms[k].object THEN {ms[k].dev} ELSE {} |-> Write(ms[k].sets)]
    BY <1>1, <1>3 DEF MemberCall
  <2>2. SUFFICES ASSUME NEW s \in Wrote(Write(ms[k].sets))
                 PROVE  <<ms[k].dev, s.prop, s.val>> \in AskedByBody(ms) \cap Sane
    BY <2>1 DEF BatchAsked
  <2>3. ms[k].sets # <<>> /\ s = ms[k].sets[1]
    BY WroteIs
  <2>4. /\ ms[k].sets \in Seq(Setting) /\ DOMAIN ms[k].sets = 1..Len(ms[k].sets)
        /\ \A i \in 1..Len(ms[k].sets) : ms[k].sets[i] \in Setting
    BY <1>1, SmallSeqIs DEF Member
  <2>5. 1 \in DOMAIN ms[k].sets
    BY <2>3, <2>4
  <2>6. s \in Setting
    BY <2>3, <2>4, <2>5
  <2>7. <<ms[k].dev, s.prop, s.val>> \in Sane
    BY <1>3, <2>6 DEF Sane, Setting
  <2>8. <<ms[k].dev, s.prop, s.val>> \in AskedByBody(ms)
    BY <1>1, <2>3, <2>5 DEF AskedByBody
  <2>9. QED
    BY <2>7, <2>8
<1>4. QED
  BY <1>2, <1>3

(* The four kinds of requests begin alike. *)
Begins(j, e, A) ==
  /\ stage = "idle" /\ Begin(j, IF IsQuery(j) THEN j.params ELSE IF IsBody(j) THEN j.members ELSE <<>>,
                             Calls(j), e, A)
  /\ IsBody(j) => e \in {2, BodyErr(j.members)}
  /\ \A k \in 1..Len(Calls(j)) : BatchAsked(Calls(j)[k].batch, A \cap Sane)

LEMMA RequestBegins ==
  ASSUME GetQuery \/ GetAll \/ Post \/ PostBroken
  PROVE  \E j \in Job, e \in {0, 2, 3, 4} : \E A : Begins(j, e, A)
<1>1. CASE GetQuery
  <2>1. PICK j \in Query : Waiting /\ Begin(j, j.params, QueryCalls(j.params), 0, AskedByQuery(j.params))
    BY <1>1 DEF GetQuery, AskedByQuery
  <2>2. /\ Calls(j) = QueryCalls(j.params) /\ j.params \in SmallSeq(Param)
        /\ j.params # <<>> /\ j \in Job /\ ~IsBody(j) /\ IsQuery(j)
    BY JobIs DEF Calls, Job, IsBody, Query
  <2>3. Begins(j, 0, AskedByQuery(j.params))
    BY <2>1, <2>2, QueryAsked DEF Begins, Waiting
  <2>4. QED
    BY <2>2, <2>3
<1>2. CASE GetAll
  <2>1. PICK j \in All : Waiting /\ Begin(j, <<>>, AllCalls(j), 0, {})
    BY <1>2 DEF GetAll
  <2>2. Calls(j) = AllCalls(j) /\ j \in Job /\ ~IsBody(j) /\ ~IsQuery(j)
    BY JobIs DEF Calls, Job, IsBody, All
  <2>3. ASSUME NEW k \in 1..Len(Calls(j)) PROVE BatchAsked(Calls(j)[k].batch, {} \cap Sane)
    <3>1. Calls(j)[k].batch = [d \in j.category |-> Read]
      BY <2>2 DEF AllCalls
    <3>2. QED
      BY <3>1, WroteIs DEF BatchAsked
  <2>4. Begins(j, 0, {})
    BY <2>1, <2>2, <2>3 DEF Begins, Waiting
  <2>5. QED
    BY <2>2, <2>4
<1>3. CASE Post
  <2>1. PICK j \in Body : Waiting /\ Begin(j, j.members, BodyCalls(j.members), BodyErr(j.members),
                                          AskedByBody(j.members))
    BY <1>3 DEF Post, AskedByBody
  <2>2. /\ Calls(j) = BodyCalls(j.members) /\ j \in Job /\ j.members \in SmallSeq(Member)
        /\ IsBody(j) /\ ~IsQuery(j)
    BY JobIs DEF Calls, Job
  <2>3. Begins(j, BodyErr(j.members), AskedByBody(j.members))
    BY <2>1, <2>2, BodyAsked DEF Begins, Waiting
  <2>4. BodyErr(j.members) \in {0, 2, 3, 4}
    BY DEF BodyErr
  <2>5. QED
    BY <2>2, <2>3, <2>4
<1>4. CASE PostBroken
  <2> DEFINE j == [members |-> <<>>]
  <2>1. <<>> \in SmallSeq(Member)
    BY BoundsAssumption DEF SmallSeq
  <2>2. j \in Body /\ j.members = <<>>
    BY <2>1 DEF Body
  <2>3. Waiting /\ Begin(j, j.members, <<>>, 2, {})
    BY <1>4 DEF PostBroken
  <2> HIDE DEF j
  <2>4. /\ Calls(j) = BodyCalls(j.members) /\ j \in Job /\ IsBody(j) /\ ~IsQuery(j)
    BY <2>2, JobIs DEF Calls, Job
  <2>5. BodyCalls(j.members) \in Seq(Call) /\ Len(BodyCalls(j.members)) = Len(<<>>)
    BY <2>1, <2>2, BodyCallsIs
  <2>6. Calls(j) = <<>> /\ Len(Calls(j)) = 0
    BY <2>4, <2>5
  <2>7. Begins(j, 2, {})
    BY <2>3, <2>4, <2>6 DEF Begins, Waiting
  <2>8. QED
    BY <2>4, <2>7
<1>5. QED
  BY <1>1, <1>2, <1>3, <1>4

(* Which members of a body have a call of their own. *)
LEMMA BodyStep ==
  ASSUME job \in Job, IsBody(job), NEW i \in 1..Len(Calls(job))
  PROVE  /\ i \in DOMAIN job.members /\ DOMAIN job.members = 1..Len(Calls(job))
         /\ job.members[i] \in Member
         /\ Known(i) <=> Calls(job)[i] # NoCall
         /\ Alone(i) => Calls(job)[i].batch = [d \in {job.members[i].dev} |-> Write(job.members[i].sets)]
         /\ Known(i) => DOMAIN Calls(job)[i].batch \subseteq {job.members[i].dev}
<1>1. Calls(job) = BodyCalls(job.members) /\ job.members \in SmallSeq(Member)
  BY JobIs DEF Calls
<1>2. /\ Len(Calls(job)) = Len(job.members) /\ job.members[i] \in Member
      /\ Calls(job)[i] = IF Known(i) THEN MemberCall(job.members[i]) ELSE NoCall
      /\ DOMAIN job.members = 1..Len(job.members)
  BY <1>1, BodyCallsIs, SmallSeqIs DEF Known
<1> DEFINE m == job.members[i]
<1>3. m.object \/ m.sets = <<>>
  BY <1>2 DEF Member
<1>4. ASSUME Known(i)
      PROVE  /\ Calls(job)[i].batch = [d \in IF m.object THEN {m.dev} ELSE {} |-> Write(m.sets)]
             /\ Calls(job)[i].apply \in {0, 1}
  BY <1>2, <1>4 DEF MemberCall
<1>5. Known(i) => Calls(job)[i] # NoCall
  <2>1. NoCall.apply = -2
    BY DEF NoCall, NotMade
  <2>2. QED
    BY <1>4, <2>1
<1>6. Alone(i) => Known(i) /\ m.object
  BY <1>3 DEF Alone
<1>7. QED
  BY <1>2, <1>4, <1>5, <1>6

-----------------------------------------------------------------------------
(* Types, and the walk through the calls.                                  *)

LEMMA QueueIs ==
  ASSUME TypeOK, WalkOK
  PROVE  /\ todo \in Seq(Call) /\ Len(todo) \in Nat
         /\ stage # "idle" =>
              /\ job \in Job /\ Calls(job) \in Seq(Call) /\ Len(Calls(job)) \in Nat
              /\ Done \in 0..Len(Calls(job)) /\ Len(todo) = Len(Calls(job)) - Done
         /\ stage \in {"store", "drain"} =>
              /\ Len(todo) > 0 /\ Done + 1 \in 1..Len(Calls(job))
              /\ Head(todo) = Calls(job)[Done + 1] /\ Head(todo) \in Call
              /\ Tail(todo) \in Seq(Call) /\ Len(Tail(todo)) = Len(todo) - 1
              /\ \A k \in 1..Len(Tail(todo)) : k + 1 \in 1..Len(todo) /\ Tail(todo)[k] = todo[k + 1]
         /\ stage = "answer" => Done = Len(Calls(job))
<1>1. todo \in Seq(Call) /\ Len(todo) \in Nat
  BY DEF TypeOK
<1>2. ASSUME stage # "idle"
      PROVE  /\ job \in Job /\ Calls(job) \in Seq(Call) /\ Len(Calls(job)) \in Nat
             /\ Done \in 0..Len(Calls(job)) /\ Len(todo) = Len(Calls(job)) - Done
  <2>1. job \in Job /\ Len(todo) <= Len(Calls(job))
    BY <1>2 DEF WalkOK
  <2>2. Calls(job) \in Seq(Call) /\ Len(Calls(job)) \in Nat
    BY <2>1, CallsIs
  <2>3. QED
    BY <1>1, <2>1, <2>2 DEF Done
<1>3. ASSUME stage \in {"store", "drain"}
      PROVE  /\ Len(todo) > 0 /\ Done + 1 \in 1..Len(Calls(job))
             /\ Head(todo) = Calls(job)[Done + 1] /\ Head(todo) \in Call
             /\ Tail(todo) \in Seq(Call) /\ Len(Tail(todo)) = Len(todo) - 1
             /\ \A k \in 1..Len(Tail(todo)) : k + 1 \in 1..Len(todo) /\ Tail(todo)[k] = todo[k + 1]
  <2>1. todo # <<>>
    BY <1>3 DEF WalkOK
  <2>2. Len(todo) > 0
    BY <1>1, <2>1
  <2>3. Head(todo) = todo[1] /\ Head(todo) \in Call
    BY <1>1, <2>1, <2>2
  <2>4. todo[1] = Calls(job)[Done + 1]
    BY <1>1, <1>3, <2>2 DEF WalkOK
  <2>5. Done + 1 \in 1..Len(Calls(job))
    BY <1>2, <1>3, <2>2
  <2>6. /\ Tail(todo) \in Seq(Call) /\ Len(Tail(todo)) = Len(todo) - 1
        /\ \A k \in 1..Len(Tail(todo)) : k + 1 \in 1..Len(todo) /\ Tail(todo)[k] = todo[k + 1]
    BY <1>1, <2>1
  <2>7. QED
    BY <2>2, <2>3, <2>4, <2>5, <2>6
<1>4. ASSUME stage = "answer" PROVE Done = Len(Calls(job))
  <2>1. Len(todo) = 0
    BY <1>4 DEF WalkOK
  <2>2. QED
    BY <1>2, <1>4, <2>1
<1>5. QED
  BY <1>1, <1>2, <1>3, <1>4

(* The writes of the texts of a batch, and of any texts.                    *)
LEMMA WritesIs ==
  ASSUME NEW S, NEW d, NEW p, NEW v
  PROVE  <<d, p, v>> \in Writes(S) <=>
           \E t \in S : \E s \in Wrote(t[2]) : d = t[1] /\ p = s.prop /\ v = s.val
<1> DEFINE W(t) == {<<t[1], s.prop, s.val>> : s \in Wrote(t[2])}
<1>1. \A t : <<d, p, v>> \in W(t) <=> \E s \in Wrote(t[2]) : d = t[1] /\ p = s.prop /\ v = s.val
  OBVIOUS
<1>2. Writes(S) = UNION {W(t) : t \in S}
  BY DEF Writes
<1> HIDE DEF W
<1>3. <<d, p, v>> \in Writes(S) <=> \E t \in S : <<d, p, v>> \in W(t)
  BY <1>2
<1>4. QED
  BY <1>1, <1>3

LEMMA TextsWrite ==
  ASSUME NEW b, NEW d, NEW p, NEW v
  PROVE  <<d, p, v>> \in Writes(Texts(b)) <=>
           d \in DOMAIN b /\ \E s \in Wrote(b[d]) : p = s.prop /\ v = s.val
<1>1. ASSUME NEW t \in Texts(b), NEW s \in Wrote(t[2]), d = t[1], p = s.prop, v = s.val
      PROVE  d \in DOMAIN b /\ \E r \in Wrote(b[d]) : p = r.prop /\ v = r.val
  <2>1. PICK e \in DOMAIN b : t = <<e, b[e]>>
    BY DEF Texts
  <2>2. t[1] = e /\ t[2] = b[e]
    BY <2>1
  <2>3. QED
    BY <1>1, <2>2
<1>2. ASSUME d \in DOMAIN b, NEW s \in Wrote(b[d]), p = s.prop, v = s.val
      PROVE  \E t \in Texts(b) : \E r \in Wrote(t[2]) : d = t[1] /\ p = r.prop /\ v = r.val
  <2> DEFINE t == <<d, b[d]>>
  <2>1. t \in Texts(b) /\ t[1] = d /\ t[2] = b[d]
    BY <1>2 DEF Texts
  <2> HIDE DEF t
  <2>2. QED
    BY <1>2, <2>1
<1>3. QED
  BY <1>1, <1>2, WritesIs

LEMMA TextTyped ==
  ASSUME NEW t \in Text, NEW s \in Wrote(t)
  PROVE  s \in Setting
<1>1. t.sets \in SmallSeq(Setting) /\ t.sets # <<>> /\ s = t.sets[1]
  BY DEF Text, Setting, Wrote
<1>2. t.sets \in Seq(Setting) /\ \A i \in 1..Len(t.sets) : t.sets[i] \in Setting
  BY <1>1, SmallSeqIs
<1>3. 1 \in 1..Len(t.sets)
  BY <1>1, <1>2
<1>4. QED
  BY <1>1, <1>2, <1>3

LEMMA TextsTyped == ASSUME NEW b \in Batch PROVE Texts(b) \subseteq Devs \X Text
<1>1. DOMAIN b \subseteq Devs /\ \A d \in DOMAIN b : b[d] \in Text
  BY BatchIs
<1>2. QED
  BY <1>1 DEF Texts

LEMMA WritesTyped ==
  ASSUME NEW S, S \subseteq Devs \X Text, NEW w \in Writes(S)
  PROVE  /\ \E d \in Devs, p \in Props, v \in Val : w = <<d, p, v>>
         /\ <<w[1], w[2]>> \in Devs \X Props
<1> DEFINE W(t) == {<<t[1], s.prop, s.val>> : s \in Wrote(t[2])}
<1>1. Writes(S) = UNION {W(t) : t \in S}
  BY DEF Writes
<1>2. \A t, x : x \in W(t) => \E s \in Wrote(t[2]) : x = <<t[1], s.prop, s.val>>
  OBVIOUS
<1> HIDE DEF W
<1>3. PICK t \in S : w \in W(t)
  BY <1>1
<1>4. PICK s \in Wrote(t[2]) : w = <<t[1], s.prop, s.val>>
  BY <1>2, <1>3
<1>5. t[1] \in Devs /\ t[2] \in Text
  OBVIOUS
<1>6. s \in Setting
  BY <1>5, TextTyped
<1>7. s.prop \in Props /\ s.val \in Val
  BY <1>6 DEF Setting
<1>8. QED
  BY <1>4, <1>5, <1>7

(* The end of an iteration: each property takes a value written, if any is. *)
CommitOf(seen) ==
  /\ seen \subseteq visiting /\ (main = "commit" => seen = visiting)
  /\ value' \in [Devs \X Props -> Val]
  /\ \A d \in Devs, p \in Props :
       LET new == {v \in Val : <<d, p, v>> \in Writes(seen)}
       IN value'[<<d, p>>] \in IF new = {} THEN {value[<<d, p>>]} ELSE new
  /\ touched' = touched \cup {<<w[1], w[2]>> : w \in Writes(seen)}
  /\ fresh' = fresh \cup {d \in Devs : \E t \in seen : t[1] = d /\ t[2].read}

LEMMA CommitWrites ==
  ASSUME TypeOK, NEW seen, CommitOf(seen)
  PROVE  /\ \A d \in Devs, p \in Props :
              \/ /\ value'[<<d, p>>] = value[<<d, p>>]
                 /\ \A v \in Val : <<d, p, v>> \notin Writes(seen)
              \/ <<d, p, value'[<<d, p>>]>> \in Writes(seen)
         /\ \A d, p, v : <<d, p, v>> \in Writes(seen) => <<d, p>> \in touched'
         /\ touched \subseteq touched' /\ touched' \subseteq Devs \X Props
         /\ fresh \subseteq fresh' /\ fresh' \subseteq Devs
<1>1. ASSUME NEW d \in Devs, NEW p \in Props
      PROVE  \/ /\ value'[<<d, p>>] = value[<<d, p>>]
                /\ \A v \in Val : <<d, p, v>> \notin Writes(seen)
             \/ <<d, p, value'[<<d, p>>]>> \in Writes(seen)
  <2> DEFINE new == {v \in Val : <<d, p, v>> \in Writes(seen)}
  <2>1. value'[<<d, p>>] \in IF new = {} THEN {value[<<d, p>>]} ELSE new
    BY DEF CommitOf
  <2>2. CASE new = {}
    BY <2>1, <2>2
  <2>3. CASE new # {}
    BY <2>1, <2>3
  <2>4. QED
    BY <2>2, <2>3
<1>2. ASSUME NEW d, NEW p, NEW v, <<d, p, v>> \in Writes(seen) PROVE <<d, p>> \in touched'
  <2> DEFINE w == <<d, p, v>>
  <2>1. w \in Writes(seen) /\ w[1] = d /\ w[2] = p
    BY <1>2
  <2> HIDE DEF w
  <2>2. QED
    BY <2>1 DEF CommitOf
<1>3. seen \subseteq Devs \X Text /\ touched \subseteq Devs \X Props /\ fresh \subseteq Devs
  BY DEF TypeOK, CommitOf
<1>4. \A w \in Writes(seen) : <<w[1], w[2]>> \in Devs \X Props
  BY <1>3, WritesTyped
<1>5. touched \subseteq touched' /\ touched' \subseteq Devs \X Props
  BY <1>3, <1>4 DEF CommitOf
<1>6. fresh \subseteq fresh' /\ fresh' \subseteq Devs
  BY <1>3 DEF CommitOf
<1>7. QED
  BY <1>1, <1>2, <1>5, <1>6

(* With nothing to come by it changes nothing. *)
LEMMA CommitNothing ==
  ASSUME TypeOK, NEW seen, CommitOf(seen), seen = {}
  PROVE  value' = value
<1>1. ASSUME NEW d \in Devs, NEW p \in Props PROVE value'[<<d, p>>] = value[<<d, p>>]
  <2>1. \A v : <<d, p, v>> \notin Writes(seen)
    BY WritesIs
  <2>2. QED
    BY <2>1, CommitWrites
<1>2. value \in [Devs \X Props -> Val] /\ value' \in [Devs \X Props -> Val]
  BY DEF TypeOK, CommitOf
<1>3. \A x \in Devs \X Props : value'[x] = value[x]
  <2>1. TAKE x \in Devs \X Props
  <2>2. PICK d \in Devs, p \in Props : x = <<d, p>>
    OBVIOUS
  <2>3. QED
    BY <1>1, <2>2
<1>4. QED
  BY <1>2, <1>3

-----------------------------------------------------------------------------
(* How each action moves through the calls.                                *)

LEMMA BeginMoves ==
  ASSUME TypeOK, WalkOK, NEW j \in Job, NEW e \in {0, 2, 3, 4}, NEW A, Begins(j, e, A)
  PROVE  /\ TypeOK' /\ WalkOK' /\ Done' = 0 /\ todo' = Calls(j) /\ job' = j /\ err' = e
         /\ pass' = "none" /\ asked' = asked \cup (A \cap Sane)
         /\ stage' # "idle" /\ UNCHANGED <<pending, main, visiting>>
<1> DEFINE s == IF IsQuery(j) THEN j.params ELSE IF IsBody(j) THEN j.members ELSE <<>>
<1>1. /\ stage = "idle" /\ parts + Parts(s) <= MaxParts /\ parts' = parts + Parts(s)
      /\ job' = j /\ todo' = Calls(j) /\ err' = e /\ pass' = "none" /\ fresh' = {} /\ touched' = {}
      /\ asked' = asked \cup (A \cap Sane)
      /\ stage' = IF Calls(j) = <<>> THEN "answer" ELSE "store"
      /\ UNCHANGED <<pending, ready, main, visiting, value>>
  BY DEF Begins, Begin, Sane
<1>2. Calls(j) \in Seq(Call) /\ Len(Calls(j)) \in Nat
  BY CallsIs
<1>3. Done' = 0
  BY <1>1, <1>2 DEF Done
<1>4. Parts(s) \in Nat
  <2>1. s = <<>> \/ (\E S : s \in SmallSeq(S))
    BY JobIs
  <2>2. s = <<>> \/ Len(s) \in Nat
    BY <2>1, SmallSeqIs, BoundsAssumption
  <2> HIDE DEF s
  <2>3. QED
    BY <2>2 DEF Parts
<1> HIDE DEF s
<1>5. parts' \in 0..MaxParts
  BY <1>1, <1>4, BoundsAssumption DEF TypeOK
<1>6. TypeOK'
  <2>1. job' \in Query \cup All \cup Body \cup Idle
    BY <1>1 DEF Job
  <2>2. QED
    BY <1>1, <1>2, <1>5, <2>1 DEF TypeOK, Sane
<1>7. WalkOK'
  BY <1>1, <1>2, <1>3 DEF WalkOK
<1>8. QED
  BY <1>1, <1>3, <1>6, <1>7

(* Store and PassOver make the next call.                                   *)
Walks == Store \/ PassOver

LEMMA WalkMoves ==
  ASSUME TypeOK, WalkOK, Walks
  PROVE  /\ TypeOK' /\ WalkOK' /\ Done' = Done + 1 /\ Done + 1 \in 1..Len(Calls(job))
         /\ stage # "idle" /\ stage' # "idle"
         /\ Head(todo) = Calls(job)[Done + 1] /\ todo' = Tail(todo)
         /\ UNCHANGED <<job, value, err, fresh, touched, asked>>
         /\ Store => Head(todo) # NoCall /\ Assigned(Calls(job)[Done + 1].batch)
         /\ PassOver => Head(todo) = NoCall /\ UNCHANGED <<pending, main, visiting, pass>>
<1>1. /\ stage \in {"store", "drain"} /\ todo' = Tail(todo)
      /\ UNCHANGED <<job, value, err, fresh, touched, asked, parts>>
      /\ stage' \in {"wait", Onward(Tail(todo))}
      /\ ready' \in BOOLEAN
  BY DEF Walks, Store, PassOver, TypeOK, history
<1>2. /\ Len(todo) > 0 /\ Done + 1 \in 1..Len(Calls(job)) /\ Len(todo) \in Nat
      /\ Head(todo) = Calls(job)[Done + 1] /\ Head(todo) \in Call
      /\ Tail(todo) \in Seq(Call) /\ Len(Tail(todo)) = Len(todo) - 1
      /\ \A k \in 1..Len(Tail(todo)) : k + 1 \in 1..Len(todo) /\ Tail(todo)[k] = todo[k + 1]
      /\ Len(Calls(job)) \in Nat /\ Done \in Nat /\ job \in Job
      /\ Len(todo) = Len(Calls(job)) - Done
  BY <1>1, QueueIs
<1>3. Calls(job)' = Calls(job)
  BY <1>1 DEF Calls
<1>4. Done' = Done + 1
  BY <1>1, <1>2, <1>3 DEF Done
<1>5. /\ Store => Head(todo) # NoCall /\ Assigned(Head(todo).batch)
      /\ PassOver => Head(todo) = NoCall /\ UNCHANGED <<pending, main, visiting, pass>>
  BY <1>1 DEF Store, PassOver, WalkOK
<1>6. stage' \in {"wait", "answer", "store"}
  BY <1>1 DEF Onward
<1>7. /\ pending' \in Batch /\ main' \in {"loop", "commit", "torn", "clear"}
      /\ visiting' \subseteq Devs \X Text /\ pass' \in {"none", "stored", "begun", "done", "raced"}
  <2>1. Head(todo).batch \in Batch /\ Texts(Head(todo).batch) \subseteq Devs \X Text
    BY <1>2, TextsTyped DEF Call
  <2>2. CASE Store
    BY <1>5, <2>1, <2>2 DEF Assigned, TypeOK
  <2>3. CASE PassOver
    BY <1>5, <2>3 DEF TypeOK
  <2>4. QED
    BY <2>2, <2>3 DEF Walks
<1>8. TypeOK'
  BY <1>1, <1>2, <1>6, <1>7 DEF TypeOK
<1>9. WalkOK'
  <2>1. \A k \in 1..Len(todo') : todo'[k] = Calls(job)[Done' + k]
    <3>1. SUFFICES ASSUME NEW k \in 1..Len(Tail(todo)) PROVE Tail(todo)[k] = Calls(job)[Done + 1 + k]
      BY <1>1, <1>4
    <3>2. todo[k + 1] = Calls(job)[Done + (k + 1)]
      BY <1>1, <1>2 DEF WalkOK
    <3>3. QED
      BY <1>2, <3>2
  <2>2. Len(todo') <= Len(Calls(job))
    BY <1>1, <1>2
  <2>3. stage' = "store" => todo' # <<>>
    BY <1>1 DEF Onward
  <2>4. stage' = "answer" => todo' = <<>>
    BY <1>1 DEF Onward
  <2>5. QED
    BY <1>1, <1>2, <1>3, <1>6, <2>1, <2>2, <2>3, <2>4 DEF WalkOK
<1>10. QED
  BY <1>1, <1>2, <1>4, <1>5, <1>6, <1>8, <1>9

(* Every other action leaves the calls alone.                               *)
Stands ==
  /\ UNCHANGED <<job, todo, err, asked>>
  /\ (stage' = "idle" <=> stage = "idle")

LEMMA StandsWalk ==
  ASSUME TypeOK, WalkOK, Stands,
         Drain \/ WaitEnds \/ CommitBegins \/ CommitEnds \/ Clears \/ Notify
  PROVE  WalkOK' /\ Done' = Done /\ Calls(job)' = Calls(job)
<1>1. /\ UNCHANGED <<job, todo>> /\ Calls(job)' = Calls(job) /\ Done' = Done
  BY DEF Stands, Calls, Done
<1>2. CASE Drain
  BY <1>1, <1>2 DEF Drain, WalkOK
<1>3. CASE WaitEnds
  BY <1>1, <1>3 DEF WaitEnds, Onward, WalkOK
<1>4. CASE CommitBegins \/ CommitEnds \/ Clears \/ Notify
  <2>1. stage' = stage
    BY <1>4 DEF CommitBegins, CommitEnds, Clears, Notify
  <2>2. QED
    BY <1>1, <2>1 DEF WalkOK
<1>5. QED
  BY <1>1, <1>2, <1>3, <1>4

-----------------------------------------------------------------------------
(* What each action does to the rest of the invariant.                     *)

LEMMA BeginKeeps ==
  ASSUME PlanInv, NEW j \in Job, NEW e \in {0, 2, 3, 4}, NEW A, Begins(j, e, A)
  PROVE  PlanInv'
<1>1. /\ TypeOK' /\ WalkOK' /\ Done' = 0 /\ todo' = Calls(j) /\ job' = j /\ err' = e
      /\ pass' = "none" /\ asked' = asked \cup (A \cap Sane)
      /\ stage' # "idle" /\ UNCHANGED <<pending, main, visiting>>
  BY BeginMoves DEF PlanInv
<1>2. PassOK'
  <2>1. 1..Done' = {}
    BY <1>1
  <2>2. QED
    BY <1>1, <2>1 DEF PassOK
<1>3. HandOK'
  BY <1>1 DEF PlanInv, HandOK
<1>4. ErrOK'
  BY <1>1 DEF ErrOK, Begins
<1>5. AskedOK'
  <2>1. BatchAsked(pending, asked) /\ Writes(visiting) \subseteq asked
    BY DEF PlanInv, AskedOK
  <2>2. BatchAsked(pending', asked') /\ Writes(visiting') \subseteq asked'
    BY <1>1, <2>1 DEF BatchAsked
  <2>3. \A k \in 1..Len(todo') : BatchAsked(todo'[k].batch, asked')
    BY <1>1 DEF Begins, BatchAsked
  <2>4. QED
    BY <2>2, <2>3 DEF AskedOK
<1>6. QED
  BY <1>1, <1>2, <1>3, <1>4, <1>5 DEF PlanInv

(* A call not made has nothing to take.                                     *)
LEMMA NoCallTaken ==
  ASSUME job \in Job, NEW k \in 1..Len(Calls(job)), Calls(job)[k] = NoCall
  PROVE  Taken(k)
<1>1. ReadDevs(Calls(job)[k].batch) = {}
  BY NoBatchIs DEF NoCall, ReadDevs
<1>2. IsBody(job) => ~Known(k)
  BY BodyStep
<1>3. QED
  BY <1>1, <1>2 DEF Taken, Alone

LEMMA TakenStays ==
  ASSUME UNCHANGED <<job, value, fresh, touched>>
  PROVE  \A k : Taken(k)' <=> Taken(k)
<1>1. TAKE k
<1>2. Calls(job)' = Calls(job) /\ (IsBody(job)' <=> IsBody(job)) /\ (Alone(k)' <=> Alone(k))
  BY DEF Calls, Alone, Known
<1>3. Settled(job.members[k])' <=> Settled(job.members[k])
  BY DEF Settled
<1>4. QED
  BY <1>2, <1>3 DEF Taken

LEMMA WalkKeeps ==
  ASSUME PlanInv, Walks
  PROVE  PlanInv'
<1> DEFINE c == Calls(job)[Done + 1]
<1>1. /\ TypeOK' /\ WalkOK' /\ Done' = Done + 1 /\ Done + 1 \in 1..Len(Calls(job))
      /\ stage # "idle" /\ stage' # "idle" /\ Head(todo) = c /\ todo' = Tail(todo)
      /\ UNCHANGED <<job, value, err, fresh, touched, asked>>
      /\ Store => c # NoCall /\ Assigned(c.batch)
      /\ PassOver => c = NoCall /\ UNCHANGED <<pending, main, visiting, pass>>
  BY WalkMoves DEF PlanInv
<1>2. Calls(job)' = Calls(job) /\ job \in Job /\ Done \in Nat /\ Len(Calls(job)) \in Nat
  BY <1>1, QueueIs DEF Calls, PlanInv
<1>3. stage \in {"store", "drain"}
  BY DEF Walks, Store, PassOver
<1>4. \A k : Taken(k)' <=> Taken(k)
  BY <1>1, TakenStays
<1> HIDE DEF c
<1>5. Calls(job)'[Done + 1] = c
  BY <1>2 DEF c
<1>6. 1..(Done + 1) = (1..Done) \cup {Done + 1} /\ Done + 1 \notin 1..Done /\ 1..Done \subseteq 1..Len(Calls(job))
  BY <1>1, <1>2
<1>7. PassOK'
  <2>1. SUFFICES
          /\ pass' = "none" => \A k \in 1..(Done + 1) : Calls(job)[k] = NoCall
          /\ pass' \in {"stored", "begun"} =>
               \E n \in 1..(Done + 1) : /\ Calls(job)[n] # NoCall /\ pending' = Calls(job)[n].batch
                                       /\ \A k \in 1..(Done + 1) : k # n => Taken(k)
          /\ pass' = "done" => \A k \in 1..(Done + 1) : Taken(k)
    BY <1>1, <1>2, <1>4 DEF PassOK
  <2>2. /\ pass = "none" => \A k \in 1..Done : Calls(job)[k] = NoCall
        /\ pass \in {"stored", "begun"} =>
             \E n \in 1..Done : /\ Calls(job)[n] # NoCall /\ pending = Calls(job)[n].batch
                               /\ \A k \in 1..Done : k # n => Taken(k)
        /\ pass = "done" => \A k \in 1..Done : Taken(k)
    BY <1>1 DEF PlanInv, PassOK
  <2>3. CASE PassOver
    <3>1. c = NoCall /\ pass' = pass /\ pending' = pending
      BY <1>1, <2>3
    <3>2. Taken(Done + 1)
      BY <1>1, <1>2, <3>1, NoCallTaken DEF c
    <3>3. QED
      BY <1>6, <2>2, <3>1, <3>2 DEF c
  <2>4. CASE Store
    <3>1. c # NoCall /\ pending' = c.batch /\ pass' \in {"stored", "raced"}
          /\ (pass' = "stored" => pass \in {"none", "done"})
      BY <1>1, <2>4 DEF Assigned
    <3>2. ASSUME pass \in {"none", "done"}, NEW k \in 1..Done PROVE Taken(k)
      BY <1>2, <1>6, <2>2, <3>2, NoCallTaken
    <3>3. QED
      BY <1>6, <3>1, <3>2 DEF c
  <2>5. QED
    BY <2>3, <2>4 DEF Walks
<1>8. HandOK'
  <2>1. CASE PassOver
    BY <1>1, <2>1 DEF PlanInv, HandOK
  <2>2. CASE Store
    BY <1>1, <2>2 DEF PlanInv, HandOK, Assigned
  <2>3. QED
    BY <2>1, <2>2 DEF Walks
<1>9. ErrOK'
  BY <1>1 DEF PlanInv, ErrOK
<1>10. AskedOK'
  <2>1. /\ BatchAsked(pending, asked) /\ Writes(visiting) \subseteq asked
        /\ \A k \in 1..Len(todo) : BatchAsked(todo[k].batch, asked)
    BY DEF PlanInv, AskedOK
  <2>2. /\ Len(todo) > 0 /\ Len(todo) \in Nat /\ todo[1] = Head(todo)
        /\ \A k \in 1..Len(Tail(todo)) : k + 1 \in 1..Len(todo) /\ Tail(todo)[k] = todo[k + 1]
    BY <1>3, QueueIs DEF PlanInv
  <2>3. BatchAsked(c.batch, asked)
    BY <1>1, <2>1, <2>2
  <2>4. Writes(Texts(c.batch)) \subseteq asked
    <3>1. Head(todo) \in Call
      BY <1>3, QueueIs DEF PlanInv
    <3>2. Texts(c.batch) \subseteq Devs \X Text
      BY <1>1, <3>1, TextsTyped DEF Call
    <3>3. SUFFICES ASSUME NEW w \in Writes(Texts(c.batch)) PROVE w \in asked
      OBVIOUS
    <3>4. PICK d \in Devs, p \in Props, v \in Val : w = <<d, p, v>>
      BY <3>2, WritesTyped
    <3>5. d \in DOMAIN c.batch /\ \E s \in Wrote(c.batch[d]) : p = s.prop /\ v = s.val
      BY <3>4, TextsWrite
    <3>6. QED
      BY <2>3, <3>4, <3>5 DEF BatchAsked
  <2>5. BatchAsked(pending', asked') /\ Writes(visiting') \subseteq asked'
    <3>1. CASE PassOver
      BY <1>1, <2>1, <3>1
    <3>2. CASE Store
      <4>1. pending' = c.batch /\ visiting' \in {visiting, visiting \cup Texts(c.batch)} /\ asked' = asked
        BY <1>1, <3>2 DEF Assigned
      <4>2. Writes(visiting \cup Texts(c.batch)) = Writes(visiting) \cup Writes(Texts(c.batch))
        BY DEF Writes
      <4>3. QED
        BY <2>1, <2>3, <2>4, <4>1, <4>2
    <3>3. QED
      BY <3>1, <3>2 DEF Walks
  <2>6. \A k \in 1..Len(todo') : BatchAsked(todo'[k].batch, asked')
    BY <1>1, <2>1, <2>2
  <2>7. QED
    BY <2>5, <2>6 DEF AskedOK
<1>11. QED
  BY <1>1, <1>7, <1>8, <1>9, <1>10 DEF PlanInv

LEMMA AnswerKeeps ==
  ASSUME PlanInv, Answer
  PROVE  PlanInv'
<1>1. /\ stage' = "idle" /\ stage = "answer" /\ job' = [none |-> 0] /\ err' = 0 /\ pass' = "none"
      /\ fresh' = {} /\ touched' = {} /\ ready' \in BOOLEAN
      /\ UNCHANGED <<todo, pending, main, visiting, value, asked, parts>>
  BY DEF Answer, PlanInv, TypeOK
<1>2. TypeOK'
  BY <1>1 DEF PlanInv, TypeOK, Idle
<1>3. WalkOK' /\ PassOK' /\ HandOK' /\ ErrOK' /\ AskedOK'
  BY <1>1 DEF PlanInv, WalkOK, PassOK, HandOK, ErrOK, AskedOK
<1>4. QED
  BY <1>2, <1>3 DEF PlanInv

(* The waits, and a notify that ends them, are no matter of the invariant.  *)
LEMMA WaitsKeep ==
  ASSUME PlanInv, Drain \/ WaitEnds \/ Notify
  PROVE  PlanInv'
<1>1. /\ UNCHANGED <<job, todo, pending, main, visiting, pass, value, err, fresh, touched, asked, parts>>
      /\ ready' \in BOOLEAN /\ stage' \in {"drain", "store", "answer", stage}
      /\ (stage' = "idle" <=> stage = "idle")
  BY DEF Drain, WaitEnds, Onward, Notify, history, PlanInv, TypeOK
<1>2. TypeOK'
  BY <1>1 DEF PlanInv, TypeOK
<1>3. WalkOK' /\ Done' = Done /\ Calls(job)' = Calls(job)
  BY <1>1, StandsWalk DEF PlanInv, Stands
<1>4. \A k : Taken(k)' <=> Taken(k)
  BY <1>1, TakenStays
<1>5. PassOK'
  BY <1>1, <1>3, <1>4 DEF PlanInv, PassOK
<1>6. HandOK' /\ ErrOK' /\ AskedOK'
  BY <1>1 DEF PlanInv, HandOK, ErrOK, AskedOK
<1>7. QED
  BY <1>2, <1>3, <1>5, <1>6 DEF PlanInv

LEMMA CommitBeginsKeeps ==
  ASSUME PlanInv, CommitBegins
  PROVE  PlanInv'
<1>1. /\ UNCHANGED <<stage, job, todo, pending, ready, value, err, fresh, touched, asked, parts>>
      /\ main = "loop" /\ main' = "commit" /\ visiting' = Texts(pending)
      /\ pass' = IF pass = "stored" THEN "begun" ELSE pass
  BY DEF CommitBegins, history
<1>2. pending \in Batch /\ Texts(pending) \subseteq Devs \X Text
  BY TextsTyped DEF PlanInv, TypeOK
<1>3. TypeOK'
  BY <1>1, <1>2 DEF PlanInv, TypeOK
<1>4. WalkOK' /\ Done' = Done /\ Calls(job)' = Calls(job)
  BY <1>1, StandsWalk DEF PlanInv, Stands
<1>5. \A k : Taken(k)' <=> Taken(k)
  BY <1>1, TakenStays
<1>6. PassOK'
  BY <1>1, <1>4, <1>5 DEF PlanInv, PassOK
<1>7. HandOK'
  <2>1. Texts(NoBatch) = {}
    BY NoBatchIs DEF Texts
  <2>2. QED
    BY <1>1, <2>1 DEF PlanInv, HandOK
<1>8. ErrOK'
  BY <1>1 DEF PlanInv, ErrOK
<1>9. AskedOK'
  <2>1. BatchAsked(pending, asked)
    BY DEF PlanInv, AskedOK
  <2>2. SUFFICES ASSUME NEW w \in Writes(Texts(pending)) PROVE w \in asked
    BY <1>1 DEF PlanInv, AskedOK
  <2>3. PICK d \in Devs, p \in Props, v \in Val : w = <<d, p, v>>
    BY <1>2, WritesTyped
  <2>4. d \in DOMAIN pending /\ \E s \in Wrote(pending[d]) : p = s.prop /\ v = s.val
    BY <2>3, TextsWrite
  <2>5. QED
    BY <2>1, <2>3, <2>4 DEF BatchAsked
<1>10. QED
  BY <1>3, <1>4, <1>6, <1>7, <1>8, <1>9 DEF PlanInv

LEMMA ClearsKeeps ==
  ASSUME PlanInv, Clears
  PROVE  PlanInv'
<1>1. /\ UNCHANGED <<stage, job, todo, ready, visiting, pass, value, err, fresh, touched, asked, parts>>
      /\ main = "clear" /\ main' = "loop" /\ pending' = NoBatch
  BY DEF Clears, history
<1>2. TypeOK'
  BY <1>1, NoBatchIs DEF PlanInv, TypeOK
<1>3. WalkOK' /\ Done' = Done /\ Calls(job)' = Calls(job)
  BY <1>1, StandsWalk DEF PlanInv, Stands
<1>4. \A k : Taken(k)' <=> Taken(k)
  BY <1>1, TakenStays
<1>5. pass \notin {"stored", "begun"}
  BY <1>1 DEF PlanInv, HandOK
<1>6. PassOK'
  BY <1>1, <1>3, <1>4, <1>5 DEF PlanInv, PassOK
<1>7. HandOK'
  <2>1. visiting = {}
    BY <1>1 DEF PlanInv, HandOK
  <2>2. QED
    BY <1>1, <1>5, <2>1 DEF PlanInv, HandOK
<1>8. ErrOK'
  BY <1>1 DEF PlanInv, ErrOK
<1>9. AskedOK'
  BY <1>1, NoBatchIs DEF PlanInv, AskedOK, BatchAsked
<1>10. QED
  BY <1>2, <1>3, <1>6, <1>7, <1>8, <1>9 DEF PlanInv

(* The commit that was begun with a batch takes it, and leaves alone what   *)
(* was taken before; with nothing pending it changes nothing.               *)
LEMMA CommitTakes ==
  ASSUME PlanInv, stage # "idle", pass = "begun", NEW seen, CommitOf(seen), UNCHANGED job
  PROVE  \A k \in 1..Done : Taken(k)'
<1>1. PICK n \in 1..Done : /\ Calls(job)[n] # NoCall /\ pending = Calls(job)[n].batch
                           /\ \A k \in 1..Done : k # n => Taken(k)
  BY DEF PlanInv, PassOK
<1>2. seen = Texts(pending) /\ pending \in Batch
  BY DEF PlanInv, HandOK, CommitOf, TypeOK
<1>3. /\ \A d \in Devs, p \in Props :
           \/ /\ value'[<<d, p>>] = value[<<d, p>>]
              /\ \A v \in Val : <<d, p, v>> \notin Writes(seen)
           \/ <<d, p, value'[<<d, p>>]>> \in Writes(seen)
      /\ \A d, p, v : <<d, p, v>> \in Writes(seen) => <<d, p>> \in touched'
      /\ touched \subseteq touched' /\ fresh \subseteq fresh'
  BY CommitWrites DEF PlanInv
<1>4. \A d, p, v : <<d, p, v>> \in Writes(seen) <=>
        d \in DOMAIN pending /\ \E s \in Wrote(pending[d]) : p = s.prop /\ v = s.val
  <2>1. TAKE d, p, v
  <2>2. <<d, p, v>> \in Writes(Texts(pending)) <=>
          d \in DOMAIN pending /\ \E s \in Wrote(pending[d]) : p = s.prop /\ v = s.val
    BY TextsWrite
  <2>3. QED
    BY <1>2, <2>2
<1>5. job \in Job /\ Done \in 0..Len(Calls(job)) /\ Len(Calls(job)) \in Nat
  BY QueueIs DEF PlanInv
<1>6. Calls(job)' = Calls(job) /\ job' = job
  BY DEF Calls
<1>7. ReadDevs(pending) \subseteq fresh'
  <2>1. ASSUME NEW d \in DOMAIN pending, pending[d].read PROVE d \in fresh'
    <3> DEFINE t == <<d, pending[d]>>
    <3>1. t \in seen /\ t[1] = d /\ t[2].read /\ d \in Devs
      BY <1>2, <2>1, BatchIs DEF Texts
    <3> HIDE DEF t
    <3>2. QED
      BY <3>1 DEF CommitOf
  <2>2. QED
    BY <2>1 DEF ReadDevs
<1>8. TAKE k \in 1..Done
<1> DEFINE m == job.members[k]
           x == m.sets[1]
<1>9. ReadDevs(Calls(job)[k].batch) \subseteq fresh'
  <2>1. CASE k = n
    BY <1>1, <1>7, <2>1
  <2>2. CASE k # n
    BY <1>1, <1>3, <2>2 DEF Taken
  <2>3. QED
    BY <2>1, <2>2
<1>10. ASSUME IsBody(job), Alone(k) PROVE Settled(m)'
  <2>1. /\ k \in 1..Len(Calls(job)) /\ Known(k) /\ Once(job.members, k) /\ m.sets # <<>>
        /\ k \in DOMAIN job.members /\ m \in Member
        /\ Calls(job)[k].batch = [d \in {m.dev} |-> Write(m.sets)]
    <3>1. k \in 1..Len(Calls(job))
      BY <1>5
    <3>2. /\ k \in DOMAIN job.members /\ m \in Member
          /\ Calls(job)[k].batch = [d \in {m.dev} |-> Write(m.sets)]
      BY <1>5, <1>10, <3>1, BodyStep
    <3>3. Known(k) /\ Once(job.members, k) /\ m.sets # <<>>
      BY <1>10 DEF Alone
    <3>4. QED
      BY <3>1, <3>2, <3>3
  <2>2. m.dev \in Devs /\ x \in Setting
    <3>1. m.sets \in SmallSeq(Setting) /\ m.dev \in Devs
      BY <2>1 DEF Member, Known
    <3>2. m.sets \in Seq(Setting) /\ \A i \in 1..Len(m.sets) : m.sets[i] \in Setting
      BY <3>1, SmallSeqIs
    <3>3. 1 \in 1..Len(m.sets)
      BY <2>1, <3>2
    <3>4. QED
      BY <3>1, <3>2, <3>3
  <2>3. x.prop \in Props /\ x.val \in Val
    BY <2>2 DEF Setting
  <2>4. CASE k = n
    <3>1. DOMAIN pending = {m.dev} /\ Wrote(pending[m.dev]) = {x}
      BY <1>1, <2>1, <2>4, WroteIs
    <3> HIDE DEF m, x
    <3>2. <<m.dev, x.prop, x.val>> \in Writes(seen)
      BY <1>4, <3>1
    <3>3. <<m.dev, x.prop, value'[<<m.dev, x.prop>>]>> \in Writes(seen)
      BY <1>3, <2>2, <2>3, <3>2
    <3>4. value'[<<m.dev, x.prop>>] = x.val
      BY <1>4, <3>1, <3>3
    <3>5. <<m.dev, x.prop>> \in touched'
      BY <1>3, <3>2
    <3>6. QED
      BY <1>6, <3>4, <3>5 DEF Settled, m, x
  <2>5. CASE k # n
    <3>1. Settled(m)
      BY <1>1, <1>10, <2>5 DEF Taken
    <3>2. m.dev \notin DOMAIN pending
      <4>1. n \in 1..Len(Calls(job))
        BY <1>5
      <4>2. Known(n) /\ n \in DOMAIN job.members /\ DOMAIN pending \subseteq {job.members[n].dev}
        BY <1>1, <1>5, <1>10, <4>1, BodyStep
      <4>3. job.members[n].dev # m.dev
        BY <2>1, <2>5, <4>2 DEF Once
      <4>4. QED
        BY <4>2, <4>3
    <3> HIDE DEF m, x
    <3>3. \A v : <<m.dev, x.prop, v>> \notin Writes(seen)
      BY <1>4, <3>2
    <3>4. value'[<<m.dev, x.prop>>] = value[<<m.dev, x.prop>>]
      BY <1>3, <2>2, <2>3, <3>3
    <3>5. QED
      BY <1>3, <1>6, <3>1, <3>4 DEF Settled, m, x
  <2>6. QED
    BY <2>4, <2>5
<1>11. (IsBody(job)' <=> IsBody(job)) /\ (Alone(k)' <=> Alone(k))
  BY <1>6 DEF Alone, Known
<1>12. QED
  BY <1>6, <1>9, <1>10, <1>11 DEF Taken

LEMMA CommitEndsKeeps ==
  ASSUME PlanInv, CommitEnds
  PROVE  PlanInv'
<1>1. /\ UNCHANGED <<stage, job, todo, pending, ready, err, asked, parts>>
      /\ main \in {"commit", "torn"} /\ main' = "clear" /\ visiting' = {}
      /\ pass' = IF pass = "begun" THEN "done" ELSE pass
  BY DEF CommitEnds
<1>2. PICK seen : CommitOf(seen)
  BY DEF CommitEnds, CommitOf
<1>3. /\ value' \in [Devs \X Props -> Val] /\ touched' \subseteq Devs \X Props /\ fresh' \subseteq Devs
      /\ touched \subseteq touched' /\ fresh \subseteq fresh'
  BY <1>2, CommitWrites DEF PlanInv, CommitOf
<1>4. TypeOK'
  BY <1>1, <1>3 DEF PlanInv, TypeOK
<1>5. WalkOK' /\ Done' = Done /\ Calls(job)' = Calls(job)
  BY <1>1, StandsWalk DEF PlanInv, Stands
<1>6. PassOK'
  <2>1. SUFFICES ASSUME stage # "idle" PROVE PassOK'
    BY <1>1 DEF PassOK
  <2>2. CASE pass = "begun"
    <3>1. \A k \in 1..Done : Taken(k)'
      BY <1>1, <1>2, <2>1, <2>2, CommitTakes
    <3>2. QED
      BY <1>1, <1>5, <2>2, <3>1 DEF PassOK
  <2>3. CASE pass = "done"
    <3>1. visiting = {}
      BY <1>1, <2>3 DEF PlanInv, HandOK
    <3>2. seen = {}
      BY <1>2, <3>1 DEF CommitOf
    <3>3. value' = value
      BY <1>2, <3>2, CommitNothing DEF PlanInv
    <3>4. Writes(seen) = {}
      BY <3>2 DEF Writes
    <3>5. touched' = touched /\ fresh' = fresh
      BY <1>2, <3>2, <3>4 DEF CommitOf
    <3>6. \A k : Taken(k)' <=> Taken(k)
      BY <1>1, <3>3, <3>5, TakenStays
    <3>7. QED
      BY <1>1, <1>5, <2>1, <2>3, <3>6 DEF PlanInv, PassOK
  <2>4. CASE pass \notin {"begun", "done"}
    <3>1. pass # "stored"
      BY <1>1 DEF PlanInv, HandOK
    <3>2. QED
      BY <1>1, <1>5, <2>1, <2>4, <3>1 DEF PlanInv, PassOK
  <2>5. QED
    BY <2>2, <2>3, <2>4
<1>7. HandOK'
  BY <1>1 DEF PlanInv, HandOK
<1>8. ErrOK'
  BY <1>1 DEF PlanInv, ErrOK
<1>9. AskedOK'
  <2>1. Writes({}) = {}
    BY DEF Writes
  <2>2. QED
    BY <1>1, <2>1 DEF PlanInv, AskedOK
<1>10. QED
  BY <1>4, <1>5, <1>6, <1>7, <1>8, <1>9 DEF PlanInv

LEMMA InitPlan == Init => PlanInv
<1> SUFFICES ASSUME Init PROVE PlanInv
  OBVIOUS
<1>1. /\ stage = "idle" /\ job = [none |-> 0] /\ todo = <<>> /\ pending = NoBatch
      /\ ready = TRUE /\ main = "loop" /\ visiting = {} /\ pass = "none"
      /\ value = [x \in Devs \X Props |-> 0] /\ Len(todo) = 0
      /\ err = 0 /\ fresh = {} /\ touched = {} /\ asked = {} /\ parts = 0
  BY LenNone DEF Init
<1>2. 0 \in Val /\ 0 \in 0..MaxParts
  BY BoundsAssumption DEF Val
<1>3. TypeOK
  BY <1>1, <1>2, NoBatchIs DEF TypeOK, Idle
<1>4. WalkOK /\ PassOK /\ HandOK /\ ErrOK
  BY <1>1 DEF WalkOK, PassOK, HandOK, ErrOK
<1>5. AskedOK
  BY <1>1, NoBatchIs DEF AskedOK, BatchAsked, Writes
<1>6. QED
  BY <1>3, <1>4, <1>5 DEF PlanInv

LEMMA StepPlan == PlanInv /\ [Next]_vars => PlanInv'
<1> SUFFICES ASSUME PlanInv, [Next]_vars PROVE PlanInv'
  OBVIOUS
<1>1. CASE GetQuery \/ GetAll \/ Post \/ PostBroken
  BY <1>1, RequestBegins, BeginKeeps
<1>2. CASE Store \/ PassOver
  BY <1>2, WalkKeeps DEF Walks
<1>3. CASE Answer
  BY <1>3, AnswerKeeps
<1>4. CASE Drain \/ WaitEnds \/ Notify
  BY <1>4, WaitsKeep
<1>5. CASE CommitBegins
  BY <1>5, CommitBeginsKeeps
<1>6. CASE CommitEnds
  BY <1>6, CommitEndsKeeps
<1>7. CASE Clears
  BY <1>7, ClearsKeeps
<1>8. CASE UNCHANGED vars
  <2>1. UNCHANGED <<stage, job, todo, pending, ready, main, visiting, pass, value, err,
                    fresh, touched, asked, parts>>
    BY <1>8 DEF vars
  <2>2. \A k : Taken(k)' <=> Taken(k)
    BY <2>1, TakenStays
  <2>3. Done' = Done /\ Calls(job)' = Calls(job)
    BY <2>1 DEF Done, Calls
  <2>4. PassOK'
    BY <2>1, <2>2, <2>3 DEF PlanInv, PassOK
  <2>5. TypeOK' /\ WalkOK' /\ HandOK' /\ ErrOK' /\ AskedOK'
    BY <2>1, <2>3 DEF PlanInv, TypeOK, WalkOK, HandOK, ErrOK, AskedOK
  <2>6. QED
    BY <2>4, <2>5 DEF PlanInv
<1>9. QED
  BY <1>1, <1>2, <1>3, <1>4, <1>5, <1>6, <1>7, <1>8 DEF Next

-----------------------------------------------------------------------------
(* The invariant of RequestPlan: what was stored is where "pass" says, and  *)
(* what was taken stays taken until the answer.                             *)
THEOREM PlanInvariant == Spec => []PlanInv
<1>1. QED
  BY InitPlan, StepPlan, PTL DEF Spec

(* The state of a request is well formed: the batches web_set_data is still *)
(* to be called with, _pending, the texts comit_devs may come by, and what  *)
(* it wrote.                                                                *)
THEOREM PlanTypes == Spec => []TypeOK
<1>1. PlanInv => TypeOK
  BY DEF PlanInv
<1>2. QED
  BY <1>1, PlanInvariant, PTL

(* What a client asked to have read makes one call, which reads it all.     *)
LEMMA WantedCall ==
  ASSUME job \in Job, Wanted # {}
  PROVE  /\ Len(Calls(job)) = 1 /\ Calls(job)[1] # NoCall
         /\ Wanted \subseteq ReadDevs(Calls(job)[1].batch)
<1> DEFINE Asks == IsQuery(job) /\ \A i \in DOMAIN job.params :
                                     job.params[i].ask /\ job.params[i].prop = NoProp
<1>1. CASE IsAll(job) /\ job.ask
  <2> DEFINE c == [batch |-> [d \in job.category |-> Read], apply |-> 1]
  <2>1. job \in All /\ ~IsQuery(job) /\ Wanted = job.category /\ job.category \subseteq Devs
    BY <1>1, JobIs DEF Wanted
  <2>2. Calls(job) = <<c>>
    BY <1>1, <2>1 DEF Calls, AllCalls
  <2>3. c \in Call /\ c # NoCall
    <3>1. [d \in job.category |-> Read] \in Batch
      BY <2>1, TextIs DEF Batch
    <3>2. NoCall.apply = -2 /\ c.apply = 1
      BY DEF NoCall, NotMade
    <3>3. QED
      BY <3>1, <3>2 DEF Call
  <2>4. job.category \subseteq ReadDevs(c.batch)
    BY DEF ReadDevs, Read
  <2> HIDE DEF c
  <2>5. QED
    BY <2>1, <2>2, <2>3, <2>4, FewCalls
<1>2. CASE ~(IsAll(job) /\ job.ask) /\ Asks
  <2> DEFINE ps == job.params
             c == [batch |-> QueryBatch(ps), apply |-> 1]
  <2>1. ps \in SmallSeq(Param) /\ ps # <<>> /\ Wanted = Named(ps)
    BY <1>2, JobIs DEF Wanted
  <2>2. Len(ps) \in 1..Len(ps) /\ DOMAIN ps = 1..Len(ps)
    BY <2>1, SmallSeqIs, BoundsAssumption
  <2>3. \A i \in 1..Len(ps) : Refresh(ps[i]) = 1 /\ ParamText(ps[i]) = Read
    BY <1>2, <2>2 DEF Refresh, ParamText
  <2>4. Calls(job) = <<c>>
    BY <1>2, <2>2, <2>3 DEF Calls, QueryCalls
  <2>5. c \in Call /\ c # NoCall
    <3>1. NoCall.apply = -2 /\ c.apply = 1
      BY DEF NoCall, NotMade
    <3>2. QED
      BY <2>1, <3>1, QueryBatchIs DEF Call
  <2>6. ASSUME NEW d \in Named(ps) PROVE d \in ReadDevs(c.batch)
    <3>1. d \in DOMAIN QueryBatch(ps) /\ QueryBatch(ps)[d] = Read
      BY <2>1, <2>3, QueryBatchIs
    <3>2. QED
      BY <3>1 DEF ReadDevs, Read
  <2> HIDE DEF c, ps
  <2>7. QED
    BY <2>1, <2>4, <2>5, <2>6, FewCalls
<1>3. QED
  BY <1>1, <1>2 DEF Wanted

(* An answer with whole devices a client asked for holds what they answered *)
(* after it asked, when the pass that found its batch is over; when none is *)
(* and none was at work, the reads are still what is pending.               *)
THEOREM FreshAnswers == Spec => []FreshAnswer
<1>1. ASSUME PlanInv PROVE FreshAnswer
  <2>1. SUFFICES ASSUME stage = "answer", Wanted # {}
                 PROVE  /\ pass = "done" => Wanted \subseteq fresh
                        /\ pass # "raced" =>
                             \/ Wanted \subseteq fresh
                             \/ \A d \in Wanted : d \in DOMAIN pending /\ pending[d].read
    BY DEF FreshAnswer
  <2>2. job \in Job /\ Done = Len(Calls(job))
    BY <1>1, <2>1, QueueIs DEF PlanInv
  <2>3. /\ Done = 1 /\ 1..Done = {1} /\ Calls(job)[1] # NoCall
        /\ Wanted \subseteq ReadDevs(Calls(job)[1].batch)
    BY <2>1, <2>2, WantedCall
  <2>4. pass \in {"none", "stored", "begun", "done", "raced"} /\ PassOK
    BY <1>1 DEF PlanInv, TypeOK
  <2>5. pass # "none"
    BY <2>1, <2>3, <2>4 DEF PassOK
  <2>6. ASSUME pass \in {"stored", "begun"}, NEW d \in Wanted
        PROVE  d \in DOMAIN pending /\ pending[d].read
    <3>1. pending = Calls(job)[1].batch
      BY <2>1, <2>3, <2>4, <2>6 DEF PassOK
    <3>2. QED
      BY <2>3, <3>1 DEF ReadDevs
  <2>7. ASSUME pass = "done" PROVE Wanted \subseteq fresh
    BY <2>1, <2>3, <2>4, <2>7 DEF PassOK, Taken
  <2>8. QED
    BY <2>4, <2>5, <2>6, <2>7
<1>2. QED
  BY <1>1, PlanInvariant, PTL

(* A body whose last batch met a pass, each stored after the one before was *)
(* done, left every device with its first setting.                          *)
THEOREM SettingsDone == Spec => []SettingsReached
<1>1. ASSUME PlanInv PROVE SettingsReached
  <2> DEFINE ms == job.members
  <2>1. SUFFICES ASSUME stage = "answer", IsBody(job), pass = "done", NEW i \in DOMAIN ms,
                        Once(ms, i), ms[i].dev \in Devs, ms[i].sets # <<>>
                 PROVE  value[<<ms[i].dev, ms[i].sets[1].prop>>] = ms[i].sets[1].val
    BY DEF SettingsReached
  <2>2. job \in Job /\ Done = Len(Calls(job))
    BY <1>1, <2>1, QueueIs DEF PlanInv
  <2>3. Len(Calls(job)) = Len(ms) /\ DOMAIN ms = 1..Len(ms)
    BY <2>1, <2>2, JobIs, BodyCallsIs, SmallSeqIs DEF Calls
  <2>4. Alone(i) /\ i \in 1..Done
    BY <2>1, <2>2, <2>3 DEF Known, Alone
  <2>5. Taken(i)
    BY <1>1, <2>1, <2>4 DEF PlanInv, PassOK
  <2>6. QED
    BY <2>1, <2>4, <2>5 DEF Taken, Settled
<1>2. QED
  BY <1>1, PlanInvariant, PTL

(* A body answered without an error named devices alone, and unless a store *)
(* met a batch not done or a pass at work, none of them was passed over.    *)
THEOREM NothingPassedOver == Spec => []SilentMeansAccepted
<1>1. ASSUME PlanInv PROVE SilentMeansAccepted
  <2> DEFINE ms == job.members
  <2>1. SUFFICES ASSUME stage = "answer", IsBody(job), err = 0, NEW i \in DOMAIN ms
                 PROVE  /\ ms[i].dev \in Devs
                        /\ pass # "raced" /\ Once(ms, i) /\ ms[i].sets # <<>> =>
                             \/ <<ms[i].dev, ms[i].sets[1].prop>> \in touched
                             \/ ms[i].dev \in DOMAIN pending /\ pending[ms[i].dev].sets = ms[i].sets
    BY DEF SilentMeansAccepted
  <2>2. job \in Job /\ Done = Len(Calls(job)) /\ Len(Calls(job)) \in Nat
    BY <1>1, <2>1, QueueIs DEF PlanInv
  <2>3. Len(Calls(job)) = Len(ms) /\ DOMAIN ms = 1..Len(ms)
    BY <2>1, <2>2, JobIs, BodyCallsIs, SmallSeqIs DEF Calls
  <2>4. BodyErr(ms) = 0
    BY <1>1, <2>1 DEF PlanInv, ErrOK
  <2>5. ms[i].dev \in Devs
    BY <2>4 DEF BodyErr
  <2>6. ASSUME pass # "raced", Once(ms, i), ms[i].sets # <<>>
        PROVE  \/ <<ms[i].dev, ms[i].sets[1].prop>> \in touched
               \/ ms[i].dev \in DOMAIN pending /\ pending[ms[i].dev].sets = ms[i].sets
    <3>1. Known(i) /\ Alone(i) /\ i \in 1..Done /\ i \in 1..Len(Calls(job))
      BY <2>2, <2>3, <2>5, <2>6 DEF Known, Alone
    <3>2. Calls(job)[i] # NoCall /\ Calls(job)[i].batch = [d \in {ms[i].dev} |-> Write(ms[i].sets)]
      BY <2>1, <2>2, <3>1, BodyStep
    <3>3. pass \in {"stored", "begun", "done"} /\ PassOK
      <4>1. pass \in {"none", "stored", "begun", "done", "raced"} /\ PassOK
        BY <1>1 DEF PlanInv, TypeOK
      <4>2. pass # "none"
        BY <2>1, <3>1, <3>2, <4>1 DEF PassOK
      <4>3. QED
        BY <2>6, <4>1, <4>2
    <3>4. Taken(i) \/ pending = Calls(job)[i].batch
      BY <2>1, <3>1, <3>3 DEF PassOK
    <3>5. QED
      BY <2>1, <3>1, <3>2, <3>4 DEF Taken, Settled, Write
  <2>7. QED
    BY <2>5, <2>6
<1>2. QED
  BY <1>1, PlanInvariant, PTL

(* No write goes astray: what a property changes to was asked of it, also   *)
(* when the map was assigned while comit_devs went over it.                 *)
THEOREM WritesAddressed == Spec => Addressed
<1> DEFINE Kept == \A d \in Devs, p \in Props :
                     value'[<<d, p>>] # value[<<d, p>>] => <<d, p, value'[<<d, p>>]>> \in asked
<1>1. ASSUME PlanInv, Next PROVE Kept
  <2>1. CASE CommitEnds
    <3>1. PICK seen : CommitOf(seen)
      BY <2>1 DEF CommitEnds, CommitOf
    <3>2. Writes(seen) \subseteq asked
      <4>1. Writes(seen) \subseteq Writes(visiting)
        BY <3>1 DEF CommitOf, Writes
      <4>2. QED
        BY <1>1, <4>1 DEF PlanInv, AskedOK
    <3>3. QED
      BY <1>1, <3>1, <3>2, CommitWrites DEF PlanInv
  <2>2. CASE ~CommitEnds
    <3>1. value' = value
      BY <1>1, <2>2 DEF Next, GetQuery, GetAll, Post, PostBroken, Begin, Drain, Store, WaitEnds,
                        PassOver, Answer, CommitBegins, Clears, Notify
    <3>2. QED
      BY <3>1
  <2>3. QED
    BY <2>1, <2>2
<1>2. QED
  BY <1>1, PlanInvariant, PTL DEF Spec, Addressed
=============================================================================
