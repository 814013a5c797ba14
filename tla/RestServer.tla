----------------------------- MODULE RestServer -----------------------------
(***************************************************************************)
(* The connections of RestConn with the answers they get.  _toast takes    *)
(* many steps: the request goes to web_set_data, which waits for the main  *)
(* loop (WebSync shows that it comes back while the loop runs), and the    *)
(* text of the answer sits in RestSrv::_outstr, one for all clients, which *)
(* the script's reply() overwrites from the main thread at any moment      *)
(* (restsrv.cpp:104-215).                                                  *)
(*                                                                         *)
(* The thread serves one client at a time: while it waits nobody else is   *)
(* accepted or read.  The model ends where close() of the main thread      *)
(* deletes the server's clients.                                           *)
(***************************************************************************)
EXTENDS RestConn

CONSTANTS Nobody,     \* no client
          Script,     \* the script, as the author of a text
          MaxReplies  \* bound: calls of reply()

ASSUME AuthorsAssumption == Nobody \notin Clients /\ Script \notin Clients \cup {Nobody}
ASSUME RepliesAssumption == MaxReplies \in Nat

VARIABLES
  serving,  \* the client _toast works for
  taken,    \* the bytes that were received just before
  at,       \* where _toast is
  outstr,   \* whose text RestSrv::_outstr holds, Nobody's when empty
  answer,   \* whose text each client was sent last (history)
  scripted, \* how many answers were the script's text (history)
  replies,  \* calls of reply() so far
  main      \* the main thread: runs; ApStat changed; left run()

toastVars == <<serving, taken, at, outstr, answer, scripted>>
mainVars == <<replies, main>>
srvVars == <<vars, toastVars, mainVars>>

Author == Clients \cup {Nobody, Script}

SrvTypeOK ==
  /\ TypeOK
  /\ serving \in Clients \cup {Nobody}
  /\ \E i, j \in 0..4 : serving # Nobody => taken = SubSeq(Bytes(serving), i + 1, j)
  /\ at \in {"idle", "defer", "wait", "build", "send"}
  /\ at = "idle" <=> serving = Nobody
  /\ outstr \in Author /\ answer \in [Clients -> Author]
  /\ replies \in 0..MaxReplies /\ scripted \in Nat
  /\ main \in {"runs", "leaving", "left"}

SrvInit ==
  /\ Init
  /\ serving = Nobody /\ taken = <<>> /\ at = "idle"
  /\ outstr = Nobody /\ answer = [c \in Clients |-> Nobody]
  /\ replies = 0 /\ scripted = 0 /\ main = "runs"

-----------------------------------------------------------------------------
(* The round, as long as no request is served.                             *)

Idle == serving = Nobody

(* while(!is_stopped() && ApStat==RUNNING) *)
Round ==
  /\ Idle
  /\ \/ main = "runs" /\ Select
     \/ main # "runs" /\ Stops
     \/ Accept \/ NoAccept \/ Served \/ Clear
  /\ UNCHANGED <<toastVars, mainVars>>

RoundFails ==
  /\ main = "runs" /\ SelectFails
  /\ main' = "leaving"
  /\ UNCHANGED <<toastVars, replies>>

(* A client that sent more of its header, or left without one.              *)
ReadOn ==
  /\ Idle /\ pc = "serve"
  /\ \E c \in isset :
        /\ ~HasEnd(IF wire[c] # <<>> THEN wire[c] ELSE req[c])
        /\ IF wire[c] # <<>> THEN Received(c) ELSE HungUp(c)
        /\ isset' = isset \ {c}
  /\ UNCHANGED <<clientVars, backlog, kons, pc, knock, toastVars, mainVars>>

(* _toast(s): a body that has not come makes an empty request, which is     *)
(* answered with what _outstr happens to hold                               *)
HasBody(text) == \E i \in 1..Len(text) : text[i] = "body"

ToastBegin ==
  /\ Idle /\ pc = "serve"
  /\ \E c \in isset :
        /\ HasEnd(IF wire[c] # <<>> THEN wire[c] ELSE req[c])
        /\ serving' = c
        /\ taken' = wire[c]
        /\ req' = [req EXCEPT ![c] = @ \o wire[c]]
        /\ wire' = [wire EXCEPT ![c] = <<>>]
        /\ IF c \in Posting /\ ~HasBody(req'[c])
             THEN at' = "send" /\ UNCHANGED outstr
             ELSE at' = "defer" /\ outstr' = c
  /\ UNCHANGED <<clientVars, backlog, kons, open, toasted, pc, isset, knock,
                 answer, scripted, mainVars>>

(* _defer_query: an error or values as they are, or web_set_data first.  A  *)
(* body may call it several times, which is one long wait here.             *)
Defer ==
  /\ at = "defer"
  /\ \/ at' = "wait" /\ UNCHANGED outstr
     \/ at' = "send" /\ outstr' = serving
  /\ UNCHANGED <<vars, serving, taken, answer, scripted, mainVars>>

(* web_set_data comes back: the last notify() of run() releases it too, and *)
(* nobody does after that.                                                  *)
Released_AtTheEnd == main = "leaving"
Released == main # "left"

WaitEnds ==
  /\ at = "wait" /\ Released
  /\ IF serving \in Posting
       THEN at' = "send" /\ outstr' \in {outstr, serving}   \* partial error
       ELSE at' = "build" /\ UNCHANGED outstr
  /\ UNCHANGED <<vars, serving, taken, answer, scripted, mainVars>>

(* _build_forjson *)
Build ==
  /\ at = "build"
  /\ at' = "send" /\ outstr' = serving
  /\ UNCHANGED <<vars, serving, taken, answer, scripted, mainVars>>

(* The header, _outstr, _outstr.clear(), sendall and both calls of term().  *)
Clears_Not == UNCHANGED outstr
Clears == outstr' = Nobody

Closes_Not(c) == req' = [req EXCEPT ![c] = <<>>] /\ UNCHANGED <<open, wire>>
Closes(c) == Term(c)

Over_Kept == at' = "idle" /\ UNCHANGED <<serving, taken>>
Over == serving' = Nobody /\ taken' = <<>> /\ at' = "idle"

ToastEnd ==
  /\ at = "send"
  /\ answer' = [answer EXCEPT ![serving] = outstr]
  /\ scripted' = IF outstr = Script THEN scripted + 1 ELSE scripted
  /\ Clears
  /\ Toast(serving) /\ Closes(serving)
  /\ isset' = isset \ {serving}
  /\ Over
  /\ UNCHANGED <<clientVars, backlog, kons, pc, knock, mainVars>>

RestThread == Round \/ ReadOn \/ ToastBegin \/ Defer \/ WaitEnds \/ Build \/ ToastEnd

-----------------------------------------------------------------------------
(* RestSrv::reply, called by the script *)
Reply ==
  /\ main # "left" /\ replies < MaxReplies
  /\ outstr' = Script /\ replies' = replies + 1
  /\ UNCHANGED <<vars, serving, taken, at, answer, scripted, main>>

(* ApStat changes; the loop ends after its last notify() *)
MainLeaves ==
  /\ \/ main = "runs" /\ main' = "leaving"
     \/ main = "leaving" /\ main' = "left"
  /\ UNCHANGED <<vars, toastVars, replies>>

Client ==
  /\ \E c \in Clients : Connect(c) \/ Send(c) \/ ShutDown(c)
  /\ UNCHANGED <<toastVars, mainVars>>

SrvNext == RestThread \/ RoundFails \/ Client \/ Reply \/ MainLeaves

SrvSpec == SrvInit /\ [][SrvNext]_srvVars

(* The thread is scheduled; that web_set_data comes back is CallReturns of  *)
(* WebSync.  Nothing makes the program end.                                 *)
SrvFairSpec == SrvSpec /\ WF_srvVars(RestThread)

-----------------------------------------------------------------------------
(* RestConn takes _toast for one step at its end: until then the bytes just *)
(* received count as waiting.                                               *)
UnreadWire == [c \in Clients |-> IF c = serving THEN taken \o wire[c] ELSE wire[c]]
ReqBefore ==
  [c \in Clients |-> IF c = serving THEN SubSeq(req[c], 1, Len(req[c]) - Len(taken))
                                     ELSE req[c]]

Conn == INSTANCE RestConn WITH wire <- UnreadWire, req <- ReqBefore

(* The whole server does what RestConn says, although clients go on sending *)
(* and hanging up while one of them waits for the main loop                 *)
(* (restsrv.cpp:364-370).                                                   *)
ServesRounds == Conn!Spec

(* Nobody is sent the text that was made for another client, although all   *)
(* of them share _outstr (restsrv.cpp:184-192).                             *)
OwnAnswer == \A c \in Clients : answer[c] \in {Nobody, Script, c}

(* A reply of the script reaches one request at most, whenever it comes and *)
(* however often clients come back: it is sent at most as often as it was   *)
(* made (restsrv.cpp:104-109, 184-192).                                     *)
ReplyOnce == scripted <= replies

(* A client that sent its header and shut down its side does not wait for   *)
(* ever for its answer, although the thread accepts and reads nobody while   *)
(* it waits for the main loop on behalf of others: unless the program ends   *)
(* or refusals do not (restsrv.cpp:364-370).                                 *)
EveryoneAnswered ==
  <>[]~Refusing => \A c \in Clients : []<>(~Waits(c) \/ main # "runs")
=============================================================================
