------------------------------ MODULE RestConn ------------------------------
(***************************************************************************)
(* The connections of the REST server: one round of RestSrv::_spin selects *)
(* over the listener and the connected clients, accepts at most one more,  *)
(* reads what each readable client sent, answers a request whose header    *)
(* ended (_toast) and clears away what it closed (restsrv.cpp:154-375).    *)
(*                                                                         *)
(* A request is a few bytes that matter: CR and LF stand for the two       *)
(* halves of the empty line that ends the header, which TCP may deliver    *)
(* apart.  A client sends its request and may shut down its side at any    *)
(* time; when the server has closed and cleared its connection it may      *)
(* connect again, for ever.  How a request is answered is RequestPlan and  *)
(* WebSync; here _toast is one step, which those models show to return.    *)
(***************************************************************************)
EXTENDS Naturals, Sequences, FiniteSets

CONSTANTS Clients,   \* the clients
          Posting,   \* those whose request has a body
          Limit      \* 32: more connections than that are refused

ASSUME PostingAssumption == Posting \subseteq Clients
ASSUME LimitAssumption == Limit \in Nat /\ IsFiniteSet(Clients)

VARIABLES
  sent,     \* how much of its request each client has sent on its connection
  ended,    \* the client has shut down its side of it
  accepted, \* the server accepted its connection (history)
  backlog,  \* clients that wait to be accepted
  kons,     \* RestSrv::_kons
  open,     \* sockets the server holds
  wire,     \* bytes received by the kernel and not read
  req,      \* Tcli::_req
  toasted,  \* how often it was answered on that connection (history)
  pc,       \* where _spin is
  isset,    \* the clients select reported
  knock     \* select reported the listener

vars == <<sent, ended, accepted, backlog, kons, open, wire, req, toasted, pc, isset, knock>>
clientVars == <<sent, ended, accepted>>

Bytes(c) == IF c \in Posting THEN <<"head", "cr", "lf", "body">>
                             ELSE <<"head", "cr", "lf">>

(* strstr(s, "\r\n\r\n"), std::string::find                                 *)
HasEnd(s) == \E i \in 1..Len(s) - 1 : s[i] = "cr" /\ s[i + 1] = "lf"

TypeOK ==
  /\ sent \in [Clients -> 0..4] /\ ended \in [Clients -> BOOLEAN]
  /\ accepted \subseteq Clients
  /\ backlog \subseteq Clients /\ kons \subseteq Clients /\ open \subseteq Clients
  /\ \A c \in Clients : \E i, j, k \in 0..sent[c] :
       /\ wire[c] = SubSeq(Bytes(c), j + 1, k)
       /\ req[c] = SubSeq(Bytes(c), i + 1, j)
  /\ toasted \in [Clients -> Nat]
  /\ pc \in {"select", "accept", "serve", "clear", "done"}
  /\ isset \subseteq Clients /\ knock \in BOOLEAN

Init ==
  /\ sent = [c \in Clients |-> 0] /\ ended = [c \in Clients |-> FALSE]
  /\ accepted = {}
  /\ backlog = {} /\ kons = {} /\ open = {}
  /\ wire = [c \in Clients |-> <<>>] /\ req = [c \in Clients |-> <<>>]
  /\ toasted = [c \in Clients |-> 0]
  /\ pc = "select" /\ isset = {} /\ knock = FALSE

-----------------------------------------------------------------------------
(* The clients and the kernel.                                             *)

Connect(c) ==
  /\ c \notin backlog \cup open \cup kons /\ pc # "done"
  /\ backlog' = backlog \cup {c}
  /\ sent' = [sent EXCEPT ![c] = 1] /\ ended' = [ended EXCEPT ![c] = FALSE]
  /\ accepted' = accepted \ {c} /\ toasted' = [toasted EXCEPT ![c] = 0]
  /\ wire' = [wire EXCEPT ![c] = SubSeq(Bytes(c), 1, 1)]
  /\ UNCHANGED <<kons, open, req, pc, isset, knock>>

Sending(c) == c \in backlog \cup open /\ ~ended[c]

Send(c) ==
  /\ Sending(c) /\ sent[c] < Len(Bytes(c))
  /\ sent' = [sent EXCEPT ![c] = @ + 1]
  /\ wire' = [wire EXCEPT ![c] = Append(@, Bytes(c)[sent[c] + 1])]
  /\ UNCHANGED <<ended, accepted, backlog, kons, open, req, toasted, pc, isset, knock>>

ShutDown(c) ==
  /\ Sending(c)
  /\ ended' = [ended EXCEPT ![c] = TRUE]
  /\ UNCHANGED <<sent, accepted, backlog, kons, open, wire, req, toasted, pc, isset, knock>>

-----------------------------------------------------------------------------
(* RestSrv::_spin.                                                         *)

Readable(c) == c \in open /\ (wire[c] # <<>> \/ ended[c])

Select ==
  /\ pc = "select"
  /\ isset' = {c \in kons : Readable(c)}
  /\ knock' = (backlog # {})
  /\ pc' = IF knock' \/ isset' # {} THEN "accept" ELSE "clear"
  /\ UNCHANGED <<clientVars, backlog, kons, open, wire, req, toasted>>

(* select = -1, be it for a signal: the listener and all clients are closed *)
(* (sig_it) and, _bstop being up, thread_main returns                       *)
SelectFails ==
  /\ pc = "select"
  /\ backlog' = {} /\ kons' = {} /\ open' = {}
  /\ wire' = [c \in Clients |-> <<>>] /\ req' = [c \in Clients |-> <<>>]
  /\ pc' = "done"
  /\ UNCHANGED <<clientVars, toasted, isset, knock>>

(* thread_main stops calling _spin when the program is told to end          *)
Stops ==
  /\ pc = "select"
  /\ pc' = "done"
  /\ UNCHANGED <<clientVars, backlog, kons, open, wire, req, toasted, isset, knock>>

(* accept; a connection over the limit is closed, and the round ends there  *)
Refuse_Forget(c) == open' = open \cup {c} /\ UNCHANGED <<accepted, kons, wire, req>>
Refuse(c) ==
  /\ wire' = [wire EXCEPT ![c] = <<>>]
  /\ UNCHANGED <<accepted, kons, open, req>>

Full_Never == FALSE
Full == Cardinality(kons) > Limit

Accept ==
  /\ pc = "accept" /\ knock
  /\ \E c \in backlog :
        /\ backlog' = backlog \ {c}
        /\ IF Full
             THEN Refuse(c) /\ pc' = "select"
             ELSE /\ kons' = kons \cup {c} /\ open' = open \cup {c}
                  /\ accepted' = accepted \cup {c}
                  /\ pc' = "serve"
                  /\ UNCHANGED <<wire, req>>
  /\ UNCHANGED <<sent, ended, toasted, isset, knock>>

(* nobody knocked, or accept fails *)
NoAccept ==
  /\ pc = "accept"
  /\ pc' = "serve"
  /\ UNCHANGED <<clientVars, backlog, kons, open, wire, req, toasted, isset, knock>>

(* Tcli::term() empties _req and closes the socket                          *)
Term(c) ==
  /\ open' = open \ {c}
  /\ req' = [req EXCEPT ![c] = <<>>]
  /\ wire' = [wire EXCEPT ![c] = <<>>]

Toast(c) == toasted' = [toasted EXCEPT ![c] = @ + 1]

(* rt > 0: recv returns what is there; the end of the header is looked for  *)
(* in these bytes alone                                                     *)
Received_Stay(c) ==
  /\ req' = [req EXCEPT ![c] = @ \o wire[c]]
  /\ wire' = [wire EXCEPT ![c] = <<>>]
  /\ UNCHANGED open
  /\ IF HasEnd(wire[c]) THEN Toast(c) ELSE UNCHANGED toasted

Received_Peek(c) ==         \* the bytes stay in the kernel
  IF HasEnd(wire[c])
    THEN Toast(c) /\ Term(c)
    ELSE req' = [req EXCEPT ![c] = @ \o wire[c]] /\ UNCHANGED <<wire, open, toasted>>

Received(c) ==
  IF HasEnd(wire[c])
    THEN Toast(c) /\ Term(c)
    ELSE /\ req' = [req EXCEPT ![c] = @ \o wire[c]]
         /\ wire' = [wire EXCEPT ![c] = <<>>]
         /\ UNCHANGED <<open, toasted>>

(* rt = 0: the client ended; all it sent is looked through                  *)
HungUp_Drop(c) == Term(c) /\ UNCHANGED toasted
HungUp(c) ==
  /\ IF HasEnd(req[c]) THEN Toast(c) ELSE UNCHANGED toasted
  /\ Term(c)

Serve ==
  /\ pc = "serve"
  /\ \E c \in isset :
        /\ IF wire[c] # <<>> THEN Received(c) ELSE HungUp(c)
        /\ isset' = isset \ {c}
  /\ UNCHANGED <<clientVars, backlog, kons, pc, knock>>

Served ==
  /\ pc = "serve" /\ isset = {}
  /\ pc' = "clear"
  /\ UNCHANGED <<clientVars, backlog, kons, open, wire, req, toasted, isset, knock>>

(* _clear                                                                   *)
Clear ==
  /\ pc = "clear"
  /\ kons' = kons \cap open
  /\ pc' = "select"
  /\ UNCHANGED <<clientVars, backlog, open, wire, req, toasted, isset, knock>>

Spin == Select \/ Accept \/ NoAccept \/ Serve \/ Served \/ Clear

Next ==
  \/ \E c \in Clients : Connect(c) \/ Send(c) \/ ShutDown(c)
  \/ Spin \/ SelectFails \/ Stops

Spec == Init /\ [][Next]_vars

(* thread_main calls _spin for ever while the program runs                  *)
FairSpec == Spec /\ WF_vars(Spin)

-----------------------------------------------------------------------------
(* At most Limit + 1 clients hold a connection, whatever the order in which *)
(* they come and go (restsrv.cpp:318).                                      *)
Bounded == Cardinality(open) <= Limit + 1

(* Every socket the server holds is in _kons, where it will be read and     *)
(* closed: none is left behind by a refusal or by the early return that     *)
(* skips _clear.                                                            *)
NoLeak == open \subseteq kons

(* A request is answered once, although it is looked at when its header     *)
(* ends and again when the client hangs up, and bytes may come in between   *)
(* (restsrv.cpp:349-370).                                                   *)
AnsweredOnce == \A c \in Clients : toasted[c] <= 1

(* A client that was accepted, sent the whole header and shut down its side, *)
(* before or after it was accepted, does not wait for ever: it is answered,  *)
(* though its header may have arrived in pieces and others come, go and come *)
(* again.  Two things end the promise: the program's end, and refusals       *)
(* without end, since a round that refuses a connection reads nobody         *)
(* (restsrv.cpp:318-323).                                                    *)
Complete(c) == c \in accepted /\ ended[c] /\ HasEnd(SubSeq(Bytes(c), 1, sent[c]))
Waits(c) == Complete(c) /\ toasted[c] = 0
Refusing == pc = "accept" /\ knock /\ Full
HungUpAnswered ==
  <>[]~Refusing => \A c \in Clients : []<>(~Waits(c) \/ pc = "done")

(* The same without the proviso does not hold: clients that knock each time *)
(* they are refused keep the server from reading the others.                *)
AnsweredWhileRefusing == \A c \in Clients : []<>(~Waits(c) \/ pc = "done")
=============================================================================
