----------------------------- MODULE UartStream -----------------------------
(***************************************************************************)
(* A serial line and the script that talks over it: the calls of RtxBus    *)
(* (rtxbus.h) over the reads and writes of DvSerial (dserial.cpp), and the *)
(* callback of UartDev (uartdev.cpp, divais.h) in the scan of the main     *)
(* loop.  UsbDev has the same text (usbdev.cpp).                           *)
(*                                                                         *)
(* The line is open and everything runs on the main thread; bytes arrive   *)
(* and leave at any time.  bread() returns when its buffer is full or the  *)
(* line was silent for a while: a step takes what has arrived by then.     *)
(* That a deadline is over may be found after any read.                    *)
(***************************************************************************)
EXTENDS Naturals, Sequences

CONSTANTS Bytes,       \* what the line carries
          Nul,         \* '\0', among them or not
          Arrays,      \* the arrays of tokens scripts pass to expect_any
          Strings,     \* the strings they pass to expect_str
          Lengths,     \* the lengths of the texts they write
          AsText,      \* the device is an eSTRING, not an eBINARY
          Bufsz,       \* RtxBus::_bufsz
          Maxbufsz,    \* RtxBus::_maxbufsz
          MaxArrived,  \* bound: bytes that arrive
          MaxWrites    \* bound: calls that write

NoNul(s) == \A i \in 1..Len(s) : s[i] # Nul

ASSUME TokensAssumption ==
  /\ \A a \in Arrays : a \in Seq(Seq(Bytes))
                       /\ \A i \in 1..Len(a) : a[i] # <<>> /\ NoNul(a[i])
  /\ \A s \in Strings : s \in Seq(Bytes) /\ s # <<>> /\ NoNul(s)
ASSUME SizesAssumption ==
  /\ Bufsz \in Nat /\ Bufsz > 2 /\ Maxbufsz \in Nat
  /\ Lengths \subseteq Nat /\ MaxArrived \in Nat /\ MaxWrites \in Nat
  /\ AsText \in BOOLEAN

VARIABLES
  rx,        \* every byte that arrived (history)
  taken,     \* how many of them were read from the kernel or flushed
  txq,       \* the kernel's output queue: <<write, byte of its text>>
  wire,      \* what left it (history)
  pc,        \* the call that is under way
  loco,      \* its buffer
  t1,        \* RtxBus::_t1
  want,      \* the tokens it waits for
  left,      \* bwrite: how much there is to send, and how much was sent
  after,     \* what follows when bwrite has returned
  writes,    \* calls that write so far
  hooked,    \* _monitor, with a function in _on_event
  dirty,     \* _mon_dirt
  incb,      \* the callback runs
  start,     \* what was taken when the call began (history)
  mark,      \* what was taken when the script was handed a piece (history)
  piece,     \* the piece (history)
  owed       \* a write was accepted and not followed by a scan (history)

line    == <<rx, taken>>
out     == <<txq, wire, left, after, writes>>
locals  == <<loco, want, start>>
call    == <<t1, locals>>
flags   == <<hooked, dirty, incb>>
told    == <<mark, piece>>
vars    == <<line, out, pc, call, flags, told, owed>>

Cap   == Bufsz - 2             \* bytes_t::cap()
Cr    == 0                     \* the end of line putsln adds, as a byte of a write
Afters == {"idle", "cr", "answer", "web"}
Expecting == {"any", "str", "bin"}
Sent  == (1..MaxWrites) \X Nat

TypeOK ==
  /\ rx \in Seq(Bytes) /\ Len(rx) <= MaxArrived /\ taken \in 0..Len(rx)
  /\ txq \in Seq(Sent) /\ wire \in Seq(Sent)
  /\ pc \in {"idle", "write", "cr", "answer"} \cup Expecting
  /\ loco \in Seq(Bytes \cup {Nul}) /\ Len(loco) < Bufsz
  /\ t1 \in Seq(Bytes \cup {Nul})
  /\ want \in Seq(Seq(Bytes)) /\ start \in 0..taken
  /\ left \in [size : Nat, sent : Nat] /\ left.sent <= left.size
  /\ after \in Afters /\ writes \in 0..MaxWrites
  /\ hooked \in BOOLEAN /\ dirty \in BOOLEAN /\ incb \in BOOLEAN
  /\ mark \in 0..taken /\ piece \in Seq(Bytes) /\ owed \in BOOLEAN

Zeros == [i \in 1..(Bufsz - 1) |-> Nul]     \* bytes_t(_bufsz)

(* The script opened the line. *)
Init ==
  /\ rx = <<>> /\ taken = 0 /\ txq = <<>> /\ wire = <<>>
  /\ pc = "idle" /\ loco = <<>> /\ t1 = Zeros /\ want = <<>> /\ start = 0
  /\ left = [size |-> 0, sent |-> 0] /\ after = "idle" /\ writes = 0
  /\ hooked = FALSE /\ dirty = FALSE /\ incb = FALSE
  /\ mark = 0 /\ piece = <<>> /\ owed = FALSE

-----------------------------------------------------------------------------
(* The line.                                                               *)

Arrive(b) ==
  /\ Len(rx) < MaxArrived
  /\ rx' = Append(rx, b)
  /\ UNCHANGED <<taken, out, pc, call, flags, told, owed>>

Transmit ==
  /\ txq # <<>>
  /\ wire' = Append(wire, Head(txq)) /\ txq' = Tail(txq)
  /\ UNCHANGED <<line, left, after, writes, pc, call, flags, told, owed>>

-----------------------------------------------------------------------------
(* What the calls do with bytes.                                           *)

Least(a, b) == IF a < b THEN a ELSE b

(* DvSerial::bread with a buffer of the usual size *)
Count_Whole == Len(rx) - taken
Count == Least(Cap, Len(rx) - taken)
Chunk == SubSeq(rx, taken + 1, taken + Count)

(* a char* made of bytes ends at the first '\0': the length of its text *)
EndsAt(s, n) == NoNul(SubSeq(s, 1, n)) /\ (n < Len(s) => s[n + 1] = Nul)

Occurs(token, text) ==
  \E i \in 0..(Len(text) - Len(token)) :
     SubSeq(text, i + 1, i + Len(token)) = token

(* loco.resize(bytes) after bread: bytes beyond the size the buffer had     *)
(* become '\0'.                                                            *)
Resized == [i \in 1..Count |-> IF i <= Len(loco) THEN Chunk[i] ELSE Nul]

(* bread wrote its bytes and a '\0' into the buffer *)
Overwritten_Open == Chunk \o SubSeq(loco, Count + 1, Len(loco))
Overwritten == Chunk \o <<Nul>> \o SubSeq(loco, Count + 2, Len(loco))

(* _truncate *)
Truncate(text) ==
  IF Len(text) > Maxbufsz THEN SubSeq(text, (Bufsz \div 4) + 1, Len(text)) ELSE text

(* The text searched after a read, and the patterns searched for.           *)
(* expect_any appends what it read.  expect_str appends what follows it in  *)
(* the buffer, the two arguments of append being a string and a position;   *)
(* so does expect_bin, whose buffer ends there, and whose pattern is one    *)
(* byte short, as bytes_t(sz) is.                                           *)
Buffer == IF pc = "str" THEN Overwritten ELSE Resized
Text ==
  CASE pc = "any" -> t1 \o Resized
    [] pc = "str" -> t1 \o SubSeq(Overwritten, Count + 1, Len(Overwritten))
    [] OTHER      -> t1
Pattern(i) == IF pc = "bin" THEN SubSeq(want[i], 1, Len(want[i]) - 1) ELSE want[i]
Found == {i \in 1..Len(want) : Occurs(Pattern(i), Text)}
First(i) == i \in Found /\ \A j \in Found : i <= j

Hand(s, n) == piece' = s /\ mark' = n

(* A call returns, and its local variables are gone. *)
Return == pc' = "idle" /\ loco' = <<>> /\ want' = <<>> /\ start' = 0

-----------------------------------------------------------------------------
(* expect_any, expect_str and expect_bin.                                  *)

Expect_Keeping(kind, tokens) ==
  /\ pc = "idle"
  /\ pc' = kind /\ want' = tokens /\ start' = taken
  /\ loco' = Zeros
  /\ UNCHANGED <<t1, line, out, flags, told, owed>>

Expect(kind, tokens) ==
  /\ pc = "idle"
  /\ pc' = kind /\ want' = tokens /\ start' = taken
  /\ t1' = <<>> /\ loco' = Zeros
  /\ UNCHANGED <<line, out, flags, told, owed>>

(* A read brought something.  The script is told of a token it found; of an *)
(* array of bytes it learns only that some were read.                       *)
Poll ==
  /\ pc \in Expecting /\ Count > 0
  /\ taken' = taken + Count /\ dirty' = TRUE
  /\ t1' = IF pc = "str" /\ Found # {} THEN Text ELSE Truncate(Text)
  /\ IF Found = {}
       THEN loco' = Buffer /\ UNCHANGED <<pc, want, start, told>>
       ELSE /\ Return
            /\ \/ pc = "bin" /\ UNCHANGED told
               \/ pc # "bin" /\ \E i \in Found : First(i) /\ Hand(want[i], taken')
  /\ UNCHANGED <<rx, out, hooked, incb, owed>>

(* tick_count() >= fut *)
GiveUp ==
  /\ pc \in Expecting \cup {"answer"}
  /\ Return
  /\ UNCHANGED <<line, out, t1, flags, told, owed>>

-----------------------------------------------------------------------------
(* gets and read, and the answer write_cb waits for.                       *)

(* The script gets the first n bytes of what was read.                      *)
Given(n) == IF n = 0 THEN UNCHANGED told ELSE Hand(SubSeq(Chunk, 1, n), taken + Count)

Read(n) ==
  /\ Count > 0
  /\ taken' = taken + Count /\ dirty' = TRUE
  /\ Given(n)
  /\ pc' = "idle"
  /\ UNCHANGED <<rx, out, locals, hooked, incb, owed>>

Gets ==
  /\ pc = "idle"
  /\ \E n \in 0..Count : EndsAt(Chunk, n) /\ Read(n)
  /\ t1' = Chunk
ReadArray == pc = "idle" /\ Read(Count) /\ UNCHANGED t1
Answer == pc = "answer" /\ Read(Count) /\ UNCHANGED t1

-----------------------------------------------------------------------------
(* Writing.                                                                *)

(* _devflush: tcflush(TCIOFLUSH), and both texts are cleared *)
Flushed == taken' = Len(rx) /\ txq' = <<>> /\ t1' = <<>>

Flush ==
  /\ pc = "idle"
  /\ Flushed
  /\ UNCHANGED <<rx, wire, left, after, writes, pc, loco, want, start, flags, told, owed>>

(* bwrite(text of n bytes) begins, and `then` follows it *)
Start(n, then) ==
  /\ pc = "idle" /\ writes < MaxWrites
  /\ pc' = "write" /\ writes' = writes + 1
  /\ left' = [size |-> n, sent |-> 0] /\ after' = then

(* puts and write ("idle"), putsln ("cr"), write_cb ("answer").  puts_cb is *)
(* puts: its loop ends before it begins, and its callback hears nothing.    *)
Write(n, then) ==
  /\ Start(n, then)
  /\ Flushed
  /\ UNCHANGED <<rx, wire, loco, want, start, flags, told, owed>>

(* UartDev::_set_value, for a REST client: no flush *)
WebWrite(n) ==
  /\ ~incb
  /\ Start(n, "web")
  /\ UNCHANGED <<line, txq, wire, call, flags, told, owed>>

(* write(2) takes some bytes *)
Put_FromStart(n) ==
  /\ pc = "write" /\ n \in 1..(left.size - left.sent)
  /\ txq' = txq \o [i \in 1..n |-> <<writes, i>>]
  /\ left' = [left EXCEPT !.sent = @ + n]
  /\ UNCHANGED <<line, wire, after, writes, pc, call, flags, told, owed>>

Put(n) ==
  /\ pc = "write" /\ n \in 1..(left.size - left.sent)
  /\ txq' = txq \o [i \in 1..n |-> <<writes, left.sent + i>>]
  /\ left' = [left EXCEPT !.sent = @ + n]
  /\ UNCHANGED <<line, wire, after, writes, pc, call, flags, told, owed>>

Accepted(yes) == dirty' = (dirty \/ yes \/ after = "web") /\ owed' = (owed \/ yes)

WriteReturns(rv) ==
  /\ pc' = CASE after = "cr" -> "cr"
             [] after = "answer" /\ rv # 0 -> "answer"
             [] OTHER -> "idle"
  /\ after' = "idle" /\ left' = [size |-> 0, sent |-> 0]

(* Everything is sent, or the time for it is over: bwrite returns how much. *)
WriteEnds ==
  /\ pc = "write"
  /\ Accepted(left.sent > 0)
  /\ WriteReturns(left.sent)
  /\ UNCHANGED <<line, txq, wire, writes, call, hooked, incb, told>>

(* An error: bwrite returns -1, whatever it sent before, and no event.      *)
WriteFails ==
  /\ pc = "write" /\ left.sent < left.size
  /\ Accepted(FALSE)
  /\ WriteReturns(1)
  /\ UNCHANGED <<line, txq, wire, writes, call, hooked, incb, told>>

(* putsln writes the end of line, whatever became of the text.              *)
EndLine ==
  /\ pc = "cr" /\ pc' = "idle"
  /\ \E yes \in BOOLEAN :
        /\ txq' = IF yes THEN Append(txq, <<writes, Cr>>) ELSE txq
        /\ Accepted(yes)
  /\ UNCHANGED <<line, wire, left, after, writes, call, hooked, incb, told>>

-----------------------------------------------------------------------------
(* The callback.                                                           *)

(* set_cb *)
SetCb(on) ==
  /\ pc = "idle"
  /\ hooked' = on /\ dirty' = (dirty \/ on)
  /\ UNCHANGED <<line, out, pc, call, incb, told, owed>>

(* notify_ifdirty and _mon_callback: the flag goes down, the read raises it *)
(* and _call_cb takes it down again before it calls the script.             *)
Scan ==
  /\ pc = "idle" /\ ~incb
  /\ hooked /\ dirty
  /\ taken' = taken + Count /\ owed' = FALSE
  /\ \E n \in 0..Count :
       /\ IF AsText THEN EndsAt(Chunk, n) ELSE n = Count
       /\ incb' = (n > 0) /\ dirty' = (Count > 0 /\ n = 0)
       /\ Given(n)
  /\ t1' = IF AsText /\ Count > 0 THEN Chunk ELSE t1
  /\ UNCHANGED <<rx, out, pc, loco, want, start, hooked>>

CallbackEnds_Clearing ==
  /\ incb /\ pc = "idle"
  /\ incb' = FALSE /\ dirty' = FALSE
  /\ UNCHANGED <<line, out, pc, call, hooked, told, owed>>

CallbackEnds ==
  /\ incb /\ pc = "idle"
  /\ incb' = FALSE
  /\ UNCHANGED <<line, out, pc, call, hooked, dirty, told, owed>>

-----------------------------------------------------------------------------
Waiting ==
  \/ \E a \in Arrays : Expect("any", a)
  \/ \E s \in Strings : Expect("str", <<s>>) \/ Expect("bin", <<s>>)

Writing ==
  \E n \in Lengths :
     \/ \E then \in Afters \ {"web"} : Write(n, then)
     \/ WebWrite(n)

InCall == Poll \/ Answer \/ GiveUp \/ (\E n \in 1..left.size : Put(n)) \/ WriteEnds
          \/ WriteFails \/ EndLine

Next ==
  \/ \E b \in Bytes : Arrive(b)
  \/ Transmit
  \/ Waiting \/ Gets \/ ReadArray \/ Flush \/ Writing
  \/ InCall
  \/ \E on \in BOOLEAN : SetCb(on)
  \/ Scan \/ CallbackEnds

Spec == Init /\ [][Next]_vars

(* Deadlines pass, and a function of the script makes finitely many calls   *)
(* before it returns.                                                       *)
FairSpec ==
  /\ Spec
  /\ WF_vars(GiveUp \/ WriteEnds \/ EndLine)
  /\ SF_vars(CallbackEnds) /\ SF_vars(Scan)

-----------------------------------------------------------------------------
(* What the script is handed, by gets, read, a callback or an expect        *)
(* function that found its token, came over the line in one run, after      *)
(* everything it was handed before (rtxbus.h:275-333, uartdev.cpp:67-80):   *)
(* the zeros and left-overs in the buffers never make up a token.           *)
Stream == INSTANCE ByteStream WITH input <- rx, seen <- taken
StreamInOrder == Stream!Spec

(* Of a text that is written, the bytes on the wire are its first ones, in *)
(* order and none twice (dserial.cpp:329-364), whatever was flushed and     *)
(* however write(2) cut it.                                                 *)
TextFromStart ==
  \A i \in 1..Len(wire) : LET s == wire[i] IN
    /\ s[2] > 1 => i > 1 /\ wire[i - 1] = <<s[1], s[2] - 1>>
    /\ \A j \in 1..(i - 1) : wire[j] # s

(* After a write the line took, a monitored device is read again            *)
(* (divais.h:106-112, 133-148), also when the callback itself wrote.        *)
AnswerRead == (hooked /\ owed) ~> (~owed \/ ~hooked)

(* rtxbus.h:274, "any from array of strings": expect_any gives up only when *)
(* none of its tokens came since it began.                                  *)
GivesUpRightly ==
  [][pc = "any" /\ GiveUp
       => \A i \in 1..Len(want) : ~Occurs(want[i], SubSeq(rx, start + 1, taken))]_vars

(* bin/uart_login.cs:47-48 sends two lines: what bwrite took goes out, and  *)
(* the next call does not throw it away.                                    *)
NothingDropped ==
  [][\A i \in 1..Len(txq) : \E j \in 1..Len(wire \o txq)' :
                              (wire \o txq)'[j] = txq[i]]_vars
=============================================================================
