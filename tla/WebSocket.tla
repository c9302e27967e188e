----------------------------- MODULE WebSocket -----------------------------
(***************************************************************************)
(* Two WebSocket endpoints of src/ws (stream.rs), a client and a server,   *)
(* over one TCP connection.  Both run this code.                           *)
(*                                                                         *)
(* An endpoint is a reader (Frames::next and below) and a writer           *)
(* (Writer::send_frame) that share close_state.  They are coroutines of    *)
(* one thread, so they interleave at awaits only, and an action is what    *)
(* happens from one await to the next.  Unless the application splits the  *)
(* WebSocket, one task calls both and they never overlap (constant Split). *)
(*                                                                         *)
(* The application is the environment: it sends frames from Frames, calls  *)
(* next() when it likes, may interrupt a call (MayInterrupt) and may drop  *)
(* the WebSocket at any moment (MayDrop).  It does not use a half again    *)
(* once that half has returned an error.                                   *)
(***************************************************************************)
EXTENDS WsFrame

CONSTANTS
  Frames,            \* the frames the applications send
  MaxSends,          \* bound: frames an endpoint's application sends
  MaxMessageLength,  \* WebSocketOptions::max_message_length, per endpoint
  Capacity,          \* bound: units in flight in one direction
  Split,             \* endpoints whose halves belong to two tasks
  MayInterrupt,      \* endpoints whose application interrupts calls
  MayDrop            \* endpoints whose application may drop the WebSocket

Endpoints == {"client", "server"}
Peer(e)   == IF e = "client" THEN "server" ELSE "client"

ASSUME FramesAssumption   == Frames \subseteq BorrowedFrame
ASSUME LimitsAssumption   == /\ MaxSends \in [Endpoints -> Nat]
                             /\ MaxMessageLength \in [Endpoints -> Nat]
                             /\ Capacity \in Nat \ {0}
ASSUME EnvironmentAssumption ==
  Split \subseteq Endpoints /\ MayInterrupt \subseteq Endpoints /\ MayDrop \subseteq Endpoints

VARIABLES
  close_state,          \* Shared::close_state
  last_sent_message_op, \* Writer's, "None" between messages
  expect_continuation,  \* Reader's
  current_message,      \* Reader's, op "None" when there is none
  wpc,                  \* where the writer is suspended
  out,                  \* what it has still to write
  rpc,                  \* where the reader is suspended
  frame,                \* the header whose payload the reader waits for
  pending,              \* the Close frame the reader holds during close()
  error,                \* the error the reader returned
  wire,                 \* wire[e]: written by e, not yet read by its peer
  wshut,                \* wshut[e]: e's direction ends with a FIN
  sent,                 \* history: the frames send_frame accepted
  got                   \* history: the frames next() returned

writerVars == << last_sent_message_op, wpc, out, sent >>
readerVars == << expect_continuation, current_message, rpc, frame, pending, error, got >>
vars       == << close_state, wire, wshut, writerVars, readerVars >>

-----------------------------------------------------------------------------
NoHeader  == Header("Close", TRUE, FALSE, 0)
NoMessage == [op |-> "None", buf |-> << >>]
NoFrame   == [op |-> "Close", code |-> NoClose, bytes |-> << >>]

\* suspended in close(), called from send_frame or from read_frame
WriterCloses == {"CloseWrite", "CloseShutdown", "CloseHangUp"}
ReaderCloses == {"CloseShutdown", "CloseHangUp"}

WriterStates == {"Idle", "Write", "Failed", "Gone"} \cup WriterCloses
ReaderStates == {"Idle", "Header", "Payload", "Failed", "Panicked", "Gone"} \cup ReaderCloses

ReadErrors == {"None", "MessageTooLong", "Shutdown", "UnexpectedEof", "Io"} \cup ProtocolErrors

Gone(e) == rpc[e] = "Gone"

Init ==
  /\ close_state          = [e \in Endpoints |-> "None"]
  /\ last_sent_message_op = [e \in Endpoints |-> "None"]
  /\ expect_continuation  = [e \in Endpoints |-> FALSE]
  /\ current_message      = [e \in Endpoints |-> NoMessage]
  /\ wpc                  = [e \in Endpoints |-> "Idle"]
  /\ out                  = [e \in Endpoints |-> << >>]
  /\ rpc                  = [e \in Endpoints |-> "Idle"]
  /\ frame                = [e \in Endpoints |-> NoHeader]
  /\ pending              = [e \in Endpoints |-> NoFrame]
  /\ error                = [e \in Endpoints |-> "None"]
  /\ wire                 = [e \in Endpoints |-> << >>]
  /\ wshut                = [e \in Endpoints |-> FALSE]
  /\ sent                 = [e \in Endpoints |-> << >>]
  /\ got                  = [e \in Endpoints |-> << >>]

-----------------------------------------------------------------------------
(* The writer.                                                             *)

\* An application that has not split the WebSocket makes one call at a time.
MaySend(e) == wpc[e] = "Idle" /\ (e \in Split \/ rpc[e] \in {"Idle", "Failed"})
MayRead(e) == rpc[e] = "Idle" /\ (e \in Split \/ wpc[e] \in {"Idle", "Failed"})

\* mutant: a fragment after the first keeps its operation code
WireOp_NoContinuation(e, f) == f.op

WireOp(e, f) ==
  IF ~is_control(f.op) /\ last_sent_message_op[e] # "None" THEN "Continuation" ELSE f.op

\* mutant: the operation is noted down after it became Continuation
LastSentAfter_WireOp(e, f) ==
  CASE is_control(f.op) -> last_sent_message_op[e]
    [] ~is_control(f.op) /\ f.fin -> "None"
    [] OTHER -> WireOp(e, f)

LastSentAfter(e, f) ==
  CASE is_control(f.op) -> last_sent_message_op[e]
    [] ~is_control(f.op) /\ f.fin -> "None"
    [] OTHER -> f.op

(* send_frame up to its first await.  A frame it rejects changes nothing.  *)
Send(e, f) ==
  /\ MaySend(e)
  /\ Len(sent[e]) < MaxSends[e]
  /\ can_write(close_state[e])
  /\ ControlFits(f)
  /\ is_control(f.op) \/ last_sent_message_op[e] \in {"None", f.op}
  /\ out' = [out EXCEPT ![e] = Encode(f, WireOp(e, f), e = "client")]
  /\ last_sent_message_op' = [last_sent_message_op EXCEPT ![e] = LastSentAfter(e, f)]
  /\ sent' = [sent EXCEPT ![e] = Append(@, f)]
  /\ IF f.op = "Close"
     THEN /\ close_state' = [close_state EXCEPT ![e] = shutdown_state(@, "Write")]
          /\ wpc' = [wpc EXCEPT ![e] =
                       IF shutdown_both(close_state[e], "Write") THEN "CloseWrite" ELSE "Write"]
     ELSE /\ wpc' = [wpc EXCEPT ![e] = "Write"]
          /\ UNCHANGED close_state
  /\ UNCHANGED << wire, wshut, readerVars >>

(* write_all_vectored gets one more unit out; after the last one send_frame*)
(* returns, or goes on with close().                                       *)
Write(e) ==
  /\ wpc[e] \in {"Write", "CloseWrite"}
  /\ ~wshut[e]
  /\ Len(wire[e]) < Capacity
  /\ wire' = [wire EXCEPT ![e] = Append(@, Head(out[e]))]
  /\ out' = [out EXCEPT ![e] = Tail(@)]
  /\ wpc' = [wpc EXCEPT ![e] = IF Len(out[e]) > 1 THEN @
                               ELSE IF @ = "Write" THEN "Idle" ELSE "CloseShutdown"]
  /\ UNCHANGED << close_state, last_sent_message_op, wshut, sent, readerVars >>

(* A write fails on a closed socket, or is interrupted; send_frame returns *)
(* the error and what it has not written is lost.                          *)
WriteFails(e) ==
  /\ wpc[e] = "Write"
  /\ wshut[e] \/ Gone(Peer(e)) \/ e \in MayInterrupt
  /\ wpc' = [wpc EXCEPT ![e] = "Failed"]
  /\ out' = [out EXCEPT ![e] = << >>]
  /\ UNCHANGED << close_state, last_sent_message_op, wire, wshut, sent, readerVars >>

WriterShutdown(e) ==
  /\ wpc[e] = "CloseShutdown"
  /\ wshut' = [wshut EXCEPT ![e] = TRUE]
  /\ wpc' = [wpc EXCEPT ![e] = "CloseHangUp"]
  /\ UNCHANGED << close_state, last_sent_message_op, out, wire, sent, readerVars >>

WriterHangUp(e) ==
  /\ wpc[e] = "CloseHangUp"
  /\ wshut[Peer(e)]
  /\ wpc' = [wpc EXCEPT ![e] = "Idle"]
  /\ UNCHANGED << close_state, last_sent_message_op, out, wire, wshut, sent, readerVars >>

\* mutant: close() without a timeout
WriterCloseTimeout_Never(e) ==
  wpc[e] \in WriterCloses /\ wshut[Peer(e)] /\ WriterHangUp(e)

(* close() ends do_close after close_timeout, or when it fails, and is Ok. *)
WriterCloseTimeout(e) ==
  /\ wpc[e] \in WriterCloses
  /\ wpc' = [wpc EXCEPT ![e] = "Idle"]
  /\ out' = [out EXCEPT ![e] = << >>]
  /\ UNCHANGED << close_state, last_sent_message_op, wire, wshut, sent, readerVars >>

-----------------------------------------------------------------------------
(* The reader.                                                             *)

\* next(): None, and no change, once the read side is shut down
Next_(e) ==
  /\ MayRead(e)
  /\ can_read(close_state[e])
  /\ rpc' = [rpc EXCEPT ![e] = "Header"]
  /\ UNCHANGED << close_state, wire, wshut, writerVars,
                  expect_continuation, current_message, frame, pending, error, got >>

Deliver(e, f) == got' = [got EXCEPT ![e] = Append(@, f)]

\* mutant: each fragment starts the buffer anew
MessageSoFar_Cleared(e, h) ==
  [op  |-> IF current_message[e] = NoMessage THEN h.op ELSE current_message[e].op,
   buf |-> << >>]

MessageSoFar(e, h) == IF current_message[e] = NoMessage THEN [op |-> h.op, buf |-> << >>]
                                                   ELSE current_message[e]

Item(op, bytes) == [op |-> op, code |-> 0, bytes |-> bytes]

(* What read_frame does with a frame whose payload is there, cs being the  *)
(* close_state it finds; next_frame reads on after a fragment.             *)
ControlFrame(e, h, bytes) ==
  /\ h.op \in {"Ping", "Pong"}
  /\ Deliver(e, Item(h.op, bytes))
  /\ rpc' = [rpc EXCEPT ![e] = "Idle"]
  /\ UNCHANGED << current_message, pending, error >>

CloseFrame(e, h, bytes, cs) ==
  /\ h.op = "Close"
  /\ IF should_close(cs)
     THEN /\ pending' = [pending EXCEPT ![e] = DecodeClose(bytes)]
          /\ rpc' = [rpc EXCEPT ![e] = "CloseShutdown"]
          /\ UNCHANGED got
     ELSE /\ Deliver(e, DecodeClose(bytes))
          /\ rpc' = [rpc EXCEPT ![e] = "Idle"]
          /\ UNCHANGED pending
  /\ UNCHANGED << current_message, error >>

MessageFragment(e, h, bytes, cs) ==
  /\ ~is_control(h.op) /\ ~h.fin
  /\ current_message' =
       [current_message EXCEPT ![e] = [MessageSoFar(e, h) EXCEPT !.buf = @ \o bytes]]
  /\ rpc' = [rpc EXCEPT ![e] = IF can_read(cs) THEN "Header" ELSE "Failed"]
  /\ error' = [error EXCEPT ![e] = IF can_read(cs) THEN @ ELSE "Shutdown"]
  /\ UNCHANGED << pending, got >>

MessageEnd(e, h, bytes) ==
  /\ ~is_control(h.op) /\ h.fin
  /\ current_message' = [current_message EXCEPT ![e] = NoMessage]
  /\ IF MessageSoFar(e, h).op \in DataOps
     THEN /\ Deliver(e, Item(MessageSoFar(e, h).op, MessageSoFar(e, h).buf \o bytes))
          /\ rpc' = [rpc EXCEPT ![e] = "Idle"]
     ELSE /\ rpc' = [rpc EXCEPT ![e] = "Panicked"]
          /\ UNCHANGED got
  /\ UNCHANGED << pending, error >>

FinishFrame(e, h, bytes, cs) ==
  \/ ControlFrame(e, h, bytes)
  \/ CloseFrame(e, h, bytes, cs)
  \/ MessageFragment(e, h, bytes, cs)
  \/ MessageEnd(e, h, bytes)

ReadFails(e, err) ==
  /\ rpc' = [rpc EXCEPT ![e] = "Failed"]
  /\ error' = [error EXCEPT ![e] = err]
  /\ UNCHANGED << pending, got >>

\* mutant: only the frame is measured, not the message
TooLong_FrameOnly(e, h) == h.len > MaxMessageLength[e]

\* both limits read_frame puts on a frame: alone, and added to its message
TooLong(e, h) ==
  \/ h.len > MaxMessageLength[e]
  \/ ~is_control(h.op) /\ Len(MessageSoFar(e, h).buf) + h.len > MaxMessageLength[e]

Verdict(e, h) ==
  LET err == HeaderError(h, expect_continuation[e], e = "client")
  IN  IF err = "None" /\ TooLong(e, h) THEN "MessageTooLong" ELSE err

\* the message is begun before its length is added up
BeginsMessage(e, h) ==
  /\ HeaderError(h, expect_continuation[e], e = "client") = "None"
  /\ ~is_control(h.op)
  /\ h.len <= MaxMessageLength[e]

\* mutant: a Close frame leaves the read side open
StateAfterHeader_StillOpen(e, h) == close_state[e]

StateAfterHeader(e, h) ==
  IF h.op = "Close" /\ HeaderError(h, expect_continuation[e], e = "client") = "None"
  THEN shutdown_state(close_state[e], "Read")
  ELSE close_state[e]

(* A header arrives: read_frame_header's checks, then read_frame up to the *)
(* await for the payload, or to the end of an empty frame.                 *)
ReadHeader(e) ==
  /\ rpc[e] = "Header"
  /\ wire[Peer(e)] # << >> /\ Head(wire[Peer(e)]).kind = "header"
  /\ LET h == Head(wire[Peer(e)])
     IN  /\ expect_continuation' = [expect_continuation EXCEPT ![e] =
               NextExpectation(h, HeaderError(h, @, e = "client"), @)]
         /\ close_state' = [close_state EXCEPT ![e] = StateAfterHeader(e, h)]
         /\ \/ /\ Verdict(e, h) # "None"
               /\ ReadFails(e, Verdict(e, h))
               /\ current_message' = [current_message EXCEPT ![e] =
                                        IF BeginsMessage(e, h) THEN MessageSoFar(e, h) ELSE @]
               /\ UNCHANGED frame
            \/ /\ Verdict(e, h) = "None"
               /\ h.len > 0
               /\ frame' = [frame EXCEPT ![e] = h]
               /\ rpc' = [rpc EXCEPT ![e] = "Payload"]
               /\ current_message' = [current_message EXCEPT ![e] =
                                        IF is_control(h.op) THEN @ ELSE MessageSoFar(e, h)]
               /\ UNCHANGED << pending, error, got >>
            \/ /\ Verdict(e, h) = "None"
               /\ h.len = 0
               /\ FinishFrame(e, h, << >>, StateAfterHeader(e, h))
               /\ UNCHANGED frame
  /\ wire' = [wire EXCEPT ![Peer(e)] = Tail(@)]
  /\ UNCHANGED << wshut, writerVars >>

(* The payload arrives.  The reader takes the bytes the header announced;  *)
(* what the writer put behind them stays in the stream.                    *)
ReadPayload(e) ==
  /\ rpc[e] = "Payload"
  /\ wire[Peer(e)] # << >> /\ Head(wire[Peer(e)]).kind = "data"
  /\ LET bytes == Head(wire[Peer(e)]).bytes
         len   == frame[e].len
     IN  /\ len <= Len(bytes)
         /\ FinishFrame(e, frame[e], SubSeq(bytes, 1, len), close_state[e])
         /\ wire' = [wire EXCEPT ![Peer(e)] =
                       IF len < Len(bytes)
                       THEN << Data(SubSeq(bytes, len + 1, Len(bytes))) >> \o Tail(@)
                       ELSE Tail(@)]
  /\ UNCHANGED << close_state, wshut, writerVars, expect_continuation, frame >>

Zeros(n) == [i \in 1 .. n |-> 0]

\* mutant: a half-closed connection is not taken for its end
AtEof_OnlyGone(e) == wire[Peer(e)] = << >> /\ Gone(Peer(e))

AtEof(e) == wire[Peer(e)] = << >> /\ wshut[Peer(e)]

(* The stream ends inside a payload.  What read_fully makes of that is the *)
(* library's choice: read_frame does not look at the length it returns, and*)
(* the bytes that did not come are the zeros the buffer was filled with.   *)
ReadPayloadEof(e) ==
  /\ rpc[e] = "Payload" /\ AtEof(e)
  /\ \/ FinishFrame(e, frame[e], Zeros(frame[e].len), close_state[e])
     \/ ReadFails(e, "UnexpectedEof") /\ UNCHANGED current_message
  /\ UNCHANGED << close_state, wire, wshut, writerVars, expect_continuation, frame >>

\* the stream ends where a header should begin
ReadEof(e) ==
  /\ rpc[e] = "Header" /\ AtEof(e)
  /\ close_state' = [close_state EXCEPT ![e] = shutdown_state(@, "Read")]
  /\ Deliver(e, NoFrame)
  /\ rpc' = [rpc EXCEPT ![e] = "Idle"]
  /\ UNCHANGED << wire, wshut, writerVars,
                  expect_continuation, current_message, frame, pending, error >>

\* the connection is reset, or the application interrupts next()
ReadInterrupted(e) ==
  /\ rpc[e] \in {"Header", "Payload"}
  /\ Gone(Peer(e)) \/ e \in MayInterrupt
  /\ ReadFails(e, "Io")
  /\ UNCHANGED << close_state, wire, wshut, writerVars,
                  expect_continuation, current_message, frame >>

ReaderShutdown(e) ==
  /\ rpc[e] = "CloseShutdown"
  /\ wshut' = [wshut EXCEPT ![e] = TRUE]
  /\ rpc' = [rpc EXCEPT ![e] = "CloseHangUp"]
  /\ UNCHANGED << close_state, wire, writerVars,
                  expect_continuation, current_message, frame, pending, error, got >>

\* close() is over, hung up or timed out: next() returns the Close frame
ReaderClosed(e) ==
  /\ Deliver(e, pending[e])
  /\ rpc' = [rpc EXCEPT ![e] = "Idle"]
  /\ UNCHANGED << close_state, wire, wshut, writerVars,
                  expect_continuation, current_message, frame, pending, error >>

ReaderHangUp(e) ==
  rpc[e] = "CloseHangUp" /\ wshut[Peer(e)] /\ ReaderClosed(e)

ReaderCloseTimeout(e) ==
  rpc[e] \in ReaderCloses /\ ReaderClosed(e)

-----------------------------------------------------------------------------
(* The application drops the WebSocket, whatever its tasks are doing, and  *)
(* the socket is closed.                                                   *)
Drop(e) ==
  /\ e \in MayDrop /\ ~Gone(e)
  /\ rpc' = [rpc EXCEPT ![e] = "Gone"]
  /\ wpc' = [wpc EXCEPT ![e] = "Gone"]
  /\ out' = [out EXCEPT ![e] = << >>]
  /\ wshut' = [wshut EXCEPT ![e] = TRUE]
  /\ UNCHANGED << close_state, wire, last_sent_message_op, sent,
                  expect_continuation, current_message, frame, pending, error, got >>

-----------------------------------------------------------------------------
Writer(e) ==
  \/ Write(e) \/ WriteFails(e)
  \/ WriterShutdown(e) \/ WriterHangUp(e) \/ WriterCloseTimeout(e)

Reader(e) ==
  \/ ReadHeader(e) \/ ReadPayload(e) \/ ReadPayloadEof(e) \/ ReadEof(e)
  \/ ReaderShutdown(e) \/ ReaderHangUp(e) \/ ReaderCloseTimeout(e)

Application(e) ==
  \/ \E f \in Frames : Send(e, f)
  \/ Next_(e)
  \/ ReadInterrupted(e)
  \/ Drop(e)

Next == \E e \in Endpoints : Writer(e) \/ Reader(e) \/ Application(e)

Spec == Init /\ [][Next]_vars

(* The executor resumes every coroutine whose operation is done, and the   *)
(* timer of close() fires.  Nothing is assumed of the application.         *)
Fairness ==
  \A e \in Endpoints :
    /\ WF_vars(Write(e)) /\ WF_vars(WriterShutdown(e)) /\ WF_vars(WriterCloseTimeout(e))
    /\ WF_vars(ReadHeader(e)) /\ WF_vars(ReadPayload(e))
    /\ WF_vars(ReadPayloadEof(e)) /\ WF_vars(ReadEof(e))
    /\ WF_vars(ReaderShutdown(e)) /\ WF_vars(ReaderCloseTimeout(e))

FairSpec == Spec /\ Fairness

\* an application that keeps calling next()
ReadingSpec == FairSpec /\ \A e \in Endpoints : WF_vars(Next_(e))

-----------------------------------------------------------------------------
(* Types. *)
TypeOK ==
  /\ close_state \in [Endpoints -> CloseState]
  /\ last_sent_message_op \in [Endpoints -> DataOps \cup {"None"}]
  /\ expect_continuation \in [Endpoints -> BOOLEAN]
  /\ current_message \in [Endpoints -> [op : Op \cup {"None"}, buf : Seq(Byte)]]
  /\ wpc \in [Endpoints -> WriterStates]
  /\ out \in [Endpoints -> Seq(Unit)]
  /\ rpc \in [Endpoints -> ReaderStates]
  /\ frame \in [Endpoints -> HeaderUnit]
  /\ pending \in [Endpoints -> Frame]
  /\ error \in [Endpoints -> ReadErrors]
  /\ wire \in [Endpoints -> Seq(Unit)]
  /\ wshut \in [Endpoints -> BOOLEAN]
  /\ sent \in [Endpoints -> Seq(BorrowedFrame)]
  /\ got \in [Endpoints -> Seq(Frame)]

-----------------------------------------------------------------------------
(* Safety. *)

\* e reads, or may read, another frame
Reading(e) ==
  rpc[e] \in {"Header", "Payload"} \/ (rpc[e] = "Idle" /\ can_read(close_state[e]))

\* bytes come after this header
Announces(u) == u.kind = "header" /\ (u.len > 0 \/ u.op = "Close")

\* what is on the wire, read after a header or not, ends with a whole frame
WholeFrames(s, pay) == IF s = << >> THEN ~pay ELSE ~Announces(s[Len(s)])

(* The reader never takes payload bytes for a header or a header for       *)
(* payload: whatever the two sides were doing when a write or a close was  *)
(* cut short, what comes next on the wire is what read_frame_header or     *)
(* read_frame_data is waiting for, and enough of it.                       *)
FramesInSync ==
  \A e \in Endpoints : wire[Peer(e)] # << >> =>
    LET u == Head(wire[Peer(e)])
    IN  /\ rpc[e] = "Header" => u.kind = "header"
        /\ rpc[e] = "Payload" => u.kind = "data" /\ frame[e].len <= Len(u.bytes)

(* What this writer sends never trips this reader's checks: the only errors*)
(* next() returns between two of these endpoints are MessageTooLong and    *)
(* those of the connection, and unreachable!() in read_frame is not        *)
(* reached.                                                                *)
NoProtocolError ==
  \A e \in Endpoints :
    error[e] \in {"None", "MessageTooLong", "UnexpectedEof", "Io"} /\ rpc[e] # "Panicked"

(* do_close shuts the write side down only when both sides have said Close *)
(* (or the stream has ended): no FIN goes out over an open direction.      *)
ShutdownOnlyWhenBothClosed ==
  \A e \in Endpoints : wshut[e] /\ ~Gone(e) => close_state[e] = "Both"

(* send_frame accepts nothing after a Close frame, and Shared knows: the   *)
(* write side is closed exactly when a Close frame has been accepted.      *)
CloseIsLastSent ==
  \A e \in Endpoints :
    /\ \A i \in 1 .. Len(sent[e]) : sent[e][i].op = "Close" => i = Len(sent[e])
    /\ can_write(close_state[e]) <=> \A i \in 1 .. Len(sent[e]) : sent[e][i].op # "Close"

(* next() returns nothing after a Close frame, the peer's or the one it    *)
(* makes up at the end of the stream.                                      *)
CloseIsLastGot ==
  \A e \in Endpoints : \A i \in 1 .. Len(got[e]) : got[e][i].op = "Close" => i = Len(got[e])

(* A live endpoint's FIN never lands inside a Text, Binary, Ping or Pong   *)
(* frame: the frame it may cut, when reader and writer close at once, is a *)
(* Close.                                                                  *)
OnlyCloseFrameCut ==
  \A e \in Endpoints :
    wshut[e] /\ ~Gone(e) /\ out[e] # << >> =>
      sent[e] # << >> /\ sent[e][Len(sent[e])].op = "Close"

(* Used by one task, an endpoint closes once: the reader's close() and the *)
(* writer's never overlap, and while its peer reads, its FIN stands behind *)
(* a whole frame.  But a Close whose write fails half way is cut: the next *)
(* next() may still shut down behind it.                                   *)
OneCloser ==
  \A e \in Endpoints \ Split :
    /\ ~(wpc[e] \in WriterCloses /\ rpc[e] \in ReaderCloses)
    /\ wshut[e] => out[e] = << >>
    /\ wshut[e] /\ ~Gone(e) /\ wpc[e] # "Failed" /\ Reading(Peer(e)) =>
         WholeFrames(wire[e], rpc[Peer(e)] = "Payload")

(* max_message_length bounds what a message accumulates, fragment by       *)
(* fragment, and what next() returns.                                      *)
MessageBounded ==
  \A e \in Endpoints :
    /\ Len(current_message[e].buf) <= MaxMessageLength[e]
    /\ \A i \in 1 .. Len(got[e]) : Len(got[e][i].bytes) <= MaxMessageLength[e]

(* A side of close_state that is closed stays closed.                      *)
NeverReopens ==
  [][\A e \in Endpoints :
       /\ can_read(close_state'[e]) => can_read(close_state[e])
       /\ can_write(close_state'[e]) => can_write(close_state[e])]_vars

-----------------------------------------------------------------------------
(* Liveness. *)

(* close() returns, whatever the peer does: the caller of send_frame or    *)
(* next() waits for close_timeout at most.                                 *)
CloseReturns ==
  \A e \in Endpoints :
    /\ wpc[e] \in WriterCloses ~> wpc[e] \notin WriterCloses
    /\ rpc[e] \in ReaderCloses ~> rpc[e] \notin ReaderCloses

(* A reader waiting for a frame finds out that the peer has shut down.     *)
HangUpEndsRead ==
  \A e \in Endpoints :
    rpc[e] \in {"Header", "Payload"} /\ wshut[Peer(e)] ~> rpc[e] \notin {"Header", "Payload"}
=============================================================================
