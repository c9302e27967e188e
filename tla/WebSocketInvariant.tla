------------------------- MODULE WebSocketInvariant -------------------------
(***************************************************************************)
(* The inductive invariant behind the safety properties of WebSocket.  For *)
(* the direction from e to its peer it says how the units on the wire,     *)
(* those still in the writer's hands and the state of the reader fit       *)
(* together; for each endpoint, what close_state means.                    *)
(***************************************************************************)
EXTENDS WebSocket

-----------------------------------------------------------------------------
(* Sequences of units.                                                     *)

\* u holds the payload of header h
Holds(u, h) ==
  /\ u.kind = "data"
  /\ IF h.op = "Close" THEN h.len <= Len(u.bytes) ELSE h.len = Len(u.bytes)

Follows(a, b) == IF Announces(a) THEN Holds(b, a) ELSE b.kind = "header"

DataHeader(u) == u.kind = "header" /\ ~is_control(u.op)

(* What a reader that expects x before s expects before s[k].              *)
Expects(s, k, x) ==
  \/ x /\ \A i \in 1 .. k - 1 : ~DataHeader(s[i])
  \/ \E i \in 1 .. k - 1 :
        /\ DataHeader(s[i]) /\ ~s[i].fin
        /\ \A j \in i + 1 .. k - 1 : ~DataHeader(s[j])

\* a header that read_frame_header takes from e, leaving aside continuation
GoodHeader(e, h) ==
  /\ h.kind = "header" /\ h.op # "Invalid"
  /\ is_control(h.op) => h.fin /\ h.len <= ControlMax
  /\ h.masked => e = "client"

-----------------------------------------------------------------------------
(* One direction: s is what is on the wire, o what the writer has still to *)
(* write, pay whether the reader waits for the payload of header h, x      *)
(* whether it expects a continuation, open whether the writer is inside a  *)
(* message.                                                                *)

Awaited(u, pay, h) == IF pay THEN Holds(u, h) ELSE u.kind = "header"

WireOK(e, s, pay, h, x) ==
  /\ s # << >> => Awaited(s[1], pay, h)
  /\ \A i \in 1 .. Len(s) - 1 : Follows(s[i], s[i + 1])
  /\ \A i \in 1 .. Len(s) : s[i].kind = "header" => GoodHeader(e, s[i])
  /\ \A i \in 1 .. Len(s) :
        DataHeader(s[i]) => (s[i].op = "Continuation" <=> Expects(s, i, x))

\* the rest of a frame
OutOK(e, o) ==
  o # << >> =>
    /\ o[1].kind = "header" => GoodHeader(e, o[1])
    /\ \/ Len(o) = 1 /\ ~Announces(o[1])
       \/ Len(o) = 2 /\ Announces(o[1]) /\ Holds(o[2], o[1])

\* u goes on where the wire ends
Continues(s, u, pay, h) ==
  IF s = << >> THEN Awaited(u, pay, h) ELSE Follows(s[Len(s)], u)

WritingOK(s, o, open, pay, h, x) ==
  o # << >> =>
    /\ Continues(s, o[1], pay, h)
    /\ IF DataHeader(o[1])
       THEN /\ o[1].op = "Continuation" <=> Expects(s, Len(s) + 1, x)
            /\ open <=> ~o[1].fin
       ELSE open <=> Expects(s, Len(s) + 1, x)

RestingOK(s, open, pay, x) ==
  WholeFrames(s, pay) /\ (open <=> Expects(s, Len(s) + 1, x))

-----------------------------------------------------------------------------
(* The state of one endpoint.                                              *)

CanSend(e) == wpc[e] = "Idle" /\ can_write(close_state[e])

InMessage(e) == rpc[e] = "Payload" /\ ~is_control(frame[e].op)

WriterInv(e) ==
  /\ wpc[e] \in {"Write", "CloseWrite"} <=> out[e] # << >>
  /\ wpc[e] \in WriterCloses => close_state[e] = "Both"
  /\ wpc[e] = "Gone" <=> Gone(e)

ReaderInv(e) ==
  /\ rpc[e] = "Header" => can_read(close_state[e])
  /\ rpc[e] = "Payload" /\ frame[e].op # "Close" => can_read(close_state[e])
  /\ rpc[e] = "Payload" /\ frame[e].op = "Close" => ~can_read(close_state[e])
  /\ rpc[e] = "Payload" => frame[e].op # "Invalid" /\ frame[e].len > 0
  /\ rpc[e] \in ReaderCloses => close_state[e] = "Both"
  /\ rpc[e] # "Panicked"
  /\ error[e] \in {"None", "MessageTooLong", "UnexpectedEof", "Io"}

MessageInv(e) ==
  /\ current_message[e] # NoMessage => current_message[e].op \in DataOps
  /\ Reading(e) =>
       IF InMessage(e)
       THEN current_message[e] # NoMessage /\ (expect_continuation[e] <=> ~frame[e].fin)
       ELSE expect_continuation[e] <=> current_message[e] # NoMessage

ShutInv(e) == wshut[e] /\ ~Gone(e) => close_state[e] = "Both"

DirectionInv(e, p) ==
  LET pay  == rpc[p] = "Payload"
      open == last_sent_message_op[e] # "None"
  IN  Reading(p) =>
        /\ WireOK(e, wire[e], pay, frame[p], expect_continuation[p])
        /\ ~wshut[e] =>
              WritingOK(wire[e], out[e], open, pay, frame[p], expect_continuation[p])
        /\ CanSend(e) => RestingOK(wire[e], open, pay, expect_continuation[p])

EndpointInv(e) ==
  WriterInv(e) /\ ReaderInv(e) /\ MessageInv(e) /\ ShutInv(e) /\ OutOK(e, out[e])

(* The inductive invariant: what next() and send_frame rely on of each     *)
(* other, at every await of either side.                                   *)
Inv ==
  /\ TypeOK
  /\ CloseIsLastSent
  /\ \A e \in Endpoints : EndpointInv(e) /\ DirectionInv(e, Peer(e))
=============================================================================
