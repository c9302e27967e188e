-------------------------- MODULE WebSocketChannel --------------------------
(***************************************************************************)
(* The two endpoints of WebSocket implement FrameChannel: fragments are    *)
(* put together, control frames come where they were sent, nothing is      *)
(* lost, made up, doubled or reordered before the end.                     *)
(***************************************************************************)
EXTENDS WebSocket

(* A Close frame's message is what its announced length leaves of the code *)
(* and the reason.                                                         *)
ControlMessage(f) ==
  IF f.op = "Close"
  THEN DecodeClose(SubSeq(WireBytes(f), 1, Len(f.payload)))
  ELSE Item(f.op, f.payload)

(* What frames make: the messages done, and the operation and the bytes of *)
(* the one still open.                                                     *)
NothingYet == [done |-> << >>, op |-> "None", part |-> << >>]

AddFrame(acc, f) ==
  IF is_control(f.op)
  THEN [acc EXCEPT !.done = Append(@, ControlMessage(f))]
  ELSE IF f.fin
       THEN [NothingYet EXCEPT !.done = Append(acc.done, Item(f.op, acc.part \o f.payload))]
       ELSE [acc EXCEPT !.op = f.op, !.part = @ \o f.payload]

\* Assembled(frames)[n]: what the first n of them make
Assembled(frames) ==
  LET acc[n \in 0 .. Len(frames)] ==
        IF n = 0 THEN NothingYet ELSE AddFrame(acc[n - 1], frames[n])
  IN  acc

Messages(frames) == Assembled(frames)[Len(frames)].done

ClosesDirection(m) == m.op = "Close"
SameShape(m, n)    == m.op = n.op /\ Len(m.bytes) = Len(n.bytes)

Channel == INSTANCE FrameChannel WITH
  Node        <- Endpoints,
  Peer        <- Peer,
  Message     <- Frame,
  IsClose     <- ClosesDirection,
  SameShape   <- SameShape,
  EndOfStream <- NoFrame,
  log         <- [e \in Endpoints |-> Messages(sent[e])],
  got         <- got,
  finished    <- wshut

(* Every behaviour of the two endpoints is one the channel promises.       *)
ImplementsChannel == Channel!Spec

(* A Close frame arrives with the code and the reason it was sent with.    *)
CloseArrivesAsSent ==
  \A e \in Endpoints : \A i \in 1 .. Len(got[e]) :
    got[e][i].op = "Close" /\ got[e][i] # NoFrame =>
      LET f == sent[Peer(e)][Len(sent[Peer(e)])]
      IN  got[e][i].code = f.close_code /\ got[e][i].bytes = f.payload

(* The application has given up its side: it dropped the WebSocket, or a   *)
(* call returned an error.                                                 *)
GivenUp(e) == Gone(e) \/ wpc[e] = "Failed" \/ rpc[e] = "Failed"

(* While the application at the other end keeps calling next(), and neither*)
(* gives up, every message but the Close is delivered: the two tasks of    *)
(* each endpoint never end up all waiting for each other.                  *)
EveryMessageArrives ==
  \A e \in Endpoints : \A n \in 1 .. MaxSends[e] :
    LET due == Len(Messages(sent[e])) >= n /\ Messages(sent[e])[n].op # "Close"
    IN  due ~> (Len(got[Peer(e)]) >= n \/ GivenUp(e) \/ GivenUp(Peer(e)))
=============================================================================
