-------------------------- MODULE ChannelInvariant --------------------------
(***************************************************************************)
(* The inductive invariant behind the refinement of FrameChannel by the two*)
(* endpoints.  While the reader of a direction still reads, the units on   *)
(* their way to it are those of the frames that follow the ones it has     *)
(* taken, in the order send_frame accepted them, and what it has returned  *)
(* and put together is what the frames it has taken make.  It rests on the *)
(* invariant of WebSocketInvariant.                                        *)
(***************************************************************************)
EXTENDS WebSocketChannel, WebSocketInvariant

(* p has still to learn that e's direction is at its end, or waits for a   *)
(* payload that may be cut.                                                *)
Live(e, p) == Reading(p) /\ (rpc[p] = "Payload" \/ wire[e] # << >> \/ ~wshut[e])

\* h announces the frame f
HeaderOf(h, f) ==
  /\ h.fin = f.fin /\ h.len = Len(f.payload)
  /\ h.op = f.op \/ (h.op = "Continuation" /\ ~is_control(f.op))

(* The units u are those of frames of fs, one behind the other: at[i] is   *)
(* the frame of the ith, at[0] the last one whose header was taken.        *)
Carries(u, at, fs) ==
  /\ at \in [0 .. Len(u) -> 0 .. Len(fs)]
  /\ \A i \in 1 .. Len(u) :
       /\ at[i] # 0
       /\ IF u[i].kind = "header"
          THEN at[i] = at[i - 1] + 1 /\ HeaderOf(u[i], fs[at[i]])
          ELSE at[i] = at[i - 1] /\ u[i].bytes = WireBytes(fs[at[i]])

\* after n frames' headers come the units up to the kth frame's
Carried(u, n, k, fs) == \E at : Carries(u, at, fs) /\ at[0] = n /\ at[Len(u)] = k

\* the message the reader holds, when acc is at hand
Open(acc) == IF acc.op = "None" THEN NoMessage ELSE [op |-> acc.op, buf |-> acc.part]

(* p has taken the first n headers, and but for the payload it waits for   *)
(* what comes with them; what it has returned and put together is what     *)
(* these frames make.                                                      *)
HasTaken(e, p, n) ==
  LET acc == Assembled(sent[e])
  IN  IF rpc[p] = "Payload"
      THEN /\ n # 0 /\ HeaderOf(frame[p], sent[e][n])
           /\ got[p] = acc[n - 1].done
           /\ current_message[p] =
                IF is_control(sent[e][n].op) THEN Open(acc[n - 1])
                ELSE [op |-> sent[e][n].op, buf |-> acc[n - 1].part]
      ELSE got[p] = acc[n].done /\ current_message[p] = Open(acc[n])

\* what was sent is written or being written, all of it
Intact(e) == wpc[e] = "Write" \/ CanSend(e)

(* The units on the wire and in the writer's hands follow what p has taken;*)
(* they go up to the last frame sent unless the writer was cut short.      *)
StreamInv(e, p) ==
  Live(e, p) =>
    \E n, k \in 0 .. Len(sent[e]) :
      /\ Carried(wire[e] \o out[e], n, k, sent[e])
      /\ HasTaken(e, p, n)
      /\ Intact(e) => k = Len(sent[e])

(* A message has one operation, and the writer knows which is open.        *)
SentInv(e) ==
  LET acc == Assembled(sent[e])
  IN  /\ \A n \in 1 .. Len(sent[e]) :
           ~is_control(sent[e][n].op) => acc[n - 1].op \in {"None", sent[e][n].op}
      /\ acc[Len(sent[e])].op = last_sent_message_op[e]

\* a message the reader may return, when `finished' and the log are those of e
Due(e, p, m) ==
  /\ Len(got[p]) < Len(Messages(sent[e]))
  /\ \/ m = Messages(sent[e])[Len(got[p]) + 1]
     \/ wshut[e] /\ SameShape(Messages(sent[e])[Len(got[p]) + 1], m)

(* The Close frame held during close() is the next message, or cut.        *)
HeldInv(e, p) == rpc[p] \in ReaderCloses => Due(e, p, pending[p])

ChannelInv ==
  \A e \in Endpoints : SentInv(e) /\ StreamInv(e, Peer(e)) /\ HeldInv(e, Peer(e))
=============================================================================
