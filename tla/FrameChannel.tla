---------------------------- MODULE FrameChannel ----------------------------
(***************************************************************************)
(* What a WebSocket promises its two applications: each direction delivers *)
(* the messages that were sent, whole, in order, once, until one Close     *)
(* ends it.  Only once the sender has finished, and will send no more, may *)
(* a last message lose its contents (it was cut off), and may the end of   *)
(* the stream stand for a Close frame.                                     *)
(***************************************************************************)
EXTENDS Sequences, Naturals

CONSTANTS
  Node,            \* the two ends
  Peer(_),         \* Peer(n): the other end
  Message,         \* what is sent and delivered
  IsClose(_),      \* the messages that end a direction
  SameShape(_, _), \* a message and what may be left of it when it is cut
  EndOfStream      \* the Close frame made up at the end of the stream

VARIABLES
  log,      \* log[n]: the messages n has sent
  got,      \* got[n]: the messages delivered to n
  finished  \* finished[n]: n sends no more

chan == << log, got, finished >>

ClosedFor(n) == \E i \in 1 .. Len(got[n]) : IsClose(got[n][i])

Init ==
  /\ log      = [n \in Node |-> << >>]
  /\ got      = [n \in Node |-> << >>]
  /\ finished = [n \in Node |-> FALSE]

Last(s) == s[Len(s)]

(* The message sent or cut is read off the next state, so that Message may *)
(* be infinite.                                                            *)
Send(n) ==
  /\ ~finished[n]
  /\ \A i \in 1 .. Len(log[n]) : ~IsClose(log[n][i])
  /\ log'[n] # << >> /\ Last(log'[n]) \in Message
  /\ log' = [log EXCEPT ![n] = Append(@, Last(log'[n]))]
  /\ UNCHANGED << got, finished >>

Deliver(n) ==
  /\ ~ClosedFor(n)
  /\ Len(got[n]) < Len(log[Peer(n)])
  /\ got' = [got EXCEPT ![n] = Append(@, log[Peer(n)][Len(@) + 1])]
  /\ UNCHANGED << log, finished >>

\* n stops sending: it has sent its Close, or is gone
Finish(n) ==
  /\ ~finished[n]
  /\ finished' = [finished EXCEPT ![n] = TRUE]
  /\ UNCHANGED << log, got >>

DeliverCut(n) ==
  /\ finished[Peer(n)] /\ ~ClosedFor(n)
  /\ Len(got[n]) < Len(log[Peer(n)])
  /\ got'[n] # << >> /\ SameShape(log[Peer(n)][Len(got[n]) + 1], Last(got'[n]))
  /\ got' = [got EXCEPT ![n] = Append(@, Last(got'[n]))]
  /\ UNCHANGED << log, finished >>

End(n) ==
  /\ finished[Peer(n)] /\ ~ClosedFor(n)
  /\ got' = [got EXCEPT ![n] = Append(@, EndOfStream)]
  /\ UNCHANGED << log, finished >>

Next ==
  \E n \in Node :
    \/ Send(n) \/ Deliver(n)
    \/ Finish(n) \/ DeliverCut(n) \/ End(n)

Spec == Init /\ [][Next]_chan
=============================================================================
