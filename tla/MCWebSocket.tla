---------------------------- MODULE MCWebSocket ----------------------------
(* Instances of WebSocket and WebSocketChannel for TLC.                    *)
EXTENDS WebSocketChannel, WebSocketInvariant

Text(fin, b)   == [op |-> "Text",   fin |-> fin,  close_code |-> 0, payload |-> b]
Binary(fin, b) == [op |-> "Binary", fin |-> fin,  close_code |-> 0, payload |-> b]
Ping(b)        == [op |-> "Ping",   fin |-> TRUE, close_code |-> 0, payload |-> b]
Pong(b)        == [op |-> "Pong",   fin |-> TRUE, close_code |-> 0, payload |-> b]
Close(c, b)    == [op |-> "Close",  fin |-> TRUE, close_code |-> c, payload |-> b]

\* a fragmented message, one of another type, control frames, both Closes
MCFrames == {Text(FALSE, <<1, 7>>), Text(TRUE, << >>), Binary(TRUE, <<2, 3>>),
             Ping(<< >>), Close(1000, <<4, 5>>)}

MCCloseFrames == {Text(FALSE, <<1, 7>>), Close(1000, << >>), Close(1000, <<4, 5>>)}

\* few frames, for the run that checks behaviours and not only states: a
\* message of two fragments, a control frame between or after them, and a Close
MCFewFrames == {Text(FALSE, <<1>>), Text(TRUE, <<2>>), Ping(<< >>),
                Close(1000, <<4>>)}

\* MaxSends and MaxMessageLength: the client sends c frames, the server s
PerEndpoint(c, s) == [e \in Endpoints |-> IF e = "client" THEN c ELSE s]
MCSends    == PerEndpoint(3, 2)
MCFewSends == PerEndpoint(3, 1)
MCLimits   == PerEndpoint(3, 8)
=============================================================================
