------------------------------ MODULE TlsConn ------------------------------
(***************************************************************************)
(* A TLS connection of src/tls/conn.rs: tls_connect, then TlsConn's recv   *)
(* and send while one task has it whole, TlsReadHalf and TlsWriteHalf      *)
(* while two tasks share its session under a lock, and whole again once    *)
(* the halves are dropped.                                                 *)
(*                                                                         *)
(* The lock is never held across an await, so what a half does under it is *)
(* part of one action: an action is what happens from one await to the     *)
(* next.  The socket is the environment: it takes and gives any part of    *)
(* what is there, and an operation on it may fail or be interrupted, after *)
(* which the application may call again.                                   *)
(***************************************************************************)
EXTENDS TlsSession, SequencesExt

CONSTANTS
  Peers,        \* what the servers may send, see PeerType
  Sizes,        \* lengths of the buffers applications write, in units
  MaxProduced,  \* bound: no new write once the session has produced so much
  BufCapacity,  \* capacity of the read half's BufReader
  BufSize       \* capacity of the write half's buffer (DEFAULT_BUFFER_SIZE)

(* kinds: the units of a server, in order; after: for each of them how many*)
(* of the client's units the server has read before it sends that one;     *)
(* fin: the stream ends behind them.                                       *)
PeerType(p) ==
  /\ p.kinds \in Seq(Kinds) /\ p.fin \in BOOLEAN
  /\ p.after \in [1 .. Len(p.kinds) -> Nat]

ASSUME ConnAssumption ==
  /\ \A p \in Peers : PeerType(p)
  /\ Sizes \subseteq Nat /\ MaxProduced \in Nat
  /\ BufCapacity \in Nat \ {0} /\ BufSize \in Nat \ {0}

VARIABLES
  peer,       \* the server, one of Peers
  arrived,    \* how many of its units have reached the socket
  fin,        \* the end of its stream has reached the socket
  inbox,      \* the units that wait in the socket
  wire,       \* the client's units the socket has taken, in order
  tls,        \* the session
  phase,      \* Connecting, Whole, Split, Failed
  rpc,        \* where connect, recv or the read half awaits
  polledIn,   \* connect: poll() reported In
  rbuf,       \* the read half's BufReader
  delivered,  \* history: the plaintext reads returned, by unit
  rres,       \* what the last read returned: Ok with data, End (0 bytes), Error
  wpc,        \* where send or the write half awaits
  ask,        \* the length of the buffer being written
  wrote,      \* how much of it the session accepted
  wbuf,       \* the write half's buffer, handed to the socket
  wres,       \* what the last write returned: Ok, Error
  cut,        \* history: ciphertext was dropped that the session had handed out
  lost        \* history: ciphertext was dropped that had been received

netVars   == << peer, arrived, fin >>
readVars  == << rpc, polledIn, rbuf, delivered, rres, lost >>
writeVars == << wpc, ask, wrote, wbuf, wres, cut >>
vars      == << netVars, inbox, wire, tls, phase, readVars, writeVars >>

Init ==
  /\ peer \in Peers /\ arrived = 0 /\ fin = FALSE /\ inbox = << >> /\ wire = << >>
  /\ tls = NewSession
  /\ phase = "Connecting" /\ rpc = "Poll" /\ polledIn = FALSE /\ rbuf = << >>
  /\ delivered = << >> /\ rres = "None" /\ lost = FALSE
  /\ wpc = "Idle" /\ ask = 0 /\ wrote = 0 /\ wbuf = << >> /\ wres = "None" /\ cut = FALSE

AtEof    == inbox = << >> /\ fin
Readable == inbox # << >> \/ fin

FirstOf(s, n) == SubSeq(s, 1, n)
RestOf(s, n)  == SubSeq(s, n + 1, Len(s))

-----------------------------------------------------------------------------
(* The network.                                                            *)

Arrive ==
  /\ arrived < Len(peer.kinds)
  /\ peer.after[arrived + 1] <= Len(wire)
  /\ arrived' = arrived + 1
  /\ inbox'   = Append(inbox, arrived + 1)
  /\ UNCHANGED << peer, fin, wire, tls, phase, readVars, writeVars >>

ArriveFin ==
  /\ peer.fin /\ ~fin /\ arrived = Len(peer.kinds)
  /\ fin' = TRUE
  /\ UNCHANGED << peer, arrived, inbox, wire, tls, phase, readVars, writeVars >>

-----------------------------------------------------------------------------
(* tls_connect.                                                            *)

\* mutant: polls for what it wants to read only
Interest_In == IF wants_read(tls) THEN {"In"} ELSE {}

Interest == (IF wants_write(tls) THEN {"Out"} ELSE {}) \cup (IF wants_read(tls) THEN {"In"} ELSE {})

Connecting(pc) ==
  /\ rpc' = pc /\ phase' = phase /\ rres' = rres
Connected ==
  /\ rpc' = "Idle" /\ phase' = "Whole" /\ rres' = rres
ConnectError ==
  /\ rpc' = "Idle" /\ phase' = "Failed" /\ rres' = "Error"

\* after write_tls: the handshake is done, or there is input, or poll again
AfterWrite(in) ==
  IF ~tls.handshaking THEN Connected
  ELSE Connecting(IF in THEN "ConnectRead" ELSE "Poll")

\* poll() reports In whenever there is input; Out, when there is room
ConnectPoll ==
  /\ rpc = "Poll"
  /\ \E ready \in SUBSET Interest :
       /\ ready # {}
       /\ "In" \in Interest => ("In" \in ready <=> Readable)
       /\ polledIn' = ("In" \in ready)
       /\ IF "Out" \in ready THEN Connecting("ConnectWrite") ELSE AfterWrite("In" \in ready)
  /\ UNCHANGED << netVars, inbox, wire, tls, rbuf, delivered, lost, writeVars >>

ConnectWrite ==
  /\ rpc = "ConnectWrite"
  /\ \E k \in 1 .. Pending(tls) :
       /\ tls'  = TakeOut(tls, k)
       /\ wire' = wire \o TakenOut(tls, k)
  /\ AfterWrite(polledIn)
  /\ UNCHANGED << netVars, inbox, polledIn, rbuf, delivered, lost, writeVars >>

HandshakeGoesOn(s) == s.handshaking \/ wants_write(s)

(* read_tls and process_new_packets.  The alert of a failed handshake is   *)
(* sent as far as the socket takes it at once.                             *)
ConnectRead ==
  /\ rpc = "ConnectRead" /\ inbox # << >>
  /\ \E n \in 1 .. Lesser(ReadSize, Len(inbox)) :
       LET s == Process(tls, peer.kinds, FirstOf(inbox, n)) IN
         /\ inbox' = RestOf(inbox, n)
         /\ IF s.broken
            THEN \E k \in 0 .. Pending(s) :
                   /\ tls'  = TakeOut(s, k)
                   /\ wire' = wire \o TakenOut(s, k)
                   /\ ConnectError
            ELSE /\ tls' = s /\ wire' = wire
                 /\ IF HandshakeGoesOn(s) THEN Connecting("Poll") ELSE Connected
  /\ UNCHANGED << netVars, polledIn, rbuf, delivered, lost, writeVars >>

ConnectEof ==
  /\ rpc = "ConnectRead" /\ AtEof
  /\ tls' = [tls EXCEPT !.eof = TRUE]
  /\ ConnectError
  /\ UNCHANGED << netVars, inbox, wire, polledIn, rbuf, delivered, lost, writeVars >>

ConnectFails ==
  /\ phase = "Connecting"
  /\ ConnectError
  /\ UNCHANGED << netVars, inbox, wire, tls, polledIn, rbuf, delivered, lost, writeVars >>

Connect == ConnectPoll \/ ConnectWrite \/ ConnectRead \/ ConnectEof

-----------------------------------------------------------------------------
(* TlsConn::recv, TlsConn::send.                                           *)

\* applications make no new call once the session has reported an error
Idle     == rpc = "Idle" /\ wpc = "Idle"
MayRead  == rpc = "Idle" /\ ~tls.broken
MayWrite == wpc = "Idle" /\ ~tls.broken /\ tls.produced < MaxProduced

ReadReturns(s, result) ==
  /\ rpc' = "Idle" /\ tls' = s /\ rres' = result /\ delivered' = delivered

\* read() with a buffer of any size
ReadData(s) ==
  \E n \in 1 .. Len(s.plain) :
    /\ rpc' = "Idle" /\ rres' = "Ok"
    /\ tls' = [s EXCEPT !.plain = RestOf(@, n)]
    /\ delivered' = delivered \o FirstOf(s.plain, n)

ReadAwaits(s, pc) ==
  /\ rpc' = pc /\ tls' = s /\ rres' = "None" /\ delivered' = delivered

\* read_tls() gives 0 at once after a close_notify
Recv ==
  /\ phase = "Whole" /\ Idle /\ MayRead
  /\ CASE ReadOutcome(tls) = "Data"          -> ReadData(tls)
       [] ReadOutcome(tls) = "UnexpectedEof" -> ReadReturns(tls, "Error")
       [] ReadOutcome(tls) = "End"           -> ReadReturns(tls, "End")
       [] ReadOutcome(tls) = "WouldBlock"    -> ReadAwaits(tls, "Recv")
  /\ UNCHANGED << netVars, inbox, wire, phase, polledIn, rbuf, lost, writeVars >>

RecvMore ==
  /\ rpc = "Recv" /\ inbox # << >>
  /\ \E n \in 1 .. Lesser(ReadSize, Len(inbox)) :
       LET s == Process(tls, peer.kinds, FirstOf(inbox, n)) IN
         /\ inbox' = RestOf(inbox, n)
         /\ CASE s.broken                                        -> ReadReturns(s, "Error")
              [] ~s.broken /\ s.plain # << >>                    -> ReadData(s)
              [] ~s.broken /\ s.plain = << >> /\ s.closed        -> ReadReturns(s, "End")
              [] ~s.broken /\ s.plain = << >> /\ ~s.closed       -> ReadAwaits(s, "Recv")
  /\ UNCHANGED << netVars, wire, phase, polledIn, rbuf, lost, writeVars >>

RecvAtEof(s) == ReadReturns(s, "End")

RecvEof ==
  /\ rpc = "Recv" /\ AtEof
  /\ RecvAtEof([tls EXCEPT !.eof = TRUE])
  /\ UNCHANGED << netVars, inbox, wire, phase, polledIn, rbuf, lost, writeVars >>

WriteReturns(s, result) ==
  /\ wpc' = "Idle" /\ tls' = s /\ wres' = result /\ ask' = 0 /\ wrote' = 0

WriteAwaits(s, pc, n, accepted) ==
  /\ wpc' = pc /\ tls' = s /\ wres' = "None" /\ ask' = n /\ wrote' = accepted

\* mutant: send returns once something was accepted, sent or not
SendGoesOn_Accepted(s, n, accepted) ==
  IF accepted # 0 THEN WriteReturns(s, "Ok")
  ELSE WriteAwaits(Accepting(s, n), "Send", n, Accepts(s, n))

(* send()'s loop: write_tls while there is something to write, then return *)
(* if write() accepted something, else write() again.                      *)
SendGoesOn(s, n, accepted) ==
  IF wants_write(s) THEN WriteAwaits(s, "Send", n, accepted)
  ELSE IF accepted # 0 THEN WriteReturns(s, "Ok")
  ELSE WriteAwaits(Accepting(s, n), "Send", n, Accepts(s, n))

Send(n) ==
  /\ phase = "Whole" /\ Idle /\ MayWrite
  /\ SendGoesOn(Accepting(tls, n), n, Accepts(tls, n))
  /\ UNCHANGED << netVars, inbox, wire, phase, readVars, wbuf, cut >>

SendMore ==
  /\ wpc = "Send" /\ wants_write(tls)
  /\ \E k \in 1 .. Pending(tls) :
       /\ wire' = wire \o TakenOut(tls, k)
       /\ SendGoesOn(TakeOut(tls, k), ask, wrote)
  /\ UNCHANGED << netVars, inbox, phase, readVars, wbuf, cut >>

-----------------------------------------------------------------------------
(* The halves.                                                             *)

Split ==
  /\ phase = "Whole" /\ Idle
  /\ phase' = "Split"
  /\ UNCHANGED << netVars, inbox, wire, tls, readVars, writeVars >>

\* the halves are dropped, and with the read half its buffer
Unsplit ==
  /\ phase = "Split" /\ Idle
  /\ phase' = "Whole" /\ rbuf' = << >> /\ lost' = (lost \/ rbuf # << >>)
  /\ UNCHANGED << netVars, inbox, wire, tls, rpc, polledIn, delivered, rres, writeVars >>

\* mutant: read_tls() leaves what it took in the buffer
RestOfBuffer_Unconsumed(rb) == rb

RestOfBuffer(rb) == RestOf(rb, Lesser(ReadSize, Len(rb)))

(* TlsReadHalf::tls_read from the lock to the await, with rb in the buffer.*)
ReadSection(rb) ==
  CASE ReadOutcome(tls) = "Data"          -> ReadData(tls) /\ rbuf' = rb
    [] ReadOutcome(tls) = "UnexpectedEof" -> ReadReturns(tls, "Error") /\ rbuf' = rb
    [] ReadOutcome(tls) = "End"           -> ReadAwaits(tls, "Fill") /\ rbuf' = rb
    [] ReadOutcome(tls) = "WouldBlock"    ->
         LET s == Process(tls, peer.kinds, FirstOf(rb, Lesser(ReadSize, Len(rb)))) IN
           /\ rbuf' = RestOfBuffer(rb)
           /\ IF s.broken THEN ReadReturns(s, "Error")
              ELSE IF s.plain # << >> THEN ReadData(s)
              ELSE ReadAwaits(s, "Fill")

HalfRead ==
  /\ phase = "Split" /\ MayRead
  /\ ReadSection(rbuf)
  /\ UNCHANGED << netVars, inbox, wire, phase, polledIn, lost, writeVars >>

Fill ==
  /\ rpc = "Fill"
  /\ \E n \in 1 .. Lesser(BufCapacity - Len(rbuf), Len(inbox)) :
       /\ inbox' = RestOf(inbox, n)
       /\ ReadSection(rbuf \o FirstOf(inbox, n))
  /\ UNCHANGED << netVars, wire, phase, polledIn, lost, writeVars >>

\* fill() returns 0, which is ignored
FillEof ==
  /\ rpc = "Fill" /\ AtEof
  /\ ReadSection(rbuf)
  /\ UNCHANGED << netVars, inbox, wire, phase, polledIn, lost, writeVars >>

\* recv() or fill() fails
ReadFails ==
  /\ rpc \in {"Recv", "Fill"}
  /\ ReadReturns(tls, "Error")
  /\ UNCHANGED << netVars, inbox, wire, phase, polledIn, rbuf, lost, writeVars >>

\* write_tls() into the buffer, which takes a part or all of what fits
Encrypt(s, pc, n, accepted) ==
  \E k \in 1 .. Lesser(BufSize, Pending(s)) :
    /\ WriteAwaits(TakeOut(s, k), pc, n, accepted)
    /\ wbuf' = TakenOut(s, k)

WriteSection(n) ==
  LET s == Accepting(tls, n) IN
    IF wants_write(s) THEN Encrypt(s, "Write", n, Accepts(tls, n))
    ELSE WriteReturns(s, "Ok") /\ wbuf' = << >>

FlushSection ==
  IF wants_write(tls) THEN Encrypt(tls, "Flush", 0, 0)
  ELSE WriteReturns(tls, "Ok") /\ wbuf' = << >>

HalfWrite(n) ==
  /\ phase = "Split" /\ MayWrite
  /\ WriteSection(n)
  /\ UNCHANGED << netVars, inbox, wire, phase, readVars, cut >>

HalfFlush ==
  /\ phase = "Split" /\ wpc = "Idle" /\ ~tls.broken
  /\ FlushSection
  /\ UNCHANGED << netVars, inbox, wire, phase, readVars, cut >>

\* after send(): write() returns if something was accepted, flush() goes on
AfterHalfSend ==
  IF wpc = "Flush" THEN FlushSection
  ELSE IF wrote # 0 THEN WriteReturns(tls, "Ok") /\ wbuf' = << >>
  ELSE WriteSection(ask)

(* One send() of the buffer.  What a short send leaves is dropped with it. *)
HalfSend ==
  /\ wpc \in {"Write", "Flush"}
  /\ \E k \in 1 .. Len(wbuf) :
       /\ wire' = wire \o FirstOf(wbuf, k)
       /\ cut'  = (cut \/ k < Len(wbuf))
  /\ AfterHalfSend
  /\ UNCHANGED << netVars, inbox, phase, readVars >>

\* send() fails; the write half's buffer is dropped
WriteFails ==
  /\ wpc \in {"Send", "Write", "Flush"}
  /\ WriteReturns(tls, "Error")
  /\ wbuf' = << >> /\ cut' = (cut \/ wbuf # << >>)
  /\ UNCHANGED << netVars, inbox, wire, phase, readVars >>

-----------------------------------------------------------------------------
Whole  == Recv \/ RecvMore \/ RecvEof \/ SendMore \/ (\E n \in Sizes : Send(n))
Halves == Split \/ Unsplit \/ HalfRead \/ Fill \/ FillEof \/ HalfFlush \/ HalfSend
            \/ (\E n \in Sizes : HalfWrite(n))
Next   == Arrive \/ ArriveFin \/ Connect \/ ConnectFails \/ Whole \/ Halves
            \/ ReadFails \/ WriteFails

(* What has been sent arrives; an operation the socket is ready for is     *)
(* done, and its coroutine resumed.                                        *)
Fairness ==
  /\ WF_vars(Arrive) /\ WF_vars(ArriveFin)
  /\ WF_vars(Connect)
  /\ WF_vars(RecvMore \/ RecvEof) /\ WF_vars(Fill \/ FillEof)
  /\ WF_vars(SendMore) /\ WF_vars(HalfSend)

Spec == Init /\ [][Next]_vars /\ Fairness

-----------------------------------------------------------------------------
(* Properties.                                                             *)

TypeOK ==
  /\ peer \in Peers /\ arrived \in 0 .. Len(peer.kinds) /\ fin \in BOOLEAN
  /\ tls \in Session /\ tls.taken <= tls.produced
  /\ phase \in {"Connecting", "Whole", "Split", "Failed"}
  /\ rpc \in {"Idle", "Poll", "ConnectWrite", "ConnectRead", "Recv", "Fill"}
  /\ wpc \in {"Idle", "Send", "Write", "Flush"}
  /\ {inbox, rbuf, wire, wbuf, delivered} \subseteq Seq(Nat)
  /\ Len(rbuf) <= BufCapacity /\ Len(wbuf) <= BufSize
  /\ wbuf # << >> <=> wpc \in {"Write", "Flush"}

UpTo(n) == [i \in 1 .. n |-> i]

(* The socket is given the session's ciphertext in its order, none of it   *)
(* twice, whichever of connect, send, write and flush wrote it and whatever*)
(* the read half made the session produce in between; and none is left out *)
(* until a send of the write half is short or fails.  (And the types hold.)*)
WireInOrder ==
  LET given == wire \o wbuf IN
    /\ TypeOK
    /\ \A i, j \in 1 .. Len(given) : i < j => given[i] < given[j]
    /\ ~cut => given = UpTo(tls.taken)

(* The units of application data among the first n of kinds, up to where  *)
(* the server closes.                                                      *)
Closes(kinds, u) == kinds[u] \in {"CloseNotify", "Bad"}
IsData(kinds, u) == kinds[u] = "Data" /\ \A v \in 1 .. u - 1 : ~Closes(kinds, v)

DataAmong(kinds) ==
  LET data[n \in 0 .. Len(kinds)] ==
        IF n = 0 THEN << >>
        ELSE IF IsData(kinds, n) THEN Append(data[n - 1], n) ELSE data[n - 1]
  IN  data

DataUnits == DataAmong(peer.kinds)[Len(peer.kinds)]

(* All that has arrived has been given to the session in order, or waits in*)
(* the read half's buffer or in the socket, in order: only a record the    *)
(* server spoilt breaks the session.  What reads return is the server's    *)
(* data without a gap, that which came with the handshake included; and    *)
(* recv() reports the end only when all of it was returned.  None of this  *)
(* once a read half was dropped with ciphertext in its buffer.             *)
ReadInOrder ==
  ~lost => /\ ~tls.closed /\ ~tls.broken => UpTo(tls.fed) \o rbuf \o inbox = UpTo(arrived)
           /\ tls.broken => peer.kinds[tls.fed] = "Bad"
           /\ IsPrefix(delivered \o tls.plain, DataUnits)
           /\ rres = "End" => delivered = DataUnits

(* When send() or flush() returns, everything the session had to send has  *)
(* been given to the socket, what the handshake left and the read half's   *)
(* replies included.                                                       *)
SentMeansSent ==
  [][(wpc \in {"Send", "Flush"} /\ wpc' = "Idle" /\ wres' = "Ok")
       => ~wants_write(tls') /\ (~cut' => wire' = UpTo(tls'.produced))]_vars

\* the server completes the handshake, refuses it or hangs up
Answers == peer.fin \/ \E u \in DOMAIN peer.kinds : peer.kinds[u] \in {"Finished12", "Finished13", "Bad"}

Holds(units, kinds) == \E i \in DOMAIN units : peer.kinds[units[i]] \in kinds

(* Every call returns for which there is enough.  connect() neither waits  *)
(* for input while the server waits for the rest of a flight nor for room  *)
(* while the server answers (conn.rs: "poll to prevent hang when either    *)
(* read or write don't get through"): it ends if the server answers or     *)
(* hangs up.  recv() returns when data, an error or the end has come; the  *)
(* read half's read() when data or an error has, save that it may go to    *)
(* sleep on what is left in its own buffer; send(), write() and flush()    *)
(* when the socket takes data, save send() of nothing.                     *)
CallsReturn ==
  /\ (phase = "Connecting" /\ Answers) ~> phase # "Connecting"
  /\ (rpc = "Recv" /\ (fin \/ Holds(inbox, {"Data", "CloseNotify", "Bad"}))) ~> rpc # "Recv"
  /\ (rpc = "Fill" /\ ~tls.closed /\ Holds(inbox, {"Data", "Bad"}))
       ~> (rpc # "Fill" \/ rbuf # << >>)
  /\ (wpc = "Send" /\ ask # 0) ~> wpc # "Send"
  /\ wpc \in {"Write", "Flush"} ~> wpc \notin {"Write", "Flush"}
=============================================================================
