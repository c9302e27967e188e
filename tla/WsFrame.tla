------------------------------ MODULE WsFrame ------------------------------
(***************************************************************************)
(* WebSocket frames as src/ws puts them on the wire and takes them off it: *)
(* the operation codes, the frame a caller hands to Writer::send_frame, the*)
(* header and the bytes it is encoded to, the checks a received header has *)
(* to pass, and the half-closed state kept in Shared::close_state.         *)
(*                                                                         *)
(* A direction of a connection is a sequence of units: a header, or the    *)
(* bytes that follow one.  That is how Reader takes them (one await for the*)
(* header, one for the payload) and how write_all_vectored is handed them  *)
(* (two slices), so a write that is cut short is cut between two units.    *)
(***************************************************************************)
EXTENDS Integers, Sequences

CONSTANT ControlMax     \* ControlFrame::MAX_LENGTH, 0x7d in the code

ASSUME ControlMaxAssumption == ControlMax \in Nat /\ ControlMax >= 2

-----------------------------------------------------------------------------
DataOps    == {"Text", "Binary"}
ControlOps == {"Close", "Ping", "Pong"}
Op         == DataOps \cup ControlOps \cup {"Continuation", "Invalid"}

is_control(op) == op \in ControlOps

Byte    == 0 .. 255
MaxCode == 65535       \* u16::MAX
Code    == 0 .. MaxCode

NoStatusCode == 1005
NoClose      == 1006

\* u16::to_be_bytes and u16::from_be_bytes
to_be_bytes(n)   == << n \div 256, n % 256 >>
from_be_bytes(b) == b[1] * 256 + b[2]

-----------------------------------------------------------------------------
(* What a caller passes to send_frame: only the constructors of Frame build*)
(* one, so a control frame always has fin set.                             *)
BorrowedFrame ==
  {f \in [op         : DataOps \cup ControlOps,
          fin        : BOOLEAN,
          close_code : Code,
          payload    : Seq(Byte)] : is_control(f.op) => f.fin}

HeaderUnit == [kind : {"header"}, op : Op, fin : BOOLEAN, masked : BOOLEAN, len : Nat]
DataUnit   == [kind : {"data"}, bytes : Seq(Byte)]
Unit       == HeaderUnit \cup DataUnit

Header(op, fin, masked, len) ==
  [kind |-> "header", op |-> op, fin |-> fin, masked |-> masked, len |-> len]

Data(bytes) == [kind |-> "data", bytes |-> bytes]

(* The limit send_frame puts on a control frame.                           *)
ControlFits(f) ==
  is_control(f.op) =>
     Len(f.payload) <= ControlMax - (IF f.op = "Close" THEN 2 ELSE 0)

\* mutant: every control frame gets a code
WireBytes_CodeOnControl(f) ==
  IF is_control(f.op) THEN to_be_bytes(f.close_code) \o f.payload ELSE f.payload

(* The bytes written after the header: a Close frame's code goes first.    *)
WireBytes(f) ==
  IF f.op = "Close" THEN to_be_bytes(f.close_code) \o f.payload ELSE f.payload

(* What send_frame writes.  The length announced is the payload's alone.   *)
Encode(f, op, masked) ==
  LET h == Header(op, f.fin, masked, Len(f.payload))
  IN  IF WireBytes(f) = << >> THEN << h >> ELSE << h, Data(WireBytes(f)) >>

-----------------------------------------------------------------------------
(* The checks of read_frame_header, in the order it makes them.            *)
HeaderError(h, expect_continuation, is_client) ==
  IF h.op = "Invalid" THEN "InvalidOpcode"
  ELSE IF is_control(h.op) /\ ~h.fin THEN "FinNotSet"
  ELSE IF is_control(h.op) /\ h.len > ControlMax THEN "ControlTooLong"
  ELSE IF h.op \in DataOps /\ expect_continuation THEN "ExpectedContinuation"
  ELSE IF h.op = "Continuation" /\ ~expect_continuation THEN "UnexpectedContinuation"
  ELSE IF h.masked /\ is_client THEN "ServerMasked"
  ELSE "None"

ProtocolErrors ==
  {"InvalidOpcode", "FinNotSet", "ControlTooLong", "ExpectedContinuation",
   "UnexpectedContinuation", "ServerMasked"}

(* read_frame_header records the fragment's fin before it checks the mask. *)
NextExpectation(h, err, expect_continuation) ==
  IF ~is_control(h.op) /\ err \in {"None", "ServerMasked"}
  THEN ~h.fin
  ELSE expect_continuation

(* A received frame as the application sees it.                            *)
Frame == [op : Op, code : Code, bytes : Seq(Byte)]

DecodeClose(bytes) ==
  IF Len(bytes) >= 2
  THEN [op |-> "Close", code |-> from_be_bytes(bytes),
        bytes |-> SubSeq(bytes, 3, Len(bytes))]
  ELSE [op |-> "Close", code |-> NoStatusCode, bytes |-> bytes]

-----------------------------------------------------------------------------
(* Shared: which halves of the WebSocket have been closed.                 *)
CloseState == {"None", "Read", "Write", "Both"}

\* mutants: any Close ends reading; only the second Close ends writing;
\* the peer's Close is enough to shut down
can_read_UntilAnyClose(cs)   == cs = "None"
can_write_UntilBoth(cs)      == cs # "Both"
should_close_OnPeerClose(cs) == cs \in {"Read", "Both"}

can_read(cs)     == cs \in {"None", "Write"}
can_write(cs)    == cs \in {"None", "Read"}
should_close(cs) == cs = "Both"

\* mutant: the first Close counts as the second
shutdown_both_OnFirst(cs, how) == cs # how

\* Shared::shutdown: the state it leaves, and the boolean it returns
shutdown_state(cs, how) == IF cs \in {how, "None"} THEN how ELSE "Both"
shutdown_both(cs, how)  == cs \notin {how, "None"}

=============================================================================
