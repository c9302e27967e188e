----------------------------- MODULE TlsSession -----------------------------
(***************************************************************************)
(* The TLS session tls/conn.rs drives: rustls::ClientConnection, a state   *)
(* machine without I/O of its own.  It is not part of the repository; this *)
(* is what conn.rs relies on.                                              *)
(*                                                                         *)
(* Ciphertext travels in units.  What the session has to send is numbered  *)
(* in the order it is produced: 1 .. produced, of which write_tls has      *)
(* handed out 1 .. taken.  What the peer sends is a sequence of kinds, one *)
(* for each unit: "More" for a unit that does not end its record, else     *)
(* what the record is.                                                     *)
(***************************************************************************)
EXTENDS Naturals, Sequences

CONSTANTS
  HelloUnits,   \* units of the ClientHello
  Limit,        \* units the session buffers before write() accepts nothing
  ReadSize      \* units one read_tls takes at most

ASSUME SessionAssumption ==
  HelloUnits \in Nat \ {0} /\ Limit \in Nat \ {0} /\ ReadSize \in Nat \ {0}

(* ServerHello is a flight the session answers before it waits for another *)
(* (TLS 1.2); Finished12 and Finished13 end the handshake, the latter with *)
(* a last flight of the client's.                                          *)
Kinds == {"More", "ServerHello", "Finished12", "Finished13", "Data", "KeyUpdate",
          "CloseNotify", "Bad"}

Lesser(m, n) == IF m < n THEN m ELSE n

Session ==
  [handshaking : BOOLEAN,   \* is_handshaking
   closed      : BOOLEAN,   \* close_notify was received
   eof         : BOOLEAN,   \* read_tls met the end of the stream
   broken      : BOOLEAN,   \* process_new_packets failed
   fed         : Nat,       \* units of the peer's taken in
   plain       : Seq(Nat),  \* plaintext not yet read, by unit
   produced    : Nat,
   taken       : Nat]

NewSession ==
  [handshaking |-> TRUE, closed |-> FALSE, eof |-> FALSE, broken |-> FALSE,
   fed |-> 0, plain |-> << >>, produced |-> HelloUnits, taken |-> 0]

Pending(s)     == s.produced - s.taken
wants_write(s) == Pending(s) > 0
wants_read(s)  == /\ s.plain = << >> /\ ~s.closed
                  /\ ~s.handshaking \/ ~wants_write(s)

\* writer().write(): how much of n units is accepted, and the session after it
Accepts(s, n)  == Lesser(n, IF Pending(s) < Limit THEN Limit - Pending(s) ELSE 0)
Accepting(s, n) == [s EXCEPT !.produced = @ + Accepts(s, n)]

\* mutant: the adapter reports more written than the socket took
TakeOut_All(s, k) == [s EXCEPT !.taken = s.produced]

\* write_tls() that hands out k units, and those units
TakeOut(s, k) == [s EXCEPT !.taken = @ + k]
TakenOut(s, k) == [i \in 1 .. k |-> s.taken + i]

\* what becomes of the session with a record's last unit
Received(s, kind, u) ==
  CASE kind = "ServerHello" -> [s EXCEPT !.produced = @ + 1]
    [] kind = "Finished12"  -> [s EXCEPT !.handshaking = FALSE]
    [] kind = "Finished13"  -> [s EXCEPT !.handshaking = FALSE, !.produced = @ + 1]
    [] kind = "Data"        -> [s EXCEPT !.plain = Append(@, u)]
    [] kind = "KeyUpdate"   -> [s EXCEPT !.produced = @ + 1]
    [] kind = "CloseNotify" -> [s EXCEPT !.closed = TRUE]
    [] kind = "Bad"         -> [s EXCEPT !.broken = TRUE, !.produced = @ + 1]
    [] kind = "More"        -> s

(* A unit that does not follow the last one decrypts to nothing: the       *)
(* session breaks and has an alert to send.                                *)
Take(s, kinds, u) ==
  IF s.broken \/ s.closed THEN s
  ELSE IF u = s.fed + 1 THEN Received([s EXCEPT !.fed = u], kinds[u], u)
  ELSE [s EXCEPT !.broken = TRUE, !.produced = @ + 1]

\* read_tls() with these units, then process_new_packets()
Process(s, kinds, units) ==
  LET after[n \in 0 .. Len(units)] == IF n = 0 THEN s ELSE Take(after[n - 1], kinds, units[n])
  IN  after[Len(units)]

\* what reader().read() returns
ReadOutcome(s) ==
  CASE s.plain # << >>                         -> "Data"
    [] s.plain = << >> /\ s.closed             -> "End"
    [] s.plain = << >> /\ ~s.closed /\ s.eof   -> "UnexpectedEof"
    [] s.plain = << >> /\ ~s.closed /\ ~s.eof  -> "WouldBlock"
=============================================================================
