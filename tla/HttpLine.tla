------------------------------ MODULE HttpLine ------------------------------
(***************************************************************************)
(* The BufReader the HTTP code reads a connection through, and the scan    *)
(* for the end of a line in read_line_in_place.                            *)
(*                                                                         *)
(* What the server sends is a sequence s.  The reader has consumed s up to *)
(* position pos and holds s[pos + 1], ..., s[hi] in its buffer; how much   *)
(* each fill brings is the network's choice.                               *)
(*                                                                         *)
(* A byte is a natural number: 0 .. 15 are the hexadecimal digits, the     *)
(* others are told apart only as far as the code does.                     *)
(***************************************************************************)
EXTENDS Integers, Sequences, FiniteSetsExt

CONSTANT Capacity     \* of BufReader's buffer

ASSUME CapacityAssumption == Capacity \in Nat \ {0}

IsHexDigit(b) == b \in 0 .. 15

LF  == 16
CR  == 17
Bad == 18     \* not allowed in the name or the value of a header

Smaller(m, n) == IF m <= n THEN m ELSE n

-----------------------------------------------------------------------------
(* BufReader.                                                              *)

\* the values of hi a fill that brings bytes may leave
FillTo(s, pos, hi) == hi + 1 .. Smaller(Len(s), pos + Capacity)

\* fill returns 0: the buffer is full, or the stream has ended
FillNone(s, pos, hi, closes) == hi = pos + Capacity \/ (hi = Len(s) /\ closes)

-----------------------------------------------------------------------------
(* read_line_in_place.                                                     *)

\* the newlines among s[from + 1], ..., s[to]
Newlines(s, from, to) == {p \in from + 1 .. to : s[p] = LF}

\* available[offset..] is within the buffer
OffsetInBuffer(pos, hi, offset) == offset <= hi - pos

\* mutant: the search goes on one byte too far
OffsetAfterMiss_PastEnd(pos, hi, offset) == offset + (hi - pos) + 1

(* Without a newline all that is buffered is added to offset, searched     *)
(* before or not.                                                          *)
OffsetAfterMiss(pos, hi, offset) == offset + (hi - pos)

\* mutant: a full buffer is taken for the end of the stream
FillError_Eof(offset) == "UnexpectedEof"

(* What ends the scan when fill brings nothing.                            *)
FillError(offset) == IF offset = Capacity THEN "HeadersTooLong" ELSE "UnexpectedEof"

\* mutant: an empty line needs its CR
IsBlank_NeedsCR(s, from, to) == to = from + 2 /\ s[from + 1] = CR

\* the line s[from + 1], ..., s[to], to being its newline, is empty
IsBlank(s, from, to) ==
  \/ to = from + 1
  \/ to = from + 2 /\ s[from + 1] = CR

\* it can be a header: neither name nor value holds a newline or a Bad byte
IsHeader(s, from, to) ==
  ~IsBlank(s, from, to) /\ \A p \in from + 1 .. to - 1 : s[p] \notin {LF, Bad}

\* newlines next to its colon, if it is several lines, are trimmed
MayBeHeader(s, from, to) ==
  ~IsBlank(s, from, to) /\ \A p \in from + 1 .. to - 1 : s[p] # Bad
=============================================================================
