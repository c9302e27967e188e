------------------------------ MODULE HttpBody ------------------------------
(***************************************************************************)
(* Body of src/http/body.rs: how the bytes after a response's header are   *)
(* read, for a response without a body, with a Content-Length, chunked, or *)
(* ended by the connection.  One task reads.  The network splits the stream*)
(* where it likes, the caller's buffers have any length, a call may be     *)
(* interrupted at any await and made again.                                *)
(***************************************************************************)
EXTENDS HttpLine, SequencesExt

CONSTANTS
  Responses,  \* the responses servers send
  MaxHex,     \* the digits read_chunk_size looks at, 33 in the code
  MaxSize,    \* u64::MAX
  MaxRead     \* bound: the length of the caller's buffer

ASSUME MaxHexAssumption == MaxHex \in Nat \ {0} /\ MaxHex <= Capacity
ASSUME BoundsAssumption == MaxSize \in Nat /\ MaxRead \in Nat

(* A chunk: its size line begins after position `at', with so many digits, *)
(* and ends at position `data'.  NoSize: the line holds no valid size.     *)
NoSize    == -1
ChunkType == [at : Nat, digits : Nat, size : Nat \cup {NoSize}, data : Nat]

(* A response, as far as Body::new and the model look at it.  stream is    *)
(* what comes after the header, closes whether the server then closes.     *)
ResponseType ==
  [bodyless : BOOLEAN,                            \* HEAD, 1xx, 204, 304
   encoding : {"absent", "chunked", "other"},     \* Transfer-Encoding
   length   : Nat \cup {-1},                      \* Content-Length, -1 absent
   stream   : Seq(Nat),
   closes   : BOOLEAN,
   chunks   : Seq(ChunkType)]

VARIABLES
  response,   \* the response being read
  transfer,   \* Body::transfer
  pos, hi,    \* its BufReader
  mode,       \* what the task is doing
  room,       \* the length of the buffer read() was given
  offset,     \* read_line_in_place's
  ret,        \* what the last call returned
  delivered   \* history: the positions of the bytes read() returned

reader == << pos, hi >>
vars   == << response, transfer, pos, hi, mode, room, offset, ret, delivered >>

stream == response.stream

-----------------------------------------------------------------------------
(* Transfer and ChunkedState.                                              *)
Plain(kind)    == [kind |-> kind, size |-> 0]
Sized(kind, n) == [kind |-> kind, size |-> n]

Transfer ==
  [kind : {"Empty", "Connection", "Trailers", "Size", "Trailer"}, size : {0}]
    \cup [kind : {"Length", "Extension", "Data"}, size : Nat]

\* Body::new
NewTransfer(r) ==
  CASE r.bodyless -> Plain("Empty")
    [] ~r.bodyless /\ r.encoding = "chunked" -> Plain("Size")
    [] ~r.bodyless /\ r.encoding = "absent" /\ r.length # -1 -> Sized("Length", r.length)
    [] OTHER -> Plain("Connection")

Modes   == {"Idle", "Read", "Scan", "Fill", "Panicked"}
Returns == {"None", "Bytes", "End", "PartialFile", "ChunkTooLarge", "Interrupted",
            "Trailer", "TrailersEnd", "InvalidHeader", "HeadersTooLong", "UnexpectedEof"}

\* the header's reader has left what it buffered beyond the header
Init ==
  /\ response \in Responses
  /\ transfer = NewTransfer(response)
  /\ pos = 0
  /\ hi \in 0 .. Smaller(Len(stream), Capacity)
  /\ mode = "Idle" /\ room = 0 /\ offset = 0 /\ ret = "None"
  /\ delivered = {}

Return(r) == mode' = "Idle" /\ ret' = r /\ room' = 0

-----------------------------------------------------------------------------
(* read().                                                                 *)

Read(n) ==
  /\ mode = "Idle"
  /\ mode' = "Read" /\ room' = n /\ ret' = "None"
  /\ UNCHANGED << response, transfer, reader, offset, delivered >>

ReadAtEnd ==
  /\ mode = "Read" /\ transfer.kind \in {"Empty", "Trailers"}
  /\ Return("End")
  /\ UNCHANGED << response, transfer, reader, offset, delivered >>

(* read_bytes: k bytes out of the buffer, or, when it is empty, straight   *)
(* from the connection.                                                    *)
ReadBytes(k) ==
  /\ k <= (IF pos < hi THEN hi ELSE Len(stream)) - pos
  /\ pos' = pos + k
  /\ hi' = IF pos < hi THEN hi ELSE pos + k
  /\ delivered' = delivered \cup (pos + 1 .. pos + k)
  /\ Return("Bytes")

\* read_bytes returns 0
AtEof == pos = Len(stream) /\ response.closes

ReadConnection ==
  /\ mode = "Read" /\ transfer.kind = "Connection"
  /\ \/ \E k \in 1 .. room : ReadBytes(k) /\ UNCHANGED transfer
     \/ /\ AtEof
        /\ transfer' = Plain("Empty")
        /\ Return("End")
        /\ UNCHANGED << reader, delivered >>
  /\ UNCHANGED << response, offset >>

\* mutant: the last byte is not counted
Less_OffByOne(kind, k, next) ==
  IF transfer.size > k + 1 THEN Sized(kind, transfer.size - k) ELSE Plain(next)

\* what is left of a counted transfer after k bytes
Less(kind, k, next) ==
  IF transfer.size > k THEN Sized(kind, transfer.size - k) ELSE Plain(next)

\* mutant: the end of the stream is the end of the body
EofResult_End == "End"

EofResult == "PartialFile"

ReadCounted(kind, next) ==
  /\ mode = "Read" /\ transfer.kind = kind
  /\ \/ \E k \in 1 .. Smaller(room, transfer.size) :
          ReadBytes(k) /\ transfer' = Less(kind, k, next)
     \/ /\ transfer.size = 0         \* read_into! with no room left
        /\ Return("End")
        /\ UNCHANGED << transfer, reader, delivered >>
     \/ /\ transfer.size > 0 /\ AtEof
        /\ Return(EofResult)
        /\ UNCHANGED << transfer, reader, delivered >>
  /\ UNCHANGED << response, offset >>

ReadLength == ReadCounted("Length", "Empty")
ReadData   == ReadCounted("Data", "Trailer")

-----------------------------------------------------------------------------
(* Chunks.                                                                 *)

\* u64::from_str_radix(_, 16), before it is found too large
HexValue(digits) == FoldLeft(LAMBDA n, d : n * 16 + d, 0, digits)

\* what read_chunk_size looks at: s[pos + 1], ..., s[LookTo]
LookTo == Smaller(hi, pos + MaxHex)

\* mutant: what has arrived is taken for the whole size
NonDigits_OrEnd ==
  IF LookTo = pos THEN {}
  ELSE {p \in pos + 1 .. LookTo + 1 : p = LookTo + 1 \/ ~IsHexDigit(stream[p])}

NonDigits == {p \in pos + 1 .. LookTo : ~IsHexDigit(stream[p])}

\* mutant: as many bytes as it may look at are waited for
SizeDecided_Full == LookTo = pos + MaxHex

SizeDecided == NonDigits # {} \/ LookTo = pos + MaxHex

SizeEnd == IF NonDigits # {} THEN Min(NonDigits) - 1 ELSE LookTo

\* the digits before the first byte that is none; "" is no number
ChunkSize == HexValue(SubSeq(stream, pos + 1, SizeEnd))

\* mutant: no digits are a zero
SizeValid_NoDigits == NonDigits # {} /\ ChunkSize <= MaxSize

SizeValid == NonDigits # {} /\ SizeEnd > pos /\ ChunkSize <= MaxSize

(* read_chunk_size with enough in the buffer.  The digits are consumed even*)
(* when their value is too large.                                          *)
ReadChunkSize ==
  /\ mode = "Read" /\ transfer.kind = "Size" /\ SizeDecided
  /\ pos' = IF NonDigits # {} THEN SizeEnd ELSE pos
  /\ IF SizeValid
     THEN /\ transfer' = Sized("Extension", ChunkSize)
          /\ UNCHANGED << mode, room, ret >>
     ELSE Return("ChunkTooLarge") /\ UNCHANGED transfer
  /\ UNCHANGED << response, hi, offset, delivered >>

Skipping == transfer.kind \in {"Extension", "Trailer"}

AfterNewline ==
  CASE transfer.kind = "Trailer" -> Plain("Size")
    [] transfer.kind = "Extension" /\ transfer.size = 0 -> Plain("Trailers")
    [] OTHER -> Sized("Data", transfer.size)

(* read_until_newline: up to the newline, or all that is buffered.         *)
SkipLine ==
  /\ mode = "Read" /\ Skipping /\ pos < hi
  /\ LET newlines == Newlines(stream, pos, hi)
     IN  IF newlines # {}
         THEN pos' = Min(newlines) /\ transfer' = AfterNewline
         ELSE pos' = hi /\ UNCHANGED transfer
  /\ UNCHANGED << response, hi, mode, room, offset, ret, delivered >>

\* read_chunks awaits fill()
NeedsFill ==
  /\ mode = "Read"
  /\ \/ transfer.kind = "Size" /\ ~SizeDecided
     \/ Skipping /\ pos = hi

FillChunks ==
  /\ NeedsFill
  /\ hi' \in FillTo(stream, pos, hi)
  /\ UNCHANGED << response, transfer, pos, mode, room, offset, ret, delivered >>

FillChunksEof ==
  /\ NeedsFill /\ FillNone(stream, pos, hi, response.closes)
  /\ Return("PartialFile")
  /\ UNCHANGED << response, transfer, reader, offset, delivered >>

-----------------------------------------------------------------------------
(* read_trailer().  Its assertion is the caller's duty.                    *)

ReadTrailer ==
  /\ mode = "Idle" /\ transfer.kind = "Trailers"
  /\ mode' = "Scan" /\ offset' = 0 /\ ret' = "None"
  /\ UNCHANGED << response, transfer, reader, room, delivered >>

(* A line that ends at `to': what read_header_line_limited makes of it.  A *)
(* header that does not parse is not consumed.                             *)
TakeTrailer(to) ==
  \/ /\ IsBlank(stream, pos, to)
     /\ pos' = to /\ transfer' = Plain("Empty") /\ Return("TrailersEnd")
  \/ /\ MayBeHeader(stream, pos, to)
     /\ pos' = to /\ Return("Trailer") /\ UNCHANGED transfer
  \/ /\ ~IsBlank(stream, pos, to) /\ ~IsHeader(stream, pos, to)
     /\ Return("InvalidHeader") /\ UNCHANGED << pos, transfer >>

ScanTrailer ==
  /\ mode = "Scan"
  /\ LET newlines == Newlines(stream, pos + offset, hi)
     IN  \/ /\ ~OffsetInBuffer(pos, hi, offset)
            /\ mode' = "Panicked"
            /\ UNCHANGED << transfer, pos, room, offset, ret >>
         \/ /\ OffsetInBuffer(pos, hi, offset) /\ newlines # {}
            /\ TakeTrailer(Min(newlines))
            /\ UNCHANGED offset
         \/ /\ OffsetInBuffer(pos, hi, offset) /\ newlines = {}
            /\ offset' = OffsetAfterMiss(pos, hi, offset)
            /\ mode' = "Fill"
            /\ UNCHANGED << transfer, pos, room, ret >>
  /\ UNCHANGED << response, hi, delivered >>

FillTrailer ==
  /\ mode = "Fill"
  /\ \/ hi' \in FillTo(stream, pos, hi) /\ mode' = "Scan" /\ UNCHANGED << room, ret >>
     \/ /\ FillNone(stream, pos, hi, response.closes)
        /\ Return(FillError(offset))
        /\ UNCHANGED hi
  /\ UNCHANGED << response, transfer, pos, offset, delivered >>

-----------------------------------------------------------------------------
(* The task is interrupted at an await: fill(), or read_bytes on the       *)
(* connection.  The call fails and leaves all as it is.                    *)
Interrupted ==
  /\ \/ NeedsFill
     \/ mode = "Fill"
     \/ /\ mode = "Read" /\ pos = hi
        /\ \/ transfer.kind = "Connection"
           \/ transfer.kind \in {"Length", "Data"} /\ transfer.size > 0
  /\ Return("Interrupted")
  /\ UNCHANGED << response, transfer, reader, offset, delivered >>

Step ==
  \/ ReadAtEnd \/ ReadConnection \/ ReadLength \/ ReadData
  \/ ReadChunkSize \/ SkipLine \/ FillChunks \/ FillChunksEof
  \/ ScanTrailer \/ FillTrailer

Next ==
  \/ \E n \in 1 .. MaxRead : Read(n)
  \/ ReadTrailer
  \/ Interrupted
  \/ Step

Spec == Init /\ [][Next]_vars

(* What has been sent arrives, and the executor resumes the task.          *)
FairSpec == Spec /\ WF_vars(Step)

-----------------------------------------------------------------------------
(* What a response means: the layout of its stream, which may be cut short *)
(* anywhere.                                                               *)

Chunked(r)  == ~r.bodyless /\ r.encoding = "chunked"
Counted(r)  == ~r.bodyless /\ r.encoding = "absent" /\ r.length # -1
ToTheEnd(r) == ~r.bodyless /\ ~Chunked(r) /\ ~Counted(r)

ChunkBytes(c) == c.data + 1 .. c.data + c.size

\* every byte of s[from + 1], ..., s[to] that comes satisfies P
Each(s, from, to, P(_)) == \A p \in from + 1 .. to : p <= Len(s) => P(s[p])

\* s[to] is the first newline after position `from'
LineEnds(s, from, to) ==
  /\ from < to
  /\ Each(s, from, to - 1, LAMBDA b : b # LF)
  /\ Each(s, to - 1, to, LAMBDA b : b = LF)

SizeLine(s, c) ==
  /\ c.digits > 0 /\ c.digits < MaxHex
  /\ Each(s, c.at, c.at + c.digits, LAMBDA b : IsHexDigit(b))
  /\ Each(s, c.at + c.digits, c.at + c.digits + 1, LAMBDA b : ~IsHexDigit(b))
  /\ c.at + c.digits < Len(s) => HexValue(SubSeq(s, c.at + 1, c.at + c.digits)) = c.size
  /\ c.size <= MaxSize
  /\ LineEnds(s, c.at + c.digits, c.data)

\* no digit, too many, or too large a number
BadSizeLine(s, c) ==
  /\ Each(s, c.at, c.at + c.digits, LAMBDA b : IsHexDigit(b))
  /\ Each(s, c.at + c.digits, c.at + c.digits + 1, LAMBDA b : ~IsHexDigit(b))
  /\ \/ c.digits = 0
     \/ c.digits >= MaxHex
     \/ c.at + c.digits < Len(s) /\ ~(HexValue(SubSeq(s, c.at + 1, c.at + c.digits)) <= MaxSize)

Layout(r) ==
  LET n == Len(r.chunks)
  IN  /\ n > 0 /\ r.chunks[1].at = 0
      /\ \A i \in 1 .. n :
           LET c == r.chunks[i]
           IN  /\ c.size # NoSize => SizeLine(r.stream, c)
               /\ c.size = NoSize => BadSizeLine(r.stream, c)
               /\ i < n <=> c.size > 0
               /\ i < n => LineEnds(r.stream, c.data + c.size, r.chunks[i + 1].at)

ASSUME ResponsesAssumption ==
  \A r \in Responses : r \in ResponseType /\ (Chunked(r) => Layout(r))

\* the positions of the bytes of the body, come or not
BodyBytes(r) ==
  CASE r.bodyless  -> {}
    [] Chunked(r)  -> UNION {ChunkBytes(r.chunks[i]) : i \in 1 .. Len(r.chunks)}
    [] Counted(r)  -> 1 .. r.length
    [] ToTheEnd(r) -> 1 .. Len(r.stream)

LastChunk(r) == r.chunks[Len(r.chunks)]

\* the position at which the body ends, with its last chunk's size line
BodyEnd(r) ==
  CASE r.bodyless  -> 0
    [] Chunked(r)  -> IF LastChunk(r).size = 0 THEN LastChunk(r).data ELSE Len(r.stream) + 1
    [] Counted(r)  -> r.length
    [] ToTheEnd(r) -> Len(r.stream)

-----------------------------------------------------------------------------
TypeOK ==
  /\ response \in Responses
  /\ transfer \in Transfer
  /\ pos \in 0 .. hi /\ hi \in pos .. Smaller(Len(stream), pos + Capacity)
  /\ mode \in Modes /\ room \in 0 .. MaxRead /\ offset \in Nat /\ ret \in Returns
  /\ delivered \subseteq 1 .. pos

-----------------------------------------------------------------------------
(* Properties.                                                             *)

(* However the stream is split, whatever buffers read() is given and       *)
(* wherever it is interrupted, what read() has returned so far is the body *)
(* up to the position reached: no byte of a size line, an extension or a   *)
(* trailer, and none left out.  The types hold.                            *)
DeliveredIsBody == TypeOK /\ delivered = {p \in BodyBytes(response) : p <= pos}

(* read() tells the end of the body from a cut: it returns 0 only once the *)
(* whole body has been returned, and PartialFile only when bytes of the    *)
(* body, or the last size line, never came.                                *)
EndToldFromCut ==
  /\ ret = "End" => BodyBytes(response) \subseteq delivered
  /\ ret = "PartialFile" => Len(stream) < BodyEnd(response)

(* The body is left exactly where it ends: what follows on the connection  *)
(* (the trailers) is not consumed with it.                                 *)
BodyLeftAtItsEnd ==
  [][transfer.kind \notin {"Empty", "Trailers"} /\ transfer'.kind \in {"Empty", "Trailers"}
       => pos' = BodyEnd(response)]_vars

(* After a chunk size that cannot be read, or an early end, no later call  *)
(* returns another byte or reports the end of the body.                    *)
FailureIsFinal ==
  [](ret \in {"ChunkTooLarge", "PartialFile"} => [](ret \notin {"Bytes", "End"}))

\* the server has sent the whole body, or closes the connection
Answered(r) == r.closes \/ (~ToTheEnd(r) /\ BodyEnd(r) <= Len(r.stream))

(* read() returns.  Of a connection the server keeps open it never awaits  *)
(* a byte that is not the body's.                                          *)
ReadReturns == Answered(response) /\ mode = "Read" ~> mode # "Read"
=============================================================================
