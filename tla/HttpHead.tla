------------------------------ MODULE HttpHead ------------------------------
(***************************************************************************)
(* The header of a response, as transfer, parse_response and               *)
(* read_headers_limited of src/http/transfer.rs read it: the first fill,   *)
(* the prefix, the status line, the header lines up to an empty one.  Each *)
(* line is found by read_line_in_place, which counts on its offset to      *)
(* remember how much of the buffer it has searched.                        *)
(***************************************************************************)
EXTENDS HttpLine

CONSTANTS
  Heads,          \* what servers send
  PrefixLen,      \* the length of "HTTP/"
  MaxHeaderSize   \* Options::maximum_header_size

ASSUME PrefixAssumption == PrefixLen \in Nat \ {0} /\ PrefixLen <= Capacity
ASSUME SizeAssumption   == MaxHeaderSize \in Nat

Versions == {"0.9", "1.0", "1.1", "2.0"}
Accepted == {"1.0", "1.1"}      \* min_version .. max_version

(* What a server sends: its stream, the version its first line claims ("0.9*)
(* when it does not begin with HTTP/), whether that line has a status code *)
(* and a reason phrase after it, and whether it closes the connection.     *)
HeadType == [stream : Seq(Nat), version : Versions, status : BOOLEAN,
             reason : BOOLEAN, closes : BOOLEAN]

ASSUME HeadsAssumption == \A h \in Heads : h \in HeadType

VARIABLES
  head,        \* what the server sends
  pos, hi,     \* the BufReader
  phase,       \* what parse_response is reading
  filling,     \* it awaits fill()
  offset,      \* read_line_in_place's
  size_limit,  \* read_headers_limited's
  headers,     \* the header lines taken, << after, to >>
  error,       \* what it returned
  misses,      \* history: searches of the line's buffer that found no newline
  late         \* history: a line has been searched in vain twice

history == << misses, late >>
vars == << head, pos, hi, phase, filling, offset, size_limit, headers, error, history >>

stream == head.stream

Phases == {"Start", "Prefix", "Status", "Headers", "Done", "Failed", "Panicked"}
Errors == {"None", "UnexpectedEof", "HeadersTooLong", "InvalidStatusLine",
           "UnexpectedVersion", "InvalidHeader"}

Init ==
  /\ head \in Heads
  /\ pos = 0 /\ hi = 0
  /\ phase = "Start" /\ filling = TRUE
  /\ offset = 0 /\ size_limit = MaxHeaderSize
  /\ headers = << >> /\ error = "None"
  /\ misses = 0 /\ late = FALSE

Fail(err) == phase' = "Failed" /\ error' = err

-----------------------------------------------------------------------------
(* fill() brings something, or nothing.  transfer does not look at what    *)
(* its own fill returns.                                                   *)
Fill ==
  /\ filling
  /\ hi' \in FillTo(stream, pos, hi)
  /\ filling' = FALSE
  /\ phase' = IF phase = "Start" THEN "Prefix" ELSE phase
  /\ UNCHANGED << head, pos, offset, size_limit, headers, error, history >>

NothingError == IF phase = "Prefix" THEN "UnexpectedEof" ELSE FillError(offset)

FillNothing ==
  /\ filling /\ FillNone(stream, pos, hi, head.closes)
  /\ filling' = FALSE
  /\ IF phase = "Start" THEN phase' = "Prefix" /\ UNCHANGED error
                        ELSE Fail(NothingError)
  /\ UNCHANGED << head, pos, hi, offset, size_limit, headers, history >>

\* parse_response waits for the prefix; without it the response is HTTP/0.9
Prefix ==
  /\ phase = "Prefix" /\ ~filling
  /\ CASE hi - pos < PrefixLen -> filling' = TRUE /\ UNCHANGED << phase, error >>
       [] hi - pos >= PrefixLen /\ head.version # "0.9" ->
            phase' = "Status" /\ UNCHANGED << filling, error >>
       [] OTHER -> Fail("UnexpectedVersion") /\ UNCHANGED filling
  /\ UNCHANGED << head, pos, hi, offset, size_limit, headers, history >>

-----------------------------------------------------------------------------
(* read_line_in_place, called for the status line and for each header.     *)

Scanning == phase \in {"Status", "Headers"} /\ ~filling

ScanPanics ==
  /\ Scanning /\ ~OffsetInBuffer(pos, hi, offset)
  /\ phase' = "Panicked"
  /\ UNCHANGED << head, pos, hi, filling, offset, size_limit, headers, error, history >>

ScanMisses ==
  /\ Scanning /\ OffsetInBuffer(pos, hi, offset)
  /\ Newlines(stream, pos + offset, hi) = {}
  /\ offset' = OffsetAfterMiss(pos, hi, offset)
  /\ misses' = IF pos < hi THEN misses + 1 ELSE misses
  /\ late' = (late \/ misses' > 1)
  /\ filling' = TRUE
  /\ UNCHANGED << head, pos, hi, phase, size_limit, headers, error >>

\* read_line_in_place returns the line up to position `to'
LineFound(to) ==
  /\ Scanning /\ OffsetInBuffer(pos, hi, offset)
  /\ Newlines(stream, pos + offset, hi) # {}
  /\ to = Min(Newlines(stream, pos + offset, hi))

(* parse_status_line looks at the first two words.  A newline is only in   *)
(* their way when nothing follows the second on its line.                  *)
StatusParses(to) ==
  head.status /\ (head.reason \/ Newlines(stream, pos, to - 1) = {})

\* mutant: the status line is not counted
LimitAfterStatus_Uncounted(to) == size_limit

\* maximum_header_size less the status line; negative when it exceeds it
LimitAfterStatus(to) == size_limit - (to - pos)

StatusLine ==
  /\ phase = "Status"
  /\ \E to \in pos + 1 .. hi :
       /\ LineFound(to)
       /\ pos' = to
       /\ size_limit' = LimitAfterStatus(to)
       /\ CASE ~StatusParses(to) -> Fail("InvalidStatusLine")
            [] StatusParses(to) /\ head.version \notin Accepted -> Fail("UnexpectedVersion")
            [] StatusParses(to) /\ head.version \in Accepted /\ size_limit' < 0 ->
                 Fail("HeadersTooLong")
            [] OTHER -> phase' = "Headers" /\ UNCHANGED error
  /\ offset' = 0 /\ misses' = 0
  /\ UNCHANGED << head, hi, filling, headers, late >>

OverLimit(to) == to - pos > size_limit

(* One turn of read_headers_limited: the limit is checked after the line   *)
(* has been consumed.                                                      *)
HeaderLine ==
  /\ phase = "Headers"
  /\ \E to \in pos + 1 .. hi :
       /\ LineFound(to)
       /\ \/ /\ IsBlank(stream, pos, to)
             /\ pos' = to /\ phase' = "Done"
             /\ UNCHANGED << size_limit, headers, error >>
          \/ /\ ~IsBlank(stream, pos, to) /\ ~IsHeader(stream, pos, to)
             /\ Fail("InvalidHeader")
             /\ UNCHANGED << pos, size_limit, headers >>
          \/ /\ MayBeHeader(stream, pos, to) /\ OverLimit(to)
             /\ pos' = to /\ Fail("HeadersTooLong")
             /\ UNCHANGED << size_limit, headers >>
          \/ /\ MayBeHeader(stream, pos, to) /\ ~OverLimit(to)
             /\ pos' = to
             /\ size_limit' = size_limit - (to - pos)
             /\ headers' = Append(headers, << pos, to >>)
             /\ UNCHANGED << phase, error >>
  /\ offset' = 0 /\ misses' = 0
  /\ UNCHANGED << head, hi, filling, late >>

Next ==
  \/ Fill \/ FillNothing \/ Prefix
  \/ ScanPanics \/ ScanMisses
  \/ StatusLine \/ HeaderLine

Spec == Init /\ [][Next]_vars

\* what has been sent arrives, and the executor resumes the task
FairSpec == Spec /\ WF_vars(Next)

-----------------------------------------------------------------------------
TypeOK ==
  /\ head \in Heads
  /\ pos \in 0 .. hi /\ hi \in pos .. Smaller(Len(stream), pos + Capacity)
  /\ phase \in Phases /\ filling \in BOOLEAN /\ offset \in Nat
  /\ size_limit \in Int /\ (phase = "Headers" => size_limit \in 0 .. MaxHeaderSize)
  /\ headers \in Seq(Nat \X Nat)
  /\ error \in Errors /\ misses \in Nat /\ late \in BOOLEAN

-----------------------------------------------------------------------------
(* Properties.  A line is prompt when at most one search of what is        *)
(* buffered of it is in vain: it is there after one more fill.             *)

(* The positions at which an empty line ends, after the first line.        *)
BlankEnds(s) ==
  {p \in 2 .. Len(s) :
     /\ s[p] = LF
     /\ s[p - 1] = LF \/ (p > 2 /\ s[p - 1] = CR /\ s[p - 2] = LF)}

Whole(s, line) == Newlines(s, line[1], line[2] - 1) = {} /\ s[line[2]] = LF

(* While every line has been prompt, the header lines taken are the lines  *)
(* sent, each whole, one after the other, from the status line on.  The    *)
(* types hold.                                                             *)
HeadersAreLines ==
  TypeOK /\ (~late /\ headers # << >> =>
    /\ Whole(stream, << 0, headers[1][1] >>)
    /\ \A i \in 1 .. Len(headers) : Whole(stream, headers[i])
    /\ \A i \in 1 .. Len(headers) - 1 : headers[i + 1][1] = headers[i][2])

(* While every line has been prompt, parse_response does not panic, ends   *)
(* nowhere but behind the first empty line, and so leaves the body to Body,*)
(* and reports an early end only when the server closes before the header, *)
(* or even its prefix, is whole.                                           *)
EndsAtBlankLine ==
  ~late => /\ phase # "Panicked"
           /\ phase = "Done" => pos = Min(BlankEnds(stream))
           /\ error = "UnexpectedEof" =>
                head.closes /\ (BlankEnds(stream) = {} \/ Len(stream) < PrefixLen)

(* maximum_header_size bounds what is accepted, line by line, however the  *)
(* lines arrive: status line and headers together, the empty line aside.   *)
SizeLimited ==
  headers # << >> => headers[Len(headers)][2] <= MaxHeaderSize

(* read_line_in_place uses its offset as a number of buffered bytes: it    *)
(* slices the buffer with it and compares it with the capacity.            *)
OffsetIsBuffered ==
  phase \in {"Status", "Headers"} => OffsetInBuffer(pos, hi, offset)

Ended == phase \in {"Done", "Failed", "Panicked"}

(* parse_response ends once the server has sent the whole header, or closes*)
(* the connection, while every line is prompt.                             *)
ParseEnds == head.closes \/ BlankEnds(stream) # {} ~> Ended \/ late
=============================================================================
