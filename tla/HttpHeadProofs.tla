--------------------------- MODULE HttpHeadProofs ---------------------------
(***************************************************************************)
(* Proofs about HttpHead, for every buffer, limit and stream: the lines    *)
(* taken are the lines sent, the header ends at its empty line, and it is  *)
(* no longer than the limit.                                               *)
(***************************************************************************)
EXTENDS HttpHead, WellFoundedInduction, TLAPS

-----------------------------------------------------------------------------
(* The invariant.                                                          *)

Shape ==
  /\ head \in Heads
  /\ pos \in Nat /\ hi \in Nat /\ pos <= hi /\ hi <= Len(stream) /\ hi <= pos + Capacity
  /\ phase \in Phases /\ filling \in BOOLEAN /\ offset \in Nat
  /\ size_limit \in Int /\ headers \in Seq(Nat \X Nat)
  /\ error \in Errors /\ misses \in Nat /\ late \in BOOLEAN

Beginning == phase \in {"Start", "Prefix", "Status"}
Reading   == phase \in {"Status", "Headers"}

(* What is left of the limit is what has not been consumed.                *)
Limit ==
  /\ Beginning => pos = 0 /\ headers = << >> /\ size_limit = MaxHeaderSize
  /\ phase = "Headers" => 0 <= size_limit /\ pos + size_limit = MaxHeaderSize
  /\ headers # << >> =>
       0 <= size_limit /\ headers[Len(headers)][2] + size_limit = MaxHeaderSize

(* The lines taken end where the reader is.                                *)
Taken ==
  /\ phase = "Headers" => pos # 0
  /\ phase = "Headers" /\ headers # << >> => headers[Len(headers)][2] = pos
  /\ phase = "Headers" /\ headers = << >> /\ ~late => Whole(stream, << 0, pos >>)
  /\ headers # << >> /\ ~late => Whole(stream, << 0, headers[1][1] >>)
  /\ ~late => \A i \in 1 .. Len(headers) : Whole(stream, headers[i])
  /\ \A i \in 1 .. Len(headers) - 1 : headers[i + 1][1] = headers[i][2]

(* While lines are prompt, offset is what was searched of this one.        *)
Searched ==
  /\ filling => phase = "Start" \/ phase = "Prefix" \/ Reading
  /\ phase = "Prefix" /\ filling => hi < PrefixLen
  /\ phase \in {"Start", "Prefix"} => offset = 0 /\ misses = 0
  /\ Reading /\ ~late =>
       /\ misses \in {0, 1} /\ (misses = 0 <=> offset = 0)
       /\ offset <= hi - pos /\ Newlines(stream, pos, pos + offset) = {}
       /\ filling => offset = hi - pos

(* The reader is at the beginning of a line, before the empty one.         *)
Before ==
  /\ phase = "Headers" /\ ~late => stream[pos] = LF
  /\ (Beginning \/ phase = "Headers") /\ ~late => \A p \in BlankEnds(stream) : pos < p

IInv == Shape /\ Limit /\ Taken /\ Searched /\ Before /\ EndsAtBlankLine

-----------------------------------------------------------------------------
(* The least of a set of natural numbers.                                  *)

LEMMA MinOfNats ==
  ASSUME NEW T, T \subseteq Nat, T # {}
  PROVE  Min(T) \in T /\ \A m \in T : Min(T) <= m
<1> DEFINE R == OpToRel(<, Nat)
<1>1. \E n \in T : \A m \in T : ~(<< m, n >> \in R)
  <2> HIDE DEF R
  <2>1. IsWellFoundedOn(R, Nat)
    BY NatLessThanWellFounded DEF R
  <2> QED BY <2>1, WFMin
<1>2. \A m, n \in Nat : m < n => << m, n >> \in R
  BY DEF OpToRel
<1>3. PICK n \in T : \A m \in T : ~(<< m, n >> \in R)
  BY <1>1
<1> HIDE DEF R
<1>4. ASSUME NEW m \in T PROVE n <= m
  <2>1. m \in Nat /\ n \in Nat
    OBVIOUS
  <2>2. ~(m < n)
    BY <1>2, <1>3, <2>1
  <2> QED BY <2>1, <2>2
<1> QED BY <1>3, <1>4 DEF Min

-----------------------------------------------------------------------------
(* Lines.                                                                  *)

LEMMA HeadFacts ==
  ASSUME NEW h \in Heads
  PROVE  h.stream \in Seq(Nat) /\ Len(h.stream) \in Nat /\ h.closes \in BOOLEAN
         /\ Capacity \in Nat \ {0} /\ PrefixLen \in Nat \ {0} /\ PrefixLen <= Capacity
         /\ MaxHeaderSize \in Nat
BY HeadsAssumption, CapacityAssumption, PrefixAssumption, SizeAssumption DEF HeadType

(* What read_line_in_place returns ends with the first newline behind what *)
(* it has searched.                                                        *)
LEMMA Found ==
  ASSUME Shape, NEW to \in pos + 1 .. hi, LineFound(to)
  PROVE  /\ to \in Nat /\ pos < to /\ to <= hi /\ to <= Len(stream) /\ stream[to] = LF
         /\ offset <= hi - pos
         /\ \A q \in Nat : pos + offset < q /\ q < to => stream[q] # LF
<1> DEFINE N == Newlines(stream, pos + offset, hi)
<1>1. pos \in Nat /\ hi \in Nat /\ offset \in Nat /\ hi <= Len(stream) /\ Len(stream) \in Nat
  BY HeadFacts DEF Shape, stream
<1>2. N \subseteq Nat /\ N # {} /\ to = Min(N)
  BY <1>1 DEF Newlines, LineFound
<1>3. to \in N /\ \A m \in N : to <= m
  <2> HIDE DEF N
  <2> QED BY <1>2, MinOfNats
<1>4. stream[to] = LF
  BY <1>3 DEF Newlines
<1>5. ASSUME NEW q \in Nat, pos + offset < q, q < to PROVE stream[q] # LF
  <2>1. q \in pos + offset + 1 .. hi
    BY <1>1, <1>5
  <2>2. q \notin N
    BY <1>1, <1>3, <1>5
  <2> QED BY <2>1, <2>2 DEF Newlines
<1>6. offset <= hi - pos
  BY DEF LineFound, OffsetInBuffer
<1> QED BY <1>1, <1>4, <1>5, <1>6

(* A prompt line holds no other newline.                                   *)
LEMMA PromptLine ==
  ASSUME Shape, Searched, Reading, ~late, NEW to \in pos + 1 .. hi, LineFound(to)
  PROVE  \A q \in Nat : pos < q /\ q < to => stream[q] # LF
<1>1. pos \in Nat /\ hi \in Nat /\ offset \in Nat
  BY DEF Shape
<1> SUFFICES ASSUME NEW q \in Nat, pos < q, q < to PROVE stream[q] # LF
  OBVIOUS
<1>2. CASE pos + offset < q
  BY <1>2, Found
<1>3. CASE q <= pos + offset
  <2>1. q \in pos + 1 .. pos + offset
    BY <1>1, <1>3
  <2>2. Newlines(stream, pos, pos + offset) = {}
    BY DEF Searched
  <2> QED BY <2>1, <2>2 DEF Newlines
<1> QED BY <1>1, <1>2, <1>3

LEMMA LineIsWhole ==
  ASSUME NEW s, NEW from \in Nat, NEW to \in Nat, s[to] = LF,
         \A q \in Nat : from < q /\ q < to => s[q] # LF
  PROVE  Whole(s, << from, to >>)
<1>1. Newlines(s, from, to - 1) = {}
  BY DEF Newlines
<1> QED BY <1>1 DEF Whole

(* An empty line that is not before a line is behind it, unless it is that *)
(* line.                                                                   *)
LEMMA NoBlankIn ==
  ASSUME NEW s \in Seq(Nat), NEW from \in Nat, NEW to \in Nat, from < to,
         \A q \in Nat : from < q /\ q < to => s[q] # LF,
         from = 0 \/ (s[from] = LF /\ ~IsBlank(s, from, to)),
         \A p \in BlankEnds(s) : from < p
  PROVE  \A p \in BlankEnds(s) : to < p
<1> SUFFICES ASSUME NEW p \in BlankEnds(s), p <= to PROVE FALSE
  BY DEF BlankEnds
<1>1. p \in Nat /\ 2 <= p /\ from < p /\ s[p] = LF
  BY DEF BlankEnds
<1>2. p = to
  BY <1>1
<1>3. CASE s[to - 1] = LF
  <2>1. to - 1 \in Nat /\ ~(from < to - 1)
    BY <1>1, <1>2, <1>3
  <2>2. from = to - 1 /\ from # 0
    BY <1>1, <1>2, <2>1
  <2> QED BY <2>2 DEF IsBlank
<1>4. CASE to > 2 /\ s[to - 1] = CR /\ s[to - 2] = LF
  <2>1. to - 2 \in Nat /\ to - 2 # 0 /\ ~(from < to - 2)
    BY <1>4
  <2>2. from \in {to - 2, to - 1} /\ from # 0
    BY <2>1
  <2>3. ~IsBlank(s, from, to) /\ s[from] = LF
    BY <2>2
  <2>4. CASE from = to - 2
    <3>1. to = from + 2 /\ s[from + 1] = CR
      BY <1>4, <2>4
    <3> QED BY <2>3, <3>1 DEF IsBlank
  <2>5. CASE from = to - 1
    BY <2>3, <2>5 DEF IsBlank
  <2> QED BY <2>2, <2>4, <2>5
<1> QED BY <1>2, <1>3, <1>4 DEF BlankEnds

(* The empty line read is the first one.                                   *)
LEMMA BlankIsFirst ==
  ASSUME NEW s \in Seq(Nat), NEW from \in Nat, NEW to \in Nat, from < to, to <= Len(s),
         s[to] = LF, from # 0, s[from] = LF, IsBlank(s, from, to),
         \A p \in BlankEnds(s) : from < p
  PROVE  to = Min(BlankEnds(s))
<1>1. to \in BlankEnds(s)
  <2>1. to \in 2 .. Len(s)
    OBVIOUS
  <2>2. CASE to = from + 1
    <3>1. s[to - 1] = LF
      BY <2>2
    <3> QED BY <2>1, <3>1 DEF BlankEnds
  <2>3. CASE to = from + 2 /\ s[from + 1] = CR
    <3>1. to > 2 /\ s[to - 1] = CR /\ s[to - 2] = LF
      <4>1. to - 1 = from + 1 /\ to - 2 = from /\ to > 2
        BY <2>3
      <4> QED BY <2>3, <4>1
    <3> QED BY <2>1, <3>1 DEF BlankEnds
  <2> QED BY <2>2, <2>3 DEF IsBlank
<1>2. ASSUME NEW p \in BlankEnds(s) PROVE to <= p
  <2>1. p \in Nat /\ from < p /\ s[p] = LF
    BY DEF BlankEnds
  <2>2. CASE to = from + 1
    BY <2>1, <2>2
  <2>3. CASE to = from + 2 /\ s[from + 1] = CR
    <3>1. p # from + 1
      BY <2>1, <2>3 DEF CR, LF
    <3> QED BY <2>1, <2>3, <3>1
  <2> QED BY <2>2, <2>3 DEF IsBlank
<1>3. \A p \in BlankEnds(s) : p \in Nat
  BY DEF BlankEnds
<1>4. \A m \in BlankEnds(s) : (\A p \in BlankEnds(s) : m <= p) => m = to
  BY <1>1, <1>2, <1>3
<1> QED BY <1>1, <1>2, <1>4 DEF Min
-----------------------------------------------------------------------------
(* The invariant holds at first.                                           *)

LEMMA InitInv == Init => IInv
<1> SUFFICES ASSUME Init PROVE IInv
  OBVIOUS
<1>0. Len(stream) \in Nat /\ Capacity \in Nat /\ MaxHeaderSize \in Nat
  BY HeadFacts DEF Init, stream
<1>1. Shape
  <2>1. headers \in Seq(Nat \X Nat)
    BY DEF Init
  <2>2. pos = 0 /\ hi = 0 /\ size_limit \in Int
    BY <1>0 DEF Init
  <2>3. head \in Heads /\ pos \in Nat /\ hi \in Nat /\ pos <= hi /\ hi <= Len(stream) /\ hi <= pos + Capacity
    BY <1>0, <2>2 DEF Init
  <2>4. phase \in Phases /\ error \in Errors /\ filling \in BOOLEAN /\ late \in BOOLEAN
        /\ offset \in Nat /\ misses \in Nat
    BY DEF Init, Phases, Errors
  <2> QED BY <2>1, <2>2, <2>3, <2>4 DEF Shape
<1>2. Limit
  BY DEF Init, Limit, Beginning
<1>3. Taken
  BY DEF Init, Taken
<1>4. Searched
  BY DEF Init, Searched, Reading
<1>5. Before
  BY DEF Init, Before, Beginning, BlankEnds
<1>6. EndsAtBlankLine
  BY DEF Init, EndsAtBlankLine
<1> QED BY <1>1, <1>2, <1>3, <1>4, <1>5, <1>6 DEF IInv

-----------------------------------------------------------------------------
(* One lemma for each action.                                              *)

LEMMA StaysWithin ==
  ASSUME NEW o \in Nat, NEW p \in Nat, NEW h \in Nat, NEW g \in Nat, h < g, o <= h - p
  PROVE  o <= g - p
OBVIOUS

LEMMA FillInv == IInv /\ Fill => IInv'
<1> SUFFICES ASSUME IInv, Fill PROVE IInv'
  OBVIOUS
<1> USE DEF IInv
<1>0. Len(stream) \in Nat /\ Capacity \in Nat /\ pos \in Nat /\ hi \in Nat /\ stream' = stream
  BY HeadFacts DEF Fill, stream, Shape
<1>1. hi' \in Nat /\ hi < hi' /\ hi' <= Len(stream) /\ hi' <= pos + Capacity
  BY <1>0 DEF Fill, FillTo, Smaller
<1>2. IF phase = "Start" THEN phase' = "Prefix" ELSE phase' = phase
  BY DEF Fill
<1>3. Shape'
  <2>1. pos' = pos /\ pos <= hi'
    BY <1>0, <1>1 DEF Fill, Shape
  <2>2. phase' \in Phases
    BY <1>2 DEF Phases, Shape
  <2> QED BY <1>0, <1>1, <2>1, <2>2 DEF Shape, Fill, history
<1>4. Limit'
  BY <1>2 DEF Limit, Fill, Beginning
<1>5. Taken'
  BY <1>0, <1>2 DEF Taken, Fill, history
<1>6. Searched'
  <2>1. ~filling' /\ pos' = pos /\ offset' = offset /\ misses' = misses /\ late' = late
    BY DEF Fill, history
  <2>2. offset <= hi - pos => offset <= hi' - pos
    <3>1. offset \in Nat
      BY DEF Shape
    <3> QED BY <1>0, <1>1, <3>1, StaysWithin
  <2>3. phase = "Start" => offset = 0 /\ misses = 0
    BY DEF Searched
  <2>4. Reading' <=> Reading
    BY <1>2 DEF Reading
  <2>5. Newlines(stream, pos, pos + offset)' = Newlines(stream, pos, pos + offset)
    BY <1>0, <2>1 DEF Newlines
  <2> QED BY <1>0, <1>2, <2>1, <2>2, <2>3, <2>4, <2>5 DEF Searched
<1>7. Before'
  BY <1>0, <1>2 DEF Before, Beginning, Fill, history
<1>8. EndsAtBlankLine'
  BY <1>0, <1>2 DEF EndsAtBlankLine, Fill, history
<1> QED BY <1>3, <1>4, <1>5, <1>6, <1>7, <1>8

LEMMA FillNothingInv == IInv /\ FillNothing => IInv'
<1> SUFFICES ASSUME IInv, FillNothing PROVE IInv'
  OBVIOUS
<1> USE DEF IInv
<1>0. /\ Len(stream) \in Nat /\ Capacity \in Nat /\ PrefixLen \in Nat /\ PrefixLen <= Capacity
      /\ pos \in Nat /\ hi \in Nat /\ offset \in Nat /\ stream' = stream /\ head.closes \in BOOLEAN
  BY HeadFacts DEF FillNothing, stream, Shape
<1>1. \/ phase = "Start" /\ phase' = "Prefix" /\ error' = error
      \/ phase # "Start" /\ phase' = "Failed" /\ error' = NothingError
  BY DEF FillNothing, Fail
<1>2. NothingError \in {"UnexpectedEof", "HeadersTooLong"}
  BY DEF NothingError, FillError
<1>3. Shape'
  BY <1>0, <1>1, <1>2 DEF Shape, FillNothing, history, Phases, Errors
<1>4. Limit'
  BY <1>1 DEF Limit, FillNothing, Beginning
<1>5. Taken'
  BY <1>0, <1>1 DEF Taken, FillNothing, history
<1>6. Searched'
  BY <1>0, <1>1 DEF Searched, Reading, FillNothing, history
<1>7. Before'
  BY <1>0, <1>1 DEF Before, Beginning, FillNothing, history
<1>8. EndsAtBlankLine'
  <2> SUFFICES ASSUME ~late, error' = "UnexpectedEof"
               PROVE  head.closes /\ (BlankEnds(stream) = {} \/ Len(stream) < PrefixLen)
    BY <1>0, <1>1 DEF EndsAtBlankLine, FillNothing, history
  <2>1. CASE phase = "Start"
    BY <1>1, <2>1 DEF EndsAtBlankLine
  <2>2. hi = pos + Capacity \/ (hi = Len(stream) /\ head.closes)
    BY DEF FillNothing, FillNone
  <2>3. CASE phase = "Prefix"
    <3>1. pos = 0 /\ hi < PrefixLen
      BY <2>3 DEF Limit, Beginning, Searched, FillNothing
    <3> QED BY <1>0, <2>2, <3>1
  <2>4. CASE Reading
    <3>1. NothingError = FillError(offset) /\ offset = hi - pos /\ Newlines(stream, pos, pos + offset) = {}
      BY <2>4 DEF Searched, FillNothing, NothingError, Reading
    <3>2. error' = NothingError
      BY <1>1, <2>4 DEF Reading
    <3>3. hi = Len(stream) /\ head.closes
      BY <1>0, <2>2, <3>1, <3>2 DEF FillError
    <3>4. \A p \in BlankEnds(stream) : pos < p
      BY <2>4 DEF Before, Beginning, Reading
    <3>5. \A p \in BlankEnds(stream) : p \in Newlines(stream, pos, pos + offset)
      BY <1>0, <3>1, <3>3, <3>4 DEF BlankEnds, Newlines
    <3> QED BY <3>1, <3>3, <3>5
  <2>5. phase = "Start" \/ phase = "Prefix" \/ Reading
    BY DEF Searched, FillNothing
  <2> QED BY <2>1, <2>3, <2>4, <2>5
<1> QED BY <1>3, <1>4, <1>5, <1>6, <1>7, <1>8
LEMMA PrefixInv == IInv /\ Prefix => IInv'
<1> SUFFICES ASSUME IInv, Prefix PROVE IInv'
  OBVIOUS
<1> USE DEF IInv
<1>0. /\ pos' = pos /\ hi' = hi /\ offset' = offset /\ misses' = misses /\ late' = late
      /\ stream' = stream /\ head' = head /\ headers' = headers /\ size_limit' = size_limit
      /\ phase = "Prefix" /\ ~filling /\ pos = 0 /\ offset = 0 /\ misses = 0
  BY DEF Prefix, history, stream, Limit, Beginning, Searched
<1>1. \/ hi - pos < PrefixLen /\ filling' = TRUE /\ phase' = phase /\ error' = error
      \/ phase' = "Status" /\ filling' = filling /\ error' = error
      \/ phase' = "Failed" /\ filling' = filling /\ error' = "UnexpectedVersion"
  BY DEF Prefix, Fail
<1>2. Shape'
  <2>1. phase' \in Phases /\ error' \in Errors /\ filling' \in BOOLEAN
    BY <1>1 DEF Shape, Phases, Errors
  <2> QED BY <1>0, <2>1 DEF Shape
<1>3. Limit'
  BY <1>0, <1>1 DEF Limit, Beginning
<1>4. Taken'
  BY <1>0, <1>1 DEF Taken
<1>5. Searched'
  <2>1. hi \in Nat /\ PrefixLen \in Nat
    BY HeadFacts DEF Shape
  <2>2. Newlines(stream, pos, pos + offset) = {} /\ offset <= hi - pos
    BY <1>0, <2>1 DEF Newlines
  <2>3. Newlines(stream, pos, pos + offset)' = Newlines(stream, pos, pos + offset)
    BY <1>0 DEF Newlines
  <2>4. ASSUME filling' PROVE phase' = "Prefix" /\ hi < PrefixLen
    <3>1. hi - pos < PrefixLen /\ phase' = phase
      BY <1>0, <1>1, <2>4
    <3> QED BY <1>0, <2>1, <3>1
  <2> QED BY <1>0, <1>1, <2>1, <2>2, <2>3, <2>4 DEF Searched, Reading
<1>6. Before'
  BY <1>0, <1>1 DEF Before, Beginning
<1>7. EndsAtBlankLine'
  BY <1>0, <1>1 DEF EndsAtBlankLine
<1> QED BY <1>2, <1>3, <1>4, <1>5, <1>6, <1>7

(* It takes a second search in vain to get beyond the buffer.              *)
LEMMA ScanPanicsInv == IInv /\ ScanPanics => IInv'
<1> SUFFICES ASSUME IInv, ScanPanics PROVE IInv'
  OBVIOUS
<1> USE DEF IInv
<1>0. /\ pos' = pos /\ hi' = hi /\ late' = late /\ offset' = offset /\ error' = error
      /\ stream' = stream /\ head' = head /\ headers' = headers /\ size_limit' = size_limit
      /\ ~filling' /\ Reading /\ phase' = "Panicked"
  BY DEF ScanPanics, Scanning, Reading, history, stream
<1>1. Shape'
  BY <1>0 DEF ScanPanics, history, Shape, Phases
<1>2. Limit' /\ Taken' /\ Searched' /\ Before'
  BY <1>0 DEF Limit, Taken, Searched, Before, Beginning, Reading
<1>3. late
  BY <1>0 DEF ScanPanics, Searched, OffsetInBuffer
<1>4. EndsAtBlankLine'
  BY <1>0, <1>3 DEF EndsAtBlankLine
<1> QED BY <1>1, <1>2, <1>4

LEMMA ScanMissesInv == IInv /\ ScanMisses => IInv'
<1> SUFFICES ASSUME IInv, ScanMisses PROVE IInv'
  OBVIOUS
<1> USE DEF IInv
<1>0. /\ pos' = pos /\ hi' = hi /\ phase' = phase /\ error' = error
      /\ stream' = stream /\ head' = head /\ headers' = headers /\ size_limit' = size_limit
      /\ ~filling /\ filling' /\ Reading
  BY DEF ScanMisses, Scanning, Reading, stream
<1>1. /\ offset <= hi - pos /\ Newlines(stream, pos + offset, hi) = {}
      /\ offset' = offset + (hi - pos)
      /\ misses' = IF pos < hi THEN misses + 1 ELSE misses
      /\ late' = (late \/ misses' > 1)
  BY DEF ScanMisses, OffsetInBuffer, OffsetAfterMiss
<1>2. pos \in Nat /\ hi \in Nat /\ offset \in Nat /\ misses \in Nat /\ pos <= hi /\ late \in BOOLEAN
  BY DEF Shape
<1>3. offset' \in Nat /\ misses' \in Nat /\ late' \in BOOLEAN /\ (late => late')
  <2>1. hi - pos \in Nat
    BY <1>2
  <2>2. offset' \in Nat
    BY <1>1, <1>2, <2>1
  <2>3. misses' \in Nat
    BY <1>1, <1>2
  <2> QED BY <1>1, <1>2, <2>2, <2>3
<1>4. Shape'
  BY <1>0, <1>3 DEF Shape
<1>5. Limit'
  BY <1>0 DEF Limit, Beginning
<1>6. Taken'
  BY <1>0, <1>3 DEF Taken
<1>7. Searched'
  <2> SUFFICES ASSUME ~late'
               PROVE  /\ misses' \in {0, 1} /\ (misses' = 0 <=> offset' = 0)
                      /\ offset' = hi - pos /\ offset' <= hi - pos
                      /\ Newlines(stream, pos, pos + offset') = {}
    BY <1>0 DEF Searched, Reading, Newlines
  <2>1. ~late /\ misses' <= 1
    <3>1. ~late /\ ~(misses' > 1)
      BY <1>1
    <3> QED BY <1>3, <3>1
  <2>2. misses \in {0, 1} /\ (misses = 0 <=> offset = 0)
    BY <1>0, <2>1 DEF Searched
  <2>3. offset = 0
    <3>1. CASE misses = 0
      BY <2>2, <3>1
    <3>2. CASE misses = 1
      BY <1>1, <1>2, <2>1, <2>2, <3>2
    <3> QED BY <2>2, <3>1, <3>2
  <2>4. offset' = hi - pos
    BY <1>1, <1>2, <2>3
  <2>5. misses' \in {0, 1} /\ (misses' = 0 <=> pos = hi)
    BY <1>1, <1>2, <2>2, <2>3
  <2>6. pos + offset = pos /\ pos + (hi - pos) = hi
    BY <1>2, <2>3
  <2> QED BY <1>1, <1>2, <2>4, <2>5, <2>6
<1>8. Before'
  BY <1>0, <1>3 DEF Before, Beginning
<1>9. EndsAtBlankLine'
  BY <1>0, <1>3 DEF EndsAtBlankLine
<1> QED BY <1>4, <1>5, <1>6, <1>7, <1>8, <1>9
LEMMA StatusLineInv == IInv /\ StatusLine => IInv'
<1> SUFFICES ASSUME IInv, StatusLine PROVE IInv'
  OBVIOUS
<1> USE DEF IInv
<1>0. PICK to \in pos + 1 .. hi :
        /\ LineFound(to) /\ pos' = to /\ size_limit' = LimitAfterStatus(to)
        /\ \/ phase' = "Failed" /\ error' \in {"InvalidStatusLine", "UnexpectedVersion", "HeadersTooLong"}
           \/ phase' = "Headers" /\ error' = error /\ ~(size_limit' < 0)
  BY DEF StatusLine, Fail
<1>1. /\ hi' = hi /\ offset' = 0 /\ misses' = 0 /\ late' = late
      /\ stream' = stream /\ head' = head /\ headers' = headers /\ headers = << >>
      /\ phase = "Status" /\ ~filling' /\ pos = 0 /\ size_limit = MaxHeaderSize
  BY <1>0 DEF StatusLine, LineFound, Scanning, stream, Limit, Beginning
<1>2. to \in Nat /\ pos < to /\ to <= hi /\ stream[to] = LF
  BY <1>0, Found
<1>3. /\ hi \in Nat /\ hi <= pos + Capacity /\ hi <= to + Capacity /\ MaxHeaderSize \in Nat
      /\ hi <= Len(stream)
  <2>1. hi \in Nat /\ hi <= 0 + Capacity /\ Capacity \in Nat /\ MaxHeaderSize \in Nat
        /\ hi <= Len(stream)
    BY <1>1, HeadFacts DEF Shape
  <2> QED BY <1>1, <1>2, <2>1
<1>4. size_limit' \in Int /\ to + size_limit' = MaxHeaderSize
  BY <1>0, <1>1, <1>2, <1>3 DEF LimitAfterStatus
<1>5. Shape'
  <2>1. phase' \in Phases /\ error' \in Errors
    BY <1>0 DEF Shape, Phases, Errors
  <2>2. /\ pos' \in Nat /\ hi' \in Nat /\ pos' <= hi' /\ hi' <= Len(stream') /\ hi' <= pos' + Capacity
        /\ filling' \in BOOLEAN /\ late' \in BOOLEAN /\ offset' \in Nat /\ misses' \in Nat
    BY <1>0, <1>1, <1>2, <1>3 DEF StatusLine, Shape
  <2>3. head' \in Heads /\ headers' \in Seq(Nat \X Nat)
    BY <1>1 DEF Shape
  <2> QED BY <1>4, <2>1, <2>2, <2>3 DEF Shape
<1>6. Limit'
  <2>1. phase' = "Headers" => 0 <= size_limit'
    BY <1>0, <1>4
  <2> QED BY <1>0, <1>1, <1>4, <2>1 DEF Limit, Beginning
<1>7. ~late => \A q \in Nat : 0 < q /\ q < to => stream[q] # LF
  BY <1>0, <1>1, PromptLine DEF Reading
<1>8. Taken'
  <2>1. ~late => Whole(stream, << 0, to >>)
    BY <1>2, <1>7, LineIsWhole
  <2>2. pos' # 0
    BY <1>0, <1>1, <1>2
  <2> QED BY <1>0, <1>1, <2>1, <2>2 DEF Taken
<1>9. Searched'
  <2>1. Newlines(stream, to, to) = {} /\ to + 0 = to /\ 0 <= hi - to
    BY <1>2, <1>3 DEF Newlines
  <2>2. Newlines(stream, pos, pos + offset)' = {} /\ (offset <= hi - pos)'
    BY <1>0, <1>1, <2>1
  <2>3. phase' \notin {"Start", "Prefix"}
    BY <1>0
  <2> QED BY <1>1, <2>2, <2>3 DEF Searched
<1>10. Before'
  <2> SUFFICES ASSUME ~late PROVE stream[to] = LF /\ \A p \in BlankEnds(stream) : to < p
    BY <1>0, <1>1 DEF Before, Beginning
  <2>1. stream \in Seq(Nat)
    BY HeadFacts DEF Shape, stream
  <2>2. \A p \in BlankEnds(stream) : 0 < p
    BY DEF BlankEnds
  <2> QED BY <1>1, <1>2, <1>7, <2>1, <2>2, NoBlankIn
<1>11. EndsAtBlankLine'
  BY <1>0, <1>1 DEF EndsAtBlankLine
<1> QED BY <1>5, <1>6, <1>8, <1>9, <1>10, <1>11

LEMMA LimitLess ==
  ASSUME NEW limit \in Int, NEW p \in Nat, NEW to \in Nat, NEW max \in Nat, NEW new,
         p + limit = max, ~(to - p > limit), new = limit - (to - p)
  PROVE  0 <= new /\ to + new = max
OBVIOUS

LEMMA HeaderLineInv == IInv /\ HeaderLine => IInv'
<1> SUFFICES ASSUME IInv, HeaderLine PROVE IInv'
  OBVIOUS
<1> USE DEF IInv
<1> DEFINE blank(to) == /\ IsBlank(stream, pos, to)
                        /\ pos' = to /\ phase' = "Done" /\ size_limit' = size_limit
                        /\ headers' = headers /\ error' = error
           failed(to) == /\ phase' = "Failed" /\ error' \in {"InvalidHeader", "HeadersTooLong"}
                         /\ pos' \in {pos, to} /\ size_limit' = size_limit /\ headers' = headers
           taken(to) == /\ ~IsBlank(stream, pos, to) /\ ~OverLimit(to)
                        /\ pos' = to /\ size_limit' = size_limit - (to - pos)
                        /\ headers' = Append(headers, << pos, to >>)
                        /\ phase' = phase /\ error' = error
<1>0. PICK to \in pos + 1 .. hi : LineFound(to) /\ (blank(to) \/ failed(to) \/ taken(to))
  BY DEF HeaderLine, MayBeHeader, Fail
<1>1. /\ hi' = hi /\ offset' = 0 /\ misses' = 0 /\ late' = late
      /\ stream' = stream /\ head' = head
      /\ phase = "Headers" /\ ~filling' /\ pos # 0
      /\ 0 <= size_limit /\ pos + size_limit = MaxHeaderSize
      /\ headers # << >> => headers[Len(headers)][2] = pos
  BY <1>0 DEF HeaderLine, LineFound, Scanning, stream, Limit, Taken
<1>2. to \in Nat /\ pos < to /\ to <= hi /\ stream[to] = LF /\ to <= Len(stream)
  BY <1>0, Found
<1>3. /\ pos \in Nat /\ hi \in Nat /\ Capacity \in Nat /\ hi <= pos + Capacity /\ hi <= Len(stream)
      /\ pos <= hi /\ size_limit \in Int /\ MaxHeaderSize \in Nat
      /\ stream \in Seq(Nat) /\ Len(stream) \in Nat
      /\ headers \in Seq(Nat \X Nat) /\ Len(headers) \in Nat
  BY HeadFacts DEF Shape, stream
<1>4. hi <= to + Capacity
  BY <1>2, <1>3
<1>5. hi' \in Nat /\ hi' <= Len(stream') /\ head' \in Heads
      /\ filling' \in BOOLEAN /\ late' \in BOOLEAN /\ offset' \in Nat /\ misses' \in Nat
  BY <1>1, <1>3 DEF HeaderLine, Shape
<1>6. ~late => stream[pos] = LF /\ \A p \in BlankEnds(stream) : pos < p
  BY <1>1 DEF Before
<1>7. \A at \in {pos, to} : at \in Nat /\ at <= hi /\ hi <= at + Capacity
  BY <1>2, <1>3, <1>4
<1>8. Shape'
  <2>1. phase' \in Phases /\ error' \in Errors
    BY <1>0 DEF Shape, Phases, Errors
  <2>2. pos' \in {pos, to}
    BY <1>0
  <2>3. pos' \in Nat /\ pos' <= hi' /\ hi' <= pos' + Capacity
    BY <1>1, <1>7, <2>2
  <2>4. size_limit' \in Int
    BY <1>0, <1>2, <1>3
  <2>5. headers' \in Seq(Nat \X Nat)
    <3>1. << pos, to >> \in Nat \X Nat
      BY <1>2, <1>3
    <3>2. Append(headers, << pos, to >>) \in Seq(Nat \X Nat)
      BY <1>3, <3>1
    <3> QED BY <1>0, <1>3, <3>2
  <2> QED BY <1>5, <2>1, <2>3, <2>4, <2>5 DEF Shape
<1>9. Searched'
  <2>1. phase' = "Headers" => pos' = to
    BY <1>0
  <2>2. Newlines(stream, to, to + 0) = {} /\ 0 <= hi - to
    BY <1>2, <1>3 DEF Newlines
  <2>3. phase' = "Headers" =>
          Newlines(stream, pos, pos + offset)' = {} /\ (offset <= hi - pos)'
    BY <1>1, <2>1, <2>2
  <2>4. phase' \in {"Done", "Failed", "Headers"}
    BY <1>0, <1>1
  <2> QED BY <1>1, <2>3, <2>4 DEF Searched, Reading
<1>10. CASE blank(to)
  <2>1. Limit' /\ Taken' /\ Before'
    BY <1>1, <1>10 DEF Limit, Taken, Before, Beginning
  <2>2. ~late => to = Min(BlankEnds(stream))
    <3> SUFFICES ASSUME ~late PROVE to = Min(BlankEnds(stream))
      OBVIOUS
    <3> QED BY <1>1, <1>2, <1>3, <1>6, <1>10, BlankIsFirst
  <2>3. EndsAtBlankLine'
    BY <1>1, <1>10, <2>2 DEF EndsAtBlankLine
  <2> QED BY <1>8, <1>9, <2>1, <2>3
<1>11. CASE failed(to)
  <2>1. Limit' /\ Taken' /\ Before'
    BY <1>1, <1>11 DEF Limit, Taken, Before, Beginning
  <2>2. EndsAtBlankLine'
    BY <1>1, <1>11 DEF EndsAtBlankLine
  <2> QED BY <1>8, <1>9, <2>1, <2>2
<1>12. CASE taken(to)
  <2> DEFINE line == << pos, to >>
             n == Len(headers)
  <2>1. ~late => \A q \in Nat : pos < q /\ q < to => stream[q] # LF
    BY <1>0, <1>1, PromptLine DEF Reading
  <2>2. ~late => Whole(stream, line)
    BY <1>2, <1>3, <2>1, LineIsWhole
  <2>3. /\ headers' # << >> /\ Len(headers') = n + 1 /\ headers'[n + 1] = line
        /\ \A i \in 1 .. n : headers'[i] = headers[i]
        /\ line[1] = pos /\ line[2] = to
    BY <1>3, <1>12
  <2>4. Limit'
    <3>1. 0 <= size_limit' /\ to + size_limit' = MaxHeaderSize
      <4>1. ~(to - pos > size_limit) /\ size_limit' = size_limit - (to - pos)
        BY <1>12 DEF OverLimit
      <4> QED BY <1>1, <1>2, <1>3, <4>1, LimitLess
    <3> QED BY <1>1, <1>12, <2>3, <3>1 DEF Limit, Beginning
  <2>5. Taken'
    <3>1. ASSUME NEW i \in 1 .. n + 1, ~late PROVE Whole(stream, headers'[i])
      <4>1. CASE i = n + 1
        BY <2>2, <2>3, <3>1, <4>1
      <4>2. CASE i \in 1 .. n
        BY <2>3, <3>1, <4>2 DEF Taken
      <4> QED BY <1>3, <3>1, <4>1, <4>2
    <3>2. ASSUME NEW i \in 1 .. n PROVE headers'[i + 1][1] = headers'[i][2]
      <4>1. CASE i = n
        BY <1>1, <1>3, <2>3, <3>2, <4>1
      <4>2. CASE i < n
        <5>1. i + 1 \in 1 .. n /\ i \in 1 .. n - 1
          BY <1>3, <3>2, <4>2
        <5> QED BY <2>3, <5>1 DEF Taken
      <4> QED BY <1>3, <3>2, <4>1, <4>2
    <3>3. ~late => Whole(stream, << 0, headers'[1][1] >>)
      <4>1. CASE headers = << >>
        <5>1. n = 0 /\ headers'[1][1] = pos
          BY <2>3, <4>1
        <5> QED BY <1>1, <4>1, <5>1 DEF Taken
      <4>2. CASE headers # << >>
        <5>1. headers'[1] = headers[1]
          BY <1>3, <2>3, <4>2
        <5> QED BY <4>2, <5>1 DEF Taken
      <4> QED BY <4>1, <4>2
    <3>4. pos' = to /\ to # 0
      BY <1>2, <1>3, <1>12
    <3>5. ~late => \A i \in 1 .. Len(headers') : Whole(stream, headers'[i])
      BY <2>3, <3>1
    <3>6. \A i \in 1 .. Len(headers') - 1 : headers'[i + 1][1] = headers'[i][2]
      BY <1>3, <2>3, <3>2
    <3> HIDE DEF line, n
    <3> QED BY <1>1, <2>3, <3>3, <3>4, <3>5, <3>6 DEF Taken
  <2>6. Before'
    <3> SUFFICES ASSUME ~late PROVE \A p \in BlankEnds(stream) : to < p
      BY <1>1, <1>2, <1>12 DEF Before, Beginning
    <3> QED BY <1>1, <1>2, <1>3, <1>6, <1>12, <2>1, NoBlankIn
  <2>7. EndsAtBlankLine'
    BY <1>1, <1>12 DEF EndsAtBlankLine
  <2> QED BY <1>8, <1>9, <2>4, <2>5, <2>6, <2>7
<1> QED BY <1>0, <1>10, <1>11, <1>12
-----------------------------------------------------------------------------
(* The theorems.                                                           *)

LEMMA StutterInv == IInv /\ UNCHANGED vars => IInv'
<1> SUFFICES ASSUME IInv, UNCHANGED vars PROVE IInv'
  OBVIOUS
<1>1. stream' = stream
  BY DEF vars, stream
<1> QED
  BY <1>1 DEF vars, history, IInv, Shape, Limit, Taken, Searched, Before, EndsAtBlankLine,
              Beginning, Reading

LEMMA Invariance == Spec => []IInv
<1>1. IInv /\ [Next]_vars => IInv'
  BY FillInv, FillNothingInv, PrefixInv, ScanPanicsInv, ScanMissesInv, StatusLineInv,
     HeaderLineInv, StutterInv
  DEF Next
<1> QED BY InitInv, <1>1, PTL DEF Spec

LEMMA TypesHold == IInv => TypeOK
<1> SUFFICES ASSUME IInv PROVE TypeOK
  OBVIOUS
<1>1. Len(stream) \in Nat /\ Capacity \in Nat /\ MaxHeaderSize \in Nat
  BY HeadFacts DEF IInv, Shape, stream
<1>2. pos \in 0 .. hi /\ hi \in pos .. Smaller(Len(stream), pos + Capacity)
  BY <1>1 DEF IInv, Shape, Smaller
<1>3. phase = "Headers" => size_limit \in 0 .. MaxHeaderSize
  <2>1. pos \in Nat /\ size_limit \in Int
    BY DEF IInv, Shape
  <2> QED BY <1>1, <2>1 DEF IInv, Limit
<1> QED BY <1>2, <1>3 DEF IInv, Shape, TypeOK

(* While every line is found after at most one search in vain, the header  *)
(* lines read_headers_limited takes are the server's lines, whole and in   *)
(* order, from the end of the status line on; and the types hold.          *)
THEOREM TakesTheLines == Spec => []HeadersAreLines
<1>1. IInv => HeadersAreLines
  BY TypesHold DEF IInv, Taken, HeadersAreLines
<1> QED BY <1>1, Invariance, PTL

(* While every line is prompt, parse_response leaves the BufReader behind  *)
(* the first empty line, where the body begins; it does not panic; and an  *)
(* early end is reported only when the server closed too early.            *)
THEOREM EndsBeforeTheBody == Spec => []EndsAtBlankLine
<1>1. IInv => EndsAtBlankLine
  BY DEF IInv
<1> QED BY <1>1, Invariance, PTL

(* However the lines arrive, the status line and the header lines taken    *)
(* have no more than maximum_header_size bytes together.                   *)
THEOREM LimitKept == Spec => []SizeLimited
<1>1. IInv => SizeLimited
  <2> SUFFICES ASSUME IInv, headers # << >> PROVE headers[Len(headers)][2] <= MaxHeaderSize
    BY DEF SizeLimited
  <2>1. Len(headers) \in 1 .. Len(headers) /\ headers \in Seq(Nat \X Nat)
    BY DEF IInv, Shape
  <2>2. headers[Len(headers)][2] \in Nat
    BY <2>1
  <2>3. size_limit \in Int /\ MaxHeaderSize \in Nat
    BY HeadFacts DEF IInv, Shape
  <2> QED BY <2>2, <2>3 DEF IInv, Limit
<1> QED BY <1>1, Invariance, PTL
=============================================================================
