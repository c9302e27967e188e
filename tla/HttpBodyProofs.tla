--------------------------- MODULE HttpBodyProofs ---------------------------
(***************************************************************************)
(* Proofs about HttpBody: what read() returns is the body, it tells the    *)
(* body's end from a cut, and it leaves the body exactly where it ends.    *)
(***************************************************************************)
EXTENDS HttpBody, WellFoundedInduction, TLAPS

-----------------------------------------------------------------------------
(* The invariant.                                                          *)

Shape ==
  /\ response \in Responses
  /\ pos \in Nat /\ hi \in Nat /\ pos <= hi /\ hi <= Len(stream) /\ hi <= pos + Capacity
  /\ mode \in Modes /\ room \in 0 .. MaxRead /\ offset \in Nat /\ ret \in Returns
  /\ transfer \in Transfer

(* Where chunk i of a response is: its size line begins after At, its data *)
(* after Data and it ends with Stop.                                       *)
At(r, i)      == r.chunks[i].at
Data(r, i)    == r.chunks[i].data
Stop(r, i)    == r.chunks[i].data + r.chunks[i].size
HasSize(r, i) == r.chunks[i].size # NoSize

(* Where the transfer stands with chunk i.  A size that cannot be read is  *)
(* looked at again, from its first digit or from behind its last.          *)
AtChunk(i) ==
  \/ transfer.kind = "Size" /\ pos = At(response, i)
  \/ /\ transfer.kind = "Size" /\ ~HasSize(response, i)
     /\ pos = At(response, i) + response.chunks[i].digits
     /\ pos < hi /\ ~IsHexDigit(stream[pos + 1])
  \/ /\ transfer.kind = "Extension" /\ HasSize(response, i)
     /\ transfer.size = response.chunks[i].size
     /\ At(response, i) + response.chunks[i].digits <= pos /\ pos < Data(response, i)
  \/ /\ transfer.kind = "Data" /\ transfer.size > 0
     /\ Data(response, i) <= pos /\ pos + transfer.size = Stop(response, i)
  \/ /\ transfer.kind = "Trailer" /\ i < Len(response.chunks)
     /\ Stop(response, i) <= pos /\ pos < At(response, i + 1)

AllRead == BodyEnd(response) <= pos

Place ==
  /\ Chunked(response) =>
       \/ \E i \in 1 .. Len(response.chunks) : AtChunk(i)
       \/ /\ transfer.kind \in {"Trailers", "Empty"}
          /\ LastChunk(response).size = 0 /\ AllRead
  /\ Counted(response) =>
       \/ transfer.kind = "Length" /\ pos = response.length - transfer.size
       \/ transfer.kind = "Empty" /\ AllRead
  /\ ToTheEnd(response) =>
       \/ transfer.kind = "Connection"
       \/ transfer.kind = "Empty" /\ AllRead
  /\ response.bodyless => transfer.kind = "Empty"

Got == delivered = {p \in BodyBytes(response) : p <= pos}

(* No read can go on: a size that cannot be read, or the end of the stream *)
(* with more to come.                                                      *)
Stuck ==
  \/ /\ transfer.kind = "Size" /\ Chunked(response)
     /\ \E i \in 1 .. Len(response.chunks) : ~HasSize(response, i) /\ AtChunk(i)
  \/ transfer.kind = "Size" /\ ~SizeDecided /\ hi = Len(stream)
  \/ Skipping /\ pos = Len(stream)
  \/ transfer.kind \in {"Length", "Data"} /\ transfer.size > 0 /\ pos = Len(stream)

Dead == Stuck /\ ret \notin {"Bytes", "End"}

Ends ==
  /\ mode = "Read" => ret = "None"
  /\ mode \in {"Scan", "Fill", "Panicked"} => transfer.kind = "Trailers"
  /\ ret = "End" => BodyBytes(response) \subseteq delivered
  /\ ret = "PartialFile" => Len(stream) < BodyEnd(response)
  /\ ret \in {"ChunkTooLarge", "PartialFile"} => Dead

IInv == Shape /\ Place /\ Got /\ Ends

-----------------------------------------------------------------------------
(* The natural numbers.                                                    *)

(* A set of natural numbers that is not empty has a least element.         *)
LEMMA LeastNatural ==
  ASSUME NEW T, T \subseteq Nat, T # {}
  PROVE  \E n \in T : \A m \in T : n <= m
<1> DEFINE R == OpToRel(<, Nat)
<1>1. \E n \in T : \A m \in T : ~(<< m, n >> \in R)
  <2> HIDE DEF R
  <2>1. IsWellFoundedOn(R, Nat)
    BY NatLessThanWellFounded DEF R
  <2> QED BY <2>1, WFMin
<1>2. \A m, n \in Nat : m < n => << m, n >> \in R
  BY DEF OpToRel
<1>3. PICK n \in T : \A m \in T : ~(<< m, n >> \in R)
  BY <1>1
<1> HIDE DEF R
<1>4. ASSUME NEW m \in T PROVE n <= m
  <2>1. m \in Nat /\ n \in Nat
    OBVIOUS
  <2>2. ~(m < n)
    BY <1>2, <1>3, <2>1
  <2> QED BY <2>1, <2>2
<1> QED BY <1>4

(* Min of such a set is that element.                                      *)
LEMMA MinOfNats ==
  ASSUME NEW T, T \subseteq Nat, T # {}
  PROVE  Min(T) \in T /\ \A m \in T : Min(T) <= m
<1>1. \E n \in T : \A m \in T : n <= m
  BY LeastNatural
<1> QED BY <1>1 DEF Min

(* What holds of 0 and passes to the next number holds of all.             *)
LEMMA NatSetInduction ==
  ASSUME NEW T, T \subseteq Nat, 0 \in T, \A n \in Nat : n \in T => n + 1 \in T
  PROVE  T = Nat
<1> SUFFICES ASSUME Nat \ T # {} PROVE FALSE
  OBVIOUS
<1> DEFINE S == Nat \ T
<1>1. \E n \in S : \A m \in S : n <= m
  <2>1. S \subseteq Nat /\ S # {}
    OBVIOUS
  <2> HIDE DEF S
  <2> QED BY <2>1, LeastNatural
<1>2. PICK n \in Nat \ T : \A m \in Nat \ T : n <= m
  BY <1>1
<1>3. n # 0 /\ n - 1 \in Nat /\ ~(n <= n - 1) /\ n - 1 + 1 = n
  BY <1>2
<1>4. n - 1 \in T
  BY <1>2, <1>3
<1> QED BY <1>2, <1>3, <1>4

-----------------------------------------------------------------------------
(* The layout of a chunked response.                                       *)

LEMMA ChunkFacts ==
  ASSUME NEW r \in Responses, Chunked(r), NEW i \in 1 .. Len(r.chunks)
  PROVE  /\ r.chunks[i].at \in Nat /\ r.chunks[i].digits \in Nat
         /\ r.chunks[i].data \in Nat /\ r.chunks[i].size \in Nat \cup {NoSize}
         /\ r.chunks[i].size # NoSize => SizeLine(r.stream, r.chunks[i])
         /\ r.chunks[i].size = NoSize => BadSizeLine(r.stream, r.chunks[i])
         /\ i < Len(r.chunks) <=> r.chunks[i].size > 0
         /\ i < Len(r.chunks) =>
              /\ i + 1 \in 1 .. Len(r.chunks)
              /\ LineEnds(r.stream, r.chunks[i].data + r.chunks[i].size, r.chunks[i + 1].at)
<1>1. r \in ResponseType /\ Layout(r)
  BY ResponsesAssumption
<1>2. r.chunks \in Seq(ChunkType)
  BY <1>1 DEF ResponseType
<1>3. r.chunks[i] \in ChunkType
  BY <1>2
<1>4. r.chunks[i].at \in Nat /\ r.chunks[i].digits \in Nat
      /\ r.chunks[i].data \in Nat /\ r.chunks[i].size \in Nat \cup {NoSize}
  BY <1>3 DEF ChunkType
<1>5. Len(r.chunks) \in Nat
  BY <1>2
<1>6. i < Len(r.chunks) => i + 1 \in 1 .. Len(r.chunks)
  BY <1>5
<1>7. /\ r.chunks[i].size # NoSize => SizeLine(r.stream, r.chunks[i])
      /\ r.chunks[i].size = NoSize => BadSizeLine(r.stream, r.chunks[i])
      /\ i < Len(r.chunks) <=> r.chunks[i].size > 0
      /\ i < Len(r.chunks) => LineEnds(r.stream, r.chunks[i].data + r.chunks[i].size, r.chunks[i + 1].at)
  BY <1>1 DEF Layout
<1> QED BY <1>4, <1>6, <1>7

(* A chunk's size line ends behind where it begins.                        *)
LEMMA SizeLineEnds ==
  ASSUME NEW r \in Responses, Chunked(r), NEW i \in 1 .. Len(r.chunks), r.chunks[i].size # NoSize
  PROVE  r.chunks[i].at + r.chunks[i].digits < r.chunks[i].data
BY ChunkFacts DEF SizeLine, LineEnds

(* Chunks lie one behind the other: the data of each ends before the size  *)
(* line of any later one.                                                  *)
LEMMA ChunksOrdered ==
  ASSUME NEW r \in Responses, Chunked(r),
         NEW i \in 1 .. Len(r.chunks), NEW j \in 1 .. Len(r.chunks), j < i
  PROVE  r.chunks[j].data + r.chunks[j].size < r.chunks[i].at
<1> DEFINE n == Len(r.chunks)
           T == {k \in Nat : \A l \in 1 .. n : j < l /\ l <= k =>
                               r.chunks[j].data + r.chunks[j].size < r.chunks[l].at}
<1>0. n \in Nat
  BY ResponsesAssumption DEF ResponseType
<1>1. 0 \in T
  BY <1>0
<1>2. ASSUME NEW k \in Nat, k \in T PROVE k + 1 \in T
  <2> SUFFICES ASSUME NEW l \in 1 .. n, j < l, l = k + 1
               PROVE  r.chunks[j].data + r.chunks[j].size < r.chunks[l].at
    BY <1>0, <1>2
  <2>1. k \in 1 .. n /\ k < n
    BY <1>0
  <2>2. r.chunks[k].data + r.chunks[k].size < r.chunks[k + 1].at
    BY <2>1, ChunkFacts DEF LineEnds
  <2>3. CASE j = k
    BY <2>2, <2>3
  <2>4. CASE j < k
    <3>1. r.chunks[j].data + r.chunks[j].size < r.chunks[k].at
      BY <1>2, <2>1, <2>4
    <3>2. r.chunks[k].size > 0
      BY <2>1, ChunkFacts
    <3>3. r.chunks[k].at < r.chunks[k].data
      <4>1. r.chunks[k].size # NoSize
        BY <3>2 DEF NoSize
      <4>2. r.chunks[k].at + r.chunks[k].digits < r.chunks[k].data
        BY <2>1, <4>1, SizeLineEnds
      <4>3. r.chunks[k].at \in Nat /\ r.chunks[k].digits \in Nat /\ r.chunks[k].data \in Nat
        BY <2>1, ChunkFacts
      <4> QED BY <4>2, <4>3
    <3>4. /\ r.chunks[j].data \in Nat /\ r.chunks[j].size \in Int
          /\ r.chunks[k].data \in Nat /\ r.chunks[k].size \in Int /\ r.chunks[k].at \in Nat
          /\ r.chunks[l].at \in Nat
      BY <2>1, ChunkFacts, <1>0 DEF NoSize
    <3>5. r.chunks[k].data + r.chunks[k].size < r.chunks[l].at
      BY <2>2
    <3> DEFINE a == r.chunks[j].data + r.chunks[j].size
               b == r.chunks[k].at
               d == r.chunks[k].data
               s == r.chunks[k].size
               c == r.chunks[l].at
    <3>6. a < b /\ b < d /\ s > 0 /\ d + s < c
      BY <3>1, <3>2, <3>3, <3>5
    <3>7. a \in Int /\ b \in Int /\ c \in Int /\ d \in Int /\ s \in Int
      <4>1. r.chunks[j].data \in Int /\ r.chunks[j].size \in Int
        BY <3>4
      <4>2. a \in Int
        BY <4>1
      <4> QED BY <3>4, <4>2
    <3> HIDE DEF a, b, c, d, s
    <3>8. d < c
      BY <3>6, <3>7
    <3>9. a < c
      BY <3>6, <3>7, <3>8
    <3> QED BY <3>9 DEF a, c
  <2> QED BY <2>3, <2>4
<1>3. T = Nat
  <2>1. T \subseteq Nat
    OBVIOUS
  <2> HIDE DEF T
  <2> QED BY <1>1, <1>2, <2>1, NatSetInduction
<1>4. i \in T
  BY <1>3, <1>0
<1> QED BY <1>4, <1>0

LEMMA ChunkPlace ==
  ASSUME NEW r \in Responses, Chunked(r), NEW i \in 1 .. Len(r.chunks)
  PROVE  /\ At(r, i) \in Nat /\ Data(r, i) \in Nat /\ Stop(r, i) \in Int
         /\ HasSize(r, i) => At(r, i) < Data(r, i) /\ Data(r, i) <= Stop(r, i)
         /\ ~HasSize(r, i) => Stop(r, i) < Data(r, i) /\ i = Len(r.chunks)
         /\ ChunkBytes(r.chunks[i]) = Data(r, i) + 1 .. Stop(r, i)
<1>0. Len(r.chunks) \in Nat
  BY ResponsesAssumption DEF ResponseType
<1>1. /\ r.chunks[i].at \in Nat /\ r.chunks[i].digits \in Nat
      /\ r.chunks[i].data \in Nat /\ r.chunks[i].size \in Nat \cup {NoSize}
      /\ i < Len(r.chunks) <=> r.chunks[i].size > 0
  BY ChunkFacts
<1>2. /\ At(r, i) \in Nat /\ Data(r, i) \in Nat /\ Stop(r, i) \in Int
  BY <1>1 DEF At, Data, Stop, NoSize
<1>3. ASSUME HasSize(r, i) PROVE At(r, i) < Data(r, i) /\ Data(r, i) <= Stop(r, i)
  <2>1. r.chunks[i].at + r.chunks[i].digits < r.chunks[i].data
    BY <1>3, SizeLineEnds DEF HasSize
  <2> QED BY <1>1, <1>3, <2>1 DEF At, Data, Stop, HasSize
<1>4. ASSUME ~HasSize(r, i) PROVE Stop(r, i) < Data(r, i) /\ i = Len(r.chunks)
  <2>1. r.chunks[i].size = -1
    BY <1>4 DEF HasSize, NoSize
  <2> QED BY <1>0, <1>1, <2>1 DEF Data, Stop
<1>5. ChunkBytes(r.chunks[i]) = Data(r, i) + 1 .. Stop(r, i)
  BY DEF ChunkBytes, Data, Stop
<1> QED BY <1>2, <1>3, <1>4, <1>5

(* Chunk j ends before chunk i begins, is chunk i, or begins after it ends.*)
LEMMA ChunkOrder ==
  ASSUME NEW r \in Responses, Chunked(r),
         NEW i \in 1 .. Len(r.chunks), NEW j \in 1 .. Len(r.chunks), j < i
  PROVE  Stop(r, j) < At(r, i) /\ HasSize(r, j)
<1>0. Len(r.chunks) \in Nat
  BY ResponsesAssumption DEF ResponseType
<1>1. Stop(r, j) < At(r, i)
  BY ChunksOrdered DEF Stop, At
<1> QED BY <1>0, <1>1, ChunkPlace

LEMMA BodyOfChunks ==
  ASSUME NEW r \in Responses, Chunked(r)
  PROVE  \A p : p \in BodyBytes(r) <=>
                  \E i \in 1 .. Len(r.chunks) : p \in Data(r, i) + 1 .. Stop(r, i)
<1>1. ~r.bodyless /\ ~Counted(r) /\ ~ToTheEnd(r)
  BY DEF Chunked, Counted, ToTheEnd
<1>2. BodyBytes(r) = UNION {ChunkBytes(r.chunks[i]) : i \in 1 .. Len(r.chunks)}
  BY <1>1 DEF BodyBytes
<1>3. \A i \in 1 .. Len(r.chunks) : ChunkBytes(r.chunks[i]) = Data(r, i) + 1 .. Stop(r, i)
  BY ChunkPlace
<1>4. \A p : p \in BodyBytes(r) <=> \E i \in 1 .. Len(r.chunks) : p \in ChunkBytes(r.chunks[i])
  BY <1>2
<1> QED BY <1>3, <1>4

(* No byte of the body is in a size line, or behind one without a size.    *)
LEMMA NoBodyInSizeLine ==
  ASSUME NEW r \in Responses, Chunked(r), NEW i \in 1 .. Len(r.chunks),
         NEW p \in Nat, At(r, i) < p, HasSize(r, i) => p <= Data(r, i)
  PROVE  p \notin BodyBytes(r)
<1> SUFFICES ASSUME NEW j \in 1 .. Len(r.chunks), p \in Data(r, j) + 1 .. Stop(r, j)
             PROVE  FALSE
  BY BodyOfChunks
<1>1. /\ At(r, i) \in Int /\ Data(r, i) \in Int /\ Stop(r, i) \in Int
      /\ At(r, j) \in Int /\ Data(r, j) \in Int /\ Stop(r, j) \in Int
  BY ChunkPlace
<1>2. Data(r, j) < p /\ p <= Stop(r, j)
  BY <1>1
<1>3. HasSize(r, j) /\ At(r, j) < Data(r, j)
  BY <1>1, <1>2, ChunkPlace
<1>4. j < i => Stop(r, j) < At(r, i)
  BY ChunkOrder
<1>5. i < j => Stop(r, i) < At(r, j) /\ HasSize(r, i) /\ Data(r, i) <= Stop(r, i)
  BY ChunkOrder, ChunkPlace
<1> QED BY <1>1, <1>2, <1>3, <1>4, <1>5

(* None is between a chunk's data and the next size line.                  *)
LEMMA NoBodyInTrailer ==
  ASSUME NEW r \in Responses, Chunked(r),
         NEW i \in 1 .. Len(r.chunks), i < Len(r.chunks),
         NEW p \in Nat, Stop(r, i) < p, p <= At(r, i + 1)
  PROVE  p \notin BodyBytes(r)
<1> SUFFICES ASSUME NEW j \in 1 .. Len(r.chunks), p \in Data(r, j) + 1 .. Stop(r, j)
             PROVE  FALSE
  BY BodyOfChunks
<1>0. PICK m \in 1 .. Len(r.chunks) : m = i + 1
  BY ResponsesAssumption DEF ResponseType
<1>1. /\ At(r, i) \in Int /\ Data(r, i) \in Int /\ Stop(r, i) \in Int
      /\ At(r, j) \in Int /\ Data(r, j) \in Int /\ Stop(r, j) \in Int
      /\ At(r, m) \in Int /\ Data(r, m) \in Int /\ Stop(r, m) \in Int
  BY ChunkPlace
<1>2. Data(r, j) < p /\ p <= Stop(r, j) /\ p <= At(r, m)
  BY <1>0, <1>1
<1>3. HasSize(r, j) /\ At(r, j) < Data(r, j)
  <2>1. ~(Stop(r, j) < Data(r, j))
    BY <1>1, <1>2
  <2>2. HasSize(r, j)
    BY <2>1, ChunkPlace
  <2> QED BY <2>2, ChunkPlace
<1>4. j < i => Stop(r, j) < At(r, i)
  BY ChunkOrder
<1>5. At(r, i) < Data(r, i) /\ Data(r, i) <= Stop(r, i)
  <2>1. i # Len(r.chunks)
    OBVIOUS
  <2>2. HasSize(r, i)
    BY <2>1, ChunkPlace
  <2> QED BY <2>2, ChunkPlace
<1>6. m < j => Stop(r, m) < At(r, j) /\ HasSize(r, m) /\ Data(r, m) <= Stop(r, m) /\ At(r, m) < Data(r, m)
  BY ChunkOrder, ChunkPlace
<1>7. j < i \/ j = i \/ j = m \/ m < j
  BY <1>0
<1>8. ~(j < i)
  BY <1>1, <1>2, <1>4, <1>5
<1>9. ~(m < j)
  BY <1>1, <1>2, <1>3, <1>6
<1> QED BY <1>1, <1>2, <1>3, <1>7, <1>8, <1>9

(* The last size line, when it has a size, ends behind all that comes      *)
(* before it; otherwise the body has no end.                               *)
LEMMA EndIsBehind ==
  ASSUME NEW r \in Responses, Chunked(r), NEW i \in 1 .. Len(r.chunks)
  PROVE  /\ BodyEnd(r) \in Nat
         /\ LastChunk(r).size # 0 => BodyEnd(r) = Len(r.stream) + 1
         /\ LastChunk(r).size = 0 =>
              /\ At(r, i) < BodyEnd(r) /\ Data(r, i) <= BodyEnd(r) /\ Stop(r, i) <= BodyEnd(r)
              /\ r.chunks[i].size = 0 => BodyEnd(r) = Data(r, i)
<1>1. /\ LastChunk(r).size = 0 => BodyEnd(r) = LastChunk(r).data
      /\ LastChunk(r).size # 0 => BodyEnd(r) = Len(r.stream) + 1
  BY DEF BodyEnd, Chunked, Counted, ToTheEnd
<1>2. PICK n \in 1 .. Len(r.chunks) : n = Len(r.chunks)
  BY ResponsesAssumption DEF ResponseType
<1>3. Len(r.stream) \in Nat
  BY ResponsesAssumption DEF ResponseType
<1>4. LastChunk(r) = r.chunks[n] /\ LastChunk(r).data = Data(r, n)
  BY <1>2 DEF LastChunk, Data
<1>5. BodyEnd(r) \in Nat
  BY <1>1, <1>3, <1>4, ChunkPlace
<1> SUFFICES ASSUME LastChunk(r).size = 0
             PROVE  /\ At(r, i) < BodyEnd(r) /\ Data(r, i) <= BodyEnd(r) /\ Stop(r, i) <= BodyEnd(r)
                    /\ r.chunks[i].size = 0 => BodyEnd(r) = Data(r, i)
  BY <1>1, <1>5
<1>6. HasSize(r, n) /\ BodyEnd(r) = Data(r, n) /\ Stop(r, n) = Data(r, n)
  BY <1>1, <1>4, ChunkPlace DEF HasSize, NoSize, Stop, Data
<1>7. /\ At(r, i) \in Int /\ Data(r, i) \in Int /\ Stop(r, i) \in Int
      /\ At(r, n) \in Int /\ Data(r, n) \in Int
  BY ChunkPlace
<1>10. At(r, n) < Data(r, n)
  BY <1>6, ChunkPlace
<1>8. CASE i = n
  BY <1>6, <1>7, <1>8, <1>10
<1>9. CASE i < n
  <2>1. Stop(r, i) < At(r, n) /\ At(r, i) < Data(r, i) /\ Data(r, i) <= Stop(r, i)
    BY <1>9, ChunkOrder, ChunkPlace
  <2>2. r.chunks[i].size # 0
    BY <1>2, <1>9, ChunkFacts
  <2> QED BY <1>6, <1>7, <1>10, <2>1, <2>2
<1> QED BY <1>2, <1>8, <1>9

(* None is behind the last size line.                                      *)
LEMMA NoBodyBehind ==
  ASSUME NEW r \in Responses, Chunked(r), LastChunk(r).size = 0,
         NEW p \in Nat, BodyEnd(r) < p
  PROVE  p \notin BodyBytes(r)
<1> SUFFICES ASSUME NEW j \in 1 .. Len(r.chunks), p \in Data(r, j) + 1 .. Stop(r, j)
             PROVE  FALSE
  BY BodyOfChunks
<1>1. Data(r, j) \in Int /\ Stop(r, j) \in Int /\ Stop(r, j) <= BodyEnd(r) /\ BodyEnd(r) \in Int
  BY ChunkPlace, EndIsBehind
<1> QED BY <1>1

-----------------------------------------------------------------------------
(* The scans.                                                              *)

(* From anywhere on a line, the first newline in the buffer is the line's. *)
LEMMA LineScan ==
  ASSUME NEW s \in Seq(Nat), NEW from \in Nat, NEW to \in Int, LineEnds(s, from, to),
         NEW p \in Nat, NEW h \in Nat, from <= p, p < to, p <= h, h <= Len(s)
  PROVE  /\ Newlines(s, p, h) # {} => Min(Newlines(s, p, h)) = to /\ to <= h
         /\ Newlines(s, p, h) = {} => h < to
<1>1. /\ \A q \in from + 1 .. to - 1 : q <= Len(s) => s[q] # LF
      /\ to <= Len(s) => s[to] = LF
  BY DEF LineEnds, Each
<1>2. Newlines(s, p, h) \subseteq Nat
  BY DEF Newlines
<1>3. \A q \in Newlines(s, p, h) : to <= q /\ q <= h
  BY <1>1 DEF Newlines
<1>4. to <= h => to \in Newlines(s, p, h)
  BY <1>1 DEF Newlines
<1>5. ASSUME Newlines(s, p, h) # {} PROVE Min(Newlines(s, p, h)) = to /\ to <= h
  <2>1. to <= h
    BY <1>2, <1>3, <1>5
  <2>2. /\ Min(Newlines(s, p, h)) \in Newlines(s, p, h)
        /\ \A m \in Newlines(s, p, h) : Min(Newlines(s, p, h)) <= m
    BY <1>2, <1>5, MinOfNats
  <2>3. Min(Newlines(s, p, h)) <= to /\ to <= Min(Newlines(s, p, h)) /\ Min(Newlines(s, p, h)) \in Nat
    BY <1>2, <1>3, <1>4, <2>1, <2>2
  <2> QED BY <2>1, <2>3
<1> QED BY <1>4, <1>5

ResponseFacts == response \in ResponseType /\ Len(stream) \in Nat

LEMMA ResponseTyped ==
  ASSUME response \in Responses PROVE ResponseFacts
BY ResponsesAssumption DEF ResponseFacts, ResponseType, stream

(* What read_chunk_size sees when it looks at size line i from its start.  *)
LEMMA SizeScan ==
  ASSUME Shape, Chunked(response), NEW i \in 1 .. Len(response.chunks), pos = At(response, i)
  PROVE  /\ NonDigits # {} =>
              /\ SizeEnd = pos + response.chunks[i].digits
              /\ SizeEnd < hi /\ ~IsHexDigit(stream[SizeEnd + 1])
         /\ HasSize(response, i) =>
              /\ SizeDecided => SizeValid /\ ChunkSize = response.chunks[i].size
              /\ ~SizeDecided => hi < Data(response, i)
         /\ ~HasSize(response, i) => ~SizeValid
<1> DEFINE c == response.chunks[i]
           e == pos + c.digits
<1>1. response \in Responses /\ ResponseFacts /\ stream = response.stream
  BY ResponseTyped DEF Shape, stream
<1>2. /\ pos \in Nat /\ hi \in Nat /\ pos <= hi /\ hi <= Len(stream)
      /\ Len(stream) \in Nat /\ MaxHex \in Nat \ {0}
  BY <1>1, MaxHexAssumption DEF Shape, ResponseFacts
<1>3. /\ c.at \in Nat /\ c.digits \in Nat /\ c.at = pos /\ c.data \in Nat /\ e \in Nat
      /\ HasSize(response, i) => SizeLine(stream, c)
      /\ ~HasSize(response, i) => BadSizeLine(stream, c)
  <2>1. /\ c.at \in Nat /\ c.digits \in Nat /\ c.data \in Nat
        /\ c.size # NoSize => SizeLine(stream, c)
        /\ c.size = NoSize => BadSizeLine(stream, c)
    BY <1>1, ChunkFacts
  <2>2. c.at = pos
    BY DEF At
  <2>3. HasSize(response, i) <=> c.size # NoSize
    BY DEF HasSize
  <2>4. e \in Nat
    BY <1>2, <2>1
  <2> QED BY <2>1, <2>2, <2>3, <2>4
<1>4. LookTo \in Nat /\ LookTo <= hi /\ LookTo <= pos + MaxHex /\ (LookTo = hi \/ LookTo = pos + MaxHex)
  BY <1>2 DEF LookTo, Smaller
<1>5. /\ \A q \in pos + 1 .. e : q <= Len(stream) => IsHexDigit(stream[q])
      /\ e + 1 <= Len(stream) => ~IsHexDigit(stream[e + 1])
  <2>1. /\ Each(stream, c.at, c.at + c.digits, LAMBDA b : IsHexDigit(b))
        /\ Each(stream, c.at + c.digits, c.at + c.digits + 1, LAMBDA b : ~IsHexDigit(b))
    BY <1>3 DEF SizeLine, BadSizeLine
  <2> QED BY <1>2, <1>3, <2>1 DEF Each
<1> HIDE DEF e
<1>14. e = pos + c.digits /\ pos <= e /\ e + 1 \in Nat
  BY <1>2, <1>3 DEF e
<1> HIDE DEF c
<1>15. \A q \in NonDigits : q \in Nat /\ pos + 1 <= q /\ q <= LookTo /\ ~IsHexDigit(stream[q])
  BY <1>2, <1>4 DEF NonDigits
<1>6. NonDigits \subseteq Nat /\ \A q \in NonDigits : e + 1 <= q /\ q <= LookTo
  <2>1. NonDigits \subseteq Nat
    BY <1>15
  <2>2. ASSUME NEW q \in NonDigits PROVE e + 1 <= q /\ q <= LookTo
    <3>1. q \in Nat /\ pos + 1 <= q /\ q <= LookTo /\ ~IsHexDigit(stream[q])
      BY <1>15
    <3>2. q <= Len(stream)
      BY <1>2, <1>4, <3>1
    <3>3. q \notin pos + 1 .. e
      BY <1>5, <3>1, <3>2
    <3> QED BY <1>2, <1>14, <3>1, <3>3
  <2> QED BY <2>1, <2>2
<1>7. e + 1 <= LookTo => e + 1 \in NonDigits
  <2> SUFFICES ASSUME e + 1 <= LookTo PROVE e + 1 \in NonDigits
    OBVIOUS
  <2>1. e + 1 \in pos + 1 .. LookTo
    BY <1>2, <1>4, <1>14
  <2>2. e + 1 <= Len(stream)
    BY <1>2, <1>4, <1>14
  <2> QED BY <1>5, <2>1, <2>2 DEF NonDigits
<1>8. ASSUME NonDigits # {}
      PROVE  SizeEnd = e /\ e + 1 <= LookTo
  <2>1. e + 1 <= LookTo
    <3>1. PICK q \in NonDigits : TRUE
      BY <1>8
    <3>2. q \in Nat /\ e + 1 <= q /\ q <= LookTo
      BY <1>6
    <3> QED BY <1>4, <1>14, <3>2
  <2>2. Min(NonDigits) \in NonDigits /\ \A m \in NonDigits : Min(NonDigits) <= m
    BY <1>6, <1>8, MinOfNats
  <2>3. Min(NonDigits) <= e + 1 /\ e + 1 <= Min(NonDigits) /\ Min(NonDigits) \in Nat
    BY <1>6, <1>7, <2>1, <2>2
  <2>4. Min(NonDigits) = e + 1
    BY <1>3, <2>3
  <2> QED BY <1>3, <1>8, <2>1, <2>4 DEF SizeEnd
<1>9. NonDigits # {} => ChunkSize = HexValue(SubSeq(stream, c.at + 1, c.at + c.digits))
  BY <1>3, <1>8 DEF ChunkSize, e
<1>10. NonDigits # {} => c.at + c.digits < Len(stream)
  <2>1. e = c.at + c.digits
    BY <1>3, <1>14
  <2>2. NonDigits # {} => e + 1 <= Len(stream)
    BY <1>2, <1>4, <1>8, <1>14
  <2> QED BY <1>2, <1>14, <2>1, <2>2
<1>11. ASSUME HasSize(response, i)
       PROVE  /\ SizeDecided => SizeValid /\ ChunkSize = c.size
              /\ ~SizeDecided => hi < Data(response, i)
  <2>1. /\ c.digits > 0 /\ c.digits < MaxHex
        /\ c.at + c.digits < Len(stream) => HexValue(SubSeq(stream, c.at + 1, c.at + c.digits)) = c.size
        /\ c.size <= MaxSize /\ c.at + c.digits < c.data
    BY <1>3, <1>11 DEF SizeLine, LineEnds
  <2>2. SizeDecided => NonDigits # {}
    <3>1. LookTo = pos + MaxHex => e + 1 <= LookTo
      <4>1. e + 1 <= pos + MaxHex
        BY <1>2, <1>3, <1>14, <2>1
      <4> QED BY <4>1
    <3> QED BY <1>7, <3>1 DEF SizeDecided
  <2>3. ASSUME SizeDecided PROVE SizeValid /\ ChunkSize = c.size
    <3>1. ChunkSize = c.size
      BY <1>9, <1>10, <2>1, <2>2, <2>3
    <3>2. SizeEnd > pos
      BY <1>2, <1>3, <1>8, <2>1, <2>2, <2>3 DEF e
    <3> QED BY <2>1, <2>2, <2>3, <3>1, <3>2 DEF SizeValid
  <2>4. ASSUME ~SizeDecided PROVE hi < Data(response, i)
    <3>1. NonDigits = {} /\ LookTo = hi
      BY <1>4, <2>4 DEF SizeDecided
    <3>2. ~(e + 1 <= hi)
      BY <1>7, <3>1
    <3>3. hi < e + 1
      BY <1>2, <1>14, <3>2
    <3>4. e < c.data
      BY <1>3, <1>14, <2>1
    <3>5. hi < c.data
      BY <1>2, <1>3, <3>3, <3>4
    <3> QED BY <3>5 DEF c, Data
  <2> QED BY <2>3, <2>4
<1>12. ASSUME ~HasSize(response, i) PROVE ~SizeValid
  <2> SUFFICES ASSUME SizeValid PROVE FALSE
    OBVIOUS
  <2>1. NonDigits # {} /\ SizeEnd > pos /\ ChunkSize <= MaxSize
    BY DEF SizeValid
  <2>2. SizeEnd = pos + c.digits /\ pos + c.digits + 1 <= LookTo
    BY <1>8, <2>1 DEF e
  <2>3. c.digits # 0 /\ ~(c.digits >= MaxHex)
    BY <1>2, <1>3, <1>4, <2>1, <2>2
  <2>4. HexValue(SubSeq(stream, c.at + 1, c.at + c.digits)) <= MaxSize
    BY <1>9, <2>1
  <2> QED BY <1>3, <1>10, <1>12, <2>1, <2>3, <2>4 DEF BadSizeLine
<1>13. NonDigits # {} => SizeEnd < hi /\ ~IsHexDigit(stream[SizeEnd + 1])
  BY <1>2, <1>3, <1>4, <1>5, <1>8
<1> QED BY <1>8, <1>11, <1>12, <1>13 DEF e, c

(* And when it looks again from behind the digits of a size it refused.    *)
LEMMA SizeScanAgain ==
  ASSUME Shape, pos < hi, ~IsHexDigit(stream[pos + 1])
  PROVE  SizeDecided /\ ~SizeValid /\ NonDigits # {} /\ SizeEnd = pos
<1>1. pos \in Nat /\ hi \in Nat /\ MaxHex \in Nat \ {0}
  BY MaxHexAssumption DEF Shape
<1>2. LookTo \in Nat /\ pos + 1 <= LookTo
  BY <1>1 DEF LookTo, Smaller
<1>3. pos + 1 \in NonDigits /\ NonDigits \subseteq Nat /\ \A q \in NonDigits : pos + 1 <= q
  BY <1>1, <1>2 DEF NonDigits
<1>4. Min(NonDigits) \in NonDigits /\ \A m \in NonDigits : Min(NonDigits) <= m
  BY <1>3, MinOfNats
<1>5. Min(NonDigits) = pos + 1
  <2>1. Min(NonDigits) \in Nat /\ Min(NonDigits) <= pos + 1 /\ pos + 1 <= Min(NonDigits)
    BY <1>3, <1>4
  <2> QED BY <1>1, <2>1
<1>6. SizeEnd = pos
  BY <1>1, <1>3, <1>5 DEF SizeEnd
<1> QED BY <1>1, <1>3, <1>6 DEF SizeDecided, SizeValid

-----------------------------------------------------------------------------
(* What every step of a kind does.                                         *)

LEMMA BodyBytesTyped ==
  ASSUME NEW r \in Responses
  PROVE  BodyBytes(r) \subseteq Nat /\ \A p \in BodyBytes(r) : p > 0
<1>1. r \in ResponseType
  BY ResponsesAssumption
<1>2. CASE Chunked(r)
  <2> SUFFICES ASSUME NEW p \in BodyBytes(r) PROVE p \in Nat /\ p > 0
    OBVIOUS
  <2>1. PICK i \in 1 .. Len(r.chunks) : p \in Data(r, i) + 1 .. Stop(r, i)
    BY <1>2, BodyOfChunks
  <2>2. Data(r, i) \in Nat /\ Stop(r, i) \in Int
    BY <1>2, ChunkPlace
  <2> QED BY <2>1, <2>2
<1>3. CASE r.bodyless
  <2>1. ~Chunked(r) /\ ~Counted(r) /\ ~ToTheEnd(r)
    BY <1>3 DEF Chunked, Counted, ToTheEnd
  <2> QED BY <1>3, <2>1 DEF BodyBytes
<1>4. CASE ~r.bodyless /\ ~Chunked(r)
  <2>1. r.length \in Int /\ Len(r.stream) \in Nat
    BY <1>1 DEF ResponseType
  <2>2. BodyBytes(r) \in {1 .. r.length, 1 .. Len(r.stream)}
    BY <1>4 DEF BodyBytes, ToTheEnd
  <2> QED BY <2>1, <2>2
<1> QED BY <1>2, <1>3, <1>4

(* Bytes of the body are delivered.                                        *)
LEMMA Delivers ==
  ASSUME Shape, Got, response' = response,
         NEW k \in Nat, ReadBytes(k), pos + 1 .. pos + k \subseteq BodyBytes(response)
  PROVE  /\ Got' /\ mode' = "Idle" /\ ret' = "Bytes" /\ room' = 0
         /\ pos' = pos + k /\ pos' \in Nat /\ hi' \in Nat /\ pos' <= hi'
         /\ hi' <= Len(stream) /\ hi' <= pos' + Capacity
<1>1. response \in Responses /\ ResponseFacts
  BY ResponseTyped DEF Shape
<1>2. /\ pos \in Nat /\ hi \in Nat /\ pos <= hi /\ hi <= Len(stream) /\ hi <= pos + Capacity
      /\ Len(stream) \in Nat /\ Capacity \in Nat
  BY <1>1, CapacityAssumption DEF Shape, ResponseFacts
<1>3. /\ k <= (IF pos < hi THEN hi ELSE Len(stream)) - pos
      /\ pos' = pos + k
      /\ hi' = IF pos < hi THEN hi ELSE pos + k
      /\ delivered' = delivered \cup (pos + 1 .. pos + k)
      /\ mode' = "Idle" /\ ret' = "Bytes" /\ room' = 0
  BY DEF ReadBytes, Return
<1>4. delivered = {p \in BodyBytes(response) : p <= pos}
  BY DEF Got
<1>5. BodyBytes(response) \subseteq Nat
  BY <1>1, BodyBytesTyped
<1>6. delivered' = {p \in BodyBytes(response) : p <= pos + k}
  <2>1. \A p \in Nat : p <= pos + k <=> p <= pos \/ p \in pos + 1 .. pos + k
    BY <1>2
  <2> QED BY <1>3, <1>4, <1>5, <2>1
<1>7. Got'
  BY <1>3, <1>6 DEF Got
<1> QED BY <1>2, <1>3, <1>7

(* None of the bytes passed over belongs to the body.                      *)
LEMMA Skips ==
  ASSUME Shape, Got, response' = response, delivered' = delivered,
         pos' \in Nat, pos <= pos', \A p \in Nat : pos < p /\ p <= pos' => p \notin BodyBytes(response)
  PROVE  Got'
<1>1. BodyBytes(response) \subseteq Nat
  BY BodyBytesTyped DEF Shape
<1>2. pos \in Nat
  BY DEF Shape
<1>3. \A p \in BodyBytes(response) : p <= pos <=> p <= pos'
  BY <1>1, <1>2
<1>4. {p \in BodyBytes(response) : p <= pos} = {p \in BodyBytes(response) : p <= pos'}
  BY <1>3
<1> QED BY <1>4 DEF Got

(* Nothing is consumed; maybe more is buffered.                            *)
LEMMA Stays ==
  ASSUME Shape, Place, Got, UNCHANGED << response, transfer, pos, delivered >>,
         hi' \in Nat, hi <= hi'
  PROVE  /\ Place' /\ Got'
         /\ \A i \in 1 .. Len(response.chunks) : AtChunk(i) => AtChunk(i)'
<1>1. pos \in Nat /\ hi \in Nat /\ (pos < hi => pos < hi')
  BY DEF Shape
<1>2. stream' = stream
  BY DEF stream
<1>3. \A i \in 1 .. Len(response.chunks) : AtChunk(i) => AtChunk(i)'
  BY <1>1, <1>2 DEF AtChunk
<1>4. Place'
  BY <1>3 DEF Place, AllRead
<1>5. Got'
  BY DEF Got
<1> QED BY <1>3, <1>4, <1>5

(* The buffer unchanged too, what is stuck stays so.                       *)
LEMMA StaysStuck ==
  ASSUME Stuck, UNCHANGED << response, transfer, pos, hi >>
  PROVE  Stuck'
<1>1. stream' = stream /\ SizeDecided' = SizeDecided /\ Skipping' = Skipping
  BY DEF stream, SizeDecided, NonDigits, LookTo, Skipping
<1>2. \A i : AtChunk(i) = AtChunk(i)'
  BY <1>1 DEF AtChunk
<1> QED BY <1>1, <1>2 DEF Stuck

LEMMA SumIsAbove ==
  ASSUME NEW a \in Nat, NEW b \in Nat
  PROVE  a + b \in Nat /\ a <= a + b
OBVIOUS

LEMMA WithinCapacity ==
  ASSUME NEW p \in Nat, NEW q \in Nat, NEW h \in Nat, NEW c \in Nat, h <= p + c, p <= q
  PROVE  h <= q + c
OBVIOUS

LEMMA FillTyped ==
  ASSUME Shape, hi' \in FillTo(stream, pos, hi)
  PROVE  hi' \in Nat /\ hi < hi' /\ hi' <= Len(stream) /\ hi' <= pos + Capacity
<1>1. /\ pos \in Nat /\ hi \in Nat /\ Len(stream) \in Nat /\ Capacity \in Nat
  BY ResponseTyped, CapacityAssumption DEF Shape, ResponseFacts
<1> QED BY <1>1 DEF FillTo, Smaller

-----------------------------------------------------------------------------
(* The steps.                                                              *)

LEMMA InitIInv == Init => IInv
<1> SUFFICES ASSUME Init PROVE IInv
  OBVIOUS
<1>1. /\ response \in Responses /\ transfer = NewTransfer(response) /\ pos = 0
      /\ hi \in 0 .. Smaller(Len(stream), Capacity)
      /\ mode = "Idle" /\ room = 0 /\ offset = 0 /\ ret = "None" /\ delivered = {}
  BY DEF Init
<1>2. ResponseFacts /\ Capacity \in Nat /\ MaxRead \in Nat
  BY <1>1, ResponseTyped, CapacityAssumption, BoundsAssumption
<1>3. hi \in Nat /\ hi <= Len(stream) /\ hi <= pos + Capacity
  BY <1>1, <1>2 DEF ResponseFacts, Smaller
<1>4. transfer \in Transfer
  BY <1>1, <1>2 DEF ResponseFacts, ResponseType, NewTransfer, Plain, Sized, Transfer
<1>5. Shape
  BY <1>1, <1>2, <1>3, <1>4 DEF Shape, Modes, Returns
<1>6. \A p \in BodyBytes(response) : p > 0
  BY <1>1, BodyBytesTyped
<1>7. Got
  <2>1. BodyBytes(response) \subseteq Nat
    BY <1>1, BodyBytesTyped
  <2>2. {p \in BodyBytes(response) : p <= 0} = {}
    BY <1>6, <2>1
  <2> QED BY <1>1, <2>2 DEF Got
<1>8. Place
  <2>1. ASSUME Chunked(response)
        PROVE  \E i \in 1 .. Len(response.chunks) : AtChunk(i)
    <3>1. /\ Len(response.chunks) > 0 /\ response.chunks[1].at = 0
          /\ Len(response.chunks) \in Nat
      BY <1>1, <2>1, ResponsesAssumption DEF Layout, ResponseType
    <3>2. transfer.kind = "Size"
      BY <1>1, <2>1 DEF Chunked, NewTransfer, Plain
    <3> QED BY <1>1, <3>1, <3>2 DEF AtChunk, At
  <2>2. ASSUME Counted(response)
        PROVE  transfer.kind = "Length" /\ pos = response.length - transfer.size
    <3>1. transfer = Sized("Length", response.length)
      BY <1>1, <2>2 DEF Counted, NewTransfer
    <3>2. response.length \in Int
      BY <1>2 DEF ResponseFacts, ResponseType
    <3> QED BY <1>1, <3>1, <3>2 DEF Sized
  <2>3. ASSUME ToTheEnd(response) PROVE transfer.kind = "Connection"
    BY <1>1, <2>3 DEF ToTheEnd, Chunked, Counted, NewTransfer, Plain
  <2>4. ASSUME response.bodyless PROVE transfer.kind = "Empty"
    BY <1>1, <2>4 DEF NewTransfer, Plain
  <2> QED BY <2>1, <2>2, <2>3, <2>4 DEF Place
<1>9. Ends
  BY <1>1 DEF Ends
<1> QED BY <1>5, <1>7, <1>8, <1>9 DEF IInv

LEMMA ReadStep ==
  ASSUME IInv, NEW n \in 1 .. MaxRead, Read(n)
  PROVE  IInv'
<1>1. mode = "Idle" /\ mode' = "Read" /\ room' = n /\ ret' = "None"
  BY DEF Read
<1>2. UNCHANGED << response, transfer, pos, hi, offset, delivered >>
  BY DEF Read, reader
<1>3. Shape'
  BY <1>1, <1>2, BoundsAssumption DEF IInv, Shape, Modes, Returns, stream
<1>4. Place' /\ Got'
  BY <1>2, Stays DEF IInv, Shape
<1>5. Ends'
  BY <1>1 DEF Ends
<1> QED BY <1>3, <1>4, <1>5 DEF IInv

(* A call returns without having read anything.                            *)
LEMMA ReturnStep ==
  ASSUME IInv, NEW r \in Returns, Return(r),
         UNCHANGED << response, transfer, reader, offset, delivered >>,
         r = "End" => BodyBytes(response) \subseteq delivered,
         r = "PartialFile" => Len(stream) < BodyEnd(response) /\ Stuck,
         r = "ChunkTooLarge" => Stuck
  PROVE  IInv'
<1>1. mode' = "Idle" /\ ret' = r /\ room' = 0
  BY DEF Return
<1>2. UNCHANGED << response, transfer, pos, hi, offset, delivered >> /\ stream' = stream
  BY DEF reader, stream
<1>3. Shape'
  BY <1>1, <1>2, BoundsAssumption DEF IInv, Shape, Modes
<1>4. Place' /\ Got'
  BY <1>2, Stays DEF IInv, Shape
<1>5. Stuck => Stuck'
  BY <1>2, StaysStuck
<1>6. Ends'
  BY <1>1, <1>2, <1>5 DEF Ends, Dead
<1> QED BY <1>3, <1>4, <1>6 DEF IInv

LEMMA InterruptedStep == ASSUME IInv, Interrupted PROVE IInv'
BY ReturnStep DEF Interrupted, Returns

(* All of the body has been returned when none is left.                    *)
LEMMA AllDelivered ==
  ASSUME Shape, Got, Place,
         \/ transfer.kind \in {"Empty", "Trailers"}
         \/ transfer.kind = "Length" /\ transfer.size = 0
  PROVE  BodyBytes(response) \subseteq delivered
<1>1. response \in Responses /\ ResponseFacts /\ stream = response.stream /\ pos \in Nat
  BY ResponseTyped DEF Shape, stream
<1>2. BodyBytes(response) \subseteq Nat
  BY <1>1, BodyBytesTyped
<1>3. \A p \in BodyBytes(response) : p <= pos
  <2>1. CASE Chunked(response)
    <3>1. LastChunk(response).size = 0 /\ BodyEnd(response) <= pos
      BY <2>1 DEF Place, AtChunk, AllRead
    <3>2. BodyEnd(response) \in Nat
      <4>1. 1 \in 1 .. Len(response.chunks)
        BY <1>1, <2>1, ResponsesAssumption DEF Layout, ResponseType
      <4> QED BY <1>1, <2>1, <4>1, EndIsBehind
    <3> QED BY <1>1, <1>2, <2>1, <3>1, <3>2, NoBodyBehind
  <2>2. CASE Counted(response)
    <3>1. BodyBytes(response) = 1 .. response.length /\ BodyEnd(response) = response.length
      BY <2>2 DEF BodyBytes, BodyEnd, Counted, Chunked, ToTheEnd
    <3>2. response.length \in Int
      BY <1>1 DEF ResponseFacts, ResponseType
    <3>3. response.length <= pos
      BY <2>2, <3>1, <3>2 DEF Place, AllRead
    <3> QED BY <1>1, <3>1, <3>2, <3>3
  <2>3. CASE ToTheEnd(response)
    <3>1. BodyBytes(response) = 1 .. Len(stream) /\ BodyEnd(response) = Len(stream)
      BY <2>3 DEF BodyBytes, BodyEnd, Counted, Chunked, ToTheEnd, stream
    <3>2. Len(stream) <= pos
      BY <2>3, <3>1 DEF Place, AllRead
    <3> QED BY <1>1, <3>1, <3>2 DEF ResponseFacts
  <2>4. CASE response.bodyless
    BY <2>4 DEF BodyBytes, Chunked, Counted, ToTheEnd
  <2> QED BY <2>1, <2>2, <2>3, <2>4 DEF ToTheEnd
<1> QED BY <1>3 DEF Got

LEMMA ReadAtEndStep == ASSUME IInv, ReadAtEnd PROVE IInv'
<1>1. BodyBytes(response) \subseteq delivered
  BY AllDelivered DEF IInv, ReadAtEnd
<1> QED BY <1>1, ReturnStep DEF ReadAtEnd, Returns

LEMMA ReadConnectionStep == ASSUME IInv, ReadConnection PROVE IInv'
<1>1. response \in Responses /\ ResponseFacts /\ stream = response.stream
  BY ResponseTyped DEF IInv, Shape, stream
<1>2. /\ mode = "Read" /\ transfer.kind = "Connection"
      /\ response' = response /\ offset' = offset /\ stream' = stream
  BY DEF ReadConnection, stream
<1>3. ToTheEnd(response)
  <2>1. ~Chunked(response) /\ ~Counted(response) /\ ~response.bodyless
    BY <1>2 DEF IInv, Place, AtChunk
  <2> QED BY <2>1 DEF ToTheEnd
<1>4. /\ ~Chunked(response) /\ ~Counted(response) /\ ~response.bodyless
      /\ BodyBytes(response) = 1 .. Len(stream) /\ BodyEnd(response) = Len(stream)
  BY <1>1, <1>3 DEF ToTheEnd, BodyBytes, BodyEnd
<1>5. ASSUME NEW k \in 1 .. room, ReadBytes(k), UNCHANGED transfer
      PROVE  IInv'
  <2>1. pos \in Nat /\ hi \in Nat /\ hi <= Len(stream) /\ Len(stream) \in Nat /\ room \in Nat /\ k \in Nat
    BY <1>1, BoundsAssumption DEF IInv, Shape, ResponseFacts
  <2>2. pos + 1 .. pos + k \subseteq BodyBytes(response)
    BY <1>4, <1>5, <2>1 DEF ReadBytes
  <2>3. /\ Got' /\ mode' = "Idle" /\ ret' = "Bytes" /\ room' = 0
        /\ pos' \in Nat /\ hi' \in Nat /\ pos' <= hi'
        /\ hi' <= Len(stream) /\ hi' <= pos' + Capacity
    BY <1>2, <1>5, <2>1, <2>2, Delivers DEF IInv
  <2>4. Shape'
    BY <1>2, <1>5, <2>3, BoundsAssumption DEF IInv, Shape, Modes, Returns
  <2>5. Place'
    BY <1>2, <1>4, <1>5 DEF Place
  <2>6. Ends'
    BY <2>3 DEF Ends
  <2> QED BY <2>3, <2>4, <2>5, <2>6 DEF IInv
<1>6. ASSUME AtEof, transfer' = Plain("Empty"), Return("End"), UNCHANGED << reader, delivered >>
      PROVE  IInv'
  <2>1. /\ pos = Len(stream) /\ UNCHANGED << pos, hi, delivered >>
        /\ mode' = "Idle" /\ ret' = "End" /\ room' = 0
        /\ transfer' = Plain("Empty") /\ transfer'.kind = "Empty" /\ transfer' \in Transfer
    BY <1>6 DEF AtEof, reader, Return, Plain, Transfer
  <2>2. Shape'
    BY <1>2, <2>1, BoundsAssumption DEF IInv, Shape, Modes, Returns
  <2>3. Got'
    BY <1>2, <2>1 DEF IInv, Got
  <2>4. Place'
    <3>1. AllRead'
      BY <1>1, <1>2, <1>4, <2>1 DEF AllRead, ResponseFacts
    <3> QED BY <1>2, <1>4, <2>1, <3>1 DEF Place
  <2>5. BodyBytes(response) \subseteq delivered
    BY <1>1, <1>4, <2>1 DEF IInv, Got, ResponseFacts
  <2>6. Ends'
    BY <1>2, <2>1, <2>5 DEF Ends
  <2> QED BY <2>2, <2>3, <2>4, <2>6 DEF IInv
<1> QED BY <1>5, <1>6 DEF ReadConnection

LEMMA LessIs ==
  ASSUME NEW k \in Nat, NEW kind, NEW next, transfer.size \in Nat, k <= transfer.size
  PROVE  /\ transfer.size > k => Less(kind, k, next).kind = kind /\ Less(kind, k, next).size = transfer.size - k
         /\ transfer.size <= k => Less(kind, k, next).kind = next /\ Less(kind, k, next).size = 0
BY DEF Less, Sized, Plain

LEMMA TransferSize ==
  ASSUME transfer \in Transfer PROVE transfer.size \in Nat
BY DEF Transfer

LEMMA ReadLengthStep == ASSUME IInv, ReadLength PROVE IInv'
<1>1. response \in Responses /\ ResponseFacts /\ stream = response.stream /\ transfer \in Transfer
  BY ResponseTyped DEF IInv, Shape, stream
<1>2. /\ mode = "Read" /\ transfer.kind = "Length" /\ transfer.size \in Nat
      /\ response' = response /\ offset' = offset /\ stream' = stream
  BY <1>1, TransferSize DEF ReadLength, ReadCounted, stream
<1>3. Counted(response) /\ ~Chunked(response) /\ ~ToTheEnd(response) /\ ~response.bodyless
  BY <1>2 DEF IInv, Place, AtChunk, ToTheEnd, Counted, Chunked
<1>4. /\ BodyBytes(response) = 1 .. response.length /\ BodyEnd(response) = response.length
      /\ pos = response.length - transfer.size /\ response.length \in Int
  BY <1>1, <1>2, <1>3 DEF BodyBytes, BodyEnd, IInv, Place, ResponseFacts, ResponseType
<1>5. ASSUME NEW k \in 1 .. Smaller(room, transfer.size), ReadBytes(k), transfer' = Less("Length", k, "Empty")
      PROVE  IInv'
  <2>1. pos \in Nat /\ hi \in Nat /\ room \in Nat /\ k \in Nat /\ k <= transfer.size
    BY <1>1, <1>2, BoundsAssumption DEF IInv, Shape, ResponseFacts, Smaller
  <2>2. pos + 1 .. pos + k \subseteq BodyBytes(response)
    BY <1>2, <1>4, <2>1
  <2>3. /\ Got' /\ mode' = "Idle" /\ ret' = "Bytes" /\ room' = 0 /\ pos' = pos + k
        /\ pos' \in Nat /\ hi' \in Nat /\ pos' <= hi'
        /\ hi' <= Len(stream) /\ hi' <= pos' + Capacity
    BY <1>2, <1>5, <2>1, <2>2, Delivers DEF IInv
  <2>4. /\ transfer.size > k => transfer'.kind = "Length" /\ transfer'.size = transfer.size - k
        /\ transfer.size <= k => transfer'.kind = "Empty" /\ transfer'.size = 0
    BY <1>2, <1>5, <2>1, LessIs
  <2>5. transfer' \in Transfer
    BY <1>2, <1>5, <2>1 DEF Less, Sized, Plain, Transfer
  <2>6. Shape'
    BY <1>2, <2>3, <2>5, BoundsAssumption DEF IInv, Shape, Modes, Returns
  <2>7. Place'
    <3>1. CASE transfer.size > k
      BY <1>2, <1>3, <1>4, <2>1, <2>3, <2>4, <3>1 DEF Place
    <3>2. CASE transfer.size <= k
      <4>1. AllRead'
        BY <1>2, <1>4, <2>1, <2>3, <3>2 DEF AllRead
      <4> QED BY <1>2, <1>3, <2>4, <3>2, <4>1 DEF Place
    <3> QED BY <1>2, <2>1, <3>1, <3>2
  <2>8. Ends'
    BY <2>3 DEF Ends
  <2> QED BY <2>3, <2>6, <2>7, <2>8 DEF IInv
<1>6. ASSUME transfer.size = 0, Return("End"), UNCHANGED << transfer, reader, delivered >>
      PROVE  IInv'
  <2>1. BodyBytes(response) \subseteq delivered
    BY <1>2, <1>6, AllDelivered DEF IInv
  <2> QED BY <1>2, <1>6, <2>1, ReturnStep DEF Returns
<1>7. ASSUME transfer.size > 0, AtEof, Return(EofResult), UNCHANGED << transfer, reader, delivered >>
      PROVE  IInv'
  <2>1. Len(stream) < BodyEnd(response)
    BY <1>1, <1>2, <1>4, <1>7 DEF AtEof, ResponseFacts
  <2>2. Stuck
    BY <1>2, <1>7 DEF Stuck, AtEof
  <2>3. EofResult \in Returns /\ EofResult = "PartialFile"
    BY DEF EofResult, Returns
  <2> QED BY <1>2, <1>7, <2>1, <2>2, <2>3, ReturnStep
<1> QED BY <1>5, <1>6, <1>7 DEF ReadLength, ReadCounted

(* The chunk the transfer is at.                                           *)
LEMMA ChunkOf ==
  ASSUME Shape, Place, transfer.kind \in {"Size", "Extension", "Data", "Trailer"}
  PROVE  /\ Chunked(response) /\ ~Counted(response) /\ ~ToTheEnd(response) /\ ~response.bodyless
         /\ \E i \in 1 .. Len(response.chunks) : AtChunk(i)
<1>1. ~Counted(response) /\ ~ToTheEnd(response) /\ ~response.bodyless
  BY DEF Place
<1>2. Chunked(response)
  BY <1>1 DEF ToTheEnd
<1> QED BY <1>1, <1>2 DEF Place

(* What the stream of a chunked response lacks when it ends before a chunk *)
(* does.                                                                   *)
LEMMA CutShort ==
  ASSUME Shape, Chunked(response), NEW i \in 1 .. Len(response.chunks),
         \/ HasSize(response, i) /\ Len(stream) < Data(response, i)
         \/ Len(stream) < Stop(response, i)
         \/ i < Len(response.chunks) /\ Len(stream) < At(response, i + 1)
         \/ ~HasSize(response, i)
  PROVE  Len(stream) < BodyEnd(response)
<1>1. response \in Responses /\ ResponseFacts /\ stream = response.stream /\ Len(response.chunks) \in Nat
  BY ResponseTyped DEF Shape, ResponseFacts, ResponseType, stream
<1>2. Len(stream) \in Nat /\ BodyEnd(response) \in Nat
  BY <1>1, EndIsBehind DEF ResponseFacts
<1>3. CASE LastChunk(response).size # 0
  BY <1>1, <1>2, <1>3, EndIsBehind
<1>4. CASE LastChunk(response).size = 0
  <2>1. Data(response, i) <= BodyEnd(response) /\ Stop(response, i) <= BodyEnd(response)
    BY <1>1, <1>4, EndIsBehind
  <2>2. i < Len(response.chunks) => At(response, i + 1) < BodyEnd(response) /\ At(response, i + 1) \in Nat
    BY <1>1, <1>4, EndIsBehind, ChunkPlace
  <2>3. Data(response, i) \in Int /\ Stop(response, i) \in Int
    BY <1>1, ChunkPlace
  <2>4. HasSize(response, i)
    BY <1>1, <1>4, ChunkPlace DEF HasSize, LastChunk, NoSize
  <2> QED BY <1>2, <2>1, <2>2, <2>3, <2>4
<1> QED BY <1>3, <1>4

LEMMA ReadDataStep == ASSUME IInv, ReadData PROVE IInv'
<1>1. /\ response \in Responses /\ ResponseFacts /\ stream = response.stream /\ transfer \in Transfer
      /\ Len(response.chunks) \in Nat
  BY ResponseTyped DEF IInv, Shape, ResponseFacts, ResponseType, stream
<1>2. /\ mode = "Read" /\ transfer.kind = "Data" /\ transfer.size \in Nat
      /\ response' = response /\ offset' = offset /\ stream' = stream
  BY <1>1, TransferSize DEF ReadData, ReadCounted, stream
<1>3. /\ Chunked(response) /\ ~Counted(response) /\ ~ToTheEnd(response) /\ ~response.bodyless
      /\ \E i \in 1 .. Len(response.chunks) : AtChunk(i)
  BY <1>2, ChunkOf DEF IInv
<1>4. PICK i \in 1 .. Len(response.chunks) : AtChunk(i)
  BY <1>3
<1>5. /\ transfer.size > 0 /\ Data(response, i) <= pos /\ pos + transfer.size = Stop(response, i)
      /\ Data(response, i) \in Nat /\ Stop(response, i) \in Int /\ pos \in Nat
  BY <1>1, <1>2, <1>3, <1>4, ChunkPlace DEF AtChunk, IInv, Shape
<1>6. i < Len(response.chunks) /\ Stop(response, i) < At(response, i + 1) /\ At(response, i + 1) \in Nat
  <2>1. HasSize(response, i)
    BY <1>1, <1>2, <1>3, <1>5, ChunkPlace
  <2>2. response.chunks[i].size > 0
    BY <1>1, <1>2, <1>3, <1>5, <2>1, ChunkFacts DEF Stop, Data, HasSize
  <2>3. i < Len(response.chunks) /\ i + 1 \in 1 .. Len(response.chunks)
    BY <1>1, <1>3, <2>2, ChunkFacts
  <2> QED BY <1>1, <1>3, <2>3, ChunkOrder, ChunkPlace
<1>7. ASSUME NEW k \in 1 .. Smaller(room, transfer.size), ReadBytes(k), transfer' = Less("Data", k, "Trailer")
      PROVE  IInv'
  <2>1. pos \in Nat /\ hi \in Nat /\ room \in Nat /\ k \in Nat /\ k <= transfer.size
    BY <1>1, <1>2, BoundsAssumption DEF IInv, Shape, ResponseFacts, Smaller
  <2>2. pos + 1 .. pos + k \subseteq BodyBytes(response)
    <3>1. pos + 1 .. pos + k \subseteq Data(response, i) + 1 .. Stop(response, i)
      BY <1>2, <1>5, <2>1
    <3> QED BY <1>1, <1>3, <3>1, BodyOfChunks
  <2>3. /\ Got' /\ mode' = "Idle" /\ ret' = "Bytes" /\ room' = 0 /\ pos' = pos + k
        /\ pos' \in Nat /\ hi' \in Nat /\ pos' <= hi'
        /\ hi' <= Len(stream) /\ hi' <= pos' + Capacity
    BY <1>2, <1>7, <2>1, <2>2, Delivers DEF IInv
  <2>4. /\ transfer.size > k => transfer'.kind = "Data" /\ transfer'.size = transfer.size - k
        /\ transfer.size <= k => transfer'.kind = "Trailer" /\ transfer'.size = 0
    BY <1>2, <1>7, <2>1, LessIs
  <2>5. transfer' \in Transfer
    BY <1>2, <1>7, <2>1 DEF Less, Sized, Plain, Transfer
  <2>6. Shape'
    BY <1>2, <2>3, <2>5, BoundsAssumption DEF IInv, Shape, Modes, Returns
  <2>7. AtChunk(i)'
    <3>1. CASE transfer.size > k
      <4>1. /\ transfer'.kind = "Data" /\ transfer'.size > 0
            /\ Data(response, i) <= pos' /\ pos' + transfer'.size = Stop(response, i)
        <5>1. transfer'.kind = "Data" /\ transfer'.size = transfer.size - k /\ pos' = pos + k
          BY <2>3, <2>4, <3>1
        <5>2. Data(response, i) <= pos'
          BY <1>5, <2>1, <5>1
        <5>3. transfer'.size > 0 /\ pos' + transfer'.size = pos + transfer.size
          BY <1>2, <2>1, <3>1, <5>1
        <5> QED BY <1>5, <5>1, <5>2, <5>3
      <4> QED BY <1>2, <4>1 DEF AtChunk
    <3>2. CASE transfer.size <= k
      <4>1. transfer'.kind = "Trailer" /\ Stop(response, i) <= pos' /\ pos' < At(response, i + 1)
        BY <1>2, <1>5, <1>6, <2>1, <2>3, <2>4, <3>2
      <4> QED BY <1>2, <1>6, <4>1 DEF AtChunk
    <3> QED BY <1>2, <2>1, <3>1, <3>2
  <2>8. Place'
    BY <1>2, <1>3, <2>7 DEF Place
  <2>9. Ends'
    BY <2>3 DEF Ends
  <2> QED BY <2>3, <2>6, <2>8, <2>9 DEF IInv
<1>8. ASSUME transfer.size > 0, AtEof, Return(EofResult), UNCHANGED << transfer, reader, delivered >>
      PROVE  IInv'
  <2>1. Len(stream) < Stop(response, i)
    BY <1>2, <1>5, <1>8 DEF AtEof
  <2>2. Len(stream) < BodyEnd(response)
    BY <1>3, <2>1, CutShort DEF IInv
  <2>3. Stuck
    BY <1>2, <1>8 DEF Stuck, AtEof
  <2>4. EofResult \in Returns /\ EofResult = "PartialFile"
    BY DEF EofResult, Returns
  <2> QED BY <1>2, <1>8, <2>2, <2>3, <2>4, ReturnStep
<1> QED BY <1>2, <1>5, <1>7, <1>8 DEF ReadData, ReadCounted

LEMMA ReadChunkSizeStep == ASSUME IInv, ReadChunkSize PROVE IInv'
<1>1. /\ response \in Responses /\ ResponseFacts /\ stream = response.stream
      /\ Len(response.chunks) \in Nat
  BY ResponseTyped DEF IInv, Shape, ResponseFacts, ResponseType, stream
<1>2. /\ mode = "Read" /\ transfer.kind = "Size" /\ SizeDecided /\ ret = "None"
      /\ UNCHANGED << response, hi, offset, delivered, stream >>
      /\ pos' = IF NonDigits # {} THEN SizeEnd ELSE pos
  BY DEF ReadChunkSize, stream, IInv, Ends
<1>3. /\ Chunked(response) /\ ~Counted(response) /\ ~ToTheEnd(response) /\ ~response.bodyless
      /\ \E i \in 1 .. Len(response.chunks) : AtChunk(i)
  BY <1>2, ChunkOf DEF IInv
<1>4. PICK i \in 1 .. Len(response.chunks) : AtChunk(i)
  BY <1>3
<1>5. /\ At(response, i) \in Nat /\ Data(response, i) \in Nat
      /\ response.chunks[i].digits \in Nat /\ pos \in Nat /\ hi \in Nat /\ Len(stream) \in Nat
      /\ pos <= hi /\ hi <= Len(stream) /\ hi <= pos + Capacity /\ Capacity \in Nat
  BY <1>1, <1>3, ChunkPlace, ChunkFacts, CapacityAssumption DEF IInv, Shape, ResponseFacts
<1>9. LET e == At(response, i) + response.chunks[i].digits
      IN  e \in Nat /\ At(response, i) <= e
  BY <1>5, SumIsAbove
<1>6. /\ pos' \in Nat /\ pos <= pos' /\ pos' <= hi
      /\ SizeValid => /\ HasSize(response, i) /\ ChunkSize = response.chunks[i].size
                      /\ pos' = At(response, i) + response.chunks[i].digits /\ pos = At(response, i)
      /\ ~SizeValid => /\ ~HasSize(response, i)
                       /\ \/ pos' = At(response, i)
                          \/ /\ pos' = At(response, i) + response.chunks[i].digits
                             /\ pos' < hi /\ ~IsHexDigit(stream[pos' + 1])
      /\ At(response, i) <= pos
  <2>1. CASE pos = At(response, i)
    <3>1. /\ NonDigits # {} =>
                /\ SizeEnd = pos + response.chunks[i].digits
                /\ SizeEnd < hi /\ ~IsHexDigit(stream[SizeEnd + 1])
          /\ HasSize(response, i) => SizeValid /\ ChunkSize = response.chunks[i].size
          /\ ~HasSize(response, i) => ~SizeValid
      BY <1>2, <1>3, <2>1, SizeScan DEF IInv
    <3>2. SizeValid => NonDigits # {}
      BY DEF SizeValid
    <3>3. CASE NonDigits # {}
      <4>1. pos' = SizeEnd
        BY <1>2, <3>3
      <4>2. /\ pos' = At(response, i) + response.chunks[i].digits
            /\ pos' < hi /\ ~IsHexDigit(stream[pos' + 1])
        BY <2>1, <3>1, <3>3, <4>1
      <4>3. pos' \in Nat /\ pos <= pos' /\ pos' <= hi
        <5>1. pos' \in Nat /\ pos <= pos'
          BY <1>9, <2>1, <4>2
        <5> QED BY <1>5, <4>2, <5>1
      <4>4. At(response, i) <= pos
        BY <1>5, <2>1
      <4> QED BY <2>1, <3>1, <4>2, <4>3, <4>4
    <3>4. CASE NonDigits = {}
      <4>1. pos' = pos /\ ~SizeValid
        BY <1>2, <3>2, <3>4
      <4> QED BY <1>5, <2>1, <3>1, <4>1
    <3> QED BY <3>3, <3>4
  <2>2. CASE /\ ~HasSize(response, i) /\ pos = At(response, i) + response.chunks[i].digits
             /\ pos < hi /\ ~IsHexDigit(stream[pos + 1])
    <3>1. ~SizeValid /\ NonDigits # {} /\ SizeEnd = pos
      BY <2>2, SizeScanAgain DEF IInv
    <3>2. pos' = pos
      BY <1>2, <3>1
    <3>3. At(response, i) <= pos
      BY <1>9, <2>2
    <3>4. pos' \in Nat /\ pos <= pos' /\ pos' <= hi
      BY <1>5, <3>2
    <3> QED BY <2>2, <3>1, <3>2, <3>3, <3>4
  <2> QED BY <1>2, <1>4, <2>1, <2>2 DEF AtChunk
<1>7. ASSUME SizeValid
      PROVE  IInv'
  <2>1. /\ transfer' = Sized("Extension", ChunkSize) /\ UNCHANGED << mode, room, ret >>
        /\ transfer'.kind = "Extension" /\ transfer'.size = ChunkSize
    BY <1>7 DEF ReadChunkSize, Sized
  <2>2. /\ HasSize(response, i) /\ ChunkSize = response.chunks[i].size
        /\ pos' = At(response, i) + response.chunks[i].digits /\ pos = At(response, i)
    BY <1>6, <1>7
  <2>3. /\ ChunkSize \in Nat /\ pos' < Data(response, i)
    BY <1>1, <1>3, <2>2, ChunkFacts, SizeLineEnds DEF HasSize, At, Data
  <2>4. transfer' \in Transfer
    BY <2>1, <2>3 DEF Sized, Transfer
  <2>5. Shape'
    <3>1. pos' \in Nat /\ pos <= pos' /\ pos' <= hi
      BY <1>6
    <3>2. hi <= pos' + Capacity
      BY <1>5, <3>1, WithinCapacity
    <3> QED BY <1>2, <2>1, <2>4, <3>1, <3>2 DEF IInv, Shape
  <2>6. AtChunk(i)'
    <3>1. /\ transfer'.kind = "Extension" /\ transfer'.size = response.chunks[i].size
          /\ At(response, i) + response.chunks[i].digits <= pos'
      BY <1>9, <2>1, <2>2
    <3> QED BY <1>2, <2>2, <2>3, <3>1 DEF AtChunk
  <2>7. Place'
    BY <1>2, <1>3, <2>6 DEF Place
  <2>8. \A p \in Nat : pos < p /\ p <= pos' => p \notin BodyBytes(response)
    BY <1>1, <1>3, <1>5, <1>6, <2>2, <2>3, NoBodyInSizeLine
  <2>9. Got'
    BY <1>2, <1>6, <2>8, Skips DEF IInv
  <2>10. Ends'
    BY <1>2, <2>1 DEF Ends
  <2> QED BY <2>5, <2>7, <2>9, <2>10 DEF IInv
<1>8. ASSUME ~SizeValid
      PROVE  IInv'
  <2>1. /\ UNCHANGED transfer /\ mode' = "Idle" /\ ret' = "ChunkTooLarge" /\ room' = 0
    BY <1>8 DEF ReadChunkSize, Return
  <2>2. ~HasSize(response, i)
    BY <1>6, <1>8
  <2>3. AtChunk(i)'
    <3>1. \/ pos' = At(response, i)
          \/ /\ pos' = At(response, i) + response.chunks[i].digits
             /\ pos' < hi /\ ~IsHexDigit(stream[pos' + 1])
      BY <1>6, <1>8
    <3> QED BY <1>2, <2>1, <2>2, <3>1 DEF AtChunk
  <2>4. Shape'
    BY <1>2, <1>5, <1>6, <2>1, BoundsAssumption DEF IInv, Shape, Modes, Returns
  <2>5. Place'
    BY <1>2, <1>3, <2>3 DEF Place
  <2>6. \A p \in Nat : pos < p /\ p <= pos' => p \notin BodyBytes(response)
    BY <1>1, <1>3, <1>5, <1>6, <2>2, NoBodyInSizeLine
  <2>7. Got'
    BY <1>2, <1>6, <2>6, Skips DEF IInv
  <2>8. Stuck'
    BY <1>2, <1>3, <2>1, <2>2, <2>3 DEF Stuck
  <2>9. Ends'
    BY <2>1, <2>8 DEF Ends, Dead
  <2> QED BY <2>4, <2>5, <2>7, <2>9 DEF IInv
<1> QED BY <1>7, <1>8

(* The line that is being skipped: it is the body's neither before nor     *)
(* behind its end at position `to'.                                        *)
LineTo(i) == IF transfer.kind = "Extension" THEN Data(response, i) ELSE At(response, i + 1)

LEMMA SkippedLine ==
  ASSUME Shape, Chunked(response), NEW i \in 1 .. Len(response.chunks), AtChunk(i), Skipping
  PROVE  /\ LineTo(i) \in Nat /\ pos < LineTo(i)
         /\ Newlines(stream, pos, hi) # {} => Min(Newlines(stream, pos, hi)) = LineTo(i) /\ LineTo(i) <= hi
         /\ Newlines(stream, pos, hi) = {} => hi < LineTo(i)
         /\ \A p \in Nat : pos < p /\ p <= LineTo(i) => p \notin BodyBytes(response)
<1>1. /\ response \in Responses /\ ResponseFacts /\ stream = response.stream
      /\ Len(response.chunks) \in Nat /\ stream \in Seq(Nat)
  BY ResponseTyped DEF Shape, ResponseFacts, ResponseType, stream
<1>2. /\ pos \in Nat /\ hi \in Nat /\ pos <= hi /\ hi <= Len(stream)
  BY DEF Shape
<1>3. CASE transfer.kind = "Extension"
  <2>1. /\ LineTo(i) = Data(response, i) /\ HasSize(response, i)
        /\ At(response, i) + response.chunks[i].digits <= pos /\ pos < Data(response, i)
    BY <1>3 DEF AtChunk, LineTo
  <2>2. /\ response.chunks[i].digits \in Nat /\ At(response, i) \in Nat /\ Data(response, i) \in Nat
        /\ LineEnds(stream, At(response, i) + response.chunks[i].digits, Data(response, i))
    BY <1>1, <2>1, ChunkFacts DEF HasSize, SizeLine, At, Data
  <2>3. At(response, i) + response.chunks[i].digits \in Nat
    BY <2>2
  <2>4. /\ Newlines(stream, pos, hi) # {} => Min(Newlines(stream, pos, hi)) = LineTo(i) /\ LineTo(i) <= hi
        /\ Newlines(stream, pos, hi) = {} => hi < LineTo(i)
    BY <1>1, <1>2, <2>1, <2>2, <2>3, LineScan
  <2>5. \A p \in Nat : pos < p /\ p <= LineTo(i) => p \notin BodyBytes(response)
    <3>1. At(response, i) <= pos
      BY <1>2, <2>1, <2>2
    <3> QED BY <1>1, <1>2, <2>1, <2>2, <3>1, NoBodyInSizeLine
  <2> QED BY <2>1, <2>2, <2>4, <2>5
<1>4. CASE transfer.kind = "Trailer"
  <2>1. /\ LineTo(i) = At(response, i + 1) /\ i < Len(response.chunks)
        /\ Stop(response, i) <= pos /\ pos < At(response, i + 1)
    BY <1>4 DEF AtChunk, LineTo
  <2>2. /\ At(response, i + 1) \in Nat /\ Stop(response, i) \in Nat
        /\ LineEnds(stream, Stop(response, i), At(response, i + 1))
    <3>1. i + 1 \in 1 .. Len(response.chunks)
      BY <1>1, <2>1
    <3>2. HasSize(response, i)
      BY <1>1, <2>1, <3>1, ChunkPlace
    <3>3. Stop(response, i) \in Int /\ Data(response, i) \in Nat /\ Data(response, i) <= Stop(response, i)
      BY <1>1, <3>2, ChunkPlace
    <3> QED BY <1>1, <2>1, <3>1, <3>3, ChunkFacts DEF Stop, At
  <2>3. /\ Newlines(stream, pos, hi) # {} => Min(Newlines(stream, pos, hi)) = LineTo(i) /\ LineTo(i) <= hi
        /\ Newlines(stream, pos, hi) = {} => hi < LineTo(i)
    BY <1>1, <1>2, <2>1, <2>2, LineScan
  <2>4. \A p \in Nat : pos < p /\ p <= LineTo(i) => p \notin BodyBytes(response)
    BY <1>1, <1>2, <2>1, <2>2, NoBodyInTrailer
  <2> QED BY <2>1, <2>2, <2>3, <2>4
<1> QED BY <1>3, <1>4 DEF Skipping

LEMMA SkipLineStep == ASSUME IInv, SkipLine PROVE IInv'
<1>1. /\ response \in Responses /\ ResponseFacts /\ stream = response.stream
      /\ Len(response.chunks) \in Nat /\ transfer \in Transfer
  BY ResponseTyped DEF IInv, Shape, ResponseFacts, ResponseType, stream
<1>2. /\ mode = "Read" /\ Skipping /\ pos < hi /\ ret = "None" /\ transfer.size \in Nat
      /\ UNCHANGED << response, hi, mode, room, offset, ret, delivered, stream >>
      /\ IF Newlines(stream, pos, hi) # {}
         THEN pos' = Min(Newlines(stream, pos, hi)) /\ transfer' = AfterNewline
         ELSE pos' = hi /\ UNCHANGED transfer
  BY <1>1, TransferSize DEF SkipLine, stream, IInv, Ends
<1>3. /\ Chunked(response) /\ ~Counted(response) /\ ~ToTheEnd(response) /\ ~response.bodyless
      /\ \E i \in 1 .. Len(response.chunks) : AtChunk(i)
  BY <1>2, ChunkOf DEF IInv, Skipping
<1>4. PICK i \in 1 .. Len(response.chunks) : AtChunk(i)
  BY <1>3
<1>5. /\ LineTo(i) \in Nat /\ pos < LineTo(i)
      /\ Newlines(stream, pos, hi) # {} => Min(Newlines(stream, pos, hi)) = LineTo(i) /\ LineTo(i) <= hi
      /\ Newlines(stream, pos, hi) = {} => hi < LineTo(i)
      /\ \A p \in Nat : pos < p /\ p <= LineTo(i) => p \notin BodyBytes(response)
  BY <1>2, <1>3, <1>4, SkippedLine DEF IInv
<1>6. /\ pos \in Nat /\ hi \in Nat /\ hi <= Len(stream) /\ Len(stream) \in Nat
      /\ hi <= pos + Capacity /\ Capacity \in Nat
  BY <1>1, CapacityAssumption DEF IInv, Shape, ResponseFacts
<1>7. pos' \in Nat /\ pos < pos' /\ pos' <= hi /\ pos' <= LineTo(i)
  BY <1>2, <1>5, <1>6
<1>8. Got'
  <2>1. \A p \in Nat : pos < p /\ p <= pos' => p \notin BodyBytes(response)
    BY <1>5, <1>7
  <2> QED BY <1>2, <1>6, <1>7, <2>1, Skips DEF IInv
<1>9. ASSUME Newlines(stream, pos, hi) = {}
      PROVE  Place' /\ transfer' \in Transfer /\ (mode' \in {"Scan", "Fill", "Panicked"} => transfer'.kind = "Trailers")
  <2>1. transfer' = transfer /\ pos' < LineTo(i) /\ pos <= pos'
    BY <1>2, <1>5, <1>6, <1>9
  <2>2. AtChunk(i)'
    <3>1. CASE transfer.kind = "Extension"
      <4>1. /\ HasSize(response, i) /\ transfer.size = response.chunks[i].size
            /\ At(response, i) + response.chunks[i].digits <= pos
            /\ At(response, i) \in Nat /\ response.chunks[i].digits \in Nat
        BY <1>1, <1>3, <1>4, <3>1, ChunkFacts DEF AtChunk, At
      <4>2. At(response, i) + response.chunks[i].digits <= pos' /\ pos' < Data(response, i)
        BY <1>6, <1>7, <2>1, <3>1, <4>1 DEF LineTo
      <4> QED BY <1>2, <2>1, <3>1, <4>1, <4>2 DEF AtChunk
    <3>2. CASE transfer.kind = "Trailer"
      <4>1. i < Len(response.chunks) /\ Stop(response, i) <= pos /\ Stop(response, i) \in Int
        BY <1>1, <1>3, <1>4, <3>2, ChunkPlace DEF AtChunk
      <4>2. Stop(response, i) <= pos' /\ pos' < At(response, i + 1)
        BY <1>6, <1>7, <2>1, <3>2, <4>1 DEF LineTo
      <4> QED BY <1>2, <2>1, <3>2, <4>1, <4>2 DEF AtChunk
    <3> QED BY <1>2, <3>1, <3>2 DEF Skipping
  <2> QED BY <1>1, <1>2, <1>3, <2>1, <2>2 DEF Place
<1>10. ASSUME Newlines(stream, pos, hi) # {}
       PROVE  Place' /\ transfer' \in Transfer /\ (mode' \in {"Scan", "Fill", "Panicked"} => transfer'.kind = "Trailers")
  <2>1. transfer' = AfterNewline /\ pos' = LineTo(i)
    BY <1>2, <1>5, <1>10
  <2>2. CASE transfer.kind = "Trailer"
    <3>1. i + 1 \in 1 .. Len(response.chunks)
      BY <1>1, <1>4, <2>2 DEF AtChunk
    <3>2. transfer' = Plain("Size") /\ pos' = At(response, i + 1)
      BY <2>1, <2>2 DEF AfterNewline, LineTo
    <3>3. AtChunk(i + 1)' /\ transfer' \in Transfer
      BY <1>2, <3>2 DEF AtChunk, Plain, Transfer
    <3> QED BY <1>2, <1>3, <3>1, <3>3 DEF Place
  <2>3. CASE transfer.kind = "Extension" /\ transfer.size # 0
    <3>1. transfer' = Sized("Data", transfer.size) /\ pos' = Data(response, i)
      BY <2>1, <2>3 DEF AfterNewline, LineTo
    <3>2. HasSize(response, i) /\ transfer.size = response.chunks[i].size /\ Data(response, i) \in Nat
      BY <1>1, <1>3, <1>4, <2>3, ChunkPlace DEF AtChunk
    <3>3. transfer' \in Transfer /\ transfer'.kind = "Data" /\ transfer'.size = transfer.size
      BY <1>2, <3>1 DEF Sized, Transfer
    <3>4. transfer'.size > 0 /\ Data(response, i) <= pos' /\ pos' + transfer'.size = Stop(response, i)
      BY <1>2, <2>3, <3>1, <3>2, <3>3 DEF Stop, Data
    <3>5. AtChunk(i)'
      BY <1>2, <3>3, <3>4 DEF AtChunk
    <3> QED BY <1>2, <1>3, <3>3, <3>5 DEF Place
  <2>4. CASE transfer.kind = "Extension" /\ transfer.size = 0
    <3>1. transfer' = Plain("Trailers") /\ pos' = Data(response, i)
      BY <2>1, <2>4 DEF AfterNewline, LineTo
    <3>2. response.chunks[i].size = 0 /\ Data(response, i) \in Nat
      BY <1>1, <1>3, <1>4, <2>4, ChunkPlace DEF AtChunk
    <3>3. i = Len(response.chunks) /\ LastChunk(response).size = 0
      BY <1>1, <1>3, <3>2, ChunkFacts DEF LastChunk
    <3>4. BodyEnd(response) = Data(response, i)
      BY <1>1, <1>3, <3>2, <3>3, EndIsBehind
    <3>5. AllRead' /\ transfer' \in Transfer /\ transfer'.kind = "Trailers"
      BY <1>2, <3>1, <3>2, <3>4 DEF AllRead, Plain, Transfer
    <3> QED BY <1>2, <1>3, <3>3, <3>5 DEF Place
  <2> QED BY <1>2, <2>2, <2>3, <2>4 DEF Skipping
<1>11. Shape'
  <2>1. transfer' \in Transfer
    BY <1>9, <1>10
  <2>2. pos' <= hi /\ pos <= pos'
    BY <1>6, <1>7
  <2>3. hi <= pos' + Capacity
    BY <1>6, <1>7, <2>2, WithinCapacity
  <2> QED BY <1>2, <1>6, <1>7, <2>1, <2>2, <2>3 DEF IInv, Shape
<1>12. Ends'
  BY <1>2, <1>9, <1>10 DEF Ends
<1> QED BY <1>8, <1>9, <1>10, <1>11, <1>12 DEF IInv

LEMMA FillChunksStep == ASSUME IInv, FillChunks PROVE IInv'
<1>1. /\ mode = "Read" /\ ret = "None" /\ hi' \in FillTo(stream, pos, hi)
      /\ UNCHANGED << response, transfer, pos, mode, room, offset, ret, delivered, stream >>
  BY DEF FillChunks, NeedsFill, stream, IInv, Ends
<1>2. hi' \in Nat /\ hi < hi' /\ hi' <= Len(stream) /\ hi' <= pos + Capacity /\ pos \in Nat /\ hi \in Nat /\ pos <= hi
  BY <1>1, FillTyped DEF IInv, Shape
<1>3. Shape'
  BY <1>1, <1>2 DEF IInv, Shape
<1>4. Place' /\ Got'
  BY <1>1, <1>2, Stays DEF IInv
<1>5. Ends'
  BY <1>1 DEF Ends
<1> QED BY <1>3, <1>4, <1>5 DEF IInv

(* With its buffer full or the stream at its end, read_chunks waits for    *)
(* bytes that never come.                                                  *)
LEMMA NothingComes ==
  ASSUME IInv, NeedsFill, FillNone(stream, pos, hi, response.closes)
  PROVE  hi = Len(stream) /\ Len(stream) < BodyEnd(response) /\ Stuck
<1>1. /\ response \in Responses /\ ResponseFacts /\ stream = response.stream /\ Len(response.chunks) \in Nat
  BY ResponseTyped DEF IInv, Shape, ResponseFacts, ResponseType, stream
<1>2. /\ pos \in Nat /\ hi \in Nat /\ pos <= hi /\ Len(stream) \in Nat
      /\ Capacity \in Nat \ {0} /\ MaxHex \in Nat \ {0} /\ MaxHex <= Capacity
  BY <1>1, CapacityAssumption, MaxHexAssumption DEF IInv, Shape, ResponseFacts
<1>3. transfer.kind \in {"Size", "Extension", "Trailer"}
  BY DEF NeedsFill, Skipping
<1>4. /\ Chunked(response)
      /\ \E i \in 1 .. Len(response.chunks) : AtChunk(i)
  BY <1>3, ChunkOf DEF IInv
<1>5. PICK i \in 1 .. Len(response.chunks) : AtChunk(i)
  BY <1>4
<1>6. CASE transfer.kind = "Size" /\ ~SizeDecided
  <2>1. hi = Len(stream)
    <3>1. LookTo # pos + MaxHex
      BY <1>6 DEF SizeDecided
    <3>2. hi # pos + Capacity
      BY <1>2, <3>1 DEF LookTo, Smaller
    <3> QED BY <3>2 DEF FillNone
  <2>2. Stuck
    BY <1>6, <2>1 DEF Stuck
  <2>3. CASE ~HasSize(response, i)
    BY <1>4, <2>1, <2>2, <2>3, CutShort DEF IInv
  <2>4. CASE HasSize(response, i)
    <3>1. pos = At(response, i)
      BY <1>5, <1>6, <2>4 DEF AtChunk
    <3>2. hi < Data(response, i)
      BY <1>4, <1>6, <2>4, <3>1, SizeScan DEF IInv
    <3> QED BY <1>4, <2>1, <2>2, <2>4, <3>2, CutShort DEF IInv
  <2> QED BY <2>3, <2>4
<1>7. CASE Skipping /\ pos = hi
  <2>1. hi = Len(stream)
    BY <1>2, <1>7 DEF FillNone
  <2>2. Stuck
    BY <1>7, <2>1 DEF Stuck
  <2>3. pos < LineTo(i)
    BY <1>4, <1>5, <1>7, SkippedLine DEF IInv
  <2>4. \/ HasSize(response, i) /\ Len(stream) < Data(response, i)
        \/ i < Len(response.chunks) /\ Len(stream) < At(response, i + 1)
    BY <1>5, <1>7, <2>1, <2>3 DEF LineTo, AtChunk, Skipping
  <2> QED BY <1>4, <2>1, <2>2, <2>4, CutShort DEF IInv
<1> QED BY <1>6, <1>7 DEF NeedsFill

LEMMA FillChunksEofStep == ASSUME IInv, FillChunksEof PROVE IInv'
BY NothingComes, ReturnStep DEF FillChunksEof, Returns

(* The trailers lie behind the body.                                       *)
LEMMA BehindTheBody ==
  ASSUME Shape, Place, Got, transfer.kind = "Trailers", response' = response, delivered' = delivered,
         transfer'.kind \in {"Trailers", "Empty"}, pos' \in Nat, pos <= pos'
  PROVE  Place' /\ Got'
<1>1. response \in Responses /\ pos \in Nat
  BY DEF Shape
<1>2. ~Counted(response) /\ ~ToTheEnd(response) /\ ~response.bodyless /\ Chunked(response)
  BY DEF Place, ToTheEnd
<1>3. LastChunk(response).size = 0 /\ BodyEnd(response) <= pos
  BY <1>2 DEF Place, AtChunk, AllRead
<1>4. BodyEnd(response) \in Nat
  <2>1. 1 \in 1 .. Len(response.chunks)
    BY <1>1, <1>2, ResponsesAssumption DEF Layout, ResponseType
  <2> QED BY <1>1, <1>2, <2>1, EndIsBehind
<1>5. AllRead'
  BY <1>1, <1>3, <1>4 DEF AllRead
<1>6. Place'
  BY <1>2, <1>3, <1>5 DEF Place
<1>7. \A p \in Nat : pos < p /\ p <= pos' => p \notin BodyBytes(response)
  BY <1>1, <1>2, <1>3, <1>4, NoBodyBehind
<1>8. Got'
  BY <1>7, Skips
<1> QED BY <1>6, <1>8

LEMMA ReadTrailerStep == ASSUME IInv, ReadTrailer PROVE IInv'
<1>1. /\ mode' = "Scan" /\ offset' = 0 /\ ret' = "None" /\ transfer.kind = "Trailers"
      /\ UNCHANGED << response, transfer, pos, hi, room, delivered, stream >>
  BY DEF ReadTrailer, reader, stream
<1>2. Shape'
  BY <1>1 DEF IInv, Shape, Modes, Returns
<1>3. Place' /\ Got'
  BY <1>1, Stays DEF IInv, Shape
<1>4. Ends'
  BY <1>1 DEF Ends
<1> QED BY <1>2, <1>3, <1>4 DEF IInv

LEMMA ScanTrailerStep == ASSUME IInv, ScanTrailer PROVE IInv'
<1>1. /\ mode = "Scan" /\ transfer.kind = "Trailers"
      /\ UNCHANGED << response, hi, delivered, stream >>
  BY DEF ScanTrailer, IInv, Ends, stream
<1>2. /\ pos \in Nat /\ hi \in Nat /\ pos <= hi /\ hi <= Len(stream) /\ Len(stream) \in Nat
      /\ hi <= pos + Capacity /\ Capacity \in Nat /\ offset \in Nat
  BY ResponseTyped, CapacityAssumption DEF IInv, Shape, ResponseFacts
<1>3. /\ ret = "End" => BodyBytes(response) \subseteq delivered
      /\ ret = "PartialFile" => Len(stream) < BodyEnd(response)
      /\ ret \notin {"ChunkTooLarge", "PartialFile"}
  BY <1>1 DEF IInv, Ends, Dead, Stuck, Skipping
<1>4. CASE mode' = "Panicked" /\ UNCHANGED << transfer, pos, room, offset, ret >>
  <2>1. Shape'
    BY <1>1, <1>4 DEF IInv, Shape, Modes
  <2>2. Place' /\ Got'
    BY <1>1, <1>2, <1>4, Stays DEF IInv
  <2>3. Ends'
    BY <1>1, <1>3, <1>4 DEF Ends
  <2> QED BY <2>1, <2>2, <2>3 DEF IInv
<1>5. CASE /\ offset' = OffsetAfterMiss(pos, hi, offset) /\ mode' = "Fill"
           /\ UNCHANGED << transfer, pos, room, ret >>
  <2>1. offset' \in Nat
    BY <1>2, <1>5 DEF OffsetAfterMiss
  <2>2. Shape'
    BY <1>1, <1>5, <2>1 DEF IInv, Shape, Modes
  <2>3. Place' /\ Got'
    BY <1>1, <1>2, <1>5, Stays DEF IInv
  <2>4. Ends'
    BY <1>1, <1>3, <1>5 DEF Ends
  <2> QED BY <2>2, <2>3, <2>4 DEF IInv
<1>6. ASSUME Newlines(stream, pos + offset, hi) # {},
             TakeTrailer(Min(Newlines(stream, pos + offset, hi))), UNCHANGED offset
      PROVE  IInv'
  <2> DEFINE to == Min(Newlines(stream, pos + offset, hi))
  <2>1. Newlines(stream, pos + offset, hi) \subseteq Nat
    BY <1>2 DEF Newlines
  <2>2. to \in Newlines(stream, pos + offset, hi)
    BY <1>6, <2>1, MinOfNats
  <2>3. to \in Nat /\ pos < to /\ to <= hi
    BY <1>2, <2>2 DEF Newlines
  <2>4. TakeTrailer(to)
    BY <1>6
  <2> HIDE DEF to
  <2>5. /\ pos' \in Nat /\ pos <= pos' /\ pos' <= hi
        /\ transfer' \in Transfer /\ transfer'.kind \in {"Trailers", "Empty"}
        /\ mode' = "Idle" /\ room' = 0 /\ ret' \in {"TrailersEnd", "Trailer", "InvalidHeader"}
    <3>1. CASE pos' = to /\ transfer' = Plain("Empty") /\ Return("TrailersEnd")
      BY <1>2, <2>3, <3>1 DEF Return, Plain, Transfer
    <3>2. CASE UNCHANGED transfer /\ pos' = to /\ Return("Trailer")
      BY <1>1, <1>2, <2>3, <3>2 DEF Return, IInv, Shape
    <3>3. CASE UNCHANGED transfer /\ Return("InvalidHeader") /\ UNCHANGED pos
      BY <1>1, <1>2, <2>3, <3>3 DEF Return, IInv, Shape
    <3> QED BY <2>4, <3>1, <3>2, <3>3 DEF TakeTrailer
  <2>6. Shape'
    <3>1. hi <= pos' + Capacity
      BY <1>2, <2>5, WithinCapacity
    <3>2. ret' \in Returns
      BY <2>5 DEF Returns
    <3>3. room' \in 0 .. MaxRead /\ mode' \in Modes
      BY <2>5, BoundsAssumption DEF Modes
    <3>4. hi' = hi /\ response' = response /\ offset' = offset /\ stream' = stream
      BY <1>1, <1>6
    <3> QED BY <1>2, <2>5, <3>1, <3>2, <3>3, <3>4 DEF IInv, Shape
  <2>7. Place' /\ Got'
    BY <1>1, <2>5, BehindTheBody DEF IInv
  <2>8. Ends'
    BY <2>5 DEF Ends
  <2> QED BY <2>6, <2>7, <2>8 DEF IInv
<1> QED BY <1>4, <1>5, <1>6 DEF ScanTrailer

LEMMA FillTrailerStep == ASSUME IInv, FillTrailer PROVE IInv'
<1>1. mode = "Fill" /\ UNCHANGED << response, transfer, pos, offset, delivered, stream >>
  BY DEF FillTrailer, stream
<1>2. CASE hi' \in FillTo(stream, pos, hi) /\ mode' = "Scan" /\ UNCHANGED << room, ret >>
  <2>1. hi' \in Nat /\ hi < hi' /\ hi' <= Len(stream) /\ hi' <= pos + Capacity /\ pos \in Nat /\ hi \in Nat /\ pos <= hi
    BY <1>2, FillTyped DEF IInv, Shape
  <2>2. Shape'
    BY <1>1, <1>2, <2>1 DEF IInv, Shape, Modes
  <2>3. Place' /\ Got'
    BY <1>1, <2>1, Stays DEF IInv
  <2>4. Ends'
    <3>1. transfer.kind = "Trailers"
      BY <1>1 DEF IInv, Ends
    <3>2. ret \notin {"ChunkTooLarge", "PartialFile"}
      BY <3>1 DEF IInv, Ends, Dead, Stuck, Skipping
    <3> QED BY <1>1, <1>2, <3>1, <3>2 DEF IInv, Ends
  <2> QED BY <2>2, <2>3, <2>4 DEF IInv
<1>3. CASE Return(FillError(offset)) /\ UNCHANGED hi
  <2>1. FillError(offset) \in Returns /\ FillError(offset) \notin {"End", "PartialFile", "ChunkTooLarge"}
    BY DEF FillError, Returns
  <2> QED BY <1>1, <1>3, <2>1, ReturnStep DEF reader
<1> QED BY <1>2, <1>3 DEF FillTrailer

(* Every step preserves the invariant.                                     *)
LEMMA IInvNext == IInv /\ [Next]_vars => IInv'
<1> SUFFICES ASSUME IInv, [Next]_vars PROVE IInv'
  OBVIOUS
<1>1. CASE \E n \in 1 .. MaxRead : Read(n)
  BY <1>1, ReadStep
<1>2. CASE ReadTrailer
  BY <1>2, ReadTrailerStep
<1>3. CASE Interrupted
  BY <1>3, InterruptedStep
<1>4. CASE Step
  BY <1>4, ReadAtEndStep, ReadConnectionStep, ReadLengthStep, ReadDataStep, ReadChunkSizeStep,
     SkipLineStep, FillChunksStep, FillChunksEofStep, ScanTrailerStep, FillTrailerStep DEF Step
<1>5. CASE UNCHANGED vars
  <2>1. UNCHANGED << response, transfer, pos, hi, mode, room, offset, ret, delivered, stream >>
    BY <1>5 DEF vars, reader, stream
  <2>2. Shape'
    BY <2>1 DEF IInv, Shape
  <2>3. Place' /\ Got'
    BY <2>1, Stays DEF IInv, Shape
  <2>4. Ends'
    BY <2>1, StaysStuck DEF IInv, Ends, Dead
  <2> QED BY <2>2, <2>3, <2>4 DEF IInv
<1> QED BY <1>1, <1>2, <1>3, <1>4, <1>5 DEF Next

-----------------------------------------------------------------------------
(* The theorems.                                                           *)

LEMMA IInvAlways == Spec => []IInv
BY InitIInv, IInvNext, PTL DEF Spec

(* What read() has returned is the body, up to the position reached.       *)
(* (Body::read; the types hold.)                                           *)
THEOREM ReturnsTheBody == Spec => []DeliveredIsBody
<1>1. IInv => DeliveredIsBody
  <2> SUFFICES ASSUME IInv PROVE DeliveredIsBody
    OBVIOUS
  <2>1. /\ response \in Responses /\ Len(stream) \in Nat /\ Capacity \in Nat
        /\ pos \in Nat /\ hi \in Nat /\ pos <= hi /\ hi <= Len(stream) /\ hi <= pos + Capacity
    BY ResponseTyped, CapacityAssumption DEF IInv, Shape, ResponseFacts
  <2>2. delivered = {p \in BodyBytes(response) : p <= pos}
    BY DEF IInv, Got
  <2>3. delivered \subseteq 1 .. pos
    BY <2>1, <2>2, BodyBytesTyped
  <2>4. pos \in 0 .. hi /\ hi \in pos .. Smaller(Len(stream), pos + Capacity)
    BY <2>1 DEF Smaller
  <2>5. TypeOK
    BY <2>3, <2>4 DEF IInv, Shape, TypeOK
  <2> QED BY <2>2, <2>5 DEF DeliveredIsBody
<1> QED BY <1>1, IInvAlways, PTL

(* read() returns 0 only when the whole body was returned, PartialFile     *)
(* only when some of it never came.                                        *)
THEOREM TellsEndFromCut == Spec => []EndToldFromCut
<1>1. IInv => EndToldFromCut
  BY DEF IInv, Ends, EndToldFromCut
<1> QED BY <1>1, IInvAlways, PTL

LEMMA LeavesAtEnd ==
  ASSUME IInv, [Next]_vars,
         transfer.kind \notin {"Empty", "Trailers"}, transfer'.kind \in {"Empty", "Trailers"}
  PROVE  pos' = BodyEnd(response)
<1>1. /\ response \in Responses /\ ResponseFacts /\ stream = response.stream
      /\ Len(response.chunks) \in Nat /\ transfer \in Transfer /\ transfer.size \in Nat
      /\ pos \in Nat /\ hi \in Nat
  BY ResponseTyped, TransferSize DEF IInv, Shape, ResponseFacts, ResponseType, stream
<1>2. transfer' # transfer /\ transfer.kind # "Trailers"
  OBVIOUS
<1>3. CASE ReadConnection
  <2>1. AtEof /\ pos' = pos /\ transfer.kind = "Connection"
    BY <1>2, <1>3 DEF ReadConnection, reader
  <2>2. ToTheEnd(response)
    BY <2>1 DEF IInv, Place, AtChunk, ToTheEnd
  <2>3. BodyEnd(response) = Len(stream)
    BY <1>1, <2>2 DEF BodyEnd, ToTheEnd
  <2> QED BY <2>1, <2>3 DEF AtEof
<1>4. CASE ReadLength
  <2>1. transfer.kind = "Length"
    BY <1>4 DEF ReadLength, ReadCounted
  <2>2. PICK k \in 1 .. Smaller(room, transfer.size) : ReadBytes(k) /\ transfer' = Less("Length", k, "Empty")
    BY <1>2, <1>4 DEF ReadLength, ReadCounted
  <2>3. k \in Nat /\ k <= transfer.size
    BY <1>1, <2>2, BoundsAssumption DEF IInv, Shape, Smaller
  <2>4. k = transfer.size
    BY <1>1, <2>1, <2>2, <2>3, LessIs
  <2>5. Counted(response) /\ pos = response.length - transfer.size
    BY <2>1 DEF IInv, Place, AtChunk, ToTheEnd
  <2>6. BodyEnd(response) = response.length /\ response.length \in Int
    BY <1>1, <2>5 DEF BodyEnd, Counted, Chunked, ToTheEnd, ResponseFacts, ResponseType
  <2>7. pos' = pos + k
    BY <2>2 DEF ReadBytes
  <2> QED BY <1>1, <2>4, <2>5, <2>6, <2>7
<1>5. CASE SkipLine
  <2>1. /\ Skipping /\ Newlines(stream, pos, hi) # {}
        /\ pos' = Min(Newlines(stream, pos, hi)) /\ transfer' = AfterNewline
    BY <1>2, <1>5 DEF SkipLine
  <2>2. transfer.kind = "Extension" /\ transfer.size = 0
    BY <2>1 DEF AfterNewline, Skipping, Plain, Sized
  <2>3. /\ Chunked(response)
        /\ \E i \in 1 .. Len(response.chunks) : AtChunk(i)
    BY <2>2, ChunkOf DEF IInv
  <2>4. PICK i \in 1 .. Len(response.chunks) : AtChunk(i)
    BY <2>3
  <2>5. pos' = Data(response, i)
    BY <2>1, <2>2, <2>3, <2>4, SkippedLine DEF IInv, LineTo
  <2>6. response.chunks[i].size = 0
    BY <2>2, <2>4 DEF AtChunk
  <2>7. i = Len(response.chunks) /\ LastChunk(response).size = 0
    BY <1>1, <2>3, <2>6, ChunkFacts DEF LastChunk
  <2> QED BY <1>1, <2>3, <2>5, <2>6, <2>7, EndIsBehind
<1>6. CASE ReadData
  BY <1>1, <1>2, <1>6 DEF ReadData, ReadCounted, Less, Sized, Plain
<1>7. CASE ReadChunkSize
  BY <1>2, <1>7 DEF ReadChunkSize, Sized
<1>8. CASE ScanTrailer
  BY <1>2, <1>8 DEF ScanTrailer, IInv, Ends
<1> QED BY <1>2, <1>3, <1>4, <1>5, <1>6, <1>7, <1>8
     DEF Next, Step, Read, ReadTrailer, Interrupted, ReadAtEnd, FillChunks, FillChunksEof, FillTrailer, vars

(* The body is left exactly where it ends.                                 *)
THEOREM LeavesBodyAtItsEnd == Spec => BodyLeftAtItsEnd
<1>1. IInv /\ [Next]_vars
        => [transfer.kind \notin {"Empty", "Trailers"} /\ transfer'.kind \in {"Empty", "Trailers"}
             => pos' = BodyEnd(response)]_vars
  BY LeavesAtEnd
<1> QED BY <1>1, IInvAlways, PTL DEF Spec, BodyLeftAtItsEnd

(* Once reading is stuck no step returns a byte or the end.                *)
LEMMA DeadStays == IInv /\ Dead /\ [Next]_vars => Dead'
<1> SUFFICES ASSUME IInv, Dead, [Next]_vars PROVE Dead'
  OBVIOUS
<1>1. /\ response \in Responses /\ ResponseFacts /\ stream = response.stream
      /\ Len(stream) \in Nat /\ transfer \in Transfer /\ transfer.size \in Nat
      /\ pos \in Nat /\ hi \in Nat /\ pos <= hi /\ hi <= Len(stream) /\ room \in Nat
      /\ Capacity \in Nat
  BY ResponseTyped, TransferSize, CapacityAssumption, BoundsAssumption DEF IInv, Shape, ResponseFacts, stream
<1>2. /\ transfer.kind \in {"Size", "Extension", "Trailer", "Length", "Data"}
      /\ ret \notin {"Bytes", "End"} /\ Stuck
  BY DEF Dead, Stuck, Skipping
<1>3. ASSUME UNCHANGED << response, transfer, pos, hi >>, ret' \notin {"Bytes", "End"}
      PROVE  Dead'
  BY <1>2, <1>3, StaysStuck DEF Dead
<1>4. CASE \E n \in 1 .. MaxRead : Read(n)
  BY <1>3, <1>4 DEF Read, reader
<1>5. CASE Interrupted
  BY <1>3, <1>5 DEF Interrupted, Return, reader
<1>6. CASE ReadLength \/ ReadData
  <2>1. transfer.kind \in {"Length", "Data"} /\ transfer.size > 0 /\ pos = Len(stream)
    BY <1>2, <1>6 DEF Stuck, Skipping, ReadLength, ReadData, ReadCounted
  <2>2. ~(\E k \in 1 .. Smaller(room, transfer.size) : ReadBytes(k))
    <3> SUFFICES ASSUME NEW k \in 1 .. Smaller(room, transfer.size), ReadBytes(k) PROVE FALSE
      OBVIOUS
    <3>1. k \in Int /\ k >= 1
      BY <1>1 DEF Smaller
    <3>2. k <= 0
      BY <1>1, <2>1 DEF ReadBytes
    <3> QED BY <3>1, <3>2
  <2>3. UNCHANGED << response, transfer, pos, hi >> /\ ret' = "PartialFile"
    BY <1>6, <2>1, <2>2 DEF ReadLength, ReadData, ReadCounted, Return, EofResult, reader
  <2> QED BY <1>3, <2>3
<1>7. CASE ReadChunkSize
  <2>1. /\ mode = "Read" /\ transfer.kind = "Size" /\ SizeDecided
        /\ UNCHANGED << response, hi, offset, delivered >>
    BY <1>7 DEF ReadChunkSize
  <2>2. Chunked(response)
    BY <1>2, <2>1 DEF Stuck, Skipping
  <2>3. PICK i \in 1 .. Len(response.chunks) : ~HasSize(response, i) /\ AtChunk(i)
    BY <1>2, <2>1 DEF Stuck, Skipping
  <2>4. \/ pos = At(response, i)
        \/ pos < hi /\ ~IsHexDigit(stream[pos + 1])
    BY <2>1, <2>3 DEF AtChunk
  <2>5. ~SizeValid
    BY <2>2, <2>3, <2>4, SizeScan, SizeScanAgain DEF IInv
  <2>6. ret' = "ChunkTooLarge" /\ IInv'
    BY <1>7, <2>5, ReadChunkSizeStep DEF ReadChunkSize, Return
  <2> QED BY <2>6 DEF IInv, Ends
<1>8. CASE SkipLine
  <2>1. Skipping /\ pos < hi
    BY <1>8 DEF SkipLine
  <2>2. pos = Len(stream)
    BY <1>2, <2>1 DEF Stuck, Skipping
  <2> QED BY <1>1, <2>1, <2>2
<1>9. CASE FillChunks
  <2>1. /\ NeedsFill /\ hi' \in FillTo(stream, pos, hi)
        /\ UNCHANGED << response, transfer, pos, delivered, ret >>
    BY <1>9 DEF FillChunks
  <2>2. hi' \in Nat /\ hi < hi' /\ hi' <= Len(stream)
    BY <2>1, FillTyped DEF IInv
  <2>3. hi # Len(stream) /\ ~(Skipping /\ pos = Len(stream))
    BY <1>1, <2>2 DEF NeedsFill
  <2>4. Chunked(response) /\ transfer.kind = "Size"
    BY <1>2, <2>1, <2>3 DEF Stuck, NeedsFill, Skipping
  <2>5. PICK i \in 1 .. Len(response.chunks) : ~HasSize(response, i) /\ AtChunk(i)
    BY <1>2, <2>1, <2>3, <2>4 DEF Stuck, Skipping
  <2>6. AtChunk(i)'
    BY <1>1, <2>1, <2>2, <2>5, Stays DEF IInv
  <2>7. Stuck'
    BY <2>1, <2>4, <2>5, <2>6 DEF Stuck
  <2> QED BY <1>2, <2>1, <2>7 DEF Dead
<1>10. CASE FillChunksEof
  BY <1>3, <1>10 DEF FillChunksEof, Return, reader
<1>11. CASE ReadTrailer \/ ReadAtEnd \/ ReadConnection
  BY <1>2, <1>11 DEF ReadTrailer, ReadAtEnd, ReadConnection
<1>12. CASE ScanTrailer \/ FillTrailer
  BY <1>2, <1>12 DEF ScanTrailer, FillTrailer, IInv, Ends
<1>13. CASE UNCHANGED vars
  BY <1>2, <1>3, <1>13 DEF vars, reader
<1> QED BY <1>4, <1>5, <1>6, <1>7, <1>8, <1>9, <1>10, <1>11, <1>12, <1>13 DEF Next, Step

(* After a size that cannot be read, or an early end, no later call        *)
(* returns another byte or the end of the body.                            *)
THEOREM FailureLasts == Spec => FailureIsFinal
<1>1. IInv => (ret \in {"ChunkTooLarge", "PartialFile"} => Dead)
  BY DEF IInv, Ends
<1>2. Dead => ret \notin {"Bytes", "End"}
  BY DEF Dead
<1> QED BY <1>1, <1>2, DeadStays, IInvAlways, PTL DEF Spec, FailureIsFinal
=============================================================================
