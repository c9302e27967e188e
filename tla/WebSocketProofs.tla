-------------------------- MODULE WebSocketProofs --------------------------
(***************************************************************************)
(* The invariant of WebSocketInvariant is inductive, for every set of      *)
(* frames, every bound and every choice of what the applications may do,   *)
(* and the safety properties of WebSocket follow from it.                  *)
(*                                                                         *)
(* First come facts about the units of a direction that hold whatever the  *)
(* endpoints do: the types of what send_frame writes and what the reader   *)
(* makes of a Close frame, and how the conditions of WebSocketInvariant on *)
(* a sequence of units fare when a unit is put at its end or taken from    *)
(* its head.  Then one lemma for each action: an action of endpoint e      *)
(* changes e's own state and the two ends of the two directions it is part *)
(* of, and what it leaves alone keeps its part of the invariant by         *)
(* EndpointSame and DirectionSame.  Then what one endpoint promises its    *)
(* application whatever its peer does.                                     *)
(*                                                                         *)
(* Last, the two endpoints implement FrameChannel.  ChannelInv says which  *)
(* frames the units of a direction are of, and that what the reader has    *)
(* returned and put together is what the frames it has taken make; what    *)
(* frames make is a recursive function, so the section begins with what    *)
(* little of induction it needs.                                           *)
(***************************************************************************)
EXTENDS ChannelInvariant, SequenceTheorems, WellFoundedInduction, TLAPS

-----------------------------------------------------------------------------
(* The operators of WsFrame have the types their comments give.            *)

(* A u16 is two bytes, and two bytes are a u16.                            *)
LEMMA CodeBytes ==
  ASSUME NEW n \in Code
  PROVE  n \div 256 \in Byte /\ n % 256 \in Byte
<1>0. MaxCode \in Nat /\ MaxCode < 65536
  BY SMT DEF MaxCode
<1>1. n \in Nat /\ n < 65536
  BY <1>0, SMT DEF Code
<1>2. n \div 256 \in Nat /\ n \div 256 < 256
  BY <1>1, SMT
<1>3. n % 256 \in Nat /\ n % 256 < 256
  BY <1>1, SMT
<1>4. \A m \in Nat : m < 256 => m \in Byte
  BY SMT DEF Byte
<1> QED BY <1>2, <1>3, <1>4

LEMMA BytesCode ==
  ASSUME NEW a \in Byte, NEW b \in Byte
  PROVE  a * 256 + b \in Code
<1>1. /\ a \in Nat /\ a <= 255
      /\ b \in Nat /\ b <= 255
  BY SMT DEF Byte
<1>2. a * 256 + b \in Nat /\ a * 256 + b <= MaxCode
  BY <1>1, SMT DEF MaxCode
<1> QED BY <1>2, SMT DEF Code

(* The bytes send_frame writes after a header are bytes.                   *)
LEMMA WireBytesType ==
  ASSUME NEW f \in BorrowedFrame
  PROVE  WireBytes(f) \in Seq(Byte)
<1>1. f.payload \in Seq(Byte) /\ f.close_code \in Code
  BY DEF BorrowedFrame
<1>2. to_be_bytes(f.close_code) \in Seq(Byte)
  <2>1. f.close_code \div 256 \in Byte /\ f.close_code % 256 \in Byte
    BY <1>1, CodeBytes
  <2> QED BY <2>1, SMT DEF to_be_bytes
<1>3. to_be_bytes(f.close_code) \o f.payload \in Seq(Byte)
  BY <1>1, <1>2, ConcatProperties, SMT
<1> QED BY <1>1, <1>2, <1>3 DEF WireBytes

(* send_frame writes one unit or two, a header and its bytes.              *)
LEMMA EncodeType ==
  ASSUME NEW f \in BorrowedFrame, NEW op \in Op, NEW m \in BOOLEAN
  PROVE  /\ Encode(f, op, m) \in Seq(Unit)
         /\ Encode(f, op, m) # << >>
<1> DEFINE h == Header(op, f.fin, m, Len(f.payload))
           d == Data(WireBytes(f))
<1>1. h \in Unit
  BY LenProperties DEF Header, HeaderUnit, Unit, BorrowedFrame
<1>2. d \in Unit
  BY WireBytesType DEF Data, DataUnit, Unit
<1>3. << h >> \in Seq(Unit) /\ << h, d >> \in Seq(Unit) /\ << h >> # << >> /\ << h, d >> # << >>
  BY <1>1, <1>2
<1> HIDE DEF h, d
<1>4. Encode(f, op, m) = IF WireBytes(f) = << >> THEN << h >> ELSE << h, d >>
  BY DEF Encode, h, d
<1> QED BY <1>3, <1>4

(* A Close frame decodes to a frame.                                       *)
LEMMA DecodeCloseType ==
  ASSUME NEW bytes \in Seq(Byte)
  PROVE  DecodeClose(bytes) \in Frame
<1>1. CASE Len(bytes) >= 2
  <2>1. bytes[1] \in Byte /\ bytes[2] \in Byte
    BY <1>1, ElementOfSeq, LenProperties, SMT
  <2>2. from_be_bytes(bytes) \in Code
    BY <2>1, BytesCode DEF from_be_bytes
  <2>3. SubSeq(bytes, 3, Len(bytes)) \in Seq(Byte)
    BY LenProperties, SubSeqProperties, SMT
  <2> QED BY <1>1, <2>2, <2>3, SMT DEF DecodeClose, Frame, Op, ControlOps
<1>2. CASE ~(Len(bytes) >= 2)
  BY <1>2, SMT DEF DecodeClose, Frame, Op, ControlOps, NoStatusCode, Code, MaxCode
<1> QED BY <1>1, <1>2

-----------------------------------------------------------------------------
(* A sequence of units, its head and the rest.                             *)
LEMMA HeadAndTail ==
  ASSUME NEW s \in Seq(Unit), s # << >>
  PROVE  /\ Len(s) \in Nat \ {0} /\ Head(s) = s[1] /\ s[1] \in Unit
         /\ Tail(s) \in Seq(Unit) /\ Len(Tail(s)) \in Nat /\ Len(Tail(s)) = Len(s) - 1
         /\ \A i \in 1 .. Len(Tail(s)) : Tail(s)[i] = s[i + 1]
         /\ Tail(s) = << >> <=> Len(s) = 1
         /\ Tail(s) # << >> <=> Len(Tail(s)) > 0
<1>1. /\ Len(s) \in Nat \ {0} /\ Head(s) = s[1] /\ s[1] \in Unit
      /\ Tail(s) \in Seq(Unit) /\ Len(Tail(s)) \in Nat /\ Len(Tail(s)) = Len(s) - 1
      /\ \A i \in 1 .. Len(Tail(s)) : Tail(s)[i] = s[i + 1]
  BY HeadTailProperties, LenProperties, EmptySeq, SMT
<1>2. Tail(s) # << >> => Len(Tail(s)) \in Nat \ {0}
  BY <1>1, EmptySeq
<1>3. Tail(s) = << >> => Len(Tail(s)) = 0
  BY EmptySeq
<1> QED BY <1>1, <1>2, <1>3, SMT

-----------------------------------------------------------------------------
(* What the reader expects further down the wire.                          *)

(* Before the first unit it expects what it expects now.                   *)
LEMMA ExpectsFirst ==
  ASSUME NEW s, NEW x \in BOOLEAN
  PROVE  Expects(s, 1, x) <=> x
BY SMT DEF Expects

(* A data header decides what is expected after it; no other unit does.    *)
LEMMA ExpectsNext ==
  ASSUME NEW s, NEW k \in Nat \ {0}, NEW x \in BOOLEAN
  PROVE  Expects(s, k + 1, x) <=>
           IF DataHeader(s[k]) THEN ~s[k].fin ELSE Expects(s, k, x)
<1>1. CASE DataHeader(s[k])
  BY <1>1, SMT DEF Expects
<1>2. CASE ~DataHeader(s[k])
  BY <1>2, SMT DEF Expects
<1> QED BY <1>1, <1>2

(* It depends on the units before only.                                    *)
LEMMA ExpectsSame ==
  ASSUME NEW s, NEW t, NEW k \in Nat \ {0}, NEW x \in BOOLEAN,
         \A i \in 1 .. k - 1 : s[i] = t[i]
  PROVE  Expects(s, k, x) <=> Expects(t, k, x)
BY SMT DEF Expects, DataHeader

(* When the head is taken, what it decides becomes what the reader expects.*)
LEMMA ExpectsTail ==
  ASSUME NEW s \in Seq(Unit), s # << >>, NEW k \in 1 .. Len(s), NEW x \in BOOLEAN
  PROVE  Expects(Tail(s), k, IF DataHeader(s[1]) THEN ~s[1].fin ELSE x)
           <=> Expects(s, k + 1, x)
<1> DEFINE y == IF DataHeader(s[1]) THEN ~s[1].fin ELSE x
           t == Tail(s)
<1>1. /\ k \in Nat \ {0}
      /\ \A i \in 1 .. k - 1 : t[i] = s[i + 1]
      /\ \A i \in 2 .. k : t[i - 1] = s[i]
  BY HeadTailProperties, LenProperties, SMT
<1>2. y <=> IF DataHeader(s[1]) THEN ~s[1].fin ELSE x
  OBVIOUS
<1> HIDE DEF t, y
<1>3. ASSUME Expects(t, k, y) PROVE Expects(s, k + 1, x)
  <2>1. CASE y /\ \A i \in 1 .. k - 1 : ~DataHeader(t[i])
    <3>1. \A i \in 2 .. k : ~DataHeader(s[i])
      BY <1>1, <2>1, SMT
    <3> QED BY <1>1, <1>2, <2>1, <3>1, SMT DEF Expects
  <2>2. CASE ~(y /\ \A i \in 1 .. k - 1 : ~DataHeader(t[i]))
    <3>1. PICK i \in 1 .. k - 1 : /\ DataHeader(t[i]) /\ ~t[i].fin
                                 /\ \A j \in i + 1 .. k - 1 : ~DataHeader(t[j])
      BY <1>3, <2>2 DEF Expects
    <3>2. /\ i + 1 \in 1 .. k
          /\ DataHeader(s[i + 1]) /\ ~s[i + 1].fin
      BY <1>1, <3>1, SMT
    <3>3. \A j \in (i + 1) + 1 .. k : ~DataHeader(s[j])
      BY <1>1, <3>1, SMT
    <3> QED BY <1>1, <3>2, <3>3, SMT DEF Expects
  <2> QED BY <2>1, <2>2
<1>4. ASSUME Expects(s, k + 1, x) PROVE Expects(t, k, y)
  <2>1. CASE x /\ \A i \in 1 .. k : ~DataHeader(s[i])
    BY <1>1, <1>2, <2>1, SMT DEF Expects
  <2>2. CASE ~(x /\ \A i \in 1 .. k : ~DataHeader(s[i]))
    <3>1. PICK i \in 1 .. k : /\ DataHeader(s[i]) /\ ~s[i].fin
                             /\ \A j \in i + 1 .. k : ~DataHeader(s[j])
      BY <1>1, <1>4, <2>2, SMT DEF Expects
    <3>2. CASE i = 1
      <4>1. y
        BY <1>2, <3>1, <3>2
      <4>2. \A j \in 1 .. k - 1 : ~DataHeader(t[j])
        BY <1>1, <3>1, <3>2, SMT
      <4> QED BY <4>1, <4>2 DEF Expects
    <3>3. CASE i # 1
      <4>1. /\ i - 1 \in 1 .. k - 1
            /\ DataHeader(t[i - 1]) /\ ~t[i - 1].fin
        BY <1>1, <3>1, <3>3, SMT
      <4>2. \A j \in (i - 1) + 1 .. k - 1 : ~DataHeader(t[j])
        BY <1>1, <3>1, <3>3, SMT
      <4> QED BY <4>1, <4>2 DEF Expects
    <3> QED BY <3>2, <3>3
  <2> QED BY <2>1, <2>2
<1> QED BY <1>3, <1>4 DEF t, y

-----------------------------------------------------------------------------
(* The writer puts the next unit of its frame on the wire.                 *)

(* The wire stays in order.                                                *)
LEMMA WirePut ==
  ASSUME NEW e, NEW s \in Seq(Unit), NEW o \in Seq(Unit), o # << >>,
         NEW open \in BOOLEAN, NEW pay \in BOOLEAN, NEW h, NEW x \in BOOLEAN,
         WireOK(e, s, pay, h, x), OutOK(e, o), WritingOK(s, o, open, pay, h, x)
  PROVE  WireOK(e, Append(s, Head(o)), pay, h, x)
<1> DEFINE t == Append(s, Head(o))
           n == Len(s)
<1>1. /\ n \in Nat /\ Head(o) = o[1] /\ o[1] \in Unit
      /\ Len(t) = n + 1 /\ t # << >> /\ t[n + 1] = o[1]
      /\ \A i \in 1 .. n : t[i] = s[i]
      /\ s = << >> <=> n = 0
  BY HeadTailProperties, AppendProperties, LenProperties, EmptySeq, SMT
<1> HIDE DEF t, n
<1>2. Awaited(t[1], pay, h)
  <2>1. CASE s = << >>
    BY <1>1, <2>1, SMT DEF WritingOK, Continues
  <2>2. CASE s # << >>
    BY <1>1, <2>2, SMT DEF WireOK
  <2> QED BY <2>1, <2>2
<1>3. ASSUME NEW i \in 1 .. Len(t) - 1 PROVE Follows(t[i], t[i + 1])
  <2>1. CASE i = n
    <3>1. s # << >> /\ t[i] = s[Len(s)] /\ t[i + 1] = o[1]
      BY <1>1, <2>1, SMT DEF n
    <3> QED BY <3>1 DEF WritingOK, Continues
  <2>2. CASE i # n
    <3>1. i \in 1 .. Len(s) - 1 /\ t[i] = s[i] /\ t[i + 1] = s[i + 1]
      BY <1>1, <2>2, SMT DEF n
    <3> QED BY <3>1 DEF WireOK
  <2> QED BY <2>1, <2>2
<1>4. ASSUME NEW i \in 1 .. Len(t)
      PROVE  /\ t[i].kind = "header" => GoodHeader(e, t[i])
             /\ DataHeader(t[i]) => (t[i].op = "Continuation" <=> Expects(t, i, x))
  <2>1. i \in Nat \ {0} /\ \A j \in 1 .. i - 1 : t[j] = s[j]
    BY <1>1, SMT
  <2>2. Expects(t, i, x) <=> Expects(s, i, x)
    BY ONLY <2>1, x \in BOOLEAN, ExpectsSame, SMT
  <2>3. CASE i = n + 1
    BY <1>1, <2>2, <2>3, SMT DEF WritingOK, OutOK, n
  <2>4. CASE i # n + 1
    <3>1. i \in 1 .. Len(s) /\ t[i] = s[i]
      BY <1>1, <2>4, SMT DEF n
    <3> QED BY <2>2, <3>1 DEF WireOK
  <2> QED BY <2>3, <2>4
<1>5. WireOK(e, t, pay, h, x)
  BY <1>2, <1>3, <1>4 DEF WireOK
<1> QED BY <1>5 DEF t

(* What is left of a frame is the rest of a frame.                         *)
LEMMA OutPut ==
  ASSUME NEW e, NEW o \in Seq(Unit), o # << >>, OutOK(e, o)
  PROVE  /\ OutOK(e, Tail(o))
         /\ Len(o) = 1 \/ Len(o) = 2
         /\ Len(o) = 1 <=> Tail(o) = << >>
<1>1. Len(o) = 1 \/ Len(o) = 2
  BY DEF OutOK
<1>2. Len(o) = 1 <=> Tail(o) = << >>
  BY HeadAndTail
<1>3. CASE Tail(o) = << >>
  BY <1>1, <1>2, <1>3 DEF OutOK
<1>4. CASE Tail(o) # << >>
  <2>1. Len(o) = 2 /\ Tail(o)[1] = o[2] /\ Len(Tail(o)) = 1
    BY <1>1, <1>2, <1>4, HeadAndTail, SMT
  <2>2. OutOK(e, Tail(o))
    BY <2>1, SMT DEF OutOK, Holds, Announces
  <2> QED BY <1>1, <1>2, <2>2
<1> QED BY <1>3, <1>4

(* What is left of the frame goes on where the wire now ends.              *)
LEMMA WritingPut ==
  ASSUME NEW e, NEW s \in Seq(Unit), NEW o \in Seq(Unit), o # << >>,
         NEW open \in BOOLEAN, NEW pay \in BOOLEAN, NEW h, NEW x \in BOOLEAN,
         OutOK(e, o), WritingOK(s, o, open, pay, h, x)
  PROVE  /\ WritingOK(Append(s, Head(o)), Tail(o), open, pay, h, x)
         /\ Len(o) = 1 => RestingOK(Append(s, Head(o)), open, pay, x)
<1> DEFINE t == Append(s, Head(o))
           n == Len(s)
           r == Tail(o)
<1>1. /\ n \in Nat /\ Head(o) = o[1]
      /\ Len(t) = n + 1 /\ t # << >> /\ t[n + 1] = o[1]
      /\ \A i \in 1 .. n : t[i] = s[i]
  BY HeadTailProperties, AppendProperties, LenProperties, SMT
<1>2. /\ Len(o) = 1 => r = << >>
      /\ Len(o) = 2 => r # << >> /\ Len(r) = 1 /\ r[1] = o[2]
  BY HeadAndTail, SMT
<1> HIDE DEF t, n, r
<1>3. Expects(t, n + 2, x) <=>
        IF DataHeader(o[1]) THEN ~o[1].fin ELSE Expects(s, n + 1, x)
  <2>1. Expects(t, n + 1, x) <=> Expects(s, n + 1, x)
    BY <1>1, ExpectsSame, SMT
  <2>2. Expects(t, (n + 1) + 1, x) <=>
          IF DataHeader(t[n + 1]) THEN ~t[n + 1].fin ELSE Expects(t, n + 1, x)
    BY <1>1, ExpectsNext, SMT
  <2>3. n + 2 = (n + 1) + 1
    BY <1>1, SMT
  <2> QED BY <1>1, <2>1, <2>2, <2>3
<1>4. open <=> Expects(t, n + 2, x)
  BY <1>3 DEF WritingOK, n
<1>5. Len(t) + 1 = n + 2 /\ t[Len(t)] = o[1]
  BY <1>1, SMT
<1>6. CASE Len(o) = 1
  <2>1. ~Announces(o[1])
    BY <1>6, SMT DEF OutOK
  <2> QED BY <1>1, <1>2, <1>4, <1>5, <1>6, <2>1
          DEF WritingOK, RestingOK, WholeFrames, t, r
<1>7. CASE Len(o) = 2
  <2>1. Announces(o[1]) /\ Holds(r[1], o[1]) /\ r[1].kind = "data"
    BY <1>2, <1>7, SMT DEF OutOK, Holds
  <2>2. ~DataHeader(r[1])
    BY <2>1 DEF DataHeader
  <2>3. Continues(t, r[1], pay, h)
    BY <1>1, <1>5, <2>1 DEF Continues, Follows
  <2>4. WritingOK(t, r, open, pay, h, x)
    BY <1>4, <1>5, <2>2, <2>3 DEF WritingOK
  <2> QED BY <1>7, <2>4, SMT DEF t, r
<1>8. Len(o) = 1 \/ Len(o) = 2
  BY DEF OutOK
<1> QED BY <1>6, <1>7, <1>8

-----------------------------------------------------------------------------
(* The reader takes the unit at the head of the wire.                      *)

\* what it waits for after u: pay2 and h2, and whether it expects a continuation
Leaves(u, pay2, h2) == IF pay2 THEN h2 = u /\ Announces(u) ELSE ~Announces(u)

ExpectedAfter(u, x) == IF DataHeader(u) THEN ~u.fin ELSE x

(* The units behind it are in order for the reader, which waits for the    *)
(* payload if the unit announces one, and for a header if not.             *)
LEMMA WireTake ==
  ASSUME NEW e, NEW s \in Seq(Unit), s # << >>,
         NEW pay, NEW h, NEW x \in BOOLEAN, NEW pay2, NEW h2,
         WireOK(e, s, pay, h, x), Leaves(s[1], pay2, h2)
  PROVE  WireOK(e, Tail(s), pay2, h2, ExpectedAfter(s[1], x))
<1> DEFINE t == Tail(s)
           y == ExpectedAfter(s[1], x)
<1>1. /\ Len(s) \in Nat \ {0} /\ Len(t) = Len(s) - 1 /\ Len(t) \in Nat
      /\ \A i \in 1 .. Len(t) : t[i] = s[i + 1]
      /\ t # << >> <=> Len(t) > 0
  BY HeadAndTail, SMT
<1>2. ASSUME NEW i \in 1 .. Len(t) PROVE Expects(t, i, y) <=> Expects(s, i + 1, x)
  BY <1>1, ExpectsTail, SMT DEF ExpectedAfter
<1> HIDE DEF t, y
<1>3. ASSUME t # << >> PROVE Awaited(t[1], pay2, h2)
  <2>1. Follows(s[1], t[1])
    <3>1. 1 \in 1 .. Len(s) - 1 /\ t[1] = s[1 + 1]
      BY <1>1, <1>3, SMT
    <3> QED BY <3>1 DEF WireOK
  <2> QED BY <2>1 DEF Follows, Awaited, Leaves
<1>4. ASSUME NEW i \in 1 .. Len(t) - 1 PROVE Follows(t[i], t[i + 1])
  <2>1. /\ i + 1 \in 1 .. Len(s) - 1
        /\ t[i] = s[i + 1] /\ t[i + 1] = s[(i + 1) + 1]
    BY <1>1, SMT
  <2> QED BY <2>1 DEF WireOK
<1>5. ASSUME NEW i \in 1 .. Len(t)
      PROVE  /\ t[i].kind = "header" => GoodHeader(e, t[i])
             /\ DataHeader(t[i]) => (t[i].op = "Continuation" <=> Expects(t, i, y))
  <2>1. i + 1 \in 1 .. Len(s) /\ t[i] = s[i + 1]
    BY <1>1, SMT
  <2> QED BY <1>2, <2>1 DEF WireOK
<1>6. WireOK(e, t, pay2, h2, y)
  BY <1>3, <1>4, <1>5 DEF WireOK
<1> QED BY <1>6 DEF t, y

(* What the writer has to write still goes on where the wire ends.         *)
LEMMA WritingTake ==
  ASSUME NEW s \in Seq(Unit), s # << >>, NEW o, NEW open,
         NEW pay, NEW h, NEW x \in BOOLEAN, NEW pay2, NEW h2,
         Leaves(s[1], pay2, h2), WritingOK(s, o, open, pay, h, x)
  PROVE  WritingOK(Tail(s), o, open, pay2, h2, ExpectedAfter(s[1], x))
<1> DEFINE t == Tail(s)
           y == ExpectedAfter(s[1], x)
<1>1. /\ Len(s) \in Nat \ {0} /\ Len(t) = Len(s) - 1 /\ Len(t) \in Nat
      /\ \A i \in 1 .. Len(t) : t[i] = s[i + 1]
      /\ t = << >> <=> Len(t) = 0
  BY HeadAndTail, SMT
<1>2. Expects(t, Len(t) + 1, y) <=> Expects(s, Len(s) + 1, x)
  BY <1>1, ExpectsTail, SMT DEF ExpectedAfter
<1>3. t = << >> => s[Len(s)] = s[1]
  BY <1>1, SMT
<1>4. t # << >> => s[Len(s)] = t[Len(t)]
  BY <1>1, SMT
<1> HIDE DEF t, y
<1>5. ASSUME o # << >> PROVE Continues(t, o[1], pay2, h2)
  <2>1. Follows(s[Len(s)], o[1])
    BY <1>5 DEF WritingOK, Continues
  <2>2. CASE t = << >>
    BY <1>3, <2>1, <2>2 DEF Continues, Follows, Awaited, Leaves
  <2>3. CASE t # << >>
    BY <1>4, <2>1, <2>3 DEF Continues
  <2> QED BY <2>2, <2>3
<1>6. WritingOK(t, o, open, pay2, h2, y)
  BY <1>2, <1>5 DEF WritingOK
<1> QED BY <1>6 DEF t, y

(* A wire that ended with a whole frame still does.                        *)
LEMMA RestingTake ==
  ASSUME NEW s \in Seq(Unit), s # << >>, NEW open,
         NEW pay, NEW h2, NEW x \in BOOLEAN, NEW pay2,
         Leaves(s[1], pay2, h2), RestingOK(s, open, pay, x)
  PROVE  RestingOK(Tail(s), open, pay2, ExpectedAfter(s[1], x))
<1> DEFINE t == Tail(s)
           y == ExpectedAfter(s[1], x)
<1>1. /\ Len(s) \in Nat \ {0} /\ Len(t) = Len(s) - 1 /\ Len(t) \in Nat
      /\ \A i \in 1 .. Len(t) : t[i] = s[i + 1]
      /\ t = << >> <=> Len(t) = 0
  BY HeadAndTail, SMT
<1>2. Expects(t, Len(t) + 1, y) <=> Expects(s, Len(s) + 1, x)
  BY <1>1, ExpectsTail, SMT DEF ExpectedAfter
<1>3. t = << >> => s[Len(s)] = s[1]
  BY <1>1, SMT
<1>4. t # << >> => s[Len(s)] = t[Len(t)]
  BY <1>1, SMT
<1> HIDE DEF t, y
<1>5. ~Announces(s[Len(s)])
  BY DEF RestingOK, WholeFrames
<1>6. WholeFrames(t, pay2)
  BY <1>3, <1>4, <1>5 DEF WholeFrames, Leaves
<1> QED BY <1>2, <1>6 DEF RestingOK, t, y

-----------------------------------------------------------------------------
(* What send_frame encodes is a whole frame, with a header the reader      *)
(* accepts.                                                                *)
LEMMA EncodeOut ==
  ASSUME NEW e, NEW f \in BorrowedFrame, ControlFits(f), NEW op \in Op,
         op = f.op \/ (op = "Continuation" /\ ~is_control(f.op)),
         NEW m \in BOOLEAN, m <=> (e = "client"), NEW o, o = Encode(f, op, m)
  PROVE  /\ OutOK(e, o) /\ o # << >>
         /\ o[1].kind = "header" /\ o[1].op = op /\ o[1].fin = f.fin
         /\ DataHeader(o[1]) <=> ~is_control(f.op)
<1> DEFINE g == Header(op, f.fin, m, Len(f.payload))
           d == Data(WireBytes(f))
<1>1. /\ f.op \in DataOps \cup ControlOps /\ f.payload \in Seq(Byte) /\ f.fin \in BOOLEAN
      /\ is_control(f.op) => f.fin
      /\ Len(f.payload) \in Nat /\ (f.payload = << >> <=> Len(f.payload) = 0)
  BY LenProperties, EmptySeq, SMT DEF BorrowedFrame
<1>2. /\ g.kind = "header" /\ g.op = op /\ g.fin = f.fin /\ g.len = Len(f.payload)
      /\ g.masked = m
      /\ d.kind = "data" /\ d.bytes = WireBytes(f)
  BY DEF Header, Data
<1>3. is_control(op) <=> is_control(f.op)
  BY <1>1, SMT DEF is_control, DataOps, ControlOps
<1>4. op # "Invalid" /\ (op = "Close" <=> f.op = "Close")
  BY <1>1, SMT DEF is_control, DataOps, ControlOps
<1>5. f.op = "Close" => Len(WireBytes(f)) = Len(f.payload) + 2 /\ WireBytes(f) # << >>
  <2> SUFFICES ASSUME f.op = "Close"
               PROVE  Len(WireBytes(f)) = Len(f.payload) + 2 /\ WireBytes(f) # << >>
    OBVIOUS
  <2> DEFINE c == to_be_bytes(f.close_code)
  <2>1. c \in Seq(Byte) /\ Len(c) = 2
    <3>1. f.close_code \in Code
      BY DEF BorrowedFrame
    <3>2. f.close_code \div 256 \in Byte /\ f.close_code % 256 \in Byte
      BY <3>1, CodeBytes
    <3> QED BY <3>2, SMT DEF to_be_bytes
  <2>2. WireBytes(f) = c \o f.payload
    BY DEF WireBytes
  <2> HIDE DEF c
  <2>3. Len(c \o f.payload) = Len(f.payload) + 2
    <3>1. Len(c \o f.payload) = Len(c) + Len(f.payload)
      BY <1>1, <2>1, ConcatProperties
    <3> QED BY <1>1, <2>1, <3>1, SMT
  <2>4. Len(c \o f.payload) # Len(<< >>)
    BY <1>1, <2>3, EmptySeq, SMT
  <2> QED BY <2>2, <2>3, <2>4
<1>6. f.op # "Close" => WireBytes(f) = f.payload
  BY DEF WireBytes
<1>7. Announces(g) <=> WireBytes(f) # << >>
  BY <1>1, <1>2, <1>4, <1>5, <1>6, SMT DEF Announces
<1>8. Holds(d, g)
  BY <1>1, <1>2, <1>4, <1>5, <1>6, SMT DEF Holds
<1>9. GoodHeader(e, g)
  <2>1. ASSUME is_control(f.op) PROVE Len(f.payload) <= ControlMax
    <3>1. Len(f.payload) <= ControlMax - 2 \/ Len(f.payload) <= ControlMax - 0
      BY <2>1 DEF ControlFits
    <3> QED BY <1>1, <3>1, ControlMaxAssumption, SMT
  <2> QED BY <1>1, <1>2, <1>3, <1>4, <2>1 DEF GoodHeader
<1>10. o = IF WireBytes(f) = << >> THEN << g >> ELSE << g, d >>
  BY DEF Encode
<1> HIDE DEF g, d
<1>11. o # << >> /\ o[1] = g
  BY <1>10, SMT
<1>12. OutOK(e, o)
  <2>1. CASE WireBytes(f) = << >>
    <3>1. Len(o) = 1
      BY <1>10, <2>1, SMT
    <3> QED BY <1>7, <1>9, <1>11, <2>1, <3>1 DEF OutOK
  <2>2. CASE WireBytes(f) # << >>
    <3>1. Len(o) = 2 /\ o[2] = d
      BY <1>10, <2>2, SMT
    <3> QED BY <1>7, <1>8, <1>9, <1>11, <2>2, <3>1 DEF OutOK
  <2> QED BY <2>1, <2>2
<1>13. DataHeader(g) <=> ~is_control(f.op)
  BY <1>2, <1>3 DEF DataHeader
<1> QED BY <1>2, <1>11, <1>12, <1>13

(* A frame that begins where the wire ends with a whole frame, with a      *)
(* Continuation exactly inside a message, goes on with what is there.      *)
LEMMA HeaderFits ==
  ASSUME NEW s, NEW o, NEW open, NEW open2, NEW pay, NEW h, NEW x,
         o[1].kind = "header",
         DataHeader(o[1]) => (o[1].op = "Continuation" <=> open),
         open2 <=> IF DataHeader(o[1]) THEN ~o[1].fin ELSE open,
         RestingOK(s, open, pay, x)
  PROVE  WritingOK(s, o, open2, pay, h, x)
<1>1. Continues(s, o[1], pay, h)
  BY DEF RestingOK, WholeFrames, Continues, Awaited, Follows
<1>2. open <=> Expects(s, Len(s) + 1, x)
  BY DEF RestingOK
<1> QED BY <1>1, <1>2 DEF WritingOK

(* The reader accepts the header at the head of the wire: it passes every  *)
(* check of read_frame_header.                                             *)
LEMMA HeaderAccepted ==
  ASSUME NEW e \in Endpoints, NEW s \in Seq(Unit), s # << >>, NEW h, NEW x \in BOOLEAN,
         WireOK(Peer(e), s, FALSE, h, x)
  PROVE  /\ s[1].kind = "header" /\ s[1] \in HeaderUnit /\ s[1].op # "Invalid"
         /\ is_control(s[1].op) => s[1].fin
         /\ ~is_control(s[1].op) => (s[1].op = "Continuation" <=> x)
         /\ HeaderError(s[1], x, e = "client") = "None"
<1>1. s[1] \in Unit /\ 1 \in 1 .. Len(s)
  BY HeadAndTail, SMT
<1>2. s[1].kind = "header" /\ GoodHeader(Peer(e), s[1])
  BY <1>1 DEF WireOK, Awaited
<1>3. s[1] \in HeaderUnit
  BY <1>1, <1>2, SMT DEF Unit, HeaderUnit, DataUnit
<1>4. ~is_control(s[1].op) => (s[1].op = "Continuation" <=> x)
  <2>1. DataHeader(s[1]) => (s[1].op = "Continuation" <=> Expects(s, 1, x))
    BY <1>1 DEF WireOK
  <2> QED BY <1>2, <2>1, ExpectsFirst DEF DataHeader
<1>5. s[1].masked => ~(e = "client")
  BY <1>2 DEF GoodHeader, Peer
<1>6. s[1].op \in Op /\ s[1].len \in Nat /\ s[1].op \in DataOps => ~is_control(s[1].op)
  BY <1>3, SMT DEF HeaderUnit, is_control, DataOps, ControlOps
<1>7. HeaderError(s[1], x, e = "client") = "None"
  <2>1. ~(is_control(s[1].op) /\ s[1].len > ControlMax)
    <3>1. s[1].len \in Nat
      BY <1>3 DEF HeaderUnit
    <3> QED BY <1>2, <3>1, ControlMaxAssumption, SMT DEF GoodHeader
  <2>2. s[1].op \in DataOps => s[1].op # "Continuation" /\ ~is_control(s[1].op)
    BY SMT DEF DataOps, ControlOps, is_control
  <2>3. s[1].op = "Continuation" => ~is_control(s[1].op)
    BY SMT DEF ControlOps, is_control
  <2> QED BY <1>2, <1>4, <1>5, <2>1, <2>2, <2>3 DEF HeaderError, GoodHeader
<1> QED BY <1>2, <1>3, <1>4, <1>7 DEF GoodHeader

-----------------------------------------------------------------------------
(* The two endpoints.                                                      *)
LEMMA Peers ==
  ASSUME NEW e \in Endpoints
  PROVE  /\ Peer(e) \in Endpoints /\ Peer(e) # e /\ Peer(Peer(e)) = e
         /\ \A x \in Endpoints : x = e \/ x = Peer(e)
BY DEF Endpoints, Peer

(* Shared::shutdown closes one side and leaves the other alone.            *)
LEMMA Shutdown ==
  ASSUME NEW cs \in CloseState
  PROVE  /\ shutdown_state(cs, "Read") \in CloseState
         /\ shutdown_state(cs, "Write") \in CloseState
         /\ can_write(shutdown_state(cs, "Read")) <=> can_write(cs)
         /\ can_read(shutdown_state(cs, "Write")) <=> can_read(cs)
         /\ ~can_read(shutdown_state(cs, "Read"))
         /\ ~can_write(shutdown_state(cs, "Write"))
         /\ shutdown_both(cs, "Write") => shutdown_state(cs, "Write") = "Both"
         /\ cs = "Both" => shutdown_state(cs, "Read") = "Both" /\ shutdown_state(cs, "Write") = "Both"
         /\ cs = "Both" => ~can_read(cs) /\ ~can_write(cs)
BY SMT DEF CloseState, shutdown_state, shutdown_both, can_read, can_write

(* What does not change at an endpoint, or on a direction.                 *)
LEMMA EndpointSame ==
  ASSUME NEW e, EndpointInv(e),
         close_state'[e] = close_state[e], wpc'[e] = wpc[e], out'[e] = out[e],
         rpc'[e] = rpc[e], frame'[e] = frame[e], error'[e] = error[e],
         current_message'[e] = current_message[e],
         expect_continuation'[e] = expect_continuation[e], wshut'[e] = wshut[e]
  PROVE  EndpointInv(e)'
BY DEF EndpointInv, WriterInv, ReaderInv, MessageInv, ShutInv, Reading, InMessage, Gone

\* e's part: the direction as the writer leaves it
WriterSame(e) ==
  /\ wire'[e] = wire[e] /\ out'[e] = out[e] /\ wshut'[e] = wshut[e]
  /\ last_sent_message_op'[e] = last_sent_message_op[e]
  /\ CanSend(e)' <=> CanSend(e)

\* p's part: what the reader waits for
ReaderSame(p) ==
  /\ Reading(p)' <=> Reading(p)
  /\ rpc'[p] = "Payload" <=> rpc[p] = "Payload"
  /\ frame'[p] = frame[p] /\ expect_continuation'[p] = expect_continuation[p]

LEMMA DirectionSame ==
  ASSUME NEW e, NEW p, DirectionInv(e, p), WriterSame(e), ReaderSame(p)
  PROVE  DirectionInv(e, p)'
BY DEF DirectionInv, WriterSame, ReaderSame

(* The invariant of both endpoints and both directions is the invariant.   *)
LEMMA InvParts ==
  ASSUME TypeOK', CloseIsLastSent', NEW e \in Endpoints,
         EndpointInv(e)', EndpointInv(Peer(e))',
         DirectionInv(e, Peer(e))', DirectionInv(Peer(e), e)'
  PROVE  Inv'
BY Peers DEF Inv

-----------------------------------------------------------------------------
(* The actions of the writer keep the invariant.                           *)

(* Write puts the next unit of the frame on the wire.                      *)
LEMMA WriteKeepsInv ==
  ASSUME Inv, NEW e \in Endpoints, Write(e)
  PROVE  Inv'
<1> DEFINE p == Peer(e)
<1>1. /\ p \in Endpoints /\ p # e /\ Peer(p) = e
      /\ EndpointInv(e) /\ EndpointInv(p) /\ DirectionInv(e, p) /\ DirectionInv(p, e)
      /\ TypeOK
  BY Peers DEF Inv
<1> HIDE DEF p
<1>2. /\ wire[e] \in Seq(Unit) /\ out[e] \in Seq(Unit) /\ out[e] # << >>
      /\ Tail(out[e]) \in Seq(Unit)
      /\ Append(wire[e], Head(out[e])) \in Seq(Unit)
  <2>1. wire[e] \in Seq(Unit) /\ out[e] \in Seq(Unit) /\ out[e] # << >>
    BY <1>1 DEF TypeOK, Write, EndpointInv, WriterInv
  <2>2. Head(out[e]) \in Unit /\ Tail(out[e]) \in Seq(Unit)
    BY <2>1, HeadAndTail
  <2> QED BY <2>1, <2>2, AppendProperties
<1>3. TypeOK'
  <2>1. wpc' \in [Endpoints -> WriterStates]
    BY <1>1, SMT DEF TypeOK, Write, WriterStates, WriterCloses
  <2> QED BY <1>1, <1>2, <2>1, SMT DEF TypeOK, Write, readerVars
<1>4. CloseIsLastSent'
  BY DEF Inv, CloseIsLastSent, Write
<1>5. /\ wire'[e] = Append(wire[e], Head(out[e])) /\ wire'[p] = wire[p]
      /\ out'[e] = Tail(out[e]) /\ out'[p] = out[p]
      /\ wpc'[p] = wpc[p]
      /\ wpc'[e] = IF Len(out[e]) > 1 THEN wpc[e]
                   ELSE IF wpc[e] = "Write" THEN "Idle" ELSE "CloseShutdown"
  BY <1>1 DEF TypeOK, Write
<1>6. /\ Len(out[e]) = 1 \/ Len(out[e]) = 2
      /\ Len(out[e]) = 1 <=> Tail(out[e]) = << >>
      /\ OutOK(e, Tail(out[e]))
  <2>1. OutOK(e, out[e])
    BY <1>1 DEF EndpointInv
  <2> QED BY <1>2, <2>1, OutPut
<1>7. EndpointInv(e)'
  <2>1. WriterInv(e)'
    <3>1. wpc'[e] \in {"Write", "CloseWrite"} <=> out'[e] # << >>
      <4>1. CASE Len(out[e]) = 1
        BY <1>5, <1>6, <4>1, SMT
      <4>2. CASE Len(out[e]) = 2
        BY <1>5, <1>6, <4>2, SMT DEF Write
      <4> QED BY <1>6, <4>1, <4>2
    <3>2. wpc'[e] \in WriterCloses => wpc[e] \in WriterCloses
      BY <1>5, SMT DEF Write, WriterCloses
    <3>3. wpc'[e] # "Gone" /\ wpc[e] # "Gone"
      BY <1>5, SMT DEF Write
    <3> QED BY <1>1, <3>1, <3>2, <3>3 DEF EndpointInv, WriterInv, Write, Gone, readerVars
  <2> QED BY <1>1, <1>5, <1>6, <2>1
          DEF EndpointInv, ReaderInv, MessageInv, ShutInv, Reading, InMessage, Gone,
              Write, readerVars
<1>8. EndpointInv(p)'
  BY <1>1, <1>5, EndpointSame DEF Write, readerVars
<1>9. DirectionInv(e, p)'
  <2> DEFINE open == last_sent_message_op[e] # "None"
             pay  == rpc[p] = "Payload"
             x    == expect_continuation[p]
  <2>1. SUFFICES ASSUME Reading(p)
                 PROVE  /\ WireOK(e, wire'[e], pay, frame[p], x)
                        /\ WritingOK(wire'[e], out'[e], open, pay, frame[p], x)
                        /\ CanSend(e)' => RestingOK(wire'[e], open, pay, x)
    BY DEF DirectionInv, Write, readerVars, Reading
  <2>2. WireOK(e, wire[e], pay, frame[p], x)
    BY <1>1, <2>1 DEF DirectionInv
  <2>3. WritingOK(wire[e], out[e], open, pay, frame[p], x)
    BY <1>1, <2>1 DEF DirectionInv, Write
  <2>4. OutOK(e, out[e]) /\ x \in BOOLEAN
    BY <1>1 DEF EndpointInv, TypeOK
  <2>5. CanSend(e)' => Len(out[e]) = 1
    BY <1>5, <1>6 DEF CanSend, Write
  <2>6. open \in BOOLEAN /\ pay \in BOOLEAN
    OBVIOUS
  <2> HIDE DEF open, pay, x
  <2>7. WireOK(e, Append(wire[e], Head(out[e])), pay, frame[p], x)
    BY <1>2, <2>2, <2>3, <2>4, <2>6, WirePut
  <2>8. /\ WritingOK(Append(wire[e], Head(out[e])), Tail(out[e]), open, pay, frame[p], x)
        /\ Len(out[e]) = 1 => RestingOK(Append(wire[e], Head(out[e])), open, pay, x)
    BY <1>2, <2>3, <2>4, <2>6, WritingPut
  <2> QED BY <1>5, <2>5, <2>7, <2>8
<1>10. DirectionInv(p, e)'
  <2>1. WriterSame(p) /\ ReaderSame(e)
    BY <1>5 DEF WriterSame, ReaderSame, CanSend, Reading, Write, readerVars
  <2> QED BY <1>1, <2>1, DirectionSame
<1> QED BY <1>3, <1>4, <1>7, <1>8, <1>9, <1>10, InvParts DEF p

(* A write that fails leaves the wire as it is, and nothing to write.      *)
LEMMA WriteFailsKeepsInv ==
  ASSUME Inv, NEW e \in Endpoints, WriteFails(e)
  PROVE  Inv'
<1> DEFINE p == Peer(e)
<1>1. /\ p \in Endpoints /\ p # e /\ Peer(p) = e
      /\ EndpointInv(e) /\ EndpointInv(p) /\ DirectionInv(e, p) /\ DirectionInv(p, e)
      /\ TypeOK
  BY Peers DEF Inv
<1> HIDE DEF p
<1>2. /\ out'[e] = << >> /\ out'[p] = out[p]
      /\ wpc'[e] = "Failed" /\ wpc'[p] = wpc[p]
  BY <1>1 DEF TypeOK, WriteFails
<1>3. TypeOK'
  <2>1. wpc' \in [Endpoints -> WriterStates] /\ out' \in [Endpoints -> Seq(Unit)]
    BY <1>1, EmptySeq, SMT DEF TypeOK, WriteFails, WriterStates
  <2> QED BY <1>1, <2>1 DEF TypeOK, WriteFails, readerVars
<1>4. CloseIsLastSent'
  BY DEF Inv, CloseIsLastSent, WriteFails
<1>5. EndpointInv(e)'
  BY <1>1, <1>2, SMT
     DEF EndpointInv, WriterInv, ReaderInv, MessageInv, ShutInv, OutOK, Reading, InMessage,
         Gone, WriterCloses, WriteFails, readerVars
<1>6. EndpointInv(p)'
  BY <1>1, <1>2, EndpointSame DEF WriteFails, readerVars
<1>7. DirectionInv(e, p)'
  BY <1>1, <1>2 DEF DirectionInv, WritingOK, CanSend, Reading, WriteFails, readerVars
<1>8. DirectionInv(p, e)'
  <2>1. WriterSame(p) /\ ReaderSame(e)
    BY <1>2 DEF WriterSame, ReaderSame, CanSend, Reading, WriteFails, readerVars
  <2> QED BY <1>1, <2>1, DirectionSame
<1> QED BY <1>3, <1>4, <1>5, <1>6, <1>7, <1>8, InvParts DEF p

(* shutdown(Write) comes when both sides are closed.                       *)
LEMMA WriterShutdownKeepsInv ==
  ASSUME Inv, NEW e \in Endpoints, WriterShutdown(e)
  PROVE  Inv'
<1> DEFINE p == Peer(e)
<1>1. /\ p \in Endpoints /\ p # e /\ Peer(p) = e
      /\ EndpointInv(e) /\ EndpointInv(p) /\ DirectionInv(e, p) /\ DirectionInv(p, e)
      /\ TypeOK
  BY Peers DEF Inv
<1> HIDE DEF p
<1>2. /\ wshut'[e] = TRUE /\ wshut'[p] = wshut[p]
      /\ wpc[e] = "CloseShutdown" /\ wpc'[e] = "CloseHangUp" /\ wpc'[p] = wpc[p]
  BY <1>1 DEF TypeOK, WriterShutdown
<1>3. TypeOK'
  BY <1>1, SMT DEF TypeOK, WriterShutdown, WriterStates, WriterCloses, readerVars
<1>4. CloseIsLastSent'
  BY DEF Inv, CloseIsLastSent, WriterShutdown
<1>5. EndpointInv(e)'
  BY <1>1, <1>2, SMT
     DEF EndpointInv, WriterInv, ReaderInv, MessageInv, ShutInv, OutOK, Reading, InMessage,
         Gone, WriterCloses, WriterShutdown, readerVars
<1>6. EndpointInv(p)'
  BY <1>1, <1>2, EndpointSame DEF WriterShutdown, readerVars
<1>7. DirectionInv(e, p)'
  BY <1>1, <1>2 DEF DirectionInv, CanSend, Reading, WriterShutdown, readerVars
<1>8. DirectionInv(p, e)'
  <2>1. WriterSame(p) /\ ReaderSame(e)
    BY <1>2 DEF WriterSame, ReaderSame, CanSend, Reading, WriterShutdown, readerVars
  <2> QED BY <1>1, <2>1, DirectionSame
<1> QED BY <1>3, <1>4, <1>5, <1>6, <1>7, <1>8, InvParts DEF p

(* send_frame returns from close(), hung up or timed out; nothing more can *)
(* be sent.                                                                *)
LEMMA WriterClosedKeepsInv ==
  ASSUME Inv, NEW e \in Endpoints, WriterHangUp(e) \/ WriterCloseTimeout(e)
  PROVE  Inv'
<1> DEFINE p == Peer(e)
<1>1. /\ p \in Endpoints /\ p # e /\ Peer(p) = e
      /\ EndpointInv(e) /\ EndpointInv(p) /\ DirectionInv(e, p) /\ DirectionInv(p, e)
      /\ TypeOK
  BY Peers DEF Inv
<1> HIDE DEF p
<1>2. /\ wpc[e] \in WriterCloses /\ wpc'[e] = "Idle" /\ wpc'[p] = wpc[p]
      /\ out'[e] = << >> /\ out'[p] = out[p]
      /\ wpc' \in [Endpoints -> WriterStates] /\ out' \in [Endpoints -> Seq(Unit)]
      /\ UNCHANGED << close_state, last_sent_message_op, wire, wshut, sent, readerVars >>
  <2>1. CASE WriterHangUp(e)
    <3>1. out[e] = << >>
      BY <1>1, <2>1 DEF WriterHangUp, EndpointInv, WriterInv
    <3> QED BY <1>1, <2>1, <3>1, SMT
            DEF WriterHangUp, TypeOK, WriterCloses, WriterStates, readerVars
  <2>2. CASE WriterCloseTimeout(e)
    BY <1>1, <2>2, EmptySeq, SMT
       DEF WriterCloseTimeout, TypeOK, WriterCloses, WriterStates, readerVars
  <2> QED BY <2>1, <2>2
<1>3. TypeOK'
  BY <1>1, <1>2 DEF TypeOK, readerVars
<1>4. CloseIsLastSent'
  BY <1>2 DEF Inv, CloseIsLastSent
<1>5. close_state[e] = "Both"
  BY <1>1, <1>2 DEF EndpointInv, WriterInv
<1>6. EndpointInv(e)'
  BY <1>1, <1>2, SMT
     DEF EndpointInv, WriterInv, ReaderInv, MessageInv, ShutInv, OutOK, Reading, InMessage,
         Gone, WriterCloses, readerVars
<1>7. EndpointInv(p)'
  BY <1>1, <1>2, EndpointSame DEF readerVars
<1>8. DirectionInv(e, p)'
  <2>1. ~can_write(close_state'[e])
    BY <1>2, <1>5 DEF can_write
  <2> QED BY <1>1, <1>2, <2>1 DEF DirectionInv, WritingOK, CanSend, Reading, readerVars
<1>9. DirectionInv(p, e)'
  <2>1. WriterSame(p) /\ ReaderSame(e)
    BY <1>2 DEF WriterSame, ReaderSame, CanSend, Reading, readerVars
  <2> QED BY <1>1, <2>1, DirectionSame
<1> QED BY <1>3, <1>4, <1>6, <1>7, <1>8, <1>9, InvParts DEF p

(* send_frame starts a frame: where the wire ends, and unless it is a      *)
(* Close, with more to follow.                                             *)
LEMMA SendKeepsInv ==
  ASSUME Inv, NEW e \in Endpoints, NEW f \in Frames, Send(e, f)
  PROVE  Inv'
<1> DEFINE p == Peer(e)
           o == Encode(f, WireOp(e, f), e = "client")
           cs == IF f.op = "Close" THEN shutdown_state(close_state[e], "Write")
                                   ELSE close_state[e]
<1>1. /\ p \in Endpoints /\ p # e /\ Peer(p) = e
      /\ EndpointInv(e) /\ EndpointInv(p) /\ DirectionInv(e, p) /\ DirectionInv(p, e)
      /\ TypeOK /\ f \in BorrowedFrame
  BY Peers, FramesAssumption DEF Inv
<1>2. /\ f.op \in DataOps \cup ControlOps /\ f.op \in Op /\ f.fin \in BOOLEAN
      /\ is_control(f.op) <=> f.op \in ControlOps
      /\ close_state[e] \in CloseState
  BY <1>1, SMT DEF BorrowedFrame, Op, is_control, TypeOK
<1>3. o \in Seq(Unit) /\ o # << >>
  <2>1. WireOp(e, f) \in Op
    BY <1>2, SMT DEF WireOp, Op
  <2> QED BY <1>1, <2>1, EncodeType
<1>4. /\ cs \in CloseState
      /\ can_read(cs) <=> can_read(close_state[e])
      /\ can_write(cs) <=> f.op # "Close"
      /\ close_state[e] = "Both" => cs = "Both"
      /\ shutdown_both(close_state[e], "Write") /\ f.op = "Close" => cs = "Both"
  BY <1>2, Shutdown DEF Send
<1> HIDE DEF p, o, cs
<1>5. /\ out' = [out EXCEPT ![e] = o]
      /\ close_state' = [close_state EXCEPT ![e] = cs]
      /\ last_sent_message_op' = [last_sent_message_op EXCEPT ![e] = LastSentAfter(e, f)]
      /\ sent' = [sent EXCEPT ![e] = Append(@, f)]
      /\ wpc' \in [Endpoints -> {"Write", "CloseWrite"} \cup WriterStates]
      /\ wpc'[e] \in {"Write", "CloseWrite"} /\ wpc'[p] = wpc[p]
      /\ wpc'[e] = "CloseWrite" => cs = "Both"
      /\ UNCHANGED << wire, wshut, readerVars >>
  <2>1. /\ out' = [out EXCEPT ![e] = o]
        /\ last_sent_message_op' = [last_sent_message_op EXCEPT ![e] = LastSentAfter(e, f)]
        /\ sent' = [sent EXCEPT ![e] = Append(@, f)]
        /\ UNCHANGED << wire, wshut, readerVars >>
    BY DEF Send, o
  <2>2. wpc \in [Endpoints -> WriterStates] /\ close_state \in [Endpoints -> CloseState]
    BY <1>1 DEF TypeOK
  <2>3. CASE f.op = "Close"
    <3>1. close_state' = [close_state EXCEPT ![e] = cs]
      BY <2>3 DEF Send, cs
    <3>2. wpc' = [wpc EXCEPT ![e] = IF shutdown_both(close_state[e], "Write")
                                    THEN "CloseWrite" ELSE "Write"]
      BY <2>3 DEF Send
    <3>3. wpc'[e] = IF shutdown_both(close_state[e], "Write") THEN "CloseWrite" ELSE "Write"
      BY <2>2, <3>2
    <3> QED BY <1>1, <1>4, <2>1, <2>2, <2>3, <3>1, <3>2, <3>3
  <2>4. CASE f.op # "Close"
    <3>1. close_state' = [close_state EXCEPT ![e] = cs]
      BY <2>2, <2>4 DEF Send, cs
    <3>2. wpc' = [wpc EXCEPT ![e] = "Write"]
      BY <2>4 DEF Send
    <3> QED BY <1>1, <2>1, <2>2, <3>1, <3>2
  <2> QED BY <2>3, <2>4
<1>6. TypeOK'
  <2>1. LastSentAfter(e, f) \in DataOps \cup {"None"}
    BY <1>1, <1>2, SMT DEF LastSentAfter, TypeOK
  <2>2. Append(sent[e], f) \in Seq(BorrowedFrame)
    BY <1>1, AppendProperties DEF TypeOK
  <2>3. wpc' \in [Endpoints -> WriterStates]
    BY <1>5, SMT DEF WriterStates, WriterCloses
  <2> QED BY <1>1, <1>3, <1>4, <1>5, <2>1, <2>2, <2>3, SMT DEF TypeOK, readerVars
<1>7. CloseIsLastSent'
  <2>1. /\ sent[e] \in Seq(BorrowedFrame) /\ Len(sent[e]) \in Nat
        /\ \A i \in 1 .. Len(sent[e]) : sent[e][i].op # "Close"
    BY <1>1, LenProperties, SMT DEF TypeOK, Inv, CloseIsLastSent, Send
  <2>2. /\ sent'[e] = Append(sent[e], f) /\ sent'[p] = sent[p]
        /\ close_state'[e] = cs /\ close_state'[p] = close_state[p]
    BY <1>1, <1>5 DEF TypeOK
  <2>3. /\ Len(sent'[e]) = Len(sent[e]) + 1
        /\ sent'[e][Len(sent[e]) + 1] = f
        /\ \A i \in 1 .. Len(sent[e]) : sent'[e][i] = sent[e][i]
    BY <1>1, <2>1, <2>2, AppendProperties
  <2>4. /\ \A i \in 1 .. Len(sent'[e]) : sent'[e][i].op = "Close" => i = Len(sent'[e])
        /\ can_write(cs) <=> \A i \in 1 .. Len(sent'[e]) : sent'[e][i].op # "Close"
    BY <1>4, <2>1, <2>3, SMT
  <2>5. /\ \A i \in 1 .. Len(sent'[p]) : sent'[p][i].op = "Close" => i = Len(sent'[p])
        /\ can_write(close_state'[p]) <=> \A i \in 1 .. Len(sent'[p]) : sent'[p][i].op # "Close"
    BY <1>1, <2>2 DEF Inv, CloseIsLastSent
  <2>6. \A y \in Endpoints : y = e \/ y = p
    BY Peers DEF p
  <2> QED BY <2>2, <2>4, <2>5, <2>6 DEF CloseIsLastSent
<1>8. /\ out'[e] = o /\ out'[p] = out[p]
      /\ close_state'[e] = cs /\ close_state'[p] = close_state[p]
      /\ last_sent_message_op'[e] = LastSentAfter(e, f)
      /\ last_sent_message_op'[p] = last_sent_message_op[p]
  BY <1>1, <1>5 DEF TypeOK
<1>9. /\ CanSend(e) /\ out[e] = << >>
      /\ ~wshut[e] /\ ControlFits(f)
      /\ is_control(f.op) \/ last_sent_message_op[e] \in {"None", f.op}
  <2>1. CanSend(e)
    BY DEF Send, MaySend, CanSend
  <2>2. close_state[e] # "Both" /\ wpc[e] # "Gone"
    BY <2>1, Shutdown, <1>2 DEF CanSend
  <2> QED BY <1>1, <2>1, <2>2, SMT
          DEF Send, EndpointInv, WriterInv, ShutInv, CanSend, TypeOK
<1>10. /\ OutOK(e, o)
       /\ Reading(p) =>
            WritingOK(wire[e], o, last_sent_message_op'[e] # "None",
                      rpc[p] = "Payload", frame[p], expect_continuation[p])
  <2> DEFINE open == last_sent_message_op[e] # "None"
             pay  == rpc[p] = "Payload"
             x    == expect_continuation[p]
             op   == WireOp(e, f)
             open2 == last_sent_message_op'[e] # "None"
  <2>1. Reading(p) => RestingOK(wire[e], open, pay, x)
    BY <1>1, <1>9 DEF DirectionInv
  <2>2. op = IF ~is_control(f.op) /\ open THEN "Continuation" ELSE f.op
    BY DEF WireOp
  <2>3. op \in Op /\ x \in BOOLEAN
    BY <1>1, <1>2, <2>2, SMT DEF Op, TypeOK
  <2>4. open2 <=> IF is_control(f.op) THEN open ELSE ~f.fin
    <3>1. CASE is_control(f.op)
      BY <1>8, <3>1 DEF LastSentAfter
    <3>2. CASE ~is_control(f.op) /\ f.fin
      BY <1>8, <3>2 DEF LastSentAfter
    <3>3. CASE ~is_control(f.op) /\ ~f.fin
      <4>1. f.op # "None"
        BY <1>2, SMT DEF DataOps, ControlOps
      <4> QED BY <1>8, <3>3, <4>1 DEF LastSentAfter
    <3> QED BY <3>1, <3>2, <3>3
  <2>5. open \in BOOLEAN /\ pay \in BOOLEAN /\ open2 \in BOOLEAN
    OBVIOUS
  <2> DEFINE m == e = "client"
  <2>6. o = Encode(f, op, m) /\ m \in BOOLEAN /\ (m <=> e = "client")
    BY DEF o
  <2> HIDE DEF open, open2, pay, x, op, m
  <2>7. op = f.op \/ (op = "Continuation" /\ ~is_control(f.op))
    BY <2>2
  <2>8. /\ OutOK(e, o) /\ o # << >>
        /\ o[1].kind = "header" /\ o[1].op = op /\ o[1].fin = f.fin
        /\ DataHeader(o[1]) <=> ~is_control(f.op)
    BY <1>1, <1>9, <2>3, <2>6, <2>7, EncodeOut
  <2>9. DataHeader(o[1]) => (o[1].op = "Continuation" <=> open)
    <3>1. f.op # "Continuation"
      BY <1>2, SMT DEF DataOps, ControlOps
    <3> QED BY <2>2, <2>8, <3>1
  <2>10. open2 <=> IF DataHeader(o[1]) THEN ~o[1].fin ELSE open
    BY <2>4, <2>8
  <2>11. RestingOK(wire[e], open, pay, x) => WritingOK(wire[e], o, open2, pay, frame[p], x)
    BY <2>8, <2>9, <2>10, HeaderFits
  <2> QED BY <2>1, <2>8, <2>11 DEF x, pay, open2
<1>11. EndpointInv(e)'
  <2>1. WriterInv(e)'
    BY <1>1, <1>3, <1>5, <1>8, SMT
       DEF EndpointInv, WriterInv, WriterCloses, Gone, readerVars, Send, MaySend
  <2>2. ReaderInv(e)' /\ MessageInv(e)' /\ ShutInv(e)'
    BY <1>1, <1>4, <1>5, <1>8
       DEF EndpointInv, ReaderInv, MessageInv, ShutInv, Reading, InMessage, Gone, readerVars
  <2> QED BY <1>8, <1>10, <2>1, <2>2 DEF EndpointInv
<1>12. EndpointInv(p)'
  BY <1>1, <1>5, <1>8, EndpointSame DEF readerVars
<1>13. DirectionInv(e, p)'
  <2>1. ~CanSend(e)'
    BY <1>5 DEF CanSend
  <2>2. Reading(p)' <=> Reading(p)
    BY <1>5, <1>8 DEF Reading, readerVars
  <2> QED BY <1>1, <1>5, <1>8, <1>10, <2>1, <2>2 DEF DirectionInv, readerVars
<1>14. DirectionInv(p, e)'
  <2>1. WriterSame(p) /\ ReaderSame(e)
    BY <1>4, <1>5, <1>8 DEF WriterSame, ReaderSame, CanSend, Reading, readerVars
  <2> QED BY <1>1, <2>1, DirectionSame
<1> QED BY <1>6, <1>7, <1>11, <1>12, <1>13, <1>14, InvParts DEF p

-----------------------------------------------------------------------------
(* The actions of the reader keep the invariant.                           *)

\* p's part of the state is as it was, and so is what p reads
OthersSame(p) ==
  /\ close_state'[p] = close_state[p]
  /\ rpc'[p] = rpc[p] /\ frame'[p] = frame[p] /\ error'[p] = error[p]
  /\ current_message'[p] = current_message[p]
  /\ expect_continuation'[p] = expect_continuation[p]
  /\ wire'[Peer(p)] = wire[Peer(p)]

(* A step of a reader disturbs its own state and what it reads, and at most*)
(* closes the read side.                                                   *)
LEMMA ReaderStep ==
  ASSUME Inv, NEW e \in Endpoints, TypeOK', OthersSame(Peer(e)),
         UNCHANGED << writerVars, wshut >>,
         close_state'[e] \in {close_state[e], shutdown_state(close_state[e], "Read")},
         ~Gone(e), ~Gone(e)',
         ReaderInv(e)', MessageInv(e)', DirectionInv(Peer(e), e)'
  PROVE  Inv'
<1> DEFINE p == Peer(e)
<1>1. /\ p \in Endpoints /\ p # e /\ Peer(p) = e
      /\ EndpointInv(e) /\ EndpointInv(p) /\ DirectionInv(e, p)
      /\ TypeOK /\ OthersSame(p) /\ DirectionInv(p, e)'
      /\ \A y \in Endpoints : y = e \/ y = p
  BY Peers DEF Inv
<1> HIDE DEF p
<1>2. /\ can_write(close_state'[e]) <=> can_write(close_state[e])
      /\ close_state[e] = "Both" => close_state'[e] = "Both"
  BY <1>1, Shutdown, SMTT(60) DEF TypeOK
<1>3. CloseIsLastSent'
  BY <1>1, <1>2 DEF Inv, CloseIsLastSent, writerVars, OthersSame
<1>4. EndpointInv(e)'
  <2>1. WriterInv(e)' /\ ShutInv(e)' /\ OutOK(e, out'[e])
    BY <1>1, <1>2 DEF EndpointInv, WriterInv, ShutInv, writerVars
  <2> QED BY <2>1 DEF EndpointInv
<1>5. EndpointInv(p)'
  BY <1>1, EndpointSame DEF OthersSame, writerVars
<1>6. DirectionInv(e, p)'
  <2>1. WriterSame(e) /\ ReaderSame(p)
    BY <1>1, <1>2 DEF WriterSame, ReaderSame, CanSend, Reading, OthersSame, writerVars
  <2> QED BY <1>1, <2>1, DirectionSame
<1>7. TypeOK' /\ EndpointInv(Peer(e))' /\ DirectionInv(e, Peer(e))' /\ DirectionInv(Peer(e), e)'
  BY <1>1, <1>5, <1>6 DEF p
<1> QED BY <1>3, <1>4, <1>7, InvParts

(* A reader that is done reading asks nothing of the wire any more.        *)
LEMMA DirectionOver ==
  ASSUME NEW e, NEW p, ~Reading(e)'
  PROVE  DirectionInv(p, e)'
BY DEF DirectionInv

(* When a reader takes a unit, what is left fits what it waits for next.   *)
LEMMA DirectionTaken ==
  ASSUME TypeOK, NEW e \in Endpoints, NEW p \in Endpoints, p # e,
         DirectionInv(p, e), Reading(e),
         wire[p] # << >>, wire'[p] = Tail(wire[p]),
         UNCHANGED << writerVars, wshut >>, close_state'[p] = close_state[p],
         Leaves(wire[p][1], rpc'[e] = "Payload", frame'[e]),
         expect_continuation'[e] = ExpectedAfter(wire[p][1], expect_continuation[e])
  PROVE  DirectionInv(p, e)'
<1> DEFINE s == wire[p]
           open == last_sent_message_op[p] # "None"
           pay == rpc[e] = "Payload"
           pay2 == rpc'[e] = "Payload"
           x == expect_continuation[e]
<1>1. s \in Seq(Unit) /\ s # << >> /\ x \in BOOLEAN /\ Leaves(s[1], pay2, frame'[e])
  BY DEF TypeOK
<1>2. /\ WireOK(p, s, pay, frame[e], x)
      /\ ~wshut[p] => WritingOK(s, out[p], open, pay, frame[e], x)
      /\ CanSend(p) => RestingOK(s, open, pay, x)
  BY DEF DirectionInv
<1> DEFINE y == ExpectedAfter(s[1], x)
<1>3. y = expect_continuation'[e] /\ Tail(s) = wire'[p]
  OBVIOUS
<1> HIDE DEF s, open, pay, pay2, x
<1>4. WireOK(p, Tail(s), pay2, frame'[e], y)
  BY <1>1, <1>2, WireTake
<1>5. /\ WritingOK(s, out[p], open, pay, frame[e], x) =>
            WritingOK(Tail(s), out[p], open, pay2, frame'[e], y)
      /\ RestingOK(s, open, pay, x) => RestingOK(Tail(s), open, pay2, y)
  BY <1>1, WritingTake, RestingTake
<1> HIDE DEF y
<1>6. /\ ~wshut[p] => WritingOK(Tail(s), out[p], open, pay2, frame'[e], y)
      /\ CanSend(p) => RestingOK(Tail(s), open, pay2, y)
  BY <1>2, <1>5
<1>7. /\ WireOK(p, wire'[p], pay2, frame'[e], expect_continuation'[e])
      /\ ~wshut[p] => WritingOK(wire'[p], out[p], open, pay2, frame'[e], expect_continuation'[e])
      /\ CanSend(p) => RestingOK(wire'[p], open, pay2, expect_continuation'[e])
  BY <1>3, <1>4, <1>6
<1>8. (CanSend(p)' <=> CanSend(p)) /\ wshut'[p] = wshut[p] /\ out'[p] = out[p]
      /\ last_sent_message_op'[p] = last_sent_message_op[p]
  BY DEF CanSend, writerVars
<1> QED BY <1>7, <1>8 DEF DirectionInv, open, pay2

LEMMA ItemType ==
  ASSUME NEW op \in Op, NEW bytes \in Seq(Byte)
  PROVE  Item(op, bytes) \in Frame
<1>1. 0 \in Code
  BY SMT DEF Code, MaxCode
<1> QED BY <1>1 DEF Item, Frame

(* What FinishFrame does to the reader's state, when the frame belongs     *)
(* where it came and, unless it is a Close, the read side is open.         *)
LEMMA FinishFrameEffect ==
  ASSUME TypeOK, NEW e \in Endpoints, NEW h \in HeaderUnit, h.op # "Invalid",
         NEW bytes \in Seq(Byte), NEW cs \in CloseState, FinishFrame(e, h, bytes, cs),
         ~is_control(h.op) => MessageSoFar(e, h).op \in DataOps /\ can_read(cs)
  PROVE  /\ current_message' \in [Endpoints -> [op : Op \cup {"None"}, buf : Seq(Byte)]]
         /\ rpc' \in [Endpoints -> ReaderStates]
         /\ pending' \in [Endpoints -> Frame] /\ got' \in [Endpoints -> Seq(Frame)]
         /\ error' = error
         /\ \A p \in Endpoints \ {e} :
               rpc'[p] = rpc[p] /\ current_message'[p] = current_message[p]
         /\ rpc'[e] \in {"Idle", "Header", "CloseShutdown"}
         /\ rpc'[e] = "Header" => can_read(cs)
         /\ rpc'[e] = "CloseShutdown" => cs = "Both"
         /\ IF is_control(h.op) THEN current_message'[e] = current_message[e]
            ELSE /\ current_message'[e] # NoMessage <=> ~h.fin
                 /\ current_message'[e] # NoMessage => current_message'[e].op \in DataOps
<1> DEFINE m == MessageSoFar(e, h)
           Message == [op : Op \cup {"None"}, buf : Seq(Byte)]
<1>1. /\ h.op \in Op /\ h.fin \in BOOLEAN
      /\ current_message \in [Endpoints -> Message] /\ rpc \in [Endpoints -> ReaderStates]
      /\ pending \in [Endpoints -> Frame] /\ got \in [Endpoints -> Seq(Frame)]
      /\ error \in [Endpoints -> ReadErrors]
  BY DEF TypeOK, HeaderUnit
<1>2. {"Idle", "Header", "CloseShutdown"} \subseteq ReaderStates
  BY SMT DEF ReaderStates, ReaderCloses
<1>3. m \in Message
  <2>1. << >> \in Seq(Byte)
    BY EmptySeq
  <2>2. [op |-> h.op, buf |-> << >>] \in Message
    BY <1>1, <2>1
  <2> QED BY <1>1, <2>2 DEF MessageSoFar
<1>4. NoMessage \in Message /\ NoMessage.op = "None" /\ "None" \notin DataOps
  <2>1. << >> \in Seq(Byte)
    BY EmptySeq
  <2> QED BY <2>1, SMT DEF NoMessage, DataOps
<1>5. CASE ControlFrame(e, h, bytes)
  <2>1. is_control(h.op) /\ Item(h.op, bytes) \in Frame
    BY <1>1, <1>5, ItemType DEF ControlFrame, is_control, ControlOps
  <2>2. Append(got[e], Item(h.op, bytes)) \in Seq(Frame)
    BY <1>1, <2>1, AppendProperties
  <2> QED BY <1>1, <1>2, <1>5, <2>1, <2>2 DEF ControlFrame, Deliver
<1>6. CASE CloseFrame(e, h, bytes, cs)
  <2>1. is_control(h.op) /\ DecodeClose(bytes) \in Frame
    BY <1>6, DecodeCloseType DEF CloseFrame, is_control, ControlOps
  <2>2. Append(got[e], DecodeClose(bytes)) \in Seq(Frame)
    BY <1>1, <2>1, AppendProperties
  <2>3. CASE should_close(cs)
    BY <1>1, <1>2, <1>6, <2>1, <2>3 DEF CloseFrame, should_close
  <2>4. CASE ~should_close(cs)
    BY <1>1, <1>2, <1>6, <2>1, <2>2, <2>4 DEF CloseFrame, Deliver
  <2> QED BY <2>3, <2>4
<1>7. CASE MessageFragment(e, h, bytes, cs)
  <2>1. m.op \in DataOps /\ can_read(cs) /\ ~is_control(h.op) /\ ~h.fin
    BY <1>7 DEF MessageFragment
  <2> DEFINE m2 == [m EXCEPT !.buf = @ \o bytes]
  <2>2. m.buf \o bytes \in Seq(Byte)
    BY <1>3, ConcatProperties
  <2>3. m2 \in Message /\ m2.op = m.op
    BY <1>3, <2>2
  <2>4. current_message' = [current_message EXCEPT ![e] = m2]
    BY <1>7 DEF MessageFragment
  <2> HIDE DEF m, m2, Message
  <2>5. m2 # NoMessage
    BY <1>4, <2>1, <2>3
  <2>6. rpc' = [rpc EXCEPT ![e] = "Header"] /\ error' = [error EXCEPT ![e] = error[e]]
    BY <1>7, <2>1 DEF MessageFragment
  <2>7. UNCHANGED << pending, got >>
    BY <1>7 DEF MessageFragment
  <2>8. /\ current_message' \in [Endpoints -> Message] /\ current_message'[e] = m2
        /\ \A p \in Endpoints \ {e} : current_message'[p] = current_message[p]
    BY <1>1, <2>3, <2>4
  <2>9. /\ rpc' \in [Endpoints -> ReaderStates] /\ rpc'[e] = "Header"
        /\ \A p \in Endpoints \ {e} : rpc'[p] = rpc[p]
    BY <1>1, <1>2, <2>6
  <2>10. error' = error
    BY <1>1, <2>6
  <2> QED BY <1>1, <2>1, <2>3, <2>5, <2>7, <2>8, <2>9, <2>10 DEF Message
<1>8. CASE MessageEnd(e, h, bytes)
  <2>1. m.op \in DataOps /\ ~is_control(h.op) /\ h.fin
    BY <1>8 DEF MessageEnd
  <2>2. m.buf \o bytes \in Seq(Byte)
    BY <1>3, ConcatProperties
  <2>3. Item(m.op, m.buf \o bytes) \in Frame
    BY <2>1, <2>2, ItemType DEF Op
  <2>4. Append(got[e], Item(m.op, m.buf \o bytes)) \in Seq(Frame)
    BY <1>1, <2>3, AppendProperties
  <2>5. /\ got' = [got EXCEPT ![e] = Append(@, Item(m.op, m.buf \o bytes))]
        /\ rpc' = [rpc EXCEPT ![e] = "Idle"]
        /\ current_message' = [current_message EXCEPT ![e] = NoMessage]
        /\ UNCHANGED << pending, error >>
    BY <1>8, <2>1 DEF MessageEnd, Deliver
  <2> HIDE DEF m, Message
  <2> QED BY <1>1, <1>2, <1>4, <2>1, <2>4, <2>5 DEF Message
<1> QED BY <1>5, <1>6, <1>7, <1>8 DEF FinishFrame

(* next() goes to wait for a header.                                       *)
LEMMA NextKeepsInv ==
  ASSUME Inv, NEW e \in Endpoints, Next_(e)
  PROVE  Inv'
<1> DEFINE p == Peer(e)
<1>1. /\ p \in Endpoints /\ p # e /\ Peer(p) = e /\ Peer(e) = p
      /\ EndpointInv(e) /\ DirectionInv(p, e) /\ TypeOK
  BY Peers DEF Inv
<1> HIDE DEF p
<1>2. /\ rpc[e] = "Idle" /\ rpc'[e] = "Header" /\ rpc'[p] = rpc[p]
      /\ rpc' \in [Endpoints -> ReaderStates] /\ can_read(close_state[e])
      /\ UNCHANGED << close_state, wire, wshut, writerVars,
                      expect_continuation, current_message, frame, pending, error, got >>
  BY <1>1, SMT DEF Next_, MayRead, TypeOK, ReaderStates
<1>3. TypeOK'
  BY <1>1, <1>2 DEF TypeOK, writerVars
<1>4. ReaderInv(e)' /\ MessageInv(e)'
  BY <1>1, <1>2 DEF EndpointInv, ReaderInv, MessageInv, Reading, InMessage, ReaderCloses
<1>5. DirectionInv(p, e)'
  <2>1. WriterSame(p) /\ ReaderSame(e)
    BY <1>2 DEF WriterSame, ReaderSame, CanSend, Reading, writerVars
  <2> QED BY <1>1, <2>1, DirectionSame
<1>6. OthersSame(Peer(e)) /\ ~Gone(e) /\ ~Gone(e)'
  BY <1>1, <1>2 DEF OthersSame, Gone
<1>7. DirectionInv(Peer(e), e)' /\ close_state'[e] = close_state[e]
  BY <1>1, <1>2, <1>5
<1> QED BY <1>2, <1>3, <1>4, <1>6, <1>7, ReaderStep

(* The header at the head of the wire, when the reader waits for one.      *)
LEMMA HeaderHere ==
  ASSUME Inv, NEW e \in Endpoints, rpc[e] = "Header", wire[Peer(e)] # << >>
  PROVE  LET h == Head(wire[Peer(e)])
         IN  /\ h = wire[Peer(e)][1] /\ h \in HeaderUnit /\ h.kind = "header"
             /\ h.op # "Invalid"
             /\ is_control(h.op) => h.fin
             /\ ~is_control(h.op) => MessageSoFar(e, h).op \in DataOps
             /\ HeaderError(h, expect_continuation[e], e = "client") = "None"
<1> DEFINE s == wire[Peer(e)]
           x == expect_continuation[e]
<1>1. /\ Peer(e) \in Endpoints /\ Peer(Peer(e)) = e
      /\ TypeOK /\ EndpointInv(e) /\ DirectionInv(Peer(e), e)
  BY Peers DEF Inv
<1>2. Reading(e) /\ ~InMessage(e)
  BY DEF Reading, InMessage
<1>3. WireOK(Peer(e), s, FALSE, frame[e], x)
  BY <1>1, <1>2 DEF DirectionInv
<1>4. s \in Seq(Unit) /\ s # << >> /\ x \in BOOLEAN
  BY <1>1 DEF TypeOK
<1>5. Head(s) = s[1]
  BY <1>4, HeadAndTail
<1> HIDE DEF s, x
<1>6. /\ s[1].kind = "header" /\ s[1] \in HeaderUnit /\ s[1].op # "Invalid"
      /\ is_control(s[1].op) => s[1].fin
      /\ ~is_control(s[1].op) => (s[1].op = "Continuation" <=> x)
      /\ HeaderError(s[1], x, e = "client") = "None"
  BY <1>3, <1>4, HeaderAccepted
<1>7. x <=> current_message[e] # NoMessage
  BY <1>1, <1>2 DEF EndpointInv, MessageInv, x
<1>8. ASSUME ~is_control(s[1].op) PROVE MessageSoFar(e, s[1]).op \in DataOps
  <2>1. CASE current_message[e] = NoMessage
    <3>1. s[1].op \in DataOps
      BY <1>6, <1>7, <1>8, <2>1, SMT DEF HeaderUnit, Op, is_control
    <3> QED BY <2>1, <3>1 DEF MessageSoFar
  <2>2. CASE current_message[e] # NoMessage
    BY <1>1, <2>2 DEF MessageSoFar, EndpointInv, MessageInv
  <2> QED BY <2>1, <2>2
<1>9. Head(wire[Peer(e)]) = s[1] /\ wire[Peer(e)][1] = s[1] /\ expect_continuation[e] = x
  BY <1>5 DEF s, x
<1> QED BY <1>6, <1>8, <1>9

(* A header is accepted: the reader goes on to its payload, or finishes an *)
(* empty frame.                                                            *)
LEMMA ReadHeaderKeepsInv ==
  ASSUME Inv, NEW e \in Endpoints, ReadHeader(e)
  PROVE  Inv'
<1> DEFINE p == Peer(e)
           h == Head(wire[p])
           cs == StateAfterHeader(e, h)
           x == expect_continuation[e]
           Message == [op : Op \cup {"None"}, buf : Seq(Byte)]
<1>1. /\ p \in Endpoints /\ p # e /\ Peer(p) = e /\ Peer(e) = p
      /\ EndpointInv(e) /\ DirectionInv(p, e) /\ TypeOK
  BY Peers DEF Inv
<1>2. rpc[e] = "Header" /\ wire[p] # << >> /\ can_read(close_state[e])
  BY <1>1 DEF ReadHeader, EndpointInv, ReaderInv
<1>3. /\ h = wire[p][1] /\ h \in HeaderUnit /\ h.kind = "header" /\ h.op # "Invalid"
      /\ is_control(h.op) => h.fin
      /\ ~is_control(h.op) => MessageSoFar(e, h).op \in DataOps
      /\ HeaderError(h, x, e = "client") = "None"
  BY <1>2, HeaderHere
<1>4. /\ wire' = [wire EXCEPT ![p] = Tail(@)] /\ UNCHANGED << wshut, writerVars >>
      /\ close_state' = [close_state EXCEPT ![e] = cs]
      /\ expect_continuation' = [expect_continuation EXCEPT ![e] = ExpectedAfter(h, x)]
  <2>1. NextExpectation(h, "None", x) = ExpectedAfter(h, x)
    BY <1>3 DEF NextExpectation, ExpectedAfter, DataHeader
  <2> QED BY <1>3, <2>1 DEF ReadHeader
<1>5. /\ cs = IF h.op = "Close" THEN shutdown_state(close_state[e], "Read") ELSE close_state[e]
      /\ cs \in CloseState /\ (can_read(cs) <=> h.op # "Close")
      /\ cs \in {close_state[e], shutdown_state(close_state[e], "Read")}
  <2>1. cs = IF h.op = "Close" THEN shutdown_state(close_state[e], "Read") ELSE close_state[e]
    BY <1>3 DEF StateAfterHeader
  <2>2. close_state[e] \in CloseState
    BY <1>1 DEF TypeOK
  <2> HIDE DEF cs
  <2> QED BY <1>2, <2>1, <2>2, Shutdown
<1>6. wire' \in [Endpoints -> Seq(Unit)] /\ wire'[p] = Tail(wire[p]) /\ wire'[e] = wire[e]
  <2>1. wire[p] \in Seq(Unit)
    BY <1>1 DEF TypeOK
  <2>2. Tail(wire[p]) \in Seq(Unit)
    BY <1>2, <2>1, HeadAndTail
  <2> QED BY <1>1, <1>4, <2>2 DEF TypeOK
<1>7. /\ close_state' \in [Endpoints -> CloseState]
      /\ close_state'[e] = cs /\ close_state'[p] = close_state[p]
      /\ expect_continuation' \in [Endpoints -> BOOLEAN]
      /\ expect_continuation'[e] = ExpectedAfter(h, x)
      /\ expect_continuation'[p] = expect_continuation[p]
  BY <1>1, <1>3, <1>4, <1>5 DEF TypeOK, ExpectedAfter, HeaderUnit
<1>8. x <=> current_message[e] # NoMessage
  BY <1>1, <1>2 DEF EndpointInv, MessageInv, Reading, InMessage
<1>9. MessageSoFar(e, h) \in Message
  <2>1. [op |-> h.op, buf |-> << >>] \in Message
    BY <1>3, EmptySeq DEF HeaderUnit
  <2> QED BY <1>1, <2>1 DEF MessageSoFar, TypeOK
<1>10. current_message[e] \in Message /\ NoMessage.op = "None" /\ "None" \notin DataOps
  BY <1>1, SMT DEF TypeOK, NoMessage, DataOps
<1>11. error[e] \in {"None", "MessageTooLong", "UnexpectedEof", "Io"} /\ rpc[e] # "Gone"
  BY <1>1, <1>2 DEF EndpointInv, ReaderInv
<1> HIDE DEF h, cs, x, Message
<1>12. CASE /\ Verdict(e, h) # "None" /\ ReadFails(e, Verdict(e, h))
            /\ current_message' = [current_message EXCEPT ![e] =
                                     IF BeginsMessage(e, h) THEN MessageSoFar(e, h) ELSE @]
            /\ UNCHANGED frame
  <2>1. Verdict(e, h) = "MessageTooLong"
    BY <1>3, <1>12 DEF Verdict, x
  <2>2. /\ rpc' = [rpc EXCEPT ![e] = "Failed"]
        /\ error' = [error EXCEPT ![e] = "MessageTooLong"]
        /\ UNCHANGED << pending, got, frame >>
    BY <1>12, <2>1 DEF ReadFails
  <2> DEFINE m == IF BeginsMessage(e, h) THEN MessageSoFar(e, h) ELSE current_message[e]
  <2>3. /\ m \in Message /\ current_message' = [current_message EXCEPT ![e] = m]
        /\ m # NoMessage => m.op \in DataOps
    <3>1. current_message[e] # NoMessage => current_message[e].op \in DataOps
      BY <1>1 DEF EndpointInv, MessageInv
    <3> QED BY <1>3, <1>9, <1>10, <1>12, <3>1 DEF BeginsMessage
  <2> HIDE DEF m
  <2>4. /\ rpc' \in [Endpoints -> ReaderStates] /\ error' \in [Endpoints -> ReadErrors]
        /\ rpc'[e] = "Failed" /\ rpc'[p] = rpc[p]
        /\ error'[e] = "MessageTooLong" /\ error'[p] = error[p]
    BY <1>1, <2>2, SMTT(60) DEF TypeOK, ReaderStates, ReadErrors
  <2>5. /\ current_message' \in [Endpoints -> Message]
        /\ current_message'[e] = m /\ current_message'[p] = current_message[p]
    BY <1>1, <2>3 DEF TypeOK, Message
  <2>6. TypeOK'
    BY <1>1, <1>4, <1>6, <1>7, <2>2, <2>4, <2>5 DEF TypeOK, writerVars, Message
  <2>7. ~Reading(e)'
    BY <2>4 DEF Reading
  <2>8. ReaderInv(e)' /\ MessageInv(e)'
    BY <2>3, <2>4, <2>5, <2>7 DEF ReaderInv, MessageInv, ReaderCloses
  <2>9. OthersSame(p) /\ ~Gone(e) /\ ~Gone(e)'
    BY <1>1, <1>6, <1>7, <1>11, <2>2, <2>4, <2>5 DEF OthersSame, Gone
  <2>10. DirectionInv(p, e)'
    BY <2>7, DirectionOver
  <2> QED BY <1>1, <1>4, <1>5, <1>7, <2>6, <2>8, <2>9, <2>10, ReaderStep
<1>13. CASE /\ Verdict(e, h) = "None" /\ h.len > 0
            /\ frame' = [frame EXCEPT ![e] = h]
            /\ rpc' = [rpc EXCEPT ![e] = "Payload"]
            /\ current_message' = [current_message EXCEPT ![e] =
                                     IF is_control(h.op) THEN @ ELSE MessageSoFar(e, h)]
            /\ UNCHANGED << pending, error, got >>
  <2> DEFINE m == IF is_control(h.op) THEN current_message[e] ELSE MessageSoFar(e, h)
  <2>1. /\ m \in Message /\ current_message' = [current_message EXCEPT ![e] = m]
        /\ m # NoMessage => m.op \in DataOps
        /\ ~is_control(h.op) => m # NoMessage
    <3>1. current_message[e] # NoMessage => current_message[e].op \in DataOps
      BY <1>1 DEF EndpointInv, MessageInv
    <3> QED BY <1>3, <1>9, <1>10, <1>13, <3>1
  <2>2. is_control(h.op) => m = current_message[e]
    OBVIOUS
  <2> HIDE DEF m
  <2>3. /\ rpc' \in [Endpoints -> ReaderStates] /\ frame' \in [Endpoints -> HeaderUnit]
        /\ rpc'[e] = "Payload" /\ rpc'[p] = rpc[p]
        /\ frame'[e] = h /\ frame'[p] = frame[p]
    BY <1>1, <1>3, <1>13, SMT DEF TypeOK, ReaderStates
  <2>4. /\ current_message' \in [Endpoints -> Message]
        /\ current_message'[e] = m /\ current_message'[p] = current_message[p]
    BY <1>1, <2>1 DEF TypeOK, Message
  <2>5. TypeOK'
    BY <1>1, <1>4, <1>6, <1>7, <1>13, <2>3, <2>4 DEF TypeOK, writerVars, Message
  <2>6. ReaderInv(e)'
    <3>1. error'[e] = error[e]
      BY <1>13
    <3> QED BY <1>3, <1>5, <1>7, <1>11, <1>13, <2>3, <3>1 DEF ReaderInv, ReaderCloses
  <2>7. MessageInv(e)'
    <3>1. InMessage(e)' <=> ~is_control(h.op)
      BY <2>3 DEF InMessage
    <3>2. expect_continuation'[e] <=> IF is_control(h.op) THEN x ELSE ~h.fin
      BY <1>3, <1>7 DEF ExpectedAfter, DataHeader
    <3> QED BY <1>8, <2>1, <2>2, <2>3, <2>4, <3>1, <3>2 DEF MessageInv
  <2>8. OthersSame(p) /\ ~Gone(e) /\ ~Gone(e)'
    BY <1>1, <1>6, <1>7, <1>11, <1>13, <2>3, <2>4 DEF OthersSame, Gone
  <2>9. DirectionInv(p, e)'
    <3>1. Leaves(wire[p][1], rpc'[e] = "Payload", frame'[e])
      BY <1>3, <1>13, <2>3 DEF Leaves, Announces
    <3>2. expect_continuation'[e] = ExpectedAfter(wire[p][1], expect_continuation[e])
      BY <1>3, <1>7 DEF x
    <3>3. Reading(e)
      BY <1>2 DEF Reading
    <3> QED BY <1>1, <1>2, <1>4, <1>6, <1>7, <3>1, <3>2, <3>3, DirectionTaken
  <2> QED BY <1>1, <1>4, <1>5, <1>7, <2>5, <2>6, <2>7, <2>8, <2>9, ReaderStep
<1>14. CASE /\ Verdict(e, h) = "None" /\ h.len = 0
            /\ FinishFrame(e, h, << >>, cs) /\ UNCHANGED frame
  <2>1. /\ current_message' \in [Endpoints -> Message]
        /\ rpc' \in [Endpoints -> ReaderStates]
        /\ pending' \in [Endpoints -> Frame] /\ got' \in [Endpoints -> Seq(Frame)]
        /\ error' = error
        /\ rpc'[p] = rpc[p] /\ current_message'[p] = current_message[p]
        /\ rpc'[e] \in {"Idle", "Header", "CloseShutdown"}
        /\ rpc'[e] = "Header" => can_read(cs)
        /\ rpc'[e] = "CloseShutdown" => cs = "Both"
        /\ IF is_control(h.op) THEN current_message'[e] = current_message[e]
           ELSE /\ current_message'[e] # NoMessage <=> ~h.fin
                /\ current_message'[e] # NoMessage => current_message'[e].op \in DataOps
    <3>1. << >> \in Seq(Byte)
      BY EmptySeq
    <3>2. ~is_control(h.op) => MessageSoFar(e, h).op \in DataOps /\ can_read(cs)
      BY <1>3, <1>5 DEF is_control, ControlOps
    <3> DEFINE b == << >>
    <3>3. b \in Seq(Byte) /\ FinishFrame(e, h, b, cs)
      BY <1>14, <3>1
    <3> HIDE DEF b
    <3>4. /\ current_message' \in [Endpoints -> [op : Op \cup {"None"}, buf : Seq(Byte)]]
          /\ rpc' \in [Endpoints -> ReaderStates]
          /\ pending' \in [Endpoints -> Frame] /\ got' \in [Endpoints -> Seq(Frame)]
          /\ error' = error
          /\ \A q \in Endpoints \ {e} :
                rpc'[q] = rpc[q] /\ current_message'[q] = current_message[q]
          /\ rpc'[e] \in {"Idle", "Header", "CloseShutdown"}
          /\ rpc'[e] = "Header" => can_read(cs)
          /\ rpc'[e] = "CloseShutdown" => cs = "Both"
          /\ IF is_control(h.op) THEN current_message'[e] = current_message[e]
             ELSE /\ current_message'[e] # NoMessage <=> ~h.fin
                  /\ current_message'[e] # NoMessage => current_message'[e].op \in DataOps
      BY <1>1, <1>3, <1>5, <3>2, <3>3, FinishFrameEffect
    <3> QED BY <1>1, <3>4 DEF Message
  <2>2. TypeOK'
    BY <1>1, <1>4, <1>6, <1>7, <1>14, <2>1 DEF TypeOK, writerVars, Message
  <2>3. ReaderInv(e)'
    BY <1>7, <1>11, <2>1, SMT DEF ReaderInv, ReaderCloses, can_read
  <2>4. MessageInv(e)'
    <3>1. ~InMessage(e)'
      BY <2>1 DEF InMessage
    <3>2. expect_continuation'[e] <=> IF is_control(h.op) THEN x ELSE ~h.fin
      BY <1>3, <1>7 DEF ExpectedAfter, DataHeader
    <3>3. current_message[e] # NoMessage => current_message[e].op \in DataOps
      BY <1>1 DEF EndpointInv, MessageInv
    <3> QED BY <1>8, <2>1, <3>1, <3>2, <3>3 DEF MessageInv
  <2>5. OthersSame(p) /\ ~Gone(e) /\ ~Gone(e)'
    BY <1>1, <1>6, <1>7, <1>11, <1>14, <2>1 DEF OthersSame, Gone
  <2>6. DirectionInv(p, e)'
    <3>1. CASE Reading(e)'
      <4>1. can_read(cs)
        BY <1>7, <2>1, <3>1 DEF Reading
      <4>2. Leaves(wire[p][1], rpc'[e] = "Payload", frame'[e])
        BY <1>3, <1>5, <1>14, <2>1, <4>1 DEF Leaves, Announces
      <4>3. expect_continuation'[e] = ExpectedAfter(wire[p][1], expect_continuation[e])
        BY <1>3, <1>7 DEF x
      <4>4. Reading(e)
        BY <1>2 DEF Reading
      <4> QED BY <1>1, <1>2, <1>4, <1>6, <1>7, <4>2, <4>3, <4>4, DirectionTaken
    <3>2. CASE ~Reading(e)'
      BY <3>2, DirectionOver
    <3> QED BY <3>1, <3>2
  <2> QED BY <1>1, <1>4, <1>5, <1>7, <2>2, <2>3, <2>4, <2>5, <2>6, ReaderStep
<1> QED BY <1>12, <1>13, <1>14 DEF ReadHeader, h, cs, p

(* A frame whose payload is there, or is taken to be, is finished: with a  *)
(* Close the reader is done, with any other it goes on as before.          *)
LEMMA PayloadFinished ==
  ASSUME Inv, NEW e \in Endpoints, rpc[e] = "Payload",
         NEW bytes \in Seq(Byte), FinishFrame(e, frame[e], bytes, close_state[e]),
         UNCHANGED << close_state, wshut, writerVars, expect_continuation, frame >>,
         wire' \in [Endpoints -> Seq(Unit)], wire'[e] = wire[e],
         rpc'[e] # "Payload" /\ frame[e].op # "Close" => DirectionInv(Peer(e), e)'
  PROVE  Inv'
<1> DEFINE p == Peer(e)
           h == frame[e]
           cs == close_state[e]
           x == expect_continuation[e]
           Message == [op : Op \cup {"None"}, buf : Seq(Byte)]
<1>1. /\ p \in Endpoints /\ p # e /\ Peer(p) = e /\ Peer(e) = p
      /\ EndpointInv(e) /\ TypeOK
  BY Peers DEF Inv
<1>2. /\ h \in HeaderUnit /\ h.op # "Invalid" /\ cs \in CloseState
      /\ can_read(cs) <=> h.op # "Close"
      /\ error[e] \in {"None", "MessageTooLong", "UnexpectedEof", "Io"}
  BY <1>1 DEF EndpointInv, ReaderInv, TypeOK
<1>3. /\ current_message[e] # NoMessage => current_message[e].op \in DataOps
      /\ IF is_control(h.op) THEN x <=> current_message[e] # NoMessage
                             ELSE current_message[e] # NoMessage /\ (x <=> ~h.fin)
  BY <1>1 DEF EndpointInv, MessageInv, Reading, InMessage
<1>4. FinishFrame(e, h, bytes, cs) /\ expect_continuation'[e] = x /\ close_state'[e] = cs
  OBVIOUS
<1>5. ~is_control(h.op) => MessageSoFar(e, h).op \in DataOps /\ can_read(cs)
  BY <1>2, <1>3 DEF MessageSoFar, is_control, ControlOps
<1> HIDE DEF p, h, cs, x
<1>6. /\ current_message' \in [Endpoints -> [op : Op \cup {"None"}, buf : Seq(Byte)]]
      /\ rpc' \in [Endpoints -> ReaderStates]
      /\ pending' \in [Endpoints -> Frame] /\ got' \in [Endpoints -> Seq(Frame)]
      /\ error' = error
      /\ \A q \in Endpoints \ {e} :
            rpc'[q] = rpc[q] /\ current_message'[q] = current_message[q]
      /\ rpc'[e] \in {"Idle", "Header", "CloseShutdown"}
      /\ rpc'[e] = "Header" => can_read(cs)
      /\ rpc'[e] = "CloseShutdown" => cs = "Both"
      /\ IF is_control(h.op) THEN current_message'[e] = current_message[e]
         ELSE /\ current_message'[e] # NoMessage <=> ~h.fin
              /\ current_message'[e] # NoMessage => current_message'[e].op \in DataOps
  BY <1>1, <1>2, <1>4, <1>5, FinishFrameEffect
<1>7. TypeOK'
  BY <1>1, <1>6 DEF TypeOK, writerVars
<1>8. ReaderInv(e)'
  BY <1>2, <1>4, <1>6, SMT DEF ReaderInv, ReaderCloses, can_read
<1>9. MessageInv(e)'
  <2>1. ~InMessage(e)'
    BY <1>6 DEF InMessage
  <2> QED BY <1>3, <1>4, <1>6, <2>1 DEF MessageInv
<1>10. OthersSame(p) /\ ~Gone(e) /\ ~Gone(e)'
  BY <1>1, <1>6 DEF OthersSame, Gone
<1>11. DirectionInv(p, e)'
  <2>1. CASE h.op = "Close"
    <3>1. ~Reading(e)'
      BY <1>2, <1>4, <1>6, <2>1 DEF Reading
    <3> QED BY <3>1, DirectionOver
  <2>2. CASE h.op # "Close"
    BY <1>6, <2>2 DEF h, p
  <2> QED BY <2>1, <2>2
<1> QED BY <1>1, <1>4, <1>7, <1>8, <1>9, <1>10, <1>11, ReaderStep DEF cs

(* The payload of a frame arrives.                                         *)
LEMMA ReadPayloadKeepsInv ==
  ASSUME Inv, NEW e \in Endpoints, ReadPayload(e)
  PROVE  Inv'
<1> DEFINE p == Peer(e)
           s == wire[p]
           bytes == Head(s).bytes
           len == frame[e].len
           b == SubSeq(bytes, 1, len)
<1>1. /\ p \in Endpoints /\ p # e /\ Peer(p) = e /\ Peer(e) = p
      /\ EndpointInv(e) /\ DirectionInv(p, e) /\ TypeOK
  BY Peers DEF Inv
<1>2. /\ rpc[e] = "Payload" /\ s # << >> /\ Head(s).kind = "data" /\ len <= Len(bytes)
      /\ FinishFrame(e, frame[e], b, close_state[e])
      /\ wire' = [wire EXCEPT ![p] = IF len < Len(bytes)
                     THEN << Data(SubSeq(bytes, len + 1, Len(bytes))) >> \o Tail(@)
                     ELSE Tail(@)]
      /\ UNCHANGED << close_state, wshut, writerVars, expect_continuation, frame >>
  BY DEF ReadPayload
<1>3. s \in Seq(Unit) /\ frame[e] \in HeaderUnit /\ len \in Nat
  BY <1>1 DEF TypeOK, HeaderUnit
<1>4. Head(s) = s[1] /\ Head(s) \in Unit /\ Tail(s) \in Seq(Unit)
  BY <1>2, <1>3, HeadAndTail
<1>5. bytes \in Seq(Byte) /\ Len(bytes) \in Nat
  BY <1>2, <1>4, LenProperties DEF Unit, DataUnit, HeaderUnit
<1> HIDE DEF bytes, len, s
<1>6. b \in Seq(Byte)
  BY <1>2, <1>3, <1>5, SubSeqProperties, SMT
<1>7. /\ wire' \in [Endpoints -> Seq(Unit)] /\ wire'[e] = wire[e]
      /\ len = Len(bytes) => wire'[p] = Tail(s)
  <2> DEFINE rest == SubSeq(bytes, len + 1, Len(bytes))
  <2>1. ASSUME len < Len(bytes) PROVE << Data(rest) >> \o Tail(s) \in Seq(Unit)
    <3>1. rest \in Seq(Byte)
      BY <1>2, <1>3, <1>5, <2>1, SubSeqProperties, SMT
    <3> HIDE DEF rest
    <3>2. Data(rest) \in Unit
      BY <3>1 DEF Data, DataUnit, Unit
    <3>3. << Data(rest) >> \in Seq(Unit)
      BY <3>2
    <3> QED BY <1>4, <3>3, ConcatProperties
  <2> HIDE DEF rest
  <2>2. wire' = [wire EXCEPT ![p] = IF len < Len(bytes) THEN << Data(rest) >> \o Tail(s)
                                    ELSE Tail(s)]
    BY <1>2 DEF s, rest
  <2>3. wire \in [Endpoints -> Seq(Unit)]
    BY <1>1 DEF TypeOK
  <2>4. ~(Len(bytes) < Len(bytes))
    BY <1>5, SMT
  <2> QED BY <1>1, <1>4, <2>1, <2>2, <2>3, <2>4
<1>8. ASSUME rpc'[e] # "Payload", frame[e].op # "Close" PROVE DirectionInv(p, e)'
  <2>1. Reading(e) /\ s[1].kind = "data"
    BY <1>2, <1>4 DEF Reading
  <2>2. Holds(s[1], frame[e])
    BY <1>1, <1>2, <2>1 DEF DirectionInv, WireOK, Awaited, s
  <2>3. len = Len(bytes)
    BY <1>4, <1>8, <2>2 DEF Holds, len, bytes
  <2>4. wire'[p] = Tail(s)
    BY <1>7, <2>3
  <2>5. Leaves(s[1], rpc'[e] = "Payload", frame'[e])
    BY <1>8, <2>1 DEF Leaves, Announces
  <2>6. expect_continuation'[e] = ExpectedAfter(s[1], expect_continuation[e])
    BY <1>2, <2>1 DEF ExpectedAfter, DataHeader
  <2>7. close_state'[p] = close_state[p] /\ wire[p] # << >> /\ wire'[p] = Tail(wire[p])
        /\ UNCHANGED << writerVars, wshut >>
        /\ Leaves(wire[p][1], rpc'[e] = "Payload", frame'[e])
        /\ expect_continuation'[e] = ExpectedAfter(wire[p][1], expect_continuation[e])
    BY <1>2, <2>4, <2>5, <2>6 DEF s
  <2> QED BY <1>1, <2>1, <2>7, DirectionTaken
<1> QED BY <1>1, <1>2, <1>6, <1>7, <1>8, PayloadFinished

(* A direction at its end is as good as any reader wants it: nothing is on *)
(* the wire, and nothing more will be written.                             *)
LEMMA DirectionEnded ==
  ASSUME NEW p, ShutInv(p), WriterInv(p),
         NEW e, wire[p] = << >>, wshut[p] = TRUE,
         UNCHANGED << wire, wshut, writerVars >>, close_state'[p] = close_state[p]
  PROVE  DirectionInv(p, e)'
<1>1. ~CanSend(p)
  BY DEF ShutInv, WriterInv, CanSend, can_write
<1>2. ~CanSend(p)'
  BY <1>1 DEF CanSend, writerVars
<1>3. Len(<< >>) = 0
  BY EmptySeq
<1>4. \A y, g, x : WireOK(p, << >>, y, g, x)
  BY <1>3, SMT DEF WireOK
<1> QED BY <1>2, <1>4 DEF DirectionInv

(* A step of the reader of e that leaves the wire and the close state      *)
(* alone.                                                                  *)
ReaderQuiet(e) ==
  UNCHANGED << close_state, wire, wshut, writerVars,
               expect_continuation, current_message, frame >>

(* The reader gives up: the connection is gone, or the call is interrupted,*)
(* or the stream ends inside a payload.                                    *)
LEMMA ReadFailsKeepsInv ==
  ASSUME Inv, NEW e \in Endpoints, NEW err \in {"UnexpectedEof", "Io"},
         rpc[e] \in {"Header", "Payload"}, ReadFails(e, err), ReaderQuiet(e)
  PROVE  Inv'
<1> DEFINE p == Peer(e)
<1>1. /\ p \in Endpoints /\ p # e /\ Peer(p) = e /\ Peer(e) = p
      /\ EndpointInv(e) /\ TypeOK
  BY Peers DEF Inv
<1> HIDE DEF p
<1>2. /\ rpc' \in [Endpoints -> ReaderStates] /\ error' \in [Endpoints -> ReadErrors]
      /\ rpc'[e] = "Failed" /\ rpc'[p] = rpc[p]
      /\ error'[e] = err /\ error'[p] = error[p]
      /\ UNCHANGED << pending, got >>
  BY <1>1, SMT DEF ReadFails, TypeOK, ReaderStates, ReadErrors
<1>3. TypeOK'
  BY <1>1, <1>2 DEF TypeOK, writerVars, ReaderQuiet
<1>4. ~Reading(e)'
  BY <1>2 DEF Reading
<1>5. ReaderInv(e)' /\ MessageInv(e)'
  BY <1>1, <1>2, <1>4 DEF ReaderInv, MessageInv, ReaderCloses, ReaderQuiet, EndpointInv
<1>6. OthersSame(p) /\ ~Gone(e) /\ ~Gone(e)'
  BY <1>1, <1>2 DEF OthersSame, Gone, ReaderQuiet
<1>7. DirectionInv(p, e)'
  BY <1>4, DirectionOver
<1> QED BY <1>1, <1>3, <1>5, <1>6, <1>7, ReaderStep DEF ReaderQuiet

(* The stream ends inside a payload.                                       *)
LEMMA ReadPayloadEofKeepsInv ==
  ASSUME Inv, NEW e \in Endpoints, ReadPayloadEof(e)
  PROVE  Inv'
<1> DEFINE p == Peer(e)
           b == Zeros(frame[e].len)
<1>1. /\ p \in Endpoints /\ Peer(e) = p /\ Peer(p) = e /\ p # e
      /\ EndpointInv(p) /\ TypeOK
      /\ rpc[e] = "Payload" /\ wire[p] = << >> /\ wshut[p] = TRUE
      /\ UNCHANGED << close_state, wire, wshut, writerVars, expect_continuation, frame >>
  BY Peers DEF Inv, ReadPayloadEof, AtEof, TypeOK
<1>2. b \in Seq(Byte)
  <2>1. frame[e].len \in Nat
    BY <1>1 DEF TypeOK, HeaderUnit
  <2>2. 0 \in Byte
    BY SMT DEF Byte
  <2> DEFINE n == frame[e].len
  <2>3. Zeros(n) \in [1 .. n -> Byte]
    BY <2>2 DEF Zeros
  <2> HIDE DEF n
  <2>4. n \in Nat
    BY <2>1 DEF n
  <2> QED BY <2>3, <2>4, SeqDef DEF n
<1> HIDE DEF b, p
<1>3. CASE FinishFrame(e, frame[e], b, close_state[e])
  <2>1. DirectionInv(p, e)'
    BY <1>1, DirectionEnded DEF EndpointInv
  <2>2. wire' \in [Endpoints -> Seq(Unit)] /\ wire'[e] = wire[e]
    BY <1>1 DEF TypeOK
  <2> QED BY <1>1, <1>2, <1>3, <2>1, <2>2, PayloadFinished
<1>4. CASE ReadFails(e, "UnexpectedEof") /\ UNCHANGED current_message
  BY <1>1, <1>4, ReadFailsKeepsInv DEF ReaderQuiet
<1> QED BY <1>3, <1>4 DEF ReadPayloadEof, b

(* The stream ends where a header should begin: the read side is closed.   *)
LEMMA ReadEofKeepsInv ==
  ASSUME Inv, NEW e \in Endpoints, ReadEof(e)
  PROVE  Inv'
<1> DEFINE p == Peer(e)
           cs == shutdown_state(close_state[e], "Read")
<1>1. /\ p \in Endpoints /\ p # e /\ Peer(p) = e /\ Peer(e) = p
      /\ EndpointInv(e) /\ TypeOK /\ close_state[e] \in CloseState
  BY Peers DEF Inv, TypeOK
<1>2. cs \in CloseState /\ ~can_read(cs)
  BY <1>1, Shutdown
<1>3. /\ rpc[e] = "Header" /\ close_state' = [close_state EXCEPT ![e] = cs]
      /\ rpc' = [rpc EXCEPT ![e] = "Idle"]
      /\ got' = [got EXCEPT ![e] = Append(@, NoFrame)]
      /\ UNCHANGED << wire, wshut, writerVars,
                      expect_continuation, current_message, frame, pending, error >>
  BY DEF ReadEof, Deliver
<1> HIDE DEF p, cs
<1>4. got' \in [Endpoints -> Seq(Frame)]
  <2>1. NoClose \in Code
    BY SMT DEF NoClose, Code, MaxCode
  <2>2. << >> \in Seq(Byte)
    BY EmptySeq
  <2>3. NoFrame \in Frame
    BY <2>1, <2>2 DEF NoFrame, Frame, Op, ControlOps
  <2>4. Append(got[e], NoFrame) \in Seq(Frame)
    BY <1>1, <2>3, AppendProperties DEF TypeOK
  <2> QED BY <1>1, <1>3, <2>4 DEF TypeOK
<1>5. /\ rpc' \in [Endpoints -> ReaderStates] /\ rpc'[e] = "Idle" /\ rpc'[p] = rpc[p]
      /\ close_state' \in [Endpoints -> CloseState]
      /\ close_state'[e] = cs /\ close_state'[p] = close_state[p]
  BY <1>1, <1>2, <1>3, SMT DEF TypeOK, ReaderStates
<1>6. TypeOK'
  BY <1>1, <1>3, <1>4, <1>5 DEF TypeOK, writerVars
<1>7. ~Reading(e)'
  BY <1>2, <1>5 DEF Reading
<1>8. ReaderInv(e)' /\ MessageInv(e)'
  BY <1>1, <1>3, <1>5, <1>7 DEF EndpointInv, ReaderInv, MessageInv, ReaderCloses
<1>9. OthersSame(p) /\ ~Gone(e) /\ ~Gone(e)'
  BY <1>1, <1>3, <1>5 DEF OthersSame, Gone
<1>10. DirectionInv(p, e)'
  BY <1>7, DirectionOver
<1> QED BY <1>1, <1>3, <1>5, <1>6, <1>8, <1>9, <1>10, ReaderStep DEF cs

(* next() returns the Close frame once close() is over; nothing more is    *)
(* read.                                                                   *)
LEMMA ReaderClosedKeepsInv ==
  ASSUME Inv, NEW e \in Endpoints, ReaderHangUp(e) \/ ReaderCloseTimeout(e)
  PROVE  Inv'
<1> DEFINE p == Peer(e)
<1>1. /\ p \in Endpoints /\ p # e /\ Peer(p) = e /\ Peer(e) = p
      /\ EndpointInv(e) /\ TypeOK
  BY Peers DEF Inv
<1>2. /\ rpc[e] \in ReaderCloses
      /\ rpc' = [rpc EXCEPT ![e] = "Idle"]
      /\ got' = [got EXCEPT ![e] = Append(@, pending[e])]
      /\ UNCHANGED << pending, error >> /\ ReaderQuiet(e)
  BY DEF ReaderHangUp, ReaderCloseTimeout, ReaderClosed, ReaderCloses, Deliver, ReaderQuiet
<1> HIDE DEF p
<1>3. got' \in [Endpoints -> Seq(Frame)]
  <2>1. Append(got[e], pending[e]) \in Seq(Frame)
    BY <1>1, AppendProperties DEF TypeOK
  <2> QED BY <1>1, <1>2, <2>1 DEF TypeOK
<1>4. rpc' \in [Endpoints -> ReaderStates] /\ rpc'[e] = "Idle" /\ rpc'[p] = rpc[p]
  BY <1>1, <1>2, SMT DEF TypeOK, ReaderStates
<1>5. TypeOK'
  BY <1>1, <1>2, <1>3, <1>4 DEF TypeOK, writerVars, ReaderQuiet
<1>6. close_state[e] = "Both" /\ rpc[e] # "Gone"
  BY <1>1, <1>2 DEF EndpointInv, ReaderInv, ReaderCloses
<1>7. ~Reading(e)'
  BY <1>2, <1>4, <1>6 DEF Reading, can_read, ReaderQuiet
<1>8. ReaderInv(e)' /\ MessageInv(e)'
  BY <1>1, <1>2, <1>4, <1>7
     DEF EndpointInv, ReaderInv, MessageInv, ReaderCloses, ReaderQuiet
<1>9. OthersSame(p) /\ ~Gone(e) /\ ~Gone(e)'
  BY <1>1, <1>2, <1>4, <1>6 DEF OthersSame, Gone, ReaderQuiet
<1>10. DirectionInv(p, e)'
  BY <1>7, DirectionOver
<1> QED BY <1>1, <1>2, <1>5, <1>8, <1>9, <1>10, ReaderStep DEF ReaderQuiet

(* shutdown(Write) by the reader comes when both sides are closed, too; it *)
(* may cut what the writer is writing.                                     *)
LEMMA ReaderShutdownKeepsInv ==
  ASSUME Inv, NEW e \in Endpoints, ReaderShutdown(e)
  PROVE  Inv'
<1> DEFINE p == Peer(e)
<1>1. /\ p \in Endpoints /\ p # e /\ Peer(p) = e
      /\ EndpointInv(e) /\ EndpointInv(p) /\ DirectionInv(e, p) /\ TypeOK
  BY Peers DEF Inv
<1> HIDE DEF p
<1>2. /\ wshut'[e] = TRUE /\ wshut'[p] = wshut[p] /\ wshut' \in [Endpoints -> BOOLEAN]
      /\ rpc[e] = "CloseShutdown" /\ rpc'[e] = "CloseHangUp" /\ rpc'[p] = rpc[p]
      /\ rpc' \in [Endpoints -> ReaderStates]
      /\ UNCHANGED << close_state, wire, writerVars,
                      expect_continuation, current_message, frame, pending, error, got >>
  BY <1>1, SMT DEF TypeOK, ReaderShutdown, ReaderStates, ReaderCloses
<1>3. TypeOK'
  BY <1>1, <1>2 DEF TypeOK, writerVars
<1>4. CloseIsLastSent'
  BY <1>2 DEF Inv, CloseIsLastSent, writerVars
<1>5. close_state[e] = "Both"
  BY <1>1, <1>2 DEF EndpointInv, ReaderInv, ReaderCloses
<1>6. EndpointInv(e)'
  <2>1. WriterInv(e)' /\ ShutInv(e)' /\ OutOK(e, out'[e])
    BY <1>1, <1>2, <1>5 DEF EndpointInv, WriterInv, ShutInv, Gone, writerVars
  <2>2. ReaderInv(e)' /\ MessageInv(e)'
    BY <1>1, <1>2, <1>5 DEF EndpointInv, ReaderInv, MessageInv, Reading, ReaderCloses
  <2> QED BY <2>1, <2>2 DEF EndpointInv
<1>7. EndpointInv(p)'
  BY <1>1, <1>2, EndpointSame DEF writerVars
<1>8. DirectionInv(e, p)'
  BY <1>1, <1>2 DEF DirectionInv, CanSend, Reading, writerVars
<1>9. DirectionInv(p, e)'
  <2>1. ~Reading(e)'
    BY <1>2 DEF Reading
  <2> QED BY <2>1, DirectionOver
<1> QED BY <1>3, <1>4, <1>6, <1>7, <1>8, <1>9, InvParts DEF p

(* A dropped WebSocket neither reads nor writes.                           *)
LEMMA DropKeepsInv ==
  ASSUME Inv, NEW e \in Endpoints, Drop(e)
  PROVE  Inv'
<1> DEFINE p == Peer(e)
<1>1. /\ p \in Endpoints /\ p # e /\ Peer(p) = e
      /\ EndpointInv(e) /\ EndpointInv(p) /\ DirectionInv(e, p) /\ TypeOK
  BY Peers DEF Inv
<1> HIDE DEF p
<1>2. /\ wshut'[e] = TRUE /\ wshut'[p] = wshut[p] /\ wshut' \in [Endpoints -> BOOLEAN]
      /\ rpc'[e] = "Gone" /\ rpc'[p] = rpc[p] /\ rpc' \in [Endpoints -> ReaderStates]
      /\ wpc'[e] = "Gone" /\ wpc'[p] = wpc[p] /\ wpc' \in [Endpoints -> WriterStates]
      /\ out'[e] = << >> /\ out'[p] = out[p] /\ out' \in [Endpoints -> Seq(Unit)]
      /\ UNCHANGED << close_state, wire, last_sent_message_op, sent,
                      expect_continuation, current_message, frame, pending, error, got >>
  BY <1>1, EmptySeq, SMT DEF TypeOK, Drop, ReaderStates, WriterStates
<1>3. TypeOK'
  BY <1>1, <1>2 DEF TypeOK
<1>4. CloseIsLastSent'
  BY <1>2 DEF Inv, CloseIsLastSent
<1>5. EndpointInv(e)'
  <2>1. WriterInv(e)' /\ ShutInv(e)' /\ OutOK(e, out'[e])
    BY <1>2 DEF WriterInv, ShutInv, Gone, OutOK, WriterCloses
  <2>2. ReaderInv(e)' /\ MessageInv(e)'
    BY <1>1, <1>2 DEF EndpointInv, ReaderInv, MessageInv, Reading, ReaderCloses
  <2> QED BY <2>1, <2>2 DEF EndpointInv
<1>6. EndpointInv(p)'
  BY <1>1, <1>2, EndpointSame
<1>7. DirectionInv(e, p)'
  BY <1>1, <1>2 DEF DirectionInv, CanSend, Reading
<1>8. DirectionInv(p, e)'
  <2>1. ~Reading(e)'
    BY <1>2 DEF Reading
  <2> QED BY <2>1, DirectionOver
<1> QED BY <1>3, <1>4, <1>5, <1>6, <1>7, <1>8, InvParts DEF p

-----------------------------------------------------------------------------
(* The invariant holds at the start: nothing has been sent and nothing is  *)
(* expected.                                                               *)
LEMMA InitInv ==
  ASSUME Init
  PROVE  Inv
<1>1. TypeOK
  <2>1. NoMessage \in [op : Op \cup {"None"}, buf : Seq(Byte)]
    BY EmptySeq DEF NoMessage
  <2>2. NoFrame \in Frame
    <3>1. NoClose \in Code
      BY SMT DEF NoClose, Code, MaxCode
    <3> QED BY <3>1, EmptySeq DEF NoFrame, Frame, Op, ControlOps
  <2>3. NoHeader \in HeaderUnit
    BY SMT DEF NoHeader, Header, HeaderUnit, Op, ControlOps
  <2>4. << >> \in Seq(Unit) /\ << >> \in Seq(BorrowedFrame) /\ << >> \in Seq(Frame)
    BY EmptySeq
  <2>5. "None" \in CloseState /\ "None" \in ReadErrors
        /\ "Idle" \in WriterStates /\ "Idle" \in ReaderStates
    BY DEF CloseState, ReadErrors, WriterStates, ReaderStates
  <2> QED BY <2>1, <2>2, <2>3, <2>4, <2>5 DEF Init, TypeOK
<1>2. CloseIsLastSent
  <2>1. Len(<< >>) = 0
    BY EmptySeq
  <2> QED BY <2>1, SMT DEF Init, CloseIsLastSent, can_write
<1>3. ASSUME NEW e \in Endpoints PROVE EndpointInv(e)
  BY DEF Init, EndpointInv, WriterInv, ReaderInv, MessageInv, ShutInv, OutOK, Reading,
         InMessage, Gone, WriterCloses, ReaderCloses, NoMessage
<1>4. ASSUME NEW e \in Endpoints, NEW p \in Endpoints PROVE DirectionInv(e, p)
  <2>1. Len(<< >>) = 0
    BY EmptySeq
  <2>2. WireOK(e, << >>, FALSE, frame[p], FALSE)
    BY <2>1, SMT DEF WireOK
  <2>3. ~Expects(<< >>, 1, FALSE)
    BY ExpectsFirst
  <2>4. WholeFrames(<< >>, FALSE)
    BY DEF WholeFrames
  <2>5. RestingOK(<< >>, FALSE, FALSE, FALSE)
    <3>1. Len(<< >>) + 1 = 1
      BY <2>1, SMT
    <3> QED BY <2>3, <2>4, <3>1 DEF RestingOK
  <2>6. WritingOK(<< >>, << >>, FALSE, FALSE, frame[p], FALSE)
    BY DEF WritingOK
  <2>7. /\ wire[e] = << >> /\ out[e] = << >> /\ last_sent_message_op[e] = "None"
        /\ rpc[p] = "Idle" /\ expect_continuation[p] = FALSE
    BY DEF Init
  <2> QED BY <2>2, <2>5, <2>6, <2>7 DEF DirectionInv
<1> QED BY <1>1, <1>2, <1>3, <1>4, Peers DEF Inv

(* Every step keeps the invariant.                                         *)
LEMMA StepKeepsInv ==
  ASSUME Inv, [Next]_vars
  PROVE  Inv'
<1>1. CASE UNCHANGED vars
  <2>1. UNCHANGED << close_state, last_sent_message_op, wpc, out, sent, wire, wshut,
                     expect_continuation, current_message, rpc, frame, pending, error, got >>
    BY <1>1 DEF vars, writerVars, readerVars
  <2>2. TypeOK' /\ CloseIsLastSent'
    BY <2>1 DEF Inv, TypeOK, CloseIsLastSent
  <2>3. ASSUME NEW e \in Endpoints PROVE EndpointInv(e)' /\ DirectionInv(e, Peer(e))'
    <3>1. EndpointInv(e)'
      BY <2>1, EndpointSame DEF Inv
    <3>2. WriterSame(e) /\ ReaderSame(Peer(e)) /\ DirectionInv(e, Peer(e))
      BY <2>1 DEF Inv, WriterSame, ReaderSame, CanSend, Reading
    <3> QED BY <3>1, <3>2, DirectionSame
  <2> QED BY <2>2, <2>3 DEF Inv
<1>2. ASSUME NEW e \in Endpoints, Writer(e) PROVE Inv'
  BY <1>2, WriteKeepsInv, WriteFailsKeepsInv, WriterShutdownKeepsInv, WriterClosedKeepsInv
     DEF Writer
<1>3. ASSUME NEW e \in Endpoints, Reader(e) PROVE Inv'
  BY <1>3, ReadHeaderKeepsInv, ReadPayloadKeepsInv, ReadPayloadEofKeepsInv, ReadEofKeepsInv,
     ReaderShutdownKeepsInv, ReaderClosedKeepsInv DEF Reader
<1>4. ASSUME NEW e \in Endpoints, Application(e) PROVE Inv'
  <2>1. CASE ReadInterrupted(e)
    BY <2>1, ReadFailsKeepsInv DEF ReadInterrupted, ReaderQuiet
  <2> QED BY <1>4, <2>1, SendKeepsInv, NextKeepsInv, DropKeepsInv DEF Application
<1> QED BY <1>1, <1>2, <1>3, <1>4 DEF Next

-----------------------------------------------------------------------------
(* The two ends of a connection agree, at every await of either side, on   *)
(* where they are in the stream of frames: Inv is an invariant.            *)
THEOREM Invariance == Spec => []Inv
<1>1. Init => Inv
  BY InitInv
<1>2. Inv /\ [Next]_vars => Inv'
  BY StepKeepsInv
<1> QED BY <1>1, <1>2, PTL DEF Spec

(* The variables of both endpoints keep their types.                       *)
THEOREM TypeCorrect == Spec => []TypeOK
<1>1. Inv => TypeOK
  BY DEF Inv
<1> QED BY <1>1, Invariance, PTL

(* read_frame_header is never handed payload bytes, nor read_frame_data a  *)
(* header or too few bytes, whatever was cut short or interrupted before.  *)
THEOREM InSync == Spec => []FramesInSync
<1>1. ASSUME Inv, NEW e \in Endpoints, wire[Peer(e)] # << >>
      PROVE  LET u == Head(wire[Peer(e)])
             IN  /\ rpc[e] = "Header" => u.kind = "header"
                 /\ rpc[e] = "Payload" => u.kind = "data" /\ frame[e].len <= Len(u.bytes)
  <2> DEFINE s == wire[Peer(e)]
  <2>1. /\ s \in Seq(Unit) /\ s # << >> /\ frame[e].len \in Nat
        /\ DirectionInv(Peer(e), e)
    BY <1>1, Peers DEF Inv, TypeOK, HeaderUnit
  <2>2. Head(s) = s[1] /\ s[1] \in Unit
    BY <2>1, HeadAndTail
  <2>3. ASSUME rpc[e] = "Header" PROVE s[1].kind = "header"
    BY <2>1, <2>3 DEF DirectionInv, Reading, WireOK, Awaited
  <2>4. ASSUME rpc[e] = "Payload" PROVE s[1].kind = "data" /\ frame[e].len <= Len(s[1].bytes)
    <3>1. Holds(s[1], frame[e])
      BY <2>1, <2>4 DEF DirectionInv, Reading, WireOK, Awaited
    <3> QED BY <2>1, <3>1, SMT DEF Holds
  <2> QED BY <2>2, <2>3, <2>4
<1>2. Inv => FramesInSync
  BY <1>1 DEF FramesInSync
<1> QED BY <1>2, Invariance, PTL

(* Between two endpoints that run this code next() returns no protocol     *)
(* error, and unreachable!() in read_frame is not reached.                 *)
THEOREM NoProtocolErrorArises == Spec => []NoProtocolError
<1>1. Inv => NoProtocolError
  BY DEF Inv, EndpointInv, ReaderInv, NoProtocolError
<1> QED BY <1>1, Invariance, PTL

(* close() shuts the write side down only once both sides are closed.      *)
THEOREM ShutdownComesLast == Spec => []ShutdownOnlyWhenBothClosed
<1>1. Inv => ShutdownOnlyWhenBothClosed
  BY DEF Inv, EndpointInv, ShutInv, ShutdownOnlyWhenBothClosed
<1> QED BY <1>1, Invariance, PTL

(* send_frame accepts nothing after a Close, and close_state says so.      *)
THEOREM CloseSentLast == Spec => []CloseIsLastSent
<1>1. Inv => CloseIsLastSent
  BY DEF Inv
<1> QED BY <1>1, Invariance, PTL

(* The frame that a racing close() of the reader may cut is a Close.       *)
THEOREM OnlyCloseIsCut == Spec => []OnlyCloseFrameCut
<1>1. ASSUME Inv, NEW e \in Endpoints, wshut[e], ~Gone(e)
      PROVE  sent[e] # << >> /\ sent[e][Len(sent[e])].op = "Close"
  <2>1. close_state[e] = "Both"
    BY <1>1 DEF Inv, EndpointInv, ShutInv
  <2>2. ~can_write(close_state[e])
    BY <2>1 DEF can_write
  <2>3. PICK i \in 1 .. Len(sent[e]) : sent[e][i].op = "Close" /\ i = Len(sent[e])
    BY <1>1, <2>2 DEF Inv, CloseIsLastSent
  <2>4. Len(<< >>) = 0
    BY EmptySeq
  <2> QED BY <2>3, <2>4, SMT
<1>2. Inv => OnlyCloseFrameCut
  BY <1>1 DEF OnlyCloseFrameCut
<1> QED BY <1>2, Invariance, PTL

(* Shared::shutdown only ever closes: no step reopens a side.              *)
THEOREM StaysClosed == Spec => NeverReopens
<1> DEFINE Kept(e) == /\ can_read(close_state'[e]) => can_read(close_state[e])
                      /\ can_write(close_state'[e]) => can_write(close_state[e])
<1>1. ASSUME TypeOK, [Next]_vars, NEW e \in Endpoints PROVE Kept(e)
  <2>1. close_state \in [Endpoints -> CloseState] /\ close_state[e] \in CloseState
    BY <1>1 DEF TypeOK
  <2>2. ASSUME close_state' = close_state PROVE Kept(e)
    BY <2>2
  <2>3. ASSUME NEW a \in Endpoints, NEW cs,
               close_state' = [close_state EXCEPT ![a] = cs],
               cs \in {close_state[a], shutdown_state(close_state[a], "Read"),
                       shutdown_state(close_state[a], "Write")}
        PROVE  Kept(e)
    BY <2>1, <2>3, Shutdown
  <2>4. ASSUME NEW a \in Endpoints, NEW f \in Frames, Send(a, f) PROVE Kept(e)
    BY <2>2, <2>3, <2>4 DEF Send
  <2>5. ASSUME NEW a \in Endpoints, ReadHeader(a) PROVE Kept(e)
    BY <2>3, <2>5 DEF ReadHeader, StateAfterHeader
  <2>6. ASSUME NEW a \in Endpoints, ReadEof(a) PROVE Kept(e)
    BY <2>3, <2>6 DEF ReadEof
  <2>7. ASSUME NEW a \in Endpoints, Writer(a) PROVE close_state' = close_state
    BY <2>7 DEF Writer, Write, WriteFails, WriterShutdown, WriterHangUp, WriterCloseTimeout
  <2>8. ASSUME NEW a \in Endpoints,
               \/ ReadPayload(a) \/ ReadPayloadEof(a)
               \/ ReaderShutdown(a) \/ ReaderHangUp(a) \/ ReaderCloseTimeout(a)
               \/ Next_(a) \/ ReadInterrupted(a) \/ Drop(a)
        PROVE  close_state' = close_state
    BY <2>8 DEF ReadPayload, ReadPayloadEof, ReaderShutdown, ReaderHangUp,
                ReaderCloseTimeout, ReaderClosed, Next_, ReadInterrupted, Drop
  <2> QED BY <1>1, <2>2, <2>4, <2>5, <2>6, <2>7, <2>8
          DEF Next, Reader, Application, vars
<1>2. TypeOK /\ [Next]_vars => [\A e \in Endpoints : Kept(e)]_vars
  BY <1>1
<1> QED BY <1>2, TypeCorrect, PTL DEF Spec, NeverReopens

-----------------------------------------------------------------------------
(* What one endpoint promises its application, whatever its peer does:     *)
(* nothing comes after a Close, no message is longer than the limit, and an*)
(* endpoint used by one task closes once.  Each rests on Inv and on an     *)
(* invariant of the endpoint's own state.                                  *)

\* e's part of the state is as it was
Untouched(e) ==
  /\ close_state'[e] = close_state[e] /\ wpc'[e] = wpc[e] /\ out'[e] = out[e]
  /\ rpc'[e] = rpc[e] /\ frame'[e] = frame[e] /\ pending'[e] = pending[e]
  /\ current_message'[e] = current_message[e]
  /\ wshut'[e] = wshut[e] /\ got'[e] = got[e]

Step(e) == Writer(e) \/ Reader(e) \/ Application(e)

NoCloseGot(e) == \A i \in 1 .. Len(got[e]) : got[e][i].op # "Close"

\* next() still reads, or may be called to: it has returned no Close
GotInv(e) ==
  /\ \A i \in 1 .. Len(got[e]) : got[e][i].op = "Close" => i = Len(got[e])
  /\ can_read(close_state[e]) \/ rpc[e] \in {"Header", "Payload"} \cup ReaderCloses
       => NoCloseGot(e)

\* the frame that is being read fits, its message with it, and so did all others
Fits(e, n) == n <= MaxMessageLength[e]

BoundInv(e) ==
  /\ Fits(e, Len(current_message[e].buf))
  /\ \A i \in 1 .. Len(got[e]) : Fits(e, Len(got[e][i].bytes))
  /\ Fits(e, Len(pending[e].bytes))
  /\ rpc[e] = "Payload" =>
       /\ Fits(e, frame[e].len)
       /\ ~is_control(frame[e].op) => Fits(e, Len(current_message[e].buf) + frame[e].len)

\* one task: while the writer is in a call the reader is not
TaskInv(e) ==
  /\ wpc[e] \in {"Idle", "Failed", "Gone"} \/ rpc[e] \in {"Idle", "Failed", "Gone"}
  /\ wshut[e] => wpc[e] \notin {"Write", "CloseWrite"}

-----------------------------------------------------------------------------
(* A step of one endpoint leaves the other's state alone.                  *)
LEMMA OthersUntouched ==
  ASSUME TypeOK, NEW a \in Endpoints, NEW e \in Endpoints, e # a, Step(a)
  PROVE  Untouched(e)
<1>1. ASSUME Writer(a) PROVE Untouched(e)
  BY <1>1 DEF Writer, Write, WriteFails, WriterShutdown, WriterHangUp, WriterCloseTimeout,
              TypeOK, Untouched, readerVars
<1>2. ASSUME NEW h, NEW bytes, NEW cs, FinishFrame(a, h, bytes, cs)
      PROVE  /\ rpc'[e] = rpc[e] /\ pending'[e] = pending[e] /\ got'[e] = got[e]
             /\ current_message'[e] = current_message[e]
  BY <1>2 DEF FinishFrame, ControlFrame, CloseFrame, MessageFragment, MessageEnd, Deliver, TypeOK
<1>3. ASSUME NEW err, ReadFails(a, err)
      PROVE  rpc'[e] = rpc[e] /\ pending'[e] = pending[e] /\ got'[e] = got[e]
  BY <1>3 DEF ReadFails, TypeOK
<1>4. ASSUME ReadHeader(a) PROVE Untouched(e)
  <2>1. /\ close_state'[e] = close_state[e] /\ wpc'[e] = wpc[e] /\ out'[e] = out[e]
        /\ wshut'[e] = wshut[e]
    BY <1>4 DEF ReadHeader, TypeOK, writerVars
  <2>2. frame'[e] = frame[e] /\ current_message'[e] = current_message[e]
        /\ rpc'[e] = rpc[e] /\ pending'[e] = pending[e] /\ got'[e] = got[e]
    BY <1>2, <1>3, <1>4 DEF ReadHeader, TypeOK
  <2> QED BY <2>1, <2>2 DEF Untouched
<1>5. ASSUME ReadPayload(a) \/ ReadPayloadEof(a) PROVE Untouched(e)
  BY <1>2, <1>3, <1>5 DEF ReadPayload, ReadPayloadEof, Untouched, writerVars
<1>6. ASSUME \/ ReadEof(a) \/ ReaderShutdown(a) \/ ReaderHangUp(a) \/ ReaderCloseTimeout(a)
      PROVE  Untouched(e)
  BY <1>6 DEF ReadEof, ReaderShutdown, ReaderHangUp, ReaderCloseTimeout, ReaderClosed, Deliver,
              TypeOK, Untouched, writerVars
<1>7. ASSUME Application(a) PROVE Untouched(e)
  BY <1>3, <1>7 DEF Application, Send, Next_, ReadInterrupted, Drop, TypeOK, Untouched,
                    readerVars, writerVars
<1> QED BY <1>1, <1>4, <1>5, <1>6, <1>7 DEF Step, Reader

(* A bounded sequence, or one whose elements are all alike in some respect,*)
(* with one more element.                                                  *)
LEMMA Appended ==
  ASSUME NEW S, NEW s \in Seq(S), NEW x \in S
  PROVE  /\ Append(s, x) \in Seq(S) /\ Len(Append(s, x)) = Len(s) + 1 /\ Len(s) \in Nat
         /\ \A i \in 1 .. Len(s) + 1 : i \in 1 .. Len(s) \/ i = Len(s) + 1
         /\ \A i \in 1 .. Len(s) : Append(s, x)[i] = s[i]
         /\ Append(s, x)[Len(s) + 1] = x
<1>1. /\ Append(s, x) \in Seq(S) /\ Len(Append(s, x)) = Len(s) + 1 /\ Len(s) \in Nat
      /\ \A i \in 1 .. Len(s) : Append(s, x)[i] = s[i]
      /\ Append(s, x)[Len(s) + 1] = x
  BY AppendProperties, LenProperties
<1>2. \A i \in 1 .. Len(s) + 1 : i \in 1 .. Len(s) \/ i = Len(s) + 1
  BY <1>1, SMT
<1> QED BY <1>1, <1>2

(* A frame that is finished is returned, or kept while close() runs; and   *)
(* only a Close frame makes next() return a Close.                         *)
LEMMA FinishFrameGot ==
  ASSUME TypeOK, NEW e \in Endpoints, NEW h \in HeaderUnit, NEW bytes \in Seq(Byte), NEW cs,
         FinishFrame(e, h, bytes, cs)
  PROVE  \/ /\ got'[e] = got[e] /\ rpc'[e] \in {"Header", "Failed", "Panicked"}
            /\ h.op # "Close" /\ pending' = pending
         \/ /\ got'[e] = got[e] /\ rpc'[e] = "CloseShutdown"
            /\ h.op = "Close" /\ pending'[e] = DecodeClose(bytes)
         \/ \E f \in Frame :
              /\ got'[e] = Append(got[e], f) /\ rpc'[e] = "Idle"
              /\ f.op = "Close" <=> h.op = "Close"
              /\ pending' = pending
<1>1. CASE ControlFrame(e, h, bytes)
  <2>1. h.op \in Op /\ h.op # "Close"
    BY <1>1 DEF ControlFrame, Op, ControlOps
  <2>2. Item(h.op, bytes) \in Frame /\ Item(h.op, bytes).op # "Close"
    BY <2>1, ItemType DEF Item
  <2> QED BY <1>1, <2>1, <2>2 DEF ControlFrame, Deliver, TypeOK
<1>2. CASE CloseFrame(e, h, bytes, cs)
  <2>1. DecodeClose(bytes) \in Frame /\ DecodeClose(bytes).op = "Close"
    BY DecodeCloseType DEF DecodeClose
  <2> DEFINE c == DecodeClose(bytes)
  <2>2. /\ pending \in [Endpoints -> Frame] /\ got \in [Endpoints -> Seq(Frame)]
        /\ rpc \in [Endpoints -> ReaderStates] /\ h.op = "Close"
    BY <1>2 DEF CloseFrame, TypeOK
  <2>3. CASE should_close(cs)
    BY <1>2, <2>2, <2>3 DEF CloseFrame
  <2>4. CASE ~should_close(cs)
    <3>1. got' = [got EXCEPT ![e] = Append(@, c)] /\ rpc' = [rpc EXCEPT ![e] = "Idle"]
          /\ pending' = pending
      BY <1>2, <2>4 DEF CloseFrame, Deliver
    <3>2. c \in Frame /\ c.op = "Close"
      BY <2>1
    <3> HIDE DEF c
    <3> QED BY <2>2, <3>1, <3>2
  <2> QED BY <2>3, <2>4
<1>3. CASE MessageFragment(e, h, bytes, cs)
  BY <1>3 DEF MessageFragment, TypeOK, is_control, ControlOps
<1>4. CASE MessageEnd(e, h, bytes)
  <2>1. h.op # "Close"
    BY <1>4 DEF MessageEnd, is_control, ControlOps
  <2> DEFINE m == MessageSoFar(e, h)
  <2>2. CASE m.op \in DataOps
    <3>1. m.buf \in Seq(Byte)
      BY EmptySeq DEF MessageSoFar, TypeOK
    <3>2. m.buf \o bytes \in Seq(Byte) /\ m.op \in Op /\ m.op # "Close"
      BY <2>2, <3>1, ConcatProperties DEF Op, DataOps
    <3> DEFINE f == Item(m.op, m.buf \o bytes)
    <3>3. f \in Frame /\ f.op # "Close"
      BY <3>2, ItemType DEF Item
    <3>4. got' = [got EXCEPT ![e] = Append(@, f)] /\ rpc' = [rpc EXCEPT ![e] = "Idle"]
          /\ pending' = pending
      BY <1>4, <2>2 DEF MessageEnd, Deliver
    <3> HIDE DEF f
    <3> QED BY <2>1, <3>3, <3>4 DEF TypeOK
  <2>3. CASE m.op \notin DataOps
    BY <1>4, <2>1, <2>3 DEF MessageEnd, TypeOK
  <2> QED BY <2>2, <2>3
<1> QED BY <1>1, <1>2, <1>3, <1>4 DEF FinishFrame

\* what is read for a payload are bytes, as many as the header announced
LEMMA PayloadBytes ==
  ASSUME TypeOK, NEW e \in Endpoints, ReadPayload(e)
  PROVE  LET bytes == SubSeq(Head(wire[Peer(e)]).bytes, 1, frame[e].len)
         IN  bytes \in Seq(Byte) /\ Len(bytes) = frame[e].len
<1> DEFINE u == Head(wire[Peer(e)])
           n == frame[e].len
<1>1. wire[Peer(e)] \in Seq(Unit) /\ wire[Peer(e)] # << >> /\ n \in Nat
      /\ u.kind = "data" /\ n <= Len(u.bytes)
  BY Peers DEF ReadPayload, TypeOK, HeaderUnit
<1>2. u \in Unit
  BY <1>1, HeadAndTail
<1>3. u.bytes \in Seq(Byte) /\ Len(u.bytes) \in Nat
  BY <1>1, <1>2, LenProperties DEF Unit, DataUnit, HeaderUnit
<1> HIDE DEF u, n
<1> QED BY <1>1, <1>3, SubSeqProperties, SMT DEF u, n

\* and so are the zeros that stand for it at the end of the stream
LEMMA ZeroBytes ==
  ASSUME TypeOK, NEW e \in Endpoints
  PROVE  Zeros(frame[e].len) \in Seq(Byte) /\ Len(Zeros(frame[e].len)) = frame[e].len
<1> DEFINE n == frame[e].len
<1>1. n \in Nat
  BY DEF TypeOK, HeaderUnit
<1>2. 0 \in Byte
  BY SMT DEF Byte
<1> HIDE DEF n
<1>3. Zeros(n) \in [1 .. n -> Byte]
  BY <1>2 DEF Zeros
<1>4. Zeros(n) \in Seq(Byte) /\ Len(Zeros(n)) = n
  BY <1>1, <1>3, SeqDef, LenProperties DEF Zeros
<1> QED BY <1>4 DEF n

LEMMA NoFrameType == NoFrame \in Frame
<1>1. NoClose \in Code
  BY SMT DEF NoClose, Code, MaxCode
<1> QED BY <1>1, EmptySeq DEF NoFrame, Frame, Op, ControlOps

-----------------------------------------------------------------------------
(* Nothing comes after a Close.                                            *)

\* one more frame is returned to an application that has got no Close; next()
\* goes on only if it is none either
LEMMA GotOneMore ==
  ASSUME TypeOK, NEW e \in Endpoints, NEW f \in Frame, NoCloseGot(e),
         got'[e] = Append(got[e], f), rpc'[e] = "Idle",
         f.op = "Close" => ~can_read(close_state'[e])
  PROVE  GotInv(e)'
<1>1. got[e] \in Seq(Frame)
  BY DEF TypeOK
<1>2. /\ \A i \in 1 .. Len(got'[e]) : got'[e][i].op = "Close" => i = Len(got'[e])
      /\ f.op # "Close" => \A i \in 1 .. Len(got'[e]) : got'[e][i].op # "Close"
  BY <1>1, Appended DEF NoCloseGot
<1> QED BY <1>2 DEF GotInv, NoCloseGot, ReaderCloses

\* no frame is returned, and next() reads only if it did or might
LEMMA GotNoMore ==
  ASSUME NEW e, GotInv(e), got'[e] = got[e],
         can_read(close_state'[e]) => can_read(close_state[e]),
         rpc'[e] \in {"Header", "Payload"} \cup ReaderCloses =>
           can_read(close_state[e]) \/ rpc[e] \in {"Header", "Payload"} \cup ReaderCloses
  PROVE  GotInv(e)'
BY DEF GotInv, NoCloseGot

(* A frame of the peer's is finished: if it is a Close, the read side has  *)
(* been closed with its header.                                            *)
LEMMA FinishFrameKeepsGot ==
  ASSUME TypeOK, NEW e \in Endpoints, GotInv(e), rpc[e] \in {"Header", "Payload"},
         NEW h \in HeaderUnit, NEW bytes \in Seq(Byte), FinishFrame(e, h, bytes, close_state'[e]),
         h.op = "Close" => ~can_read(close_state'[e]),
         can_read(close_state'[e]) => can_read(close_state[e])
  PROVE  GotInv(e)'
<1>1. NoCloseGot(e)
  BY DEF GotInv
<1>2. CASE got'[e] = got[e]
  BY <1>2, GotNoMore
<1>3. CASE got'[e] # got[e]
  <2>1. PICK f \in Frame :
          got'[e] = Append(got[e], f) /\ rpc'[e] = "Idle" /\ (f.op = "Close" <=> h.op = "Close")
    BY <1>3, FinishFrameGot
  <2> QED BY <1>1, <2>1, GotOneMore
<1> QED BY <1>2, <1>3

LEMMA StepKeepsGot ==
  ASSUME Inv, NEW e \in Endpoints, GotInv(e), Step(e)
  PROVE  GotInv(e)'
<1>1. TypeOK /\ ReaderInv(e) /\ close_state[e] \in CloseState
  BY DEF Inv, EndpointInv, TypeOK
<1>2. ASSUME Writer(e) PROVE GotInv(e)'
  BY <1>2, GotNoMore DEF Writer, Write, WriteFails, WriterShutdown, WriterHangUp,
                         WriterCloseTimeout, readerVars
<1>3. ASSUME NEW f \in Frames, Send(e, f) PROVE GotInv(e)'
  <2>1. can_read(close_state'[e]) => can_read(close_state[e])
    BY <1>1, <1>3, Shutdown DEF Send, TypeOK
  <2> QED BY <1>3, <2>1, GotNoMore DEF Send, readerVars
<1>4. ASSUME Next_(e) PROVE GotInv(e)'
  BY <1>4, GotNoMore DEF Next_
<1>5. ASSUME NEW err, ReadFails(e, err), close_state'[e] = close_state[e] PROVE GotInv(e)'
  BY <1>1, <1>5, GotNoMore DEF ReadFails, TypeOK, ReaderCloses
<1>6. ASSUME Drop(e) PROVE GotInv(e)'
  BY <1>1, <1>6, GotNoMore DEF Drop, TypeOK, ReaderCloses
<1>7. ASSUME ReadHeader(e) PROVE GotInv(e)'
  <2> DEFINE h == Head(wire[Peer(e)])
  <2>1. /\ rpc[e] = "Header" /\ wire[Peer(e)] # << >>
        /\ close_state' = [close_state EXCEPT ![e] = StateAfterHeader(e, h)]
    BY <1>7 DEF ReadHeader
  <2>2. h \in HeaderUnit /\ HeaderError(h, expect_continuation[e], e = "client") = "None"
    BY <2>1, HeaderHere
  <2> HIDE DEF h
  <2>3. close_state'[e] = StateAfterHeader(e, h)
    BY <1>1, <2>1 DEF TypeOK
  <2>4. /\ can_read(close_state'[e]) => can_read(close_state[e])
        /\ h.op = "Close" => ~can_read(close_state'[e])
    BY <1>1, <2>2, <2>3, Shutdown DEF StateAfterHeader
  <2>5. CASE ReadFails(e, Verdict(e, h))
    BY <1>1, <2>1, <2>4, <2>5, GotNoMore DEF ReadFails, TypeOK, ReaderCloses
  <2>6. CASE rpc' = [rpc EXCEPT ![e] = "Payload"] /\ UNCHANGED got
    BY <1>1, <2>1, <2>4, <2>6, GotNoMore
  <2>7. CASE FinishFrame(e, h, << >>, StateAfterHeader(e, h))
    BY <1>1, <2>1, <2>2, <2>3, <2>4, <2>7, EmptySeq, FinishFrameKeepsGot
  <2> QED BY <1>7, <2>5, <2>6, <2>7 DEF ReadHeader, h
<1>8. ASSUME NEW bytes \in Seq(Byte), rpc[e] = "Payload",
             FinishFrame(e, frame[e], bytes, close_state[e]), close_state' = close_state
      PROVE  GotInv(e)'
  <2>1. frame[e] \in HeaderUnit /\ (frame[e].op = "Close" => ~can_read(close_state[e]))
    BY <1>1, <1>8 DEF ReaderInv, TypeOK
  <2> QED BY <1>1, <1>8, <2>1, FinishFrameKeepsGot
<1>9. ASSUME ReadPayload(e) PROVE GotInv(e)'
  <2> DEFINE b == SubSeq(Head(wire[Peer(e)]).bytes, 1, frame[e].len)
  <2>1. b \in Seq(Byte)
    BY <1>1, <1>9, PayloadBytes
  <2>2. rpc[e] = "Payload" /\ FinishFrame(e, frame[e], b, close_state[e]) /\ UNCHANGED close_state
    BY <1>9 DEF ReadPayload
  <2> HIDE DEF b
  <2> QED BY <1>8, <2>1, <2>2
<1>10. ASSUME ReadPayloadEof(e) PROVE GotInv(e)'
  <2>1. CASE ReadFails(e, "UnexpectedEof")
    BY <1>5, <1>10, <2>1 DEF ReadPayloadEof
  <2>2. CASE FinishFrame(e, frame[e], Zeros(frame[e].len), close_state[e])
    BY <1>1, <1>8, <1>10, <2>2, ZeroBytes DEF ReadPayloadEof
  <2> QED BY <1>10, <2>1, <2>2 DEF ReadPayloadEof
<1>11. ASSUME ReadEof(e) PROVE GotInv(e)'
  <2>1. rpc[e] = "Header" /\ rpc'[e] = "Idle" /\ got'[e] = Append(got[e], NoFrame)
        /\ ~can_read(close_state'[e])
    BY <1>1, <1>11, Shutdown DEF ReadEof, Deliver, TypeOK
  <2> QED BY <1>1, <2>1, NoFrameType, GotOneMore DEF GotInv
<1>12. ASSUME ReaderShutdown(e) PROVE GotInv(e)'
  BY <1>12, GotNoMore DEF ReaderShutdown, ReaderCloses
<1>13. ASSUME ReaderHangUp(e) \/ ReaderCloseTimeout(e) PROVE GotInv(e)'
  <2>1. /\ rpc[e] \in ReaderCloses /\ rpc'[e] = "Idle" /\ got'[e] = Append(got[e], pending[e])
        /\ close_state' = close_state
    BY <1>1, <1>13 DEF ReaderHangUp, ReaderCloseTimeout, ReaderClosed, ReaderCloses, Deliver, TypeOK
  <2>2. ~can_read(close_state[e]) /\ pending[e] \in Frame
    BY <1>1, <2>1 DEF ReaderInv, can_read, TypeOK
  <2> QED BY <1>1, <2>1, <2>2, GotOneMore DEF GotInv
<1> QED BY <1>2, <1>3, <1>4, <1>5, <1>6, <1>7, <1>9, <1>10, <1>11, <1>12, <1>13
        DEF Step, Reader, Application, ReadInterrupted

-----------------------------------------------------------------------------
(* No message is longer than the limit.                                    *)

\* what BoundInv says but for the frame that is being read
AllFit(e) ==
  /\ Fits(e, Len(current_message[e].buf))
  /\ \A i \in 1 .. Len(got[e]) : Fits(e, Len(got[e][i].bytes))
  /\ Fits(e, Len(pending[e].bytes))

\* one more frame that fits
LEMMA FitsOneMore ==
  ASSUME NEW e \in Endpoints, NEW s \in Seq(Frame), NEW f \in Frame, Fits(e, Len(f.bytes)),
         \A i \in 1 .. Len(s) : Fits(e, Len(s[i].bytes))
  PROVE  \A i \in 1 .. Len(Append(s, f)) : Fits(e, Len(Append(s, f)[i].bytes))
BY Appended

LEMMA ItemFits ==
  ASSUME NEW op \in Op, NEW bytes \in Seq(Byte)
  PROVE  Item(op, bytes) \in Frame /\ Item(op, bytes).bytes = bytes
BY ItemType DEF Item

(* The reason of a Close is no longer than the frame's bytes.              *)
LEMMA CloseFits ==
  ASSUME NEW bytes \in Seq(Byte)
  PROVE  DecodeClose(bytes) \in Frame /\ Len(DecodeClose(bytes).bytes) <= Len(bytes)
<1>1. Len(bytes) \in Nat
  BY LenProperties
<1>2. CASE Len(bytes) >= 2
  <2>1. DecodeClose(bytes).bytes = SubSeq(bytes, 3, Len(bytes))
    BY <1>2 DEF DecodeClose
  <2>2. Len(SubSeq(bytes, 3, Len(bytes))) <= Len(bytes)
    BY <1>1, <1>2, SubSeqProperties, SMT
  <2> QED BY <2>1, <2>2, DecodeCloseType
<1>3. CASE ~(Len(bytes) >= 2)
  <2>1. DecodeClose(bytes).bytes = bytes
    BY <1>3 DEF DecodeClose
  <2> QED BY <1>1, <2>1, DecodeCloseType
<1> QED BY <1>2, <1>3

(* A frame that fits, and its message with it, leaves everything fitting.  *)
LEMMA FinishFrameFits ==
  ASSUME TypeOK, NEW e \in Endpoints, AllFit(e),
         NEW h \in HeaderUnit, NEW bytes \in Seq(Byte), Len(bytes) = h.len, NEW cs,
         FinishFrame(e, h, bytes, cs), Fits(e, h.len),
         ~is_control(h.op) => Fits(e, Len(MessageSoFar(e, h).buf) + h.len)
  PROVE  AllFit(e)' /\ rpc'[e] # "Payload"
<1>1. /\ got[e] \in Seq(Frame) /\ got \in [Endpoints -> Seq(Frame)] /\ h.op \in Op
      /\ rpc \in [Endpoints -> ReaderStates] /\ pending \in [Endpoints -> Frame]
      /\ current_message \in [Endpoints -> [op : Op \cup {"None"}, buf : Seq(Byte)]]
      /\ MaxMessageLength[e] \in Nat /\ h.len \in Nat
  BY LimitsAssumption DEF TypeOK, HeaderUnit
<1>2. CASE ControlFrame(e, h, bytes)
  <2>1. Item(h.op, bytes) \in Frame /\ Fits(e, Len(Item(h.op, bytes).bytes))
    BY <1>1, ItemFits
  <2>2. got'[e] = Append(got[e], Item(h.op, bytes)) /\ rpc'[e] = "Idle"
        /\ UNCHANGED << current_message, pending >>
    BY <1>1, <1>2 DEF ControlFrame, Deliver
  <2>3. \A i \in 1 .. Len(got'[e]) : Fits(e, Len(got'[e][i].bytes))
    BY <1>1, <2>1, <2>2, FitsOneMore DEF AllFit
  <2> QED BY <2>2, <2>3 DEF AllFit, Fits
<1>3. CASE CloseFrame(e, h, bytes, cs)
  <2> DEFINE f == DecodeClose(bytes)
  <2>1. f \in Frame /\ Fits(e, Len(f.bytes))
    <3>1. f \in Frame /\ Len(f.bytes) <= h.len
      BY CloseFits
    <3>2. Len(f.bytes) \in Nat
      BY <3>1, LenProperties DEF Frame
    <3> HIDE DEF f
    <3> QED BY <1>1, <3>1, <3>2, SMT DEF Fits
  <2>2. CASE should_close(cs)
    <3>1. pending'[e] = f /\ rpc'[e] = "CloseShutdown" /\ UNCHANGED << got, current_message >>
      BY <1>1, <1>3, <2>2 DEF CloseFrame
    <3> QED BY <2>1, <3>1 DEF AllFit, Fits
  <2>3. CASE ~should_close(cs)
    <3>1. got'[e] = Append(got[e], f) /\ rpc'[e] = "Idle"
          /\ UNCHANGED << current_message, pending >>
      BY <1>1, <1>3, <2>3 DEF CloseFrame, Deliver
    <3> HIDE DEF f
    <3>2. \A i \in 1 .. Len(got'[e]) : Fits(e, Len(got'[e][i].bytes))
      BY <1>1, <2>1, <3>1, FitsOneMore DEF AllFit
    <3> QED BY <3>1, <3>2 DEF AllFit, Fits
  <2> QED BY <2>2, <2>3
<1> DEFINE m == MessageSoFar(e, h)
<1>4. ASSUME ~is_control(h.op)
      PROVE  m.buf \in Seq(Byte) /\ m.buf \o bytes \in Seq(Byte) /\ Fits(e, Len(m.buf \o bytes))
  <2>1. m.buf \in Seq(Byte)
    BY <1>1, EmptySeq DEF MessageSoFar
  <2>2. Fits(e, Len(m.buf) + h.len)
    BY <1>4
  <2> HIDE DEF m
  <2>3. m.buf \o bytes \in Seq(Byte) /\ Len(m.buf \o bytes) = Len(m.buf) + Len(bytes)
    BY <2>1, ConcatProperties
  <2> QED BY <2>1, <2>2, <2>3
<1>5. CASE MessageFragment(e, h, bytes, cs)
  <2> DEFINE m2 == [m EXCEPT !.buf = @ \o bytes]
  <2>1. m \in [op : Op \cup {"None"}, buf : Seq(Byte)]
    BY <1>1, EmptySeq DEF MessageSoFar
  <2>2. ~is_control(h.op) /\ current_message' = [current_message EXCEPT ![e] = m2]
        /\ rpc'[e] # "Payload" /\ UNCHANGED << pending, got >>
    BY <1>1, <1>5 DEF MessageFragment
  <2>3. m2.buf = m.buf \o bytes
    BY <2>1
  <2> HIDE DEF m, m2
  <2>4. Fits(e, Len(current_message'[e].buf))
    BY <1>1, <1>4, <2>2, <2>3
  <2> QED BY <2>2, <2>4 DEF AllFit, Fits
<1>6. CASE MessageEnd(e, h, bytes)
  <2>1. ~is_control(h.op) /\ current_message'[e].buf = << >> /\ UNCHANGED pending
        /\ rpc'[e] # "Payload"
    BY <1>1, <1>6 DEF MessageEnd, NoMessage
  <2>2. Fits(e, Len(current_message'[e].buf))
    BY <1>1, <2>1, EmptySeq, SMT DEF Fits
  <2>3. CASE got' = got
    BY <2>1, <2>2, <2>3 DEF AllFit, Fits
  <2>4. CASE m.op \in DataOps
    <3> DEFINE f == Item(m.op, m.buf \o bytes)
    <3>1. f \in Frame /\ Fits(e, Len(f.bytes))
      BY <1>4, <2>1, <2>4, ItemFits DEF Op
    <3>2. got'[e] = Append(got[e], f)
      BY <1>1, <1>6, <2>4 DEF MessageEnd, Deliver
    <3> HIDE DEF f
    <3>3. \A i \in 1 .. Len(got'[e]) : Fits(e, Len(got'[e][i].bytes))
      BY <1>1, <3>1, <3>2, FitsOneMore DEF AllFit
    <3> QED BY <2>1, <2>2, <3>3 DEF AllFit, Fits
  <2> QED BY <1>6, <2>3, <2>4 DEF MessageEnd
<1> QED BY <1>2, <1>3, <1>5, <1>6 DEF FinishFrame

(* A frame is only read, payload and all, when it and its message fit.     *)
LEMMA StepKeepsBound ==
  ASSUME Inv, NEW e \in Endpoints, BoundInv(e), Step(e)
  PROVE  BoundInv(e)'
<1>1. /\ TypeOK /\ AllFit(e) /\ MaxMessageLength[e] \in Nat
      /\ rpc \in [Endpoints -> ReaderStates] /\ frame \in [Endpoints -> HeaderUnit]
      /\ current_message \in [Endpoints -> [op : Op \cup {"None"}, buf : Seq(Byte)]]
  BY LimitsAssumption DEF Inv, TypeOK, BoundInv, AllFit
<1>2. ASSUME AllFit(e)', rpc'[e] # "Payload" PROVE BoundInv(e)'
  BY <1>2 DEF AllFit, BoundInv
<1>3. ASSUME UNCHANGED << current_message, got, pending >>, rpc'[e] # "Payload"
      PROVE  BoundInv(e)'
  BY <1>1, <1>2, <1>3 DEF AllFit, Fits
<1>4. ASSUME UNCHANGED << current_message, got, pending, frame >>, rpc'[e] = rpc[e]
      PROVE  BoundInv(e)'
  BY <1>4 DEF BoundInv, Fits
<1>5. ASSUME Writer(e) PROVE BoundInv(e)'
  BY <1>4, <1>5 DEF Writer, Write, WriteFails, WriterShutdown, WriterHangUp,
                    WriterCloseTimeout, readerVars
<1>6. ASSUME NEW f \in Frames, Send(e, f) PROVE BoundInv(e)'
  BY <1>4, <1>6 DEF Send, readerVars
<1>7. ASSUME Next_(e) \/ Drop(e) \/ ReaderShutdown(e) PROVE BoundInv(e)'
  BY <1>1, <1>3, <1>7 DEF Next_, Drop, ReaderShutdown
<1>8. ASSUME NEW err, ReadFails(e, err), UNCHANGED current_message PROVE BoundInv(e)'
  BY <1>1, <1>3, <1>8 DEF ReadFails
<1>9. ASSUME ReadHeader(e) PROVE BoundInv(e)'
  <2> DEFINE h == Head(wire[Peer(e)])
             m == MessageSoFar(e, h)
  <2>1. h \in HeaderUnit /\ HeaderError(h, expect_continuation[e], e = "client") = "None"
    BY <1>9, HeaderHere DEF ReadHeader
  <2>2. h.len \in Nat /\ m.buf \in Seq(Byte) /\ Len(m.buf) \in Nat
    BY <1>1, <2>1, EmptySeq, LenProperties DEF HeaderUnit, MessageSoFar
  <2>3. Fits(e, Len(m.buf))
    <3>1. CASE current_message[e] = NoMessage
      BY <1>1, <3>1, EmptySeq, SMT DEF MessageSoFar, Fits
    <3>2. CASE current_message[e] # NoMessage
      BY <1>1, <3>2 DEF MessageSoFar, AllFit
    <3> QED BY <3>1, <3>2
  <2>4. CASE Verdict(e, h) # "None"
    <3>1. /\ UNCHANGED << got, pending >> /\ rpc'[e] # "Payload"
          /\ current_message'[e] \in {m, current_message[e]}
      BY <1>1, <1>9, <2>4 DEF ReadHeader, ReadFails
    <3> HIDE DEF m
    <3> QED BY <1>1, <1>2, <2>3, <3>1 DEF AllFit, Fits
  <2>5. CASE Verdict(e, h) = "None"
    <3>1. ~TooLong(e, h)
      BY <2>1, <2>5, SMT DEF Verdict
    <3>2. Fits(e, h.len) /\ (~is_control(h.op) => Fits(e, Len(m.buf) + h.len))
      BY <1>1, <2>2, <3>1, SMT DEF TooLong, Fits
    <3>3. CASE h.len > 0
      <4>1. /\ rpc'[e] = "Payload" /\ frame'[e] = h /\ UNCHANGED << got, pending >>
            /\ current_message'[e] = IF is_control(h.op) THEN current_message[e] ELSE m
        BY <1>1, <1>9, <2>2, <2>5, <3>3, SMT DEF ReadHeader
      <4> HIDE DEF m, h
      <4> QED BY <1>1, <2>3, <3>2, <4>1 DEF AllFit, BoundInv, Fits
    <3>4. CASE h.len = 0
      <4>1. FinishFrame(e, h, << >>, StateAfterHeader(e, h))
        BY <1>9, <2>5, <3>4, SMT DEF ReadHeader
      <4>2. << >> \in Seq(Byte) /\ Len(<< >>) = h.len
        BY <3>4, EmptySeq
      <4> HIDE DEF h
      <4> QED BY <1>1, <1>2, <2>1, <3>2, <4>1, <4>2, FinishFrameFits
    <3> QED BY <2>2, <3>3, <3>4, SMT
  <2> QED BY <2>4, <2>5
<1>10. ASSUME NEW bytes \in Seq(Byte), Len(bytes) = frame[e].len, rpc[e] = "Payload",
              FinishFrame(e, frame[e], bytes, close_state[e])
       PROVE  BoundInv(e)'
  <2>1. frame[e] \in HeaderUnit /\ Fits(e, frame[e].len)
    BY <1>1, <1>10 DEF BoundInv
  <2>2. ASSUME ~is_control(frame[e].op)
        PROVE  Fits(e, Len(MessageSoFar(e, frame[e]).buf) + frame[e].len)
    <3>1. current_message[e] # NoMessage
      BY <1>10, <2>2 DEF Inv, EndpointInv, MessageInv, Reading, InMessage
    <3> QED BY <1>10, <2>2, <3>1 DEF BoundInv, MessageSoFar
  <2> QED BY <1>1, <1>2, <1>10, <2>1, <2>2, FinishFrameFits
<1>11. ASSUME ReadPayload(e) PROVE BoundInv(e)'
  <2> DEFINE b == SubSeq(Head(wire[Peer(e)]).bytes, 1, frame[e].len)
  <2>1. b \in Seq(Byte) /\ Len(b) = frame[e].len
    BY <1>1, <1>11, PayloadBytes
  <2>2. rpc[e] = "Payload" /\ FinishFrame(e, frame[e], b, close_state[e])
    BY <1>11 DEF ReadPayload
  <2> HIDE DEF b
  <2> QED BY <1>10, <2>1, <2>2
<1>12. ASSUME ReadPayloadEof(e) PROVE BoundInv(e)'
  <2>1. CASE ReadFails(e, "UnexpectedEof") /\ UNCHANGED current_message
    BY <1>8, <2>1
  <2>2. CASE FinishFrame(e, frame[e], Zeros(frame[e].len), close_state[e])
    BY <1>1, <1>10, <1>12, <2>2, ZeroBytes DEF ReadPayloadEof
  <2> QED BY <1>12, <2>1, <2>2 DEF ReadPayloadEof
<1>13. ASSUME NEW f \in Frame, Fits(e, Len(f.bytes)), got'[e] = Append(got[e], f),
              rpc'[e] = "Idle", UNCHANGED << current_message, pending >>
       PROVE  BoundInv(e)'
  <2>1. got[e] \in Seq(Frame)
    BY <1>1 DEF TypeOK
  <2>2. \A i \in 1 .. Len(got'[e]) : Fits(e, Len(got'[e][i].bytes))
    BY <1>1, <1>13, <2>1, FitsOneMore DEF AllFit
  <2> QED BY <1>1, <1>2, <1>13, <2>2 DEF AllFit, Fits
<1>14. ASSUME ReadEof(e) PROVE BoundInv(e)'
  <2>1. NoFrame.bytes = << >> /\ Fits(e, 0)
    BY <1>1, SMT DEF NoFrame, Fits
  <2>2. got'[e] = Append(got[e], NoFrame) /\ rpc'[e] = "Idle"
        /\ UNCHANGED << current_message, pending >>
    BY <1>1, <1>14 DEF ReadEof, Deliver, TypeOK
  <2> QED BY <1>13, <2>1, <2>2, NoFrameType, EmptySeq
<1>15. ASSUME ReaderHangUp(e) \/ ReaderCloseTimeout(e) PROVE BoundInv(e)'
  <2>1. /\ got'[e] = Append(got[e], pending[e]) /\ rpc'[e] = "Idle"
        /\ UNCHANGED << current_message, pending >> /\ pending[e] \in Frame
    BY <1>1, <1>15 DEF ReaderHangUp, ReaderCloseTimeout, ReaderClosed, Deliver, TypeOK
  <2> QED BY <1>1, <1>13, <2>1 DEF AllFit
<1> QED BY <1>5, <1>6, <1>7, <1>8, <1>9, <1>11, <1>12, <1>14, <1>15
        DEF Step, Reader, Application, ReadInterrupted

-----------------------------------------------------------------------------
(* One task closes once.                                                   *)

LEMMA StepKeepsTask ==
  ASSUME Inv, NEW e \in Endpoints, e \notin Split, TaskInv(e), Step(e)
  PROVE  TaskInv(e)'
<1>1. /\ wpc \in [Endpoints -> WriterStates] /\ rpc \in [Endpoints -> ReaderStates]
      /\ wshut \in [Endpoints -> BOOLEAN]
      /\ WriterInv(e) /\ ReaderInv(e) /\ ShutInv(e)
  BY DEF Inv, EndpointInv, TypeOK
<1> DEFINE Resting(pc) == pc \in {"Idle", "Failed", "Gone"}
\* a step of the writer's call: the reader rests, and goes on to
<1>2. ASSUME ~Resting(wpc[e]), rpc'[e] = rpc[e], wshut'[e] => wpc'[e] \notin {"Write", "CloseWrite"}
      PROVE  TaskInv(e)'
  BY <1>2 DEF TaskInv
\* a step of the reader's call: the writer rests, and goes on to
<1>3. ASSUME ~Resting(rpc[e]), wpc'[e] = wpc[e]
      PROVE  TaskInv(e)'
  BY <1>3 DEF TaskInv
<1>4. ASSUME Write(e) PROVE TaskInv(e)'
  <2>1. ~Resting(wpc[e]) /\ rpc'[e] = rpc[e] /\ ~wshut'[e]
    BY <1>4 DEF Write, readerVars
  <2> QED BY <1>2, <2>1
<1>5. ASSUME WriteFails(e) \/ WriterShutdown(e) \/ WriterHangUp(e) \/ WriterCloseTimeout(e)
      PROVE  TaskInv(e)'
  <2>1. /\ ~Resting(wpc[e]) /\ rpc'[e] = rpc[e]
        /\ wpc'[e] \in {"Failed", "CloseHangUp", "Idle"}
    BY <1>1, <1>5 DEF WriteFails, WriterShutdown, WriterHangUp, WriterCloseTimeout, readerVars,
                      WriterCloses
  <2> QED BY <1>2, <2>1
<1>6. ASSUME NEW f \in Frames, Send(e, f) PROVE TaskInv(e)'
  <2>1. Resting(rpc[e]) /\ rpc'[e] = rpc[e] /\ wshut'[e] = wshut[e]
        /\ wpc[e] = "Idle" /\ can_write(close_state[e])
    BY <1>6 DEF Send, MaySend, readerVars
  <2>2. ~wshut[e]
    BY <1>1, <2>1 DEF ShutInv, WriterInv, can_write
  <2> QED BY <2>1, <2>2 DEF TaskInv
<1>7. ASSUME Next_(e) PROVE TaskInv(e)'
  <2>1. wpc[e] \in {"Idle", "Failed"} /\ wpc'[e] = wpc[e]
    BY <1>7 DEF Next_, MayRead, writerVars
  <2> QED BY <2>1 DEF TaskInv
<1>8. ASSUME Drop(e) PROVE TaskInv(e)'
  BY <1>1, <1>8 DEF Drop, TaskInv
<1>9. ASSUME Reader(e) \/ ReadInterrupted(e) PROVE TaskInv(e)'
  <2>1. ~Resting(rpc[e]) /\ wpc'[e] = wpc[e]
    BY <1>9 DEF Reader, ReadHeader, ReadPayload, ReadPayloadEof, ReadEof, ReadInterrupted,
                ReaderShutdown, ReaderHangUp, ReaderCloseTimeout, ReaderClosed, ReaderCloses,
                writerVars
  <2> QED BY <1>3, <2>1
<1> QED BY <1>4, <1>5, <1>6, <1>7, <1>8, <1>9 DEF Step, Writer, Application

-----------------------------------------------------------------------------
(* Each endpoint's invariant, and what follows from it.                    *)

OwnInv == \A e \in Endpoints : GotInv(e) /\ BoundInv(e) /\ (e \notin Split => TaskInv(e))

LEMMA InitOwnInv == Init => OwnInv
<1> SUFFICES ASSUME Init, NEW e \in Endpoints
             PROVE  GotInv(e) /\ BoundInv(e) /\ TaskInv(e)
  BY DEF OwnInv
<1>1. Len(<< >>) = 0 /\ MaxMessageLength[e] \in Nat
  BY EmptySeq, LimitsAssumption
<1>2. /\ got[e] = << >> /\ rpc[e] = "Idle" /\ wpc[e] = "Idle" /\ wshut[e] = FALSE
      /\ current_message[e].buf = << >> /\ pending[e].bytes = << >>
  BY DEF Init, NoMessage, NoFrame
<1>3. GotInv(e)
  BY <1>1, <1>2, SMT DEF GotInv, NoCloseGot
<1>4. BoundInv(e)
  BY <1>1, <1>2, SMT DEF BoundInv, Fits
<1>5. TaskInv(e)
  BY <1>2 DEF TaskInv
<1> QED BY <1>3, <1>4, <1>5

LEMMA StepKeepsOwnInv ==
  ASSUME Inv, OwnInv, [Next]_vars
  PROVE  OwnInv'
<1> SUFFICES ASSUME NEW e \in Endpoints
             PROVE  GotInv(e)' /\ BoundInv(e)' /\ (e \notin Split => TaskInv(e)')
  BY DEF OwnInv
<1>1. TypeOK /\ GotInv(e) /\ BoundInv(e) /\ (e \notin Split => TaskInv(e))
  BY DEF Inv, OwnInv
<1>2. ASSUME Untouched(e) PROVE GotInv(e)' /\ BoundInv(e)' /\ (e \notin Split => TaskInv(e)')
  BY <1>1, <1>2 DEF Untouched, GotInv, NoCloseGot, BoundInv, Fits, TaskInv
<1>3. CASE UNCHANGED vars
  BY <1>2, <1>3 DEF vars, writerVars, readerVars, Untouched
<1>4. CASE Step(e)
  BY <1>1, <1>4, StepKeepsGot, StepKeepsBound, StepKeepsTask
<1>5. ASSUME NEW a \in Endpoints, a # e, Step(a) PROVE Untouched(e)
  BY <1>1, <1>5, OthersUntouched
<1>6. Next => \E a \in Endpoints : Step(a)
  BY DEF Next, Step
<1> QED BY <1>2, <1>3, <1>4, <1>5, <1>6

LEMMA OwnInvariance == Spec => []OwnInv
<1>1. Inv /\ OwnInv /\ [Next]_vars => OwnInv'
  BY StepKeepsOwnInv
<1> QED BY <1>1, InitOwnInv, Invariance, PTL DEF Spec

(* next() returns nothing after a Close frame, the peer's or its own for   *)
(* the end of the stream, whoever closes while read_frame waits.           *)
THEOREM CloseGotLast == Spec => []CloseIsLastGot
<1>1. OwnInv => CloseIsLastGot
  BY DEF OwnInv, GotInv, CloseIsLastGot
<1> QED BY <1>1, OwnInvariance, PTL

(* max_message_length bounds what read_frame accumulates and next()        *)
(* returns, however a message is cut into fragments.                       *)
THEOREM MessagesBounded == Spec => []MessageBounded
<1>1. OwnInv => MessageBounded
  BY DEF OwnInv, BoundInv, Fits, MessageBounded
<1> QED BY <1>1, OwnInvariance, PTL

-----------------------------------------------------------------------------
(* The FIN of an endpoint used by one task stands behind a whole frame.    *)

\* no frame is being written, and none was given up
AllWritten(e) ==
  \/ wpc[e] \in {"CloseShutdown", "CloseHangUp"} \/ wshut[e]
  \/ wpc[e] = "Idle" /\ (can_read(close_state[e]) \/ rpc[e] \in {"Payload"} \cup ReaderCloses)

EndInv(e, p) ==
  ~Gone(e) /\ wpc[e] # "Failed" /\ AllWritten(e) /\ Reading(p) =>
    WholeFrames(wire[e], rpc[p] = "Payload")

(* The last unit of a frame ends it.                                       *)
LEMMA WholePut ==
  ASSUME NEW e, NEW s \in Seq(Unit), NEW o \in Seq(Unit), Len(o) = 1, OutOK(e, o),
         NEW pay \in BOOLEAN
  PROVE  WholeFrames(Append(s, Head(o)), pay)
<1>1. o # << >> /\ Head(o) = o[1] /\ o[1] \in Unit
  <2>1. o = << >> => Len(o) = 0
    BY EmptySeq
  <2>2. o # << >>
    BY <2>1, SMT
  <2> QED BY <2>2, HeadAndTail
<1>2. ~Announces(o[1])
  BY <1>1, SMT DEF OutOK
<1>3. /\ Len(s) \in Nat /\ Len(Append(s, o[1])) = Len(s) + 1
      /\ Append(s, o[1])[Len(s) + 1] = o[1] /\ Append(s, o[1]) # << >>
  BY <1>1, AppendProperties, LenProperties, SMT
<1> QED BY <1>1, <1>2, <1>3 DEF WholeFrames

(* Taking the first unit leaves a whole frame at the end.                  *)
LEMMA WholeTake ==
  ASSUME NEW s \in Seq(Unit), s # << >>, NEW pay \in BOOLEAN, NEW pay2 \in BOOLEAN,
         WholeFrames(s, pay), pay2 => Announces(s[1])
  PROVE  WholeFrames(Tail(s), pay2)
<1>1. ~Announces(s[Len(s)])
  BY DEF WholeFrames
<1>2. CASE Tail(s) = << >>
  <2>1. Len(s) = 1
    BY <1>2, HeadAndTail
  <2> QED BY <1>1, <1>2, <2>1 DEF WholeFrames
<1>3. CASE Tail(s) # << >>
  <2>1. Tail(s)[Len(Tail(s))] = s[Len(s)]
    BY <1>3, HeadAndTail, SMT
  <2> QED BY <1>1, <1>3, <2>1 DEF WholeFrames
<1> QED BY <1>2, <1>3

(* A unit cut in two leaves what was behind it.                            *)
LEMMA WholeRest ==
  ASSUME NEW s \in Seq(Unit), s # << >>, NEW bytes \in Seq(Byte), NEW pay \in BOOLEAN,
         WholeFrames(s, pay)
  PROVE  WholeFrames(<< Data(bytes) >> \o Tail(s), FALSE)
<1> DEFINE t == << Data(bytes) >> \o Tail(s)
<1>1. ~Announces(s[Len(s)])
  BY DEF WholeFrames
<1>2. ~Announces(Data(bytes))
  BY DEF Announces, Data
<1>3. Data(bytes) \in Unit
  BY SMT DEF Data, Unit, DataUnit
<1>4. /\ Tail(s) \in Seq(Unit) /\ Len(Tail(s)) \in Nat /\ Len(s) = Len(Tail(s)) + 1
      /\ \A i \in 1 .. Len(Tail(s)) : Tail(s)[i] = s[i + 1]
  BY HeadAndTail, SMT
<1>5. /\ << Data(bytes) >> \in Seq(Unit) /\ Len(<< Data(bytes) >>) = 1
      /\ << Data(bytes) >>[1] = Data(bytes)
  BY <1>3, SMT
<1>6. /\ t \in Seq(Unit) /\ Len(t) = 1 + Len(Tail(s)) /\ t[1] = Data(bytes)
      /\ \A i \in 1 .. Len(Tail(s)) : t[1 + i] = Tail(s)[i]
  BY <1>4, <1>5, ConcatProperties, SMT
<1>7. t # << >>
  BY <1>4, <1>6, EmptySeq, SMT
<1> HIDE DEF t
<1>8. ~Announces(t[Len(t)])
  <2>1. CASE Len(Tail(s)) = 0
    <3>1. Len(t) = 1
      BY <1>6, <2>1
    <3> QED BY <1>2, <1>6, <3>1
  <2>2. CASE Len(Tail(s)) # 0
    <3>1. t[Len(t)] = s[Len(s)]
      BY <1>4, <1>6, <2>2, SMT
    <3> QED BY <1>1, <3>1
  <2> QED BY <2>1, <2>2
<1> QED BY <1>7, <1>8 DEF WholeFrames, t

(* Between two steps of e itself.                                          *)
LEMMA OwnStepKeepsEnd ==
  ASSUME Inv, NEW e \in Endpoints, e \notin Split, TaskInv(e), EndInv(e, Peer(e)), Step(e)
  PROVE  EndInv(e, Peer(e))'
<1> DEFINE p == Peer(e)
           pay == rpc[p] = "Payload"
<1>1. /\ p \in Endpoints /\ p # e /\ Peer(p) = e /\ TypeOK
      /\ WriterInv(e) /\ ReaderInv(e) /\ ShutInv(e) /\ OutOK(e, out[e]) /\ DirectionInv(e, p)
  BY Peers DEF Inv, EndpointInv
<1>2. Untouched(p)
  BY <1>1, OthersUntouched
<1> HIDE DEF p
<1>3. (Reading(p)' <=> Reading(p)) /\ ((rpc'[p] = "Payload") <=> pay)
  BY <1>2 DEF Untouched, Reading
<1>4. EndInv(e, p)
  BY DEF p
<1>5. wpc \in [Endpoints -> WriterStates] /\ rpc \in [Endpoints -> ReaderStates]
      /\ wshut \in [Endpoints -> BOOLEAN] /\ close_state \in [Endpoints -> CloseState]
  BY <1>1 DEF TypeOK
\* what was all written still is
<1>6. ASSUME wire'[e] = wire[e],
             ~Gone(e)' /\ wpc'[e] # "Failed" /\ AllWritten(e)'
               => ~Gone(e) /\ wpc[e] # "Failed" /\ AllWritten(e)
      PROVE  EndInv(e, p)'
  BY <1>3, <1>4, <1>6 DEF EndInv
\* nothing is claimed
<1>7. ASSUME Gone(e)' \/ wpc'[e] = "Failed" \/ ~AllWritten(e)'
      PROVE  EndInv(e, p)'
  BY <1>7 DEF EndInv
<1>8. ASSUME Write(e) PROVE EndInv(e, p)'
  <2>1. wire[e] \in Seq(Unit) /\ out[e] \in Seq(Unit) /\ out[e] # << >>
    BY <1>1, <1>8 DEF TypeOK, Write, WriterInv
  <2>2. /\ wire'[e] = Append(wire[e], Head(out[e])) /\ wshut'[e] = FALSE
        /\ wpc'[e] = IF Len(out[e]) > 1 THEN wpc[e]
                     ELSE IF wpc[e] = "Write" THEN "Idle" ELSE "CloseShutdown"
    BY <1>1, <1>5, <1>8 DEF TypeOK, Write
  <2>3. Len(out[e]) = 1 \/ Len(out[e]) = 2
    BY <1>1, <2>1, OutPut
  <2>4. CASE Len(out[e]) = 1
    <3>1. pay \in BOOLEAN
      OBVIOUS
    <3>2. WholeFrames(wire'[e], pay)
      BY <1>1, <2>1, <2>2, <2>4, <3>1, WholePut
    <3> QED BY <1>3, <3>2 DEF EndInv
  <2>5. CASE Len(out[e]) = 2
    <3>1. wpc'[e] \in {"Write", "CloseWrite"}
      BY <1>8, <2>2, <2>5, SMT DEF Write
    <3>2. ~AllWritten(e)'
      BY <2>2, <3>1 DEF AllWritten
    <3> QED BY <1>7, <3>2
  <2> QED BY <2>3, <2>4, <2>5
<1>9. ASSUME WriteFails(e) PROVE EndInv(e, p)'
  <2>1. wpc'[e] = "Failed"
    BY <1>5, <1>9 DEF WriteFails
  <2> QED BY <1>7, <2>1
<1>10. ASSUME WriterShutdown(e) \/ WriterHangUp(e) PROVE EndInv(e, p)'
  <2>1. wpc[e] \in {"CloseShutdown", "CloseHangUp"} /\ wire'[e] = wire[e] /\ rpc'[e] = rpc[e]
    BY <1>10 DEF WriterShutdown, WriterHangUp, readerVars
  <2> QED BY <1>6, <2>1 DEF AllWritten, Gone
<1>11. ASSUME WriterCloseTimeout(e) PROVE EndInv(e, p)'
  <2>1. /\ wpc[e] \in WriterCloses /\ wpc'[e] = "Idle"
        /\ wire'[e] = wire[e] /\ rpc'[e] = rpc[e] /\ wshut'[e] = wshut[e]
        /\ close_state'[e] = close_state[e]
    BY <1>5, <1>11 DEF WriterCloseTimeout, readerVars
  <2>2. CASE wpc[e] = "CloseWrite"
    <3>1. ~can_read(close_state'[e])
      BY <1>1, <2>1 DEF WriterInv, can_read
    <3>2. rpc'[e] \in {"Idle", "Failed", "Gone"} /\ ~wshut'[e]
      BY <2>1, <2>2 DEF TaskInv
    <3>3. ~AllWritten(e)'
      BY <2>1, <3>1, <3>2 DEF AllWritten, ReaderCloses
    <3> QED BY <1>7, <3>3
  <2>3. CASE wpc[e] # "CloseWrite"
    <3>1. wpc[e] \in {"CloseShutdown", "CloseHangUp"}
      BY <2>1, <2>3 DEF WriterCloses
    <3> QED BY <1>6, <2>1, <3>1 DEF AllWritten, Gone
  <2> QED BY <2>2, <2>3
<1>12. ASSUME NEW f \in Frames, Send(e, f) PROVE EndInv(e, p)'
  <2>1. /\ wpc'[e] \in {"Write", "CloseWrite"} /\ wshut'[e] = wshut[e]
        /\ wpc[e] = "Idle" /\ can_write(close_state[e])
    BY <1>5, <1>12 DEF Send, MaySend, readerVars
  <2>2. ~wshut[e]
    BY <1>1, <2>1 DEF ShutInv, WriterInv, can_write
  <2>3. ~AllWritten(e)'
    BY <2>1, <2>2 DEF AllWritten
  <2> QED BY <1>7, <2>3
\* a step of the reader's call
<1>13. ASSUME rpc[e] \in {"Header", "Payload"} \cup ReaderCloses,
              wpc'[e] = wpc[e], wire'[e] = wire[e]
       PROVE  EndInv(e, p)'
  <2>1. wpc[e] \in {"Idle", "Failed", "Gone"}
    BY <1>13 DEF TaskInv, ReaderCloses
  <2>2. rpc[e] = "Header" => can_read(close_state[e])
    BY <1>1 DEF ReaderInv
  <2>3. wpc[e] = "Idle" => AllWritten(e)
    BY <1>13, <2>2 DEF AllWritten
  <2>4. wpc[e] = "Gone" <=> Gone(e)
    BY <1>1 DEF WriterInv
  <2>5. ~Gone(e)
    BY <1>13 DEF Gone, ReaderCloses
  <2> QED BY <1>6, <1>13, <2>1, <2>3, <2>4, <2>5
<1>14. ASSUME Next_(e) PROVE EndInv(e, p)'
  <2>1. /\ rpc[e] = "Idle" /\ can_read(close_state[e]) /\ wpc'[e] = wpc[e]
        /\ wpc[e] \in {"Idle", "Failed"} /\ wire'[e] = wire[e]
    BY <1>14 DEF Next_, MayRead, writerVars
  <2>2. ~Gone(e) /\ (wpc[e] = "Idle" => AllWritten(e))
    BY <2>1 DEF Gone, AllWritten
  <2> QED BY <1>6, <2>1, <2>2
<1>15. ASSUME Drop(e) PROVE EndInv(e, p)'
  <2>1. Gone(e)'
    BY <1>5, <1>15 DEF Drop, Gone
  <2> QED BY <1>7, <2>1
<1>16. ASSUME Reader(e) \/ ReadInterrupted(e) PROVE EndInv(e, p)'
  <2>1. /\ rpc[e] \in {"Header", "Payload"} \cup ReaderCloses /\ wpc'[e] = wpc[e]
    BY <1>16 DEF Reader, ReadHeader, ReadPayload, ReadPayloadEof, ReadEof, ReadInterrupted,
                 ReaderShutdown, ReaderHangUp, ReaderCloseTimeout, ReaderClosed, ReaderCloses,
                 writerVars
  <2>2. wire'[e] = wire[e]
    BY <1>1, <1>16 DEF Reader, ReadHeader, ReadPayload, ReadPayloadEof, ReadEof,
                       ReadInterrupted, ReaderShutdown, ReaderHangUp, ReaderCloseTimeout,
                       ReaderClosed, TypeOK, p
  <2> QED BY <1>13, <2>1, <2>2
<1>17. EndInv(e, p)'
  BY <1>8, <1>9, <1>10, <1>11, <1>12, <1>14, <1>15, <1>16 DEF Step, Writer, Application
<1> QED BY <1>17 DEF p

(* After a payload comes no other.                                         *)
LEMMA FinishFrameNext ==
  ASSUME TypeOK, NEW a \in Endpoints, NEW h, NEW bytes, NEW cs, FinishFrame(a, h, bytes, cs)
  PROVE  rpc'[a] # "Payload"
<1>1. rpc \in [Endpoints -> ReaderStates]
  BY DEF TypeOK
<1>2. \E pc \in {"Idle", "Header", "Failed", "CloseShutdown", "Panicked"} :
        rpc' = [rpc EXCEPT ![a] = pc]
  BY DEF FinishFrame, ControlFrame, CloseFrame, MessageFragment, MessageEnd
<1> QED BY <1>1, <1>2

(* A step of its peer: what it takes off the wire leaves a whole frame at  *)
(* the end.                                                                *)
LEMMA PeerStepKeepsEnd ==
  ASSUME Inv, NEW e \in Endpoints, EndInv(e, Peer(e)), Step(Peer(e))
  PROVE  EndInv(e, Peer(e))'
<1> DEFINE a == Peer(e)
           s == wire[e]
<1>1. /\ a \in Endpoints /\ a # e /\ Peer(a) = e /\ TypeOK /\ ReaderInv(a) /\ Step(a)
  BY Peers DEF Inv, EndpointInv
<1>2. Untouched(e)
  BY <1>1, OthersUntouched
<1>3. EndInv(e, a)
  OBVIOUS
<1> HIDE DEF a, s
<1>4. /\ (Gone(e)' <=> Gone(e)) /\ wpc'[e] = wpc[e] /\ (AllWritten(e)' <=> AllWritten(e))
  BY <1>2 DEF Untouched, Gone, AllWritten
<1>5. /\ wpc \in [Endpoints -> WriterStates] /\ rpc \in [Endpoints -> ReaderStates]
      /\ close_state \in [Endpoints -> CloseState]
      /\ wire \in [Endpoints -> Seq(Unit)] /\ s \in Seq(Unit)
  BY <1>1 DEF TypeOK, s
\* a reads what it read before
<1>6. ASSUME wire'[e] = s, Reading(a)' => Reading(a) /\ (rpc'[a] = "Payload" <=> rpc[a] = "Payload")
      PROVE  EndInv(e, a)'
  BY <1>3, <1>4, <1>6 DEF EndInv, s
\* a reads on behind what it read
<1>7. ASSUME Reading(a),
             WholeFrames(s, rpc[a] = "Payload") => WholeFrames(wire'[e], rpc'[a] = "Payload")
      PROVE  EndInv(e, a)'
  BY <1>3, <1>4, <1>7 DEF EndInv, s
<1>8. ASSUME ReadHeader(a) PROVE EndInv(e, a)'
  <2> DEFINE pay == rpc[a] = "Payload"
             pay2 == rpc'[a] = "Payload"
  <2>1. /\ rpc[a] = "Header" /\ s # << >> /\ wire'[e] = Tail(s) /\ Head(s).kind = "header"
    BY <1>1, <1>5, <1>8 DEF ReadHeader, s
  <2>2. Head(s) = s[1]
    BY <1>5, <2>1, HeadAndTail
  <2>3. pay2 => Head(s).len > 0
    <3>1. CASE ReadFails(a, Verdict(a, Head(s)))
      BY <1>1, <1>5, <3>1 DEF ReadFails
    <3>2. CASE FinishFrame(a, Head(s), << >>, StateAfterHeader(a, Head(s)))
      BY <1>1, <3>2, FinishFrameNext
    <3> QED BY <1>1, <1>8, <3>1, <3>2 DEF ReadHeader, s
  <2>4. pay \in BOOLEAN /\ pay2 \in BOOLEAN
    OBVIOUS
  <2>5. pay2 => Announces(s[1])
    BY <2>1, <2>2, <2>3 DEF Announces
  <2> HIDE DEF pay, pay2
  <2>6. WholeFrames(s, pay) => WholeFrames(Tail(s), pay2)
    BY <1>5, <2>1, <2>4, <2>5, WholeTake
  <2>7. Reading(a)
    BY <2>1 DEF Reading
  <2> QED BY <1>7, <2>1, <2>6, <2>7 DEF pay, pay2
<1>9. ASSUME ReadPayload(a) PROVE EndInv(e, a)'
  <2> DEFINE bytes == Head(s).bytes
             len   == frame[a].len
             rest  == SubSeq(bytes, len + 1, Len(bytes))
  <2>1. /\ rpc[a] = "Payload" /\ s # << >> /\ Head(s).kind = "data"
        /\ FinishFrame(a, frame[a], SubSeq(bytes, 1, len), close_state[a])
        /\ wire'[e] = IF len < Len(bytes) THEN << Data(rest) >> \o Tail(s) ELSE Tail(s)
    BY <1>1, <1>5, <1>9 DEF ReadPayload, s
  <2>2. (rpc'[a] = "Payload") = FALSE /\ (rpc[a] = "Payload") = TRUE
    BY <1>1, <2>1, FinishFrameNext
  <2>3. bytes \in Seq(Byte) /\ len \in Nat
    <3>1. Head(s) \in Unit
      BY <1>5, <2>1, HeadAndTail
    <3>2. Head(s).bytes \in Seq(Byte)
      BY <2>1, <3>1 DEF Unit, HeaderUnit, DataUnit
    <3> QED BY <1>1, <3>2 DEF TypeOK, HeaderUnit
  <2>4. rest \in Seq(Byte)
    BY <2>3, SubSeqProperties, LenProperties, SMT
  <2> HIDE DEF rest
  <2>5. WholeFrames(s, TRUE) => WholeFrames(<< Data(rest) >> \o Tail(s), FALSE)
    BY <1>5, <2>1, <2>4, WholeRest
  <2>6. WholeFrames(s, TRUE) => WholeFrames(Tail(s), FALSE)
    BY <1>5, <2>1, WholeTake
  <2>7. Reading(a)
    BY <2>1 DEF Reading
  <2> QED BY <1>7, <2>1, <2>2, <2>5, <2>6, <2>7
<1>10. ASSUME ReadPayloadEof(a) PROVE EndInv(e, a)'
  <2>1. rpc[a] = "Payload" /\ s = << >> /\ wire'[e] = s
    BY <1>1, <1>10 DEF ReadPayloadEof, AtEof, s
  <2>2. ~WholeFrames(s, rpc[a] = "Payload")
    BY <2>1 DEF WholeFrames
  <2>3. Reading(a)
    BY <2>1 DEF Reading
  <2> QED BY <1>7, <2>2, <2>3
\* the end of the stream, or a FIN after it, ends reading
<1>11. ASSUME ReadEof(a) PROVE EndInv(e, a)'
  <2>1. rpc[a] = "Header" /\ rpc'[a] = "Idle" /\ wire'[e] = s
    BY <1>5, <1>1, <1>11 DEF ReadEof, s
  <2> QED BY <1>6, <2>1 DEF Reading
<1>12. ASSUME ReaderShutdown(a) \/ ReaderHangUp(a) \/ ReaderCloseTimeout(a) \/ ReadInterrupted(a)
                \/ Drop(a)
       PROVE  EndInv(e, a)'
  <2>1. wire'[e] = s /\ close_state'[a] = close_state[a]
    BY <1>12 DEF ReaderShutdown, ReaderHangUp, ReaderCloseTimeout, ReaderClosed,
                 ReadInterrupted, Drop, s
  <2>2. CASE rpc'[a] \in {"CloseHangUp", "Failed", "Gone"}
    BY <1>6, <2>1, <2>2 DEF Reading
  <2>3. CASE ReaderHangUp(a) \/ ReaderCloseTimeout(a)
    <3>1. rpc[a] \in ReaderCloses /\ rpc'[a] = "Idle"
      BY <1>1, <1>5, <2>3 DEF ReaderHangUp, ReaderCloseTimeout, ReaderClosed, ReaderCloses
    <3>2. ~can_read(close_state[a])
      BY <1>1, <3>1 DEF ReaderInv, can_read
    <3> QED BY <1>6, <2>1, <3>1, <3>2 DEF Reading
  <2>4. ReaderShutdown(a) \/ ReadInterrupted(a) \/ Drop(a)
          => rpc'[a] \in {"CloseHangUp", "Failed", "Gone"}
    BY <1>5, <1>1 DEF ReaderShutdown, ReadInterrupted, ReadFails, Drop
  <2> QED BY <1>12, <2>2, <2>3, <2>4
<1>13. ASSUME Next_(a) PROVE EndInv(e, a)'
  <2>1. /\ wire'[e] = s /\ rpc[a] = "Idle" /\ rpc'[a] = "Header" /\ can_read(close_state[a])
    BY <1>5, <1>1, <1>13 DEF Next_, MayRead, s
  <2> QED BY <1>6, <2>1 DEF Reading
<1>14. ASSUME Writer(a) \/ \E f \in Frames : Send(a, f) PROVE EndInv(e, a)'
  <2>1. rpc'[a] = rpc[a]
    BY <1>14 DEF Writer, Write, WriteFails, WriterShutdown, WriterHangUp, WriterCloseTimeout,
                 Send, readerVars
  <2>2. wire'[e] = s
    BY <1>1, <1>5, <1>14 DEF Writer, Write, WriteFails, WriterShutdown, WriterHangUp,
                             WriterCloseTimeout, Send, s
  <2>3. close_state'[a] \in {close_state[a], shutdown_state(close_state[a], "Write")}
    BY <1>1, <1>5, <1>14 DEF Writer, Write, WriteFails, WriterShutdown, WriterHangUp,
                             WriterCloseTimeout, Send
  <2>4. can_read(close_state'[a]) <=> can_read(close_state[a])
    BY <1>1, <1>5, <2>3, Shutdown
  <2> QED BY <1>6, <2>1, <2>2, <2>4 DEF Reading
<1>15. EndInv(e, a)'
  BY <1>1, <1>8, <1>9, <1>10, <1>11, <1>12, <1>13, <1>14 DEF Step, Reader, Application
<1> QED BY <1>15 DEF a

\* what holds of an endpoint used by one task
OneTaskInv == \A e \in Endpoints \ Split : EndInv(e, Peer(e))

LEMMA InitOneTaskInv == Init => OneTaskInv
<1>1. ASSUME Init, NEW e \in Endpoints PROVE EndInv(e, Peer(e))
  <2>1. wire[e] = << >> /\ rpc[Peer(e)] = "Idle"
    BY <1>1, Peers DEF Init
  <2> QED BY <2>1 DEF EndInv, WholeFrames
<1> QED BY <1>1 DEF OneTaskInv

LEMMA StepKeepsOneTaskInv ==
  ASSUME Inv, OwnInv, OneTaskInv, [Next]_vars
  PROVE  OneTaskInv'
<1> SUFFICES ASSUME NEW e \in Endpoints \ Split PROVE EndInv(e, Peer(e))'
  BY DEF OneTaskInv
<1>1. TaskInv(e) /\ EndInv(e, Peer(e))
  BY DEF OwnInv, OneTaskInv
<1>2. CASE UNCHANGED vars
  BY <1>1, <1>2 DEF EndInv, AllWritten, Gone, Reading, vars, writerVars, readerVars
<1>3. CASE Step(e)
  BY <1>1, <1>3, OwnStepKeepsEnd
<1>4. CASE Step(Peer(e))
  BY <1>1, <1>4, PeerStepKeepsEnd
<1>5. Next => Step(e) \/ Step(Peer(e))
  BY Peers DEF Next, Step
<1> QED BY <1>2, <1>3, <1>4, <1>5

LEMMA OneTaskInvariance == Spec => []OneTaskInv
<1>1. Inv /\ OwnInv /\ OneTaskInv /\ [Next]_vars => OneTaskInv'
  BY StepKeepsOneTaskInv
<1> QED BY <1>1, InitOneTaskInv, Invariance, OwnInvariance, PTL DEF Spec

(* Used by one task, an endpoint never runs close() twice at once, and when*)
(* do_close shuts its direction down, what its peer has still to read ends *)
(* with a whole frame: the peer's next() finds the end where a header      *)
(* should begin, and never in a frame, but for a Close whose write failed. *)
THEOREM ClosesOnce == Spec => []OneCloser
<1>1. ASSUME Inv, OwnInv, OneTaskInv, NEW e \in Endpoints \ Split
      PROVE  /\ ~(wpc[e] \in WriterCloses /\ rpc[e] \in ReaderCloses)
             /\ wshut[e] => out[e] = << >>
             /\ wshut[e] /\ ~Gone(e) /\ wpc[e] # "Failed" /\ Reading(Peer(e)) =>
                  WholeFrames(wire[e], rpc[Peer(e)] = "Payload")
  <2>1. TaskInv(e) /\ WriterInv(e) /\ EndInv(e, Peer(e))
    BY <1>1 DEF Inv, OwnInv, OneTaskInv, EndpointInv
  <2>2. /\ ~(wpc[e] \in WriterCloses /\ rpc[e] \in ReaderCloses)
        /\ wshut[e] => out[e] = << >>
    BY <2>1 DEF TaskInv, WriterInv, WriterCloses, ReaderCloses
  <2>3. wshut[e] => AllWritten(e)
    BY DEF AllWritten
  <2> QED BY <2>1, <2>2, <2>3 DEF EndInv
<1>2. Inv /\ OwnInv /\ OneTaskInv => OneCloser
  BY <1>1 DEF OneCloser
<1> QED BY <1>2, Invariance, OwnInvariance, OneTaskInvariance, PTL

-----------------------------------------------------------------------------
(* The two endpoints implement the channel.  First, induction and recursion*)
(* on natural numbers, as sets.                                            *)

(* A set of natural numbers that is not empty has a least element.         *)
LEMMA LeastNatural ==
  ASSUME NEW T, T \subseteq Nat, T # {}
  PROVE  \E n \in T : \A m \in T : n <= m
<1> DEFINE R == OpToRel(<, Nat)
<1>1. \E n \in T : \A m \in T : ~(<< m, n >> \in R)
  <2> HIDE DEF R
  <2>1. IsWellFoundedOn(R, Nat)
    BY NatLessThanWellFounded DEF R
  <2> QED BY <2>1, WFMin
<1>2. \A m, n \in Nat : m < n => << m, n >> \in R
  BY DEF OpToRel
<1>3. PICK n \in T : \A m \in T : ~(<< m, n >> \in R)
  BY <1>1
<1> HIDE DEF R
<1>4. ASSUME NEW m \in T PROVE n <= m
  <2>1. m \in Nat /\ n \in Nat
    OBVIOUS
  <2>2. ~(m < n)
    BY <1>2, <1>3, <2>1
  <2> QED BY <2>1, <2>2
<1> QED BY <1>4

(* What holds of 0 and passes to the next number holds of all.             *)
LEMMA NatSetInduction ==
  ASSUME NEW T, T \subseteq Nat, 0 \in T, \A n \in Nat : n \in T => n + 1 \in T
  PROVE  T = Nat
<1> SUFFICES ASSUME Nat \ T # {} PROVE FALSE
  OBVIOUS
<1> DEFINE S == Nat \ T
<1>1. \E n \in S : \A m \in S : n <= m
  <2>1. S \subseteq Nat /\ S # {}
    OBVIOUS
  <2> HIDE DEF S
  <2> QED BY <2>1, LeastNatural
<1>2. PICK n \in Nat \ T : \A m \in Nat \ T : n <= m
  BY <1>1
<1>3. n # 0 /\ n - 1 \in Nat /\ ~(n <= n - 1) /\ n - 1 + 1 = n
  BY <1>2
<1>4. n - 1 \in T
  BY <1>2, <1>3
<1> QED BY <1>2, <1>3, <1>4

(* f goes from a in k steps, the nth of them by step[n].                   *)
Goes(f, S, a, step, k) ==
  f \in [0 .. k -> S] /\ f[0] = a /\ \A n \in 1 .. k : f[n] = step[n][f[n - 1]]

Steps(S, k) == [1 .. k -> [S -> S]]

(* A function that goes from a step by step exists; a recursive definition *)
(* is one that is chosen, and needs this to be what it says.               *)
LEMMA RecursionExists ==
  ASSUME NEW S, NEW a \in S, NEW L \in Nat, NEW G \in Steps(S, L)
  PROVE  \E f : Goes(f, S, a, G, L)
<1> USE DEF Steps
<1> DEFINE P(k, f) == f \in [0 .. k -> S] /\ f[0] = a /\ \A n \in 1 .. k : f[n] = G[n][f[n - 1]]
           T == {k \in Nat : k <= L => \E f : P(k, f)}
<1>1. 0 \in T
  <2> DEFINE f == [n \in 0 .. 0 |-> a]
  <2>1. P(0, f)
    OBVIOUS
  <2> QED BY <2>1
<1>2. ASSUME NEW k \in Nat, k \in T PROVE k + 1 \in T
  <2> SUFFICES ASSUME k + 1 <= L PROVE \E f : P(k + 1, f)
    OBVIOUS
  <2>1. PICK f : P(k, f)
    BY <1>2
  <2> DEFINE g == [n \in 0 .. k + 1 |-> IF n \in 0 .. k THEN f[n] ELSE G[k + 1][f[k]]]
  <2>2. k \in 0 .. k /\ k + 1 \in 1 .. L
    OBVIOUS
  <2>3. f[k] \in S
    BY <2>1, <2>2
  <2>4. G[k + 1][f[k]] \in S
    BY <2>2, <2>3
  <2>5. g \in [0 .. k + 1 -> S]
    BY <2>1, <2>4
  <2>6. g[0] = a
    BY <2>1
  <2>7. ASSUME NEW n \in 1 .. k + 1 PROVE g[n] = G[n][g[n - 1]]
    <3>1. CASE n \in 1 .. k
      BY <2>1, <3>1
    <3>2. CASE n = k + 1
      <4>1. n \notin 0 .. k /\ n \in 0 .. k + 1 /\ n - 1 = k /\ k \in 0 .. k + 1
        BY <3>2
      <4>2. g[n] = G[k + 1][f[k]] /\ g[k] = f[k]
        BY <2>2, <4>1
      <4> QED BY <3>2, <4>1, <4>2
    <3> QED BY <3>1, <3>2
  <2> QED BY <2>5, <2>6, <2>7
<1>3. T = Nat
  <2>1. T \subseteq Nat
    OBVIOUS
  <2> HIDE DEF T
  <2> QED BY <1>1, <1>2, <2>1, NatSetInduction
<1>4. L \in T
  BY <1>3
<1> QED BY <1>4 DEF Goes

-----------------------------------------------------------------------------
(* The messages frames make.                                               *)

\* what Assembled may have at hand
Accs == {a \in [done : Seq(Frame), op : DataOps \cup {"None"}, part : Seq(Byte)] :
           a.op = "None" => a.part = << >>}

(* The elements of two sequences joined.                                   *)
LEMMA Joined ==
  ASSUME NEW S, NEW a \in Seq(S), NEW b \in Seq(S)
  PROVE  /\ a \o b \in Seq(S) /\ Len(a \o b) = Len(a) + Len(b)
         /\ \A i \in 1 .. Len(a) : (a \o b)[i] = a[i]
         /\ \A i \in 1 .. Len(b) : (a \o b)[Len(a) + i] = b[i]
OBVIOUS

(* Sequences of the same length and the same elements are the same.        *)
LEMMA SameElements ==
  ASSUME NEW S, NEW a \in Seq(S), NEW b \in Seq(S), Len(a) = Len(b),
         \A i \in 1 .. Len(a) : a[i] = b[i]
  PROVE  a = b
OBVIOUS

(* The fields of a frame that is sent.                                     *)
LEMMA FrameFields ==
  ASSUME NEW f \in BorrowedFrame
  PROVE  /\ f.op \in DataOps \cup ControlOps /\ f.fin \in BOOLEAN
         /\ f.close_code \in Code /\ f.payload \in Seq(Byte) /\ Len(f.payload) \in Nat
         /\ WireBytes(f) \in Seq(Byte)
         /\ ~is_control(f.op) <=> f.op \in DataOps
<1>1. /\ f.op \in DataOps \cup ControlOps /\ f.fin \in BOOLEAN
      /\ f.close_code \in Code /\ f.payload \in Seq(Byte)
  BY DEF BorrowedFrame
<1>2. Len(f.payload) \in Nat
  BY <1>1, LenProperties
<1>3. ~is_control(f.op) <=> f.op \in DataOps
  BY <1>1 DEF is_control, DataOps, ControlOps
<1> QED BY <1>1, <1>2, <1>3, WireBytesType

(* The payload announced is what comes first behind the header, or after   *)
(* the code of a Close, the code and part of it.                           *)
LEMMA AnnouncedBytes ==
  ASSUME NEW f \in BorrowedFrame
  PROVE  LET bytes == SubSeq(WireBytes(f), 1, Len(f.payload))
         IN  /\ bytes \in Seq(Byte) /\ Len(bytes) = Len(f.payload)
             /\ f.op # "Close" => bytes = f.payload
<1> DEFINE n == Len(f.payload)
           w == WireBytes(f)
<1>1. w \in Seq(Byte) /\ f.payload \in Seq(Byte) /\ n \in Nat /\ f.close_code \in Code
  BY FrameFields
<1>2. n <= Len(w) /\ Len(w) \in Nat
  <2>1. CASE f.op = "Close"
    <3> DEFINE c == to_be_bytes(f.close_code)
    <3>1. c \in Seq(Byte) /\ Len(c) = 2
      BY <1>1, CodeBytes DEF to_be_bytes
    <3>2. w = c \o f.payload
      BY <2>1 DEF WireBytes
    <3>a. f.payload \in Seq(Byte)
      BY <1>1
    <3> HIDE DEF c
    <3>3. ASSUME NEW b \in Seq(Byte) PROVE Len(c \o b) = Len(c) + Len(b)
      BY <3>1, ConcatProperties
    <3>4. Len(w) = 2 + n
      BY <3>1, <3>a, <3>2, <3>3
    <3> QED BY <1>1, <3>4
  <2>2. CASE f.op # "Close"
    BY <1>1, <2>2 DEF WireBytes
  <2> QED BY <2>1, <2>2
<1>3. f.op # "Close" => w = f.payload
  BY DEF WireBytes
<1> HIDE DEF w
<1>4. SubSeq(w, 1, n) \in Seq(Byte) /\ Len(SubSeq(w, 1, n)) = n
      /\ \A i \in 1 .. n : SubSeq(w, 1, n)[i] = w[i]
  BY <1>1, <1>2
<1>5. ASSUME f.op # "Close" PROVE SubSeq(w, 1, n) = f.payload
  BY <1>1, <1>3, <1>4, <1>5, SameElements
<1> QED BY <1>4, <1>5 DEF w

(* The message of a control frame is one next() may return.                *)
LEMMA ControlMessageType ==
  ASSUME NEW f \in BorrowedFrame
  PROVE  ControlMessage(f) \in Frame
<1>1. f.op \in Op /\ f.payload \in Seq(Byte)
  BY FrameFields DEF Op
<1> QED BY <1>1, AnnouncedBytes, DecodeCloseType, ItemType DEF ControlMessage

(* Assembling starts from nothing at hand.                                 *)
LEMMA NothingYetType == NothingYet \in Accs
BY EmptySeq DEF NothingYet, Accs

(* What one more frame does: a message more, or more of one.               *)
LEMMA FrameAdded ==
  ASSUME NEW a \in Accs, NEW f \in BorrowedFrame
  PROVE  /\ AddFrame(a, f) \in Accs
         /\ is_control(f.op) =>
              /\ AddFrame(a, f).done = Append(a.done, ControlMessage(f))
              /\ AddFrame(a, f).op = a.op /\ AddFrame(a, f).part = a.part
         /\ ~is_control(f.op) /\ f.fin =>
              /\ AddFrame(a, f).done = Append(a.done, Item(f.op, a.part \o f.payload))
              /\ AddFrame(a, f).op = "None" /\ AddFrame(a, f).part = << >>
         /\ ~is_control(f.op) /\ ~f.fin =>
              /\ AddFrame(a, f).done = a.done
              /\ AddFrame(a, f).op = f.op /\ AddFrame(a, f).part = a.part \o f.payload
<1>1. /\ a.done \in Seq(Frame) /\ a.op \in DataOps \cup {"None"} /\ a.part \in Seq(Byte)
      /\ a.op = "None" => a.part = << >>
  BY DEF Accs
<1>2. a.part \o f.payload \in Seq(Byte)
  BY <1>1, FrameFields, Joined
<1>3. ControlMessage(f) \in Frame
  BY ControlMessageType
<1>a. a = [done |-> a.done, op |-> a.op, part |-> a.part]
  BY DEF Accs
<1>4. CASE is_control(f.op)
  <2>1. AddFrame(a, f) = [done |-> Append(a.done, ControlMessage(f)), op |-> a.op, part |-> a.part]
    BY <1>4, <1>a DEF AddFrame
  <2>2. Append(a.done, ControlMessage(f)) \in Seq(Frame)
    BY <1>1, <1>3, Appended
  <2> QED BY <1>1, <1>4, <2>1, <2>2 DEF Accs
<1>5. CASE ~is_control(f.op) /\ f.fin
  <2>1. AddFrame(a, f) = [done |-> Append(a.done, Item(f.op, a.part \o f.payload)),
                          op |-> "None", part |-> << >>]
    BY <1>5 DEF AddFrame, NothingYet
  <2>2. Item(f.op, a.part \o f.payload) \in Frame
    BY <1>2, <1>5, FrameFields, ItemType DEF Op
  <2>3. Append(a.done, Item(f.op, a.part \o f.payload)) \in Seq(Frame)
    BY <1>1, <2>2, Appended
  <2> QED BY <1>5, <2>1, <2>3, EmptySeq DEF Accs
<1>6. CASE ~is_control(f.op) /\ ~f.fin
  <2>1. AddFrame(a, f) = [done |-> a.done, op |-> f.op, part |-> a.part \o f.payload]
    BY <1>6, <1>a DEF AddFrame
  <2>2. f.op \in DataOps
    BY <1>6, FrameFields
  <2>3. f.op # "None"
    BY <2>2 DEF DataOps
  <2> QED BY <1>1, <1>2, <1>6, <2>1, <2>2, <2>3 DEF Accs
<1> QED BY <1>4, <1>5, <1>6, FrameFields

(* Assembled(fs) goes from nothing, frame by frame.                        *)
LEMMA AssembledSteps ==
  ASSUME NEW fs \in Seq(BorrowedFrame)
  PROVE  /\ Assembled(fs) \in [0 .. Len(fs) -> Accs]
         /\ Assembled(fs)[0] = NothingYet
         /\ \A n \in 1 .. Len(fs) : Assembled(fs)[n] = AddFrame(Assembled(fs)[n - 1], fs[n])
<1> DEFINE L == Len(fs)
           S == Accs
           G == [n \in 1 .. L |-> [x \in S |-> AddFrame(x, fs[n])]]
           All(f) == [n \in 0 .. L |-> IF n = 0 THEN NothingYet ELSE AddFrame(f[n - 1], fs[n])]
           acc == CHOOSE f : f = All(f)
<1>1. L \in Nat /\ \A n \in 1 .. L : fs[n] \in BorrowedFrame
  BY LenProperties
<1>2. G \in Steps(S, L)
  <2>1. ASSUME NEW n \in 1 .. L, NEW x \in S PROVE AddFrame(x, fs[n]) \in S
    BY <1>1, FrameAdded
  <2> HIDE DEF S, L
  <2> QED BY <2>1 DEF Steps
<1>3. PICK g \in [0 .. L -> S] : g[0] = NothingYet /\ \A n \in 1 .. L : g[n] = G[n][g[n - 1]]
  <2>1. NothingYet \in S
    BY NothingYetType
  <2> HIDE DEF G, L, S, All, acc
  <2>2. \E g : Goes(g, S, NothingYet, G, L)
    BY <1>1, <1>2, <2>1, RecursionExists
  <2> QED BY <2>2 DEF Goes
<1>4. ASSUME NEW n \in 1 .. L
      PROVE  g[n] = AddFrame(g[n - 1], fs[n])
  <2>1. g[n - 1] \in S
    BY <1>1
  <2> HIDE DEF S, L
  <2> QED BY <1>3, <2>1
<1> HIDE DEF S, L
<1>5. g = All(g)
  <2>1. \A n \in 0 .. L : n = 0 \/ n \in 1 .. L
    BY <1>1
  <2>2. \A n \in 0 .. L : g[n] = All(g)[n]
    BY <1>3, <1>4, <2>1
  <2>3. g = [n \in 0 .. L |-> g[n]]
    BY <1>3
  <2> QED BY <2>2, <2>3
<1>6. acc = All(acc)
  <2> HIDE DEF All
  <2> QED BY <1>5
<1>7. Assembled(fs) = acc
  BY DEF Assembled, L
<1>8. \A n \in 0 .. L : acc[n] = IF n = 0 THEN NothingYet ELSE AddFrame(acc[n - 1], fs[n])
  <2> HIDE DEF acc
  <2> QED BY <1>6
<1>9. acc = [n \in 0 .. L |-> acc[n]]
  <2> HIDE DEF acc
  <2> QED BY <1>6
<1> HIDE DEF acc, All, G
<1>10. \A k \in 0 .. L : acc[k] = g[k]
  <2> DEFINE T == {k \in Nat : k <= L => acc[k] = g[k]}
  <2>1. 0 \in T
    BY <1>1, <1>3, <1>8
  <2>2. ASSUME NEW k \in Nat, k \in T PROVE k + 1 \in T
    <3> SUFFICES ASSUME k + 1 <= L PROVE acc[k + 1] = g[k + 1]
      OBVIOUS
    <3>1. k + 1 \in 0 .. L /\ k + 1 # 0 /\ (k + 1) - 1 = k /\ k + 1 \in 1 .. L
      BY <1>1
    <3>2. acc[k] = g[k]
      BY <1>1, <2>2
    <3>3. acc[k + 1] = AddFrame(acc[k], fs[k + 1])
      BY <1>8, <3>1
    <3>4. g[k + 1] = AddFrame(g[k], fs[k + 1])
      BY <1>4, <3>1
    <3> QED BY <3>2, <3>3, <3>4
  <2>3. T = Nat
    <3>1. T \subseteq Nat
      OBVIOUS
    <3> HIDE DEF T
    <3> QED BY <2>1, <2>2, <3>1, NatSetInduction
  <2> QED BY <1>1, <2>3
<1>11. acc = g
  BY <1>3, <1>9, <1>10
<1>12. \A n \in 1 .. L : acc[n] = AddFrame(acc[n - 1], fs[n])
  BY <1>4, <1>11
<1> QED BY <1>3, <1>7, <1>11, <1>12 DEF L, S

(* Frames sent later change nothing about what the first n make.           *)
LEMMA AssembledAppend ==
  ASSUME NEW fs \in Seq(BorrowedFrame), NEW f \in BorrowedFrame
  PROVE  /\ \A n \in 0 .. Len(fs) : Assembled(Append(fs, f))[n] = Assembled(fs)[n]
         /\ Assembled(Append(fs, f))[Len(fs) + 1] = AddFrame(Assembled(fs)[Len(fs)], f)
<1> DEFINE t == Append(fs, f)
           a == Assembled(fs)
           b == Assembled(t)
           L == Len(fs)
<1>1. /\ t \in Seq(BorrowedFrame) /\ Len(t) = L + 1 /\ L \in Nat
      /\ \A i \in 1 .. L : t[i] = fs[i]
      /\ t[L + 1] = f
  BY Appended
<1> HIDE DEF t
<1>2. /\ a[0] = NothingYet /\ \A n \in 1 .. L : a[n] = AddFrame(a[n - 1], fs[n])
      /\ b[0] = NothingYet /\ \A n \in 1 .. L + 1 : b[n] = AddFrame(b[n - 1], t[n])
  BY <1>1, AssembledSteps
<1> HIDE DEF a, b, L
<1>3. \A n \in 0 .. L : b[n] = a[n]
  <2> DEFINE T == {k \in Nat : k <= L => b[k] = a[k]}
  <2>1. 0 \in T
    BY <1>2
  <2>2. ASSUME NEW k \in Nat, k \in T PROVE k + 1 \in T
    <3> SUFFICES ASSUME k + 1 <= L PROVE b[k + 1] = a[k + 1]
      OBVIOUS
    <3>1. k + 1 \in 1 .. L /\ k + 1 \in 1 .. L + 1 /\ (k + 1) - 1 = k /\ k <= L
      BY <1>1
    <3>2. b[k] = a[k] /\ t[k + 1] = fs[k + 1]
      BY <1>1, <2>2, <3>1
    <3>3. b[k + 1] = AddFrame(b[k], t[k + 1])
      BY <1>2, <3>1
    <3>4. a[k + 1] = AddFrame(a[k], fs[k + 1])
      BY <1>2, <3>1
    <3> QED BY <3>2, <3>3, <3>4
  <2>3. T = Nat
    <3>1. T \subseteq Nat
      OBVIOUS
    <3> HIDE DEF T
    <3> QED BY <2>1, <2>2, <3>1, NatSetInduction
  <2> QED BY <1>1, <2>3
<1>4. b[L + 1] = AddFrame(b[L], f)
  <2>1. L + 1 \in 1 .. L + 1 /\ (L + 1) - 1 = L
    BY <1>1
  <2> QED BY <1>1, <1>2, <2>1
<1>5. b[L] = a[L]
  BY <1>1, <1>3
<1> QED BY <1>3, <1>4, <1>5 DEF a, b, t, L

Prefix(s, t) == Len(s) <= Len(t) /\ \A i \in 1 .. Len(s) : s[i] = t[i]

(* A sequence comes first in itself, and in one longer by an element.      *)
LEMMA PrefixOne ==
  ASSUME NEW s \in Seq(Frame), NEW x \in Frame
  PROVE  Prefix(s, s) /\ Prefix(s, Append(s, x))
<1>1. Len(Append(s, x)) = Len(s) + 1 /\ Len(s) \in Nat /\ \A i \in 1 .. Len(s) : Append(s, x)[i] = s[i]
  BY Appended
<1> QED BY <1>1 DEF Prefix

(* What comes first in what comes first comes first.                       *)
LEMMA PrefixTwice ==
  ASSUME NEW r, NEW s, NEW t, Len(r) \in Nat, Len(s) \in Nat, Len(t) \in Nat,
         Prefix(r, s), Prefix(s, t)
  PROVE  Prefix(r, t)
<1>1. Len(r) <= Len(s) /\ Len(s) <= Len(t)
  BY DEF Prefix
<1>2. ASSUME NEW i \in 1 .. Len(r) PROVE r[i] = t[i]
  <2>1. i \in 1 .. Len(s)
    BY <1>1
  <2> QED BY <2>1 DEF Prefix
<1> QED BY <1>1, <1>2 DEF Prefix

(* The messages of the first frames come first among those of all.         *)
LEMMA DoneGrows ==
  ASSUME NEW fs \in Seq(BorrowedFrame), NEW m \in 0 .. Len(fs)
  PROVE  Prefix(Assembled(fs)[m].done, Messages(fs))
<1> DEFINE a == Assembled(fs)
           L == Len(fs)
<1>1. /\ L \in Nat /\ a \in [0 .. L -> Accs] /\ \A n \in 1 .. L : a[n] = AddFrame(a[n - 1], fs[n])
      /\ \A n \in 1 .. L : fs[n] \in BorrowedFrame
  BY AssembledSteps, LenProperties
<1> HIDE DEF a
<1>2. \A n \in 0 .. L : a[n].done \in Seq(Frame) /\ Len(a[n].done) \in Nat
  <2>1. \A n \in 0 .. L : a[n].done \in Seq(Frame)
    BY <1>1 DEF Accs
  <2> QED BY <2>1, LenProperties
<1>3. ASSUME NEW n \in 1 .. L PROVE Prefix(a[n - 1].done, a[n].done)
  <2> DEFINE b == a[n - 1]
             f == fs[n]
             d == a[n].done
  <2>1. n - 1 \in 0 .. L /\ n \in 0 .. L
    BY <1>1
  <2>2. b \in Accs /\ f \in BorrowedFrame /\ b.done \in Seq(Frame) /\ d = AddFrame(b, f).done
    BY <1>1, <1>2, <2>1
  <2> HIDE DEF b, f, d
  <2>3. d = b.done \/ \E x \in Frame : d = Append(b.done, x)
    <3>1. \/ d = b.done \/ d = Append(b.done, ControlMessage(f))
          \/ d = Append(b.done, Item(f.op, b.part \o f.payload))
      BY <2>2, FrameAdded
    <3>2. ControlMessage(f) \in Frame
      BY <2>2, ControlMessageType
    <3>3. Item(f.op, b.part \o f.payload) \in Frame
      <4>1. b.part \in Seq(Byte) /\ f.payload \in Seq(Byte) /\ f.op \in Op
        BY <2>2, FrameFields DEF Accs, Op
      <4> QED BY <4>1, Joined, ItemType
    <3> QED BY <3>1, <3>2, <3>3
  <2>4. ASSUME NEW x \in Frame, d = Append(b.done, x) PROVE Prefix(b.done, d)
    BY <2>2, <2>4, PrefixOne
  <2>5. Prefix(b.done, b.done)
    BY <2>2, LenProperties DEF Prefix
  <2>6. Prefix(b.done, d)
    BY <2>3, <2>4, <2>5
  <2> QED BY <2>6 DEF b, d
<1>4. \A n \in m .. L : Prefix(a[m].done, a[n].done)
  <2> DEFINE T == {k \in Nat : m + k <= L => Prefix(a[m].done, a[m + k].done)}
  <2>1. 0 \in T
    <3>1. Len(a[m].done) \in Nat
      BY <1>2
    <3> QED BY <3>1 DEF Prefix
  <2>2. ASSUME NEW k \in Nat, k \in T PROVE k + 1 \in T
    <3> SUFFICES ASSUME m + (k + 1) <= L PROVE Prefix(a[m].done, a[m + (k + 1)].done)
      OBVIOUS
    <3> DEFINE n == m + (k + 1)
    <3>1. n \in 1 .. L /\ n - 1 = m + k /\ m + k <= L /\ m + k \in 0 .. L /\ n \in 0 .. L /\ m \in 0 .. L
      BY <1>1
    <3> HIDE DEF n
    <3>2. Prefix(a[m].done, a[m + k].done)
      BY <2>2, <3>1
    <3>3. Prefix(a[m + k].done, a[n].done)
      BY <1>3, <3>1
    <3>4. Len(a[m].done) \in Nat /\ Len(a[m + k].done) \in Nat /\ Len(a[n].done) \in Nat
      BY <1>2, <3>1
    <3>5. Prefix(a[m].done, a[n].done)
      BY <3>2, <3>3, <3>4, PrefixTwice
    <3> QED BY <3>5 DEF n
  <2>3. T = Nat
    <3>1. T \subseteq Nat
      OBVIOUS
    <3> HIDE DEF T
    <3> QED BY <2>1, <2>2, <3>1, NatSetInduction
  <2>4. \A n \in m .. L : n - m \in Nat /\ m + (n - m) = n /\ n <= L
    BY <1>1
  <2>5. \A n \in m .. L : n - m \in T
    BY <2>3, <2>4
  <2> QED BY <2>4, <2>5
<1>5. L \in m .. L
  BY <1>1
<1> QED BY <1>4, <1>5 DEF Messages, a

(* The messages of the channel are ones next() may return.                 *)
LEMMA MessagesType ==
  ASSUME NEW fs \in Seq(BorrowedFrame)
  PROVE  Messages(fs) \in Seq(Frame) /\ Len(Messages(fs)) \in Nat
<1>1. Len(fs) \in 0 .. Len(fs)
  BY LenProperties
<1>2. Assembled(fs)[Len(fs)] \in Accs
  BY <1>1, AssembledSteps
<1>3. Messages(fs) \in Seq(Frame)
  BY <1>2 DEF Messages, Accs
<1> QED BY <1>3, LenProperties

\* the message a frame completes, when a is what came before it
Completed(a, f) ==
  IF is_control(f.op) THEN ControlMessage(f) ELSE Item(f.op, a.part \o f.payload)

(* A frame that completes a message puts it behind those before it.        *)
LEMMA NextMessage ==
  ASSUME NEW fs \in Seq(BorrowedFrame), NEW n \in 1 .. Len(fs), is_control(fs[n].op) \/ fs[n].fin
  PROVE  LET s == Assembled(fs)[n - 1].done
             m == Completed(Assembled(fs)[n - 1], fs[n])
         IN  /\ s \in Seq(Frame) /\ m \in Frame
             /\ Assembled(fs)[n].done = Append(s, m)
             /\ Len(s) < Len(Messages(fs)) /\ Messages(fs)[Len(s) + 1] = m
<1> DEFINE a == Assembled(fs)[n - 1]
           f == fs[n]
           s == a.done
           m == Completed(a, f)
           d == Assembled(fs)[n].done
<1>1. n - 1 \in 0 .. Len(fs) /\ n \in 0 .. Len(fs) /\ f \in BorrowedFrame /\ (is_control(f.op) \/ f.fin)
  BY LenProperties
<1>2. a \in Accs /\ d = AddFrame(a, f).done
  BY <1>1, AssembledSteps
<1> HIDE DEF a, f, d
<1>3. a.part \o f.payload \in Seq(Byte)
  BY <1>1, <1>2, FrameFields, Joined DEF Accs
<1>4. s \in Seq(Frame) /\ m \in Frame
  BY <1>1, <1>2, <1>3, FrameFields, ControlMessageType, ItemType DEF Accs, Completed, Op
<1>5. d = Append(s, m)
  BY <1>1, <1>2, FrameAdded DEF Completed
<1> HIDE DEF s, m
<1>6. Len(d) = Len(s) + 1 /\ Len(s) \in Nat /\ d[Len(s) + 1] = m
  BY <1>4, <1>5, Appended
<1>7. Prefix(d, Messages(fs)) /\ Len(Messages(fs)) \in Nat
  BY <1>1, DoneGrows, MessagesType DEF d
<1>8. Len(s) + 1 \in 1 .. Len(d)
  BY <1>6
<1>9. Len(s) < Len(Messages(fs)) /\ Messages(fs)[Len(s) + 1] = m
  BY <1>6, <1>7, <1>8 DEF Prefix
<1> QED BY <1>4, <1>5, <1>9 DEF a, f, s, m, d

-----------------------------------------------------------------------------
(* The units of frames, when some are put behind or taken from the front.  *)

(* A unit written goes from what is to be written to the wire.             *)
LEMMA PutJoined ==
  ASSUME NEW w \in Seq(Unit), NEW o \in Seq(Unit), o # << >>
  PROVE  Append(w, Head(o)) \o Tail(o) = w \o o
<1> DEFINE v == Append(w, Head(o))
           t == Tail(o)
<1>1. /\ Len(o) \in Nat \ {0} /\ Head(o) = o[1] /\ o[1] \in Unit /\ Len(w) \in Nat
      /\ t \in Seq(Unit) /\ Len(t) = Len(o) - 1 /\ Len(t) \in Nat
      /\ \A i \in 1 .. Len(t) : t[i] = o[i + 1]
  BY HeadAndTail, LenProperties
<1>2. /\ v \in Seq(Unit) /\ Len(v) = Len(w) + 1
      /\ \A i \in 1 .. Len(w) : v[i] = w[i]
      /\ v[Len(w) + 1] = o[1]
  BY <1>1, Appended
<1> HIDE DEF v, t
<1>a. v \in Seq(Unit) /\ t \in Seq(Unit)
  BY <1>1, <1>2
<1>3. /\ v \o t \in Seq(Unit) /\ Len(v \o t) = Len(v) + Len(t)
      /\ \A i \in 1 .. Len(v) : (v \o t)[i] = v[i]
      /\ \A i \in 1 .. Len(t) : (v \o t)[Len(v) + i] = t[i]
  BY <1>a, Joined
<1>4. /\ w \o o \in Seq(Unit) /\ Len(w \o o) = Len(w) + Len(o)
      /\ \A i \in 1 .. Len(w) : (w \o o)[i] = w[i]
      /\ \A i \in 1 .. Len(o) : (w \o o)[Len(w) + i] = o[i]
  BY Joined
<1>5. ASSUME NEW i \in 1 .. Len(w) + Len(o) PROVE (v \o t)[i] = (w \o o)[i]
  <2>1. CASE i \in 1 .. Len(w)
    <3>1. i \in 1 .. Len(v)
      BY <1>1, <1>2, <2>1
    <3> QED BY <1>2, <1>3, <1>4, <2>1, <3>1
  <2>2. CASE i = Len(w) + 1
    <3>1. i \in 1 .. Len(v) /\ 1 \in 1 .. Len(o)
      BY <1>1, <1>2, <2>2
    <3> QED BY <1>2, <1>3, <1>4, <2>2, <3>1
  <2>3. CASE i > Len(w) + 1
    <3> DEFINE k == i - Len(v)
    <3>1. k \in 1 .. Len(t) /\ k + 1 \in 1 .. Len(o) /\ i = Len(v) + k /\ i = Len(w) + (k + 1)
      BY <1>1, <1>2, <2>3
    <3> HIDE DEF k
    <3>2. (v \o t)[i] = t[k]
      BY <1>3, <3>1
    <3>3. (w \o o)[i] = o[k + 1]
      BY <1>4, <3>1
    <3>4. t[k] = o[k + 1]
      BY <1>1, <3>1
    <3> QED BY <3>2, <3>3, <3>4
  <2>4. Len(w) \in Nat
    BY <1>1
  <2>5. i \in 1 .. Len(w) \/ i = Len(w) + 1 \/ i > Len(w) + 1
    BY <2>4
  <2> QED BY <2>1, <2>2, <2>3, <2>5
<1>6. Len(v \o t) = Len(w) + Len(o)
  BY <1>1, <1>2, <1>3
<1>7. v \o t = w \o o
  BY <1>3, <1>4, <1>5, <1>6, SameElements
<1> QED BY <1>7 DEF v, t

(* A unit taken is the first of all.                                       *)
LEMMA TakeJoined ==
  ASSUME NEW w \in Seq(Unit), NEW o \in Seq(Unit), w # << >>
  PROVE  /\ w \o o \in Seq(Unit) /\ Len(w \o o) \in Nat \ {0}
         /\ (w \o o)[1] = w[1]
         /\ Tail(w) \o o \in Seq(Unit) /\ Len(Tail(w) \o o) = Len(w \o o) - 1
         /\ \A i \in 1 .. Len(Tail(w) \o o) : (Tail(w) \o o)[i] = (w \o o)[i + 1]
<1> DEFINE t == Tail(w)
<1>1. /\ Len(w) \in Nat \ {0} /\ Len(o) \in Nat
      /\ t \in Seq(Unit) /\ Len(t) = Len(w) - 1 /\ Len(t) \in Nat
      /\ \A i \in 1 .. Len(t) : t[i] = w[i + 1]
  BY HeadAndTail, LenProperties
<1> HIDE DEF t
<1>a. t \in Seq(Unit)
  BY <1>1
<1>2. /\ t \o o \in Seq(Unit) /\ Len(t \o o) = Len(t) + Len(o)
      /\ \A i \in 1 .. Len(t) : (t \o o)[i] = t[i]
      /\ \A i \in 1 .. Len(o) : (t \o o)[Len(t) + i] = o[i]
  BY <1>a, Joined
<1>3. /\ w \o o \in Seq(Unit) /\ Len(w \o o) = Len(w) + Len(o)
      /\ \A i \in 1 .. Len(w) : (w \o o)[i] = w[i]
      /\ \A i \in 1 .. Len(o) : (w \o o)[Len(w) + i] = o[i]
  BY Joined
<1>4. ASSUME NEW i \in 1 .. Len(t \o o) PROVE (t \o o)[i] = (w \o o)[i + 1]
  <2>1. CASE i \in 1 .. Len(t)
    <3>1. i + 1 \in 1 .. Len(w)
      BY <1>1, <2>1
    <3> QED BY <1>1, <1>2, <1>3, <2>1, <3>1
  <2>2. CASE i > Len(t)
    <3> DEFINE k == i - Len(t)
    <3>1. k \in 1 .. Len(o) /\ i = Len(t) + k /\ i + 1 = Len(w) + k
      BY <1>1, <1>2, <2>2
    <3> HIDE DEF k
    <3>2. (t \o o)[i] = o[k]
      BY <1>2, <3>1
    <3>3. (w \o o)[i + 1] = o[k]
      BY <1>3, <3>1
    <3> QED BY <3>2, <3>3
  <2> QED BY <1>1, <2>1, <2>2
<1>5. Len(t \o o) = Len(w \o o) - 1 /\ Len(w \o o) \in Nat \ {0} /\ 1 \in 1 .. Len(w)
  BY <1>1, <1>2, <1>3
<1> QED BY <1>2, <1>3, <1>4, <1>5 DEF t

(* With nothing still to write, the units are those on the wire.           *)
LEMMA NothingJoined ==
  ASSUME NEW w \in Seq(Unit)
  PROVE  w \o << >> = w
BY ConcatEmptySeq

(* What is not written any more is not carried.                            *)
LEMMA CarriesLess ==
  ASSUME NEW w \in Seq(Unit), NEW o \in Seq(Unit), NEW fs, NEW at, Carries(w \o o, at, fs)
  PROVE  LET less == [i \in 0 .. Len(w) |-> at[i]]
         IN  Carries(w, less, fs) /\ less[0] = at[0]
<1> DEFINE u == w \o o
           less == [i \in 0 .. Len(w) |-> at[i]]
<1>1. /\ Len(w) \in Nat /\ Len(o) \in Nat /\ Len(u) = Len(w) + Len(o)
      /\ \A i \in 1 .. Len(w) : u[i] = w[i]
  BY Joined, LenProperties
<1> HIDE DEF u
<1>2. /\ at \in [0 .. Len(u) -> 0 .. Len(fs)]
      /\ \A i \in 1 .. Len(u) :
           /\ at[i] # 0
           /\ IF u[i].kind = "header"
              THEN at[i] = at[i - 1] + 1 /\ HeaderOf(u[i], fs[at[i]])
              ELSE at[i] = at[i - 1] /\ u[i].bytes = WireBytes(fs[at[i]])
  BY DEF Carries, u
<1>3. less \in [0 .. Len(w) -> 0 .. Len(fs)] /\ less[0] = at[0]
  BY <1>1, <1>2
<1>4. ASSUME NEW i \in 1 .. Len(w)
      PROVE  i \in 1 .. Len(u) /\ less[i] = at[i] /\ less[i - 1] = at[i - 1] /\ u[i] = w[i]
  BY <1>1
<1> HIDE DEF less
<1>5. Carries(w, less, fs)
  BY <1>2, <1>3, <1>4 DEF Carries
<1> QED BY <1>3, <1>5 DEF less

\* t is what comes after the first unit of u
Rest(t, u) ==
  /\ u \in Seq(Unit) /\ t \in Seq(Unit) /\ Len(u) \in Nat \ {0} /\ Len(t) = Len(u) - 1
  /\ \A i \in 1 .. Len(t) : t[i] = u[i + 1]

(* The first unit is taken.                                                *)
LEMMA CarriesTail ==
  ASSUME NEW u, NEW t, Rest(t, u), NEW fs, NEW at, Carries(u, at, fs)
  PROVE  \E next : Carries(t, next, fs) /\ next[0] = at[1] /\ next[Len(t)] = at[Len(u)]
<1> DEFINE next == [i \in 0 .. Len(t) |-> at[i + 1]]
<1>1. /\ at \in [0 .. Len(u) -> 0 .. Len(fs)]
      /\ \A i \in 1 .. Len(u) :
           /\ at[i] # 0
           /\ IF u[i].kind = "header"
              THEN at[i] = at[i - 1] + 1 /\ HeaderOf(u[i], fs[at[i]])
              ELSE at[i] = at[i - 1] /\ u[i].bytes = WireBytes(fs[at[i]])
  BY DEF Carries
<1>a. /\ u \in Seq(Unit) /\ t \in Seq(Unit) /\ Len(u) \in Nat \ {0} /\ Len(t) = Len(u) - 1
      /\ \A i \in 1 .. Len(t) : t[i] = u[i + 1]
  BY DEF Rest
<1>2. Len(t) \in Nat /\ Len(t) + 1 = Len(u)
  BY <1>a
<1>3. next \in [0 .. Len(t) -> 0 .. Len(fs)] /\ next[0] = at[1] /\ next[Len(t)] = at[Len(u)]
  BY <1>1, <1>2
<1>4. ASSUME NEW i \in 1 .. Len(t)
      PROVE  /\ i + 1 \in 1 .. Len(u) /\ (i + 1) - 1 = i /\ next[i] = at[i + 1]
             /\ next[i - 1] = at[i] /\ t[i] = u[i + 1]
  BY <1>a, <1>2
<1> HIDE DEF next
<1>5. Carries(t, next, fs)
  <2>1. ASSUME NEW i \in 1 .. Len(t)
        PROVE  /\ next[i] # 0
               /\ IF t[i].kind = "header"
                  THEN next[i] = next[i - 1] + 1 /\ HeaderOf(t[i], fs[next[i]])
                  ELSE next[i] = next[i - 1] /\ t[i].bytes = WireBytes(fs[next[i]])
    <3>1. /\ at[i + 1] # 0
          /\ IF u[i + 1].kind = "header"
             THEN at[i + 1] = at[i] + 1 /\ HeaderOf(u[i + 1], fs[at[i + 1]])
             ELSE at[i + 1] = at[i] /\ u[i + 1].bytes = WireBytes(fs[at[i + 1]])
      BY <1>1, <1>4
    <3> QED BY <1>4, <3>1
  <2> QED BY <1>3, <2>1 DEF Carries
<1> QED BY <1>3, <1>5 DEF next

(* A frame is encoded behind the others.                                   *)
LEMMA CarriesMore ==
  ASSUME NEW w \in Seq(Unit), NEW fs \in Seq(BorrowedFrame), NEW f \in BorrowedFrame,
         NEW at, Carries(w, at, fs), at[Len(w)] = Len(fs),
         NEW op \in Op, op = f.op \/ (op = "Continuation" /\ ~is_control(f.op)),
         NEW masked \in BOOLEAN
  PROVE  LET u    == w \o Encode(f, op, masked)
             more == [i \in 0 .. Len(u) |-> IF i <= Len(w) THEN at[i] ELSE Len(fs) + 1]
         IN  Carries(u, more, Append(fs, f)) /\ more[0] = at[0] /\ more[Len(u)] = Len(fs) + 1
<1> DEFINE o    == Encode(f, op, masked)
           u    == w \o o
           more == [i \in 0 .. Len(u) |-> IF i <= Len(w) THEN at[i] ELSE Len(fs) + 1]
           h    == Header(op, f.fin, masked, Len(f.payload))
           d    == Data(WireBytes(f))
           gs   == Append(fs, f)
<1>1. /\ o \in Seq(Unit) /\ o = IF WireBytes(f) = << >> THEN << h >> ELSE << h, d >>
      /\ h.kind = "header" /\ HeaderOf(h, f)
      /\ d.kind = "data" /\ d.bytes = WireBytes(f)
  BY EncodeType DEF Encode, Header, Data, HeaderOf
<1>2. /\ Len(o) \in {1, 2} /\ o[1] = h /\ (Len(o) = 2 => o[2] = d)
  BY <1>1
<1> HIDE DEF o, h, d
<1>3. /\ u \in Seq(Unit) /\ Len(w) \in Nat /\ Len(u) = Len(w) + Len(o)
      /\ \A i \in 1 .. Len(w) : u[i] = w[i]
      /\ \A i \in 1 .. Len(o) : u[Len(w) + i] = o[i]
  BY <1>1, Joined, LenProperties
<1>4. /\ gs \in Seq(BorrowedFrame) /\ Len(gs) = Len(fs) + 1 /\ Len(fs) \in Nat
      /\ \A i \in 1 .. Len(fs) : gs[i] = fs[i]
      /\ gs[Len(fs) + 1] = f
  BY Appended
<1>5. /\ at \in [0 .. Len(w) -> 0 .. Len(fs)]
      /\ \A i \in 1 .. Len(w) :
           /\ at[i] # 0
           /\ IF w[i].kind = "header"
              THEN at[i] = at[i - 1] + 1 /\ HeaderOf(w[i], fs[at[i]])
              ELSE at[i] = at[i - 1] /\ w[i].bytes = WireBytes(fs[at[i]])
  BY DEF Carries
<1>6. Len(u) \in Nat /\ 0 \in 0 .. Len(u) /\ 0 <= Len(w) /\ Len(u) \in 0 .. Len(u) /\ ~(Len(u) <= Len(w))
  BY <1>2, <1>3
<1> HIDE DEF u, gs
<1>7. /\ \A i \in 0 .. Len(w) : more[i] = at[i]
      /\ \A i \in Len(w) + 1 .. Len(u) : more[i] = Len(fs) + 1
      /\ more \in [0 .. Len(u) -> 0 .. Len(gs)]
  <2>a. \A i \in 0 .. Len(w) : i \in 0 .. Len(u) /\ i <= Len(w)
    BY <1>2, <1>3
  <2>b. \A k \in 0 .. Len(fs) : k \in 0 .. Len(gs)
    BY <1>4
  <2>c. \A i \in 0 .. Len(w) : at[i] \in 0 .. Len(fs)
    BY <1>5
  <2>1. \A i \in 0 .. Len(w) : i \in 0 .. Len(u) /\ i <= Len(w) /\ at[i] \in 0 .. Len(gs)
    BY <2>a, <2>b, <2>c
  <2>2. \A i \in Len(w) + 1 .. Len(u) : i \in 0 .. Len(u) /\ ~(i <= Len(w))
    BY <1>3
  <2>3. \A i \in 0 .. Len(u) : i <= Len(w) => i \in 0 .. Len(w)
    BY <1>3
  <2>4. Len(fs) + 1 \in 0 .. Len(gs)
    BY <1>4
  <2>5. \A i \in 0 .. Len(u) : (IF i <= Len(w) THEN at[i] ELSE Len(fs) + 1) \in 0 .. Len(gs)
    BY <2>1, <2>3, <2>4
  <2> QED BY <2>1, <2>2, <2>5
<1>8. more[0] = at[0] /\ more[Len(u)] = Len(fs) + 1
  BY <1>6
<1> HIDE DEF more
<1>9. ASSUME NEW i \in 1 .. Len(u)
      PROVE  /\ more[i] # 0
             /\ IF u[i].kind = "header"
                THEN more[i] = more[i - 1] + 1 /\ HeaderOf(u[i], gs[more[i]])
                ELSE more[i] = more[i - 1] /\ u[i].bytes = WireBytes(gs[more[i]])
  <2>1. CASE i \in 1 .. Len(w)
    <3>1. i \in 0 .. Len(w) /\ i - 1 \in 0 .. Len(w) /\ u[i] = w[i]
      BY <1>3, <2>1
    <3>2. more[i] = at[i] /\ more[i - 1] = at[i - 1]
      BY <1>7, <3>1
    <3>3. at[i] # 0 /\ at[i] \in 0 .. Len(fs)
      BY <1>5, <2>1, <3>1
    <3>4. at[i] \in 1 .. Len(fs)
      BY <3>3
    <3>5. gs[at[i]] = fs[at[i]]
      BY <1>4, <3>4
    <3> QED BY <1>5, <2>1, <3>1, <3>2, <3>5
  <2>2. CASE i = Len(w) + 1
    <3>1. i \in Len(w) + 1 .. Len(u) /\ i - 1 = Len(w) /\ Len(w) \in 0 .. Len(w) /\ 1 \in 1 .. Len(o)
      BY <1>2, <1>3, <2>2
    <3>2. more[i] = Len(fs) + 1 /\ more[i - 1] = Len(fs) /\ u[i] = h
      BY <1>2, <1>3, <1>7, <2>2, <3>1
    <3>3. Len(fs) + 1 # 0
      BY <1>4
    <3> QED BY <1>1, <1>4, <3>2, <3>3
  <2>3. CASE i = Len(w) + 2
    <3>1. /\ i \in Len(w) + 1 .. Len(u) /\ i - 1 \in Len(w) + 1 .. Len(u) /\ Len(o) = 2
          /\ 2 \in 1 .. Len(o)
      BY <1>2, <1>3, <2>3
    <3>2. more[i] = Len(fs) + 1 /\ more[i - 1] = Len(fs) + 1 /\ u[i] = d
      BY <1>2, <1>3, <1>7, <2>3, <3>1
    <3>3. Len(fs) + 1 # 0
      BY <1>4
    <3>4. d.kind # "header"
      BY <1>1
    <3> QED BY <1>1, <1>4, <3>2, <3>3, <3>4
  <2>4. Len(w) \in Nat /\ Len(u) \in {Len(w) + 1, Len(w) + 2}
    BY <1>2, <1>3
  <2>5. i \in 1 .. Len(w) \/ i = Len(w) + 1 \/ i = Len(w) + 2
    BY <2>4
  <2> QED BY <2>1, <2>2, <2>3, <2>5
<1>10. Carries(u, more, gs)
  BY <1>7, <1>9 DEF Carries
<1> QED BY <1>8, <1>10 DEF u, more, gs, o

(* The units carried belong to frames that were sent.                      *)
LEMMA CarriedType ==
  ASSUME NEW u \in Seq(Unit), NEW fs \in Seq(BorrowedFrame), NEW n, NEW k, Carried(u, n, k, fs)
  PROVE  n \in 0 .. Len(fs) /\ k \in 0 .. Len(fs)
<1>1. PICK at : Carries(u, at, fs) /\ at[0] = n /\ at[Len(u)] = k
  BY DEF Carried
<1>2. at \in [0 .. Len(u) -> 0 .. Len(fs)]
  BY <1>1 DEF Carries
<1>3. 0 \in 0 .. Len(u) /\ Len(u) \in 0 .. Len(u)
  BY LenProperties
<1> QED BY <1>1, <1>2, <1>3

(* As CarriesLess: the units up to some earlier frame are left.            *)
LEMMA CarriedLess ==
  ASSUME NEW w \in Seq(Unit), NEW o \in Seq(Unit), NEW fs \in Seq(BorrowedFrame), NEW n, NEW k,
         Carried(w \o o, n, k, fs)
  PROVE  \E j \in 0 .. Len(fs) : Carried(w, n, j, fs)
<1>1. PICK at : Carries(w \o o, at, fs) /\ at[0] = n
  BY DEF Carried
<1>2. PICK less : Carries(w, less, fs) /\ less[0] = at[0]
  BY <1>1, CarriesLess
<1>3. PICK j : j = less[Len(w)]
  OBVIOUS
<1>4. Carried(w, n, j, fs)
  BY <1>1, <1>2, <1>3 DEF Carried
<1> QED BY <1>4, CarriedType

(* As CarriesTail: the first unit is the next header, or what comes with   *)
(* the last one taken.                                                     *)
LEMMA CarriedTail ==
  ASSUME NEW u, NEW t, Rest(t, u), NEW fs \in Seq(BorrowedFrame), NEW n, NEW k, Carried(u, n, k, fs)
  PROVE  \E m \in 1 .. Len(fs) :
           /\ Carried(t, m, k, fs)
           /\ IF u[1].kind = "header" THEN m = n + 1 /\ HeaderOf(u[1], fs[m])
              ELSE m = n /\ u[1].bytes = WireBytes(fs[m])
<1>1. PICK at : Carries(u, at, fs) /\ at[0] = n /\ at[Len(u)] = k
  BY DEF Carried
<1>2. PICK m : m = at[1]
  OBVIOUS
<1>a. /\ u \in Seq(Unit) /\ t \in Seq(Unit) /\ Len(u) \in Nat \ {0} /\ Len(t) = Len(u) - 1
      /\ \A i \in 1 .. Len(t) : t[i] = u[i + 1]
  BY DEF Rest
<1>3. PICK next : Carries(t, next, fs) /\ next[0] = at[1] /\ next[Len(t)] = at[Len(u)]
  BY <1>1, CarriesTail
<1>4. Carried(t, m, k, fs)
  BY <1>1, <1>2, <1>3 DEF Carried
<1>5. 1 \in 1 .. Len(u) /\ 1 - 1 = 0
  BY <1>a
<1>6. at[1] # 0 /\ IF u[1].kind = "header" THEN at[1] = at[1 - 1] + 1 /\ HeaderOf(u[1], fs[at[1]])
                   ELSE at[1] = at[1 - 1] /\ u[1].bytes = WireBytes(fs[at[1]])
  BY <1>1, <1>5 DEF Carries
<1>7. m \in 0 .. Len(fs) /\ Len(fs) \in Nat
  BY <1>4, <1>a, CarriedType, LenProperties
<1>8. m \in 1 .. Len(fs)
  BY <1>2, <1>6, <1>7
<1> QED BY <1>1, <1>2, <1>4, <1>5, <1>6, <1>8

(* As CarriesMore: the units now go up to the frame just encoded.          *)
LEMMA CarriedMore ==
  ASSUME NEW w \in Seq(Unit), NEW fs \in Seq(BorrowedFrame), NEW f \in BorrowedFrame,
         NEW n, Carried(w, n, Len(fs), fs),
         NEW op \in Op, op = f.op \/ (op = "Continuation" /\ ~is_control(f.op)),
         NEW masked \in BOOLEAN
  PROVE  Carried(w \o Encode(f, op, masked), n, Len(fs) + 1, Append(fs, f))
<1>1. PICK at : Carries(w, at, fs) /\ at[0] = n /\ at[Len(w)] = Len(fs)
  BY DEF Carried
<1> DEFINE u == w \o Encode(f, op, masked)
           more == [i \in 0 .. Len(u) |-> IF i <= Len(w) THEN at[i] ELSE Len(fs) + 1]
<1>2. Carries(u, more, Append(fs, f)) /\ more[0] = at[0] /\ more[Len(u)] = Len(fs) + 1
  BY <1>1, CarriesMore
<1> HIDE DEF u, more
<1>3. Carried(u, n, Len(fs) + 1, Append(fs, f))
  BY <1>1, <1>2 DEF Carried
<1> QED BY <1>3 DEF u

-----------------------------------------------------------------------------
(* Steps that leave a direction as it is, but for what is not written yet. *)

\* nothing is taken from the direction p reads
NothingTaken(p) ==
  /\ got'[p] = got[p] /\ current_message'[p] = current_message[p] /\ frame'[p] = frame[p]
  /\ rpc'[p] = "Payload" <=> rpc[p] = "Payload"

(* What the reader has taken stays taken.                                  *)
LEMMA HasTakenKept ==
  ASSUME NEW e, NEW p, NEW n, HasTaken(e, p, n), NothingTaken(p), sent'[e] = sent[e]
  PROVE  HasTaken(e, p, n)'
BY DEF HasTaken, NothingTaken

(* The direction carries what it did, wherever its units now are.          *)
LEMMA StreamKept ==
  ASSUME NEW e, NEW p, StreamInv(e, p), NothingTaken(p),
         Live(e, p)' => Live(e, p), Intact(e)' => Intact(e),
         sent'[e] = sent[e], wire'[e] \o out'[e] = wire[e] \o out[e]
  PROVE  StreamInv(e, p)'
<1> SUFFICES ASSUME Live(e, p)'
             PROVE  \E n, k \in 0 .. Len(sent'[e]) :
                      /\ Carried(wire'[e] \o out'[e], n, k, sent'[e])
                      /\ HasTaken(e, p, n)'
                      /\ Intact(e)' => k = Len(sent'[e])
  BY DEF StreamInv
<1>1. PICK n, k \in 0 .. Len(sent[e]) :
        /\ Carried(wire[e] \o out[e], n, k, sent[e])
        /\ HasTaken(e, p, n)
        /\ Intact(e) => k = Len(sent[e])
  BY DEF StreamInv
<1>2. HasTaken(e, p, n)'
  BY <1>1, HasTakenKept
<1>3. n \in 0 .. Len(sent'[e]) /\ k \in 0 .. Len(sent'[e])
  BY <1>1
<1>4. Carried(wire'[e] \o out'[e], n, k, sent'[e])
  BY <1>1
<1>5. Intact(e)' => k = Len(sent'[e])
  BY <1>1
<1> QED BY <1>2, <1>3, <1>4, <1>5

(* What the writer held is lost, and it writes no more.                    *)
LEMMA StreamCut ==
  ASSUME NEW e, NEW p, StreamInv(e, p), NothingTaken(p),
         Live(e, p)' => Live(e, p), ~Intact(e)',
         wire[e] \in Seq(Unit), out[e] \in Seq(Unit), sent[e] \in Seq(BorrowedFrame),
         sent'[e] = sent[e], wire'[e] = wire[e], out'[e] = << >>
  PROVE  StreamInv(e, p)'
<1> SUFFICES ASSUME Live(e, p)'
             PROVE  \E n, k \in 0 .. Len(sent'[e]) :
                      /\ Carried(wire'[e] \o out'[e], n, k, sent'[e])
                      /\ HasTaken(e, p, n)'
                      /\ Intact(e)' => k = Len(sent'[e])
  BY DEF StreamInv
<1>1. PICK n, k \in 0 .. Len(sent[e]) :
        /\ Carried(wire[e] \o out[e], n, k, sent[e])
        /\ HasTaken(e, p, n)
  BY DEF StreamInv
<1>2. PICK j \in 0 .. Len(sent[e]) : Carried(wire[e], n, j, sent[e])
  BY <1>1, CarriedLess
<1>3. wire'[e] \o out'[e] = wire[e]
  BY NothingJoined
<1>4. HasTaken(e, p, n)'
  BY <1>1, HasTakenKept
<1>5. Carried(wire'[e] \o out'[e], n, j, sent'[e])
  BY <1>2, <1>3
<1>6. n \in 0 .. Len(sent'[e]) /\ j \in 0 .. Len(sent'[e])
  BY <1>1, <1>2
<1> QED BY <1>4, <1>5, <1>6

\* p reads no more
LEMMA StreamOver ==
  ASSUME NEW e, NEW p, ~Reading(p)'
  PROVE  StreamInv(e, p)'
BY DEF StreamInv, Live

(* A frame is sent: the messages done stay, and there may be one more.     *)
LEMMA MessagesGrow ==
  ASSUME NEW fs \in Seq(BorrowedFrame), NEW f \in BorrowedFrame
  PROVE  LET m == Messages(fs)
             n == Messages(Append(fs, f))
         IN  n = m \/ \E x \in Frame : n = Append(m, x)
<1> DEFINE a == Assembled(fs)[Len(fs)]
<1>1. Len(Append(fs, f)) = Len(fs) + 1 /\ Len(fs) \in 0 .. Len(fs)
  BY Appended, LenProperties
<1>2. a \in Accs
  BY <1>1, AssembledSteps
<1>3. Messages(fs) = a.done /\ Messages(Append(fs, f)) = AddFrame(a, f).done
  BY <1>1, AssembledAppend DEF Messages
<1> HIDE DEF a
<1>4. ControlMessage(f) \in Frame
  BY ControlMessageType
<1>5. Item(f.op, a.part \o f.payload) \in Frame
  <2>1. a.part \in Seq(Byte) /\ f.payload \in Seq(Byte) /\ f.op \in Op
    BY <1>2, FrameFields DEF Accs, Op
  <2> QED BY <2>1, Joined, ItemType
<1>6. \/ AddFrame(a, f).done = a.done
      \/ AddFrame(a, f).done = Append(a.done, ControlMessage(f))
      \/ AddFrame(a, f).done = Append(a.done, Item(f.op, a.part \o f.payload))
  BY <1>2, FrameAdded
<1> QED BY <1>3, <1>4, <1>5, <1>6

(* A message that is due stays due: more may be sent, and the sender may   *)
(* finish.                                                                 *)
LEMMA DueKept ==
  ASSUME NEW e, NEW p, NEW m, Due(e, p, m), got'[p] = got[p], wshut[e] => wshut'[e],
         got[p] \in Seq(Frame), sent[e] \in Seq(BorrowedFrame),
         sent'[e] = sent[e] \/ \E f \in BorrowedFrame : sent'[e] = Append(sent[e], f)
  PROVE  Due(e, p, m)'
<1> DEFINE a == Messages(sent[e])
           b == Messages(sent'[e])
           k == Len(got[p])
<1>1. k \in Nat /\ a \in Seq(Frame) /\ Len(a) \in Nat /\ k < Len(a)
  BY LenProperties, MessagesType DEF Due
<1>2. b = a \/ \E x \in Frame : b = Append(a, x)
  BY MessagesGrow
<1> HIDE DEF a, b
<1>3. k + 1 \in 1 .. Len(a)
  BY <1>1
<1>4. k < Len(b) /\ b[k + 1] = a[k + 1]
  <2>1. ASSUME NEW x \in Frame, b = Append(a, x) PROVE k < Len(b) /\ b[k + 1] = a[k + 1]
    <3>1. Len(b) = Len(a) + 1 /\ \A i \in 1 .. Len(a) : b[i] = a[i]
      BY <1>1, <2>1, Appended
    <3> QED BY <1>1, <1>3, <3>1
  <2> QED BY <1>1, <1>2, <2>1
<1> QED BY <1>4 DEF Due, a, b

(* So does the Close frame that is held.                                   *)
LEMMA HeldKept ==
  ASSUME NEW e, NEW p, HeldInv(e, p), rpc'[p] \in ReaderCloses => rpc[p] \in ReaderCloses,
         pending'[p] = pending[p], got'[p] = got[p], wshut[e] => wshut'[e],
         got[p] \in Seq(Frame), sent[e] \in Seq(BorrowedFrame),
         sent'[e] = sent[e] \/ \E f \in BorrowedFrame : sent'[e] = Append(sent[e], f)
  PROVE  HeldInv(e, p)'
<1> SUFFICES ASSUME rpc'[p] \in ReaderCloses PROVE Due(e, p, pending[p])'
  BY DEF HeldInv
<1>1. PICK m : m = pending[p]
  OBVIOUS
<1>2. Due(e, p, m)
  BY <1>1 DEF HeldInv
<1>3. Due(e, p, m)'
  BY <1>2, DueKept
<1>4. Due(e, p, pending[p])' <=> Due(e, p, m)'
  BY <1>1 DEF Due
<1> QED BY <1>1, <1>3, <1>4 DEF HeldInv

-----------------------------------------------------------------------------
(* A frame is read.                                                        *)

\* what the reader returns for a frame that came with these bytes
Made(op, part, bytes) ==
  IF op = "Close" THEN DecodeClose(bytes)
  ELSE Item(op, IF is_control(op) THEN bytes ELSE part \o bytes)

(* With the bytes that were sent, the message that was sent.               *)
LEMMA MadeWhole ==
  ASSUME NEW f \in BorrowedFrame, NEW a
  PROVE  Made(f.op, a.part, SubSeq(WireBytes(f), 1, Len(f.payload))) = Completed(a, f)
<1>1. is_control("Close")
  BY DEF is_control, ControlOps
<1>2. f.op # "Close" => SubSeq(WireBytes(f), 1, Len(f.payload)) = f.payload
  BY AnnouncedBytes
<1> QED BY <1>1, <1>2 DEF Made, Completed, ControlMessage

(* With other bytes, as many, one that looks like it.                      *)
LEMMA MadeCut ==
  ASSUME NEW f \in BorrowedFrame, NEW a \in Accs,
         NEW bytes \in Seq(Byte), Len(bytes) = Len(f.payload)
  PROVE  SameShape(Completed(a, f), Made(f.op, a.part, bytes))
<1> DEFINE b == SubSeq(WireBytes(f), 1, Len(f.payload))
<1>1. b \in Seq(Byte) /\ Len(b) = Len(bytes) /\ Len(bytes) \in Nat
  BY AnnouncedBytes, LenProperties
<1>2. Completed(a, f) = Made(f.op, a.part, b)
  BY MadeWhole
<1> HIDE DEF b
<1>3. CASE f.op = "Close"
  <2>1. ASSUME NEW c \in Seq(Byte), Len(c) \in Nat
        PROVE  /\ DecodeClose(c).op = "Close"
               /\ Len(DecodeClose(c).bytes) = IF Len(c) >= 2 THEN Len(c) - 2 ELSE Len(c)
    <3>1. Len(c) >= 2 => Len(SubSeq(c, 3, Len(c))) = Len(c) - 2
      <4>1. \A i \in 3 .. Len(c) : c[i] \in Byte
        BY <2>1, ElementOfSeq
      <4>2. Len(c) \in Int /\ 3 \in Int
        BY <2>1
      <4>3. Len(SubSeq(c, 3, Len(c))) = IF 3 <= Len(c) THEN Len(c) - 3 + 1 ELSE 0
        BY <4>1, <4>2, SubSeqProperties
      <4> DEFINE k == Len(SubSeq(c, 3, Len(c)))
                 n == Len(c)
      <4>4. n \in Nat /\ k = IF 3 <= n THEN n - 3 + 1 ELSE 0
        BY <2>1, <4>3
      <4> HIDE DEF k, n
      <4>5. n >= 2 => k = n - 2
        BY <4>4
      <4> QED BY <4>5 DEF k, n
    <3> QED BY <3>1 DEF DecodeClose
  <2>2. b \in Seq(Byte) /\ Len(b) \in Nat
    BY <1>1
  <2>3. /\ DecodeClose(b).op = DecodeClose(bytes).op
        /\ Len(DecodeClose(b).bytes) = Len(DecodeClose(bytes).bytes)
    BY <1>1, <2>1, <2>2
  <2> QED BY <1>2, <1>3, <2>3 DEF SameShape, Made
<1>4. CASE f.op # "Close" /\ is_control(f.op)
  BY <1>1, <1>2, <1>4 DEF SameShape, Made, Item
<1>5. CASE ~is_control(f.op)
  <2>1. f.op # "Close"
    BY <1>5 DEF is_control, ControlOps
  <2>2. a.part \in Seq(Byte)
    BY DEF Accs
  <2>3. ASSUME NEW c \in Seq(Byte) PROVE Len(a.part \o c) = Len(a.part) + Len(c)
    BY <2>2, ConcatProperties
  <2>4. b \in Seq(Byte)
    BY <1>1
  <2>5. Len(a.part \o b) = Len(a.part) + Len(b) /\ Len(a.part \o bytes) = Len(a.part) + Len(bytes)
    BY <2>3, <2>4
  <2>6. Len(a.part \o b) = Len(a.part \o bytes)
    BY <1>1, <2>5
  <2> QED BY <1>2, <1>5, <2>1, <2>6 DEF SameShape, Made, Item
<1> QED BY <1>3, <1>4, <1>5

\* p returns or holds the message f completes, or puts f's bytes by
Makes(p, f, a, bytes) ==
  LET m == Made(f.op, a.part, bytes)
  IN  /\ \/ /\ is_control(f.op) \/ f.fin
            /\ got' = [got EXCEPT ![p] = Append(@, m)]
            /\ rpc'[p] = "Idle"
         \/ /\ is_control(f.op) /\ got' = got
            /\ rpc'[p] = "CloseShutdown" /\ pending'[p] = m
         \/ /\ ~is_control(f.op) /\ ~f.fin
            /\ got' = got /\ rpc'[p] \in {"Header", "Failed"}
      /\ current_message'[p] =
           IF is_control(f.op) THEN Open(a)
           ELSE IF f.fin THEN NoMessage
           ELSE [op |-> f.op, buf |-> a.part \o bytes]

(* What FinishFrame does, when the reader has taken what comes before f.   *)
LEMMA FinishFrameMakes ==
  ASSUME TypeOK, NEW p \in Endpoints, NEW h, NEW f \in BorrowedFrame, NEW a \in Accs,
         HeaderOf(h, f), NEW bytes \in Seq(Byte), NEW cs, FinishFrame(p, h, bytes, cs),
         is_control(f.op) => current_message[p] = Open(a),
         ~is_control(f.op) => MessageSoFar(p, h) = [op |-> f.op, buf |-> a.part]
  PROVE  Makes(p, f, a, bytes)
<1> USE DEF Makes
<1> DEFINE m == Made(f.op, a.part, bytes)
<1>1. /\ is_control(h.op) <=> is_control(f.op)
      /\ is_control(f.op) => h.op = f.op
      /\ h.fin = f.fin /\ (is_control(f.op) => f.fin)
      /\ ~is_control(f.op) => f.op \in DataOps
      /\ is_control("Close") /\ is_control("Ping") /\ is_control("Pong")
  <2>1. ~is_control("Continuation")
    BY DEF is_control, ControlOps
  <2> QED BY <2>1, FrameFields DEF HeaderOf, is_control, ControlOps, BorrowedFrame
<1>2. TypeOK /\ pending \in [Endpoints -> Frame] /\ rpc \in [Endpoints -> ReaderStates]
  BY DEF TypeOK
<1>3. current_message \in [Endpoints -> [op : Op \cup {"None"}, buf : Seq(Byte)]]
  BY DEF TypeOK
<1>4. CASE ControlFrame(p, h, bytes)
  <2>1. h.op \in {"Ping", "Pong"} /\ is_control(f.op) /\ h.op = f.op
    BY <1>1, <1>4 DEF ControlFrame
  <2>2. m = Item(h.op, bytes)
    BY <2>1 DEF Made
  <2>3. got' = [got EXCEPT ![p] = Append(@, m)] /\ rpc'[p] = "Idle" /\ current_message'[p] = Open(a)
    BY <1>2, <1>4, <2>1, <2>2 DEF ControlFrame, Deliver
  <2> QED BY <2>1, <2>3
<1>5. CASE CloseFrame(p, h, bytes, cs)
  <2>1. h.op = "Close" /\ is_control(f.op) /\ h.op = f.op
    BY <1>1, <1>5 DEF CloseFrame
  <2>2. m = DecodeClose(bytes)
    BY <2>1 DEF Made
  <2>3. current_message'[p] = Open(a)
    BY <1>5, <2>1 DEF CloseFrame
  <2>4. CASE should_close(cs)
    BY <1>2, <1>5, <2>1, <2>2, <2>3, <2>4 DEF CloseFrame
  <2>5. CASE ~should_close(cs)
    BY <1>2, <1>5, <2>1, <2>2, <2>3, <2>5 DEF CloseFrame, Deliver
  <2> QED BY <2>4, <2>5
<1>6. CASE MessageFragment(p, h, bytes, cs)
  <2>1. ~is_control(f.op) /\ ~f.fin /\ got' = got
    BY <1>1, <1>6 DEF MessageFragment
  <2>2. rpc'[p] \in {"Header", "Failed"}
    BY <1>2, <1>6 DEF MessageFragment
  <2>3. current_message'[p] = [MessageSoFar(p, h) EXCEPT !.buf = @ \o bytes]
    BY <1>3, <1>6 DEF MessageFragment
  <2>4. MessageSoFar(p, h) = [op |-> f.op, buf |-> a.part]
    BY <2>1
  <2> DEFINE r == MessageSoFar(p, h)
  <2>a. current_message'[p] = [r EXCEPT !.buf = r.buf \o bytes] /\ r = [op |-> f.op, buf |-> a.part]
    BY <2>3, <2>4
  <2> HIDE DEF r
  <2>5. current_message'[p] = [op |-> f.op, buf |-> a.part \o bytes]
    BY <2>a
  <2> QED BY <2>1, <2>2, <2>5
<1>7. CASE MessageEnd(p, h, bytes)
  <2>1. ~is_control(f.op) /\ f.fin /\ f.op \in DataOps
    BY <1>1, <1>7 DEF MessageEnd
  <2>2. MessageSoFar(p, h).op = f.op /\ MessageSoFar(p, h).buf = a.part
    BY <2>1
  <2>3. m = Item(f.op, a.part \o bytes)
    BY <1>1, <2>1 DEF Made
  <2>4. current_message'[p] = NoMessage
    BY <1>3, <1>7 DEF MessageEnd
  <2>5. got' = [got EXCEPT ![p] = Append(@, m)] /\ rpc'[p] = "Idle"
    BY <1>2, <1>7, <2>1, <2>2, <2>3 DEF MessageEnd, Deliver
  <2> QED BY <2>1, <2>4, <2>5
<1> QED BY <1>4, <1>5, <1>6, <1>7 DEF FinishFrame

\* p has taken what comes before e's nth frame, and h announces that
Ready(e, p, n, h) ==
  LET a == Assembled(sent[e])[n - 1]
      f == sent[e][n]
  IN  /\ n \in 1 .. Len(sent[e]) /\ HeaderOf(h, f) /\ got[p] = a.done
      /\ is_control(f.op) => current_message[p] = Open(a)
      /\ ~is_control(f.op) => MessageSoFar(p, h) = [op |-> f.op, buf |-> a.part]

(* A reader that waits for a payload has taken what comes before.          *)
LEMMA ReadyPayload ==
  ASSUME NEW e, NEW p, sent[e] \in Seq(BorrowedFrame), NEW n \in 0 .. Len(sent[e]),
         rpc[p] = "Payload", HasTaken(e, p, n)
  PROVE  Ready(e, p, n, frame[p])
<1> DEFINE f == sent[e][n]
           a == Assembled(sent[e])[n - 1]
<1>1. /\ n # 0 /\ HeaderOf(frame[p], f) /\ got[p] = a.done
      /\ current_message[p] = IF is_control(f.op) THEN Open(a) ELSE [op |-> f.op, buf |-> a.part]
  BY DEF HasTaken
<1>2. n \in 1 .. Len(sent[e])
  BY <1>1
<1>3. f \in BorrowedFrame
  BY <1>2
<1> HIDE DEF f, a
<1>4. ASSUME ~is_control(f.op) PROVE MessageSoFar(p, frame[p]) = [op |-> f.op, buf |-> a.part]
  <2>1. f.op # "None"
    BY <1>3, <1>4, FrameFields DEF DataOps
  <2>2. current_message[p] # NoMessage
    BY <1>1, <1>4, <2>1 DEF NoMessage
  <2> QED BY <1>1, <1>4, <2>2 DEF MessageSoFar
<1> QED BY <1>1, <1>2, <1>4 DEF Ready, f, a

(* So has one that waits for a header, and finds the next frame's: a       *)
(* fragment's operation is the one of the message it continues.            *)
LEMMA ReadyHeader ==
  ASSUME NEW e, NEW p, sent[e] \in Seq(BorrowedFrame), SentInv(e),
         NEW n \in 0 .. Len(sent[e]), n + 1 \in 1 .. Len(sent[e]),
         rpc[p] = "Header", HasTaken(e, p, n),
         NEW h, HeaderOf(h, sent[e][n + 1]), ~is_control(h.op) => MessageSoFar(p, h).op \in DataOps
  PROVE  Ready(e, p, n + 1, h)
<1> DEFINE f == sent[e][n + 1]
           a == Assembled(sent[e])[n]
<1>1. got[p] = a.done /\ current_message[p] = Open(a)
  BY DEF HasTaken
<1>2. f \in BorrowedFrame /\ a \in Accs
  BY AssembledSteps
<1>3. (n + 1) - 1 = n
  OBVIOUS
<1>4. ~is_control(f.op) => a.op \in {"None", f.op}
  BY <1>3 DEF SentInv
<1>5. HeaderOf(h, f)
  OBVIOUS
<1> HIDE DEF f, a
<1>6. ASSUME ~is_control(f.op) PROVE MessageSoFar(p, h) = [op |-> f.op, buf |-> a.part]
  <2>1. f.op \in DataOps /\ ~is_control(h.op) /\ "None" \notin DataOps /\ "Continuation" \notin DataOps
    <3>1. f.op \in DataOps /\ ~is_control("Continuation")
      BY <1>2, <1>6, FrameFields DEF is_control, ControlOps
    <3> QED BY <1>5, <1>6, <3>1 DEF HeaderOf, DataOps
  <2>2. CASE a.op = "None"
    <3>1. current_message[p] = NoMessage /\ a.part = << >>
      BY <1>1, <1>2, <2>2 DEF Open, Accs
    <3>2. MessageSoFar(p, h) = [op |-> h.op, buf |-> << >>]
      BY <3>1 DEF MessageSoFar
    <3>3. h.op \in DataOps
      BY <2>1, <3>2
    <3>4. h.op = f.op
      BY <1>5, <2>1, <3>3 DEF HeaderOf
    <3> QED BY <3>1, <3>2, <3>4
  <2>3. CASE a.op # "None"
    <3>1. a.op = f.op
      BY <1>4, <1>6, <2>3
    <3>2. current_message[p] = [op |-> f.op, buf |-> a.part]
      BY <1>1, <2>3, <3>1 DEF Open
    <3>3. current_message[p] # NoMessage
      BY <2>3, <3>1, <3>2 DEF NoMessage
    <3> QED BY <3>2, <3>3 DEF MessageSoFar
  <2> QED BY <2>2, <2>3
<1> QED BY <1>1, <1>3, <1>5, <1>6 DEF Ready, f, a

(* The header is taken, and the payload is awaited.                        *)
LEMMA HeaderTaken ==
  ASSUME NEW e, NEW p, NEW n, NEW h, Ready(e, p, n, h), sent'[e] = sent[e],
         rpc'[p] = "Payload", frame'[p] = h, got'[p] = got[p],
         current_message'[p] = IF is_control(h.op) THEN current_message[p] ELSE MessageSoFar(p, h)
  PROVE  HasTaken(e, p, n)'
<1> DEFINE f == sent[e][n]
           a == Assembled(sent[e])[n - 1]
<1>1. /\ n \in 1 .. Len(sent[e]) /\ HeaderOf(h, f) /\ got[p] = a.done
      /\ is_control(f.op) => current_message[p] = Open(a)
      /\ ~is_control(f.op) => MessageSoFar(p, h) = [op |-> f.op, buf |-> a.part]
  BY DEF Ready
<1>2. is_control(h.op) <=> is_control(f.op)
  BY <1>1 DEF HeaderOf, is_control, ControlOps
<1>3. n # 0
  BY <1>1
<1> HIDE DEF f, a
<1>4. HasTaken(e, p, n)' <=>
        /\ n # 0 /\ HeaderOf(frame'[p], f) /\ got'[p] = a.done
        /\ current_message'[p] = IF is_control(f.op) THEN Open(a) ELSE [op |-> f.op, buf |-> a.part]
  BY DEF HasTaken, f, a
<1> QED BY <1>1, <1>2, <1>3, <1>4

(* The message a frame completes is due, as it was sent or cut.            *)
LEMMA FrameDue ==
  ASSUME NEW e, NEW p, sent[e] \in Seq(BorrowedFrame), NEW n \in 1 .. Len(sent[e]),
         is_control(sent[e][n].op) \/ sent[e][n].fin,
         got[p] = Assembled(sent[e])[n - 1].done,
         NEW bytes \in Seq(Byte), Len(bytes) = Len(sent[e][n].payload),
         \/ bytes = SubSeq(WireBytes(sent[e][n]), 1, Len(sent[e][n].payload))
         \/ wshut[e]
  PROVE  Due(e, p, Made(sent[e][n].op, Assembled(sent[e])[n - 1].part, bytes))
<1> DEFINE f == sent[e][n]
           a == Assembled(sent[e])[n - 1]
           m == Made(f.op, a.part, bytes)
<1>1. n - 1 \in 0 .. Len(sent[e])
  OBVIOUS
<1>2. f \in BorrowedFrame /\ a \in Accs
  <2>1. sent[e] \in Seq(BorrowedFrame) /\ n \in 1 .. Len(sent[e])
    OBVIOUS
  <2>2. f \in BorrowedFrame
    BY <2>1
  <2>3. Assembled(sent[e]) \in [0 .. Len(sent[e]) -> Accs]
    BY <2>1, AssembledSteps
  <2> QED BY <1>1, <2>2, <2>3
<1>3. /\ Len(got[p]) < Len(Messages(sent[e]))
      /\ Messages(sent[e])[Len(got[p]) + 1] = Completed(a, f)
  <2>1. sent[e] \in Seq(BorrowedFrame) /\ n \in 1 .. Len(sent[e])
    OBVIOUS
  <2>2. is_control(sent[e][n].op) \/ sent[e][n].fin
    OBVIOUS
  <2>3. /\ Len(a.done) < Len(Messages(sent[e]))
        /\ Messages(sent[e])[Len(a.done) + 1] = Completed(a, f)
    BY <2>1, <2>2, NextMessage, Zenon
  <2>4. got[p] = a.done
    OBVIOUS
  <2> QED BY <2>3, <2>4
<1>4. /\ Len(bytes) = Len(f.payload)
      /\ bytes = SubSeq(WireBytes(f), 1, Len(f.payload)) \/ wshut[e]
  OBVIOUS
<1> HIDE DEF f, a
<1>5. m = Completed(a, f) \/ (wshut[e] /\ SameShape(Completed(a, f), m))
  <2>1. CASE bytes = SubSeq(WireBytes(f), 1, Len(f.payload))
    BY <1>2, <2>1, MadeWhole
  <2>2. CASE wshut[e]
    <3>1. f \in BorrowedFrame
      BY <1>2
    <3>2. a \in Accs
      BY <1>2
    <3>a. bytes \in Seq(Byte) /\ Len(bytes) = Len(f.payload)
      BY <1>4
    <3>3. SameShape(Completed(a, f), Made(f.op, a.part, bytes))
      BY <3>a, <3>1, <3>2, MadeCut
    <3> QED BY <2>2, <3>3
  <2> QED BY <1>4, <2>1, <2>2
<1> QED BY <1>3, <1>5 DEF Due, f, a

(* The reader has returned, or put by, what e's first n frames make.       *)
LEMMA FrameTaken ==
  ASSUME NEW e, NEW p, sent[e] \in Seq(BorrowedFrame), sent'[e] = sent[e],
         NEW n \in 1 .. Len(sent[e]), NEW f, f = sent[e][n],
         NEW a, a = Assembled(sent[e])[n - 1], got[p] = a.done,
         NEW m, m = Completed(a, f),
         rpc'[p] # "Payload",
         IF is_control(f.op) \/ f.fin THEN got'[p] = Append(got[p], m) ELSE got'[p] = got[p],
         current_message'[p] = IF is_control(f.op) THEN Open(a)
                               ELSE IF f.fin THEN NoMessage
                               ELSE [op |-> f.op, buf |-> a.part \o f.payload]
  PROVE  HasTaken(e, p, n)'
<1> DEFINE b == Assembled(sent[e])[n]
<1>1. n - 1 \in 0 .. Len(sent[e])
  OBVIOUS
<1>2. f \in BorrowedFrame
  OBVIOUS
<1>3. a \in Accs /\ b = AddFrame(a, f)
  <2>1. sent[e] \in Seq(BorrowedFrame) /\ n \in 1 .. Len(sent[e])
    OBVIOUS
  <2>2. Assembled(sent[e]) \in [0 .. Len(sent[e]) -> Accs]
    BY <2>1, AssembledSteps
  <2>3. b = AddFrame(Assembled(sent[e])[n - 1], sent[e][n])
    BY <2>1, AssembledSteps
  <2> QED BY <1>1, <2>2, <2>3
<1>4. (HasTaken(e, p, n))' <=> (got'[p] = b.done /\ current_message'[p] = Open(b))
  BY DEF HasTaken
<1> HIDE DEF b
<1>5. CASE is_control(f.op)
  <2>1. b.done = Append(a.done, ControlMessage(f)) /\ b.op = a.op /\ b.part = a.part
    BY <1>2, <1>3, <1>5, FrameAdded
  <2>2. m = ControlMessage(f)
    BY <1>5 DEF Completed
  <2>3. got'[p] = Append(got[p], m) /\ current_message'[p] = Open(a)
    BY <1>5
  <2> QED BY <1>4, <2>1, <2>2, <2>3 DEF Open
<1>6. CASE ~is_control(f.op) /\ f.fin
  <2>1. b.done = Append(a.done, Item(f.op, a.part \o f.payload)) /\ b.op = "None"
    BY <1>2, <1>3, <1>6, FrameAdded
  <2>2. m = Item(f.op, a.part \o f.payload)
    BY <1>6 DEF Completed
  <2>3. got'[p] = Append(got[p], m) /\ current_message'[p] = NoMessage
    BY <1>6
  <2> QED BY <1>4, <2>1, <2>2, <2>3 DEF Open
<1>7. CASE ~is_control(f.op) /\ ~f.fin
  <2>1. b.done = a.done /\ b.op = f.op /\ b.part = a.part \o f.payload
    BY <1>2, <1>3, <1>7, FrameAdded
  <2>2. f.op # "None"
    BY <1>2, <1>7, FrameFields DEF DataOps
  <2>3. got'[p] = got[p] /\ current_message'[p] = [op |-> f.op, buf |-> a.part \o f.payload]
    BY <1>7
  <2> QED BY <1>4, <2>1, <2>2, <2>3 DEF Open
<1>8. f.fin \in BOOLEAN
  BY <1>2, FrameFields
<1> QED BY <1>5, <1>6, <1>7, <1>8

(* The whole of it: a frame is finished, with the bytes that were sent or  *)
(* with what stands for them when e's direction was cut.                   *)
LEMMA FrameRead ==
  ASSUME TypeOK, NEW e \in Endpoints, NEW p \in Endpoints, NEW n, NEW h, Ready(e, p, n, h),
         NEW bytes \in Seq(Byte), Len(bytes) = h.len, NEW cs, FinishFrame(p, h, bytes, cs),
         NEW whole, whole = SubSeq(WireBytes(sent[e][n]), 1, h.len),
         bytes = whole \/ wshut[e],
         sent' = sent, wshut' = wshut
  PROVE  /\ got' = got \/ \E m : Due(e, p, m) /\ got' = [got EXCEPT ![p] = Append(@, m)]
         /\ HeldInv(e, p)'
         /\ rpc'[p] # "Payload"
         /\ bytes = whole /\ rpc'[p] # "CloseShutdown" => HasTaken(e, p, n)'
<1>1. PICK f : f = sent[e][n]
  OBVIOUS
<1>2. PICK a : a = Assembled(sent[e])[n - 1]
  OBVIOUS
<1>3. PICK m : m = Made(f.op, a.part, bytes)
  OBVIOUS
<1>4. sent[e] \in Seq(BorrowedFrame) /\ got \in [Endpoints -> Seq(Frame)]
  BY DEF TypeOK
<1>5. /\ n \in 1 .. Len(sent[e]) /\ HeaderOf(h, f) /\ got[p] = a.done
      /\ is_control(f.op) => current_message[p] = Open(a)
      /\ ~is_control(f.op) => MessageSoFar(p, h) = [op |-> f.op, buf |-> a.part]
  BY <1>1, <1>2 DEF Ready
<1>6. f \in BorrowedFrame /\ h.len = Len(f.payload) /\ (is_control(f.op) => f.fin)
  <2>1. f \in BorrowedFrame
    BY <1>1, <1>4, <1>5
  <2> QED BY <1>5, <2>1 DEF HeaderOf, BorrowedFrame
<1>7. a \in Accs
  <2>1. Assembled(sent[e]) \in [0 .. Len(sent[e]) -> Accs]
    BY <1>4, AssembledSteps
  <2>2. n - 1 \in 0 .. Len(sent[e])
    BY <1>5
  <2> QED BY <1>2, <2>1, <2>2
<1>8. /\ \/ /\ is_control(f.op) \/ f.fin
            /\ got' = [got EXCEPT ![p] = Append(@, m)]
            /\ rpc'[p] = "Idle"
         \/ /\ is_control(f.op) /\ got' = got
            /\ rpc'[p] = "CloseShutdown" /\ pending'[p] = m
         \/ /\ ~is_control(f.op) /\ ~f.fin
            /\ got' = got /\ rpc'[p] \in {"Header", "Failed"}
      /\ current_message'[p] =
           IF is_control(f.op) THEN Open(a)
           ELSE IF f.fin THEN NoMessage
           ELSE [op |-> f.op, buf |-> a.part \o bytes]
  <2>1. HeaderOf(h, f)
    BY <1>5
  <2>2. is_control(f.op) => current_message[p] = Open(a)
    BY <1>5
  <2>3. ~is_control(f.op) => MessageSoFar(p, h) = [op |-> f.op, buf |-> a.part]
    BY <1>5
  <2>4. f \in BorrowedFrame
    BY <1>6
  <2>5. Makes(p, f, a, bytes)
    BY <1>7, <2>1, <2>2, <2>3, <2>4, FinishFrameMakes
  <2> QED BY <1>3, <2>5 DEF Makes
<1>9. is_control(f.op) \/ f.fin => Due(e, p, m)
  <2>1. ASSUME is_control(f.op) \/ f.fin PROVE Due(e, p, m)
    <3>1. /\ is_control(sent[e][n].op) \/ sent[e][n].fin
          /\ got[p] = Assembled(sent[e])[n - 1].done
          /\ Len(bytes) = Len(sent[e][n].payload)
          /\ bytes = SubSeq(WireBytes(sent[e][n]), 1, Len(sent[e][n].payload)) \/ wshut[e]
      BY <1>1, <1>2, <1>5, <1>6, <2>1
    <3>2. Due(e, p, Made(sent[e][n].op, Assembled(sent[e])[n - 1].part, bytes))
      BY <1>4, <1>5, <3>1, FrameDue
    <3> QED BY <1>1, <1>2, <1>3, <3>2
  <2> QED BY <2>1
<1>10. got' = got \/ \E x : Due(e, p, x) /\ got' = [got EXCEPT ![p] = Append(@, x)]
  BY <1>8, <1>9
<1>11. HeldInv(e, p)'
  <2>1. SUFFICES ASSUME rpc'[p] \in ReaderCloses PROVE Due(e, p, pending[p])'
    BY DEF HeldInv
  <2>2. is_control(f.op) /\ got' = got /\ pending'[p] = m
    BY <1>8, <2>1 DEF ReaderCloses
  <2>3. Due(e, p, m)
    BY <1>9, <2>2
  <2> QED BY <2>2, <2>3 DEF Due
<1>12. rpc'[p] # "Payload"
  BY <1>8
<1>13. ASSUME bytes = whole, rpc'[p] # "CloseShutdown" PROVE HasTaken(e, p, n)'
  <2>1. m = Completed(a, f)
    BY <1>1, <1>3, <1>6, <1>13, MadeWhole
  <2>2. ~is_control(f.op) => bytes = f.payload
    BY <1>1, <1>6, <1>13, AnnouncedBytes DEF is_control, ControlOps
  <2>3. IF is_control(f.op) \/ f.fin THEN got'[p] = Append(got[p], m) ELSE got'[p] = got[p]
    BY <1>4, <1>6, <1>8, <1>13
  <2>4. current_message'[p] = IF is_control(f.op) THEN Open(a)
                               ELSE IF f.fin THEN NoMessage
                               ELSE [op |-> f.op, buf |-> a.part \o f.payload]
    BY <1>8, <2>2
  <2> QED BY <1>1, <1>2, <1>4, <1>5, <1>12, <2>1, <2>3, <2>4, FrameTaken
<1> QED BY <1>10, <1>11, <1>12, <1>13

-----------------------------------------------------------------------------
(* The steps of a reader.                                                  *)

(* The first unit on the wire is the next header, or what comes with it.   *)
LEMMA FirstUnit ==
  ASSUME TypeOK, NEW e \in Endpoints, wire[e] # << >>,
         NEW n, NEW k, Carried(wire[e] \o out[e], n, k, sent[e])
  PROVE  \E m \in 1 .. Len(sent[e]) :
           /\ Carried(Tail(wire[e]) \o out[e], m, k, sent[e])
           /\ IF wire[e][1].kind = "header" THEN m = n + 1 /\ HeaderOf(wire[e][1], sent[e][m])
              ELSE m = n /\ wire[e][1].bytes = WireBytes(sent[e][m])
<1>1. PICK w \in Seq(Unit) : w = wire[e]
  BY DEF TypeOK
<1>2. PICK o \in Seq(Unit) : o = out[e]
  BY DEF TypeOK
<1>3. PICK fs \in Seq(BorrowedFrame) : fs = sent[e]
  BY DEF TypeOK
<1>4. PICK u : u = w \o o
  OBVIOUS
<1>5. PICK t : t = Tail(w) \o o
  OBVIOUS
<1>6. /\ u \in Seq(Unit) /\ Len(u) \in Nat \ {0} /\ u[1] = w[1]
      /\ t \in Seq(Unit) /\ Len(t) = Len(u) - 1 /\ \A i \in 1 .. Len(t) : t[i] = u[i + 1]
  <2>1. w # << >>
    BY <1>1
  <2>2. /\ w \o o \in Seq(Unit) /\ Len(w \o o) \in Nat \ {0} /\ (w \o o)[1] = w[1]
        /\ Tail(w) \o o \in Seq(Unit) /\ Len(Tail(w) \o o) = Len(w \o o) - 1
        /\ \A i \in 1 .. Len(Tail(w) \o o) : (Tail(w) \o o)[i] = (w \o o)[i + 1]
    BY <2>1, TakeJoined
  <2> QED BY <1>4, <1>5, <2>2
<1>7. Carried(u, n, k, fs)
  BY <1>1, <1>2, <1>3, <1>4
<1>8. \E m \in 1 .. Len(fs) :
        /\ Carried(t, m, k, fs)
        /\ IF u[1].kind = "header" THEN m = n + 1 /\ HeaderOf(u[1], fs[m])
           ELSE m = n /\ u[1].bytes = WireBytes(fs[m])
  <2>1. Rest(t, u)
    BY <1>6 DEF Rest
  <2> QED BY <2>1, <1>7, CarriedTail
<1> QED BY <1>1, <1>2, <1>3, <1>5, <1>6, <1>8

(* The direction without its first unit carries the rest.                  *)
LEMMA StreamTaken ==
  ASSUME NEW e, NEW p, wire'[e] = Tail(wire[e]), out'[e] = out[e], sent'[e] = sent[e],
         NEW n \in 1 .. Len(sent[e]), NEW k \in 0 .. Len(sent[e]),
         Carried(Tail(wire[e]) \o out[e], n, k, sent[e]),
         Intact(e) => k = Len(sent[e]),
         Intact(e)' => Intact(e), HasTaken(e, p, n)'
  PROVE  StreamInv(e, p)'
<1>1. n \in 0 .. Len(sent'[e]) /\ k \in 0 .. Len(sent'[e])
  OBVIOUS
<1>2. Carried(wire'[e] \o out'[e], n, k, sent'[e])
  OBVIOUS
<1>3. Intact(e)' => k = Len(sent'[e])
  OBVIOUS
<1> QED BY <1>1, <1>2, <1>3 DEF StreamInv

\* what a step of reader p returns is the next message of e, whole or cut
ReturnsNext(e, p) ==
  got' = got \/ \E m : Due(e, p, m) /\ got' = [got EXCEPT ![p] = Append(@, m)]

(* Reading a header takes one frame more, and returns its message at once  *)
(* when it has no payload.                                                 *)
LEMMA ReadHeaderReads ==
  ASSUME Inv, NEW e \in Endpoints, NEW p \in Endpoints, p = Peer(e), e = Peer(p),
         SentInv(e), StreamInv(e, p), ReadHeader(p)
  PROVE  StreamInv(e, p)' /\ HeldInv(e, p)' /\ ReturnsNext(e, p)
<1>1. TypeOK /\ p # e
  BY Peers DEF Inv
<1>2. /\ rpc[p] = "Header" /\ wire[e] # << >> /\ wire' = [wire EXCEPT ![e] = Tail(@)]
      /\ UNCHANGED << wshut, writerVars >>
      /\ close_state' = [close_state EXCEPT ![p] = StateAfterHeader(p, Head(wire[e]))]
  BY DEF ReadHeader
<1>3. /\ wire'[e] = Tail(wire[e]) /\ out'[e] = out[e] /\ sent' = sent /\ wshut' = wshut
      /\ (Intact(e)' => Intact(e))
  BY <1>1, <1>2 DEF TypeOK, writerVars, Intact, CanSend
<1>4. PICK h : h = Head(wire[e])
  OBVIOUS
<1>5. /\ h = wire[e][1] /\ h.kind = "header"
      /\ ~is_control(h.op) => MessageSoFar(p, h).op \in DataOps
  BY <1>2, <1>4, HeaderHere
<1>6. Live(e, p)
  BY <1>2 DEF Live, Reading
<1>7. PICK l, k \in 0 .. Len(sent[e]) :
        /\ Carried(wire[e] \o out[e], l, k, sent[e])
        /\ HasTaken(e, p, l)
        /\ Intact(e) => k = Len(sent[e])
  BY <1>6 DEF StreamInv
<1>8. PICK n \in 1 .. Len(sent[e]) :
        /\ Carried(Tail(wire[e]) \o out[e], n, k, sent[e])
        /\ n = l + 1 /\ HeaderOf(h, sent[e][n])
  BY <1>1, <1>2, <1>5, <1>7, FirstUnit
<1>9. sent[e] \in Seq(BorrowedFrame) /\ rpc \in [Endpoints -> ReaderStates]
      /\ current_message \in [Endpoints -> [op : Op \cup {"None"}, buf : Seq(Byte)]]
      /\ frame \in [Endpoints -> HeaderUnit]
  BY <1>1 DEF TypeOK
<1>11. Ready(e, p, n, h)
  <2>1. l + 1 \in 1 .. Len(sent[e]) /\ HeaderOf(h, sent[e][l + 1])
    BY <1>8
  <2>2. Ready(e, p, l + 1, h)
    BY <1>2, <1>5, <1>7, <1>9, <2>1, ReadyHeader
  <2> QED BY <1>8, <2>2
<1>12. HasTaken(e, p, n)' => StreamInv(e, p)'
  BY <1>3, <1>7, <1>8, StreamTaken
<1>13. CASE ReadFails(p, Verdict(p, h))
  <2>1. rpc'[p] = "Failed" /\ got' = got
    BY <1>9, <1>13 DEF ReadFails
  <2>2. ~Reading(p)' /\ HeldInv(e, p)'
    BY <2>1 DEF Reading, HeldInv, ReaderCloses
  <2> QED BY <2>1, <2>2, StreamOver DEF ReturnsNext
<1>14. CASE /\ frame' = [frame EXCEPT ![p] = h]
            /\ rpc' = [rpc EXCEPT ![p] = "Payload"]
            /\ current_message' = [current_message EXCEPT ![p] =
                                     IF is_control(h.op) THEN @ ELSE MessageSoFar(p, h)]
            /\ UNCHANGED << pending, error, got >>
  <2>1. /\ rpc'[p] = "Payload" /\ frame'[p] = h /\ got' = got
        /\ current_message'[p] = IF is_control(h.op) THEN current_message[p] ELSE MessageSoFar(p, h)
    BY <1>9, <1>14
  <2>2. HasTaken(e, p, n)'
    BY <1>3, <1>11, <2>1, HeaderTaken
  <2>3. HeldInv(e, p)'
    BY <2>1 DEF HeldInv, ReaderCloses
  <2> QED BY <1>12, <2>1, <2>2, <2>3 DEF ReturnsNext
<1>15. CASE h.len = 0 /\ FinishFrame(p, h, << >>, StateAfterHeader(p, h))
  <2> DEFINE w == WireBytes(sent[e][n])
  <2>1. << >> \in Seq(Byte) /\ Len(<< >>) = h.len /\ << >> = SubSeq(w, 1, h.len)
    BY <1>15, EmptySeq, SubSeqEmpty
  <2> HIDE DEF w
  <2>2. /\ ReturnsNext(e, p) /\ HeldInv(e, p)'
        /\ (rpc'[p] # "CloseShutdown" => HasTaken(e, p, n)')
    <3>1. << >> \in Seq(Byte) /\ Len(<< >>) = h.len
      BY <2>1
    <3>2. PICK whole : whole = SubSeq(WireBytes(sent[e][n]), 1, h.len)
      OBVIOUS
    <3>3. << >> = whole
      BY <2>1, <3>2 DEF w
    <3>4. PICK cs : cs = StateAfterHeader(p, h)
      OBVIOUS
    <3>5. FinishFrame(p, h, << >>, cs)
      BY <1>15, <3>4
    <3> QED BY <1>1, <1>3, <1>11, <3>1, <3>2, <3>3, <3>5, FrameRead DEF ReturnsNext
  <2>3. rpc'[p] = "CloseShutdown" => ~Reading(p)'
    BY DEF Reading
  <2> QED BY <1>12, <2>2, <2>3, StreamOver
<1> QED BY <1>4, <1>13, <1>14, <1>15 DEF ReadHeader

(* Reading a payload returns the message it completes, as it was sent: the *)
(* bytes announced are there, and those of that frame.                     *)
LEMMA ReadPayloadReads ==
  ASSUME Inv, NEW e \in Endpoints, NEW p \in Endpoints, p = Peer(e), e = Peer(p),
         StreamInv(e, p), ReadPayload(p)
  PROVE  StreamInv(e, p)' /\ HeldInv(e, p)' /\ ReturnsNext(e, p)
<1>1. TypeOK /\ p # e /\ ReaderInv(p)
  BY Peers DEF Inv, EndpointInv
<1>2. PICK h : h = frame[p]
  OBVIOUS
<1>3. PICK w : w = Head(wire[e]).bytes
  OBVIOUS
<1>4. PICK b : b = SubSeq(w, 1, h.len)
  OBVIOUS
<1>5. /\ rpc[p] = "Payload" /\ wire[e] # << >> /\ Head(wire[e]).kind = "data"
      /\ FinishFrame(p, h, b, close_state[p])
      /\ wire' = [wire EXCEPT ![e] = IF h.len < Len(w)
                    THEN << Data(SubSeq(w, h.len + 1, Len(w))) >> \o Tail(@) ELSE Tail(@)]
      /\ UNCHANGED << close_state, wshut, writerVars, expect_continuation, frame >>
  BY <1>2, <1>3, <1>4 DEF ReadPayload
<1>6. /\ out'[e] = out[e] /\ sent' = sent /\ wshut' = wshut /\ (Intact(e)' => Intact(e))
  BY <1>5 DEF writerVars, Intact, CanSend
<1>7. sent[e] \in Seq(BorrowedFrame) /\ wire[e] \in Seq(Unit) /\ wire \in [Endpoints -> Seq(Unit)]
      /\ h \in HeaderUnit
  BY <1>1, <1>2 DEF TypeOK
<1>8. b \in Seq(Byte) /\ Len(b) = h.len
  <2>1. ReadPayload(p) /\ TypeOK
    BY <1>1
  <2> QED BY <1>2, <1>3, <1>4, <2>1, PayloadBytes
<1>9. Live(e, p)
  BY <1>5 DEF Live, Reading
<1>10. PICK n, k \in 0 .. Len(sent[e]) :
         /\ Carried(wire[e] \o out[e], n, k, sent[e])
         /\ HasTaken(e, p, n)
         /\ Intact(e) => k = Len(sent[e])
  BY <1>9 DEF StreamInv
<1>11. Head(wire[e]) = wire[e][1]
  BY <1>5, <1>7, HeadAndTail
<1>12. /\ n \in 1 .. Len(sent[e]) /\ Carried(Tail(wire[e]) \o out[e], n, k, sent[e])
       /\ w = WireBytes(sent[e][n])
  <2>1. wire[e][1].kind # "header"
    BY <1>5, <1>11
  <2>2. wire[e] # << >> /\ Carried(wire[e] \o out[e], n, k, sent[e])
    BY <1>5, <1>10
  <2>3. \E m \in 1 .. Len(sent[e]) :
          /\ Carried(Tail(wire[e]) \o out[e], m, k, sent[e])
          /\ IF wire[e][1].kind = "header" THEN m = n + 1 /\ HeaderOf(wire[e][1], sent[e][m])
             ELSE m = n /\ wire[e][1].bytes = WireBytes(sent[e][m])
    <3>1. TypeOK
      BY <1>1
    <3>2. wire[e] # << >>
      BY <2>2
    <3>3. Carried(wire[e] \o out[e], n, k, sent[e])
      BY <2>2
    <3> QED BY <3>1, <3>2, <3>3, FirstUnit, Zenon
  <2> QED BY <1>3, <1>11, <2>1, <2>3
<1>13. Ready(e, p, n, h)
  BY <1>2, <1>5, <1>7, <1>10, ReadyPayload
<1>14. /\ ReturnsNext(e, p) /\ HeldInv(e, p)'
       /\ (rpc'[p] # "CloseShutdown" => HasTaken(e, p, n)')
  <2>1. PICK whole : whole = SubSeq(WireBytes(sent[e][n]), 1, h.len)
    OBVIOUS
  <2>2. b = whole
    BY <1>4, <1>12, <2>1
  <2>3. PICK cs : cs = close_state[p]
    OBVIOUS
  <2>4. FinishFrame(p, h, b, cs)
    BY <1>5, <2>3
  <2>5. TypeOK /\ sent' = sent /\ wshut' = wshut
    BY <1>1, <1>6
  <2>6. b \in Seq(Byte) /\ Len(b) = h.len /\ (b = whole \/ wshut[e])
    BY <1>8, <2>2
  <2>7. /\ got' = got \/ \E m : Due(e, p, m) /\ got' = [got EXCEPT ![p] = Append(@, m)]
        /\ HeldInv(e, p)'
        /\ b = whole /\ rpc'[p] # "CloseShutdown" => HasTaken(e, p, n)'
    BY <1>13, <2>1, <2>4, <2>5, <2>6, FrameRead
  <2> QED BY <2>2, <2>7 DEF ReturnsNext
<1>15. CASE h.op = "Close"
  <2>1. ~can_read(close_state'[p])
    BY <1>1, <1>2, <1>5, <1>15 DEF ReaderInv
  <2>2. rpc'[p] \in {"Idle", "CloseShutdown"}
    <3>1. PICK cs : cs = close_state[p]
      OBVIOUS
    <3>2. FinishFrame(p, h, b, cs)
      BY <1>5, <3>1
    <3> QED BY <1>1, <1>7, <1>8, <1>15, <3>2, FinishFrameGot
  <2>3. ~Reading(p)'
    BY <2>1, <2>2 DEF Reading
  <2> QED BY <1>14, <2>3, StreamOver
<1>16. CASE h.op # "Close"
  <2>1. PICK f \in BorrowedFrame : f = sent[e][n]
    BY <1>7, <1>12
  <2>2. HeaderOf(h, f)
    BY <1>13, <2>1 DEF Ready
  <2>3. f.op # "Close"
    BY <1>16, <2>2 DEF HeaderOf, is_control, ControlOps
  <2>4. Len(w) = h.len /\ Len(w) \in Nat
    BY <1>12, <2>1, <2>2, <2>3, FrameFields DEF HeaderOf, WireBytes
  <2>5. ~(h.len < Len(w))
    BY <2>4
  <2>6. wire'[e] = Tail(wire[e])
    BY <1>5, <1>7, <2>5
  <2>7. rpc'[p] = "CloseShutdown" => ~Reading(p)'
    BY DEF Reading
  <2>8. HasTaken(e, p, n)' => StreamInv(e, p)'
    BY <1>6, <1>10, <1>12, <2>6, StreamTaken
  <2> QED BY <1>14, <2>7, <2>8, StreamOver
<1> QED BY <1>15, <1>16

(* A payload that did not come is one that was cut: the direction is at    *)
(* its end.                                                                *)
LEMMA ReadPayloadEofReads ==
  ASSUME Inv, NEW e \in Endpoints, NEW p \in Endpoints, p = Peer(e), e = Peer(p),
         StreamInv(e, p), ReadPayloadEof(p)
  PROVE  StreamInv(e, p)' /\ HeldInv(e, p)' /\ ReturnsNext(e, p)
<1>1. TypeOK /\ p # e
  BY Peers DEF Inv
<1>2. PICK h : h = frame[p]
  OBVIOUS
<1>3. /\ rpc[p] = "Payload" /\ wire[e] = << >> /\ wshut[e]
      /\ \/ FinishFrame(p, h, Zeros(h.len), close_state[p])
         \/ ReadFails(p, "UnexpectedEof")
      /\ UNCHANGED << wire, wshut, writerVars >>
  BY <1>2 DEF ReadPayloadEof, AtEof
<1>4. sent' = sent /\ wshut' = wshut /\ wire' = wire
  BY <1>3 DEF writerVars
<1>5. rpc'[p] # "Payload" => StreamInv(e, p)'
  BY <1>3, <1>4 DEF StreamInv, Live
<1>6. CASE ReadFails(p, "UnexpectedEof")
  <2>1. rpc'[p] = "Failed" /\ got' = got
    BY <1>1, <1>6 DEF ReadFails, TypeOK
  <2> QED BY <1>5, <2>1 DEF HeldInv, ReaderCloses, ReturnsNext
<1>7. CASE FinishFrame(p, h, Zeros(h.len), close_state[p])
  <2>1. PICK b : b = Zeros(h.len)
    OBVIOUS
  <2>2. b \in Seq(Byte) /\ Len(b) = h.len
    BY <1>1, <1>2, <2>1, ZeroBytes
  <2>3. PICK n \in 0 .. Len(sent[e]) : HasTaken(e, p, n)
    BY <1>3 DEF StreamInv, Live, Reading
  <2>4. sent[e] \in Seq(BorrowedFrame)
    BY <1>1 DEF TypeOK
  <2>5. Ready(e, p, n, h)
    BY <1>2, <1>3, <2>3, <2>4, ReadyPayload
  <2>6. PICK whole : whole = SubSeq(WireBytes(sent[e][n]), 1, h.len)
    OBVIOUS
  <2>7. PICK cs : cs = close_state[p]
    OBVIOUS
  <2>8. FinishFrame(p, h, b, cs)
    BY <1>7, <2>1, <2>7
  <2>9. ReturnsNext(e, p) /\ HeldInv(e, p)' /\ rpc'[p] # "Payload"
    BY <1>1, <1>3, <1>4, <2>2, <2>5, <2>6, <2>8, FrameRead DEF ReturnsNext
  <2> QED BY <1>5, <2>9
<1> QED BY <1>3, <1>6, <1>7

-----------------------------------------------------------------------------
(* A frame is sent.                                                        *)

(* What the reader has taken is not changed by a frame sent later.         *)
LEMMA HasTakenMore ==
  ASSUME NEW e, NEW p, sent[e] \in Seq(BorrowedFrame), NEW f \in BorrowedFrame,
         sent'[e] = Append(sent[e], f), NEW n \in 0 .. Len(sent[e]),
         HasTaken(e, p, n), NothingTaken(p)
  PROVE  HasTaken(e, p, n)'
<1> DEFINE a == Assembled(sent[e])
           b == Assembled(sent'[e])
<1>1. b[n] = a[n]
  BY AssembledAppend
<1>2. CASE rpc[p] = "Payload"
  <2>1. n # 0
    BY <1>2 DEF HasTaken
  <2>2. n - 1 \in 0 .. Len(sent[e]) /\ n \in 1 .. Len(sent[e])
    BY <2>1
  <2>3. b[n - 1] = a[n - 1] /\ sent'[e][n] = sent[e][n]
    BY <2>2, AssembledAppend, Appended
  <2> QED BY <1>2, <2>3 DEF HasTaken, NothingTaken
<1>3. CASE rpc[p] # "Payload"
  BY <1>1, <1>3 DEF HasTaken, NothingTaken
<1> QED BY <1>2, <1>3

(* The frame just sent goes with the message that is open, if one is.      *)
LEMMA SentMore ==
  ASSUME TypeOK, NEW e \in Endpoints, SentInv(e), NEW f \in BorrowedFrame,
         sent'[e] = Append(sent[e], f),
         is_control(f.op) \/ last_sent_message_op[e] \in {"None", f.op},
         last_sent_message_op'[e] = LastSentAfter(e, f)
  PROVE  SentInv(e)'
<1> DEFINE L == Len(sent[e])
<1>1. PICK a : a = Assembled(sent[e])
  OBVIOUS
<1>2. PICK b : b = Assembled(sent'[e])
  OBVIOUS
<1>3. sent[e] \in Seq(BorrowedFrame) /\ L \in Nat
  BY LenProperties DEF TypeOK
<1>4. /\ \A n \in 0 .. L : b[n] = a[n]
      /\ b[L + 1] = AddFrame(a[L], f)
  BY <1>1, <1>2, <1>3, AssembledAppend
<1>5. /\ Len(sent'[e]) = L + 1 /\ \A n \in 1 .. L : sent'[e][n] = sent[e][n]
      /\ sent'[e][L + 1] = f
  BY <1>3, Appended
<1>6. /\ \A n \in 1 .. L : ~is_control(sent[e][n].op) => a[n - 1].op \in {"None", sent[e][n].op}
      /\ a[L].op = last_sent_message_op[e]
  BY <1>1 DEF SentInv
<1>7. a[L] \in Accs
  <2>1. L \in 0 .. L
    BY <1>3
  <2> QED BY <1>1, <1>3, <2>1, AssembledSteps
<1> HIDE DEF L
<1>8. ASSUME NEW n \in 1 .. L + 1, ~is_control(sent'[e][n].op)
      PROVE  b[n - 1].op \in {"None", sent'[e][n].op}
  <2>1. n - 1 \in 0 .. L /\ (n \in 1 .. L \/ n = L + 1)
    BY <1>3
  <2>2. CASE n \in 1 .. L
    BY <1>4, <1>5, <1>6, <1>8, <2>1, <2>2
  <2>3. CASE n = L + 1
    <3>1. b[n - 1].op = last_sent_message_op[e]
      BY <1>3, <1>4, <1>6, <2>1, <2>3
    <3> QED BY <1>5, <1>8, <2>3, <3>1
  <2> QED BY <2>1, <2>2, <2>3
<1>9. b[L + 1].op = last_sent_message_op'[e]
  <2>1. f.fin \in BOOLEAN
    BY FrameFields
  <2>2. CASE is_control(f.op)
    <3>1. AddFrame(a[L], f).op = a[L].op
      BY <1>7, <2>2, FrameAdded
    <3>2. LastSentAfter(e, f) = last_sent_message_op[e]
      BY <2>2 DEF LastSentAfter
    <3> QED BY <1>4, <1>6, <3>1, <3>2
  <2>3. CASE ~is_control(f.op) /\ f.fin
    <3>1. AddFrame(a[L], f).op = "None"
      BY <1>7, <2>3, FrameAdded
    <3>2. LastSentAfter(e, f) = "None"
      BY <2>3 DEF LastSentAfter
    <3> QED BY <1>4, <3>1, <3>2
  <2>4. CASE ~is_control(f.op) /\ ~f.fin
    <3>1. AddFrame(a[L], f).op = f.op
      BY <1>7, <2>4, FrameAdded
    <3>2. LastSentAfter(e, f) = f.op
      BY <2>4 DEF LastSentAfter
    <3> QED BY <1>4, <3>1, <3>2
  <2> QED BY <2>1, <2>2, <2>3, <2>4
<1> QED BY <1>2, <1>5, <1>8, <1>9 DEF SentInv

(* A frame accepted by send_frame is carried behind the others.            *)
LEMMA SendSends ==
  ASSUME Inv, NEW e \in Endpoints, NEW p \in Endpoints, p = Peer(e), e = Peer(p),
         SentInv(e), StreamInv(e, p), NEW f \in Frames, Send(e, f)
  PROVE  SentInv(e)' /\ StreamInv(e, p)'
<1>1. TypeOK /\ p # e /\ WriterInv(e) /\ f \in BorrowedFrame
  BY Peers, FramesAssumption DEF Inv, EndpointInv
<1>2. sent[e] \in Seq(BorrowedFrame) /\ wire[e] \in Seq(Unit)
  BY <1>1 DEF TypeOK
<1>3. /\ out'[e] = Encode(f, WireOp(e, f), e = "client") /\ sent'[e] = Append(sent[e], f)
      /\ last_sent_message_op'[e] = LastSentAfter(e, f)
      /\ is_control(f.op) \/ last_sent_message_op[e] \in {"None", f.op}
      /\ wire' = wire /\ wshut' = wshut /\ NothingTaken(p)
  BY <1>1 DEF Send, TypeOK, readerVars, NothingTaken
<1>4. SentInv(e)'
  BY <1>1, <1>3, SentMore
<1>5. StreamInv(e, p)'
  <2>1. SUFFICES ASSUME Live(e, p)'
                 PROVE  \E n, k \in 0 .. Len(sent'[e]) :
                          /\ Carried(wire'[e] \o out'[e], n, k, sent'[e])
                          /\ HasTaken(e, p, n)'
                          /\ Intact(e)' => k = Len(sent'[e])
    BY DEF StreamInv
  <2>2. Live(e, p)
    <3>1. close_state'[p] = close_state[p] /\ rpc' = rpc
      BY <1>1 DEF Send, TypeOK, readerVars
    <3> QED BY <1>3, <2>1, <3>1 DEF Live, Reading
  <2>3. wpc[e] = "Idle" /\ Intact(e)
    BY DEF Send, MaySend, Intact, CanSend
  <2>4. out[e] = << >>
    BY <1>1, <2>3 DEF WriterInv
  <2>5. PICK n \in 0 .. Len(sent[e]) :
          Carried(wire[e] \o out[e], n, Len(sent[e]), sent[e]) /\ HasTaken(e, p, n)
    BY <2>2, <2>3 DEF StreamInv
  <2>6. Carried(wire[e], n, Len(sent[e]), sent[e])
    BY <1>2, <2>4, <2>5, NothingJoined
  <2>7. /\ WireOp(e, f) \in Op
        /\ WireOp(e, f) = f.op \/ (WireOp(e, f) = "Continuation" /\ ~is_control(f.op))
    BY <1>1, FrameFields DEF WireOp, Op
  <2>8. Carried(wire'[e] \o out'[e], n, Len(sent[e]) + 1, sent'[e])
    <3>1. PICK w \in Seq(Unit) : w = wire[e]
      BY <1>2
    <3>2. PICK fs \in Seq(BorrowedFrame) : fs = sent[e]
      BY <1>2
    <3>3. PICK op \in Op : op = WireOp(e, f)
      BY <2>7
    <3>4. PICK masked \in BOOLEAN : masked <=> (e = "client")
      OBVIOUS
    <3>5. Carried(w, n, Len(fs), fs) /\ (op = f.op \/ (op = "Continuation" /\ ~is_control(f.op)))
      BY <2>6, <2>7, <3>1, <3>2, <3>3
    <3>6. Carried(w \o Encode(f, op, masked), n, Len(fs) + 1, Append(fs, f))
      BY <1>1, <3>5, CarriedMore
    <3>7. out'[e] = Encode(f, op, masked)
      BY <1>3, <3>3, <3>4
    <3> QED BY <1>3, <3>1, <3>2, <3>6, <3>7
  <2>9. HasTaken(e, p, n)'
    BY <1>1, <1>2, <1>3, <2>5, HasTakenMore
  <2>10. Len(sent'[e]) = Len(sent[e]) + 1 /\ Len(sent[e]) \in Nat
    BY <1>1, <1>2, <1>3, Appended
  <2>11. n \in 0 .. Len(sent'[e]) /\ Len(sent[e]) + 1 \in 0 .. Len(sent'[e])
    BY <2>10
  <2> QED BY <2>8, <2>9, <2>10, <2>11
<1> QED BY <1>4, <1>5

-----------------------------------------------------------------------------
(* Every step keeps the invariant of both directions.                      *)

(* Only its own writer adds to what an endpoint has sent.                  *)
LEMMA OthersSend ==
  ASSUME TypeOK, NEW a \in Endpoints, NEW e \in Endpoints, e # a, Step(a)
  PROVE  sent'[e] = sent[e] /\ last_sent_message_op'[e] = last_sent_message_op[e]
<1>1. ASSUME NEW f \in Frames, Send(a, f)
      PROVE  sent'[e] = sent[e] /\ last_sent_message_op'[e] = last_sent_message_op[e]
  BY <1>1 DEF Send, TypeOK
<1>2. ASSUME Writer(a) \/ Reader(a) \/ Next_(a) \/ ReadInterrupted(a) \/ Drop(a)
      PROVE  sent' = sent /\ last_sent_message_op' = last_sent_message_op
  BY <1>2 DEF Writer, Write, WriteFails, WriterShutdown, WriterHangUp, WriterCloseTimeout,
              Reader, ReadHeader, ReadPayload, ReadPayloadEof, ReadEof, ReaderShutdown,
              ReaderHangUp, ReaderCloseTimeout, ReaderClosed, Next_, ReadInterrupted, Drop,
              writerVars
<1> QED BY <1>1, <1>2 DEF Step, Application

(* A step of the reading endpoint.                                         *)
LEMMA ReaderKeeps ==
  ASSUME Inv, NEW e \in Endpoints, NEW p \in Endpoints, p = Peer(e), e = Peer(p),
         SentInv(e), StreamInv(e, p), HeldInv(e, p), Step(p)
  PROVE  SentInv(e)' /\ StreamInv(e, p)' /\ HeldInv(e, p)'
<1>1. TypeOK /\ p # e /\ ReaderInv(p)
  BY Peers DEF Inv, EndpointInv
<1>2. Untouched(e) /\ sent'[e] = sent[e] /\ last_sent_message_op'[e] = last_sent_message_op[e]
  BY <1>1, OthersUntouched, OthersSend
<1>3. SentInv(e)'
  BY <1>2 DEF SentInv
<1>4. /\ out'[e] = out[e] /\ wshut'[e] = wshut[e] /\ (Intact(e)' => Intact(e))
      /\ got[p] \in Seq(Frame) /\ sent[e] \in Seq(BorrowedFrame) /\ close_state[p] \in CloseState
  BY <1>1, <1>2 DEF Untouched, Intact, CanSend, TypeOK
<1>5. ASSUME rpc'[p] \in ReaderCloses => rpc[p] \in ReaderCloses,
             pending'[p] = pending[p], got'[p] = got[p]
      PROVE  HeldInv(e, p)'
  BY <1>2, <1>4, <1>5, HeldKept
<1>6. ASSUME wire'[e] = wire[e], NothingTaken(p), Reading(p)' => Reading(p)
      PROVE  StreamInv(e, p)'
  <2>1. Live(e, p)' => Live(e, p)
    BY <1>4, <1>6 DEF Live, NothingTaken
  <2> QED BY <1>2, <1>4, <1>6, <2>1, StreamKept
<1>7. CASE Writer(p)
  <2>1. /\ rpc' = rpc /\ pending' = pending /\ got' = got /\ close_state' = close_state
        /\ current_message' = current_message /\ frame' = frame /\ wire'[e] = wire[e]
    BY <1>1, <1>7 DEF Writer, Write, WriteFails, WriterShutdown, WriterHangUp,
                      WriterCloseTimeout, readerVars, TypeOK
  <2> QED BY <1>3, <1>5, <1>6, <2>1 DEF NothingTaken, Reading
<1>8. ASSUME NEW f \in Frames, Send(p, f) PROVE StreamInv(e, p)' /\ HeldInv(e, p)'
  <2>1. /\ rpc' = rpc /\ pending' = pending /\ got' = got
        /\ current_message' = current_message /\ frame' = frame /\ wire'[e] = wire[e]
    BY <1>8 DEF Send, readerVars
  <2>2. can_read(close_state'[p]) <=> can_read(close_state[p])
    BY <1>1, <1>4, <1>8, Shutdown DEF Send, TypeOK
  <2> QED BY <1>5, <1>6, <2>1, <2>2 DEF NothingTaken, Reading
<1>9. CASE Next_(p)
  <2>1. /\ pending' = pending /\ got' = got /\ current_message' = current_message
        /\ frame' = frame /\ wire' = wire /\ rpc[p] = "Idle" /\ can_read(close_state[p])
        /\ rpc'[p] = "Header"
    BY <1>1, <1>9 DEF Next_, MayRead, TypeOK
  <2>2. Reading(p) /\ rpc'[p] \notin ReaderCloses
    BY <2>1 DEF Reading, ReaderCloses
  <2> QED BY <1>3, <1>5, <1>6, <2>1, <2>2 DEF NothingTaken
<1>10. CASE ReadInterrupted(p) \/ Drop(p)
  <2>1. rpc'[p] \in {"Failed", "Gone"}
    BY <1>1, <1>10 DEF ReadInterrupted, ReadFails, Drop, TypeOK
  <2>2. ~Reading(p)' /\ HeldInv(e, p)'
    BY <2>1 DEF Reading, HeldInv, ReaderCloses
  <2> QED BY <1>3, <2>2, StreamOver
<1>11. CASE ReadEof(p) \/ ReaderHangUp(p) \/ ReaderCloseTimeout(p)
  <2>1. rpc'[p] = "Idle" /\ ~can_read(close_state'[p])
    <3>1. CASE ReadEof(p)
      BY <1>1, <1>4, <3>1, Shutdown DEF ReadEof, TypeOK
    <3>2. CASE ReaderHangUp(p) \/ ReaderCloseTimeout(p)
      <4>1. rpc[p] \in ReaderCloses /\ rpc' = [rpc EXCEPT ![p] = "Idle"] /\ close_state' = close_state
        BY <3>2 DEF ReaderHangUp, ReaderCloseTimeout, ReaderClosed, ReaderCloses
      <4>2. close_state[p] = "Both" /\ rpc'[p] = "Idle"
        BY <1>1, <4>1 DEF ReaderInv, TypeOK
      <4> QED BY <4>1, <4>2 DEF can_read
    <3> QED BY <1>11, <3>1, <3>2
  <2>2. ~Reading(p)' /\ HeldInv(e, p)'
    BY <2>1 DEF Reading, HeldInv, ReaderCloses
  <2> QED BY <1>3, <2>2, StreamOver
<1>12. CASE ReaderShutdown(p)
  <2>1. rpc[p] \in ReaderCloses /\ rpc'[p] = "CloseHangUp" /\ pending' = pending /\ got' = got
    BY <1>1, <1>12 DEF ReaderShutdown, ReaderCloses, TypeOK
  <2>2. ~Reading(p)'
    BY <2>1 DEF Reading
  <2> QED BY <1>3, <1>5, <2>1, <2>2, StreamOver
<1>13. CASE ReadHeader(p) \/ ReadPayload(p) \/ ReadPayloadEof(p)
  BY <1>3, <1>13, ReadHeaderReads, ReadPayloadReads, ReadPayloadEofReads
<1> QED BY <1>3, <1>7, <1>8, <1>9, <1>10, <1>11, <1>12, <1>13 DEF Step, Reader, Application

(* A step of the sending endpoint.                                         *)
LEMMA WriterKeeps ==
  ASSUME Inv, NEW e \in Endpoints, NEW p \in Endpoints, p = Peer(e), e = Peer(p),
         SentInv(e), StreamInv(e, p), HeldInv(e, p), Step(e)
  PROVE  SentInv(e)' /\ StreamInv(e, p)' /\ HeldInv(e, p)'
<1>1. TypeOK /\ p # e /\ WriterInv(e)
  BY Peers DEF Inv, EndpointInv
<1>2. /\ NothingTaken(p) /\ (Reading(p)' <=> Reading(p)) /\ rpc'[p] = rpc[p]
      /\ pending'[p] = pending[p] /\ got'[p] = got[p]
  <2>1. Untouched(p)
    BY <1>1, OthersUntouched
  <2> QED BY <2>1 DEF Untouched, NothingTaken, Reading
<1>3. /\ wire \in [Endpoints -> Seq(Unit)] /\ wire[e] \in Seq(Unit) /\ out[e] \in Seq(Unit)
      /\ sent[e] \in Seq(BorrowedFrame) /\ got[p] \in Seq(Frame) /\ close_state[e] \in CloseState
  BY <1>1 DEF TypeOK
<1>4. ASSUME wshut[e] => wshut'[e],
             sent'[e] = sent[e] \/ \E f \in BorrowedFrame : sent'[e] = Append(sent[e], f)
      PROVE  HeldInv(e, p)'
  BY <1>2, <1>3, <1>4, HeldKept
<1>5. ASSUME sent' = sent, last_sent_message_op' = last_sent_message_op, wshut[e] => wshut'[e]
      PROVE  SentInv(e)' /\ HeldInv(e, p)'
  BY <1>4, <1>5 DEF SentInv
<1>6. ASSUME NEW f \in Frames, Send(e, f)
      PROVE  SentInv(e)' /\ StreamInv(e, p)' /\ HeldInv(e, p)'
  <2>1. SentInv(e)' /\ StreamInv(e, p)'
    BY <1>6, SendSends
  <2>2. wshut' = wshut /\ sent'[e] = Append(sent[e], f) /\ f \in BorrowedFrame
    BY <1>1, <1>6, FramesAssumption DEF Send, TypeOK
  <2> QED BY <1>4, <2>1, <2>2
<1>7. CASE Write(e)
  <2>1. /\ wpc[e] \in {"Write", "CloseWrite"} /\ ~wshut[e] /\ out[e] # << >>
        /\ wire'[e] = Append(wire[e], Head(out[e])) /\ out'[e] = Tail(out[e])
        /\ sent' = sent /\ last_sent_message_op' = last_sent_message_op /\ wshut' = wshut
        /\ close_state' = close_state
        /\ wpc'[e] = IF Len(out[e]) > 1 THEN wpc[e]
                     ELSE IF wpc[e] = "Write" THEN "Idle" ELSE "CloseShutdown"
    BY <1>1, <1>7 DEF Write, WriterInv, TypeOK
  <2>2. wire'[e] \o out'[e] = wire[e] \o out[e]
    BY <1>3, <2>1, PutJoined
  <2>3. Intact(e)' => Intact(e)
    BY <2>1 DEF Intact, CanSend
  <2>4. Live(e, p)' => Live(e, p)
    BY <1>2, <2>1 DEF Live
  <2> QED BY <1>2, <1>5, <2>1, <2>2, <2>3, <2>4, StreamKept
<1>8. CASE WriteFails(e) \/ WriterCloseTimeout(e) \/ Drop(e)
  <2>1. /\ wire' = wire /\ out'[e] = << >> /\ sent' = sent
        /\ last_sent_message_op' = last_sent_message_op /\ (wshut[e] => wshut'[e])
    BY <1>1, <1>8 DEF WriteFails, WriterCloseTimeout, Drop, TypeOK
  <2>2. ~Intact(e)'
    <3>1. CASE WriteFails(e) \/ Drop(e)
      BY <1>1, <3>1 DEF WriteFails, Drop, Intact, CanSend, TypeOK
    <3>2. CASE WriterCloseTimeout(e)
      <4>1. wpc[e] \in WriterCloses /\ wpc' = [wpc EXCEPT ![e] = "Idle"] /\ close_state' = close_state
        BY <3>2 DEF WriterCloseTimeout
      <4>2. close_state[e] = "Both" /\ wpc'[e] = "Idle"
        BY <1>1, <4>1 DEF WriterInv, TypeOK
      <4> QED BY <4>1, <4>2 DEF Intact, CanSend, can_write
    <3> QED BY <1>8, <3>1, <3>2
  <2>3. Live(e, p)' => Live(e, p)
    BY <1>2, <2>1 DEF Live
  <2> QED BY <1>2, <1>3, <1>5, <2>1, <2>2, <2>3, StreamCut
<1>9. ASSUME wire'[e] = wire[e], out'[e] = out[e], sent' = sent,
             last_sent_message_op' = last_sent_message_op, wshut[e] => wshut'[e],
             Intact(e)' => Intact(e)
      PROVE  SentInv(e)' /\ StreamInv(e, p)' /\ HeldInv(e, p)'
  <2>1. Live(e, p)' => Live(e, p)
    BY <1>2, <1>9 DEF Live
  <2> QED BY <1>2, <1>5, <1>9, <2>1, StreamKept
<1>10. CASE WriterShutdown(e) \/ WriterHangUp(e)
  <2>1. /\ wire' = wire /\ out' = out /\ sent' = sent /\ close_state' = close_state
        /\ last_sent_message_op' = last_sent_message_op /\ (wshut[e] => wshut'[e])
        /\ wpc[e] \in WriterCloses /\ wpc'[e] \in {"CloseHangUp", "Idle"}
    BY <1>1, <1>10 DEF WriterShutdown, WriterHangUp, WriterCloses, TypeOK
  <2>2. ~Intact(e)'
    BY <1>1, <1>3, <2>1, Shutdown DEF WriterInv, Intact, CanSend
  <2> QED BY <1>9, <2>1, <2>2
<1>11. CASE Reader(e) \/ Next_(e) \/ ReadInterrupted(e)
  <2>1. /\ out' = out /\ sent' = sent /\ wpc' = wpc
        /\ last_sent_message_op' = last_sent_message_op /\ (wshut[e] => wshut'[e])
    BY <1>1, <1>11 DEF Reader, ReadHeader, ReadPayload, ReadPayloadEof, ReadEof, ReaderShutdown,
         ReaderHangUp, ReaderCloseTimeout, ReaderClosed, Next_, ReadInterrupted, writerVars, TypeOK
  <2>2. wire'[e] = wire[e]
    BY <1>1, <1>11 DEF Reader, ReadHeader, ReadPayload, ReadPayloadEof, ReadEof, ReaderShutdown,
         ReaderHangUp, ReaderCloseTimeout, ReaderClosed, Next_, ReadInterrupted, TypeOK
  <2>3. can_write(close_state'[e]) <=> can_write(close_state[e])
    <3>1. CASE ReadHeader(e)
      BY <1>1, <1>3, <3>1, Shutdown DEF ReadHeader, StateAfterHeader, TypeOK
    <3>2. CASE ReadEof(e)
      BY <1>1, <1>3, <3>2, Shutdown DEF ReadEof, TypeOK
    <3>3. CASE ~ReadHeader(e) /\ ~ReadEof(e)
      BY <1>11, <3>3 DEF Reader, ReadPayload, ReadPayloadEof, ReaderShutdown,
         ReaderHangUp, ReaderCloseTimeout, ReaderClosed, Next_, ReadInterrupted
    <3> QED BY <3>1, <3>2, <3>3
  <2>4. Intact(e)' => Intact(e)
    BY <2>1, <2>3 DEF Intact, CanSend
  <2> QED BY <1>9, <2>1, <2>2, <2>4
<1> QED BY <1>6, <1>7, <1>8, <1>10, <1>11 DEF Step, Writer, Application

(* At first nothing is on its way, and nothing was taken.                  *)
LEMMA InitChannelInv == Init => ChannelInv
<1> SUFFICES ASSUME Init, NEW e \in Endpoints
             PROVE  SentInv(e) /\ StreamInv(e, Peer(e)) /\ HeldInv(e, Peer(e))
  BY DEF ChannelInv
<1>1. PICK p \in Endpoints : p = Peer(e)
  BY Peers
<1>2. /\ sent[e] = << >> /\ last_sent_message_op[e] = "None" /\ wire[e] = << >> /\ out[e] = << >>
      /\ rpc[p] = "Idle" /\ got[p] = << >> /\ current_message[p] = NoMessage
  BY DEF Init
<1>3. << >> \in Seq(BorrowedFrame) /\ << >> \in Seq(Unit) /\ Len(<< >>) = 0
  BY EmptySeq
<1>4. Assembled(sent[e])[0] = NothingYet
  BY <1>2, <1>3, AssembledSteps
<1>5. SentInv(e)
  BY <1>2, <1>3, <1>4 DEF SentInv, NothingYet
<1>6. StreamInv(e, p)
  <2>1. Carried(<< >>, 0, 0, << >>)
    <3> DEFINE at == [i \in 0 .. 0 |-> 0]
    <3>1. Carries(<< >>, at, << >>) /\ at[0] = 0 /\ at[Len(<< >>)] = 0
      BY <1>3 DEF Carries
    <3> QED BY <3>1 DEF Carried
  <2>2. wire[e] \o out[e] = << >>
    BY <1>2, <1>3, NothingJoined
  <2>3. HasTaken(e, p, 0)
    BY <1>2, <1>4 DEF HasTaken, Open, NothingYet
  <2> QED BY <1>2, <1>3, <2>1, <2>2, <2>3 DEF StreamInv
<1>7. HeldInv(e, p)
  BY <1>2 DEF HeldInv, ReaderCloses
<1> QED BY <1>1, <1>5, <1>6, <1>7

(* Every step keeps the invariant.                                         *)
LEMMA StepKeepsChannelInv ==
  ASSUME Inv, ChannelInv, [Next]_vars
  PROVE  ChannelInv'
<1> SUFFICES ASSUME NEW e \in Endpoints
             PROVE  SentInv(e)' /\ StreamInv(e, Peer(e))' /\ HeldInv(e, Peer(e))'
  BY DEF ChannelInv
<1>1. PICK p \in Endpoints : p = Peer(e) /\ e = Peer(p)
  BY Peers
<1>2. TypeOK /\ SentInv(e) /\ StreamInv(e, p) /\ HeldInv(e, p)
  BY <1>1 DEF Inv, ChannelInv
<1>3. CASE UNCHANGED vars
  <2>1. UNCHANGED << close_state, last_sent_message_op, wpc, out, sent, wire, wshut,
                     current_message, rpc, frame, pending, got >>
    BY <1>3 DEF vars, writerVars, readerVars
  <2>2. NothingTaken(p) /\ (Live(e, p)' => Live(e, p)) /\ (Intact(e)' => Intact(e))
    BY <2>1 DEF NothingTaken, Live, Reading, Intact, CanSend
  <2>3. StreamInv(e, p)'
    BY <1>2, <2>1, <2>2, StreamKept
  <2>4. SentInv(e)' /\ HeldInv(e, p)'
    BY <1>2, <2>1 DEF SentInv, HeldInv, Due
  <2> QED BY <1>1, <2>3, <2>4
<1>4. CASE Step(e)
  BY <1>1, <1>2, <1>4, WriterKeeps
<1>5. CASE Step(p)
  BY <1>1, <1>2, <1>5, ReaderKeeps
<1>6. Next => Step(e) \/ Step(p)
  BY <1>1, Peers DEF Next, Step
<1> QED BY <1>3, <1>4, <1>5, <1>6

(* What the channel's log has to do with the wire holds in every state.    *)
LEMMA ChannelInvariance == Spec => []ChannelInv
<1>1. Inv /\ ChannelInv /\ [Next]_vars => ChannelInv'
  BY StepKeepsChannelInv
<1> QED BY <1>1, InitChannelInv, Invariance, PTL DEF Spec

-----------------------------------------------------------------------------
(* Every step is one of the channel's.                                     *)

(* A Close among the messages comes of a Close among the frames.           *)
LEMMA CloseOfClose ==
  ASSUME NEW fs \in Seq(BorrowedFrame), \A i \in 1 .. Len(fs) : fs[i].op # "Close"
  PROVE  \A i \in 1 .. Len(Messages(fs)) : Messages(fs)[i].op # "Close"
<1> DEFINE a == Assembled(fs)
           L == Len(fs)
           None(s) == \A i \in 1 .. Len(s) : s[i].op # "Close"
<1>1. /\ L \in Nat /\ a \in [0 .. L -> Accs] /\ a[0] = NothingYet
      /\ \A n \in 1 .. L : a[n] = AddFrame(a[n - 1], fs[n])
      /\ \A n \in 1 .. L : fs[n] \in BorrowedFrame /\ fs[n].op # "Close"
  BY AssembledSteps, LenProperties
<1> HIDE DEF a, L
<1> DEFINE T == {k \in Nat : k <= L => None(a[k].done)}
<1>2. 0 \in T
  <2>1. a[0].done = << >> /\ Len(<< >>) = 0
    BY <1>1, EmptySeq DEF NothingYet
  <2> QED BY <2>1
<1>3. ASSUME NEW k \in Nat, k \in T PROVE k + 1 \in T
  <2> SUFFICES ASSUME k + 1 <= L PROVE None(a[k + 1].done)
    OBVIOUS
  <2>1. k \in 0 .. L /\ k + 1 \in 1 .. L /\ (k + 1) - 1 = k /\ k <= L
    BY <1>1
  <2>2. PICK b \in Accs : b = a[k]
    BY <1>1, <2>1
  <2>3. PICK f \in BorrowedFrame : f = fs[k + 1] /\ f.op # "Close"
    BY <1>1, <2>1
  <2>4. a[k + 1] = AddFrame(b, f) /\ None(b.done)
    BY <1>1, <1>3, <2>1, <2>2, <2>3
  <2>5. PICK s \in Seq(Frame) : s = b.done
    BY DEF Accs
  <2>6. ASSUME NEW x \in Frame, x.op # "Close" PROVE None(Append(s, x))
    <3>1. /\ Len(Append(s, x)) = Len(s) + 1 /\ Append(s, x)[Len(s) + 1] = x
          /\ \A i \in 1 .. Len(s) + 1 : i \in 1 .. Len(s) \/ i = Len(s) + 1
          /\ \A i \in 1 .. Len(s) : Append(s, x)[i] = s[i]
      BY Appended
    <3> QED BY <2>4, <2>5, <2>6, <3>1
  <2>7. CASE is_control(f.op)
    <3>1. ControlMessage(f) \in Frame /\ ControlMessage(f).op # "Close"
      BY <2>3, ControlMessageType DEF ControlMessage, Item
    <3>2. AddFrame(b, f).done = Append(s, ControlMessage(f))
      BY <2>5, <2>7, FrameAdded
    <3> QED BY <2>4, <2>6, <3>1, <3>2
  <2>8. CASE ~is_control(f.op) /\ f.fin
    <3>1. b.part \in Seq(Byte) /\ f.payload \in Seq(Byte) /\ f.op \in Op
      BY FrameFields DEF Accs, Op
    <3>2. b.part \o f.payload \in Seq(Byte)
      BY <3>1, Joined
    <3>3. PICK x : x = Item(f.op, b.part \o f.payload)
      OBVIOUS
    <3>4. x \in Frame /\ x.op # "Close"
      BY <2>3, <3>1, <3>2, <3>3, ItemType DEF Item
    <3>5. AddFrame(b, f).done = Append(s, x)
      BY <2>5, <2>8, <3>3, FrameAdded
    <3> QED BY <2>4, <2>6, <3>4, <3>5
  <2>9. CASE ~is_control(f.op) /\ ~f.fin
    <3>1. AddFrame(b, f).done = b.done
      BY <2>9, FrameAdded
    <3> QED BY <2>4, <3>1
  <2> QED BY <2>7, <2>8, <2>9, FrameFields
<1>4. T = Nat
  <2>1. T \subseteq Nat
    OBVIOUS
  <2> HIDE DEF T
  <2> QED BY <1>2, <1>3, <2>1, NatSetInduction
<1>5. L \in T /\ L <= L
  BY <1>1, <1>4
<1>6. None(a[L].done)
  BY <1>5
<1> QED BY <1>6 DEF Messages, a, L

(* A message that is due, returned by next(), is one the channel delivers. *)
LEMMA DueDelivered ==
  ASSUME TypeOK, NEW e \in Endpoints, NEW p \in Endpoints, e = Peer(p), NoCloseGot(p),
         NEW m, Due(e, p, m), got' = [got EXCEPT ![p] = Append(@, m)],
         sent' = sent, wshut' = wshut
  PROVE  Channel!Deliver(p) \/ Channel!DeliverCut(p)
<1>1. got \in [Endpoints -> Seq(Frame)] /\ got[p] \in Seq(Frame)
  BY DEF TypeOK
<1>2. ~Channel!ClosedFor(p)
  BY DEF Channel!ClosedFor, ClosesDirection, NoCloseGot
<1>3. PICK log : log = [x \in Endpoints |-> Messages(sent[x])]
  OBVIOUS
<1>4. log[e] = Messages(sent[e]) /\ log = [x \in Endpoints |-> Messages(sent'[x])]
  BY <1>3
<1>5. Len(got[p]) < Len(log[e])
  BY <1>4 DEF Due
<1>6. got'[p] = Append(got[p], m)
  BY <1>1
<1>7. CASE m = Messages(sent[e])[Len(got[p]) + 1]
  <2>1. got' = [got EXCEPT ![p] = Append(@, log[e][Len(@) + 1])]
    BY <1>1, <1>4, <1>7
  <2>2. Channel!Deliver(p)
    BY <1>2, <1>3, <1>4, <1>5, <2>1 DEF Channel!Deliver
  <2> QED BY <2>2
<1>8. CASE wshut[e] /\ SameShape(Messages(sent[e])[Len(got[p]) + 1], m)
  <2>1. got'[p] # << >> /\ Channel!Last(got'[p]) = m
    <3>1. got[p] \in Seq(Frame \cup {m})
      BY <1>1
    <3>2. PICK s \in Seq(Frame \cup {m}) : s = got[p]
      BY <3>1
    <3>3. PICK t : t = Append(s, m)
      OBVIOUS
    <3>4. Len(t) = Len(s) + 1 /\ Len(s) \in Nat /\ t[Len(s) + 1] = m
      BY <3>3, Appended
    <3>5. t # << >> /\ t[Len(t)] = m
      BY <3>4, EmptySeq
    <3> QED BY <1>6, <3>2, <3>3, <3>5 DEF Channel!Last
  <2>2. Channel!DeliverCut(p)
    BY <1>2, <1>3, <1>4, <1>5, <1>8, <2>1 DEF Channel!DeliverCut
  <2> QED BY <2>2
<1> QED BY <1>7, <1>8 DEF Due

(* What send_frame accepts is sent on the channel, once it makes a message.*)
LEMMA SendImplements ==
  ASSUME Inv, NEW e \in Endpoints, NEW f \in Frames, Send(e, f)
  PROVE  Channel!Send(e) \/ UNCHANGED Channel!chan
<1>1. TypeOK /\ WriterInv(e) /\ ShutInv(e) /\ CloseIsLastSent /\ f \in BorrowedFrame
  BY FramesAssumption DEF Inv, EndpointInv
<1>2. /\ sent \in [Endpoints -> Seq(BorrowedFrame)] /\ sent[e] \in Seq(BorrowedFrame)
      /\ sent' = [sent EXCEPT ![e] = Append(@, f)] /\ got' = got /\ wshut' = wshut
      /\ can_write(close_state[e]) /\ wpc[e] = "Idle"
  BY <1>1 DEF Send, MaySend, TypeOK, readerVars
<1>3. ~wshut[e]
  BY <1>1, <1>2 DEF ShutInv, WriterInv, can_write, TypeOK
<1>4. PICK log : log = [x \in Endpoints |-> Messages(sent[x])]
  OBVIOUS
<1>5. PICK next : next = [x \in Endpoints |-> Messages(sent'[x])]
  OBVIOUS
<1>6. /\ log[e] = Messages(sent[e]) /\ next[e] = Messages(Append(sent[e], f))
      /\ next = [log EXCEPT ![e] = next[e]]
  <2>1. \A x \in Endpoints : x # e => sent'[x] = sent[x]
    BY <1>2
  <2>2. sent'[e] = Append(sent[e], f)
    BY <1>2
  <2> QED BY <1>4, <1>5, <2>1, <2>2
<1>7. next[e] = log[e] \/ \E x \in Frame : next[e] = Append(log[e], x)
  BY <1>1, <1>2, <1>6, MessagesGrow
<1>8. CASE next[e] = log[e]
  <2>1. next = log
    BY <1>4, <1>6, <1>8
  <2> QED BY <1>2, <1>4, <1>5, <2>1 DEF Channel!chan
<1>9. ASSUME NEW x \in Frame, next[e] = Append(log[e], x) PROVE Channel!Send(e)
  <2>1. log[e] \in Seq(Frame)
    BY <1>2, <1>6, MessagesType
  <2>2. PICK s \in Seq(Frame) : s = log[e]
    BY <2>1
  <2>3. PICK t : t = Append(s, x)
    OBVIOUS
  <2>4. Len(t) = Len(s) + 1 /\ Len(s) \in Nat /\ t[Len(s) + 1] = x
    BY <2>3, Appended
  <2>5. t # << >> /\ t[Len(t)] = x
    BY <2>4, EmptySeq
  <2>6. next[e] # << >> /\ Channel!Last(next[e]) = x
    BY <1>9, <2>2, <2>3, <2>5 DEF Channel!Last
  <2>7. \A i \in 1 .. Len(sent[e]) : sent[e][i].op # "Close"
    BY <1>1, <1>2 DEF CloseIsLastSent
  <2>8. \A i \in 1 .. Len(log[e]) : log[e][i].op # "Close"
    BY <1>2, <1>6, <2>7, CloseOfClose
  <2>9. next = [log EXCEPT ![e] = Append(@, Channel!Last(next[e]))]
    BY <1>4, <1>6, <1>9, <2>6
  <2> QED BY <1>2, <1>3, <1>4, <1>5, <2>6, <2>8, <2>9 DEF Channel!Send, ClosesDirection
<1> QED BY <1>7, <1>8, <1>9

(* Every step of an endpoint is one of the channel's, or none.             *)
LEMMA StepImplements ==
  ASSUME Inv, OwnInv, ChannelInv, NEW a \in Endpoints, Step(a)
  PROVE  Channel!Next \/ UNCHANGED Channel!chan
<1>1. PICK e \in Endpoints : e = Peer(a) /\ a = Peer(e)
  BY Peers
<1>2. TypeOK /\ GotInv(a) /\ SentInv(e) /\ StreamInv(e, a) /\ HeldInv(e, a)
  BY <1>1 DEF Inv, OwnInv, ChannelInv
<1>3. ASSUME got' = got, sent' = sent, wshut' = wshut
      PROVE  UNCHANGED Channel!chan
  BY <1>3 DEF Channel!chan
<1>4. ASSUME got' = got, sent' = sent, wshut' = [wshut EXCEPT ![a] = TRUE]
      PROVE  Channel!Next \/ UNCHANGED Channel!chan
  <2>1. wshut \in [Endpoints -> BOOLEAN]
    BY <1>2 DEF TypeOK
  <2>2. CASE wshut[a]
    <3>1. wshut' = wshut
      BY <1>4, <2>1, <2>2
    <3> QED BY <1>3, <1>4, <3>1
  <2>3. CASE ~wshut[a]
    <3>1. Channel!Finish(a)
      BY <1>4, <2>3 DEF Channel!Finish
    <3> QED BY <3>1 DEF Channel!Next
  <2> QED BY <2>2, <2>3
<1>5. ASSUME NEW m, NoCloseGot(a), Due(e, a, m), got' = [got EXCEPT ![a] = Append(@, m)],
             sent' = sent, wshut' = wshut
      PROVE  Channel!Next
  <2>1. Channel!Deliver(a) \/ Channel!DeliverCut(a)
    BY <1>1, <1>2, <1>5, DueDelivered
  <2> QED BY <2>1 DEF Channel!Next
<1>6. CASE Write(a) \/ WriteFails(a) \/ WriterHangUp(a) \/ WriterCloseTimeout(a)
  BY <1>3, <1>6 DEF Write, WriteFails, WriterHangUp, WriterCloseTimeout, readerVars
<1>7. CASE WriterShutdown(a) \/ ReaderShutdown(a) \/ Drop(a)
  BY <1>4, <1>7 DEF WriterShutdown, ReaderShutdown, Drop, readerVars, writerVars
<1>8. ASSUME NEW f \in Frames, Send(a, f) PROVE Channel!Next \/ UNCHANGED Channel!chan
  BY <1>8, SendImplements DEF Channel!Next
<1>9. CASE Next_(a) \/ ReadInterrupted(a)
  BY <1>3, <1>9 DEF Next_, ReadInterrupted, ReadFails, writerVars
<1>10. CASE ReadHeader(a) \/ ReadPayload(a) \/ ReadPayloadEof(a)
  <2>1. ReturnsNext(e, a)
    BY <1>1, <1>2, <1>10, ReadHeaderReads, ReadPayloadReads, ReadPayloadEofReads
  <2>2. sent' = sent /\ wshut' = wshut /\ rpc[a] \in {"Header", "Payload"}
    BY <1>10 DEF ReadHeader, ReadPayload, ReadPayloadEof, writerVars
  <2>3. NoCloseGot(a)
    BY <1>2, <2>2 DEF GotInv
  <2> QED BY <1>3, <1>5, <2>1, <2>2, <2>3 DEF ReturnsNext
<1>11. CASE ReaderHangUp(a) \/ ReaderCloseTimeout(a)
  <2>1. /\ rpc[a] \in ReaderCloses /\ got' = [got EXCEPT ![a] = Append(@, pending[a])]
        /\ sent' = sent /\ wshut' = wshut
    BY <1>11 DEF ReaderHangUp, ReaderCloseTimeout, ReaderClosed, ReaderCloses, Deliver, writerVars
  <2>2. NoCloseGot(a) /\ Due(e, a, pending[a])
    BY <1>2, <2>1 DEF GotInv, HeldInv
  <2> QED BY <1>5, <2>1, <2>2
<1>12. CASE ReadEof(a)
  <2>1. /\ rpc[a] = "Header" /\ got' = [got EXCEPT ![a] = Append(@, NoFrame)]
        /\ sent' = sent /\ wshut' = wshut /\ wshut[e]
    BY <1>1, <1>12 DEF ReadEof, AtEof, Deliver, writerVars
  <2>2. NoCloseGot(a)
    BY <1>2, <2>1 DEF GotInv
  <2>3. Channel!End(a)
    BY <1>1, <2>1, <2>2 DEF Channel!End, Channel!ClosedFor, ClosesDirection, NoCloseGot
  <2> QED BY <2>3 DEF Channel!Next
<1> QED BY <1>6, <1>7, <1>8, <1>9, <1>10, <1>11, <1>12 DEF Step, Writer, Reader, Application

(* Nothing has been sent or delivered.                                     *)
LEMMA InitImplements == Init => Channel!Init
<1> SUFFICES ASSUME Init PROVE Channel!Init
  OBVIOUS
<1>1. << >> \in Seq(BorrowedFrame) /\ Len(<< >>) = 0
  BY EmptySeq
<1>2. Messages(<< >>) = << >>
  <2>1. PICK fs \in Seq(BorrowedFrame) : fs = << >>
    BY <1>1
  <2>2. Assembled(fs)[0] = NothingYet /\ Len(fs) = 0
    BY <1>1, <2>1, AssembledSteps
  <2>3. Messages(fs) = << >>
    BY <2>2 DEF Messages, NothingYet
  <2> QED BY <2>1, <2>3
<1>3. \A e \in Endpoints : Messages(sent[e]) = << >>
  BY <1>2 DEF Init
<1> QED BY <1>3 DEF Init, Channel!Init

(* The two endpoints implement the channel: each direction delivers what   *)
(* send_frame accepted, whole, in order and once, until one Close ends it; *)
(* only what the sender left unwritten when it finished is cut.            *)
THEOREM Implements == Spec => ImplementsChannel
<1>1. Inv /\ OwnInv /\ ChannelInv /\ [Next]_vars => [Channel!Next]_(Channel!chan)
  <2>1. ASSUME UNCHANGED vars PROVE UNCHANGED Channel!chan
    BY <2>1 DEF vars, writerVars, readerVars, Channel!chan
  <2> QED BY <2>1, StepImplements DEF Next, Step
<1> QED BY <1>1, InitImplements, Invariance, OwnInvariance, ChannelInvariance, PTL
        DEF Spec, ImplementsChannel, Channel!Spec
=============================================================================
