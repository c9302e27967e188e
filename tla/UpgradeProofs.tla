--------------------------- MODULE UpgradeProofs ---------------------------
(***************************************************************************)
(* Both ends of the opening handshake agree on the key, keep the frames    *)
(* behind the heads, and accept each other's prompt heads, for any number  *)
(* of runs, redirects and connections and whatever the ends that are not   *)
(* this code send.  The invariant says of each connection what is still to come at   *)
(* each end: a head and then frames, or the frames alone.                  *)
(***************************************************************************)
EXTENDS Upgrade, SequenceTheorems, TLAPS

Unit == {Part} \cup {End(h) : h \in Request \cup Response} \cup {Frame(i) : i \in Nat}

Conn ==
  [client : {"ours", "other"}, server : {"ours", "other"},
   up : Seq(Unit), down : Seq(Unit), upEnd : BOOLEAN, downEnd : BOOLEAN,
   spc : {"Read", "Past", "Write", "Open", "Invalid", "Failed", "Other", "Answered"},
   sbuf : Seq(Unit), out : Seq(Unit), slate : BOOLEAN, answered : Nat,
   cframes : 0 .. MaxFrames, sframes : 0 .. MaxFrames]

Types ==
  /\ TypeOK
  /\ unsent \in Seq(Unit) /\ cbuf \in Seq(Unit) /\ conns \in Seq(Conn)

Cat(s, t) == s \o t

\* what an end has still to read: its buffer, what is in flight, and what the
\* other end has not sent of its head
Coming(buf, flight, rest) == Cat(Cat(buf, flight), rest)

\* what comes: a head, of which the first lines may have been read, and frames
Whole(h, n) == Cat(<< Part, End(h) >>, Frames(n))
Ended(h, n) == Cat(<< End(h) >>, Frames(n))
Headed(s, h, n) == s = Whole(h, n) \/ s = Ended(h, n)

\* ... or nothing more behind the first lines
Cut(s) == s = << >> \/ s = << Part >>

\* the client waits on its connection
Waits == cpc \in {"Send", "Read"}

ClientInv ==
  /\ cpc \in {"Connect", "Send", "Read"} => header = runs /\ runs > 0
  /\ cpc \in {"Send", "Read", "Past", "Open", "Rejected"} =>
       mine \in 1 .. Len(conns) /\ conns[mine].client = "ours"
  /\ cpc = "Send" => unsent # << >> /\ conns[mine].spc \notin {"Write", "Open"}
  /\ cpc = "Rejected" /\ ~late => conns[mine].server = "other"
  /\ cpc = "Past" => late

\* a server task that is done has nothing to write, and one that has not
\* written its answer has sent no frame
ServerInv(k) ==
  /\ k.server = "ours" <=> k.spc \notin {"Other", "Answered"}
  /\ k.spc # "Write" => k.out = << >>
  /\ k.spc \in {"Read", "Past", "Write", "Failed", "Invalid"} => k.sframes = 0
  /\ k.spc = "Invalid" /\ ~k.slate => k.client = "other"
  /\ k.spc = "Past" => k.slate

\* the request: rest is what the client has not sent of it, key its key if known
RequestInv(k, rest, waits, key) ==
  /\ k.spc = "Read" =>
       \/ ~waits /\ k.cframes = 0 /\ Cut(Coming(k.sbuf, k.up, rest))
       \/ \E h \in Request :
            /\ Headed(Coming(k.sbuf, k.up, rest), h, k.cframes)
            /\ k.client = "ours" => Valid(h) /\ k.cframes = 0
            /\ waits => h.key = key
  /\ k.spc \in {"Write", "Open"} => Cat(k.sbuf, k.up) = Frames(k.cframes)

Rest(c) == IF c = mine /\ cpc = "Send" THEN unsent ELSE << >>

UpInv(c) == RequestInv(conns[c], Rest(c), c = mine /\ Waits, runs)

\* the answer, of a server of this code to the key of this run
Answered(k, s, key) ==
  \E h \in Response : /\ Headed(s, h, k.sframes) /\ h.accept = k.answered
                      /\ k.server = "ours" => h = OurAnswer(key)

\* the answer the client waits for; buf is what it has buffered of it
AnswerInv(k, buf, key) ==
  /\ k.spc \in {"Read", "Past", "Invalid", "Other"} =>
       buf = << >> /\ k.down = << >> /\ k.sframes = 0
  /\ k.spc \in {"Write", "Open", "Answered"} => Answered(k, Coming(buf, k.down, k.out), key)
  /\ k.spc = "Failed" =>
       Cut(Coming(buf, k.down, k.out)) \/ Answered(k, Coming(buf, k.down, k.out), key)

\* the client is open: the answer has been read
OpenInv(k, buf, key) ==
  /\ k.spc \in {"Write", "Open", "Failed", "Answered"} /\ k.out = << >>
  /\ k.answered = key
  /\ Cat(buf, k.down) = Frames(k.sframes)

IInv ==
  /\ Types
  /\ ClientInv
  /\ \A c \in 1 .. Len(conns) : ServerInv(conns[c]) /\ UpInv(c)
  /\ Waits => AnswerInv(conns[mine], cbuf, runs)
  /\ cpc = "Open" => OpenInv(conns[mine], cbuf, runs)
-----------------------------------------------------------------------------
(* Sequences of units.                                                     *)

LEMMA UnitTypes ==
  /\ Part \in Unit /\ \A h \in Request \cup Response : End(h) \in Unit
  /\ \A n \in Nat : Frame(n) \in Unit
  /\ \A h : End(h) # Part /\ End(h).kind = "End" /\ End(h).head = h
  /\ << >> \in Seq(Unit) /\ Len(<< >>) = 0
<1>1. << >> \in Seq(Unit) /\ Len(<< >>) = 0
  BY EmptySeq
<1>2. \A h : End(h) # Part /\ End(h).kind = "End" /\ End(h).head = h
  BY DEF End, Part
<1> QED BY <1>1, <1>2 DEF Unit

LEMMA FramesType ==
  /\ \A n \in Nat : Frames(n) \in Seq(Unit) /\ Len(Frames(n)) = n
  /\ Frames(0) = << >>
<1>1. ASSUME NEW n \in Nat PROVE Frames(n) \in Seq(Unit) /\ Len(Frames(n)) = n
  <2>1. Frames(n) \in [1 .. n -> Unit]
    BY <1>1, UnitTypes DEF Frames
  <2>2. Frames(n) \in Seq(Unit)
    BY <2>1, SeqDef
  <2>3. Len(Frames(n)) \in Nat /\ DOMAIN Frames(n) = 1 .. Len(Frames(n)) /\ DOMAIN Frames(n) = 1 .. n
    BY <2>1, <2>2, LenProperties
  <2>4. \A m \in Nat : 1 .. m = 1 .. n => m = n
    <3> SUFFICES ASSUME NEW m \in Nat, 1 .. m = 1 .. n PROVE m = n
      OBVIOUS
    <3>1. (m \in 1 .. m <=> m \in 1 .. n) /\ (n \in 1 .. m <=> n \in 1 .. n)
      OBVIOUS
    <3> QED BY <3>1
  <2> QED BY <2>2, <2>3, <2>4
<1>2. Frames(0) = << >>
  BY <1>1, EmptySeq, SMT
<1> QED BY <1>1, <1>2

(* One frame more.                                                         *)
LEMMA FramesMore ==
  ASSUME NEW n \in Nat
  PROVE  Append(Frames(n), Frame(n + 1)) = Frames(n + 1)
<1> DEFINE s == Append(Frames(n), Frame(n + 1))
<1>1. Frames(n) \in Seq(Unit) /\ Len(Frames(n)) = n /\ Frame(n + 1) \in Unit
      /\ Frames(n + 1) \in Seq(Unit) /\ Len(Frames(n + 1)) = n + 1
  BY FramesType, UnitTypes
<1>2. s \in Seq(Unit) /\ Len(s) = n + 1 /\ s[n + 1] = Frame(n + 1)
      /\ \A i \in 1 .. n : s[i] = Frames(n)[i]
  BY <1>1, AppendProperties
<1>3. \A i \in 1 .. n : Frames(n)[i] = Frame(i) /\ Frames(n + 1)[i] = Frame(i)
  BY DEF Frames
<1>4. Frames(n + 1)[n + 1] = Frame(n + 1)
  BY DEF Frames
<1>5. \A i \in 1 .. n + 1 : s[i] = Frames(n + 1)[i]
  BY <1>2, <1>3, <1>4
<1> QED BY <1>1, <1>2, <1>5, SeqEqual

(* What fill() takes and what it leaves.                                   *)
LEMMA TakeSome ==
  ASSUME NEW s \in Seq(Unit), NEW k \in 1 .. Len(s)
  PROVE  /\ SubSeq(s, 1, k) \in Seq(Unit) /\ RestOf(s, k) \in Seq(Unit)
         /\ SubSeq(s, 1, k) # << >> /\ Len(SubSeq(s, 1, k)) = k
         /\ SubSeq(s, 1, k) \o RestOf(s, k) = s
         /\ k = Len(s) <=> RestOf(s, k) = << >>
<1>1. Len(s) \in Nat /\ \A i \in 1 .. Len(s) : s[i] \in Unit
  BY LenProperties, ElementOfSeq
<1>2. SubSeq(s, 1, k) \in Seq(Unit) /\ Len(SubSeq(s, 1, k)) = k
  <2>1. \A i \in 1 .. k : s[i] \in Unit
    BY <1>1
  <2> QED BY <1>1, <2>1, SubSeqProperties
<1>3. RestOf(s, k) \in Seq(Unit) /\ Len(RestOf(s, k)) = Len(s) - k
  <2>1. \A i \in k + 1 .. Len(s) : s[i] \in Unit
    BY <1>1
  <2>2. k + 1 \in Int /\ Len(s) \in Int
    BY <1>1
  <2>3. SubSeq(s, k + 1, Len(s)) \in Seq(Unit)
    BY <2>1, <2>2, SubSeqProperties
  <2>4. Len(SubSeq(s, k + 1, Len(s))) = Len(s) - k
    BY <1>1, <2>1, <2>2, SubSeqProperties, SMT
  <2> QED BY <2>3, <2>4 DEF RestOf
<1>4. SubSeq(s, 1, k) \o SubSeq(s, k + 1, Len(s)) = SubSeq(s, 1, Len(s))
  BY <1>1, ConcatAdjacentSubSeq
<1>5. SubSeq(s, 1, Len(s)) = s
  BY SubSeqFull
<1>6. SubSeq(s, 1, k) # << >>
  BY <1>2, EmptySeq
<1>7. k = Len(s) <=> RestOf(s, k) = << >>
  <2>1. RestOf(s, k) = << >> <=> Len(RestOf(s, k)) = 0
    BY <1>3, EmptySeq, ConcatProperties, SeqEqual
  <2> QED BY <1>1, <1>3, <2>1, SMT
<1> QED BY <1>2, <1>3, <1>4, <1>5, <1>6, <1>7 DEF RestOf

LEMMA CatType ==
  /\ \A s, t \in Seq(Unit) : Cat(s, t) \in Seq(Unit) /\ Len(Cat(s, t)) = Len(s) + Len(t)
  /\ \A s \in Seq(Unit) : Len(s) \in Nat
<1>1. ASSUME NEW s \in Seq(Unit), NEW t \in Seq(Unit)
      PROVE  Cat(s, t) \in Seq(Unit) /\ Len(Cat(s, t)) = Len(s) + Len(t)
  BY ConcatProperties DEF Cat
<1>2. ASSUME NEW s \in Seq(Unit) PROVE Len(s) \in Nat
  BY LenProperties
<1> QED BY <1>1, <1>2

LEMMA CatAssociative ==
  \A s, t, u \in Seq(Unit) : Cat(Cat(s, t), u) = Cat(s, Cat(t, u))
<1>1. ASSUME NEW s \in Seq(Unit), NEW t \in Seq(Unit), NEW u \in Seq(Unit)
      PROVE  Cat(Cat(s, t), u) = Cat(s, Cat(t, u))
  BY ConcatAssociative DEF Cat
<1> QED BY <1>1

LEMMA CatEmpty ==
  /\ \A s \in Seq(Unit) : Cat(s, << >>) = s /\ Cat(<< >>, s) = s
  /\ \A s, t \in Seq(Unit) : Cat(s, t) = << >> => s = << >> /\ t = << >>
<1>1. ASSUME NEW s \in Seq(Unit) PROVE Cat(s, << >>) = s /\ Cat(<< >>, s) = s
  BY ConcatEmptySeq DEF Cat
<1>2. ASSUME NEW s \in Seq(Unit), NEW t \in Seq(Unit), Cat(s, t) = << >>
      PROVE  s = << >> /\ t = << >>
  <2>1. Len(s) \in Nat /\ Len(t) \in Nat /\ Len(s) + Len(t) = 0
    BY <1>2, CatType, EmptySeq
  <2>2. Len(s) = 0 /\ Len(t) = 0
    BY <2>1
  <2> QED BY <2>2, EmptySeq, SeqEqual
<1> QED BY <1>1, <1>2

LEMMA ComingType ==
  ASSUME NEW b \in Seq(Unit), NEW a \in Seq(Unit), NEW rest \in Seq(Unit)
  PROVE  Coming(b, a, rest) \in Seq(Unit) /\ Coming(b, a, rest) = Cat(b, Cat(a, rest))
BY CatType, CatAssociative DEF Coming

(* The first unit of what comes is the first of what has come.             *)
LEMMA FirstOfCat ==
  ASSUME NEW s \in Seq(Unit), NEW t \in Seq(Unit), s # << >>
  PROVE  /\ Cat(s, t)[1] = s[1] /\ Cat(s, t) # << >>
         /\ Tail(s) \in Seq(Unit) /\ Len(Tail(s)) = Len(s) - 1
         /\ Cat(Tail(s), t) = Tail(Cat(s, t))
<1>1. Len(s) \in Nat /\ Len(t) \in Nat /\ Len(s) # 0
  <2>1. Len(s) = 0 => s = << >>
    BY EmptySeq, SeqEqual
  <2> QED BY <2>1, LenProperties
<1>2. Len(s) >= 1
  BY <1>1
<1>3. /\ s \o t \in Seq(Unit) /\ Len(s \o t) = Len(s) + Len(t)
      /\ \A i \in 1 .. Len(s) : (s \o t)[i] = s[i]
      /\ \A i \in 1 .. Len(t) : (s \o t)[Len(s) + i] = t[i]
  BY ConcatProperties
<1>4. (s \o t)[1] = s[1] /\ s \o t # << >>
  BY <1>1, <1>2, <1>3, EmptySeq
<1>5. Tail(s) \in Seq(Unit) /\ Len(Tail(s)) = Len(s) - 1
      /\ \A i \in 1 .. Len(Tail(s)) : Tail(s)[i] = s[i + 1]
  BY HeadTailProperties
<1>6. Tail(s \o t) \in Seq(Unit) /\ Len(Tail(s \o t)) = Len(s) + Len(t) - 1
      /\ \A i \in 1 .. Len(Tail(s \o t)) : Tail(s \o t)[i] = (s \o t)[i + 1]
  BY <1>1, <1>3, <1>4, HeadTailProperties
<1>7. /\ Tail(s) \o t \in Seq(Unit) /\ Len(Tail(s) \o t) = Len(s) - 1 + Len(t)
      /\ \A i \in 1 .. Len(s) - 1 : (Tail(s) \o t)[i] = Tail(s)[i]
      /\ \A i \in 1 .. Len(t) : (Tail(s) \o t)[Len(s) - 1 + i] = t[i]
  BY <1>5, ConcatProperties
<1>8. ASSUME NEW i \in 1 .. Len(Tail(s) \o t) PROVE (Tail(s) \o t)[i] = Tail(s \o t)[i]
  <2>1. CASE i <= Len(s) - 1
    <3>1. i \in 1 .. Len(s) - 1 /\ i + 1 \in 1 .. Len(s) /\ i \in 1 .. Len(s) + Len(t) - 1
      BY <1>1, <1>7, <2>1
    <3> QED BY <1>3, <1>5, <1>6, <1>7, <3>1
  <2>2. CASE i > Len(s) - 1
    <3> DEFINE j == i - (Len(s) - 1)
    <3>1. /\ j \in 1 .. Len(t) /\ i = Len(s) - 1 + j /\ i + 1 = Len(s) + j
          /\ i \in 1 .. Len(s) + Len(t) - 1
      BY <1>1, <1>7, <2>2
    <3> HIDE DEF j
    <3> QED BY <1>3, <1>6, <1>7, <3>1
  <2> QED BY <1>1, <2>1, <2>2
<1>9. Len(Tail(s) \o t) = Len(Tail(s \o t))
  BY <1>1, <1>6, <1>7
<1>10. Tail(s) \o t = Tail(s \o t)
  BY <1>6, <1>7, <1>8, <1>9, SeqEqual
<1> QED BY <1>4, <1>5, <1>10 DEF Cat

AnyHead == Request \cup Response

(* A head's first unit, and what is behind it.                             *)
LEMMA HeadFirst ==
  ASSUME NEW h \in AnyHead, NEW n \in Nat
  PROVE  /\ Ended(h, n) \in Seq(Unit) /\ Whole(h, n) \in Seq(Unit)
         /\ Ended(h, n) # << >> /\ Whole(h, n) # << >>
         /\ Whole(h, n)[1] = Part /\ Tail(Whole(h, n)) = Ended(h, n)
         /\ Ended(h, n)[1] = End(h) /\ Tail(Ended(h, n)) = Frames(n)
         /\ End(h) # Part /\ End(h).head = h /\ End(h).kind = "End"
         /\ Frames(n) \in Seq(Unit)
<1>1. Part \in Unit /\ End(h) \in Unit /\ Frames(n) \in Seq(Unit)
  BY UnitTypes, FramesType DEF AnyHead
<1>2. ASSUME NEW u \in Unit, NEW f \in Seq(Unit)
      PROVE  /\ Cat(<< u >>, f) \in Seq(Unit) /\ Cat(<< u >>, f) # << >>
             /\ Cat(<< u >>, f)[1] = u /\ Tail(Cat(<< u >>, f)) = f
  <2> DEFINE e == << u >>
  <2>1. e \in Seq(Unit) /\ e # << >> /\ e[1] = u /\ Tail(e) = << >>
    OBVIOUS
  <2> HIDE DEF e
  <2>2. Cat(e, f)[1] = e[1] /\ Cat(e, f) # << >> /\ Tail(Cat(e, f)) = Cat(Tail(e), f)
    BY <2>1, FirstOfCat
  <2>3. Cat(<< >>, f) = f
    BY CatEmpty
  <2>4. Cat(e, f) \in Seq(Unit)
    BY <2>1, CatType
  <2> QED BY <2>1, <2>2, <2>3, <2>4 DEF e
<1>3. /\ Ended(h, n) \in Seq(Unit) /\ Ended(h, n) # << >>
      /\ Ended(h, n)[1] = End(h) /\ Tail(Ended(h, n)) = Frames(n)
  BY <1>1, <1>2 DEF Ended
<1>4. Whole(h, n) = Cat(<< Part >>, Ended(h, n))
  <2> DEFINE p == << Part >>
             e == << End(h) >>
             f == Frames(n)
  <2>1. p \in Seq(Unit) /\ e \in Seq(Unit) /\ f \in Seq(Unit)
    BY <1>1
  <2>2. << Part, End(h) >> = Cat(p, e)
    BY <1>1 DEF Cat
  <2>3. Whole(h, n) = Cat(Cat(p, e), f) /\ Ended(h, n) = Cat(e, f)
    BY <2>2 DEF Whole, Ended
  <2> HIDE DEF p, e, f
  <2>4. Cat(Cat(p, e), f) = Cat(p, Cat(e, f))
    BY <2>1, CatAssociative
  <2>5. Whole(h, n) = Cat(p, Ended(h, n))
    BY <2>3, <2>4
  <2> QED BY <2>5 DEF p
<1>5. /\ Whole(h, n) \in Seq(Unit) /\ Whole(h, n) # << >>
      /\ Whole(h, n)[1] = Part /\ Tail(Whole(h, n)) = Ended(h, n)
  BY <1>1, <1>2, <1>3, <1>4
<1>6. End(h) # Part /\ End(h).head = h /\ End(h).kind = "End"
  BY UnitTypes
<1> QED BY <1>1, <1>3, <1>5, <1>6

(* The first lines of a head are taken as soon as they are there.          *)
LEMMA LinesTaken ==
  ASSUME NEW x \in Seq(Unit), NEW w \in Seq(Unit), NEW h \in AnyHead, NEW n \in Nat,
         x # << >>, Headed(Cat(x, w), h, n)
  PROVE  /\ Unparsed(x) \in Seq(Unit) /\ Len(Unparsed(x)) <= Len(x)
         /\ Cat(Unparsed(x), w) = Ended(h, n)
<1> DEFINE t == Tail(x)
<1>1. /\ Cat(x, w)[1] = x[1] /\ t \in Seq(Unit) /\ Cat(t, w) = Tail(Cat(x, w))
      /\ Len(t) = Len(x) - 1
  BY FirstOfCat
<1>2. Unparsed(x) = IF x[1] = Part THEN t ELSE x
  BY DEF Unparsed
<1>3. /\ Whole(h, n)[1] = Part /\ Tail(Whole(h, n)) = Ended(h, n)
      /\ Ended(h, n)[1] = End(h) /\ End(h) # Part
  BY HeadFirst
<1> HIDE DEF t
<1>4. Len(t) <= Len(x) /\ Len(x) <= Len(x)
  <2>1. Len(x) \in Nat
    BY LenProperties
  <2> QED BY <1>1, <2>1
<1>5. CASE Cat(x, w) = Whole(h, n)
  <2>1. Cat(t, w) = Ended(h, n)
    BY <1>1, <1>3, <1>5
  <2>2. x[1] = Part
    BY <1>1, <1>3, <1>5
  <2> QED BY <1>1, <1>2, <1>4, <2>1, <2>2
<1>6. CASE Cat(x, w) = Ended(h, n)
  <2>1. x[1] # Part
    BY <1>1, <1>3, <1>6
  <2> QED BY <1>2, <1>6, <1>4, <2>1
<1> QED BY <1>5, <1>6 DEF Headed

(* What a fill brings, before the lines are taken.                         *)
LEMMA FillBrings ==
  ASSUME NEW b \in Seq(Unit), NEW a \in Seq(Unit), NEW rest \in Seq(Unit),
         NEW k \in 1 .. Len(a), NEW buf, buf = Filled(b, a, k), NEW r, r = RestOf(a, k)
  PROVE  \E x \in Seq(Unit) :
           /\ x # << >> /\ Len(x) = Len(b) + k /\ buf = Unparsed(x)
           /\ r \in Seq(Unit) /\ Cat(r, rest) \in Seq(Unit)
           /\ Cat(x, Cat(r, rest)) = Coming(b, a, rest)
<1> DEFINE p == SubSeq(a, 1, k)
           x == Cat(b, p)
<1>1. /\ p \in Seq(Unit) /\ p # << >> /\ Len(p) = k
      /\ r \in Seq(Unit) /\ Cat(p, r) = a
  BY TakeSome DEF Cat
<1>2. buf = Unparsed(x)
  BY DEF Filled, Cat
<1> HIDE DEF p
<1>3. x \in Seq(Unit) /\ Len(x) = Len(b) + k /\ x # << >> /\ Cat(r, rest) \in Seq(Unit)
  BY <1>1, CatType, CatEmpty
<1>4. Cat(Cat(b, p), Cat(r, rest)) = Cat(Cat(Cat(b, p), r), rest)
  BY <1>1, <1>3, CatAssociative
<1>5. Cat(Cat(b, p), r) = Cat(b, a)
  BY <1>1, CatAssociative
<1>6. Cat(x, Cat(r, rest)) = Coming(b, a, rest)
  BY <1>4, <1>5 DEF Coming
<1> HIDE DEF x
<1> QED BY <1>1, <1>2, <1>3, <1>6

LEMMA TailShorter ==
  ASSUME NEW s \in Seq(Unit), NEW m \in Nat, Len(s) <= m, s # << >>
  PROVE  Len(Tail(s)) <= m
<1>1. Len(Tail(s)) = Len(s) - 1 /\ Len(s) \in Nat
  BY HeadTailProperties, LenProperties
<1> QED BY <1>1

(* A fill and the lines it brings, when a head is to come: the head is the *)
(* one that was sent, and what is behind it stays in order.                *)
LEMMA HeadParsed ==
  ASSUME NEW b \in Seq(Unit), NEW a \in Seq(Unit), NEW rest \in Seq(Unit),
         NEW k \in 1 .. Len(a), NEW h \in AnyHead, NEW n \in Nat,
         NEW buf, buf = Filled(b, a, k), NEW r, r = RestOf(a, k),
         Headed(Coming(b, a, rest), h, n)
  PROVE  /\ buf \in Seq(Unit) /\ r \in Seq(Unit) /\ Len(buf) <= Len(b) + k
         /\ Headed(Coming(buf, r, rest), h, n)
         /\ HeadCame(buf) =>
              /\ buf[1] = End(h) /\ Tail(buf) \in Seq(Unit) /\ Len(Tail(buf)) <= Len(b) + k
              /\ Coming(Tail(buf), r, rest) = Frames(n)
<1>1. PICK x \in Seq(Unit) :
        /\ x # << >> /\ Len(x) = Len(b) + k /\ buf = Unparsed(x)
        /\ r \in Seq(Unit) /\ Cat(r, rest) \in Seq(Unit)
        /\ Cat(x, Cat(r, rest)) = Coming(b, a, rest)
  BY FillBrings
<1>2. /\ buf \in Seq(Unit) /\ Len(buf) <= Len(b) + k
      /\ Cat(buf, Cat(r, rest)) = Ended(h, n)
  BY <1>1, LinesTaken
<1>3. Headed(Coming(buf, r, rest), h, n)
  <2>1. Coming(buf, r, rest) = Ended(h, n)
    BY <1>1, <1>2, ComingType
  <2> QED BY <2>1 DEF Headed
<1>4. ASSUME HeadCame(buf)
      PROVE  /\ buf[1] = End(h) /\ Tail(buf) \in Seq(Unit) /\ Len(Tail(buf)) <= Len(b) + k
             /\ Coming(Tail(buf), r, rest) = Frames(n)
  <2>1. buf # << >>
    BY <1>4 DEF HeadCame
  <2> DEFINE t == Tail(buf)
             w == Cat(r, rest)
  <2>2. /\ Cat(buf, w)[1] = buf[1] /\ t \in Seq(Unit) /\ Len(t) = Len(buf) - 1
        /\ Cat(t, w) = Tail(Cat(buf, w))
    BY <1>1, <1>2, <2>1, FirstOfCat
  <2>3. Cat(buf, w)[1] = End(h) /\ Tail(Cat(buf, w)) = Frames(n)
    BY <1>2, HeadFirst
  <2>4. Len(b) + k \in Nat
    BY LenProperties
  <2>5. Len(t) <= Len(b) + k
    BY <1>2, <2>1, <2>4, TailShorter
  <2> HIDE DEF t
  <2>6. t \in Seq(Unit)
    BY <2>2
  <2>7. buf[1] = End(h) /\ t \in Seq(Unit) /\ Coming(t, r, rest) = Frames(n)
    <3>1. Coming(t, r, rest) = Cat(t, Cat(r, rest))
      BY <1>1, <2>6, ComingType
    <3> QED BY <2>2, <2>3, <3>1
  <2> QED BY <2>5, <2>7 DEF t
<1> QED BY <1>1, <1>2, <1>3, <1>4

(* The same when the rest of the head will not come.                       *)
LEMMA CutParsed ==
  ASSUME NEW b \in Seq(Unit), NEW a \in Seq(Unit), NEW rest \in Seq(Unit),
         NEW k \in 1 .. Len(a),
         NEW buf, buf = Filled(b, a, k), NEW r, r = RestOf(a, k), Cut(Coming(b, a, rest))
  PROVE  /\ buf \in Seq(Unit) /\ r \in Seq(Unit) /\ Len(buf) = 0 /\ ~HeadCame(buf)
         /\ Cut(Coming(buf, r, rest))
<1>1. PICK x \in Seq(Unit) :
        /\ x # << >> /\ Len(x) = Len(b) + k /\ buf = Unparsed(x)
        /\ r \in Seq(Unit) /\ Cat(r, rest) \in Seq(Unit)
        /\ Cat(x, Cat(r, rest)) = Coming(b, a, rest)
  BY FillBrings
<1> DEFINE w == Cat(r, rest)
<1>2. /\ Cat(x, w)[1] = x[1] /\ Cat(x, w) # << >>
      /\ Tail(x) \in Seq(Unit) /\ Cat(Tail(x), w) = Tail(Cat(x, w))
  BY <1>1, FirstOfCat
<1>3. Cat(x, w) = << Part >>
  BY <1>1, <1>2 DEF Cut
<1>4. << Part >>[1] = Part /\ Tail(<< Part >>) = << >>
  OBVIOUS
<1>5. x[1] = Part /\ Cat(Tail(x), w) = << >>
  BY <1>2, <1>3, <1>4
<1>6. Tail(x) = << >> /\ w = << >>
  BY <1>1, <1>2, <1>5, CatEmpty
<1>7. buf = << >>
  BY <1>1, <1>5, <1>6 DEF Unparsed
<1>8. r = << >> /\ rest = << >>
  BY <1>1, <1>6, CatEmpty
<1>9. << >> \in Seq(Unit) /\ Len(<< >>) = 0 /\ Coming(<< >>, << >>, << >>) = << >>
  BY EmptySeq, CatEmpty DEF Coming
<1> QED BY <1>7, <1>8, <1>9 DEF HeadCame, Cut

(* What has been sent of a head when its sender gives up.                  *)
LEMMA HeadTruncated ==
  ASSUME NEW a \in Seq(Unit), NEW rest \in Seq(Unit), NEW h \in AnyHead,
         Headed(Cat(a, rest), h, 0)
  PROVE  Cut(a) \/ Headed(a, h, 0)
<1>1. /\ Whole(h, 0) \in Seq(Unit) /\ Whole(h, 0)[1] = Part /\ Tail(Whole(h, 0)) = Ended(h, 0)
      /\ Ended(h, 0) \in Seq(Unit) /\ Ended(h, 0)[1] = End(h) /\ Tail(Ended(h, 0)) = << >>
  BY HeadFirst, FramesType
<1>2. ASSUME NEW s \in Seq(Unit), Cat(s, rest) = Ended(h, 0)
      PROVE  s = << >> \/ s = Ended(h, 0)
  <2> SUFFICES ASSUME s # << >> PROVE s = Ended(h, 0)
    OBVIOUS
  <2> DEFINE t == Tail(s)
  <2>1. t \in Seq(Unit) /\ Cat(t, rest) = Tail(Cat(s, rest))
    BY FirstOfCat
  <2> HIDE DEF t
  <2>2. Cat(t, rest) = << >>
    BY <1>1, <1>2, <2>1
  <2>3. rest = << >>
    BY <2>1, <2>2, CatEmpty
  <2>4. Cat(s, << >>) = s
    BY CatEmpty
  <2> QED BY <1>2, <2>3, <2>4
<1>3. CASE Cat(a, rest) = Ended(h, 0)
  BY <1>2, <1>3 DEF Cut, Headed
<1>4. CASE Cat(a, rest) = Whole(h, 0) /\ a # << >>
  <2> DEFINE t == Tail(a)
  <2>1. t \in Seq(Unit) /\ Cat(t, rest) = Tail(Cat(a, rest)) /\ Cat(a, rest)[1] = a[1]
        /\ Len(t) = Len(a) - 1
    BY <1>4, FirstOfCat
  <2>2. a[1] = Part
    BY <1>1, <1>4, <2>1
  <2> HIDE DEF t
  <2>3. t = << >> \/ t = Ended(h, 0)
    BY <1>1, <1>2, <1>4, <2>1
  <2>4. CASE t = << >>
    <3>1. Len(a) = 1
      BY <2>1, <2>4, EmptySeq, LenProperties
    <3>2. Part \in Unit
      BY UnitTypes
    <3>3. << Part >> \in Seq(Unit) /\ Len(<< Part >>) = 1 /\ << Part >>[1] = Part
      BY <3>2
    <3>4. a = << Part >>
      BY <2>2, <3>1, <3>3, SeqEqual
    <3> QED BY <3>4 DEF Cut
  <2>5. CASE t = Ended(h, 0)
    <3>1. Len(Cat(t, rest)) = Len(t) + Len(rest) /\ Len(t) \in Nat /\ Len(rest) \in Nat
      BY <2>1, CatType
    <3>2. Cat(t, rest) = t
      BY <1>1, <1>4, <2>1, <2>5
    <3>3. Len(rest) = 0
      BY <3>1, <3>2
    <3>4. rest = << >>
      BY <3>3, EmptySeq, SeqEqual
    <3>5. Cat(a, << >>) = a
      BY CatEmpty
    <3> QED BY <1>4, <3>4, <3>5 DEF Headed
  <2> QED BY <2>3, <2>4, <2>5
<1> QED BY <1>3, <1>4 DEF Cut, Headed

LEMMA Moved ==
  ASSUME NEW b \in Seq(Unit), NEW a \in Seq(Unit), NEW p \in Seq(Unit), NEW r \in Seq(Unit)
  PROVE  /\ Cat(a, p) \in Seq(Unit)
         /\ Coming(b, Cat(a, p), r) = Coming(b, a, Cat(p, r))
         /\ Cat(b, Cat(a, p)) = Cat(Cat(b, a), p) /\ Cat(b, a) \in Seq(Unit)
<1>1. Cat(a, p) \in Seq(Unit) /\ Cat(p, r) \in Seq(Unit) /\ Cat(b, a) \in Seq(Unit)
  BY CatType
<1>2. Cat(Cat(a, p), r) = Cat(a, Cat(p, r)) /\ Cat(b, Cat(a, p)) = Cat(Cat(b, a), p)
  BY CatAssociative
<1>3. Coming(b, Cat(a, p), r) = Cat(b, Cat(Cat(a, p), r))
  BY <1>1, ComingType
<1>4. Coming(b, a, Cat(p, r)) = Cat(b, Cat(a, Cat(p, r)))
  BY <1>1, ComingType
<1> QED BY <1>1, <1>2, <1>3, <1>4

(* What is sent goes behind what is in flight.                             *)
LEMMA SomeSent ==
  ASSUME NEW b \in Seq(Unit), NEW a \in Seq(Unit), NEW rest \in Seq(Unit), NEW k \in 1 .. Len(rest)
  PROVE  LET a2 == a \o SubSeq(rest, 1, k)
             r  == RestOf(rest, k)
         IN  /\ a2 \in Seq(Unit) /\ r \in Seq(Unit) /\ Coming(b, a2, r) = Coming(b, a, rest)
             /\ k = Len(rest) <=> r = << >>
<1> DEFINE p  == SubSeq(rest, 1, k)
           r  == RestOf(rest, k)
           a2 == a \o p
<1>1. p \in Seq(Unit) /\ r \in Seq(Unit) /\ Cat(p, r) = rest
  BY TakeSome DEF Cat
<1>2. k = Len(rest) <=> r = << >>
  BY TakeSome
<1>3. a2 = Cat(a, p)
  BY DEF Cat
<1> HIDE DEF p, a2, r
<1>4. a2 \in Seq(Unit) /\ Coming(b, a2, r) = Coming(b, a, rest)
  BY <1>1, <1>3, Moved
<1> QED BY <1>1, <1>2, <1>4 DEF a2, r, p

(* One frame more behind the frames, or behind a head.                     *)
LEMMA FrameSent ==
  ASSUME NEW b \in Seq(Unit), NEW a \in Seq(Unit), NEW n \in Nat,
         NEW a2, a2 = Append(a, Frame(n + 1))
  PROVE  /\ a2 \in Seq(Unit)
         /\ Cat(b, a) = Frames(n) => Cat(b, a2) = Frames(n + 1)
         /\ \A h \in AnyHead :
              Headed(Coming(b, a, << >>), h, n) => Headed(Coming(b, a2, << >>), h, n + 1)
<1> DEFINE f == << Frame(n + 1) >>
<1>1. /\ Frame(n + 1) \in Unit /\ f \in Seq(Unit) /\ Frames(n) \in Seq(Unit)
      /\ Frames(n + 1) \in Seq(Unit) /\ << >> \in Seq(Unit) /\ n + 1 \in Nat
  BY UnitTypes, FramesType
<1>2. a2 = Cat(a, f) /\ a2 \in Seq(Unit)
  BY <1>1, AppendIsConcat, AppendProperties DEF Cat
<1>3. Frames(n + 1) = Cat(Frames(n), f)
  BY <1>1, FramesMore, AppendIsConcat DEF Cat
<1> HIDE DEF f
<1>4. Cat(b, a2) = Cat(Cat(b, a), f) /\ Cat(b, a) \in Seq(Unit) /\ Cat(b, a2) \in Seq(Unit)
  <2>1. Cat(b, Cat(a, f)) = Cat(Cat(b, a), f) /\ Cat(b, a) \in Seq(Unit)
    BY <1>1, Moved
  <2>2. Cat(Cat(b, a), f) \in Seq(Unit)
    BY <1>1, <2>1, CatType
  <2> QED BY <1>2, <2>1, <2>2
<1>5. Coming(b, a, << >>) = Cat(b, a) /\ Coming(b, a2, << >>) = Cat(b, a2)
  BY <1>4, CatEmpty DEF Coming
<1>6. ASSUME NEW h \in AnyHead, Headed(Coming(b, a, << >>), h, n)
      PROVE  Headed(Coming(b, a2, << >>), h, n + 1)
  <2> DEFINE w == << Part, End(h) >>
             e == << End(h) >>
  <2>1. w \in Seq(Unit) /\ e \in Seq(Unit)
    BY UnitTypes DEF AnyHead
  <2>2. /\ Whole(h, n) = Cat(w, Frames(n)) /\ Whole(h, n + 1) = Cat(w, Frames(n + 1))
        /\ Ended(h, n) = Cat(e, Frames(n)) /\ Ended(h, n + 1) = Cat(e, Frames(n + 1))
    BY DEF Whole, Ended
  <2> HIDE DEF w, e
  <2>3. Whole(h, n + 1) = Cat(Whole(h, n), f) /\ Ended(h, n + 1) = Cat(Ended(h, n), f)
    BY <1>1, <1>3, <2>1, <2>2, CatAssociative
  <2>4. Headed(Cat(b, a), h, n)
    BY <1>5, <1>6
  <2>5. Headed(Cat(b, a2), h, n + 1)
    BY <1>4, <2>3, <2>4 DEF Headed
  <2> QED BY <1>5, <2>5
<1>7. Cat(b, a) = Frames(n) => Cat(b, a2) = Frames(n + 1)
  BY <1>3, <1>4
<1> QED BY <1>2, <1>6, <1>7

-----------------------------------------------------------------------------
(* Steps.                                                                  *)

LEMMA InitIInv == Init => IInv
<1> SUFFICES ASSUME Init PROVE IInv
  OBVIOUS
<1>1. << >> \in Seq(Unit) /\ << >> \in Seq(Conn) /\ Len(<< >>) = 0
  BY EmptySeq
<1>2. TypeOK
  <2>1. late \in BOOLEAN
    BY DEF Init
  <2> QED BY <1>1, <2>1, BoundsAssumption DEF Init, TypeOK
<1>3. Types
  BY <1>1, <1>2 DEF Init, Types
<1>4. ClientInv
  BY DEF Init, ClientInv
<1>5. ~Waits /\ cpc # "Open"
  BY DEF Init, Waits
<1>6. \A c \in 1 .. Len(conns) : FALSE
  BY <1>1, SMT DEF Init
<1> QED BY <1>3, <1>4, <1>5, <1>6 DEF IInv

(* What the types say.                                                     *)
LEMMA TypeFacts ==
  ASSUME Types
  PROVE  /\ cpc \in {"Idle", "Connect", "Send", "Read", "Past", "Open", "Rejected", "Failed"}
         /\ late \in BOOLEAN /\ runs \in 0 .. MaxRuns /\ MaxRuns \in Nat /\ runs \in Nat
         /\ conns \in Seq(Conn) /\ Len(conns) \in Nat /\ DOMAIN conns = 1 .. Len(conns)
         /\ \A c \in 1 .. Len(conns) : conns[c] \in Conn /\ Len(conns[c].sbuf) <= Capacity
         /\ unsent \in Seq(Unit) /\ cbuf \in Seq(Unit)
         /\ \A c \in 1 .. Len(conns) : Rest(c) \in Seq(Unit)
         /\ MaxFrames \in Nat /\ MaxConns \in Nat /\ Capacity \in Nat
<1>1. conns \in Seq(Conn) /\ Len(conns) \in Nat /\ DOMAIN conns = 1 .. Len(conns)
      /\ \A c \in 1 .. Len(conns) : conns[c] \in Conn
  BY LenProperties, ElementOfSeq DEF Types
<1>2. \A c \in 1 .. Len(conns) : Rest(c) \in Seq(Unit)
  BY UnitTypes DEF Types, Rest
<1>3. late \in BOOLEAN
  BY DEF Types, TypeOK
<1>4. /\ cpc \in {"Idle", "Connect", "Send", "Read", "Past", "Open", "Rejected", "Failed"}
      /\ runs \in 0 .. MaxRuns /\ unsent \in Seq(Unit) /\ cbuf \in Seq(Unit)
      /\ \A c \in DOMAIN conns : Len(conns[c].sbuf) <= Capacity
  BY DEF Types, TypeOK
<1>5. MaxRuns \in Nat /\ MaxFrames \in Nat /\ MaxConns \in Nat /\ Capacity \in Nat /\ runs \in Nat
  BY <1>4, BoundsAssumption
<1> QED BY <1>1, <1>2, <1>3, <1>4, <1>5

(* A connection that is of its type keeps TypeOK's part of it.             *)
LEMMA ConnTypeOK ==
  ASSUME NEW k \in Conn
  PROVE  /\ k.spc \in {"Read", "Past", "Write", "Open", "Invalid", "Failed", "Other", "Answered"}
         /\ k.slate \in BOOLEAN
         /\ k.answered \in Nat /\ {k.cframes, k.sframes} \subseteq 0 .. MaxFrames
         /\ k.cframes \in Nat /\ k.sframes \in Nat
         /\ k.up \in Seq(Unit) /\ k.down \in Seq(Unit) /\ k.sbuf \in Seq(Unit)
         /\ k.out \in Seq(Unit)
BY BoundsAssumption DEF Conn

(* One connection changes: the others' invariants do not.                  *)
LEMMA OneConn ==
  ASSUME IInv, NEW c \in 1 .. Len(conns), NEW k \in Conn, conns' = [conns EXCEPT ![c] = k],
         mine' = mine, runs' = runs, c = mine \/ UNCHANGED clientVars,
         ServerInv(k), Len(k.sbuf) <= Capacity,
         RequestInv(k, Rest(c)', (c = mine /\ Waits)', runs)
  PROVE  /\ conns' \in Seq(Conn) /\ Len(conns') = Len(conns) /\ conns'[c] = k
         /\ \A d \in 1 .. Len(conns) : d # c => conns'[d] = conns[d]
         /\ \A d \in 1 .. Len(conns') : ServerInv(conns'[d]) /\ UpInv(d)'
         /\ \A d \in DOMAIN conns' : conns'[d] \in Conn /\ Len(conns'[d].sbuf) <= Capacity
<1>1. /\ conns \in Seq(Conn) /\ DOMAIN conns = 1 .. Len(conns)
      /\ \A d \in 1 .. Len(conns) : conns[d] \in Conn /\ Len(conns[d].sbuf) <= Capacity
  BY TypeFacts DEF IInv
<1>2. /\ conns' \in Seq(Conn) /\ Len(conns') = Len(conns) /\ conns'[c] = k
      /\ DOMAIN conns' = 1 .. Len(conns)
      /\ \A d \in 1 .. Len(conns) : d # c => conns'[d] = conns[d]
  BY <1>1, ExceptSeq
<1>3. ASSUME NEW d \in 1 .. Len(conns), d # c
      PROVE  ServerInv(conns'[d]) /\ UpInv(d)'
  <2>1. ServerInv(conns[d]) /\ UpInv(d)
    BY DEF IInv
  <2>2. Rest(d)' = Rest(d) /\ (d = mine /\ Waits)' = (d = mine /\ Waits)
    BY <1>3 DEF Rest, Waits, clientVars
  <2> QED BY <1>2, <1>3, <2>1, <2>2 DEF UpInv
<1>4. ServerInv(conns'[c]) /\ UpInv(c)'
  BY <1>2 DEF UpInv
<1>5. \A d \in DOMAIN conns' : conns'[d] \in Conn /\ Len(conns'[d].sbuf) <= Capacity
  BY <1>1, <1>2
<1> QED BY <1>2, <1>3, <1>4, <1>5

(* The types, when a connection changes and the client's own state is of   *)
(* its type.                                                               *)
LEMMA TypesKept ==
  ASSUME IInv, conns' \in Seq(Conn), Len(conns') <= MaxConns, mine' \in 0 .. Len(conns'),
         \A d \in DOMAIN conns' : conns'[d] \in Conn /\ Len(conns'[d].sbuf) <= Capacity,
         cpc' \in {"Idle", "Connect", "Send", "Read", "Past", "Open", "Rejected", "Failed"},
         late' \in BOOLEAN, runs' \in 0 .. MaxRuns, header' \in 0 .. runs', redirects' \in 0 .. MaxRedirects,
         unsent' \in Seq(Unit), cbuf' \in Seq(Unit), Len(cbuf') <= Capacity
  PROVE  Types'
<1>1. TypeOK'
  BY ConnTypeOK DEF TypeOK
<1> QED BY <1>1 DEF Types

(* A server's step: it is enough to look at its own connection.            *)
LEMMA ServerStep ==
  ASSUME IInv, NEW c \in 1 .. Len(conns), NEW k \in Conn, conns' = [conns EXCEPT ![c] = k],
         UNCHANGED clientVars,
         k.client = conns[c].client, k.server = conns[c].server,
         ServerInv(k), Len(k.sbuf) <= Capacity,
         RequestInv(k, Rest(c), c = mine /\ Waits, runs),
         c = mine /\ cpc = "Send" => k.spc \notin {"Write", "Open"},
         c = mine /\ Waits => AnswerInv(k, cbuf, runs),
         c = mine /\ cpc = "Open" => OpenInv(k, cbuf, runs)
  PROVE  IInv'
<1>1. /\ cpc' = cpc /\ runs' = runs /\ header' = header /\ redirects' = redirects
      /\ mine' = mine /\ unsent' = unsent /\ cbuf' = cbuf /\ late' = late
  BY DEF clientVars
<1>2. Rest(c)' = Rest(c) /\ (c = mine /\ Waits)' = (c = mine /\ Waits) /\ Waits' = Waits
  BY <1>1 DEF Rest, Waits
<1>3. RequestInv(k, Rest(c)', (c = mine /\ Waits)', runs)
  BY <1>2
<1>4. /\ conns' \in Seq(Conn) /\ Len(conns') = Len(conns) /\ conns'[c] = k
      /\ \A d \in 1 .. Len(conns) : d # c => conns'[d] = conns[d]
      /\ \A d \in 1 .. Len(conns') : ServerInv(conns'[d]) /\ UpInv(d)'
      /\ \A d \in DOMAIN conns' : conns'[d] \in Conn /\ Len(conns'[d].sbuf) <= Capacity
  BY <1>1, <1>3, OneConn
<1>5. Types'
  <2>1. TypeOK /\ unsent \in Seq(Unit) /\ cbuf \in Seq(Unit)
    BY DEF IInv, Types
  <2> QED BY <1>1, <1>4, <2>1, TypesKept DEF TypeOK
<1>6. ClientInv'
  <2>1. ClientInv
    BY DEF IInv
  <2>2. mine \in 1 .. Len(conns) => /\ conns'[mine].client = conns[mine].client
                                    /\ conns'[mine].server = conns[mine].server
                                    /\ mine # c => conns'[mine] = conns[mine]
    BY <1>4
  <2> QED BY <1>1, <1>4, <2>1, <2>2 DEF ClientInv
<1>7. Waits' => AnswerInv(conns'[mine'], cbuf', runs')
  <2>1. Waits => mine \in 1 .. Len(conns)
    BY DEF IInv, ClientInv, Waits
  <2> QED BY <1>1, <1>2, <1>4, <2>1 DEF IInv
<1>8. cpc' = "Open" => OpenInv(conns'[mine'], cbuf', runs')
  <2>1. cpc = "Open" => mine \in 1 .. Len(conns)
    BY DEF IInv, ClientInv
  <2> QED BY <1>1, <1>4, <2>1 DEF IInv
<1> QED BY <1>4, <1>5, <1>6, <1>7, <1>8 DEF IInv

(* The invariant at one connection.                                        *)
LEMMA AtConn ==
  ASSUME IInv, NEW c \in 1 .. Len(conns)
  PROVE  LET k == conns[c] IN
         /\ k \in Conn /\ Len(k.sbuf) <= Capacity /\ Rest(c) \in Seq(Unit)
         /\ ServerInv(k) /\ RequestInv(k, Rest(c), c = mine /\ Waits, runs)
         /\ c = mine /\ cpc = "Send" =>
              unsent # << >> /\ Waits /\ k.client = "ours"
                /\ k.spc \notin {"Write", "Open"}
         /\ c = mine /\ Waits => AnswerInv(k, cbuf, runs) /\ k.client = "ours" /\ cpc \in {"Send", "Read"}
         /\ c = mine /\ cpc = "Open" => OpenInv(k, cbuf, runs) /\ k.client = "ours"
BY TypeFacts DEF IInv, UpInv, ClientInv, Waits

(* flush() returns.                                                        *)
LEMMA UpgradedKeeps ==
  ASSUME IInv, NEW c \in 1 .. Len(conns), Upgraded(c)
  PROVE  IInv'
<1> DEFINE k0 == conns[c]
           k  == [k0 EXCEPT !.spc = "Open"]
<1>1. /\ k0 \in Conn /\ Len(k0.sbuf) <= Capacity
      /\ ServerInv(k0) /\ RequestInv(k0, Rest(c), c = mine /\ Waits, runs)
      /\ k0.spc = "Write" /\ k0.out = << >>
      /\ c = mine /\ cpc = "Send" => k0.spc # "Write"
      /\ c = mine /\ Waits => AnswerInv(k0, cbuf, runs)
      /\ c = mine /\ cpc = "Open" => OpenInv(k0, cbuf, runs)
  BY AtConn DEF Upgraded
<1>2. conns' = [conns EXCEPT ![c] = k] /\ UNCHANGED clientVars
  BY DEF Upgraded
<1> HIDE DEF k0
<1>3. /\ k \in Conn /\ k.spc = "Open" /\ k.client = k0.client /\ k.server = k0.server
      /\ k.up = k0.up /\ k.down = k0.down /\ k.sbuf = k0.sbuf /\ k.out = k0.out
      /\ k.answered = k0.answered /\ k.cframes = k0.cframes /\ k.sframes = k0.sframes
  BY <1>1 DEF Conn
<1> HIDE DEF k
<1>4. ServerInv(k)
  BY <1>1, <1>3 DEF ServerInv
<1>5. RequestInv(k, Rest(c), c = mine /\ Waits, runs)
  BY <1>1, <1>3 DEF RequestInv
<1>6. AnswerInv(k0, cbuf, runs) => AnswerInv(k, cbuf, runs)
  BY <1>1, <1>3 DEF AnswerInv, Answered
<1>7. OpenInv(k0, cbuf, runs) => OpenInv(k, cbuf, runs)
  BY <1>3 DEF OpenInv
<1> QED BY <1>1, <1>2, <1>3, <1>4, <1>5, <1>6, <1>7, ServerStep DEF k0

(* The server's task ends: its timer, an error, or the end of the stream.  *)
LEMMA ServerGivesUpKeeps ==
  ASSUME IInv, NEW c \in 1 .. Len(conns), conns[c].spc \in {"Read", "Past", "Write"}, ServerGivesUp(c)
  PROVE  IInv'
<1> DEFINE k0 == conns[c]
           k  == [k0 EXCEPT !.spc = "Failed", !.downEnd = TRUE, !.out = << >>, !.sbuf = << >>,
                     !.slate = FALSE]
<1>1. /\ k0 \in Conn /\ ServerInv(k0) /\ k0.spc \in {"Read", "Past", "Write"}
      /\ c = mine /\ Waits => AnswerInv(k0, cbuf, runs)
      /\ c = mine /\ cpc = "Open" => OpenInv(k0, cbuf, runs)
  BY AtConn
<1>2. conns' = [conns EXCEPT ![c] = k] /\ UNCHANGED clientVars
  BY DEF ServerGivesUp
<1>3. cbuf \in Seq(Unit) /\ Capacity \in Nat
  BY TypeFacts DEF IInv
<1> HIDE DEF k0
<1>4. /\ k \in Conn /\ k.spc = "Failed" /\ k.client = k0.client /\ k.server = k0.server
      /\ k.down = k0.down /\ k.out = << >> /\ k.sbuf = << >>
      /\ k.answered = k0.answered /\ k.sframes = k0.sframes
  BY <1>1, UnitTypes DEF Conn
<1> HIDE DEF k
<1>5. ServerInv(k)
  BY <1>1, <1>4 DEF ServerInv
<1>6. RequestInv(k, Rest(c), c = mine /\ Waits, runs)
  BY <1>4 DEF RequestInv
<1>7. ASSUME AnswerInv(k0, cbuf, runs) PROVE AnswerInv(k, cbuf, runs)
  <2> DEFINE s == Cat(cbuf, k0.down)
  <2>1. s \in Seq(Unit) /\ k0.out \in Seq(Unit) /\ k0.down \in Seq(Unit)
    BY <1>1, <1>3, CatType, ConnTypeOK
  <2>2. Coming(cbuf, k.down, k.out) = s
    BY <1>4, <2>1, CatEmpty DEF Coming
  <2>3. Coming(cbuf, k0.down, k0.out) = Cat(s, k0.out)
    BY DEF Coming
  <2>4. k0.sframes = 0
    BY <1>1 DEF ServerInv
  <2> HIDE DEF s
  <2>5. CASE k0.spc = "Write"
    <3>1. PICK h \in Response :
            /\ Headed(Cat(s, k0.out), h, 0) /\ h.accept = k0.answered
            /\ k0.server = "ours" => h = OurAnswer(runs)
      BY <1>7, <2>3, <2>4, <2>5 DEF AnswerInv, Answered
    <3>2. Cut(s) \/ Headed(s, h, 0)
      BY <2>1, <3>1, HeadTruncated DEF AnyHead
    <3> QED BY <1>4, <2>2, <2>4, <3>1, <3>2 DEF AnswerInv, Answered
  <2>6. CASE k0.spc \in {"Read", "Past"}
    <3>1. cbuf = << >> /\ k0.down = << >>
      BY <1>7, <2>6 DEF AnswerInv
    <3>2. s = << >>
      BY <3>1, UnitTypes, CatEmpty DEF s
    <3> QED BY <1>4, <2>2, <3>2 DEF AnswerInv, Cut
  <2> QED BY <1>1, <2>5, <2>6
<1>8. OpenInv(k0, cbuf, runs) => OpenInv(k, cbuf, runs)
  BY <1>1, <1>4 DEF OpenInv
<1>9. Len(k.sbuf) <= Capacity
  BY <1>3, <1>4, EmptySeq
<1> QED BY <1>1, <1>2, <1>4, <1>5, <1>6, <1>7, <1>8, <1>9, ServerStep DEF k0

LEMMA WriteAnswerKeeps ==
  ASSUME IInv, NEW c \in 1 .. Len(conns), WriteAnswer(c)
  PROVE  IInv'
<1> DEFINE k0 == conns[c]
<1>1. /\ k0 \in Conn /\ Len(k0.sbuf) <= Capacity
      /\ ServerInv(k0) /\ RequestInv(k0, Rest(c), c = mine /\ Waits, runs)
      /\ k0.spc = "Write" /\ k0.out # << >>
      /\ c = mine /\ cpc = "Send" => k0.spc # "Write"
      /\ c = mine /\ Waits => AnswerInv(k0, cbuf, runs)
      /\ c = mine /\ cpc = "Open" => OpenInv(k0, cbuf, runs)
  BY AtConn DEF WriteAnswer
<1>2. PICK n \in 1 .. Len(k0.out) :
        conns' = [conns EXCEPT ![c].down = @ \o SubSeq(k0.out, 1, n), ![c].out = RestOf(@, n)]
  BY DEF WriteAnswer
<1> DEFINE down2 == k0.down \o SubSeq(k0.out, 1, n)
           out2  == RestOf(k0.out, n)
           k     == [k0 EXCEPT !.down = down2, !.out = out2]
<1>3. conns' = [conns EXCEPT ![c] = k] /\ UNCHANGED clientVars
  BY <1>2 DEF WriteAnswer
<1>4. cbuf \in Seq(Unit) /\ k0.down \in Seq(Unit) /\ k0.out \in Seq(Unit)
  BY <1>1, TypeFacts, ConnTypeOK DEF IInv
<1>5. /\ down2 \in Seq(Unit) /\ out2 \in Seq(Unit)
      /\ Coming(cbuf, down2, out2) = Coming(cbuf, k0.down, k0.out)
  BY <1>4, SomeSent
<1> HIDE DEF k0, down2, out2
<1>6. /\ k \in Conn /\ k.spc = "Write" /\ k.client = k0.client /\ k.server = k0.server
      /\ k.up = k0.up /\ k.down = down2 /\ k.sbuf = k0.sbuf /\ k.out = out2
      /\ k.answered = k0.answered /\ k.cframes = k0.cframes /\ k.sframes = k0.sframes
  BY <1>1, <1>5 DEF Conn
<1> HIDE DEF k
<1>7. ServerInv(k)
  BY <1>1, <1>6 DEF ServerInv
<1>8. RequestInv(k, Rest(c), c = mine /\ Waits, runs)
  BY <1>1, <1>6 DEF RequestInv
<1>9. AnswerInv(k0, cbuf, runs) => AnswerInv(k, cbuf, runs)
  BY <1>1, <1>5, <1>6 DEF AnswerInv, Answered
<1>10. OpenInv(k0, cbuf, runs) => FALSE
  BY <1>1 DEF OpenInv
<1> QED BY <1>1, <1>3, <1>6, <1>7, <1>8, <1>9, <1>10, ServerStep DEF k0

LEMMA ServerSendsKeeps ==
  ASSUME IInv, NEW c \in 1 .. Len(conns), ServerSends(c)
  PROVE  IInv'
<1> DEFINE k0    == conns[c]
           n     == k0.sframes
           down2 == Append(k0.down, Frame(n + 1))
           k     == [k0 EXCEPT !.down = down2, !.sframes = n + 1]
<1>1. /\ k0 \in Conn /\ Len(k0.sbuf) <= Capacity
      /\ ServerInv(k0) /\ RequestInv(k0, Rest(c), c = mine /\ Waits, runs)
      /\ k0.spc = "Open" /\ n < MaxFrames
      /\ c = mine /\ cpc = "Send" => k0.spc # "Open"
      /\ c = mine /\ Waits => AnswerInv(k0, cbuf, runs)
      /\ c = mine /\ cpc = "Open" => OpenInv(k0, cbuf, runs)
  BY AtConn DEF ServerSends
<1>2. conns' = [conns EXCEPT ![c] = k] /\ UNCHANGED clientVars
  BY DEF ServerSends
<1>3. cbuf \in Seq(Unit) /\ k0.down \in Seq(Unit) /\ n \in Nat /\ MaxFrames \in Nat
  BY <1>1, TypeFacts, ConnTypeOK DEF IInv
<1>4. /\ down2 \in Seq(Unit)
      /\ Cat(cbuf, k0.down) = Frames(n) => Cat(cbuf, down2) = Frames(n + 1)
      /\ \A h \in AnyHead : Headed(Coming(cbuf, k0.down, << >>), h, n) =>
                            Headed(Coming(cbuf, down2, << >>), h, n + 1)
  BY <1>3, FrameSent
<1>5. n + 1 \in 0 .. MaxFrames
  BY <1>1, <1>3
<1> HIDE DEF k0, down2
<1>6. /\ k \in Conn /\ k.spc = "Open" /\ k.client = k0.client /\ k.server = k0.server
      /\ k.up = k0.up /\ k.down = down2 /\ k.sbuf = k0.sbuf /\ k.out = k0.out
      /\ k.answered = k0.answered /\ k.cframes = k0.cframes /\ k.sframes = n + 1
  BY <1>1, <1>4, <1>5 DEF Conn
<1> HIDE DEF k
<1>7. ServerInv(k) /\ k0.out = << >>
  BY <1>1, <1>6 DEF ServerInv
<1>8. RequestInv(k, Rest(c), c = mine /\ Waits, runs)
  BY <1>1, <1>6 DEF RequestInv
<1>9. ASSUME AnswerInv(k0, cbuf, runs) PROVE AnswerInv(k, cbuf, runs)
  <2>1. PICK h \in Response :
          /\ Headed(Coming(cbuf, k0.down, << >>), h, n) /\ h.accept = k0.answered
          /\ k0.server = "ours" => h = OurAnswer(runs)
    BY <1>1, <1>7, <1>9 DEF AnswerInv, Answered
  <2>2. Headed(Coming(cbuf, k.down, k.out), h, k.sframes)
    BY <1>4, <1>6, <1>7, <2>1 DEF AnyHead
  <2> QED BY <1>6, <2>1, <2>2 DEF AnswerInv, Answered
<1>10. OpenInv(k0, cbuf, runs) => OpenInv(k, cbuf, runs)
  BY <1>4, <1>6 DEF OpenInv
<1> QED BY <1>1, <1>2, <1>6, <1>7, <1>8, <1>9, <1>10, ServerStep DEF k0

LEMMA ReadRequestKeeps ==
  ASSUME IInv, NEW c \in 1 .. Len(conns), ReadRequest(c)
  PROVE  IInv'
<1> DEFINE k0 == conns[c]
<1>1. /\ k0 \in Conn /\ Rest(c) \in Seq(Unit)
      /\ ServerInv(k0) /\ RequestInv(k0, Rest(c), c = mine /\ Waits, runs)
      /\ k0.spc = "Read"
      /\ c = mine /\ cpc = "Send" => unsent # << >> /\ Waits /\ k0.client = "ours"
      /\ c = mine /\ Waits => AnswerInv(k0, cbuf, runs) /\ k0.client = "ours"
      /\ c = mine /\ cpc = "Open" => OpenInv(k0, cbuf, runs)
  BY AtConn DEF ReadRequest
<1>2. PICK n \in FillSizes(k0.sbuf, k0.up) :
        LET buf == Filled(k0.sbuf, k0.up, n)
            cs  == [conns EXCEPT ![c].up = RestOf(@, n), ![c].slate = @ /\ ~HeadCame(buf)]
        IN  CASE ~HeadCame(buf) -> conns' = [cs EXCEPT ![c].sbuf = buf]
              [] HeadCame(buf) /\ Valid(buf[1].head) ->
                   conns' = [cs EXCEPT ![c].spc = "Write", ![c].sbuf = Leftover(Tail(buf)),
                                       ![c].answered = buf[1].head.key,
                                       ![c].out = << Part, End(OurAnswer(buf[1].head.key)) >>]
              [] HeadCame(buf) /\ ~Valid(buf[1].head) ->
                   conns' = [cs EXCEPT ![c].spc = "Invalid", ![c].sbuf = << >>, ![c].downEnd = TRUE]
  BY DEF ReadRequest
<1> DEFINE b    == k0.sbuf
           a    == k0.up
           buf  == Filled(b, a, n)
           r    == RestOf(a, n)
           key  == buf[1].head.key
           late2 == k0.slate /\ ~HeadCame(buf)
           kept == [k0 EXCEPT !.up = r, !.slate = late2, !.sbuf = buf]
           yes  == [k0 EXCEPT !.up = r, !.slate = late2, !.spc = "Write", !.sbuf = Tail(buf), !.answered = key,
                              !.out = << Part, End(OurAnswer(key)) >>]
           no   == [k0 EXCEPT !.up = r, !.slate = late2, !.spc = "Invalid", !.sbuf = << >>, !.downEnd = TRUE]
<1>3. UNCHANGED clientVars /\ cbuf \in Seq(Unit) /\ Capacity \in Nat
  BY TypeFacts DEF ReadRequest, IInv
<1>4. b \in Seq(Unit) /\ a \in Seq(Unit) /\ n \in 1 .. Len(a) /\ Len(b) + n <= Capacity
      /\ Len(b) \in Nat /\ k0.cframes \in Nat
  BY <1>1, <1>2, ConnTypeOK, LenProperties DEF FillSizes
<1>0. late2 \in BOOLEAN
  BY <1>1, ConnTypeOK
<1>5. /\ ~HeadCame(buf) => conns' = [conns EXCEPT ![c] = kept]
      /\ HeadCame(buf) /\ Valid(buf[1].head) => conns' = [conns EXCEPT ![c] = yes]
      /\ HeadCame(buf) /\ ~Valid(buf[1].head) => conns' = [conns EXCEPT ![c] = no]
  BY <1>2 DEF Leftover
\* the request is cut, or it has this head
<1>6. \/ ~(c = mine /\ Waits) /\ k0.cframes = 0 /\ Cut(Coming(b, a, Rest(c)))
      \/ \E h \in Request :
           /\ Headed(Coming(b, a, Rest(c)), h, k0.cframes)
           /\ k0.client = "ours" => Valid(h) /\ k0.cframes = 0
           /\ c = mine /\ Waits => h.key = runs
  BY <1>1 DEF RequestInv
<1>7. CASE ~(c = mine /\ Waits) /\ k0.cframes = 0 /\ Cut(Coming(b, a, Rest(c)))
  <2>1. /\ buf \in Seq(Unit) /\ r \in Seq(Unit) /\ Len(buf) = 0 /\ ~HeadCame(buf)
        /\ Cut(Coming(buf, r, Rest(c)))
    BY <1>1, <1>4, <1>7, CutParsed
  <2>2. conns' = [conns EXCEPT ![c] = kept]
    BY <1>5, <2>1
  <2> HIDE DEF k0, buf, r, late2
  <2>3. /\ kept \in Conn /\ kept.spc = "Read" /\ kept.client = k0.client /\ kept.server = k0.server
        /\ kept.sbuf = buf /\ kept.up = r /\ kept.cframes = k0.cframes /\ kept.out = k0.out
        /\ kept.sframes = k0.sframes /\ kept.down = k0.down /\ kept.answered = k0.answered
    BY <1>0, <1>1, <2>1 DEF Conn
  <2> HIDE DEF kept
  <2>4. ServerInv(kept)
    BY <1>1, <2>3 DEF ServerInv
  <2>5. RequestInv(kept, Rest(c), c = mine /\ Waits, runs)
    BY <1>7, <2>1, <2>3 DEF RequestInv
  <2>6. OpenInv(k0, cbuf, runs) => OpenInv(kept, cbuf, runs)
    BY <1>1 DEF OpenInv
  <2>7. Len(kept.sbuf) <= Capacity
    BY <1>3, <2>1, <2>3
  <2>8. kept.spc \notin {"Write", "Open"}
    BY <2>3
  <2> QED BY <1>1, <1>3, <1>7, <2>2, <2>3, <2>4, <2>5, <2>6, <2>7, <2>8, ServerStep DEF k0
<1>8. ASSUME NEW h \in Request,
             Headed(Coming(b, a, Rest(c)), h, k0.cframes),
             k0.client = "ours" => Valid(h) /\ k0.cframes = 0,
             c = mine /\ Waits => h.key = runs
      PROVE  IInv'
  <2>1. /\ buf \in Seq(Unit) /\ r \in Seq(Unit) /\ Len(buf) <= Len(b) + n
        /\ Headed(Coming(buf, r, Rest(c)), h, k0.cframes)
        /\ HeadCame(buf) =>
             /\ buf[1] = End(h) /\ Tail(buf) \in Seq(Unit) /\ Len(Tail(buf)) <= Len(b) + n
             /\ Coming(Tail(buf), r, Rest(c)) = Frames(k0.cframes)
    <3>1. h \in AnyHead
      BY DEF AnyHead
    <3> HIDE DEF k0, yes, no, kept
    <3> QED BY <1>1, <1>4, <1>8, <3>1, HeadParsed
  <2>2. CASE ~HeadCame(buf)
    <3>1. conns' = [conns EXCEPT ![c] = kept]
      BY <1>5, <2>2
    <3>2. Len(buf) <= Capacity
      <4>1. Len(buf) \in Nat
        BY <2>1, LenProperties
      <4> HIDE DEF buf, k0
      <4> QED BY <1>3, <1>4, <2>1, <4>1
    <3> HIDE DEF k0, buf, r, late2
    <3>3. /\ kept \in Conn /\ kept.spc = "Read" /\ kept.client = k0.client /\ kept.server = k0.server
          /\ kept.sbuf = buf /\ kept.up = r /\ kept.cframes = k0.cframes /\ kept.out = k0.out
          /\ kept.sframes = k0.sframes /\ kept.down = k0.down /\ kept.answered = k0.answered
      BY <1>0, <1>1, <2>1 DEF Conn
    <3> HIDE DEF kept
    <3>4. ServerInv(kept)
      BY <1>1, <3>3 DEF ServerInv
    <3>5. RequestInv(kept, Rest(c), c = mine /\ Waits, runs)
      BY <1>8, <2>1, <3>3 DEF RequestInv
    <3>6. OpenInv(k0, cbuf, runs) => OpenInv(kept, cbuf, runs)
      BY <1>1 DEF OpenInv
    <3>7. AnswerInv(k0, cbuf, runs) => AnswerInv(kept, cbuf, runs)
      BY <1>1, <3>3 DEF AnswerInv
    <3>8. Len(kept.sbuf) <= Capacity /\ kept.spc \notin {"Write", "Open"}
      BY <3>2, <3>3
    <3> QED BY <1>1, <1>3, <3>1, <3>3, <3>4, <3>5, <3>6, <3>7, <3>8, ServerStep DEF k0
  <2>3. CASE HeadCame(buf)
    <3> DEFINE t == Tail(buf)
    <3>1. /\ buf[1] = End(h) /\ t \in Seq(Unit) /\ Len(t) <= Len(b) + n
          /\ Coming(t, r, Rest(c)) = Frames(k0.cframes)
      BY <2>1, <2>3
    <3>2. buf[1].head = h
      BY <3>1, UnitTypes
    <3>3. Len(t) <= Capacity
      <4>1. Len(t) \in Nat
        BY <3>1, LenProperties
      <4> HIDE DEF t, k0
      <4> QED BY <1>3, <1>4, <3>1, <4>1
    <3>4. conns' = IF Valid(h) THEN [conns EXCEPT ![c] = yes] ELSE [conns EXCEPT ![c] = no]
      BY <1>5, <2>3, <3>2
    <3>5. key = h.key /\ h.key \in Nat /\ OurAnswer(h.key) \in Response
      BY <3>2 DEF Request, Response, OurAnswer
    <3> HIDE DEF t, k0, r, buf, late2
    \* all of the request has been sent
    <3>6. Rest(c) = << >> /\ ~(c = mine /\ cpc = "Send")
      <4>1. ASSUME c = mine, cpc = "Send" PROVE FALSE
        <5>1. k0.cframes = 0 /\ unsent # << >> /\ Rest(c) = unsent
          BY <1>1, <1>8, <4>1 DEF Rest
        <5>2. Cat(Cat(t, r), Rest(c)) = << >>
          BY <3>1, <5>1, FramesType DEF Coming
        <5>3. Cat(t, r) \in Seq(Unit)
          BY <2>1, <3>1, CatType
        <5> QED BY <1>1, <5>1, <5>2, <5>3, CatEmpty
      <4> QED BY <4>1 DEF Rest
    <3>7. Cat(t, r) = Frames(k0.cframes)
      <4>1. Cat(t, r) \in Seq(Unit)
        BY <2>1, <3>1, CatType
      <4> QED BY <3>1, <3>6, <4>1, CatEmpty DEF Coming
    <3>8. OpenInv(k0, cbuf, runs) => FALSE
      BY <1>1 DEF OpenInv
    <3>9. CASE Valid(h)
      <4> DEFINE answer == << Part, End(OurAnswer(h.key)) >>
      <4>1. answer \in Seq(Unit) /\ Headed(answer, OurAnswer(h.key), 0)
        <5>1. OurAnswer(h.key) \in AnyHead /\ Part \in Unit /\ End(OurAnswer(h.key)) \in Unit
          BY <3>5, UnitTypes DEF AnyHead
        <5>2. answer \in Seq(Unit)
          BY <5>1
        <5>3. Cat(answer, << >>) = answer
          BY <5>2, CatEmpty
        <5>4. Whole(OurAnswer(h.key), 0) = answer
          BY <5>3, FramesType DEF Whole
        <5> QED BY <5>2, <5>4 DEF Headed
      <4>2. conns' = [conns EXCEPT ![c] = yes]
        BY <3>4, <3>9
      <4>3. yes = [k0 EXCEPT !.up = r, !.slate = late2, !.spc = "Write", !.sbuf = t, !.answered = h.key, !.out = answer]
        BY <3>5 DEF t
      <4> HIDE DEF yes, answer
      <4>4. /\ yes \in Conn /\ yes.spc = "Write" /\ yes.client = k0.client /\ yes.server = k0.server
            /\ yes.sbuf = t /\ yes.up = r /\ yes.cframes = k0.cframes /\ yes.out = answer
            /\ yes.sframes = k0.sframes /\ yes.down = k0.down /\ yes.answered = h.key
        BY <1>0, <1>1, <2>1, <3>1, <3>5, <4>1, <4>3 DEF Conn
      <4>5. ServerInv(yes)
        BY <1>1, <4>4 DEF ServerInv
      <4>6. RequestInv(yes, Rest(c), c = mine /\ Waits, runs)
        BY <3>7, <4>4 DEF RequestInv
      <4>7. ASSUME c = mine, Waits PROVE AnswerInv(yes, cbuf, runs)
        <5>1. cbuf = << >> /\ k0.down = << >> /\ k0.sframes = 0 /\ h.key = runs
          BY <1>1, <1>8, <4>7 DEF AnswerInv
        <5>2. Coming(cbuf, yes.down, yes.out) = answer
          BY <4>1, <4>4, <5>1, UnitTypes, CatEmpty DEF Coming
        <5>3. OurAnswer(h.key).accept = h.key
          BY DEF OurAnswer
        <5> QED BY <3>5, <4>1, <4>4, <5>1, <5>2, <5>3 DEF AnswerInv, Answered
      <4>8. Len(yes.sbuf) <= Capacity
        BY <3>3, <4>4
      <4> QED BY <1>1, <1>3, <3>6, <3>8, <4>2, <4>4, <4>5, <4>6, <4>7, <4>8, ServerStep DEF k0
    <3>10. CASE ~Valid(h)
      <4>1. conns' = [conns EXCEPT ![c] = no] /\ k0.client # "ours"
        BY <1>8, <3>4, <3>10
      <4>2. /\ no \in Conn /\ no.spc = "Invalid" /\ no.client = k0.client /\ no.server = k0.server
            /\ no.sbuf = << >> /\ no.out = k0.out /\ no.sframes = k0.sframes
        BY <1>0, <1>1, <2>1, UnitTypes DEF Conn
      <4> HIDE DEF no
      <4>3. k0.client = "other"
        BY <1>1, <4>1 DEF Conn
      <4>4. ServerInv(no)
        BY <1>1, <4>2, <4>3 DEF ServerInv
      <4>5. RequestInv(no, Rest(c), c = mine /\ Waits, runs)
        BY <4>2 DEF RequestInv
      <4>6. Len(no.sbuf) <= Capacity
        BY <1>3, <4>2, EmptySeq
      <4> QED BY <1>1, <1>3, <3>6, <3>8, <4>1, <4>2, <4>4, <4>5, <4>6, ServerStep DEF k0
    <3> QED BY <3>9, <3>10
  <2> QED BY <2>2, <2>3
<1> QED BY <1>6, <1>7, <1>8

(* A line of the request is late.                                          *)
LEMMA LateRequestKeeps ==
  ASSUME IInv, NEW c \in 1 .. Len(conns), LateRequest(c)
  PROVE  IInv'
<1> DEFINE k0 == conns[c]
           k  == [k0 EXCEPT !.slate = TRUE]
<1>1. /\ k0 \in Conn /\ Len(k0.sbuf) <= Capacity
      /\ ServerInv(k0) /\ RequestInv(k0, Rest(c), c = mine /\ Waits, runs)
      /\ k0.spc = "Read"
      /\ c = mine /\ Waits => AnswerInv(k0, cbuf, runs)
      /\ c = mine /\ cpc = "Open" => OpenInv(k0, cbuf, runs)
  BY AtConn DEF LateRequest
<1>2. conns' = [conns EXCEPT ![c] = k] /\ UNCHANGED clientVars
  BY DEF LateRequest
<1> HIDE DEF k0
<1>3. /\ k \in Conn /\ k.spc = "Read" /\ k.client = k0.client /\ k.server = k0.server
      /\ k.up = k0.up /\ k.down = k0.down /\ k.sbuf = k0.sbuf /\ k.out = k0.out
      /\ k.cframes = k0.cframes /\ k.sframes = k0.sframes
  BY <1>1 DEF Conn
<1> HIDE DEF k
<1>4. ServerInv(k)
  BY <1>1, <1>3 DEF ServerInv
<1>5. RequestInv(k, Rest(c), c = mine /\ Waits, runs)
  BY <1>1, <1>3 DEF RequestInv
<1>6. AnswerInv(k0, cbuf, runs) => AnswerInv(k, cbuf, runs)
  BY <1>1, <1>3 DEF AnswerInv
<1>7. OpenInv(k0, cbuf, runs) => FALSE
  BY <1>1 DEF OpenInv
<1>8. Len(k.sbuf) <= Capacity /\ k.spc \notin {"Write", "Open"}
  BY <1>1, <1>3
<1> QED BY <1>1, <1>2, <1>3, <1>4, <1>5, <1>6, <1>7, <1>8, ServerStep DEF k0

(* The server takes a late line for more than it is, or reads past the     *)
(* head: it will not answer.                                               *)
LEMMA MisreadRequestKeeps ==
  ASSUME IInv, NEW c \in 1 .. Len(conns), MisreadRequest(c) \/ ReadPastRequest(c)
  PROVE  IInv'
<1> DEFINE k0 == conns[c]
<1>1. /\ k0 \in Conn /\ Len(k0.sbuf) <= Capacity /\ ServerInv(k0)
      /\ k0.spc \in {"Read", "Past"} /\ k0.slate
      /\ c = mine /\ Waits => AnswerInv(k0, cbuf, runs)
      /\ c = mine /\ cpc = "Open" => OpenInv(k0, cbuf, runs)
  <2>1. ServerInv(k0)
    BY AtConn
  <2> QED BY <2>1, AtConn DEF MisreadRequest, ReadPastRequest, ServerInv
<1>2. PICK r \in Seq(Unit), b \in Seq(Unit), next \in {"Past", "Invalid", "Failed"}, end \in BOOLEAN :
        /\ Len(b) <= Capacity
        /\ conns' = [conns EXCEPT ![c].up = r, ![c].spc = next, ![c].sbuf = b,
                                  ![c].downEnd = end]
  <2>1. k0.up \in Seq(Unit) /\ k0.sbuf \in Seq(Unit) /\ << >> \in Seq(Unit)
        /\ Len(<< >>) <= Capacity
    BY <1>1, UnitTypes, TypeFacts, ConnTypeOK DEF IInv
  <2>2. CASE MisreadRequest(c)
    <3>1. PICK n \in FillSizes(k0.sbuf, k0.up), next \in {"Past", "Invalid", "Failed"} :
            conns' = [conns EXCEPT ![c].up = RestOf(@, n), ![c].spc = next, ![c].sbuf = << >>,
                                   ![c].downEnd = next # "Past"]
      BY <2>2 DEF MisreadRequest
    <3>2. RestOf(k0.up, n) \in Seq(Unit)
      BY <2>1, TakeSome DEF FillSizes
    <3> DEFINE r == RestOf(k0.up, n)
               b == << >>
               end == next # "Past"
    <3>3. /\ r \in Seq(Unit) /\ b \in Seq(Unit) /\ end \in BOOLEAN /\ Len(b) <= Capacity
          /\ conns' = [conns EXCEPT ![c].up = r, ![c].spc = next, ![c].sbuf = b,
                                    ![c].downEnd = end]
      BY <2>1, <3>1, <3>2
    <3> HIDE DEF r, b, end
    <3> QED BY <3>3
  <2>3. CASE ReadPastRequest(c)
    <3>1. PICK next \in {"Past", "Invalid", "Failed"} :
            conns' = [conns EXCEPT ![c].up = << >>, ![c].spc = next, ![c].downEnd = next # "Past"]
      BY <2>3 DEF ReadPastRequest
    <3> DEFINE k1 == [k0 EXCEPT !.up = << >>, !.spc = next, !.downEnd = next # "Past"]
               k2 == [k0 EXCEPT !.up = << >>, !.spc = next, !.sbuf = k0.sbuf,
                                !.downEnd = next # "Past"]
    <3>2. conns' = [conns EXCEPT ![c] = k1]
      BY <3>1
    <3>3. k1 = k2
      BY <1>1 DEF Conn
    <3>4. conns' = [conns EXCEPT ![c] = k2]
      BY <3>2, <3>3
    <3> DEFINE r == << >>
               b == k0.sbuf
               end == next # "Past"
    <3>5. /\ r \in Seq(Unit) /\ b \in Seq(Unit) /\ end \in BOOLEAN /\ Len(b) <= Capacity
          /\ conns' = [conns EXCEPT ![c].up = r, ![c].spc = next, ![c].sbuf = b,
                                    ![c].downEnd = end]
      BY <1>1, <2>1, <3>4
    <3> HIDE DEF r, b, end
    <3> QED BY <3>5
  <2> QED BY <2>2, <2>3
<1> DEFINE k == [k0 EXCEPT !.up = r, !.spc = next, !.sbuf = b, !.downEnd = end]
<1>3. conns' = [conns EXCEPT ![c] = k] /\ UNCHANGED clientVars
  <2>1. conns' = [conns EXCEPT ![c] = k]
    BY <1>2
  <2>2. UNCHANGED clientVars
    BY DEF MisreadRequest, ReadPastRequest
  <2> QED BY <2>1, <2>2
<1> HIDE DEF k0
<1>4. /\ k \in Conn /\ k.spc = next /\ k.client = k0.client /\ k.server = k0.server
      /\ k.up = r /\ k.down = k0.down /\ k.sbuf = b /\ k.out = k0.out /\ k.slate
      /\ k.cframes = k0.cframes /\ k.sframes = k0.sframes
  BY <1>1, <1>2 DEF Conn
<1> HIDE DEF k
<1>5. ServerInv(k)
  BY <1>1, <1>4 DEF ServerInv
<1>6. RequestInv(k, Rest(c), c = mine /\ Waits, runs)
  BY <1>4 DEF RequestInv
<1>7. ASSUME AnswerInv(k0, cbuf, runs) PROVE AnswerInv(k, cbuf, runs)
  <2>1. cbuf = << >> /\ k0.down = << >> /\ k0.sframes = 0 /\ k0.out = << >>
    <3>1. cbuf = << >> /\ k0.down = << >> /\ k0.sframes = 0
      <4>1. k0.spc \in {"Read", "Past", "Invalid", "Other"}
        BY <1>1
      <4> QED BY <1>7, <4>1, Zenon DEF AnswerInv
    <3>2. k0.out = << >>
      BY <1>1 DEF ServerInv
    <3> QED BY <3>1, <3>2
  <2>2. Coming(<< >>, << >>, << >>) = << >>
    BY UnitTypes, CatEmpty DEF Coming
  <2>3. Coming(cbuf, k.down, k.out) = << >>
    BY <1>4, <2>1, <2>2
  <2> QED BY <1>4, <2>1, <2>3 DEF AnswerInv, Cut
<1>8. OpenInv(k0, cbuf, runs) => FALSE
  BY <1>1 DEF OpenInv
<1>9. Len(k.sbuf) <= Capacity /\ k.spc \notin {"Write", "Open"}
  BY <1>2, <1>4
<1> QED BY <1>1, <1>3, <1>4, <1>5, <1>6, <1>7, <1>8, <1>9, ServerStep DEF k0

(* A server that is not this code answers or hangs up.                     *)
LEMMA OtherServerKeeps ==
  ASSUME IInv, NEW c \in 1 .. Len(conns), OtherServer(c)
  PROVE  IInv'
<1> DEFINE k0 == conns[c]
<1>1. /\ k0 \in Conn /\ Len(k0.sbuf) <= Capacity
      /\ ServerInv(k0) /\ RequestInv(k0, Rest(c), c = mine /\ Waits, runs)
      /\ k0.spc = "Other" /\ k0.down = << >> /\ k0.sframes = 0
      /\ c = mine /\ Waits => AnswerInv(k0, cbuf, runs)
      /\ c = mine /\ cpc = "Open" => OpenInv(k0, cbuf, runs)
  BY AtConn DEF OtherServer
<1>2. UNCHANGED clientVars /\ runs \in 0 .. MaxRuns /\ MaxFrames \in Nat
  BY TypeFacts DEF OtherServer, IInv
<1>3. k0.server = "other" /\ k0.out = << >>
  BY <1>1 DEF ServerInv, Conn
<1>4. OpenInv(k0, cbuf, runs) => FALSE
  BY <1>1 DEF OpenInv
<1>5. ASSUME NEW h \in Answers(runs), NEW n \in 0 .. MaxFrames,
             conns' = [conns EXCEPT ![c].down = << Part, End(h) >> \o Frames(n),
                                    ![c].sframes = n, ![c].spc = "Answered",
                                    ![c].answered = h.accept]
      PROVE  IInv'
  <2> DEFINE down2 == Whole(h, n)
             k == [k0 EXCEPT !.down = down2, !.sframes = n, !.spc = "Answered", !.answered = h.accept]
  <2>1. h \in Response /\ h \in AnyHead /\ h.accept \in Nat /\ n \in Nat
    BY <1>2, HeadsAssumption DEF AnyHead, Response
  <2>2. conns' = [conns EXCEPT ![c] = k]
    BY <1>5 DEF Whole, Cat
  <2>3. down2 \in Seq(Unit)
    BY <2>1, HeadFirst
  <2> HIDE DEF k0, down2
  <2>4. /\ k \in Conn /\ k.spc = "Answered" /\ k.client = k0.client /\ k.server = k0.server
        /\ k.sbuf = k0.sbuf /\ k.out = k0.out /\ k.down = down2 /\ k.sframes = n
        /\ k.answered = h.accept
    BY <1>1, <2>1, <2>3 DEF Conn
  <2> HIDE DEF k
  <2>5. ServerInv(k)
    BY <1>1, <1>3, <2>4 DEF ServerInv
  <2>6. RequestInv(k, Rest(c), c = mine /\ Waits, runs)
    BY <2>4 DEF RequestInv
  <2>7. ASSUME AnswerInv(k0, cbuf, runs) PROVE AnswerInv(k, cbuf, runs)
    <3>1. cbuf = << >>
      BY <1>1, <2>7 DEF AnswerInv
    <3>2. Coming(cbuf, k.down, k.out) = down2
      BY <1>3, <2>3, <2>4, <3>1, CatEmpty DEF Coming
    <3>3. Headed(down2, h, n)
      BY DEF Headed, down2
    <3> QED BY <1>3, <2>1, <2>4, <3>2, <3>3 DEF AnswerInv, Answered
  <2>8. k.spc \notin {"Write", "Open"}
    BY <2>4
  <2> QED BY <1>1, <1>2, <1>4, <2>2, <2>4, <2>5, <2>6, <2>7, <2>8, ServerStep DEF k0
<1>6. ASSUME conns' = [conns EXCEPT ![c].downEnd = TRUE]
      PROVE  IInv'
  <2> DEFINE k == [k0 EXCEPT !.downEnd = TRUE]
  <2>1. conns' = [conns EXCEPT ![c] = k]
    BY <1>6
  <2> HIDE DEF k0
  <2>2. /\ k \in Conn /\ k.spc = "Other" /\ k.client = k0.client /\ k.server = k0.server
        /\ k.sbuf = k0.sbuf /\ k.out = k0.out /\ k.down = k0.down /\ k.sframes = k0.sframes
    BY <1>1 DEF Conn
  <2> HIDE DEF k
  <2>3. ServerInv(k)
    BY <1>1, <1>3, <2>2 DEF ServerInv
  <2>4. RequestInv(k, Rest(c), c = mine /\ Waits, runs)
    BY <2>2 DEF RequestInv
  <2>5. AnswerInv(k0, cbuf, runs) => AnswerInv(k, cbuf, runs)
    BY <1>1, <2>2 DEF AnswerInv
  <2>6. k.spc \notin {"Write", "Open"}
    BY <2>2
  <2> QED BY <1>1, <1>2, <1>4, <2>1, <2>2, <2>3, <2>4, <2>5, <2>6, ServerStep DEF k0
<1> QED BY <1>5, <1>6 DEF OtherServer

LEMMA ServerKeeps ==
  ASSUME IInv, NEW c \in 1 .. Len(conns), Server(c)
  PROVE  IInv'
<1>1. ASSUME ServerTimeout(c) \/ ReadRequestEof(c) \/ WriteFails(c) PROVE IInv'
  BY <1>1, ServerGivesUpKeeps DEF ServerTimeout, ReadRequestEof, WriteFails, ServerTimed
<1> QED BY <1>1, LateRequestKeeps, ReadRequestKeeps, MisreadRequestKeeps, WriteAnswerKeeps, UpgradedKeeps, ServerSendsKeeps DEF Server

(* A new connection: the others' invariants do not change.                 *)
LEMMA NewConnection ==
  ASSUME IInv, NEW k \in Conn, NEW m, m = Len(conns) + 1, Len(conns) < MaxConns,
         conns' = Append(conns, k),
         ServerInv(k), Len(k.sbuf) <= Capacity,
         RequestInv(k, Rest(m)', (m = mine /\ Waits)', runs), runs' = runs,
         \/ Waits /\ mine' = mine /\ cpc' = cpc /\ unsent' = unsent
         \/ ~Waits /\ (~Waits' \/ mine' = m)
  PROVE  /\ conns' \in Seq(Conn) /\ Len(conns') = m /\ Len(conns') <= MaxConns
         /\ conns'[m] = k /\ m \in 1 .. Len(conns')
         /\ \A d \in 1 .. Len(conns) : d \in 1 .. Len(conns') /\ conns'[d] = conns[d]
         /\ \A d \in 1 .. Len(conns') : ServerInv(conns'[d]) /\ UpInv(d)'
         /\ \A d \in DOMAIN conns' : conns'[d] \in Conn /\ Len(conns'[d].sbuf) <= Capacity
<1>1. /\ conns \in Seq(Conn) /\ Len(conns) \in Nat /\ MaxConns \in Nat
      /\ \A d \in 1 .. Len(conns) : conns[d] \in Conn /\ Len(conns[d].sbuf) <= Capacity
  BY TypeFacts DEF IInv
<1>2. /\ conns' \in Seq(Conn) /\ Len(conns') = m
      /\ conns'[m] = k /\ \A d \in 1 .. Len(conns) : conns'[d] = conns[d]
      /\ DOMAIN conns' = 1 .. m
  BY <1>1, AppendProperties, LenProperties
<1>3. /\ Len(conns') <= MaxConns /\ \A d \in 1 .. Len(conns) : d \in 1 .. Len(conns')
      /\ m \in 1 .. Len(conns')
  BY <1>1, <1>2
<1>4. \A d \in 1 .. m : d \in 1 .. Len(conns) \/ d = m
  BY <1>1
<1>5. ASSUME NEW d \in 1 .. Len(conns) PROVE ServerInv(conns'[d]) /\ UpInv(d)'
  <2>1. ServerInv(conns[d]) /\ RequestInv(conns[d], Rest(d), d = mine /\ Waits, runs) /\ d # m
    BY <1>1 DEF IInv, UpInv
  <2>2. Rest(d)' = Rest(d) /\ (d = mine /\ Waits)' = (d = mine /\ Waits)
    BY <2>1 DEF Rest, Waits
  <2> QED BY <1>2, <2>1, <2>2 DEF UpInv
<1>6. ServerInv(conns'[m]) /\ UpInv(m)'
  BY <1>2 DEF UpInv
<1>7. \A d \in 1 .. m : ServerInv(conns'[d]) /\ UpInv(d)'
  BY <1>4, <1>5, <1>6
<1>8. \A d \in DOMAIN conns' : conns'[d] \in Conn /\ Len(conns'[d].sbuf) <= Capacity
  BY <1>1, <1>2, <1>4
<1> QED BY <1>2, <1>3, <1>7, <1>8

LEMMA NewConnType ==
  ASSUME NEW client \in {"ours", "other"}, NEW server \in {"ours", "other"}
  PROVE  LET k == NewConn(client, server) IN
         /\ k \in Conn /\ k.client = client /\ k.server = server
         /\ k.spc = (IF server = "ours" THEN "Read" ELSE "Other")
         /\ k.up = << >> /\ k.down = << >> /\ k.sbuf = << >> /\ k.out = << >>
         /\ k.sframes = 0 /\ k.cframes = 0
BY UnitTypes, BoundsAssumption DEF NewConn, Conn

(* A client that is not this code sends a request, or a part of one.       *)
LEMMA OtherClientKeeps ==
  ASSUME IInv, OtherClient
  PROVE  IInv'
<1>0. PICK m \in Nat : m = Len(conns) + 1
  BY TypeFacts DEF IInv
<1> DEFINE k0 == NewConn("other", "ours")
<1>1. PICK h \in Requests, n \in 0 .. MaxFrames, whole \in BOOLEAN, end \in BOOLEAN :
        conns' = Append(conns,
          [k0 EXCEPT !.up      = IF whole THEN << Part, End(h) >> \o Frames(n) ELSE << Part >>,
                     !.upEnd   = end,
                     !.cframes = IF whole THEN n ELSE 0])
  BY DEF OtherClient
<1>2. /\ UNCHANGED clientVars /\ Len(conns) < MaxConns /\ Len(conns) \in Nat
      /\ cbuf \in Seq(Unit) /\ Capacity \in Nat /\ MaxFrames \in Nat /\ MaxConns \in Nat
  BY TypeFacts DEF OtherClient, IInv
<1>3. h \in Request /\ h \in AnyHead /\ n \in Nat
  BY <1>2, HeadsAssumption DEF AnyHead
<1> DEFINE up2 == IF whole THEN Whole(h, n) ELSE << Part >>
           cf2 == IF whole THEN n ELSE 0
           k   == [k0 EXCEPT !.up = up2, !.upEnd = end, !.cframes = cf2]
<1>4. conns' = Append(conns, k)
  BY <1>1 DEF Whole, Cat
<1>5. up2 \in Seq(Unit) /\ cf2 \in 0 .. MaxFrames
  BY <1>2, <1>3, HeadFirst, UnitTypes
<1>6. (cf2 = 0 /\ Cut(up2)) \/ Headed(up2, h, cf2)
  BY DEF Cut, Headed
<1>7. /\ k0 \in Conn /\ k0.client = "other" /\ k0.server = "ours" /\ k0.spc = "Read"
      /\ k0.sbuf = << >> /\ k0.out = << >> /\ k0.sframes = 0
  BY NewConnType
<1> HIDE DEF k0, up2, cf2
<1>8. /\ k \in Conn /\ k.client = "other" /\ k.server = "ours" /\ k.spc = "Read"
      /\ k.sbuf = << >> /\ k.out = << >> /\ k.sframes = 0 /\ k.up = up2 /\ k.cframes = cf2
  BY <1>5, <1>7 DEF Conn
<1> HIDE DEF k
<1>9. cpc' = cpc /\ runs' = runs /\ mine' = mine /\ unsent' = unsent /\ cbuf' = cbuf /\ late' = late
      /\ header' = header /\ redirects' = redirects
  BY <1>2 DEF clientVars
<1>10. ~(m = mine /\ Waits)' /\ Rest(m)' = << >>
  <2>1. mine \in 0 .. Len(conns)
    BY DEF IInv, Types, TypeOK
  <2>2. mine' # m
    BY <1>0, <1>2, <1>9, <2>1
  <2> QED BY <2>2 DEF Rest
<1>11. ServerInv(k) /\ Len(k.sbuf) <= Capacity
  BY <1>2, <1>8, EmptySeq DEF ServerInv
<1>12. RequestInv(k, Rest(m)', (m = mine /\ Waits)', runs)
  <2>1. Coming(k.sbuf, k.up, << >>) = up2
    BY <1>5, <1>8, CatEmpty DEF Coming
  <2> QED BY <1>3, <1>6, <1>8, <1>10, <2>1 DEF RequestInv
<1>13. \/ Waits /\ mine' = mine /\ cpc' = cpc /\ unsent' = unsent
       \/ ~Waits /\ (~Waits' \/ mine' = m)
  BY <1>9 DEF Waits
<1>14. /\ conns' \in Seq(Conn) /\ Len(conns') = m /\ Len(conns') <= MaxConns
       /\ \A d \in 1 .. Len(conns) : d \in 1 .. Len(conns') /\ conns'[d] = conns[d]
       /\ \A d \in 1 .. Len(conns') : ServerInv(conns'[d]) /\ UpInv(d)'
       /\ \A d \in DOMAIN conns' : conns'[d] \in Conn /\ Len(conns'[d].sbuf) <= Capacity
  BY <1>0, <1>2, <1>4, <1>8, <1>9, <1>11, <1>12, <1>13, NewConnection
<1>15. Types'
  <2>1. TypeOK /\ unsent \in Seq(Unit) /\ mine \in 0 .. Len(conns)
    BY DEF IInv, Types, TypeOK
  <2>2. mine \in 0 .. Len(conns')
    BY <1>0, <1>2, <1>14, <2>1
  <2> QED BY <1>2, <1>9, <1>14, <2>1, <2>2, TypesKept DEF TypeOK
<1>16. ClientInv /\ (Waits => AnswerInv(conns[mine], cbuf, runs))
       /\ (cpc = "Open" => OpenInv(conns[mine], cbuf, runs))
  BY DEF IInv
<1>17. mine \in 1 .. Len(conns) => mine \in 1 .. Len(conns') /\ conns'[mine] = conns[mine]
  BY <1>14
<1>18. ClientInv'
  BY <1>9, <1>16, <1>17 DEF ClientInv
<1>19. Waits' => AnswerInv(conns'[mine'], cbuf', runs')
  BY <1>9, <1>16, <1>17 DEF Waits, ClientInv
<1>20. cpc' = "Open" => OpenInv(conns'[mine'], cbuf', runs')
  BY <1>9, <1>16, <1>17 DEF ClientInv
<1> QED BY <1>14, <1>15, <1>18, <1>19, <1>20 DEF IInv

LEMMA RunKeeps ==
  ASSUME IInv, Run
  PROVE  IInv'
<1>1. /\ cpc \in {"Idle", "Rejected", "Failed"} /\ runs < MaxRuns
      /\ runs' = runs + 1 /\ header' = runs + 1 /\ redirects' = MaxRedirects /\ cpc' = "Connect"
      /\ mine' = mine /\ unsent' = unsent /\ cbuf' = cbuf /\ late' = late /\ conns' = conns
  BY DEF Run, HeaderKey
<1>2. ~Waits /\ ~Waits'
  BY <1>1 DEF Waits
<1>3. runs \in Nat /\ MaxRuns \in Nat /\ MaxRedirects \in Nat
  BY TypeFacts, BoundsAssumption DEF IInv
<1>4. Types'
  <2>1. TypeOK /\ unsent \in Seq(Unit) /\ cbuf \in Seq(Unit) /\ conns \in Seq(Conn)
    BY DEF IInv, Types
  <2>2. TypeOK'
    BY <1>1, <1>3, <2>1 DEF TypeOK
  <2> QED BY <1>1, <2>1, <2>2 DEF Types
<1>5. ClientInv'
  BY <1>1, <1>3 DEF ClientInv
<1>6. ASSUME NEW c \in 1 .. Len(conns) PROVE UpInv(c)'
  <2>1. RequestInv(conns[c], << >>, FALSE, runs)
    BY <1>1, <1>2 DEF IInv, UpInv, Rest
  <2>2. RequestInv(conns[c], << >>, FALSE, runs + 1)
    BY <2>1 DEF RequestInv
  <2>3. UpInv(c)' <=> RequestInv(conns[c], << >>, FALSE, runs + 1)
    BY <1>1, <1>2 DEF UpInv, Rest
  <2> QED BY <2>2, <2>3
<1> QED BY <1>1, <1>2, <1>4, <1>5, <1>6 DEF IInv

LEMMA ConnectKeeps ==
  ASSUME IInv, Connect
  PROVE  IInv'
<1>0. PICK m \in Nat : m = Len(conns) + 1
  BY TypeFacts DEF IInv
<1>1. PICK server \in {"ours", "other"} : conns' = Append(conns, NewConn("ours", server))
  BY DEF Connect
<1> DEFINE k       == NewConn("ours", server)
           request == << Part, End(OurRequest) >>
<1>2. /\ cpc = "Connect" /\ Len(conns) < MaxConns /\ mine' = Len(conns') /\ unsent' = request
      /\ cbuf' = << >> /\ cpc' = "Send" /\ runs' = runs /\ header' = header /\ redirects' = redirects
      /\ late' = FALSE
  BY DEF Connect
<1>3. /\ k \in Conn /\ k.client = "ours" /\ k.server = server
      /\ k.spc = (IF server = "ours" THEN "Read" ELSE "Other")
      /\ k.up = << >> /\ k.down = << >> /\ k.sbuf = << >> /\ k.out = << >>
      /\ k.sframes = 0 /\ k.cframes = 0
  BY NewConnType
<1>4. header = runs /\ runs > 0 /\ runs \in Nat /\ Capacity \in Nat /\ conns \in Seq(Conn)
  BY <1>2, TypeFacts DEF IInv, ClientInv
<1>5. OurRequest \in Request /\ OurRequest.key = runs /\ Valid(OurRequest)
  BY <1>4 DEF OurRequest, Request, Valid
<1>6. request \in Seq(Unit) /\ request # << >> /\ request = Whole(OurRequest, 0)
  <2>1. Part \in Unit /\ End(OurRequest) \in Unit
    BY <1>5, UnitTypes
  <2>2. request \in Seq(Unit) /\ request # << >>
    BY <2>1
  <2>3. Cat(request, << >>) = request
    BY <2>2, CatEmpty
  <2> QED BY <2>2, <2>3, FramesType DEF Whole
<1>7. conns' = Append(conns, k)
  BY <1>1
<1> HIDE DEF k, request
<1>8. ServerInv(k) /\ Len(k.sbuf) <= Capacity
  BY <1>3, <1>4, EmptySeq DEF ServerInv
<1>9. ~Waits /\ Waits'
  BY <1>2 DEF Waits
<1>10. Len(conns') = m /\ mine' = m
  BY <1>0, <1>2, <1>3, <1>4, <1>7, AppendProperties
<1>11. Rest(m)' = request /\ (m = mine /\ Waits)'
  BY <1>2, <1>9, <1>10 DEF Rest
<1>12. RequestInv(k, request, TRUE, runs)
  <2>1. Coming(k.sbuf, k.up, request) = request
    BY <1>3, <1>6, UnitTypes, CatEmpty DEF Coming
  <2>2. Headed(request, OurRequest, 0)
    BY <1>6 DEF Headed
  <2> QED BY <1>3, <1>5, <2>1, <2>2 DEF RequestInv
<1>13. RequestInv(k, Rest(m)', (m = mine /\ Waits)', runs)
  <2>1. (m = mine /\ Waits)' = TRUE
    BY <1>11
  <2> QED BY <1>11, <1>12, <2>1
<1>14. /\ conns' \in Seq(Conn) /\ Len(conns') <= MaxConns
       /\ conns'[m] = k /\ m \in 1 .. Len(conns')
       /\ \A d \in 1 .. Len(conns') : ServerInv(conns'[d]) /\ UpInv(d)'
       /\ \A d \in DOMAIN conns' : conns'[d] \in Conn /\ Len(conns'[d].sbuf) <= Capacity
  BY <1>0, <1>2, <1>3, <1>7, <1>8, <1>9, <1>10, <1>13, NewConnection
<1>15. Types'
  <2>1. TypeOK /\ << >> \in Seq(Unit) /\ Len(<< >>) <= Capacity /\ m \in 0 .. Len(conns')
    BY <1>4, <1>14, UnitTypes DEF IInv, Types
  <2> QED BY <1>2, <1>6, <1>10, <1>14, <2>1, TypesKept DEF TypeOK
<1>16. ClientInv'
  BY <1>2, <1>3, <1>4, <1>6, <1>10, <1>14 DEF ClientInv
<1>17. AnswerInv(conns'[mine'], cbuf', runs')
  BY <1>2, <1>3, <1>10, <1>14 DEF AnswerInv
<1> QED BY <1>2, <1>14, <1>15, <1>16, <1>17 DEF IInv

(* A step of the client on its connection: it is enough to look at both.   *)
LEMMA ClientStep ==
  ASSUME IInv, mine \in 1 .. Len(conns), NEW k \in Conn, conns' = [conns EXCEPT ![mine] = k],
         k.client = "ours", runs' = runs, header' = header, mine' = mine,
         redirects' \in 0 .. MaxRedirects, unsent' \in Seq(Unit),
         cbuf' \in Seq(Unit), Len(cbuf') <= Capacity,
         cpc' \in {"Connect", "Send", "Read", "Past", "Open", "Rejected", "Failed"},
         late' \in BOOLEAN, cpc' = "Past" => late',
         ServerInv(k), Len(k.sbuf) <= Capacity,
         RequestInv(k, Rest(mine)', Waits', runs),
         cpc' \in {"Connect", "Send", "Read"} => header = runs /\ runs > 0,
         cpc' = "Send" => unsent' # << >> /\ k.spc \notin {"Write", "Open"},
         cpc' = "Rejected" /\ ~late' => k.server = "other",
         Waits' => AnswerInv(k, cbuf', runs),
         cpc' = "Open" => OpenInv(k, cbuf', runs)
  PROVE  IInv'
<1>1. RequestInv(k, Rest(mine)', (mine = mine /\ Waits)', runs)
  <2>1. (mine = mine /\ Waits)' = Waits'
    BY DEF Waits
  <2> QED BY <2>1
<1>2. /\ conns' \in Seq(Conn) /\ Len(conns') = Len(conns) /\ conns'[mine] = k
      /\ \A d \in 1 .. Len(conns') : ServerInv(conns'[d]) /\ UpInv(d)'
      /\ \A d \in DOMAIN conns' : conns'[d] \in Conn /\ Len(conns'[d].sbuf) <= Capacity
  BY <1>1, OneConn
<1>3. Types'
  <2>1. TypeOK
    BY DEF IInv, Types
  <2> QED BY <1>2, <2>1, TypesKept DEF TypeOK
<1>4. ClientInv'
  BY <1>2 DEF ClientInv
<1> QED BY <1>2, <1>3, <1>4 DEF IInv

(* The client sends its request, or a part of it.                          *)
LEMMA SendRequestKeeps ==
  ASSUME IInv, SendRequest
  PROVE  IInv'
<1> DEFINE k0 == conns[mine]
<1>1. /\ cpc = "Send" /\ mine \in 1 .. Len(conns) /\ Waits
  BY DEF SendRequest, IInv, ClientInv, Waits
<1>2. PICK n \in 1 .. Len(unsent) :
        /\ conns' = [conns EXCEPT ![mine].up = @ \o SubSeq(unsent, 1, n)]
        /\ unsent' = RestOf(unsent, n)
        /\ cpc' = IF n = Len(unsent) THEN "Read" ELSE "Send"
  BY DEF SendRequest
<1> DEFINE up2 == k0.up \o SubSeq(unsent, 1, n)
           r   == RestOf(unsent, n)
           k   == [k0 EXCEPT !.up = up2]
<1>3. conns' = [conns EXCEPT ![mine] = k]
  BY <1>2
<1>4. /\ k0 \in Conn /\ Len(k0.sbuf) <= Capacity /\ ServerInv(k0)
      /\ RequestInv(k0, unsent, TRUE, runs) /\ AnswerInv(k0, cbuf, runs)
      /\ k0.client = "ours" /\ k0.spc \notin {"Write", "Open"}
  <2>1. Rest(mine) = unsent
    BY <1>1 DEF Rest
  <2>2. (mine = mine /\ Waits) = TRUE
    BY <1>1
  <2> QED BY <1>1, <2>1, <2>2, AtConn
<1>5. /\ runs' = runs /\ header' = header /\ redirects' = redirects /\ mine' = mine
      /\ cbuf' = cbuf /\ late' = late /\ late \in BOOLEAN /\ unsent \in Seq(Unit) /\ k0.up \in Seq(Unit) /\ k0.sbuf \in Seq(Unit)
  BY <1>4, ConnTypeOK, TypeFacts DEF SendRequest, IInv
<1>6. /\ up2 \in Seq(Unit) /\ r \in Seq(Unit)
      /\ Coming(k0.sbuf, up2, r) = Coming(k0.sbuf, k0.up, unsent)
      /\ n = Len(unsent) <=> r = << >>
  BY <1>5, SomeSent
<1> HIDE DEF k0, up2
<1>7. /\ k \in Conn /\ k.spc = k0.spc /\ k.client = k0.client /\ k.server = k0.server
      /\ k.up = up2 /\ k.down = k0.down /\ k.sbuf = k0.sbuf /\ k.out = k0.out /\ k.slate = k0.slate
      /\ k.answered = k0.answered /\ k.cframes = k0.cframes /\ k.sframes = k0.sframes
  BY <1>4, <1>6 DEF Conn
<1> HIDE DEF k
<1>8. unsent' = r /\ cpc' = IF r = << >> THEN "Read" ELSE "Send"
  BY <1>2, <1>6
<1> HIDE DEF r
<1>9. Rest(mine)' = r /\ (mine = mine /\ Waits)' = TRUE
  BY <1>5, <1>8 DEF Rest, Waits
<1>10. RequestInv(k, r, TRUE, runs)
  BY <1>4, <1>6, <1>7 DEF RequestInv
<1>11. ServerInv(k)
  BY <1>4, <1>7 DEF ServerInv
<1>12. AnswerInv(k, cbuf, runs)
  BY <1>4, <1>7 DEF AnswerInv, Answered
<1>13. RequestInv(k, Rest(mine)', Waits', runs)
  <2>1. Waits' = TRUE
    BY <1>8 DEF Waits
  <2> QED BY <1>9, <1>10, <2>1
<1>14. header = runs /\ runs > 0 /\ redirects \in 0 .. MaxRedirects /\ cbuf \in Seq(Unit)
       /\ Len(cbuf) <= Capacity
  BY <1>1 DEF IInv, ClientInv, Types, TypeOK
<1>15. /\ k.client = "ours" /\ Len(k.sbuf) <= Capacity
       /\ k.spc \notin {"Write", "Open"}
       /\ cpc' \in {"Send", "Read"} /\ (cpc' = "Send" => unsent' # << >>)
       /\ unsent' \in Seq(Unit) /\ conns' = [conns EXCEPT ![mine] = k]
       /\ redirects' \in 0 .. MaxRedirects /\ cbuf' \in Seq(Unit) /\ Len(cbuf') <= Capacity
  BY <1>3, <1>4, <1>5, <1>6, <1>7, <1>8, <1>14
<1>16. AnswerInv(k, cbuf', runs)
  BY <1>5, <1>12
<1> QED BY <1>1, <1>5, <1>7, <1>11, <1>13, <1>14, <1>15, <1>16, ClientStep

(* connect() fails: what it has not sent will not come.                    *)
LEMMA ClientGivesUpKeeps ==
  ASSUME IInv, cpc \in {"Connect", "Send", "Read", "Past"}, ClientGivesUp
  PROVE  IInv'
<1>1. /\ cpc' = "Failed" /\ unsent' = << >> /\ cbuf' = << >> /\ late' = FALSE
      /\ runs' = runs /\ header' = header /\ redirects' = redirects /\ mine' = mine
  BY DEF ClientGivesUp
<1>2. ~Waits' /\ \A c : Rest(c)' = << >>
  BY <1>1 DEF Waits, Rest
<1>3. /\ << >> \in Seq(Unit) /\ Len(<< >>) <= Capacity
      /\ redirects \in 0 .. MaxRedirects
  BY TypeFacts, EmptySeq DEF IInv, Types, TypeOK
<1>4. CASE cpc = "Connect"
  <2>1. conns' = conns /\ ~Waits
    BY <1>4 DEF ClientGivesUp, Waits
  <2>2. ASSUME NEW c \in 1 .. Len(conns) PROVE UpInv(c)'
    <3>1. RequestInv(conns[c], << >>, FALSE, runs)
      BY <1>4, <2>1 DEF IInv, UpInv, Rest
    <3>2. UpInv(c)' <=> RequestInv(conns[c], << >>, FALSE, runs)
      BY <1>1, <1>2, <2>1 DEF UpInv
    <3> QED BY <3>1, <3>2
  <2>3. Types'
    <3>1. TypeOK /\ conns \in Seq(Conn)
      BY DEF IInv, Types
    <3>2. TypeOK'
      BY <1>1, <1>3, <2>1, <3>1 DEF TypeOK
    <3> QED BY <1>1, <1>3, <2>1, <3>1, <3>2 DEF Types
  <2>4. ClientInv'
    BY <1>1 DEF ClientInv
  <2> QED BY <1>1, <1>2, <2>1, <2>2, <2>3, <2>4 DEF IInv
<1>5. CASE cpc \in {"Send", "Read", "Past"}
  <2> DEFINE k0 == conns[mine]
             k  == [k0 EXCEPT !.upEnd = TRUE]
  <2>1. mine \in 1 .. Len(conns) /\ (Waits \/ cpc = "Past")
    BY <1>5 DEF IInv, ClientInv, Waits
  <2>2. conns' = [conns EXCEPT ![mine] = k]
    BY <1>5 DEF ClientGivesUp
  <2>3. /\ k0 \in Conn /\ Len(k0.sbuf) <= Capacity /\ ServerInv(k0) /\ Rest(mine) \in Seq(Unit)
        /\ Waits => RequestInv(k0, Rest(mine), TRUE, runs)
        /\ cpc = "Past" => RequestInv(k0, << >>, FALSE, runs)
        /\ k0.client = "ours"
    <3>1. Waits => (mine = mine /\ Waits) = TRUE
      BY <2>1
    <3>2. cpc = "Past" => Rest(mine) = << >> /\ (mine = mine /\ Waits) = FALSE
      BY DEF Rest, Waits
    <3>3. conns[mine].client = "ours"
      BY <1>5 DEF IInv, ClientInv
    <3> QED BY <2>1, <3>1, <3>2, <3>3, AtConn
  <2> HIDE DEF k0
  <2>4. /\ k \in Conn /\ k.spc = k0.spc /\ k.client = k0.client /\ k.server = k0.server
        /\ k.up = k0.up /\ k.sbuf = k0.sbuf /\ k.out = k0.out /\ k.slate = k0.slate
        /\ k.cframes = k0.cframes /\ k.sframes = k0.sframes
    BY <2>3 DEF Conn
  <2> HIDE DEF k
  <2>5. ServerInv(k)
    BY <2>3, <2>4 DEF ServerInv
  <2>6. RequestInv(k, << >>, FALSE, runs)
    <3>1. CASE k0.spc = "Read" /\ Waits
      <4> DEFINE s == Cat(k0.sbuf, k0.up)
      <4>1. s \in Seq(Unit)
        BY <2>3, ConnTypeOK, CatType
      <4>2. PICK h \in Request :
              /\ Headed(Cat(s, Rest(mine)), h, k0.cframes)
              /\ Valid(h) /\ k0.cframes = 0
        BY <2>3, <3>1 DEF RequestInv, Coming
      <4> HIDE DEF s
      <4>3. Cut(s) \/ Headed(s, h, 0)
        BY <2>3, <4>1, <4>2, HeadTruncated DEF AnyHead
      <4>4. Coming(k.sbuf, k.up, << >>) = s
        BY <2>4, <4>1, CatEmpty DEF Coming, s
      <4> QED BY <2>4, <3>1, <4>2, <4>3, <4>4 DEF RequestInv
    <3>2. CASE k0.spc # "Read" /\ Waits
      BY <2>3, <2>4, <3>2 DEF RequestInv
    <3>3. CASE cpc = "Past"
      BY <2>3, <2>4, <3>3 DEF RequestInv
    <3> QED BY <2>1, <3>1, <3>2, <3>3
  <2>7. RequestInv(k, Rest(mine)', Waits', runs)
    <3>1. Waits' = FALSE /\ Rest(mine)' = << >>
      BY <1>1, <1>2 DEF Rest, Waits
    <3> QED BY <2>6, <3>1
  <2>8. k.client = "ours" /\ Len(k.sbuf) <= Capacity
    BY <2>3, <2>4
  <2> QED BY <1>1, <1>2, <1>3, <2>1, <2>2, <2>4, <2>5, <2>7, <2>8, ClientStep
<1> QED BY <1>4, <1>5

LEMMA ClientSendsKeeps ==
  ASSUME IInv, ClientSends
  PROVE  IInv'
<1> DEFINE k0  == conns[mine]
           n   == k0.cframes
           up2 == Append(k0.up, Frame(n + 1))
           k   == [k0 EXCEPT !.up = up2, !.cframes = n + 1]
<1>1. /\ cpc = "Open" /\ mine \in 1 .. Len(conns) /\ n < MaxFrames
      /\ conns' = [conns EXCEPT ![mine] = k] /\ UNCHANGED clientVars
  BY DEF ClientSends, IInv, ClientInv
<1>2. /\ k0 \in Conn /\ Len(k0.sbuf) <= Capacity /\ ServerInv(k0)
      /\ RequestInv(k0, Rest(mine), mine = mine /\ Waits, runs)
      /\ OpenInv(k0, cbuf, runs) /\ ~Waits
  BY <1>1, AtConn DEF Waits
<1>3. k0.sbuf \in Seq(Unit) /\ k0.up \in Seq(Unit) /\ n \in Nat /\ MaxFrames \in Nat
  BY <1>2, TypeFacts, ConnTypeOK DEF IInv
<1>4. /\ up2 \in Seq(Unit)
      /\ Cat(k0.sbuf, k0.up) = Frames(n) => Cat(k0.sbuf, up2) = Frames(n + 1)
      /\ \A h \in AnyHead : Headed(Coming(k0.sbuf, k0.up, << >>), h, n) =>
                            Headed(Coming(k0.sbuf, up2, << >>), h, n + 1)
  BY <1>3, FrameSent
<1>5. n + 1 \in 0 .. MaxFrames
  BY <1>1, <1>3
<1> HIDE DEF k0, up2
<1>6. /\ k \in Conn /\ k.spc = k0.spc /\ k.client = k0.client /\ k.server = k0.server
      /\ k.up = up2 /\ k.down = k0.down /\ k.sbuf = k0.sbuf /\ k.out = k0.out /\ k.slate = k0.slate
      /\ k.answered = k0.answered /\ k.cframes = n + 1 /\ k.sframes = k0.sframes
  BY <1>2, <1>4, <1>5 DEF Conn
<1> HIDE DEF k
<1>7. ServerInv(k)
  BY <1>2, <1>6 DEF ServerInv
<1>8. RequestInv(k, Rest(mine), mine = mine /\ Waits, runs)
  BY <1>2, <1>4, <1>6 DEF RequestInv, OpenInv
<1>9. OpenInv(k, cbuf, runs)
  BY <1>2, <1>6 DEF OpenInv
<1> QED BY <1>1, <1>2, <1>6, <1>7, <1>8, <1>9, ServerStep DEF k0

(* The client reads its answer, or a part of it.                           *)
LEMMA ReadAnswerKeeps ==
  ASSUME IInv, ReadAnswer
  PROVE  IInv'
<1> DEFINE k0 == conns[mine]
<1>1. /\ cpc = "Read" /\ mine \in 1 .. Len(conns) /\ Waits
      /\ runs' = runs /\ header' = header /\ mine' = mine /\ unsent' = unsent
  BY DEF ReadAnswer, IInv, ClientInv, Waits
<1>2. PICK n \in FillSizes(cbuf, k0.down) :
        LET buf  == Filled(cbuf, k0.down, n)
            next == IF HeadCame(buf) THEN Outcome(buf[1].head) ELSE "Read"
        IN  /\ cpc'       = next
            /\ late'      = (late /\ next = "Read")
            /\ cbuf'      = IF next = "Open" THEN Tail(buf) ELSE IF next = "Read" THEN buf ELSE << >>
            /\ redirects' = IF next = "Connect" THEN redirects - 1 ELSE redirects
            /\ conns'     = [conns EXCEPT ![mine].down  = RestOf(@, n),
                                          ![mine].upEnd = next \notin {"Read", "Open"}]
  BY DEF ReadAnswer
<1> DEFINE a    == k0.down
           buf  == Filled(cbuf, a, n)
           r    == RestOf(a, n)
           next == IF HeadCame(buf) THEN Outcome(buf[1].head) ELSE "Read"
           k    == [k0 EXCEPT !.down = r, !.upEnd = next \notin {"Read", "Open"}]
           tail == Tail(buf)
<1>3. /\ cpc' = next /\ late' = (late /\ next = "Read")
      /\ cbuf' = IF next = "Open" THEN tail ELSE IF next = "Read" THEN buf ELSE << >>
      /\ redirects' = IF next = "Connect" THEN redirects - 1 ELSE redirects
      /\ conns' = [conns EXCEPT ![mine] = k]
  BY <1>2
<1>4. /\ k0 \in Conn /\ Len(k0.sbuf) <= Capacity /\ ServerInv(k0) /\ AnswerInv(k0, cbuf, runs)
      /\ RequestInv(k0, << >>, TRUE, runs) /\ k0.client = "ours"
  <2>1. Rest(mine) = << >> /\ (mine = mine /\ Waits) = TRUE
    BY <1>1 DEF Rest
  <2> QED BY <1>1, <2>1, AtConn
<1>5. /\ cbuf \in Seq(Unit) /\ a \in Seq(Unit) /\ k0.out \in Seq(Unit) /\ Capacity \in Nat
      /\ n \in 1 .. Len(a) /\ Len(cbuf) + n <= Capacity /\ Len(cbuf) \in Nat /\ k0.sframes \in Nat
      /\ unsent \in Seq(Unit) /\ header = runs /\ runs > 0
      /\ redirects \in 0 .. MaxRedirects /\ MaxRedirects \in Nat
  BY <1>1, <1>2, <1>4, TypeFacts, ConnTypeOK, LenProperties, BoundsAssumption
     DEF FillSizes, IInv, ClientInv, Types, TypeOK
<1>6. next \in {"Connect", "Read", "Open", "Rejected", "Failed"}
  BY DEF Outcome
<1> HIDE DEF k0, a, buf, r, next
<1>7. k0.spc \notin {"Read", "Past", "Invalid", "Other"} /\ r \in Seq(Unit)
  <2>1. Len(a) # 0 /\ r \in Seq(Unit)
    BY <1>5, TakeSome DEF r
  <2>2. a # << >>
    BY <2>1, EmptySeq
  <2> QED BY <1>4, <2>1, <2>2 DEF AnswerInv, a
<1>8. /\ k \in Conn /\ k.spc = k0.spc /\ k.client = "ours" /\ k.server = k0.server
      /\ k.up = k0.up /\ k.down = r /\ k.sbuf = k0.sbuf /\ k.out = k0.out /\ k.slate = k0.slate
      /\ k.answered = k0.answered /\ k.cframes = k0.cframes /\ k.sframes = k0.sframes
  BY <1>4, <1>7 DEF Conn
<1> HIDE DEF k
<1>9. ServerInv(k) /\ Len(k.sbuf) <= Capacity
  BY <1>4, <1>8 DEF ServerInv
<1>10. RequestInv(k, Rest(mine)', Waits', runs)
  <2>1. Rest(mine)' = << >>
    BY <1>1, <1>3, <1>6 DEF Rest
  <2>2. ASSUME NEW w PROVE RequestInv(k, << >>, w, runs)
    BY <1>4, <1>8 DEF RequestInv
  <2> QED BY <2>1, <2>2
<1>11. redirects' \in 0 .. MaxRedirects
  <2>1. next = "Connect" => redirects > 0
    BY DEF next, Outcome
  <2> QED BY <1>3, <1>5, <2>1
\* what has been read of the answer
<1>12. \/ Cut(Coming(cbuf, a, k0.out)) /\ k0.spc = "Failed"
       \/ Answered(k0, Coming(cbuf, a, k0.out), runs)
  BY <1>4, <1>7, ConnTypeOK DEF AnswerInv, a
<1>13. /\ buf \in Seq(Unit) /\ Len(buf) <= Capacity
       /\ next = "Read" => AnswerInv(k, buf, runs)
       /\ next = "Open" => tail \in Seq(Unit) /\ Len(tail) <= Capacity /\ OpenInv(k, tail, runs)
       /\ next = "Rejected" => k.server = "other"
  <2>1. CASE Cut(Coming(cbuf, a, k0.out)) /\ k0.spc = "Failed"
    <3>1. buf \in Seq(Unit) /\ Len(buf) = 0 /\ ~HeadCame(buf) /\ Cut(Coming(buf, r, k0.out))
      BY <1>5, <2>1, CutParsed DEF buf, r
    <3>2. next = "Read"
      BY <3>1 DEF next
    <3>3. AnswerInv(k, buf, runs)
      BY <1>8, <2>1, <3>1 DEF AnswerInv
    <3> QED BY <1>5, <3>1, <3>2, <3>3
  <2>2. CASE Answered(k0, Coming(cbuf, a, k0.out), runs)
    <3>1. PICK h \in Response :
            /\ Headed(Coming(cbuf, a, k0.out), h, k0.sframes) /\ h.accept = k0.answered
            /\ k0.server = "ours" => h = OurAnswer(runs)
      BY <2>2 DEF Answered
    <3>2. h \in AnyHead
      BY DEF AnyHead
    <3>3. /\ buf \in Seq(Unit) /\ Len(buf) <= Len(cbuf) + n
          /\ Headed(Coming(buf, r, k0.out), h, k0.sframes)
          /\ HeadCame(buf) => /\ buf[1] = End(h) /\ tail \in Seq(Unit) /\ Len(tail) <= Len(cbuf) + n
                              /\ Coming(tail, r, k0.out) = Frames(k0.sframes)
      BY <1>5, <3>1, <3>2, HeadParsed DEF buf, r
    <3> HIDE DEF tail
    <3>4. Len(buf) <= Capacity /\ (HeadCame(buf) => Len(tail) <= Capacity)
      <4>1. Len(buf) \in Nat /\ (HeadCame(buf) => Len(tail) \in Nat)
        BY <3>3, LenProperties
      <4> QED BY <1>5, <3>3, <4>1
    <3>5. AnswerInv(k, buf, runs)
      <4>1. Answered(k, Coming(buf, r, k0.out), runs)
        BY <1>8, <3>1, <3>3 DEF Answered
      <4> QED BY <1>7, <1>8, <4>1 DEF AnswerInv
    <3>6. HeadCame(buf) => next = Outcome(h)
      BY <3>3, UnitTypes DEF next
    <3>7. ASSUME next = "Open" PROVE HeadCame(buf) /\ OpenInv(k, tail, runs)
      <4>1. HeadCame(buf) /\ Outcome(h) = "Open"
        BY <3>6, <3>7 DEF next
      <4>2. h.accept = runs
        BY <4>1 DEF Outcome, Accepts
      <4>3. Coming(tail, r, k0.out) = Frames(k0.sframes) /\ tail \in Seq(Unit)
        BY <3>3, <4>1
      <4>4. Cat(tail, r) \in Seq(Unit)
        BY <1>7, <4>3, CatType
      <4>5. k0.out = << >>
        <5>1. k0.spc = "Write" => k0.sframes = 0
          BY <1>4 DEF ServerInv
        <5>2. ASSUME k0.sframes = 0 PROVE k0.out = << >>
          <6>1. Cat(Cat(tail, r), k0.out) = << >>
            BY <4>3, <5>2, FramesType DEF Coming
          <6> QED BY <1>5, <4>4, <6>1, CatEmpty
        <5> QED BY <1>4, <5>1, <5>2 DEF ServerInv
      <4>6. Cat(tail, r) = Frames(k0.sframes)
        BY <4>3, <4>4, <4>5, CatEmpty DEF Coming
      <4>7. k0.spc \in {"Write", "Open", "Failed", "Answered"}
        BY <1>4, <1>7, ConnTypeOK
      <4> QED BY <1>8, <3>1, <4>1, <4>2, <4>5, <4>6, <4>7 DEF OpenInv
    <3>8. ASSUME next = "Rejected" PROVE k.server = "other"
      <4>1. Outcome(h) = "Rejected"
        BY <3>6, <3>8 DEF next
      <4>2. Outcome(OurAnswer(runs)) = "Open"
        BY DEF Outcome, OurAnswer, Accepts
      <4>3. k0.server # "ours"
        BY <3>1, <4>1, <4>2
      <4> QED BY <1>4, <1>8, <4>3 DEF Conn
    <3> QED BY <3>3, <3>4, <3>5, <3>7, <3>8
  <2> QED BY <1>12, <2>1, <2>2
<1> HIDE DEF tail
<1>14. cbuf' \in Seq(Unit) /\ Len(cbuf') <= Capacity
  <2>1. << >> \in Seq(Unit) /\ Len(<< >>) <= Capacity
    BY <1>5, EmptySeq
  <2> QED BY <1>3, <1>13, <2>1
<1>15. /\ Waits' => AnswerInv(k, cbuf', runs)
       /\ cpc' = "Open" => OpenInv(k, cbuf', runs)
       /\ cpc' = "Rejected" => k.server = "other"
  BY <1>3, <1>6, <1>13 DEF Waits
<1>16. /\ cpc' \in {"Connect", "Send", "Read", "Open", "Rejected", "Failed"} /\ cpc' # "Send"
       /\ unsent' \in Seq(Unit) /\ conns' = [conns EXCEPT ![mine] = k] /\ header = runs /\ runs > 0
  BY <1>1, <1>3, <1>5, <1>6
<1>17. late' \in BOOLEAN /\ cpc' # "Past"
  BY <1>3, <1>6, TypeFacts DEF IInv
<1> QED BY <1>1, <1>8, <1>9, <1>10, <1>11, <1>14, <1>15, <1>16, <1>17, ClientStep

(* A line of the answer is late.                                           *)
LEMMA LateAnswerKeeps ==
  ASSUME IInv, LateAnswer
  PROVE  IInv'
<1>1. /\ cpc' = cpc /\ runs' = runs /\ header' = header /\ redirects' = redirects /\ mine' = mine
      /\ unsent' = unsent /\ cbuf' = cbuf /\ conns' = conns /\ late' = TRUE
  BY DEF LateAnswer
<1>2. Types'
  BY <1>1 DEF IInv, Types, TypeOK
<1>3. ClientInv'
  BY <1>1 DEF IInv, ClientInv
<1>4. \A c \in 1 .. Len(conns) : UpInv(c)' = UpInv(c)
  BY <1>1 DEF UpInv, Rest, Waits
<1> QED BY <1>1, <1>2, <1>3, <1>4 DEF IInv, Waits

(* The client takes a late line for more than it is, or reads past the     *)
(* head: what becomes of it is not Open, and nothing else is promised.     *)
LEMMA MisreadAnswerKeeps ==
  ASSUME IInv, MisreadAnswer \/ ReadPastAnswer
  PROVE  IInv'
<1> DEFINE k0 == conns[mine]
<1>1. /\ cpc \in {"Read", "Past"} /\ mine \in 1 .. Len(conns) /\ late
      /\ runs' = runs /\ header' = header /\ mine' = mine /\ unsent' = unsent
      /\ redirects' = redirects /\ late' = late /\ k0.client = "ours"
  BY DEF MisreadAnswer, ReadPastAnswer, IInv, ClientInv
<1>2. PICK r \in Seq(Unit), next \in {"Past", "Rejected", "Failed"}, end \in BOOLEAN :
        /\ cpc' = next
        /\ conns' = [conns EXCEPT ![mine].down = r, ![mine].upEnd = end]
  <2>1. CASE MisreadAnswer
    <3>1. PICK n \in FillSizes(cbuf, k0.down), next \in {"Past", "Rejected", "Failed"} :
            /\ cpc' = next
            /\ conns' = [conns EXCEPT ![mine].down = RestOf(@, n), ![mine].upEnd = next # "Past"]
      BY <2>1 DEF MisreadAnswer
    <3>2. k0.down \in Seq(Unit) /\ n \in 1 .. Len(k0.down)
      BY <1>1, TypeFacts, ConnTypeOK DEF FillSizes, IInv
    <3>3. RestOf(k0.down, n) \in Seq(Unit)
      BY <3>2, TakeSome
    <3> DEFINE r   == RestOf(k0.down, n)
               end == next # "Past"
    <3>4. /\ r \in Seq(Unit) /\ end \in BOOLEAN /\ cpc' = next
          /\ conns' = [conns EXCEPT ![mine].down = r, ![mine].upEnd = end]
      BY <3>1, <3>3
    <3> HIDE DEF r, end
    <3> QED BY <3>4
  <2>2. CASE ReadPastAnswer
    <3>1. PICK next \in {"Past", "Rejected", "Failed"} :
            /\ cpc' = next
            /\ conns' = [conns EXCEPT ![mine].down = << >>, ![mine].upEnd = next # "Past"]
      BY <2>2 DEF ReadPastAnswer
    <3> DEFINE r   == << >>
               end == next # "Past"
    <3>2. /\ r \in Seq(Unit) /\ end \in BOOLEAN /\ cpc' = next
          /\ conns' = [conns EXCEPT ![mine].down = r, ![mine].upEnd = end]
      BY <3>1, UnitTypes
    <3> HIDE DEF r, end
    <3> QED BY <3>2
  <2> QED BY <2>1, <2>2
<1> DEFINE k == [k0 EXCEPT !.down = r, !.upEnd = end]
<1>3. conns' = [conns EXCEPT ![mine] = k]
  BY <1>2
<1>4. /\ k0 \in Conn /\ Len(k0.sbuf) <= Capacity /\ ServerInv(k0)
      /\ RequestInv(k0, << >>, mine = mine /\ Waits, runs)
  <2>1. Rest(mine) = << >>
    BY <1>1 DEF Rest
  <2> QED BY <1>1, <2>1, AtConn
<1> HIDE DEF k0
<1>5. /\ k \in Conn /\ k.spc = k0.spc /\ k.client = "ours" /\ k.server = k0.server
      /\ k.up = k0.up /\ k.sbuf = k0.sbuf /\ k.out = k0.out /\ k.slate = k0.slate
      /\ k.cframes = k0.cframes /\ k.sframes = k0.sframes
  BY <1>1, <1>4 DEF Conn
<1> HIDE DEF k
<1>6. ServerInv(k) /\ Len(k.sbuf) <= Capacity
  BY <1>1, <1>4, <1>5 DEF ServerInv
<1>7. ~Waits' /\ cpc' \in {"Past", "Rejected", "Failed"} /\ Rest(mine)' = << >>
  <2>1. cpc' \in {"Past", "Rejected", "Failed"}
    BY <1>2
  <2> QED BY <1>1, <2>1 DEF Waits, Rest
<1>8. RequestInv(k, << >>, FALSE, runs)
  BY <1>1, <1>4, <1>5 DEF RequestInv
<1>9. RequestInv(k, Rest(mine)', Waits', runs)
  <2>1. Waits' = FALSE
    BY <1>7 DEF Waits
  <2> QED BY <1>7, <1>8, <2>1
<1>10. /\ redirects' \in 0 .. MaxRedirects /\ unsent' \in Seq(Unit) /\ cbuf' \in Seq(Unit)
       /\ Len(cbuf') <= Capacity /\ late'
  <2>1. cbuf' = << >> \/ cbuf' = cbuf
    BY DEF MisreadAnswer, ReadPastAnswer
  <2>2. << >> \in Seq(Unit) /\ Len(<< >>) <= Capacity
    BY UnitTypes, TypeFacts DEF IInv
  <2>3. /\ redirects \in 0 .. MaxRedirects /\ unsent \in Seq(Unit) /\ cbuf \in Seq(Unit)
        /\ Len(cbuf) <= Capacity
    BY DEF IInv, Types, TypeOK
  <2> QED BY <1>1, <2>1, <2>2, <2>3
<1> QED BY <1>1, <1>3, <1>5, <1>6, <1>7, <1>9, <1>10, ClientStep

LEMMA ClientKeeps == ASSUME IInv, Client PROVE IInv'
<1>1. ASSUME ReadAnswerEof \/ ClientTimeout PROVE IInv'
  BY <1>1, ClientGivesUpKeeps DEF ReadAnswerEof, ClientTimeout, Running
<1> QED BY <1>1, RunKeeps, ConnectKeeps, SendRequestKeeps, LateAnswerKeeps, ReadAnswerKeeps,
           MisreadAnswerKeeps, ClientSendsKeeps
        DEF Client

LEMMA StutterKeeps == ASSUME IInv, UNCHANGED vars PROVE IInv'
BY DEF vars, clientVars, IInv, Types, TypeOK, ClientInv, ServerInv, UpInv, Rest, Waits, RequestInv,
       AnswerInv, OpenInv, Answered, Accepts

-----------------------------------------------------------------------------
(* The theorems.                                                           *)

(* The invariant: at each end of each connection of connect() and          *)
(* handle_upgrade() there is still to come a head, or what is left of one, *)
(* and then the frames sent, or the frames alone, until that end fails or  *)
(* reads past the head.                                                    *)
THEOREM UpgradeInvariance == Spec => []IInv
<1>1. ASSUME IInv, [Next]_vars PROVE IInv'
  <2>1. ASSUME NEW c \in 1 .. Len(conns), Server(c) \/ OtherServer(c) PROVE IInv'
    BY <1>1, <2>1, ServerKeeps, OtherServerKeeps
  <2> QED BY <1>1, <2>1, ClientKeeps, OtherClientKeeps, StutterKeeps DEF Next
<1> QED BY InitIInv, <1>1, PTL DEF Spec

(* An open client was answered for the key of this run (check_header! in   *)
(* connect()), and a server of this code has written all of that answer.   *)
THEOREM EndsAgree == Spec => []OpenMeansAgreed
<1>1. IInv => OpenMeansAgreed
  BY DEF IInv, Types, OpenMeansAgreed, OpenInv
<1> QED BY <1>1, UpgradeInvariance, PTL

(* The frames that came with a head are those the other end sent, in order *)
(* (BufReader::into_parts and from_parts in handle_upgrade()).             *)
THEOREM FramesKept == Spec => []NoFrameLost
<1>1. ASSUME IInv PROVE NoFrameLost
  <2>1. ASSUME cpc = "Open" PROVE Cat(cbuf, conns[mine].down) = Frames(conns[mine].sframes)
    BY <1>1, <2>1 DEF IInv, OpenInv
  <2>2. ASSUME NEW c \in DOMAIN conns, conns[c].spc = "Open"
        PROVE  Cat(conns[c].sbuf, conns[c].up) = Frames(conns[c].cframes)
    <3>1. c \in 1 .. Len(conns)
      BY <1>1, TypeFacts DEF IInv
    <3> QED BY <1>1, <2>2, <3>1 DEF IInv, UpInv, RequestInv
  <2> QED BY <2>1, <2>2 DEF NoFrameLost, Cat
<1> QED BY <1>1, UpgradeInvariance, PTL

(* A head of connect() or handle_upgrade() of which no line is late is not *)
(* rejected by the other: what they write passes their own checks.         *)
THEOREM NoneRejected == Spec => []NeverRejected
<1>1. ASSUME IInv PROVE NeverRejected
  <2>1. DOMAIN conns = 1 .. Len(conns)
    BY <1>1, TypeFacts DEF IInv
  <2> QED BY <1>1, <2>1 DEF IInv, ClientInv, ServerInv, NeverRejected
<1> QED BY <1>1, UpgradeInvariance, PTL
=============================================================================
