---------------------------- MODULE TlsConnProofs ----------------------------
(***************************************************************************)
(* Proofs about TlsConn: whatever the socket takes and gives, and however  *)
(* the two halves interleave, ciphertext is written in order and complete, *)
(* and what is read is the server's data in order and complete.            *)
(***************************************************************************)
EXTENDS TlsConn, WellFoundedInduction, TLAPS

-----------------------------------------------------------------------------
(* The invariant.                                                          *)

ConnectStates == {"Poll", "ConnectWrite", "ConnectRead"}

Shape ==
  /\ peer \in Peers /\ arrived \in 0 .. Len(peer.kinds) /\ fin \in BOOLEAN
  /\ tls \in Session /\ tls.taken <= tls.produced
  /\ inbox \in Seq(1 .. arrived) /\ rbuf \in Seq(1 .. arrived)
  /\ wire \in Seq(Nat) /\ wbuf \in Seq(Nat) /\ delivered \in Seq(Nat)
  /\ Len(rbuf) <= BufCapacity /\ Len(wbuf) <= BufSize
  /\ ask \in Nat /\ wrote \in Nat

(* t has taken in and passed on what s has.                                *)
SameReader(s, t) ==
  t.fed = s.fed /\ t.plain = s.plain /\ t.closed = s.closed /\ t.broken = s.broken

(* Where the calls are, and who has the connection.                        *)
Calls ==
  /\ phase \in {"Connecting", "Whole", "Split", "Failed"}
  /\ rpc \in ConnectStates \cup {"Idle", "Recv", "Fill"}
  /\ wpc \in {"Idle", "Send", "Write", "Flush"}
  /\ rpc \in ConnectStates <=> phase = "Connecting"
  /\ rpc = "Recv" => phase = "Whole"
  /\ rpc = "Fill" => phase = "Split"
  /\ wpc = "Send" => phase = "Whole"
  /\ wpc \in {"Write", "Flush"} => phase = "Split"
  /\ wbuf # << >> <=> wpc \in {"Write", "Flush"}
  /\ phase # "Split" => rbuf = << >>

Increasing(s) == \A i, j \in 1 .. Len(s) : i < j => s[i] < s[j]
Within(s, n)  == \A i \in 1 .. Len(s) : s[i] <= n

(* What the socket was or is being given.                                  *)
Given == wire \o wbuf

Ciphertext ==
  /\ Increasing(Given) /\ Within(Given, tls.taken)
  /\ ~cut => Given = UpTo(tls.taken)

(* A session that was given the first units of kinds, when d of its        *)
(* plaintext has been read.                                                *)
Fed(kinds, s, d) ==
  /\ s.fed <= Len(kinds)
  /\ d \o s.plain = DataAmong(kinds)[s.fed]
  /\ \A v \in 1 .. s.fed : Closes(kinds, v) => v = s.fed /\ (s.closed \/ s.broken)
  /\ s.closed => s.fed # 0 /\ kinds[s.fed] = "CloseNotify"
  /\ s.broken => s.fed # 0 /\ kinds[s.fed] = "Bad"

GoesOn(s) == ~s.closed /\ ~s.broken

(* The units after the first m, up to the nth.                             *)
Run(m, n) == [i \in 1 .. n - m |-> m + i]

Plaintext ==
  /\ fin => arrived = Len(peer.kinds)
  /\ rpc \in {"Recv", "Fill"} => tls.plain = << >>
  /\ rpc = "Recv" => GoesOn(tls)
  /\ ~lost =>
       /\ Fed(peer.kinds, tls, delivered)
       /\ GoesOn(tls) => tls.fed <= arrived /\ rbuf \o inbox = Run(tls.fed, arrived)
       /\ rres = "End" => delivered = DataUnits

IInv == Shape /\ Calls /\ Ciphertext /\ Plaintext

-----------------------------------------------------------------------------
(* Induction and recursion.                                                *)

(* A set of natural numbers that is not empty has a least element.         *)
LEMMA LeastNatural ==
  ASSUME NEW T, T \subseteq Nat, T # {}
  PROVE  \E n \in T : \A m \in T : n <= m
<1> DEFINE R == OpToRel(<, Nat)
<1>1. \E n \in T : \A m \in T : ~(<< m, n >> \in R)
  <2> HIDE DEF R
  <2>1. IsWellFoundedOn(R, Nat)
    BY NatLessThanWellFounded DEF R
  <2> QED BY <2>1, WFMin
<1>2. \A m, n \in Nat : m < n => << m, n >> \in R
  BY DEF OpToRel
<1>3. PICK n \in T : \A m \in T : ~(<< m, n >> \in R)
  BY <1>1
<1> HIDE DEF R
<1>4. ASSUME NEW m \in T PROVE n <= m
  <2>1. m \in Nat /\ n \in Nat
    OBVIOUS
  <2>2. ~(m < n)
    BY <1>2, <1>3, <2>1
  <2> QED BY <2>1, <2>2
<1> QED BY <1>4

(* What holds of 0 and passes to the next number holds of all.             *)
LEMMA NatSetInduction ==
  ASSUME NEW T, T \subseteq Nat, 0 \in T, \A n \in Nat : n \in T => n + 1 \in T
  PROVE  T = Nat
<1> SUFFICES ASSUME Nat \ T # {} PROVE FALSE
  OBVIOUS
<1> DEFINE S == Nat \ T
<1>1. \E n \in S : \A m \in S : n <= m
  <2>1. S \subseteq Nat /\ S # {}
    OBVIOUS
  <2> HIDE DEF S
  <2> QED BY <2>1, LeastNatural
<1>2. PICK n \in Nat \ T : \A m \in Nat \ T : n <= m
  BY <1>1
<1>3. n # 0 /\ n - 1 \in Nat /\ ~(n <= n - 1) /\ n - 1 + 1 = n
  BY <1>2
<1>4. n - 1 \in T
  BY <1>2, <1>3
<1> QED BY <1>2, <1>3, <1>4

(* f goes from a in k steps, the nth of them by step[n].                   *)
Goes(f, S, a, step, k) ==
  f \in [0 .. k -> S] /\ f[0] = a /\ \A n \in 1 .. k : f[n] = step[n][f[n - 1]]

Steps(S, k) == [1 .. k -> [S -> S]]

LEMMA RecursionExists ==
  ASSUME NEW S, NEW a \in S, NEW L \in Nat, NEW G \in Steps(S, L)
  PROVE  \E f : Goes(f, S, a, G, L)
<1> USE DEF Steps
<1> DEFINE P(k, f) == f \in [0 .. k -> S] /\ f[0] = a /\ \A n \in 1 .. k : f[n] = G[n][f[n - 1]]
           T == {k \in Nat : k <= L => \E f : P(k, f)}
<1>1. 0 \in T
  <2> DEFINE f == [n \in 0 .. 0 |-> a]
  <2>1. P(0, f)
    OBVIOUS
  <2> QED BY <2>1
<1>2. ASSUME NEW k \in Nat, k \in T PROVE k + 1 \in T
  <2> SUFFICES ASSUME k + 1 <= L PROVE \E f : P(k + 1, f)
    OBVIOUS
  <2>1. PICK f : P(k, f)
    BY <1>2
  <2> DEFINE g == [n \in 0 .. k + 1 |-> IF n \in 0 .. k THEN f[n] ELSE G[k + 1][f[k]]]
  <2>2. k \in 0 .. k /\ k + 1 \in 1 .. L
    OBVIOUS
  <2>3. f[k] \in S
    BY <2>1, <2>2
  <2>4. G[k + 1][f[k]] \in S
    BY <2>2, <2>3
  <2>5. g \in [0 .. k + 1 -> S]
    BY <2>1, <2>4
  <2>6. g[0] = a
    BY <2>1
  <2>7. ASSUME NEW n \in 1 .. k + 1 PROVE g[n] = G[n][g[n - 1]]
    <3>1. CASE n \in 1 .. k
      BY <2>1, <3>1
    <3>2. CASE n = k + 1
      <4>1. n \notin 0 .. k /\ n \in 0 .. k + 1 /\ n - 1 = k /\ k \in 0 .. k + 1
        BY <3>2
      <4>2. g[n] = G[k + 1][f[k]] /\ g[k] = f[k]
        BY <2>2, <4>1
      <4> QED BY <3>2, <4>1, <4>2
    <3> QED BY <3>1, <3>2
  <2> QED BY <2>5, <2>6, <2>7
<1>3. T = Nat
  <2>1. T \subseteq Nat
    OBVIOUS
  <2> HIDE DEF T
  <2> QED BY <1>1, <1>2, <2>1, NatSetInduction
<1>4. L \in T
  BY <1>3
<1> QED BY <1>4 DEF Goes

-----------------------------------------------------------------------------
(* The session.                                                            *)

LEMMA TakeType ==
  ASSUME NEW kinds \in Seq(Kinds), NEW u \in 1 .. Len(kinds), NEW s \in Session
  PROVE  /\ Take(s, kinds, u) \in Session
         /\ Take(s, kinds, u).taken = s.taken
         /\ Take(s, kinds, u).produced \in {s.produced, s.produced + 1}
<1> DEFINE t == [s EXCEPT !.fed = u]
<1>1. t \in Session /\ t.taken = s.taken /\ t.produced = s.produced
  <2>1. u \in Nat
    OBVIOUS
  <2> QED BY <2>1 DEF Session
<1>2. kinds[u] \in Kinds
  OBVIOUS
<1>3. /\ Received(t, kinds[u], u) \in Session
      /\ Received(t, kinds[u], u).taken = s.taken
      /\ Received(t, kinds[u], u).produced \in {s.produced, s.produced + 1}
  <2> HIDE DEF t
  <2>1. u \in Nat /\ t.plain \in Seq(Nat) /\ t.produced \in Nat /\ s.produced \in Nat
    BY <1>1 DEF Session
  <2>2. Append(t.plain, u) \in Seq(Nat) /\ t.produced + 1 \in Nat
    BY <2>1
  <2> QED BY <1>1, <1>2, <2>1, <2>2 DEF Received, Kinds, Session
<1>4. /\ [s EXCEPT !.broken = TRUE, !.produced = @ + 1] \in Session
      /\ [s EXCEPT !.broken = TRUE, !.produced = @ + 1].taken = s.taken
      /\ [s EXCEPT !.broken = TRUE, !.produced = @ + 1].produced = s.produced + 1
  <2>1. s.produced + 1 \in Nat
    BY DEF Session
  <2> QED BY <2>1 DEF Session
<1> QED BY <1>3, <1>4 DEF Take

(* Process takes the units one after the other.                            *)
LEMMA ProcessSteps ==
  ASSUME NEW kinds \in Seq(Kinds), NEW units \in Seq(1 .. Len(kinds)), NEW s \in Session
  PROVE  \E f \in [0 .. Len(units) -> Session] :
           /\ f[0] = s
           /\ \A n \in 1 .. Len(units) : f[n] = Take(f[n - 1], kinds, units[n])
           /\ Process(s, kinds, units) = f[Len(units)]
<1> DEFINE L == Len(units)
           G == [n \in 1 .. L |-> [x \in Session |-> Take(x, kinds, units[n])]]
           After(f) == [n \in 0 .. L |-> IF n = 0 THEN s ELSE Take(f[n - 1], kinds, units[n])]
           after == CHOOSE f : f = After(f)
<1>1. L \in Nat
  OBVIOUS
<1>2. G \in Steps(Session, L)
  <2>1. ASSUME NEW n \in 1 .. L, NEW x \in Session PROVE Take(x, kinds, units[n]) \in Session
    <3>1. units[n] \in 1 .. Len(kinds)
      OBVIOUS
    <3> QED BY <3>1, TakeType
  <2> QED BY <2>1 DEF Steps
<1>3. PICK g \in [0 .. L -> Session] : g[0] = s /\ \A n \in 1 .. L : g[n] = G[n][g[n - 1]]
  <2> HIDE DEF G, L, After, after
  <2>1. \E g : Goes(g, Session, s, G, L)
    BY <1>1, <1>2, RecursionExists
  <2> QED BY <2>1 DEF Goes
<1>4. ASSUME NEW n \in 1 .. L PROVE g[n] = Take(g[n - 1], kinds, units[n])
  <2>1. g[n - 1] \in Session
    BY <1>1
  <2> QED BY <1>3, <2>1
<1>5. g = After(g)
  BY <1>1, <1>3, <1>4
<1>6. after = After(after)
  <2> HIDE DEF After
  <2> QED BY <1>5
<1>7. Process(s, kinds, units) = after[L]
  BY DEF Process
<1>8. \A n \in 0 .. L : after[n] = IF n = 0 THEN s ELSE Take(after[n - 1], kinds, units[n])
  <2> HIDE DEF after
  <2> QED BY <1>6
<1> HIDE DEF after, After, G, L
<1>9. ASSUME NEW n \in 0 .. L PROVE after[n] = g[n]
  <2> DEFINE T == {k \in Nat : k <= L => after[k] = g[k]}
  <2>1. 0 \in T
    BY <1>1, <1>3, <1>8
  <2>2. ASSUME NEW k \in Nat, k \in T PROVE k + 1 \in T
    <3> SUFFICES ASSUME k + 1 <= L PROVE after[k + 1] = g[k + 1]
      OBVIOUS
    <3>1. k + 1 \in 0 .. L /\ k + 1 # 0 /\ (k + 1) - 1 = k /\ k + 1 \in 1 .. L
      BY <1>1
    <3>2. after[k] = g[k]
      BY <1>1, <2>2
    <3>3. after[k + 1] = Take(after[k], kinds, units[k + 1])
      BY <1>8, <3>1
    <3>4. g[k + 1] = Take(g[k], kinds, units[k + 1])
      BY <1>4, <3>1
    <3> QED BY <3>2, <3>3, <3>4
  <2>3. T = Nat
    <3>1. T \subseteq Nat
      OBVIOUS
    <3> HIDE DEF T
    <3> QED BY <2>1, <2>2, <3>1, NatSetInduction
  <2> QED BY <1>1, <2>3
<1>10. Process(s, kinds, units) = g[L]
  BY <1>1, <1>7, <1>9
<1> QED BY <1>3, <1>4, <1>10 DEF L

(* What holds of s and passes from unit to unit holds of the outcome.      *)
LEMMA ProcessKeeps ==
  ASSUME NEW kinds \in Seq(Kinds), NEW units \in Seq(1 .. Len(kinds)), NEW s \in Session,
         NEW P, s \in P[0],
         \A n \in 1 .. Len(units) : \A t \in Session :
           t \in P[n - 1] => Take(t, kinds, units[n]) \in P[n]
  PROVE  Process(s, kinds, units) \in Session /\ Process(s, kinds, units) \in P[Len(units)]
<1> DEFINE L == Len(units)
<1>0. L \in Nat
  OBVIOUS
<1>1. PICK f \in [0 .. L -> Session] :
        /\ f[0] = s
        /\ \A n \in 1 .. L : f[n] = Take(f[n - 1], kinds, units[n])
        /\ Process(s, kinds, units) = f[L]
  BY ProcessSteps
<1> DEFINE T == {k \in Nat : k <= L => f[k] \in P[k]}
<1>2. 0 \in T
  BY <1>1
<1>3. ASSUME NEW k \in Nat, k \in T PROVE k + 1 \in T
  <2> SUFFICES ASSUME k + 1 <= L PROVE f[k + 1] \in P[k + 1]
    OBVIOUS
  <2>1. k + 1 \in 1 .. L /\ (k + 1) - 1 = k /\ k \in 0 .. L
    BY <1>0
  <2>2. f[k] \in Session /\ f[k] \in P[k]
    BY <1>0, <1>3, <2>1
  <2>3. f[k + 1] = Take(f[k], kinds, units[k + 1])
    BY <1>1, <2>1
  <2>4. Take(f[k], kinds, units[k + 1]) \in P[k + 1]
    BY <2>1, <2>2
  <2> QED BY <2>3, <2>4
<1>4. T = Nat
  <2>1. T \subseteq Nat
    OBVIOUS
  <2> HIDE DEF T
  <2> QED BY <1>2, <1>3, <2>1, NatSetInduction
<1>5. L \in T /\ L \in 0 .. L
  BY <1>0, <1>4
<1> QED BY <1>0, <1>1, <1>5

(* Process takes nothing out and may produce more.                         *)
LEMMA ProcessType ==
  ASSUME NEW kinds \in Seq(Kinds), NEW units \in Seq(1 .. Len(kinds)), NEW s \in Session
  PROVE  /\ Process(s, kinds, units) \in Session
         /\ Process(s, kinds, units).taken = s.taken
         /\ s.produced <= Process(s, kinds, units).produced
<1> DEFINE Q == {t \in Session : t.taken = s.taken /\ s.produced <= t.produced}
           P == [n \in 0 .. Len(units) |-> Q]
<1>0. Len(units) \in Nat /\ s.produced \in Nat
  BY DEF Session
<1>1. s \in P[0]
  BY <1>0
<1>2. ASSUME NEW n \in 1 .. Len(units), NEW t \in Session, t \in P[n - 1]
      PROVE  Take(t, kinds, units[n]) \in P[n]
  <2>1. t \in Q /\ n \in 0 .. Len(units)
    BY <1>0, <1>2
  <2>2. units[n] \in 1 .. Len(kinds)
    OBVIOUS
  <2>3. /\ Take(t, kinds, units[n]) \in Session
        /\ Take(t, kinds, units[n]).taken = t.taken
        /\ Take(t, kinds, units[n]).produced \in {t.produced, t.produced + 1}
    BY <2>2, TakeType
  <2>4. t.produced \in Nat
    BY DEF Session
  <2>5. Take(t, kinds, units[n]) \in Q
    BY <1>0, <2>1, <2>3, <2>4
  <2> QED BY <2>1, <2>5
<1>3. Process(s, kinds, units) \in P[Len(units)]
  <2> HIDE DEF P
  <2> QED BY <1>1, <1>2, ProcessKeeps
<1>4. Process(s, kinds, units) \in Q
  BY <1>0, <1>3
<1> QED BY <1>4

-----------------------------------------------------------------------------
(* The server's data.                                                      *)

LEMMA DataSteps ==
  ASSUME NEW kinds \in Seq(Kinds)
  PROVE  /\ DataAmong(kinds)[0] = << >>
         /\ \A n \in 1 .. Len(kinds) :
              DataAmong(kinds)[n] = IF IsData(kinds, n) THEN Append(DataAmong(kinds)[n - 1], n)
                                                        ELSE DataAmong(kinds)[n - 1]
<1> DEFINE L == Len(kinds)
           G == [n \in 1 .. L |-> [x \in Seq(Nat) |-> IF IsData(kinds, n) THEN Append(x, n) ELSE x]]
           All(f) == [n \in 0 .. L |-> IF n = 0 THEN << >>
                                       ELSE IF IsData(kinds, n) THEN Append(f[n - 1], n) ELSE f[n - 1]]
           data == CHOOSE f : f = All(f)
<1>1. L \in Nat
  OBVIOUS
<1>2. G \in Steps(Seq(Nat), L)
  <2>1. ASSUME NEW n \in 1 .. L, NEW x \in Seq(Nat)
        PROVE  (IF IsData(kinds, n) THEN Append(x, n) ELSE x) \in Seq(Nat)
    <3>1. n \in Nat
      BY <1>1
    <3> QED BY <3>1
  <2> QED BY <2>1 DEF Steps
<1>3. PICK g \in [0 .. L -> Seq(Nat)] : g[0] = << >> /\ \A n \in 1 .. L : g[n] = G[n][g[n - 1]]
  <2> HIDE DEF G, L, All, data
  <2>1. << >> \in Seq(Nat)
    OBVIOUS
  <2>2. \E g : Goes(g, Seq(Nat), << >>, G, L)
    BY <1>1, <1>2, <2>1, RecursionExists
  <2> QED BY <2>2 DEF Goes
<1>4. ASSUME NEW n \in 1 .. L
      PROVE  g[n] = IF IsData(kinds, n) THEN Append(g[n - 1], n) ELSE g[n - 1]
  <2>1. g[n - 1] \in Seq(Nat)
    BY <1>1
  <2> QED BY <1>3, <2>1
<1>5. g = All(g)
  <2>1. \A n \in 0 .. L : n = 0 \/ n \in 1 .. L
    BY <1>1
  <2>2. \A n \in 0 .. L : g[n] = All(g)[n]
    BY <1>3, <1>4, <2>1
  <2>3. g = [n \in 0 .. L |-> g[n]]
    BY <1>3
  <2> QED BY <2>2, <2>3
<1>6. data = All(data)
  <2> HIDE DEF All
  <2> QED BY <1>5
<1>7. DataAmong(kinds) = data
  BY DEF DataAmong
<1>8. \A n \in 0 .. L : data[n] = IF n = 0 THEN << >>
                                  ELSE IF IsData(kinds, n) THEN Append(data[n - 1], n) ELSE data[n - 1]
  <2> HIDE DEF data
  <2> QED BY <1>6
<1> HIDE DEF data
<1> QED BY <1>1, <1>7, <1>8

LEMMA DataType ==
  ASSUME NEW kinds \in Seq(Kinds), NEW n \in 0 .. Len(kinds)
  PROVE  DataAmong(kinds)[n] \in Seq(Nat)
<1> DEFINE D == DataAmong(kinds)
           T == {k \in Nat : k <= Len(kinds) => D[k] \in Seq(Nat)}
<1>0. Len(kinds) \in Nat /\ D[0] = << >>
      /\ \A k \in 1 .. Len(kinds) : D[k] = IF IsData(kinds, k) THEN Append(D[k - 1], k) ELSE D[k - 1]
  BY DataSteps
<1> HIDE DEF D
<1>1. 0 \in T
  <2>1. << >> \in Seq(Nat)
    OBVIOUS
  <2> QED BY <1>0, <2>1
<1>2. ASSUME NEW k \in Nat, k \in T PROVE k + 1 \in T
  <2> SUFFICES ASSUME k + 1 <= Len(kinds) PROVE D[k + 1] \in Seq(Nat)
    OBVIOUS
  <2>1. k + 1 \in 1 .. Len(kinds) /\ (k + 1) - 1 = k /\ k + 1 \in Nat
    BY <1>0
  <2>2. D[k] \in Seq(Nat)
    BY <1>0, <1>2
  <2>3. D[k + 1] \in {Append(D[k], k + 1), D[k]}
    BY <1>0, <2>1
  <2>4. Append(D[k], k + 1) \in Seq(Nat)
    BY <2>1, <2>2
  <2> QED BY <2>2, <2>3, <2>4
<1>3. T = Nat
  <2>1. T \subseteq Nat
    OBVIOUS
  <2> HIDE DEF T
  <2> QED BY <1>1, <1>2, <2>1, NatSetInduction
<1> QED BY <1>0, <1>3 DEF D

Begins(s, t) == Len(s) <= Len(t) /\ \A i \in 1 .. Len(s) : s[i] = t[i]

(* More units never take data back, and after a close there is none.       *)
LEMMA DataGrows ==
  ASSUME NEW kinds \in Seq(Kinds), NEW m \in 0 .. Len(kinds), NEW n \in m .. Len(kinds)
  PROVE  /\ Begins(DataAmong(kinds)[m], DataAmong(kinds)[n])
         /\ m # 0 /\ Closes(kinds, m) => DataAmong(kinds)[n] = DataAmong(kinds)[m]
<1> DEFINE D == DataAmong(kinds)
           T == {k \in Nat : m + k <= Len(kinds) =>
                               /\ Begins(D[m], D[m + k])
                               /\ m # 0 /\ Closes(kinds, m) => D[m + k] = D[m]}
<1>0. Len(kinds) \in Nat /\ m \in Nat /\ n \in Nat
      /\ \A k \in 1 .. Len(kinds) : D[k] = IF IsData(kinds, k) THEN Append(D[k - 1], k) ELSE D[k - 1]
  BY DataSteps
<1>1. \A k \in 0 .. Len(kinds) : D[k] \in Seq(Nat)
  BY DataType
<1> HIDE DEF D
<1>2. 0 \in T
  <2>1. m + 0 = m /\ D[m] \in Seq(Nat)
    BY <1>0, <1>1
  <2> QED BY <2>1 DEF Begins
<1>3. ASSUME NEW k \in Nat, k \in T PROVE k + 1 \in T
  <2> SUFFICES ASSUME m + (k + 1) <= Len(kinds)
               PROVE  /\ Begins(D[m], D[m + (k + 1)])
                      /\ m # 0 /\ Closes(kinds, m) => D[m + (k + 1)] = D[m]
    OBVIOUS
  <2>1. PICK j : j = m + k
    OBVIOUS
  <2>2. j \in 0 .. Len(kinds) /\ m + (k + 1) = j + 1 /\ j + 1 \in 1 .. Len(kinds) /\ j + 1 - 1 = j
        /\ (m \in 1 .. j \/ m = 0)
    BY <1>0, <2>1
  <2>3. Begins(D[m], D[j]) /\ (m # 0 /\ Closes(kinds, m) => D[j] = D[m])
    BY <1>0, <1>3, <2>1
  <2>4. D[j + 1] = IF IsData(kinds, j + 1) THEN Append(D[j], j + 1) ELSE D[j]
    BY <1>0, <2>2
  <2>5. m \in 1 .. j /\ Closes(kinds, m) => ~IsData(kinds, j + 1)
    BY <2>2 DEF IsData
  <2>6. D[m] \in Seq(Nat) /\ D[j] \in Seq(Nat)
    BY <1>0, <1>1, <2>2
  <2>7. Begins(D[m], D[j + 1])
    BY <2>3, <2>4, <2>6 DEF Begins
  <2> QED BY <2>2, <2>3, <2>4, <2>5, <2>7
<1>4. T = Nat
  <2>1. T \subseteq Nat
    OBVIOUS
  <2> HIDE DEF T
  <2> QED BY <1>2, <1>3, <2>1, NatSetInduction
<1>5. n - m \in Nat /\ m + (n - m) = n /\ n <= Len(kinds)
  BY <1>0
<1>6. n - m \in T
  BY <1>4, <1>5
<1> QED BY <1>5, <1>6 DEF D
-----------------------------------------------------------------------------
(* A session fed with the server's units has the server's data.            *)

LEMMA AppendJoined ==
  ASSUME NEW S, NEW a \in Seq(S), NEW b \in Seq(S), NEW x \in S
  PROVE  a \o Append(b, x) = Append(a \o b, x)
OBVIOUS

LEMMA FedTake ==
  ASSUME NEW kinds \in Seq(Kinds), NEW t \in Session, NEW d \in Seq(Nat), Fed(kinds, t, d),
         NEW u \in 1 .. Len(kinds), GoesOn(t) => u = t.fed + 1
  PROVE  /\ Fed(kinds, Take(t, kinds, u), d)
         /\ GoesOn(Take(t, kinds, u)) => GoesOn(t) /\ Take(t, kinds, u).fed = u
<1>1. CASE ~GoesOn(t)
  <2>1. Take(t, kinds, u) = t
    BY <1>1 DEF Take, GoesOn
  <2> QED BY <1>1, <2>1
<1>2. CASE GoesOn(t)
  <2> DEFINE s == [t EXCEPT !.fed = u]
             r == Received(s, kinds[u], u)
             D == DataAmong(kinds)
  <2>0. /\ Len(kinds) \in Nat /\ u \in Nat /\ t.fed \in Nat /\ u = t.fed + 1 /\ u - 1 = t.fed
        /\ t.plain \in Seq(Nat) /\ u <= Len(kinds) /\ u # 0 /\ t.fed \in 0 .. Len(kinds)
    BY <1>2 DEF Session
  <2>1. Take(t, kinds, u) = r
    BY <1>2 DEF Take, GoesOn
  <2>2. /\ s \in Session /\ s.fed = u /\ s.plain = t.plain /\ ~s.closed /\ ~s.broken
        /\ s.closed = t.closed /\ s.broken = t.broken
    BY <1>2, <2>0 DEF Session, GoesOn
  <2>3. kinds[u] \in Kinds
    OBVIOUS
  <2> HIDE DEF s
  <2>4. /\ r.fed = u
        /\ r.plain = IF kinds[u] = "Data" THEN Append(t.plain, u) ELSE t.plain
        /\ r.closed <=> kinds[u] = "CloseNotify"
        /\ r.broken <=> kinds[u] = "Bad"
    BY <2>2, <2>3 DEF Received, Kinds, Session
  <2> HIDE DEF r
  <2>5. \A v \in 1 .. t.fed : ~Closes(kinds, v)
    BY <1>2 DEF Fed, GoesOn
  <2>6. IsData(kinds, u) <=> kinds[u] = "Data"
    BY <2>0, <2>5 DEF IsData
  <2>7. D[u] = IF kinds[u] = "Data" THEN Append(D[t.fed], u) ELSE D[t.fed]
    BY <2>0, <2>6, DataSteps
  <2>8. d \o t.plain = D[t.fed]
    BY DEF Fed
  <2>9. d \o Append(t.plain, u) = Append(d \o t.plain, u)
    <3>1. t.plain \in Seq(Nat) /\ u \in Nat
      BY <2>0
    <3>2. ASSUME NEW p \in Seq(Nat), NEW x \in Nat PROVE d \o Append(p, x) = Append(d \o p, x)
      OBVIOUS
    <3> QED BY <3>1, <3>2
  <2>10. d \o r.plain = D[u]
    BY <2>4, <2>7, <2>8, <2>9
  <2>11. \A v \in 1 .. u : Closes(kinds, v) => v = u /\ (r.closed \/ r.broken)
    <3> SUFFICES ASSUME NEW v \in 1 .. u, Closes(kinds, v) PROVE v = u /\ (r.closed \/ r.broken)
      OBVIOUS
    <3>1. v = u
      BY <2>0, <2>5
    <3> QED BY <2>4, <3>1 DEF Closes
  <2>12. Fed(kinds, r, d)
    BY <2>0, <2>4, <2>10, <2>11 DEF Fed
  <2> QED BY <1>2, <2>1, <2>4, <2>12
<1> QED BY <1>1, <1>2

LEMMA FedProcess ==
  ASSUME NEW kinds \in Seq(Kinds), NEW s \in Session, NEW d \in Seq(Nat), Fed(kinds, s, d),
         NEW units \in Seq(1 .. Len(kinds)),
         GoesOn(s) => \A i \in 1 .. Len(units) : units[i] = s.fed + i
  PROVE  /\ Fed(kinds, Process(s, kinds, units), d)
         /\ GoesOn(Process(s, kinds, units)) =>
              GoesOn(s) /\ Process(s, kinds, units).fed = s.fed + Len(units)
<1> DEFINE Q(n) == {t \in Session : Fed(kinds, t, d) /\ (GoesOn(t) => GoesOn(s) /\ t.fed = s.fed + n)}
           P == [n \in 0 .. Len(units) |-> Q(n)]
<1>0. Len(units) \in Nat /\ s.fed \in Nat
  BY DEF Session
<1>1. s \in P[0]
  BY <1>0
<1>2. ASSUME NEW n \in 1 .. Len(units), NEW t \in Session, t \in P[n - 1]
      PROVE  Take(t, kinds, units[n]) \in P[n]
  <2>1. t \in Q(n - 1) /\ n \in 0 .. Len(units)
    BY <1>0, <1>2
  <2>2. units[n] \in 1 .. Len(kinds)
    OBVIOUS
  <2>3. GoesOn(t) => units[n] = t.fed + 1 /\ units[n] = s.fed + n
    BY <1>0, <2>1
  <2>4. /\ Fed(kinds, Take(t, kinds, units[n]), d)
        /\ GoesOn(Take(t, kinds, units[n])) => GoesOn(t) /\ Take(t, kinds, units[n]).fed = units[n]
    BY <2>1, <2>2, <2>3, FedTake
  <2>5. Take(t, kinds, units[n]) \in Session
    BY <2>2, TakeType
  <2>6. Take(t, kinds, units[n]) \in Q(n)
    BY <2>1, <2>3, <2>4, <2>5
  <2> QED BY <2>1, <2>6
<1>3. Process(s, kinds, units) \in P[Len(units)]
  <2> HIDE DEF P
  <2> QED BY <1>1, <1>2, ProcessKeeps
<1>4. Process(s, kinds, units) \in Q(Len(units))
  BY <1>0, <1>3
<1> QED BY <1>4

-----------------------------------------------------------------------------
(* Sequences: what is given to the socket, and what waits to be fed.       *)

LEMMA JoinedSeq ==
  ASSUME NEW S, NEW a \in Seq(S), NEW b \in Seq(S)
  PROVE  /\ a \o b \in Seq(S) /\ Len(a \o b) = Len(a) + Len(b)
         /\ \A i \in 1 .. Len(a) : (a \o b)[i] = a[i]
         /\ \A i \in 1 .. Len(b) : (a \o b)[Len(a) + i] = b[i]
         /\ \A i \in 1 .. Len(a) + Len(b) : i \in 1 .. Len(a) \/ i - Len(a) \in 1 .. Len(b)
OBVIOUS

LEMMA SameSeq ==
  ASSUME NEW S, NEW a \in Seq(S), NEW b \in Seq(S), Len(a) = Len(b),
         \A i \in 1 .. Len(a) : a[i] = b[i]
  PROVE  a = b
OBVIOUS

LEMMA TakenOutType ==
  ASSUME NEW s \in Session, NEW k \in Nat
  PROVE  /\ TakenOut(s, k) \in Seq(Nat) /\ Len(TakenOut(s, k)) = k
         /\ \A i \in 1 .. k : TakenOut(s, k)[i] = s.taken + i
         /\ TakeOut(s, k) \in Session
         /\ TakeOut(s, k).taken = s.taken + k
         /\ TakeOut(s, k).produced = s.produced /\ SameReader(s, TakeOut(s, k))
<1>1. s.taken \in Nat /\ s.taken + k \in Nat
  BY DEF Session
<1>2. \A i \in 1 .. k : s.taken + i \in Nat
  BY <1>1
<1> QED BY <1>1, <1>2 DEF TakenOut, TakeOut, Session, SameReader

LEMMA AddTaken ==
  ASSUME NEW g \in Seq(Nat), NEW s \in Session, NEW k \in Nat,
         Increasing(g), Within(g, s.taken)
  PROVE  /\ g \o TakenOut(s, k) \in Seq(Nat)
         /\ Increasing(g \o TakenOut(s, k))
         /\ Within(g \o TakenOut(s, k), s.taken + k)
         /\ g = UpTo(s.taken) => g \o TakenOut(s, k) = UpTo(s.taken + k)
<1> DEFINE b == TakenOut(s, k)
           c == g \o b
           n == Len(g)
           t == s.taken
<1>1. n \in Nat /\ t \in Nat /\ b \in Seq(Nat) /\ Len(b) = k /\ \A i \in 1 .. k : b[i] = t + i
  <2>1. t \in Nat
    BY DEF Session
  <2>2. n \in Nat
    OBVIOUS
  <2>3. b \in Seq(Nat) /\ Len(b) = k /\ \A i \in 1 .. k : b[i] = t + i
    BY TakenOutType, Zenon
  <2> QED BY <2>1, <2>2, <2>3
<1> HIDE DEF b
<1>2. c \in Seq(Nat) /\ Len(c) = n + k
  BY <1>1, JoinedSeq
<1>3. \A i \in 1 .. n + k : c[i] = IF i <= n THEN g[i] ELSE t + (i - n)
  <2> TAKE i \in 1 .. n + k
  <2>1. CASE i <= n
    BY <1>1, <2>1
  <2>2. CASE i > n
    <3>1. i - n \in 1 .. k /\ n + (i - n) = i
      BY <1>1, <2>2
    <3>2. c[n + (i - n)] = b[i - n]
      BY <1>1, <3>1, JoinedSeq
    <3> QED BY <1>1, <2>2, <3>1, <3>2
  <2> QED BY <1>1, <2>1, <2>2
<1>4. \A i \in 1 .. n : g[i] \in Nat /\ g[i] <= t
  BY <1>1 DEF Within
<1> HIDE DEF c
<1>5. Increasing(c)
  <2> SUFFICES ASSUME NEW i \in 1 .. n + k, NEW j \in 1 .. n + k, i < j PROVE c[i] < c[j]
    BY <1>2 DEF Increasing
  <2>1. CASE j <= n
    <3>1. i \in 1 .. n /\ j \in 1 .. n /\ c[i] = g[i] /\ c[j] = g[j]
      BY <1>1, <1>3, <2>1
    <3> QED BY <3>1 DEF Increasing
  <2>2. CASE n < j
    <3>1. c[j] = t + (j - n)
      BY <1>1, <1>3, <2>2
    <3>2. CASE i <= n
      <4>1. i \in 1 .. n /\ c[i] = g[i]
        BY <1>1, <1>3, <3>2
      <4> QED BY <1>1, <1>4, <2>2, <3>1, <4>1
    <3>3. CASE n < i
      <4>1. c[i] = t + (i - n)
        BY <1>1, <1>3, <3>3
      <4> QED BY <1>1, <3>1, <4>1
    <3> QED BY <1>1, <3>2, <3>3
  <2> QED BY <1>1, <2>1, <2>2
<1>6. Within(c, t + k)
  <2> SUFFICES ASSUME NEW i \in 1 .. n + k PROVE c[i] <= t + k
    BY <1>2 DEF Within
  <2>1. CASE i <= n
    <3>1. c[i] = g[i] /\ g[i] \in Nat /\ g[i] <= t
      BY <1>1, <1>3, <1>4, <2>1
    <3> QED BY <1>1, <3>1
  <2>2. CASE n < i
    <3>1. c[i] = t + (i - n)
      BY <1>1, <1>3, <2>2
    <3> QED BY <1>1, <3>1
  <2> QED BY <1>1, <2>1, <2>2
<1>7. ASSUME g = UpTo(t) PROVE c = UpTo(t + k)
  <2>1. n = t /\ \A i \in 1 .. n : g[i] = i
    BY <1>1, <1>7 DEF UpTo
  <2>2. \A i \in 1 .. n + k : c[i] = i
    BY <1>1, <1>3, <2>1
  <2>3. c = [i \in 1 .. n + k |-> c[i]]
    BY <1>2
  <2> QED BY <2>1, <2>2, <2>3 DEF UpTo
<1> QED BY <1>2, <1>5, <1>6, <1>7 DEF c, b

LEMMA Parts ==
  ASSUME NEW S, NEW s \in Seq(S), NEW k \in 0 .. Len(s)
  PROVE  /\ FirstOf(s, k) \in Seq(S) /\ Len(FirstOf(s, k)) = k
         /\ \A i \in 1 .. k : FirstOf(s, k)[i] = s[i]
         /\ RestOf(s, k) \in Seq(S) /\ Len(RestOf(s, k)) = Len(s) - k
         /\ \A i \in 1 .. Len(s) - k : RestOf(s, k)[i] = s[k + i]
         /\ FirstOf(s, k) \o RestOf(s, k) = s
<1>1. Len(s) \in Nat
  OBVIOUS
<1>2. FirstOf(s, k) \in Seq(S) /\ Len(FirstOf(s, k)) = k /\ \A i \in 1 .. k : FirstOf(s, k)[i] = s[i]
  BY <1>1 DEF FirstOf
<1>3. /\ RestOf(s, k) \in Seq(S) /\ Len(RestOf(s, k)) = Len(s) - k
      /\ \A i \in 1 .. Len(s) - k : RestOf(s, k)[i] = s[k + i]
  BY <1>1 DEF RestOf
<1>4. FirstOf(s, k) \o RestOf(s, k) = s
  <2> DEFINE a == FirstOf(s, k)
             b == RestOf(s, k)
  <2> HIDE DEF a, b
  <2>1. /\ a \in Seq(S) /\ b \in Seq(S) /\ Len(a) = k /\ Len(b) = Len(s) - k
        /\ \A i \in 1 .. k : a[i] = s[i]
        /\ \A i \in 1 .. Len(s) - k : b[i] = s[k + i]
    BY <1>2, <1>3 DEF a, b
  <2> DEFINE c == a \o b
  <2>2. c \in Seq(S) /\ Len(c) = Len(a) + Len(b)
        /\ (\A i \in 1 .. Len(a) : c[i] = a[i]) /\ \A i \in 1 .. Len(b) : c[Len(a) + i] = b[i]
    BY <2>1
  <2> HIDE DEF c
  <2>3. ASSUME NEW i \in 1 .. Len(s) PROVE c[i] = s[i]
    <3>1. CASE i <= k
      BY <1>1, <2>1, <2>2, <3>1
    <3>2. CASE k < i
      <4>1. PICK j : j = i - k
        OBVIOUS
      <4>2. j \in 1 .. Len(b) /\ Len(a) + j = i /\ k + j = i
        BY <1>1, <2>1, <3>2, <4>1
      <4>3. c[Len(a) + j] = b[j] /\ b[j] = s[k + j]
        BY <2>1, <2>2, <4>2
      <4> QED BY <4>2, <4>3
    <3> QED BY <1>1, <3>1, <3>2
  <2>4. Len(c) = Len(s)
    BY <1>1, <2>1, <2>2
  <2>5. c = s
    BY <2>2, <2>3, <2>4, SameSeq
  <2> QED BY <2>5 DEF a, b, c
<1> QED BY <1>2, <1>3, <1>4
(* What a send leaves of the buffer is dropped.                            *)
LEMMA CutGiven ==
  ASSUME NEW w \in Seq(Nat), NEW b \in Seq(Nat), NEW k \in 1 .. Len(b), NEW n,
         Increasing(w \o b), Within(w \o b, n)
  PROVE  /\ w \o FirstOf(b, k) \in Seq(Nat)
         /\ Increasing(w \o FirstOf(b, k)) /\ Within(w \o FirstOf(b, k), n)
         /\ k = Len(b) => w \o FirstOf(b, k) = w \o b
<1> DEFINE f == FirstOf(b, k)
           c == w \o b
           g == w \o f
<1>1. /\ Len(w) \in Nat /\ Len(b) \in Nat /\ k \in 0 .. Len(b)
      /\ f \in Seq(Nat) /\ Len(f) = k /\ \A i \in 1 .. k : f[i] = b[i]
  BY Parts
<1> HIDE DEF f
<1>2. /\ c \in Seq(Nat) /\ Len(c) = Len(w) + Len(b)
      /\ (\A i \in 1 .. Len(w) : c[i] = w[i]) /\ \A i \in 1 .. Len(b) : c[Len(w) + i] = b[i]
  OBVIOUS
<1>3. /\ g \in Seq(Nat) /\ Len(g) = Len(w) + k
      /\ (\A i \in 1 .. Len(w) : g[i] = w[i]) /\ \A i \in 1 .. k : g[Len(w) + i] = f[i]
  <2>1. f \in Seq(Nat)
    BY <1>1
  <2>2. /\ g \in Seq(Nat) /\ Len(g) = Len(w) + Len(f)
        /\ \A i \in 1 .. Len(w) : g[i] = w[i]
        /\ \A i \in 1 .. Len(f) : g[Len(w) + i] = f[i]
    BY <2>1
  <2> HIDE DEF g
  <2> QED BY <1>1, <2>2
<1> HIDE DEF c, g
<1>4. ASSUME NEW i \in 1 .. Len(g) PROVE i \in 1 .. Len(c) /\ g[i] = c[i]
  <2>1. i \in 1 .. Len(c)
    BY <1>1, <1>2, <1>3
  <2>2. CASE i \in 1 .. Len(w)
    BY <1>2, <1>3, <2>1, <2>2
  <2>3. CASE i \notin 1 .. Len(w)
    <3>1. PICK j : j = i - Len(w)
      OBVIOUS
    <3>2. j \in 1 .. k /\ j \in 1 .. Len(b) /\ Len(w) + j = i
      BY <1>1, <1>3, <2>3, <3>1
    <3>3. g[Len(w) + j] = c[Len(w) + j]
      BY <1>1, <1>2, <1>3, <3>2
    <3> QED BY <2>1, <3>2, <3>3
  <2> QED BY <2>2, <2>3
<1>5. Increasing(g) /\ Within(g, n)
  BY <1>4 DEF Increasing, Within, c
<1>6. k = Len(b) => f = b
  BY <1>1, SameSeq
<1> QED BY <1>3, <1>5, <1>6 DEF f, g, c

LEMMA RunType ==
  ASSUME NEW m \in Nat, NEW n \in Nat, m <= n
  PROVE  /\ Run(m, n) \in Seq(1 .. n) /\ Len(Run(m, n)) = n - m
         /\ \A i \in 1 .. n - m : Run(m, n)[i] = m + i
<1>1. n - m \in Nat /\ \A i \in 1 .. n - m : m + i \in 1 .. n
  OBVIOUS
<1> QED BY <1>1 DEF Run

(* The head of a run is fed, the rest is a run.                            *)
LEMMA RunRest ==
  ASSUME NEW m \in Nat, NEW n \in Nat, m <= n, NEW k \in 0 .. n - m
  PROVE  /\ \A i \in 1 .. k : FirstOf(Run(m, n), k)[i] = m + i
         /\ RestOf(Run(m, n), k) = Run(m + k, n) /\ m + k <= n
<1> DEFINE r == Run(m, n)
<1>1. n - m \in Nat /\ r \in Seq(1 .. n) /\ Len(r) = n - m /\ \A i \in 1 .. n - m : r[i] = m + i
  BY RunType
<1> HIDE DEF r
<1>2. m + k \in Nat /\ m + k <= n /\ k \in Nat
  OBVIOUS
<1>3. /\ \A i \in 1 .. k : FirstOf(r, k)[i] = r[i]
      /\ RestOf(r, k) \in Seq(1 .. n) /\ Len(RestOf(r, k)) = Len(r) - k
      /\ \A i \in 1 .. Len(r) - k : RestOf(r, k)[i] = r[k + i]
  <2>1. r \in Seq(1 .. n) /\ k \in 0 .. Len(r)
    BY <1>1
  <2> QED BY <2>1, Parts
<1>4. \A i \in 1 .. k : FirstOf(r, k)[i] = m + i
  BY <1>1, <1>3
<1>5. RestOf(r, k) = Run(m + k, n)
  <2> DEFINE q == Run(m + k, n)
             t == RestOf(r, k)
  <2>1. q \in Seq(1 .. n) /\ Len(q) = n - (m + k) /\ \A i \in 1 .. n - (m + k) : q[i] = m + k + i
    BY <1>2, RunType
  <2>2. t \in Seq(1 .. n) /\ Len(t) = Len(r) - k /\ \A i \in 1 .. Len(r) - k : t[i] = r[k + i]
    BY <1>3
  <2> HIDE DEF q, t
  <2>3. Len(t) = Len(q)
    BY <1>1, <1>2, <2>1, <2>2
  <2>4. ASSUME NEW i \in 1 .. Len(t) PROVE t[i] = q[i]
    <3>1. k + i \in 1 .. n - m /\ i \in 1 .. n - (m + k)
      BY <1>1, <1>2, <2>2
    <3>2. r[k + i] = m + (k + i) /\ q[i] = m + k + i /\ t[i] = r[k + i]
      BY <1>1, <2>1, <2>2, <2>4, <3>1
    <3>3. m + (k + i) = m + k + i
      BY <3>1
    <3> QED BY <3>2, <3>3
  <2>5. t = q
    BY <2>1, <2>2, <2>3, <2>4, SameSeq
  <2> QED BY <2>5 DEF q, t
<1> QED BY <1>2, <1>4, <1>5 DEF r

LEMMA RunGrows ==
  ASSUME NEW m \in Nat, NEW n \in Nat, m <= n
  PROVE  Append(Run(m, n), n + 1) = Run(m, n + 1)
<1> DEFINE r == Run(m, n)
           q == Run(m, n + 1)
           t == Append(r, n + 1)
<1>1. /\ n - m \in Nat /\ r \in Seq(Nat) /\ Len(r) = n - m /\ \A i \in 1 .. n - m : r[i] = m + i
      /\ q \in Seq(Nat) /\ Len(q) = n + 1 - m /\ \A i \in 1 .. n + 1 - m : q[i] = m + i
  <2>1. n + 1 \in Nat /\ m <= n + 1 /\ 1 .. n \subseteq Nat /\ 1 .. n + 1 \subseteq Nat
    OBVIOUS
  <2>2. r \in Seq(1 .. n) /\ q \in Seq(1 .. n + 1)
    BY <2>1, RunType
  <2>3. /\ Len(r) = n - m /\ \A i \in 1 .. n - m : r[i] = m + i
        /\ Len(q) = n + 1 - m /\ \A i \in 1 .. n + 1 - m : q[i] = m + i
    BY <2>1, RunType
  <2> HIDE DEF r, q
  <2>4. r \in Seq(Nat) /\ q \in Seq(Nat)
    BY <2>1, <2>2
  <2> QED BY <2>3, <2>4
<1> HIDE DEF r, q
<1>2. /\ t \in Seq(Nat) /\ Len(t) = n + 1 - m
      /\ (\A i \in 1 .. n - m : t[i] = r[i]) /\ t[n - m + 1] = n + 1
  BY <1>1
<1> HIDE DEF t
<1>3. ASSUME NEW i \in 1 .. Len(t) PROVE t[i] = q[i]
  <2>1. CASE i \in 1 .. n - m
    BY <1>1, <1>2, <2>1
  <2>2. CASE i = n - m + 1
    <3>1. q[i] = m + i /\ m + i = n + 1
      BY <1>1, <1>2, <2>2
    <3> QED BY <1>2, <2>2, <3>1
  <2> QED BY <1>1, <1>2, <2>1, <2>2
<1>4. t = q
  BY <1>1, <1>2, <1>3, SameSeq
<1> QED BY <1>4 DEF t, q, r

LEMMA JoinedTwice ==
  ASSUME NEW S, NEW a \in Seq(S), NEW b \in Seq(S), NEW c \in Seq(S)
  PROVE  (a \o b) \o c = a \o (b \o c)
OBVIOUS

LEMMA SeqOfMore ==
  ASSUME NEW S, NEW T, S \subseteq T, NEW a \in Seq(S)
  PROVE  a \in Seq(T)
OBVIOUS

LEMMA RestIs ==
  ASSUME NEW S, NEW a \in Seq(S), NEW b \in Seq(S)
  PROVE  RestOf(a \o b, Len(a)) = b
<1> DEFINE c == a \o b
           r == RestOf(c, Len(a))
<1>1. /\ c \in Seq(S) /\ Len(c) = Len(a) + Len(b) /\ Len(a) \in Nat /\ Len(b) \in Nat
      /\ \A i \in 1 .. Len(b) : c[Len(a) + i] = b[i]
  OBVIOUS
<1> HIDE DEF c
<1>2. Len(a) \in 0 .. Len(c) /\ Len(c) - Len(a) = Len(b)
  BY <1>1
<1>3. r \in Seq(S) /\ Len(r) = Len(b) /\ \A i \in 1 .. Len(b) : r[i] = c[Len(a) + i]
  <2>1. /\ RestOf(c, Len(a)) \in Seq(S) /\ Len(RestOf(c, Len(a))) = Len(c) - Len(a)
        /\ \A i \in 1 .. Len(c) - Len(a) : RestOf(c, Len(a))[i] = c[Len(a) + i]
    BY <1>1, <1>2, Parts
  <2> QED BY <1>2, <2>1
<1> HIDE DEF r
<1>4. r = b
  BY <1>1, <1>3, SameSeq
<1> QED BY <1>4 DEF r, c

LEMMA RestJoined ==
  ASSUME NEW S, NEW a \in Seq(S), NEW b \in Seq(S), NEW k \in 0 .. Len(a)
  PROVE  RestOf(a, k) \o b = RestOf(a \o b, k)
<1> DEFINE f == FirstOf(a, k)
           r == RestOf(a, k)
<1>1. /\ f \in Seq(S) /\ r \in Seq(S) /\ Len(f) = k /\ f \o r = a
  BY Parts
<1> HIDE DEF f, r
<1>2. (f \o r) \o b = f \o (r \o b)
  <2>1. f \in Seq(S) /\ r \in Seq(S)
    BY <1>1
  <2> QED BY <2>1
<1>3. r \o b \in Seq(S)
  BY <1>1
<1>4. RestOf(f \o (r \o b), k) = r \o b
  BY <1>1, <1>3, RestIs
<1> QED BY <1>1, <1>2, <1>4 DEF r

(* What is left of a buffer of which the session took the first units is   *)
(* what it has to be given next.                                           *)
LEMMA FeedStep ==
  ASSUME NEW kinds \in Seq(Kinds), NEW s \in Session, NEW d \in Seq(Nat), Fed(kinds, s, d),
         NEW a \in 0 .. Len(kinds), NEW w \in Seq(1 .. a), NEW x \in Seq(1 .. a),
         NEW k \in 0 .. Len(w), GoesOn(s) => s.fed <= a /\ w \o x = Run(s.fed, a)
  PROVE  LET t == Process(s, kinds, FirstOf(w, k))
         IN  /\ Fed(kinds, t, d)
             /\ GoesOn(t) => t.fed <= a /\ RestOf(w, k) \o x = Run(t.fed, a)
<1> DEFINE f == FirstOf(w, k)
           y == RestOf(w, k)
           t == Process(s, kinds, f)
<1>1. /\ f \in Seq(1 .. a) /\ Len(f) = k /\ \A i \in 1 .. k : f[i] = w[i]
      /\ y \in Seq(1 .. a)
  BY Parts
<1>2. a \in Nat /\ Len(kinds) \in Nat /\ s.fed \in Nat /\ Len(w) \in Nat /\ Len(x) \in Nat /\ k \in Nat
  BY DEF Session
<1>3. y \o x = RestOf(w \o x, k)
  BY RestJoined
<1> HIDE DEF f, y
<1>4. f \in Seq(1 .. Len(kinds))
  <2>1. 1 .. a \subseteq 1 .. Len(kinds)
    BY <1>2
  <2> QED BY <1>1, <2>1
<1>5. ASSUME GoesOn(s)
      PROVE  /\ \A i \in 1 .. k : f[i] = s.fed + i
             /\ s.fed + k <= a /\ y \o x = Run(s.fed + k, a)
  <2> DEFINE m == s.fed
             r == Run(m, a)
  <2>1. m \in Nat /\ m <= a /\ w \o x = r
    BY <1>2, <1>5
  <2>2. Len(r) = a - m /\ \A i \in 1 .. a - m : r[i] = m + i
    BY <1>2, <2>1, RunType
  <2>3. Len(w \o x) = Len(w) + Len(x) /\ \A i \in 1 .. Len(w) : (w \o x)[i] = w[i]
    BY JoinedSeq
  <2> HIDE DEF m, r
  <2>4. k \in 0 .. a - m
    BY <1>2, <2>1, <2>2, <2>3
  <2>5. RestOf(r, k) = Run(m + k, a) /\ m + k <= a
    BY <1>2, <2>1, <2>4, RunRest DEF r
  <2>6. ASSUME NEW i \in 1 .. k PROVE f[i] = m + i
    <3>1. i \in 1 .. Len(w) /\ i \in 1 .. a - m
      BY <1>2, <2>1, <2>4
    <3> QED BY <1>1, <2>1, <2>2, <2>3, <3>1
  <2> QED BY <1>3, <2>1, <2>5, <2>6 DEF m
<1>6. Fed(kinds, t, d) /\ (GoesOn(t) => GoesOn(s) /\ t.fed = s.fed + k)
  <2>1. GoesOn(s) => \A i \in 1 .. Len(f) : f[i] = s.fed + i
    BY <1>1, <1>5
  <2> QED BY <1>1, <1>4, <2>1, FedProcess
<1> HIDE DEF t
<1>7. GoesOn(t) => t.fed <= a /\ y \o x = Run(t.fed, a)
  BY <1>5, <1>6
<1> QED BY <1>6, <1>7 DEF t, f, y

(* Everything is read when the session has closed, or when the stream has  *)
(* ended and all of it was fed.                                            *)
LEMMA AllRead ==
  ASSUME NEW kinds \in Seq(Kinds), NEW s \in Session, NEW d \in Seq(Nat), Fed(kinds, s, d),
         s.plain = << >>, s.closed \/ s.fed = Len(kinds)
  PROVE  d = DataAmong(kinds)[Len(kinds)]
<1>1. s.fed \in 0 .. Len(kinds) /\ Len(kinds) \in s.fed .. Len(kinds)
  BY DEF Session, Fed
<1>2. d = DataAmong(kinds)[s.fed]
  <2>1. d \o << >> = d
    OBVIOUS
  <2> QED BY <2>1 DEF Fed
<1>3. CASE s.closed
  <2>1. s.fed # 0 /\ Closes(kinds, s.fed)
    BY <1>3 DEF Fed, Closes
  <2> QED BY <1>1, <1>2, <2>1, DataGrows
<1>4. CASE s.fed = Len(kinds)
  BY <1>2, <1>4
<1> QED BY <1>3, <1>4

(* What has been read is the beginning of what there is to read.           *)
LEMMA ReadIsPrefix ==
  ASSUME NEW kinds \in Seq(Kinds), NEW s \in Session, NEW d \in Seq(Nat), Fed(kinds, s, d)
  PROVE  IsPrefix(d \o s.plain, DataAmong(kinds)[Len(kinds)])
<1> DEFINE p == d \o s.plain
           q == DataAmong(kinds)[Len(kinds)]
<1>1. s.fed \in 0 .. Len(kinds) /\ Len(kinds) \in s.fed .. Len(kinds) /\ Len(kinds) \in 0 .. Len(kinds)
  BY DEF Session, Fed
<1>2. p = DataAmong(kinds)[s.fed]
  BY DEF Fed
<1>3. p \in Seq(Nat) /\ q \in Seq(Nat) /\ Begins(p, q)
  BY <1>1, <1>2, DataType, DataGrows
<1> HIDE DEF p, q
<1>4. p = SubSeq(q, 1, Len(p))
  <2> DEFINE r == SubSeq(q, 1, Len(p))
  <2>1. Len(p) \in Nat /\ Len(q) \in Nat /\ Len(p) <= Len(q)
    BY <1>3 DEF Begins
  <2>2. r \in Seq(Nat) /\ Len(r) = Len(p) /\ \A i \in 1 .. Len(p) : r[i] = q[i]
    BY <1>3, <2>1
  <2> HIDE DEF r
  <2>3. r = p
    BY <1>3, <2>2, SameSeq DEF Begins
  <2> QED BY <2>3 DEF r
<1>5. IsPrefix(p, q)
  BY <1>3, <1>4 DEF IsPrefix, Begins
<1> QED BY <1>5 DEF p, q
-----------------------------------------------------------------------------
(* Steps of the side that writes.                                          *)

LEMMA PeerKinds ==
  ASSUME Shape
  PROVE  /\ peer.kinds \in Seq(Kinds) /\ Len(peer.kinds) \in Nat
         /\ arrived \in 0 .. Len(peer.kinds) /\ arrived \in Nat
         /\ 1 .. arrived \subseteq 1 .. Len(peer.kinds)
<1>1. peer.kinds \in Seq(Kinds) /\ arrived \in 0 .. Len(peer.kinds)
  BY ConnAssumption DEF Shape, PeerType
<1> QED BY <1>1

LEMMA AcceptingType ==
  ASSUME NEW s \in Session, NEW n \in Nat, s.taken <= s.produced
  PROVE  /\ Accepts(s, n) \in Nat
         /\ Accepting(s, n) \in Session
         /\ Accepting(s, n).taken = s.taken
         /\ Accepting(s, n).taken <= Accepting(s, n).produced
         /\ SameReader(s, Accepting(s, n))
<1>1. s.produced \in Nat /\ s.taken \in Nat /\ Limit \in Nat
  BY SessionAssumption DEF Session
<1>2. Accepts(s, n) \in Nat
  BY <1>1 DEF Accepts, Lesser, Pending
<1>3. s.produced + Accepts(s, n) \in Nat /\ s.taken <= s.produced + Accepts(s, n)
  BY <1>1, <1>2
<1> QED BY <1>2, <1>3 DEF Accepting, Session, SameReader

(* What a write leaves: the session with the same input, and its own state.*)
Written(s) ==
  /\ tls' \in Session /\ tls'.taken <= tls'.produced /\ SameReader(s, tls')
  /\ ask' \in Nat /\ wrote' \in Nat

LEMMA WriteReturnsLeaves ==
  ASSUME NEW s \in Session, s.taken <= s.produced, NEW result, WriteReturns(s, result)
  PROVE  Written(s) /\ tls'.taken = s.taken /\ wpc' = "Idle"
BY DEF WriteReturns, Written, SameReader

LEMMA WriteAwaitsLeaves ==
  ASSUME NEW s \in Session, s.taken <= s.produced, NEW pc, NEW n \in Nat, NEW accepted \in Nat,
         WriteAwaits(s, pc, n, accepted)
  PROVE  Written(s) /\ tls' = s /\ wpc' = pc
BY DEF WriteAwaits, Written, SameReader

LEMMA SendLeaves ==
  ASSUME NEW s \in Session, s.taken <= s.produced, NEW n \in Nat, NEW accepted \in Nat,
         SendGoesOn(s, n, accepted)
  PROVE  Written(s) /\ tls'.taken = s.taken /\ wpc' \in {"Idle", "Send"}
<1>1. CASE wants_write(s)
  <2>1. WriteAwaits(s, "Send", n, accepted)
    BY <1>1 DEF SendGoesOn
  <2> QED BY <2>1, WriteAwaitsLeaves
<1>2. CASE ~wants_write(s) /\ accepted # 0
  <2>1. WriteReturns(s, "Ok")
    BY <1>2 DEF SendGoesOn
  <2> QED BY <2>1, WriteReturnsLeaves
<1>3. CASE ~wants_write(s) /\ accepted = 0
  <2> DEFINE t == Accepting(s, n)
  <2>1. WriteAwaits(t, "Send", n, Accepts(s, n))
    BY <1>3 DEF SendGoesOn
  <2>2. /\ t \in Session /\ t.taken = s.taken /\ t.taken <= t.produced /\ SameReader(s, t)
        /\ Accepts(s, n) \in Nat
    BY AcceptingType
  <2> HIDE DEF t
  <2>3. Written(t) /\ tls' = t /\ wpc' = "Send"
    BY <2>1, <2>2, WriteAwaitsLeaves
  <2> QED BY <2>2, <2>3 DEF Written, SameReader
<1> QED BY <1>1, <1>2, <1>3

(* g is what the socket was given: write_tls() into the empty buffer adds  *)
(* what comes next.                                                        *)
GivenNext(g, s) ==
  /\ wbuf' \in Seq(Nat) /\ Len(wbuf') <= BufSize
  /\ wbuf' # << >> <=> wpc' \in {"Write", "Flush"}
  /\ Increasing(g \o wbuf') /\ Within(g \o wbuf', tls'.taken)
  /\ g = UpTo(s.taken) => g \o wbuf' = UpTo(tls'.taken)

LEMMA EncryptLeaves ==
  ASSUME NEW g \in Seq(Nat), NEW s \in Session, s.taken <= s.produced,
         Increasing(g), Within(g, s.taken),
         NEW pc \in {"Write", "Flush"}, NEW n \in Nat, NEW accepted \in Nat,
         Encrypt(s, pc, n, accepted)
  PROVE  Written(s) /\ wpc' = pc /\ GivenNext(g, s)
<1>1. PICK k \in 1 .. Lesser(BufSize, Pending(s)) :
        WriteAwaits(TakeOut(s, k), pc, n, accepted) /\ wbuf' = TakenOut(s, k)
  BY DEF Encrypt
<1> DEFINE t == TakeOut(s, k)
<1>2. s.taken \in Nat /\ s.produced \in Nat /\ BufSize \in Nat
  BY ConnAssumption DEF Session
<1>3. k \in Nat /\ k # 0 /\ k <= BufSize /\ s.taken + k <= s.produced
  BY <1>1, <1>2 DEF Lesser, Pending
<1>4. /\ t \in Session /\ t.taken = s.taken + k /\ t.produced = s.produced /\ SameReader(s, t)
      /\ wbuf' \in Seq(Nat) /\ Len(wbuf') = k
  BY <1>1, <1>3, TakenOutType
<1> HIDE DEF t
<1>5. Written(t) /\ tls' = t /\ wpc' = pc
  <2>1. WriteAwaits(t, pc, n, accepted)
    BY <1>1 DEF t
  <2>2. t.taken <= t.produced
    BY <1>3, <1>4
  <2> QED BY <1>4, <2>1, <2>2, WriteAwaitsLeaves
<1>6. /\ Increasing(g \o wbuf') /\ Within(g \o wbuf', tls'.taken)
      /\ g = UpTo(s.taken) => g \o wbuf' = UpTo(tls'.taken)
  <2>1. k \in Nat /\ tls'.taken = s.taken + k
    BY <1>3, <1>4, <1>5
  <2>2. /\ Increasing(g \o TakenOut(s, k)) /\ Within(g \o TakenOut(s, k), s.taken + k)
        /\ g = UpTo(s.taken) => g \o TakenOut(s, k) = UpTo(s.taken + k)
    BY <2>1, AddTaken
  <2> QED BY <1>1, <2>1, <2>2
<1>7. wbuf' # << >> /\ Len(wbuf') <= BufSize
  BY <1>2, <1>3, <1>4
<1> QED BY <1>4, <1>5, <1>6, <1>7 DEF GivenNext, Written, SameReader

LEMMA ReturnLeaves ==
  ASSUME NEW g \in Seq(Nat), NEW s \in Session, s.taken <= s.produced,
         Increasing(g), Within(g, s.taken), NEW result,
         WriteReturns(s, result), wbuf' = << >>
  PROVE  Written(s) /\ wpc' = "Idle" /\ GivenNext(g, s)
<1>1. Written(s) /\ tls'.taken = s.taken /\ wpc' = "Idle"
  BY WriteReturnsLeaves
<1>2. g \o wbuf' = g /\ << >> \in Seq(Nat) /\ Len(<< >>) = 0
  OBVIOUS
<1>3. BufSize \in Nat
  BY ConnAssumption
<1> QED BY <1>1, <1>2, <1>3 DEF GivenNext

LEMMA SectionLeaves ==
  ASSUME NEW g \in Seq(Nat), NEW s \in Session, s.taken <= s.produced, tls = s,
         Increasing(g), Within(g, s.taken), NEW n \in Nat, WriteSection(n) \/ FlushSection
  PROVE  Written(s) /\ wpc' \in {"Idle", "Write", "Flush"} /\ GivenNext(g, s)
<1>1. CASE FlushSection
  <2>1. Encrypt(s, "Flush", 0, 0) \/ (WriteReturns(s, "Ok") /\ wbuf' = << >>)
    BY <1>1 DEF FlushSection
  <2> QED BY <2>1, EncryptLeaves, ReturnLeaves
<1>2. CASE WriteSection(n)
  <2> DEFINE t == Accepting(s, n)
  <2>1. Encrypt(t, "Write", n, Accepts(s, n)) \/ (WriteReturns(t, "Ok") /\ wbuf' = << >>)
    BY <1>2 DEF WriteSection
  <2>2. /\ t \in Session /\ t.taken = s.taken /\ t.taken <= t.produced /\ SameReader(s, t)
        /\ Accepts(s, n) \in Nat
    BY AcceptingType
  <2> HIDE DEF t
  <2>3. Written(t) /\ wpc' \in {"Idle", "Write"} /\ GivenNext(g, t)
    BY <2>1, <2>2, EncryptLeaves, ReturnLeaves
  <2> QED BY <2>2, <2>3 DEF Written, SameReader, GivenNext
<1> QED BY <1>1, <1>2
(* A step of the writing side keeps the invariant.                         *)
LEMMA StepFromWrite ==
  ASSUME IInv, UNCHANGED << netVars, inbox, phase, readVars >>,
         Written(tls), wire' \in Seq(Nat), wbuf' \in Seq(Nat), Len(wbuf') <= BufSize,
         wpc' \in {"Idle", "Send", "Write", "Flush"},
         wpc' = "Send" => phase = "Whole", wpc' \in {"Write", "Flush"} => phase = "Split",
         wbuf' # << >> <=> wpc' \in {"Write", "Flush"},
         Ciphertext'
  PROVE  IInv'
<1>1. Shape'
  BY DEF IInv, Shape, Written, netVars, readVars
<1>2. Calls'
  BY DEF IInv, Calls, netVars, readVars
<1>3. Plaintext'
  BY DEF IInv, Plaintext, Written, SameReader, Fed, GoesOn, DataUnits, netVars, readVars
<1> QED BY <1>1, <1>2, <1>3 DEF IInv

(* The parts of the invariant a step of the writing side starts from.      *)
LEMMA WriterFacts ==
  ASSUME IInv
  PROVE  /\ tls \in Session /\ tls.taken <= tls.produced /\ tls.taken \in Nat
         /\ wire \in Seq(Nat) /\ wbuf \in Seq(Nat) /\ Len(wbuf) <= BufSize
         /\ ask \in Nat /\ wrote \in Nat /\ Given \in Seq(Nat)
         /\ Increasing(Given) /\ Within(Given, tls.taken) /\ (~cut => Given = UpTo(tls.taken))
<1>1. /\ tls \in Session /\ tls.taken <= tls.produced /\ wire \in Seq(Nat) /\ wbuf \in Seq(Nat)
      /\ Len(wbuf) <= BufSize /\ ask \in Nat /\ wrote \in Nat
  BY DEF IInv, Shape
<1>2. tls.taken \in Nat
  BY <1>1 DEF Session
<1>3. Given \in Seq(Nat)
  BY <1>1 DEF Given
<1> QED BY <1>1, <1>2, <1>3 DEF IInv, Ciphertext

LEMMA CiphertextSame ==
  ASSUME Ciphertext, tls'.taken = tls.taken, wire' = wire, wbuf' = wbuf, cut' = cut
  PROVE  Ciphertext'
<1>1. Given' = Given
  BY DEF Given
<1> QED BY <1>1 DEF Ciphertext, Increasing, Within, UpTo

LEMMA SendKeeps ==
  ASSUME IInv, NEW n \in Sizes, Send(n)
  PROVE  IInv'
<1> DEFINE t == Accepting(tls, n)
<1>1. n \in Nat
  BY ConnAssumption
<1>2. /\ t \in Session /\ t.taken = tls.taken /\ t.taken <= t.produced /\ SameReader(tls, t)
      /\ Accepts(tls, n) \in Nat
  BY <1>1, WriterFacts, AcceptingType
<1>3. SendGoesOn(t, n, Accepts(tls, n)) /\ phase = "Whole" /\ wpc = "Idle"
      /\ UNCHANGED << netVars, inbox, wire, phase, readVars, wbuf, cut >>
  BY DEF Send, Idle
<1> HIDE DEF t
<1>4. Written(t) /\ tls'.taken = t.taken /\ wpc' \in {"Idle", "Send"}
  BY <1>1, <1>2, <1>3, SendLeaves
<1>5. Written(tls) /\ tls'.taken = tls.taken
  BY <1>2, <1>4 DEF Written, SameReader
<1>6. Ciphertext'
  BY <1>3, <1>5, CiphertextSame DEF IInv
<1>7. wbuf = << >>
  BY <1>3 DEF IInv, Calls
<1> QED BY <1>3, <1>4, <1>5, <1>6, <1>7, WriterFacts, StepFromWrite

(* write_tls() to the socket.                                              *)
LEMMA CiphertextTaken ==
  ASSUME IInv, wbuf = << >>, wbuf' = << >>, cut' = cut, NEW k \in Nat,
         tls'.taken = tls.taken + k, wire' = wire \o TakenOut(tls, k)
  PROVE  Ciphertext' /\ wire' \in Seq(Nat)
<1>1. wire \in Seq(Nat) /\ Given = wire
  <2>1. wire \in Seq(Nat)
    BY WriterFacts
  <2>2. wire \o << >> = wire
    BY <2>1
  <2> QED BY <2>1, <2>2 DEF Given
<1>2. /\ wire \o TakenOut(tls, k) \in Seq(Nat)
      /\ Increasing(wire \o TakenOut(tls, k))
      /\ Within(wire \o TakenOut(tls, k), tls.taken + k)
      /\ wire = UpTo(tls.taken) => wire \o TakenOut(tls, k) = UpTo(tls.taken + k)
  BY <1>1, WriterFacts, AddTaken
<1>3. wire' \in Seq(Nat) /\ Given' = wire'
  <2>1. wire' \in Seq(Nat)
    BY <1>2
  <2>2. wire' \o << >> = wire'
    BY <2>1
  <2> QED BY <2>1, <2>2 DEF Given
<1>4. ~cut => wire = UpTo(tls.taken)
  BY <1>1, WriterFacts
<1>5. Increasing(wire') /\ Within(wire', tls'.taken) /\ (~cut => wire' = UpTo(tls'.taken))
  BY <1>2, <1>4
<1>6. Increasing(Given') /\ Within(Given', tls'.taken) /\ (~cut' => Given' = UpTo(tls'.taken))
  BY <1>3, <1>5
<1> QED BY <1>3, <1>6 DEF Ciphertext, Increasing, Within, UpTo

LEMMA SendMoreKeeps ==
  ASSUME IInv, SendMore
  PROVE  IInv'
<1>1. PICK k \in 1 .. Pending(tls) : wire' = wire \o TakenOut(tls, k)
                                     /\ SendGoesOn(TakeOut(tls, k), ask, wrote)
  BY DEF SendMore
<1>2. wpc = "Send" /\ UNCHANGED << netVars, inbox, phase, readVars, wbuf, cut >>
  BY DEF SendMore
<1> DEFINE t == TakeOut(tls, k)
<1>3. /\ k \in Nat /\ t \in Session /\ t.taken = tls.taken + k /\ SameReader(tls, t)
      /\ t.taken <= t.produced
  <2>1. tls.taken \in Nat /\ tls.produced \in Nat /\ tls \in Session
    BY WriterFacts DEF Session
  <2>2. k \in Nat /\ tls.taken + k <= tls.produced
    BY <2>1 DEF Pending
  <2> QED BY <2>1, <2>2, TakenOutType
<1> HIDE DEF t
<1>4. Written(t) /\ tls'.taken = t.taken /\ wpc' \in {"Idle", "Send"}
  <2>1. SendGoesOn(t, ask, wrote)
    BY <1>1 DEF t
  <2> QED BY <1>3, <2>1, WriterFacts, SendLeaves
<1>5. Written(tls) /\ tls'.taken = tls.taken + k
  BY <1>3, <1>4 DEF Written, SameReader
<1>6. wbuf = << >> /\ phase = "Whole"
  BY <1>2 DEF IInv, Calls
<1>7. Ciphertext' /\ wire' \in Seq(Nat)
  BY <1>1, <1>2, <1>3, <1>5, <1>6, CiphertextTaken
<1> QED BY <1>2, <1>4, <1>5, <1>6, <1>7, WriterFacts, StepFromWrite
(* The write half from the lock to the await, the socket having been given *)
(* all of g that came before.                                              *)
LEMMA SectionKeeps ==
  ASSUME IInv, phase = "Split", UNCHANGED << netVars, inbox, phase, readVars >>,
         NEW n \in Nat, WriteSection(n) \/ FlushSection,
         wire' \in Seq(Nat), Increasing(wire'), Within(wire', tls.taken),
         ~cut' => wire' = UpTo(tls.taken)
  PROVE  IInv'
<1> DEFINE g == wire'
<1>1. Written(tls) /\ wpc' \in {"Idle", "Write", "Flush"} /\ GivenNext(g, tls)
  BY WriterFacts, SectionLeaves
<1>2. Increasing(Given') /\ Within(Given', tls'.taken) /\ (~cut' => Given' = UpTo(tls'.taken))
  <2>1. Given' = g \o wbuf'
    BY DEF Given
  <2> HIDE DEF g
  <2>2. ~cut' => g = UpTo(tls.taken)
    BY DEF g
  <2> QED BY <1>1, <2>1, <2>2 DEF GivenNext
<1>3. Ciphertext'
  BY <1>2 DEF Ciphertext, Increasing, Within, UpTo
<1>4. wbuf' \in Seq(Nat) /\ Len(wbuf') <= BufSize /\ (wbuf' # << >> <=> wpc' \in {"Write", "Flush"})
  BY <1>1 DEF GivenNext
<1> QED BY <1>1, <1>3, <1>4, StepFromWrite

(* Without a call of the write half nothing waits in its buffer.           *)
LEMMA GivenIsWire ==
  ASSUME IInv, wpc \in {"Idle", "Send"}
  PROVE  wbuf = << >> /\ Given = wire
<1>1. wbuf = << >> /\ wire \in Seq(Nat)
  BY DEF IInv, Calls, Shape
<1>2. wire \o << >> = wire
  BY <1>1
<1> QED BY <1>1, <1>2 DEF Given

LEMMA HalfStartKeeps ==
  ASSUME IInv, (\E n \in Sizes : HalfWrite(n)) \/ HalfFlush
  PROVE  IInv'
<1>1. /\ phase = "Split" /\ wpc = "Idle"
      /\ UNCHANGED << netVars, inbox, wire, phase, readVars, cut >>
  BY DEF HalfWrite, HalfFlush, MayWrite
<1>2. \E n \in Nat : WriteSection(n) \/ FlushSection
  <2>1. CASE HalfFlush
    BY <2>1 DEF HalfFlush
  <2>2. CASE \E n \in Sizes : HalfWrite(n)
    BY <2>2, ConnAssumption DEF HalfWrite
  <2> QED BY <2>1, <2>2
<1>3. PICK n \in Nat : WriteSection(n) \/ FlushSection
  BY <1>2
<1>4. Given = wire
  BY <1>1, GivenIsWire
<1>5. /\ wire' = wire /\ cut' = cut /\ wire \in Seq(Nat)
      /\ Increasing(wire) /\ Within(wire, tls.taken) /\ (~cut => wire = UpTo(tls.taken))
  BY <1>1, <1>4, WriterFacts
<1>6. /\ wire' \in Seq(Nat) /\ Increasing(wire') /\ Within(wire', tls.taken)
      /\ ~cut' => wire' = UpTo(tls.taken)
  BY <1>5
<1> QED BY <1>1, <1>3, <1>6, SectionKeeps

LEMMA HalfSendKeeps ==
  ASSUME IInv, HalfSend
  PROVE  IInv'
<1>1. PICK k \in 1 .. Len(wbuf) :
        /\ wire' = wire \o FirstOf(wbuf, k)
        /\ cut' = (cut \/ k < Len(wbuf))
  BY DEF HalfSend
<1>2. /\ wpc \in {"Write", "Flush"} /\ AfterHalfSend
      /\ UNCHANGED << netVars, inbox, phase, readVars >>
  BY DEF HalfSend
<1>3. phase = "Split"
  BY <1>2 DEF IInv, Calls
<1>4. /\ wire' \in Seq(Nat) /\ Increasing(wire') /\ Within(wire', tls.taken)
      /\ k = Len(wbuf) => wire' = Given
  <2>1. /\ wire \in Seq(Nat) /\ wbuf \in Seq(Nat)
        /\ Increasing(wire \o wbuf) /\ Within(wire \o wbuf, tls.taken)
    BY WriterFacts DEF Given
  <2>2. /\ wire \o FirstOf(wbuf, k) \in Seq(Nat)
        /\ Increasing(wire \o FirstOf(wbuf, k)) /\ Within(wire \o FirstOf(wbuf, k), tls.taken)
        /\ k = Len(wbuf) => wire \o FirstOf(wbuf, k) = wire \o wbuf
    BY <2>1, CutGiven
  <2> QED BY <1>1, <2>2 DEF Given
<1>5. ~cut' => wire' = UpTo(tls.taken)
  <2>1. Len(wbuf) \in Nat /\ (~cut => Given = UpTo(tls.taken))
    BY WriterFacts
  <2>2. ~cut' => ~cut /\ ~(k < Len(wbuf))
    BY <1>1, Zenon
  <2>3. ~(k < Len(wbuf)) => k = Len(wbuf)
    BY <2>1
  <2> QED BY <1>4, <2>1, <2>2, <2>3
<1>6. WriteSection(ask) \/ FlushSection \/ (WriteReturns(tls, "Ok") /\ wbuf' = << >>)
  BY <1>2 DEF AfterHalfSend
<1>7. CASE WriteSection(ask) \/ FlushSection
  <2>1. ask \in Nat
    BY WriterFacts
  <2> QED BY <1>2, <1>3, <1>4, <1>5, <1>7, <2>1, SectionKeeps
<1>8. CASE WriteReturns(tls, "Ok") /\ wbuf' = << >>
  <2>1. Written(tls) /\ tls'.taken = tls.taken /\ wpc' = "Idle"
    BY <1>8, WriterFacts, WriteReturnsLeaves
  <2>2. Given' = wire'
    <3>1. wire' \o << >> = wire'
      BY <1>4
    <3> QED BY <1>8, <3>1 DEF Given
  <2>3. Ciphertext'
    <3>1. Increasing(Given') /\ Within(Given', tls'.taken) /\ (~cut' => Given' = UpTo(tls'.taken))
      BY <1>4, <1>5, <2>1, <2>2
    <3> QED BY <3>1 DEF Ciphertext, Increasing, Within, UpTo
  <2>4. wbuf' \in Seq(Nat) /\ Len(wbuf') <= BufSize
    BY <1>8, ConnAssumption
  <2> QED BY <1>2, <1>4, <1>8, <2>1, <2>3, <2>4, StepFromWrite
<1> QED BY <1>6, <1>7, <1>8

LEMMA WriteFailsKeeps ==
  ASSUME IInv, WriteFails
  PROVE  IInv'
<1>1. /\ WriteReturns(tls, "Error") /\ wbuf' = << >> /\ cut' = (cut \/ wbuf # << >>)
      /\ UNCHANGED << netVars, inbox, wire, phase, readVars >>
  BY DEF WriteFails
<1>2. Written(tls) /\ tls'.taken = tls.taken /\ wpc' = "Idle"
  BY <1>1, WriterFacts, WriteReturnsLeaves
<1>3. wire' = wire /\ wire \in Seq(Nat) /\ Given' = wire
  <2>1. wire' = wire /\ wire \in Seq(Nat)
    BY <1>1, WriterFacts
  <2>2. wire \o << >> = wire
    BY <2>1
  <2> QED BY <1>1, <2>1, <2>2 DEF Given
<1>4. Increasing(wire) /\ Within(wire, tls.taken)
  <2>1. CASE wbuf = << >>
    <3>1. wire \o << >> = wire
      BY <1>3
    <3> QED BY <2>1, <3>1, WriterFacts DEF Given
  <2>2. CASE wbuf # << >>
    <3> DEFINE c == wire \o wbuf
    <3>1. Len(c) = Len(wire) + Len(wbuf) /\ Len(wire) \in Nat /\ Len(wbuf) \in Nat
          /\ \A i \in 1 .. Len(wire) : c[i] = wire[i]
      BY WriterFacts
    <3>2. Increasing(c) /\ Within(c, tls.taken)
      BY WriterFacts DEF Given
    <3> HIDE DEF c
    <3>3. 1 .. Len(wire) \subseteq 1 .. Len(c)
      BY <3>1
    <3> QED BY <3>1, <3>2, <3>3 DEF Increasing, Within
  <2> QED BY <2>1, <2>2
<1>5. ~cut' => wire = UpTo(tls.taken)
  <2>1. ~cut' => ~cut /\ wbuf = << >>
    BY <1>1, Zenon
  <2>2. wire \o << >> = wire /\ (~cut => Given = UpTo(tls.taken))
    BY <1>3, WriterFacts
  <2> QED BY <2>1, <2>2 DEF Given
<1>6. Ciphertext'
  <2>1. Increasing(Given') /\ Within(Given', tls'.taken) /\ (~cut' => Given' = UpTo(tls'.taken))
    BY <1>2, <1>3, <1>4, <1>5
  <2> QED BY <2>1 DEF Ciphertext, Increasing, Within, UpTo
<1>7. wbuf' \in Seq(Nat) /\ Len(wbuf') <= BufSize
  BY <1>1, ConnAssumption
<1> QED BY <1>1, <1>2, <1>3, <1>6, <1>7, StepFromWrite
-----------------------------------------------------------------------------
(* Steps of the side that reads.                                           *)

(* What a read leaves of the session s: it passes data on and loses none.  *)
ReadFrom(s) ==
  /\ tls' \in Session /\ tls'.taken = s.taken /\ tls'.produced = s.produced
  /\ tls'.fed = s.fed /\ tls'.closed = s.closed /\ tls'.broken = s.broken
  /\ delivered' \in Seq(Nat) /\ delivered' \o tls'.plain = delivered \o s.plain

LEMMA ReadDataLeaves ==
  ASSUME NEW s \in Session, delivered \in Seq(Nat), ReadData(s)
  PROVE  ReadFrom(s) /\ rpc' = "Idle" /\ rres' = "Ok"
<1>1. PICK n \in 1 .. Len(s.plain) :
        /\ rpc' = "Idle" /\ rres' = "Ok"
        /\ tls' = [s EXCEPT !.plain = RestOf(@, n)]
        /\ delivered' = delivered \o FirstOf(s.plain, n)
  BY DEF ReadData
<1> DEFINE p == s.plain
           f == FirstOf(p, n)
           r == RestOf(p, n)
<1>2. p \in Seq(Nat) /\ n \in 0 .. Len(p)
  BY DEF Session
<1>3. f \in Seq(Nat) /\ r \in Seq(Nat) /\ f \o r = p
  BY <1>2, Parts
<1> HIDE DEF f, r
<1>4. (delivered \o f) \o r = delivered \o (f \o r) /\ delivered \o f \in Seq(Nat)
  <2>1. f \in Seq(Nat) /\ r \in Seq(Nat)
    BY <1>3
  <2> QED BY <2>1
<1>5. tls' = [s EXCEPT !.plain = r] /\ delivered' = delivered \o f
  BY <1>1 DEF r, f
<1>6. /\ tls' \in Session /\ tls'.taken = s.taken /\ tls'.produced = s.produced
      /\ tls'.fed = s.fed /\ tls'.closed = s.closed /\ tls'.broken = s.broken /\ tls'.plain = r
  BY <1>3, <1>5 DEF Session
<1> QED BY <1>1, <1>3, <1>4, <1>5, <1>6 DEF ReadFrom

LEMMA ReadReturnsLeaves ==
  ASSUME NEW s \in Session, delivered \in Seq(Nat), NEW result, ReadReturns(s, result)
  PROVE  ReadFrom(s) /\ rpc' = "Idle" /\ rres' = result /\ tls' = s /\ delivered' = delivered
BY DEF ReadReturns, ReadFrom

LEMMA ReadAwaitsLeaves ==
  ASSUME NEW s \in Session, delivered \in Seq(Nat), NEW pc, ReadAwaits(s, pc)
  PROVE  ReadFrom(s) /\ rpc' = pc /\ rres' = "None" /\ tls' = s /\ delivered' = delivered
BY DEF ReadAwaits, ReadFrom

(* A session that was fed and read from is one that was fed.               *)
LEMMA FedReadFrom ==
  ASSUME NEW kinds, NEW s, Fed(kinds, s, delivered), ReadFrom(s)
  PROVE  Fed(kinds, tls', delivered') /\ (GoesOn(tls') <=> GoesOn(s))
BY DEF Fed, ReadFrom, GoesOn

(* What the server sent that has not been fed waits, the first of it in b  *)
(* and the rest in x.                                                      *)
Waits(s, b, x) == GoesOn(s) => s.fed <= arrived /\ b \o x = Run(s.fed, arrived)

(* A step of the reading side keeps the invariant.                         *)
LEMMA StepFromRead ==
  ASSUME IInv, UNCHANGED << netVars, wire, phase, lost, writeVars >>, rpc \notin ConnectStates,
         NEW s \in Session, s.taken = tls.taken, tls.produced <= s.produced, ReadFrom(s),
         inbox' \in Seq(1 .. arrived), rbuf' \in Seq(1 .. arrived), Len(rbuf') <= BufCapacity,
         phase # "Split" => rbuf' = << >>,
         rpc' = "Idle" \/ (rpc' = "Recv" /\ phase = "Whole" /\ GoesOn(s))
                       \/ (rpc' = "Fill" /\ phase = "Split"),
         rpc' # "Idle" => tls'.plain = << >>,
         ~lost => Fed(peer.kinds, s, delivered) /\ Waits(s, rbuf', inbox'),
         ~lost /\ rres' = "End" => delivered' = DataUnits
  PROVE  IInv'
<1>1. Shape'
  <2>1. tls' \in Session /\ tls'.taken <= tls'.produced /\ delivered' \in Seq(Nat)
    <3>1. tls.taken \in Nat /\ tls.produced \in Nat /\ s.produced \in Nat /\ tls.taken <= tls.produced
      BY WriterFacts DEF Session
    <3>2. tls' \in Session /\ tls'.taken = tls.taken /\ tls'.produced = s.produced
      BY DEF ReadFrom
    <3>3. tls.taken <= s.produced
      BY <3>1
    <3> QED BY <3>2, <3>3 DEF ReadFrom
  <2> QED BY <2>1 DEF IInv, Shape, netVars, writeVars
<1>2. Calls'
  <2>1. rpc' \in {"Idle", "Recv", "Fill"} /\ phase' = phase
    OBVIOUS
  <2>2. phase # "Connecting"
    BY DEF IInv, Calls
  <2> QED BY <2>1, <2>2 DEF IInv, Calls, ConnectStates, writeVars
<1>3. Ciphertext'
  <2>1. tls'.taken = tls.taken /\ wire' = wire /\ wbuf' = wbuf /\ cut' = cut
    BY DEF ReadFrom, writeVars
  <2> QED BY <2>1, CiphertextSame DEF IInv
<1>4. Plaintext'
  <2>1. arrived' = arrived /\ peer' = peer /\ fin' = fin /\ lost' = lost
    BY DEF netVars
  <2>2. fin' => arrived' = Len(peer'.kinds)
    BY <2>1 DEF IInv, Plaintext
  <2>3. rpc' = "Recv" => GoesOn(tls')
    BY DEF ReadFrom, GoesOn
  <2>4. ASSUME ~lost'
        PROVE  /\ Fed(peer'.kinds, tls', delivered')
               /\ GoesOn(tls') => tls'.fed <= arrived' /\ rbuf' \o inbox' = Run(tls'.fed, arrived')
               /\ rres' = "End" => delivered' = DataUnits
    <3>1. Fed(peer.kinds, s, delivered) /\ Waits(s, rbuf', inbox')
      BY <2>1, <2>4
    <3>2. Fed(peer.kinds, tls', delivered') /\ (GoesOn(tls') <=> GoesOn(s)) /\ tls'.fed = s.fed
      BY <3>1, FedReadFrom DEF ReadFrom
    <3> QED BY <2>1, <2>4, <3>1, <3>2 DEF Waits
  <2>5. DataUnits' = DataUnits
    BY <2>1 DEF DataUnits
  <2> QED BY <2>2, <2>3, <2>4, <2>5 DEF Plaintext, Fed, GoesOn, Run
<1> QED BY <1>1, <1>2, <1>3, <1>4 DEF IInv
(* The parts of the invariant a step of the reading side starts from.      *)
LEMMA ReaderFacts ==
  ASSUME IInv
  PROVE  /\ tls \in Session /\ tls.taken <= tls.produced /\ tls.produced \in Nat
         /\ tls.produced <= tls.produced
         /\ inbox \in Seq(1 .. arrived) /\ rbuf \in Seq(1 .. arrived) /\ Len(rbuf) <= BufCapacity
         /\ delivered \in Seq(Nat)
         /\ rpc \in {"Recv", "Fill"} => tls.plain = << >>
         /\ rpc = "Recv" => phase = "Whole" /\ GoesOn(tls)
         /\ rpc = "Fill" => phase = "Split"
         /\ phase # "Split" => rbuf = << >>
         /\ fin => arrived = Len(peer.kinds)
         /\ ~lost => Fed(peer.kinds, tls, delivered) /\ Waits(tls, rbuf, inbox)
         /\ ~lost /\ rres = "End" => delivered = DataUnits
<1>1. tls \in Session /\ tls.produced \in Nat
  BY DEF IInv, Shape, Session
<1> QED BY <1>1 DEF IInv, Shape, Calls, Plaintext, Waits

(* The session with the first k of the units that wait in b.               *)
LEMMA FeedKeeps ==
  ASSUME IInv, NEW b \in Seq(1 .. arrived), NEW x \in Seq(1 .. arrived), NEW k \in 0 .. Len(b),
         ~lost => Waits(tls, b, x)
  PROVE  LET s == Process(tls, peer.kinds, FirstOf(b, k))
         IN  /\ s \in Session /\ s.taken = tls.taken /\ tls.produced <= s.produced
             /\ RestOf(b, k) \in Seq(1 .. arrived)
             /\ ~lost => Fed(peer.kinds, s, delivered) /\ Waits(s, RestOf(b, k), x)
<1> DEFINE s == Process(tls, peer.kinds, FirstOf(b, k))
           a == arrived
           kinds == peer.kinds
<1>1. kinds \in Seq(Kinds) /\ a \in 0 .. Len(kinds) /\ 1 .. a \subseteq 1 .. Len(kinds)
  BY PeerKinds DEF IInv
<1> DEFINE t == Process(tls, kinds, FirstOf(b, k))
<1>2. tls \in Session /\ delivered \in Seq(Nat)
  BY ReaderFacts
<1>3. FirstOf(b, k) \in Seq(1 .. a) /\ RestOf(b, k) \in Seq(1 .. a)
  BY Parts
<1>4. FirstOf(b, k) \in Seq(1 .. Len(kinds))
  BY <1>1, <1>3
<1>0. s = t
  OBVIOUS
<1> HIDE DEF a, kinds, s
<1>5. t \in Session /\ t.taken = tls.taken /\ tls.produced <= t.produced
  BY <1>1, <1>2, <1>4, ProcessType
<1>6. ASSUME ~lost PROVE Fed(kinds, t, delivered) /\ Waits(t, RestOf(b, k), x)
  <2>1. Fed(kinds, tls, delivered) /\ (GoesOn(tls) => tls.fed <= a /\ b \o x = Run(tls.fed, a))
    BY <1>6, ReaderFacts DEF Waits, a, kinds
  <2>2. b \in Seq(1 .. a) /\ x \in Seq(1 .. a)
    BY DEF a
  <2>3. /\ Fed(kinds, t, delivered)
        /\ GoesOn(t) => t.fed <= a /\ RestOf(b, k) \o x = Run(t.fed, a)
    <3>1. kinds \in Seq(Kinds) /\ a \in 0 .. Len(kinds)
      BY <1>1
    <3> QED BY <1>2, <2>1, <2>2, <3>1, FeedStep
  <2> QED BY <2>3 DEF Waits, a
<1> HIDE DEF t
<1> QED BY <1>0, <1>3, <1>5, <1>6 DEF a, kinds, s

(* All of the server's data has been read when the session closed.         *)
LEMMA EndIsEnd ==
  ASSUME IInv, NEW s \in Session, Fed(peer.kinds, s, delivered), s.plain = << >>,
         s.closed \/ s.fed = Len(peer.kinds)
  PROVE  delivered = DataUnits
<1>1. peer.kinds \in Seq(Kinds) /\ delivered \in Seq(Nat)
  BY PeerKinds, ReaderFacts DEF IInv
<1> QED BY <1>1, AllRead DEF DataUnits

LEMMA RecvKeeps ==
  ASSUME IInv, Recv
  PROVE  IInv'
<1>1. /\ phase = "Whole" /\ rpc = "Idle" /\ ~tls.broken
      /\ UNCHANGED << netVars, inbox, wire, phase, polledIn, rbuf, lost, writeVars >>
      /\ CASE ReadOutcome(tls) = "Data"          -> ReadData(tls)
           [] ReadOutcome(tls) = "UnexpectedEof" -> ReadReturns(tls, "Error")
           [] ReadOutcome(tls) = "End"           -> ReadReturns(tls, "End")
           [] ReadOutcome(tls) = "WouldBlock"    -> ReadAwaits(tls, "Recv")
  BY DEF Recv, MayRead
<1>2. /\ tls.plain # << >> => ReadOutcome(tls) = "Data"
      /\ tls.plain = << >> /\ tls.closed => ReadOutcome(tls) = "End"
      /\ tls.plain = << >> /\ ~tls.closed => ReadOutcome(tls) \in {"UnexpectedEof", "WouldBlock"}
  BY DEF ReadOutcome
<1>3. /\ ReadFrom(tls)
      /\ rpc' = "Idle" \/ (rpc' = "Recv" /\ GoesOn(tls))
      /\ rpc' # "Idle" => tls'.plain = << >>
      /\ rres' = "End" => tls.plain = << >> /\ tls.closed /\ delivered' = delivered
  <2>1. CASE tls.plain # << >>
    <3>1. ReadData(tls)
      BY <1>1, <1>2, <2>1
    <3> QED BY <3>1, ReaderFacts, ReadDataLeaves
  <2>2. CASE tls.plain = << >> /\ tls.closed
    <3>1. ReadReturns(tls, "End")
      BY <1>1, <1>2, <2>2
    <3> QED BY <2>2, <3>1, ReaderFacts, ReadReturnsLeaves
  <2>3. CASE tls.plain = << >> /\ ~tls.closed
    <3>1. ReadReturns(tls, "Error") \/ ReadAwaits(tls, "Recv")
      BY <1>1, <1>2, <2>3
    <3> QED BY <1>1, <2>3, <3>1, ReaderFacts, ReadReturnsLeaves, ReadAwaitsLeaves DEF GoesOn
  <2> QED BY <2>1, <2>2, <2>3
<1>4. ~lost => Fed(peer.kinds, tls, delivered) /\ Waits(tls, rbuf', inbox')
  BY <1>1, ReaderFacts
<1>5. ~lost /\ rres' = "End" => delivered' = DataUnits
  BY <1>3, <1>4, ReaderFacts, EndIsEnd
<1> QED BY <1>1, <1>3, <1>4, <1>5, ReaderFacts, StepFromRead DEF ConnectStates
LEMMA LesserIs ==
  ASSUME NEW m \in Nat, NEW n \in Nat
  PROVE  Lesser(m, n) \in 0 .. n /\ Lesser(m, n) <= m
BY DEF Lesser

LEMMA RecvMoreKeeps ==
  ASSUME IInv, RecvMore
  PROVE  IInv'
<1>1. PICK n \in 1 .. Lesser(ReadSize, Len(inbox)) :
        LET s == Process(tls, peer.kinds, FirstOf(inbox, n)) IN
          /\ inbox' = RestOf(inbox, n)
          /\ CASE s.broken                                  -> ReadReturns(s, "Error")
               [] ~s.broken /\ s.plain # << >>              -> ReadData(s)
               [] ~s.broken /\ s.plain = << >> /\ s.closed  -> ReadReturns(s, "End")
               [] ~s.broken /\ s.plain = << >> /\ ~s.closed -> ReadAwaits(s, "Recv")
  BY DEF RecvMore
<1> DEFINE s == Process(tls, peer.kinds, FirstOf(inbox, n))
<1>2. /\ rpc = "Recv" /\ phase = "Whole" /\ rbuf = << >>
      /\ UNCHANGED << netVars, wire, phase, polledIn, rbuf, lost, writeVars >>
  <2>1. rpc = "Recv" /\ UNCHANGED << netVars, wire, phase, polledIn, rbuf, lost, writeVars >>
    BY DEF RecvMore
  <2> QED BY <2>1, ReaderFacts
<1>3. n \in 0 .. Len(inbox) /\ << >> \in Seq(1 .. arrived) /\ inbox \in Seq(1 .. arrived)
  <2>1. inbox \in Seq(1 .. arrived) /\ Len(inbox) \in Nat /\ ReadSize \in Nat
    BY ReaderFacts, SessionAssumption
  <2>2. Lesser(ReadSize, Len(inbox)) \in 0 .. Len(inbox)
    BY <2>1, LesserIs
  <2>3. n \in 0 .. Len(inbox)
    BY <2>1, <2>2
  <2>4. << >> \in Seq(1 .. arrived)
    OBVIOUS
  <2> QED BY <2>1, <2>3, <2>4
<1>4. inbox \o << >> = inbox /\ << >> \o inbox = inbox
  BY <1>3
<1>5. ~lost => Waits(tls, inbox, << >>)
  BY <1>2, <1>4, ReaderFacts DEF Waits
<1>6. /\ s \in Session /\ s.taken = tls.taken /\ tls.produced <= s.produced
      /\ inbox' \in Seq(1 .. arrived)
      /\ ~lost => Fed(peer.kinds, s, delivered) /\ Waits(s, inbox', << >>)
  BY <1>1, <1>3, <1>5, FeedKeeps
<1>7. \/ s.broken /\ ReadReturns(s, "Error")
      \/ s.plain # << >> /\ ReadData(s)
      \/ s.plain = << >> /\ s.closed /\ ReadReturns(s, "End")
      \/ s.plain = << >> /\ GoesOn(s) /\ ReadAwaits(s, "Recv")
  BY <1>1 DEF GoesOn
<1> HIDE DEF s
<1>8. /\ ReadFrom(s)
      /\ rpc' = "Idle" \/ (rpc' = "Recv" /\ GoesOn(s))
      /\ rpc' # "Idle" => tls'.plain = << >>
      /\ rres' = "End" => s.plain = << >> /\ s.closed /\ delivered' = delivered
  BY <1>6, <1>7, ReaderFacts, ReadReturnsLeaves, ReadDataLeaves, ReadAwaitsLeaves
<1>9. ~lost => Waits(s, rbuf', inbox')
  <2>1. inbox' \o << >> = inbox' /\ << >> \o inbox' = inbox'
    BY <1>6
  <2> QED BY <1>2, <1>6, <2>1 DEF Waits
<1>10. ~lost /\ rres' = "End" => delivered' = DataUnits
  BY <1>6, <1>8, EndIsEnd
<1> QED BY <1>2, <1>3, <1>6, <1>8, <1>9, <1>10, ReaderFacts, StepFromRead DEF ConnectStates

LEMMA EofLeaves ==
  ASSUME NEW s \in Session
  PROVE  LET t == [s EXCEPT !.eof = TRUE]
         IN  t \in Session /\ t.taken = s.taken /\ t.produced = s.produced /\ SameReader(s, t)
BY DEF Session, SameReader

LEMMA RecvEofKeeps ==
  ASSUME IInv, RecvEof
  PROVE  IInv'
<1> DEFINE s == [tls EXCEPT !.eof = TRUE]
<1>1. /\ rpc = "Recv" /\ inbox = << >> /\ fin /\ ReadReturns(s, "End")
      /\ UNCHANGED << netVars, inbox, wire, phase, polledIn, rbuf, lost, writeVars >>
  BY DEF RecvEof, AtEof, RecvAtEof
<1>2. phase = "Whole" /\ GoesOn(tls) /\ rbuf = << >> /\ tls.plain = << >>
  BY <1>1, ReaderFacts
<1>3. /\ s \in Session /\ s.taken = tls.taken /\ tls.produced <= s.produced /\ SameReader(tls, s)
  BY ReaderFacts, EofLeaves
<1> HIDE DEF s
<1>4. ReadFrom(s) /\ rpc' = "Idle" /\ delivered' = delivered
  BY <1>1, <1>3, ReaderFacts, ReadReturnsLeaves
<1>5. ~lost => Fed(peer.kinds, s, delivered) /\ Waits(s, rbuf', inbox')
  BY <1>1, <1>3, ReaderFacts DEF SameReader, Fed, Waits, GoesOn
<1>6. ~lost => s.fed = Len(peer.kinds)
  <2> SUFFICES ASSUME ~lost PROVE tls.fed = Len(peer.kinds)
    BY <1>3 DEF SameReader
  <2>1. arrived = Len(peer.kinds) /\ arrived \in Nat /\ tls.fed \in Nat
    BY <1>1, PeerKinds, ReaderFacts DEF IInv, Session
  <2>2. tls.fed <= arrived /\ << >> \o << >> = Run(tls.fed, arrived)
    BY <1>1, <1>2, ReaderFacts DEF Waits
  <2>3. Len(Run(tls.fed, arrived)) = arrived - tls.fed
    BY <2>1, <2>2, RunType
  <2>4. Len(<< >> \o << >>) = 0
    OBVIOUS
  <2> QED BY <2>1, <2>2, <2>3, <2>4
<1>7. ~lost => delivered' = DataUnits
  BY <1>2, <1>3, <1>4, <1>5, <1>6, EndIsEnd DEF SameReader
<1> QED BY <1>1, <1>2, <1>3, <1>4, <1>5, <1>7, ReaderFacts, StepFromRead DEF ConnectStates

LEMMA ReadFailsKeeps ==
  ASSUME IInv, ReadFails
  PROVE  IInv'
<1>1. /\ rpc \in {"Recv", "Fill"} /\ ReadReturns(tls, "Error")
      /\ UNCHANGED << netVars, inbox, wire, phase, polledIn, rbuf, lost, writeVars >>
  BY DEF ReadFails
<1>2. ReadFrom(tls) /\ rpc' = "Idle" /\ rres' = "Error"
  BY <1>1, ReaderFacts, ReadReturnsLeaves
<1>3. ~lost => Fed(peer.kinds, tls, delivered) /\ Waits(tls, rbuf', inbox')
  BY <1>1, ReaderFacts
<1> QED BY <1>1, <1>2, <1>3, ReaderFacts, StepFromRead DEF ConnectStates

(* The read half from the lock to the await, with rb in its buffer.        *)
LEMMA ReadSectionKeeps ==
  ASSUME IInv, phase = "Split", UNCHANGED << netVars, wire, phase, lost, writeVars >>,
         NEW rb \in Seq(1 .. arrived), Len(rb) <= BufCapacity, inbox' \in Seq(1 .. arrived),
         ~lost => Waits(tls, rb, inbox'), ReadSection(rb)
  PROVE  IInv'
<1> DEFINE k == Lesser(ReadSize, Len(rb))
           p == Process(tls, peer.kinds, FirstOf(rb, k))
<1>1. /\ k \in 0 .. Len(rb) /\ Len(rb) \in Nat /\ rpc \notin ConnectStates
  <2>1. Len(rb) \in Nat /\ ReadSize \in Nat
    BY SessionAssumption
  <2>2. k \in 0 .. Len(rb)
    BY <2>1, LesserIs
  <2> QED BY <2>1, <2>2 DEF IInv, Calls
<1>2. \/ ReadData(tls) /\ rbuf' = rb
      \/ ReadReturns(tls, "Error") /\ rbuf' = rb
      \/ tls.plain = << >> /\ ReadAwaits(tls, "Fill") /\ rbuf' = rb
      \/ /\ rbuf' = RestOf(rb, k)
         /\ \/ ReadReturns(p, "Error")
            \/ ReadData(p)
            \/ p.plain = << >> /\ ReadAwaits(p, "Fill")
  <2>1. ReadOutcome(tls) \in {"Data", "UnexpectedEof", "End", "WouldBlock"}
        /\ (ReadOutcome(tls) = "End" => tls.plain = << >>)
    BY DEF ReadOutcome
  <2>2. CASE ReadOutcome(tls) # "WouldBlock"
    BY <2>1, <2>2 DEF ReadSection
  <2>3. CASE ReadOutcome(tls) = "WouldBlock"
    BY <2>3 DEF ReadSection, RestOfBuffer
  <2> QED BY <2>2, <2>3
<1> DEFINE Outcome(s) ==
             /\ ReadFrom(s)
             /\ rpc' \in {"Idle", "Fill"} /\ (rpc' # "Idle" => tls'.plain = << >>) /\ rres' # "End"
<1>3. CASE rbuf' = rb /\ (ReadData(tls) \/ ReadReturns(tls, "Error")
                            \/ (tls.plain = << >> /\ ReadAwaits(tls, "Fill")))
  <2>1. Outcome(tls)
    BY <1>3, ReaderFacts, ReadDataLeaves, ReadReturnsLeaves, ReadAwaitsLeaves
  <2>2. ~lost => Fed(peer.kinds, tls, delivered) /\ Waits(tls, rbuf', inbox')
    BY <1>3, ReaderFacts
  <2> QED BY <1>1, <1>3, <2>1, <2>2, ReaderFacts, StepFromRead
<1>4. CASE /\ rbuf' = RestOf(rb, k)
           /\ \/ ReadReturns(p, "Error")
              \/ ReadData(p)
              \/ p.plain = << >> /\ ReadAwaits(p, "Fill")
  <2>1. /\ p \in Session /\ p.taken = tls.taken /\ tls.produced <= p.produced
        /\ RestOf(rb, k) \in Seq(1 .. arrived)
        /\ ~lost => Fed(peer.kinds, p, delivered) /\ Waits(p, rbuf', inbox')
    BY <1>1, <1>4, FeedKeeps
  <2>2. Len(RestOf(rb, k)) <= BufCapacity
    <3>1. Len(RestOf(rb, k)) = Len(rb) - k /\ BufCapacity \in Nat
      BY <1>1, Parts, ConnAssumption
    <3> QED BY <1>1, <3>1
  <2> HIDE DEF p, k
  <2>3. Outcome(p)
    BY <1>4, <2>1, ReaderFacts, ReadDataLeaves, ReadReturnsLeaves, ReadAwaitsLeaves
  <2> QED BY <1>1, <1>4, <2>1, <2>2, <2>3, StepFromRead
<1> QED BY <1>2, <1>3, <1>4
LEMMA HalfReadKeeps ==
  ASSUME IInv, HalfRead \/ FillEof
  PROVE  IInv'
<1>1. /\ ReadSection(rbuf)
      /\ UNCHANGED << netVars, inbox, wire, phase, polledIn, lost, writeVars >>
  BY DEF HalfRead, FillEof
<1>2. phase = "Split"
  BY ReaderFacts DEF HalfRead, FillEof
<1>3. /\ rbuf \in Seq(1 .. arrived) /\ Len(rbuf) <= BufCapacity /\ inbox' \in Seq(1 .. arrived)
      /\ ~lost => Waits(tls, rbuf, inbox')
  BY <1>1, ReaderFacts
<1> QED BY <1>1, <1>2, <1>3, ReadSectionKeeps

LEMMA FillKeeps ==
  ASSUME IInv, Fill
  PROVE  IInv'
<1>1. PICK n \in 1 .. Lesser(BufCapacity - Len(rbuf), Len(inbox)) :
        inbox' = RestOf(inbox, n) /\ ReadSection(rbuf \o FirstOf(inbox, n))
  BY DEF Fill
<1>2. /\ rpc = "Fill" /\ phase = "Split"
      /\ UNCHANGED << netVars, wire, phase, polledIn, lost, writeVars >>
  BY ReaderFacts DEF Fill
<1> DEFINE f == FirstOf(inbox, n)
           r == RestOf(inbox, n)
           rb == rbuf \o f
<1>3. /\ Len(rbuf) \in Nat /\ Len(inbox) \in Nat /\ BufCapacity \in Nat /\ Len(rbuf) <= BufCapacity
      /\ rbuf \in Seq(1 .. arrived) /\ inbox \in Seq(1 .. arrived)
  BY ReaderFacts, ConnAssumption
<1>4. n \in 0 .. Len(inbox) /\ n <= BufCapacity - Len(rbuf)
  <2>1. BufCapacity - Len(rbuf) \in Nat
    BY <1>3
  <2>2. /\ Lesser(BufCapacity - Len(rbuf), Len(inbox)) \in 0 .. Len(inbox)
        /\ Lesser(BufCapacity - Len(rbuf), Len(inbox)) <= BufCapacity - Len(rbuf)
    BY <1>3, <2>1, LesserIs
  <2> QED BY <1>3, <2>1, <2>2
<1>5. f \in Seq(1 .. arrived) /\ Len(f) = n /\ r \in Seq(1 .. arrived) /\ f \o r = inbox
  BY <1>3, <1>4, Parts
<1> HIDE DEF f, r
<1>6. rb \in Seq(1 .. arrived) /\ Len(rb) = Len(rbuf) + n
  <2>1. rbuf \in Seq(1 .. arrived) /\ f \in Seq(1 .. arrived)
    BY <1>3, <1>5
  <2>2. rb \in Seq(1 .. arrived) /\ Len(rb) = Len(rbuf) + Len(f)
    BY <2>1
  <2> QED BY <1>5, <2>2
<1>7. rb \o r = rbuf \o inbox
  <2>1. rbuf \in Seq(1 .. arrived) /\ f \in Seq(1 .. arrived) /\ r \in Seq(1 .. arrived)
    BY <1>3, <1>5
  <2>2. (rbuf \o f) \o r = rbuf \o (f \o r)
    BY <2>1
  <2> QED BY <1>5, <2>2
<1>8. Len(rb) <= BufCapacity
  BY <1>3, <1>4, <1>6
<1> HIDE DEF rb
<1>9. inbox' = r /\ ReadSection(rb)
  BY <1>1 DEF rb, f, r
<1>10. ~lost => Waits(tls, rb, inbox')
  BY <1>7, <1>9, ReaderFacts DEF Waits
<1>11. inbox' \in Seq(1 .. arrived)
  BY <1>5, <1>9
<1> QED BY <1>2, <1>6, <1>8, <1>9, <1>10, <1>11, ReadSectionKeeps

-----------------------------------------------------------------------------
(* The network, the handshake and the halves' coming and going.            *)

LEMMA ArriveKeeps ==
  ASSUME IInv, Arrive
  PROVE  IInv'
<1>1. /\ arrived < Len(peer.kinds) /\ arrived' = arrived + 1 /\ inbox' = Append(inbox, arrived + 1)
      /\ UNCHANGED << peer, fin, wire, tls, phase, readVars, writeVars >>
  BY DEF Arrive
<1>2. Len(peer.kinds) \in Nat /\ arrived \in Nat /\ arrived + 1 \in Nat
  BY PeerKinds DEF IInv
<1>3. inbox' \in Seq(1 .. arrived') /\ rbuf' \in Seq(1 .. arrived')
  <2>1. 1 .. arrived \subseteq 1 .. arrived + 1 /\ arrived + 1 \in 1 .. arrived + 1
    BY <1>2
  <2>2. inbox \in Seq(1 .. arrived + 1) /\ rbuf \in Seq(1 .. arrived + 1)
    BY <2>1, SeqOfMore, ReaderFacts
  <2> QED BY <1>1, <2>1, <2>2 DEF readVars
<1>4. Shape'
  <2>1. arrived' \in 0 .. Len(peer.kinds)
    BY <1>1, <1>2
  <2> QED BY <1>1, <1>3, <2>1 DEF IInv, Shape, readVars, writeVars
<1>5. Calls'
  BY <1>1 DEF IInv, Calls, readVars, writeVars
<1>6. Ciphertext'
  BY <1>1, CiphertextSame DEF IInv, writeVars
<1>7. ~lost /\ GoesOn(tls) => tls.fed <= arrived + 1 /\ rbuf \o Append(inbox, arrived + 1) = Run(tls.fed, arrived + 1)
  <2> SUFFICES ASSUME ~lost, GoesOn(tls)
               PROVE  tls.fed <= arrived + 1
                      /\ rbuf \o Append(inbox, arrived + 1) = Run(tls.fed, arrived + 1)
    OBVIOUS
  <2>1. tls.fed \in Nat /\ tls.fed <= arrived /\ rbuf \o inbox = Run(tls.fed, arrived)
    BY ReaderFacts DEF Waits, Session
  <2>2. rbuf \in Seq(Nat) /\ inbox \in Seq(Nat)
    <3>1. 1 .. arrived \subseteq Nat
      BY <1>2
    <3> QED BY <3>1, SeqOfMore, ReaderFacts
  <2>3. rbuf \o Append(inbox, arrived + 1) = Append(rbuf \o inbox, arrived + 1)
    <3>1. arrived + 1 \in Nat
      BY <1>2
    <3> QED BY <2>2, <3>1, AppendJoined
  <2>4. Append(Run(tls.fed, arrived), arrived + 1) = Run(tls.fed, arrived + 1)
    BY <1>2, <2>1, RunGrows
  <2>5. tls.fed <= arrived + 1
    BY <1>2, <2>1
  <2> QED BY <2>1, <2>3, <2>4, <2>5
<1>8. Plaintext'
  <2>1. ~fin
    BY <1>1, <1>2, ReaderFacts
  <2>2. DataUnits' = DataUnits
    BY <1>1 DEF DataUnits
  <2> QED BY <1>1, <1>7, <2>1, <2>2 DEF IInv, Plaintext, Fed, GoesOn, Run, readVars
<1> QED BY <1>4, <1>5, <1>6, <1>8 DEF IInv

LEMMA ArriveFinKeeps ==
  ASSUME IInv, ArriveFin
  PROVE  IInv'
<1>1. /\ arrived = Len(peer.kinds) /\ fin' = TRUE
      /\ UNCHANGED << peer, arrived, inbox, wire, tls, phase, readVars, writeVars >>
  BY DEF ArriveFin
<1>2. Shape' /\ Calls'
  BY <1>1 DEF IInv, Shape, Calls, readVars, writeVars
<1>3. Ciphertext'
  BY <1>1, CiphertextSame DEF IInv, writeVars
<1>4. Plaintext'
  BY <1>1 DEF IInv, Plaintext, Fed, GoesOn, Run, DataUnits, readVars
<1> QED BY <1>2, <1>3, <1>4 DEF IInv

LEMMA SplitKeeps ==
  ASSUME IInv, Split \/ Unsplit
  PROVE  IInv'
<1>1. /\ rpc = "Idle" /\ wpc = "Idle" /\ phase' \in {"Whole", "Split"} /\ phase \in {"Whole", "Split"}
      /\ UNCHANGED << netVars, inbox, wire, tls, rpc, polledIn, delivered, rres, writeVars >>
  BY DEF Split, Unsplit, Idle, readVars
<1>2. \/ rbuf' = rbuf /\ lost' = lost /\ phase' = "Split" /\ phase = "Whole"
      \/ rbuf' = << >> /\ lost' = (lost \/ rbuf # << >>) /\ phase' = "Whole"
  BY DEF Split, Unsplit, readVars
<1>3. Shape'
  <2>1. << >> \in Seq(1 .. arrived) /\ Len(<< >>) <= BufCapacity
    BY ConnAssumption
  <2>2. rbuf' \in Seq(1 .. arrived) /\ Len(rbuf') <= BufCapacity
    BY <1>2, <2>1, ReaderFacts
  <2> QED BY <1>1, <2>2 DEF IInv, Shape, netVars, writeVars
<1>4. Calls'
  BY <1>1, <1>2 DEF IInv, Calls, ConnectStates, writeVars
<1>5. Ciphertext'
  BY <1>1, CiphertextSame DEF IInv, writeVars
<1>6. Plaintext'
  <2>1. ~lost' => ~lost /\ rbuf' = rbuf
    BY <1>2, Zenon
  <2> QED BY <1>1, <2>1 DEF IInv, Plaintext, Fed, GoesOn, Run, DataUnits, netVars
<1> QED BY <1>3, <1>4, <1>5, <1>6 DEF IInv
(* Where connect is after one of its steps.                                *)
ConnectMoves ==
  \/ rpc' \in ConnectStates /\ phase' = phase /\ rres' = rres
  \/ rpc' = "Idle" /\ phase' \in {"Whole", "Failed"} /\ rres' \in {rres, "Error"}

(* A step of connect keeps the invariant.                                  *)
LEMMA StepFromConnect ==
  ASSUME IInv, phase = "Connecting", ConnectMoves,
         UNCHANGED << netVars, rbuf, delivered, lost, writeVars >>,
         tls' \in Session, tls'.taken <= tls'.produced,
         inbox' \in Seq(1 .. arrived), wire' \in Seq(Nat), Ciphertext',
         ~lost => Fed(peer.kinds, tls', delivered) /\ Waits(tls', rbuf, inbox')
  PROVE  IInv'
<1>1. Shape'
  BY DEF IInv, Shape, netVars, writeVars
<1>2. Calls'
  BY DEF IInv, Calls, ConnectMoves, ConnectStates, writeVars
<1>3. Plaintext'
  <2>1. /\ arrived' = arrived /\ peer' = peer /\ fin' = fin /\ lost' = lost /\ rbuf' = rbuf
        /\ delivered' = delivered
    BY DEF netVars
  <2>2. rpc' \notin {"Recv", "Fill"} /\ (rres' = "End" => rres = "End")
    BY DEF ConnectMoves, ConnectStates
  <2>3. (fin => arrived = Len(peer.kinds)) /\ (~lost /\ rres = "End" => delivered = DataUnits)
    BY ReaderFacts
  <2>4. DataUnits' = DataUnits
    BY <2>1 DEF DataUnits
  <2> QED BY <2>1, <2>2, <2>3, <2>4 DEF Plaintext, Waits, Fed, GoesOn, Run
<1> QED BY <1>1, <1>2, <1>3 DEF IInv

(* While connect runs, there is no other call, and nothing in the buffers. *)
LEMMA ConnectFacts ==
  ASSUME IInv, rpc \in ConnectStates \/ phase = "Connecting"
  PROVE  phase = "Connecting" /\ rpc \in ConnectStates /\ wbuf = << >> /\ rbuf = << >>
BY DEF IInv, Calls

LEMMA ConnectPollKeeps ==
  ASSUME IInv, ConnectPoll \/ ConnectFails
  PROVE  IInv'
<1>1. UNCHANGED << netVars, inbox, wire, tls, rbuf, delivered, lost, writeVars >>
  BY DEF ConnectPoll, ConnectFails
<1>2. phase = "Connecting"
  BY ConnectFacts DEF ConnectPoll, ConnectFails, ConnectStates
<1>3. ConnectMoves
  <2>1. CASE ConnectPoll
    <3>1. PICK ready : IF "Out" \in ready THEN Connecting("ConnectWrite") ELSE AfterWrite("In" \in ready)
      BY <2>1 DEF ConnectPoll
    <3>2. CASE Connecting("ConnectWrite")
      BY <3>2 DEF ConnectMoves, Connecting, ConnectStates
    <3>3. CASE AfterWrite("In" \in ready)
      BY <3>3 DEF ConnectMoves, AfterWrite, Connected, Connecting, ConnectStates
    <3> QED BY <3>1, <3>2, <3>3
  <2>2. CASE ConnectFails
    BY <2>2 DEF ConnectFails, ConnectMoves, ConnectError
  <2> QED BY <2>1, <2>2
<1>4. /\ tls' \in Session /\ tls'.taken <= tls'.produced
      /\ inbox' \in Seq(1 .. arrived) /\ wire' \in Seq(Nat)
      /\ ~lost => Fed(peer.kinds, tls', delivered) /\ Waits(tls', rbuf, inbox')
  BY <1>1, ReaderFacts, WriterFacts
<1>5. Ciphertext'
  BY <1>1, CiphertextSame DEF IInv, writeVars
<1> QED BY <1>1, <1>2, <1>3, <1>4, <1>5, StepFromConnect

LEMMA TakeOutFits ==
  ASSUME NEW s \in Session, s.taken <= s.produced, NEW k \in 0 .. Pending(s)
  PROVE  /\ k \in Nat /\ TakeOut(s, k) \in Session /\ TakeOut(s, k).taken = s.taken + k
         /\ TakeOut(s, k).taken <= TakeOut(s, k).produced
         /\ SameReader(s, TakeOut(s, k))
<1>1. s.taken \in Nat /\ s.produced \in Nat
  BY DEF Session
<1>2. k \in Nat /\ s.taken + k <= s.produced
  BY <1>1 DEF Pending
<1> QED BY <1>1, <1>2, TakenOutType

LEMMA ConnectWriteKeeps ==
  ASSUME IInv, ConnectWrite
  PROVE  IInv'
<1>1. PICK k \in 1 .. Pending(tls) : tls' = TakeOut(tls, k) /\ wire' = wire \o TakenOut(tls, k)
  BY DEF ConnectWrite
<1>2. UNCHANGED << netVars, inbox, rbuf, delivered, lost, writeVars >>
  BY DEF ConnectWrite
<1>3. phase = "Connecting" /\ wbuf = << >> /\ wbuf' = << >> /\ cut' = cut
  BY <1>2, ConnectFacts DEF ConnectWrite, ConnectStates, writeVars
<1>4. ConnectMoves
  BY DEF ConnectWrite, ConnectMoves, AfterWrite, Connected, Connecting, ConnectStates
<1>5. /\ k \in Nat /\ tls' \in Session /\ tls'.taken = tls.taken + k /\ tls'.taken <= tls'.produced
      /\ SameReader(tls, tls')
  BY <1>1, WriterFacts, TakeOutFits
<1>6. Ciphertext' /\ wire' \in Seq(Nat)
  BY <1>1, <1>3, <1>5, CiphertextTaken
<1>7. /\ inbox' \in Seq(1 .. arrived)
      /\ ~lost => Fed(peer.kinds, tls', delivered) /\ Waits(tls', rbuf, inbox')
  BY <1>2, <1>5, ReaderFacts DEF Fed, Waits, GoesOn, SameReader
<1> QED BY <1>2, <1>3, <1>4, <1>5, <1>6, <1>7, StepFromConnect

LEMMA ConnectEofKeeps ==
  ASSUME IInv, ConnectEof
  PROVE  IInv'
<1>1. /\ tls' = [tls EXCEPT !.eof = TRUE]
      /\ UNCHANGED << netVars, inbox, wire, rbuf, delivered, lost, writeVars >>
  BY DEF ConnectEof
<1>2. phase = "Connecting" /\ ConnectMoves
  BY ConnectFacts DEF ConnectEof, ConnectStates, ConnectMoves, ConnectError
<1>3. tls' \in Session /\ tls'.taken = tls.taken /\ tls'.produced = tls.produced /\ SameReader(tls, tls')
  BY <1>1, ReaderFacts, EofLeaves
<1>4. Ciphertext' /\ wire' \in Seq(Nat)
  BY <1>1, <1>3, WriterFacts, CiphertextSame DEF IInv, writeVars
<1>5. /\ inbox' \in Seq(1 .. arrived) /\ tls'.taken <= tls'.produced
      /\ ~lost => Fed(peer.kinds, tls', delivered) /\ Waits(tls', rbuf, inbox')
  BY <1>1, <1>3, ReaderFacts DEF Fed, Waits, GoesOn, SameReader
<1> QED BY <1>1, <1>2, <1>3, <1>4, <1>5, StepFromConnect

LEMMA ConnectReadKeeps ==
  ASSUME IInv, ConnectRead
  PROVE  IInv'
<1>1. PICK n \in 1 .. Lesser(ReadSize, Len(inbox)) :
        LET s == Process(tls, peer.kinds, FirstOf(inbox, n)) IN
          /\ inbox' = RestOf(inbox, n)
          /\ IF s.broken
             THEN \E k \in 0 .. Pending(s) :
                    /\ tls'  = TakeOut(s, k)
                    /\ wire' = wire \o TakenOut(s, k)
                    /\ ConnectError
             ELSE /\ tls' = s /\ wire' = wire
                  /\ IF HandshakeGoesOn(s) THEN Connecting("Poll") ELSE Connected
  BY DEF ConnectRead
<1> DEFINE s == Process(tls, peer.kinds, FirstOf(inbox, n))
<1>2. UNCHANGED << netVars, rbuf, delivered, lost, writeVars >>
  BY DEF ConnectRead
<1>3. phase = "Connecting" /\ wbuf = << >> /\ rbuf = << >> /\ wbuf' = << >> /\ cut' = cut
  BY <1>2, ConnectFacts DEF ConnectRead, ConnectStates, writeVars
<1>4. n \in 0 .. Len(inbox) /\ << >> \in Seq(1 .. arrived) /\ inbox \in Seq(1 .. arrived)
  <2>1. inbox \in Seq(1 .. arrived) /\ Len(inbox) \in Nat /\ ReadSize \in Nat
    BY ReaderFacts, SessionAssumption
  <2>2. Lesser(ReadSize, Len(inbox)) \in 0 .. Len(inbox)
    BY <2>1, LesserIs
  <2>3. n \in 0 .. Len(inbox)
    BY <2>1, <2>2
  <2>4. << >> \in Seq(1 .. arrived)
    OBVIOUS
  <2> QED BY <2>1, <2>3, <2>4
<1>5. inbox \o << >> = inbox /\ << >> \o inbox = inbox
  BY <1>4
<1>6. ~lost => Waits(tls, inbox, << >>)
  BY <1>3, <1>5, ReaderFacts DEF Waits
<1>7. /\ s \in Session /\ s.taken = tls.taken /\ tls.produced <= s.produced
      /\ inbox' \in Seq(1 .. arrived)
      /\ ~lost => Fed(peer.kinds, s, delivered) /\ Waits(s, inbox', << >>)
  BY <1>1, <1>4, <1>6, FeedKeeps
<1>8. \/ \E k \in 0 .. Pending(s) : tls' = TakeOut(s, k) /\ wire' = wire \o TakenOut(s, k)
      \/ tls' = s /\ wire' = wire
  BY <1>1
<1>9. ConnectMoves
  BY <1>1 DEF ConnectMoves, Connected, Connecting, ConnectError, ConnectStates
<1> HIDE DEF s
<1>10. s.taken <= s.produced
  <2>1. tls.taken \in Nat /\ tls.produced \in Nat /\ s.produced \in Nat /\ tls.taken <= tls.produced
    BY <1>7, WriterFacts DEF Session
  <2> QED BY <1>7, <2>1
<1>11. tls' \in Session /\ tls'.taken <= tls'.produced /\ SameReader(s, tls') /\ Ciphertext' /\ wire' \in Seq(Nat)
  <2>1. CASE tls' = s /\ wire' = wire
    BY <1>3, <1>7, <1>10, <2>1, WriterFacts, CiphertextSame DEF IInv, SameReader
  <2>2. CASE \E k \in 0 .. Pending(s) : tls' = TakeOut(s, k) /\ wire' = wire \o TakenOut(s, k)
    <3>1. PICK k \in 0 .. Pending(s) : tls' = TakeOut(s, k) /\ wire' = wire \o TakenOut(s, k)
      BY <2>2
    <3>2. /\ k \in Nat /\ tls' \in Session /\ tls'.taken = s.taken + k /\ tls'.taken <= tls'.produced
          /\ SameReader(s, tls')
      BY <1>7, <1>10, <3>1, TakeOutFits
    <3>3. TakenOut(s, k) = TakenOut(tls, k)
      BY <1>7 DEF TakenOut
    <3>4. Ciphertext' /\ wire' \in Seq(Nat)
      BY <1>3, <1>7, <3>1, <3>2, <3>3, CiphertextTaken
    <3> QED BY <3>2, <3>4
  <2> QED BY <1>8, <2>1, <2>2
<1>12. ~lost => Fed(peer.kinds, tls', delivered) /\ Waits(tls', rbuf, inbox')
  <2>1. inbox' \o << >> = inbox' /\ << >> \o inbox' = inbox'
    BY <1>7
  <2> QED BY <1>3, <1>7, <1>11, <2>1 DEF Fed, Waits, GoesOn, SameReader
<1> QED BY <1>2, <1>3, <1>7, <1>9, <1>11, <1>12, StepFromConnect
-----------------------------------------------------------------------------
(* The theorems.                                                           *)

LEMMA Initially ==
  ASSUME Init
  PROVE  IInv
<1> USE DEF Init
<1>1. HelloUnits \in Nat /\ BufCapacity \in Nat /\ BufSize \in Nat
  BY SessionAssumption, ConnAssumption
<1>2. tls \in Session /\ tls.taken = 0 /\ tls.fed = 0 /\ tls.plain = << >> /\ ~tls.closed /\ ~tls.broken
      /\ tls.produced = HelloUnits
  BY <1>1 DEF NewSession, Session
<1>3. Len(peer.kinds) \in Nat /\ peer.kinds \in Seq(Kinds)
  BY ConnAssumption DEF PeerType
<1>4. Shape
  <2>1. arrived \in 0 .. Len(peer.kinds)
    BY <1>3
  <2>2. << >> \in Seq(1 .. arrived) /\ << >> \in Seq(Nat) /\ Len(<< >>) = 0
    OBVIOUS
  <2>3. 0 \in Nat /\ 0 <= HelloUnits /\ 0 <= BufCapacity /\ 0 <= BufSize
    BY <1>1
  <2> QED BY <1>2, <2>1, <2>2, <2>3 DEF Shape
<1>5. Calls
  BY DEF Calls, ConnectStates
<1>6. Ciphertext
  <2>1. Given = << >> /\ Len(<< >>) = 0
    BY DEF Given
  <2>2. UpTo(0) = << >>
    <3>1. UpTo(0) \in Seq(Nat) /\ Len(UpTo(0)) = 0
      BY DEF UpTo
    <3> QED BY <3>1
  <2> QED BY <1>2, <2>1, <2>2 DEF Ciphertext, Increasing, Within
<1>7. Plaintext
  <2>1. DataAmong(peer.kinds)[0] = << >>
    BY <1>3, DataSteps
  <2>2. << >> \o << >> = << >>
    OBVIOUS
  <2>3. Fed(peer.kinds, tls, delivered)
    BY <1>2, <1>3, <2>1, <2>2 DEF Fed
  <2>4. Run(0, 0) = << >>
    <3>1. Run(0, 0) \in Seq(1 .. 0) /\ Len(Run(0, 0)) = 0
      BY RunType
    <3> QED BY <3>1
  <2> QED BY <1>2, <2>2, <2>3, <2>4 DEF Plaintext
<1> QED BY <1>4, <1>5, <1>6, <1>7 DEF IInv

LEMMA StepKeeps ==
  ASSUME IInv, [Next]_vars
  PROVE  IInv'
<1>1. CASE Arrive \/ ArriveFin
  BY <1>1, ArriveKeeps, ArriveFinKeeps
<1>2. CASE Connect \/ ConnectFails
  BY <1>2, ConnectPollKeeps, ConnectWriteKeeps, ConnectReadKeeps, ConnectEofKeeps DEF Connect
<1>3. CASE Whole
  BY <1>3, RecvKeeps, RecvMoreKeeps, RecvEofKeeps, SendMoreKeeps, SendKeeps DEF Whole
<1>4. CASE Halves
  BY <1>4, SplitKeeps, HalfReadKeeps, FillKeeps, HalfStartKeeps, HalfSendKeeps DEF Halves
<1>5. CASE ReadFails \/ WriteFails
  BY <1>5, ReadFailsKeeps, WriteFailsKeeps
<1>6. CASE UNCHANGED vars
  <2>1. Shape' /\ Calls'
    BY <1>6 DEF vars, netVars, readVars, writeVars, IInv, Shape, Calls
  <2>2. Ciphertext'
    BY <1>6, CiphertextSame DEF vars, writeVars, IInv
  <2>3. Plaintext'
    BY <1>6 DEF vars, netVars, readVars, IInv, Plaintext, Fed, GoesOn, Run, DataUnits
  <2> QED BY <2>1, <2>2, <2>3 DEF IInv
<1> QED BY <1>1, <1>2, <1>3, <1>4, <1>5, <1>6 DEF Next

(* IInv holds in every reachable state.                                    *)
THEOREM Invariant == Spec => []IInv
<1>1. Init => IInv
  BY Initially
<1>2. IInv /\ [Next]_vars => IInv'
  BY StepKeeps
<1> QED BY <1>1, <1>2, PTL DEF Spec

LEMMA TypesHold ==
  ASSUME IInv
  PROVE  TypeOK
<1>1. 1 .. arrived \subseteq Nat
  OBVIOUS
<1>2. inbox \in Seq(Nat) /\ rbuf \in Seq(Nat)
  BY <1>1, SeqOfMore, ReaderFacts
<1> QED BY <1>2 DEF IInv, Shape, Calls, ConnectStates, TypeOK

(* The socket is given the session's ciphertext in its order, none of it   *)
(* twice, and none of it left out until a send of the write half is short  *)
(* or fails: whichever of connect, send, write and flush wrote it, whatever*)
(* the read half made the session produce in between, and however many     *)
(* units the socket takes at a time.                                       *)
THEOREM SentInOrder == Spec => []WireInOrder
<1>1. IInv => WireInOrder
  <2> SUFFICES ASSUME IInv PROVE WireInOrder
    OBVIOUS
  <2>1. TypeOK
    BY TypesHold
  <2> QED BY <2>1 DEF IInv, Ciphertext, Given, Increasing, WireInOrder
<1> QED BY <1>1, Invariant, PTL

(* What has been fed, then what waits to be fed, is all that has arrived.  *)
LEMMA FedAndWaiting ==
  ASSUME NEW m \in Nat, NEW n \in Nat, m <= n, NEW b \in Seq(Nat), NEW x \in Seq(Nat)
  PROVE  b \o x = Run(m, n) => UpTo(m) \o b \o x = UpTo(n)
<1>0. UpTo(m) \o b \o x = UpTo(m) \o (b \o x)
  <2>1. UpTo(m) \in Seq(Nat)
    BY DEF UpTo
  <2> QED BY <2>1
<1> HAVE b \o x = Run(m, n)
<1> DEFINE u == UpTo(m)
           r == Run(m, n)
           q == UpTo(n)
           c == u \o r
<1>1. /\ u \in Seq(Nat) /\ Len(u) = m /\ \A i \in 1 .. m : u[i] = i
      /\ q \in Seq(Nat) /\ Len(q) = n /\ \A i \in 1 .. n : q[i] = i
  BY DEF UpTo
<1>2. Len(r) = n - m /\ \A i \in 1 .. n - m : r[i] = m + i
  BY RunType
<1>3. b \o x \in Seq(Nat)
  BY JoinedSeq
<1>4. r \in Seq(Nat)
  BY <1>3
<1> HIDE DEF u, r, q
<1>5. u \o b \o x = u \o (b \o x)
  BY <1>0 DEF u
<1>6. /\ c \in Seq(Nat) /\ Len(c) = Len(u) + Len(r)
      /\ \A i \in 1 .. Len(u) : c[i] = u[i]
      /\ \A i \in 1 .. Len(r) : c[Len(u) + i] = r[i]
  <2>1. u \in Seq(Nat) /\ r \in Seq(Nat)
    BY <1>1, <1>4
  <2> QED BY <2>1
<1> HIDE DEF c
<1>7. ASSUME NEW i \in 1 .. n PROVE c[i] = q[i]
  <2>1. CASE i <= m
    BY <1>1, <1>6, <2>1
  <2>2. CASE m < i
    <3>1. PICK j : j = i - m
      OBVIOUS
    <3>2. j \in 1 .. n - m /\ m + j = i
      BY <2>2, <3>1
    <3>3. c[m + j] = r[j] /\ r[j] = m + j
      BY <1>1, <1>2, <1>6, <3>2
    <3> QED BY <1>1, <3>2, <3>3
  <2> QED BY <2>1, <2>2
<1>8. Len(c) = n
  BY <1>1, <1>2, <1>6
<1>9. c = q
  BY <1>1, <1>6, <1>7, <1>8, SameSeq
<1> QED BY <1>5, <1>9 DEF c, u, r, q

(* All that has arrived was given to the session in order or waits to be,  *)
(* in order; what reads return is the server's data without a gap; and     *)
(* recv reports the end only when all of it was returned: for every server *)
(* and whatever sizes the buffers have, until a read half is dropped with  *)
(* ciphertext in its buffer.                                               *)
THEOREM ReceivedInOrder == Spec => []ReadInOrder
<1>1. IInv => ReadInOrder
  <2> SUFFICES ASSUME IInv, ~lost
               PROVE  /\ ~tls.closed /\ ~tls.broken => UpTo(tls.fed) \o rbuf \o inbox = UpTo(arrived)
                      /\ tls.broken => peer.kinds[tls.fed] = "Bad"
                      /\ IsPrefix(delivered \o tls.plain, DataUnits)
                      /\ rres = "End" => delivered = DataUnits
    BY DEF ReadInOrder
  <2>1. Fed(peer.kinds, tls, delivered) /\ Waits(tls, rbuf, inbox) /\ (rres = "End" => delivered = DataUnits)
    BY ReaderFacts
  <2>2. tls.broken => peer.kinds[tls.fed] = "Bad"
    BY <2>1 DEF Fed
  <2>3. IsPrefix(delivered \o tls.plain, DataUnits)
    BY <2>1, PeerKinds, ReaderFacts, ReadIsPrefix DEF DataUnits, IInv
  <2>4. ASSUME GoesOn(tls) PROVE UpTo(tls.fed) \o rbuf \o inbox = UpTo(arrived)
    <3>1. tls.fed \in Nat /\ arrived \in Nat
      BY PeerKinds, ReaderFacts DEF IInv, Session
    <3>2. tls.fed <= arrived /\ rbuf \o inbox = Run(tls.fed, arrived)
      BY <2>1, <2>4 DEF Waits
    <3>3. rbuf \in Seq(Nat) /\ inbox \in Seq(Nat)
      BY TypesHold DEF TypeOK
    <3> QED BY <3>1, <3>2, <3>3, FedAndWaiting
  <2> QED BY <2>1, <2>2, <2>3, <2>4 DEF GoesOn
<1> QED BY <1>1, Invariant, PTL
(* A call of send or flush that returns leaves nothing to write.           *)
LEMMA NothingLeft ==
  ASSUME [Next]_vars, wpc \in {"Send", "Flush"}, wpc' = "Idle", wres' = "Ok"
  PROVE  ~wants_write(tls')
<1>1. SendMore \/ HalfSend
  <2>1. wpc' # wpc /\ wpc # "Idle"
    OBVIOUS
  <2>2. ~(UNCHANGED writeVars)
    BY <2>1 DEF writeVars
  <2>3. ~Arrive /\ ~ArriveFin /\ ~Split /\ ~Unsplit
    BY <2>2 DEF Arrive, ArriveFin, Split, Unsplit
  <2>4. ~Connect /\ ~ConnectFails
    BY <2>2 DEF Connect, ConnectPoll, ConnectWrite, ConnectRead, ConnectEof, ConnectFails
  <2>5. ~Recv /\ ~RecvMore /\ ~RecvEof /\ ~HalfRead /\ ~Fill /\ ~FillEof /\ ~ReadFails
    BY <2>2 DEF Recv, RecvMore, RecvEof, HalfRead, Fill, FillEof, ReadFails
  <2>6. (\A n \in Sizes : ~Send(n) /\ ~HalfWrite(n)) /\ ~HalfFlush
    BY <2>1 DEF Send, HalfWrite, HalfFlush, MayWrite
  <2>7. ~WriteFails
    BY DEF WriteFails, WriteReturns
  <2>8. ~(UNCHANGED vars)
    BY <2>2 DEF vars
  <2> QED BY <2>3, <2>4, <2>5, <2>6, <2>7, <2>8 DEF Next, Whole, Halves
<1>2. CASE SendMore
  <2>1. PICK k : SendGoesOn(TakeOut(tls, k), ask, wrote)
    BY <1>2 DEF SendMore
  <2> DEFINE s == TakeOut(tls, k)
  <2> HIDE DEF s
  <2>2. SendGoesOn(s, ask, wrote)
    BY <2>1 DEF s
  <2>3. ~wants_write(s) /\ tls' = s
    BY <2>2 DEF SendGoesOn, WriteAwaits, WriteReturns
  <2> QED BY <2>3
<1>3. CASE HalfSend
  <2>1. wpc = "Flush" /\ FlushSection
    BY <1>3 DEF HalfSend, AfterHalfSend
  <2>2. ~Encrypt(tls, "Flush", 0, 0)
    BY DEF Encrypt, WriteAwaits
  <2>3. ~wants_write(tls) /\ tls' = tls
    BY <2>1, <2>2 DEF FlushSection, WriteReturns
  <2> QED BY <2>3
<1> QED BY <1>1, <1>2, <1>3

(* When send or flush returns, the session has nothing left to send, and   *)
(* the socket has been given all it ever produced, what the handshake left *)
(* and the read half's replies included, unless a short send lost some.    *)
THEOREM SentWhenToldSent == Spec => SentMeansSent
<1> DEFINE Told == (wpc \in {"Send", "Flush"} /\ wpc' = "Idle" /\ wres' = "Ok")
                     => ~wants_write(tls') /\ (~cut' => wire' = UpTo(tls'.produced))
<1>1. IInv /\ [Next]_vars => Told
  <2> SUFFICES ASSUME IInv, [Next]_vars, wpc \in {"Send", "Flush"}, wpc' = "Idle", wres' = "Ok"
               PROVE  ~wants_write(tls') /\ (~cut' => wire' = UpTo(tls'.produced))
    OBVIOUS
  <2>1. ~wants_write(tls')
    BY NothingLeft
  <2>2. IInv'
    BY StepKeeps
  <2>3. /\ tls'.taken \in Nat /\ tls'.produced \in Nat /\ tls'.taken <= tls'.produced
        /\ wire' \in Seq(Nat) /\ wbuf' = << >>
    BY <2>2 DEF IInv, Shape, Calls, Session
  <2>4. tls'.taken = tls'.produced
    BY <2>1, <2>3 DEF wants_write, Pending
  <2>5. Given' = wire'
    <3>1. wire' \o << >> = wire'
      BY <2>3
    <3> QED BY <2>3, <3>1 DEF Given
  <2>6. ~cut' => Given' = UpTo(tls'.taken)
    BY <2>2 DEF IInv, Ciphertext, UpTo
  <2> QED BY <2>1, <2>4, <2>5, <2>6
<1>2. IInv /\ [Next]_vars => [Told]_vars
  BY <1>1
<1> QED BY <1>2, Invariant, PTL DEF Spec, SentMeansSent
=============================================================================
