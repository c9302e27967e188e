---------------------------- MODULE ConnectProofs ----------------------------
(***************************************************************************)
(* Proofs about Connect: whatever packets arrive, in which order and how   *)
(* late, only addresses of the name are tried, there is one to try, and    *)
(* the connection is to the first that accepts.                            *)
(***************************************************************************)
EXTENDS Connect, WellFoundedInduction, TLAPS

-----------------------------------------------------------------------------
(* The invariant.                                                          *)

(* A lookup that succeeded found something.                                *)
LookupInv ==
  (\E t \in Types : lookup[t] = "Ok") => \E t \in Types : lookup[t] = "Ok" /\ records[t] # << >>

(* Where connect_stats is, and what it has tried.                          *)
TriedInv ==
  /\ pc = "Lookup" => addrs = NoAddrs /\ tried = 0 /\ socket = 0
  /\ pc # "Done" => result = "None"
  /\ pc = "Connect" \/ result = "NoAddresses" => \E t \in Types : addrs[t] # << >>
  /\ tried <= Len(Order)
  /\ \A i \in 1 .. tried : Order[i] \in world.accepts =>
       i = tried /\ (socket = Order[i] \/ (result = "OptionError" /\ socket = 0))
  /\ socket # 0 => tried # 0 /\ socket = Order[tried]
  /\ result = "Refused" => tried = Len(Order) /\ socket = 0
  /\ result = "NoAddresses" => Len(Order) = 0

IInv == TypeOK /\ LookupInv /\ TriedInv

-----------------------------------------------------------------------------
(* Induction and recursion.                                                *)

(* A set of natural numbers that is not empty has a least element.         *)
LEMMA LeastNatural ==
  ASSUME NEW T, T \subseteq Nat, T # {}
  PROVE  \E n \in T : \A m \in T : n <= m
<1> DEFINE R == OpToRel(<, Nat)
<1>1. \E n \in T : \A m \in T : ~(<< m, n >> \in R)
  <2> HIDE DEF R
  <2>1. IsWellFoundedOn(R, Nat)
    BY NatLessThanWellFounded DEF R
  <2> QED BY <2>1, WFMin
<1>2. \A m, n \in Nat : m < n => << m, n >> \in R
  BY DEF OpToRel
<1>3. PICK n \in T : \A m \in T : ~(<< m, n >> \in R)
  BY <1>1
<1> HIDE DEF R
<1>4. ASSUME NEW m \in T PROVE n <= m
  <2>1. m \in Nat /\ n \in Nat
    OBVIOUS
  <2>2. ~(m < n)
    BY <1>2, <1>3, <2>1
  <2> QED BY <2>1, <2>2
<1> QED BY <1>4

(* What holds of 0 and passes to the next number holds of all.             *)
LEMMA NatSetInduction ==
  ASSUME NEW T, T \subseteq Nat, 0 \in T, \A n \in Nat : n \in T => n + 1 \in T
  PROVE  T = Nat
<1> SUFFICES ASSUME Nat \ T # {} PROVE FALSE
  OBVIOUS
<1> DEFINE S == Nat \ T
<1>1. \E n \in S : \A m \in S : n <= m
  <2>1. S \subseteq Nat /\ S # {}
    OBVIOUS
  <2> HIDE DEF S
  <2> QED BY <2>1, LeastNatural
<1>2. PICK n \in Nat \ T : \A m \in Nat \ T : n <= m
  BY <1>1
<1>3. n # 0 /\ n - 1 \in Nat /\ ~(n <= n - 1) /\ n - 1 + 1 = n
  BY <1>2
<1>4. n - 1 \in T
  BY <1>2, <1>3
<1> QED BY <1>2, <1>3, <1>4

(* f goes from a in k steps, the nth of them by step[n].                   *)
Goes(f, S, a, step, k) ==
  f \in [0 .. k -> S] /\ f[0] = a /\ \A n \in 1 .. k : f[n] = step[n][f[n - 1]]

Steps(S, k) == [1 .. k -> [S -> S]]

LEMMA RecursionExists ==
  ASSUME NEW S, NEW a \in S, NEW L \in Nat, NEW G \in Steps(S, L)
  PROVE  \E f : Goes(f, S, a, G, L)
<1> USE DEF Steps
<1> DEFINE P(k, f) == f \in [0 .. k -> S] /\ f[0] = a /\ \A n \in 1 .. k : f[n] = G[n][f[n - 1]]
           T == {k \in Nat : k <= L => \E f : P(k, f)}
<1>1. 0 \in T
  <2> DEFINE f == [n \in 0 .. 0 |-> a]
  <2>1. P(0, f)
    OBVIOUS
  <2> QED BY <2>1
<1>2. ASSUME NEW k \in Nat, k \in T PROVE k + 1 \in T
  <2> SUFFICES ASSUME k + 1 <= L PROVE \E f : P(k + 1, f)
    OBVIOUS
  <2>1. PICK f : P(k, f)
    BY <1>2
  <2> DEFINE g == [n \in 0 .. k + 1 |-> IF n \in 0 .. k THEN f[n] ELSE G[k + 1][f[k]]]
  <2>2. k \in 0 .. k /\ k + 1 \in 1 .. L
    OBVIOUS
  <2>3. f[k] \in S
    BY <2>1, <2>2
  <2>4. G[k + 1][f[k]] \in S
    BY <2>2, <2>3
  <2>5. g \in [0 .. k + 1 -> S]
    BY <2>1, <2>4
  <2>6. g[0] = a
    BY <2>1
  <2>7. ASSUME NEW n \in 1 .. k + 1 PROVE g[n] = G[n][g[n - 1]]
    <3>1. CASE n \in 1 .. k
      BY <2>1, <3>1
    <3>2. CASE n = k + 1
      <4>1. n \notin 0 .. k /\ n \in 0 .. k + 1 /\ n - 1 = k /\ k \in 0 .. k + 1
        BY <3>2
      <4>2. g[n] = G[k + 1][f[k]] /\ g[k] = f[k]
        BY <2>2, <4>1
      <4> QED BY <3>2, <4>1, <4>2
    <3> QED BY <3>1, <3>2
  <2> QED BY <2>5, <2>6, <2>7
<1>3. T = Nat
  <2>1. T \subseteq Nat
    OBVIOUS
  <2> HIDE DEF T
  <2> QED BY <1>1, <1>2, <2>1, NatSetInduction
<1>4. L \in T
  BY <1>3
<1> QED BY <1>4 DEF Goes

-----------------------------------------------------------------------------
(* The records of an answer.                                               *)

LEMMA WantedSteps ==
  ASSUME NEW t, NEW rs \in Seq(RecordType)
  PROVE  \E g \in [0 .. Len(rs) -> Seq(RecordType)] :
           /\ g[0] = << >>
           /\ \A n \in 1 .. Len(rs) :
                g[n] = IF Wanted(t, rs[n]) THEN Append(g[n - 1], rs[n]) ELSE g[n - 1]
           /\ WantedOf(t, rs) = g[Len(rs)]
<1> DEFINE L == Len(rs)
           S == Seq(RecordType)
           G == [n \in 1 .. L |-> [x \in S |-> IF Wanted(t, rs[n]) THEN Append(x, rs[n]) ELSE x]]
           All(f) == [n \in 0 .. L |-> IF n = 0 THEN << >>
                                       ELSE IF Wanted(t, rs[n]) THEN Append(f[n - 1], rs[n]) ELSE f[n - 1]]
           wanted == CHOOSE f : f = All(f)
<1>1. L \in Nat
  OBVIOUS
<1>2. G \in Steps(S, L)
  <2>1. ASSUME NEW n \in 1 .. L, NEW x \in S
        PROVE  (IF Wanted(t, rs[n]) THEN Append(x, rs[n]) ELSE x) \in S
    <3>1. rs[n] \in RecordType
      OBVIOUS
    <3> QED BY <3>1
  <2> HIDE DEF S
  <2> QED BY <2>1 DEF Steps
<1>3. PICK g \in [0 .. L -> S] : g[0] = << >> /\ \A n \in 1 .. L : g[n] = G[n][g[n - 1]]
  <2>1. << >> \in S
    OBVIOUS
  <2> HIDE DEF G, L, S, All, wanted
  <2>2. \E g : Goes(g, S, << >>, G, L)
    BY <1>1, <1>2, <2>1, RecursionExists
  <2> QED BY <2>2 DEF Goes
<1>4. ASSUME NEW n \in 1 .. L
      PROVE  g[n] = IF Wanted(t, rs[n]) THEN Append(g[n - 1], rs[n]) ELSE g[n - 1]
  <2>1. g[n - 1] \in S
    BY <1>1
  <2> HIDE DEF S
  <2> QED BY <1>3, <2>1
<1>5. g = All(g)
  <2>1. \A n \in 0 .. L : n = 0 \/ n \in 1 .. L
    BY <1>1
  <2>2. \A n \in 0 .. L : g[n] = All(g)[n]
    BY <1>3, <1>4, <2>1
  <2>3. g = [n \in 0 .. L |-> g[n]]
    BY <1>3
  <2> QED BY <2>2, <2>3
<1>6. wanted = All(wanted)
  <2> HIDE DEF All
  <2> QED BY <1>5
<1>7. WantedOf(t, rs) = wanted[L]
  BY DEF WantedOf
<1>8. \A n \in 0 .. L : wanted[n] = IF n = 0 THEN << >>
                                    ELSE IF Wanted(t, rs[n]) THEN Append(wanted[n - 1], rs[n]) ELSE wanted[n - 1]
  <2> HIDE DEF wanted
  <2> QED BY <1>6
<1> HIDE DEF wanted, All, G, L
<1>9. wanted[L] = g[L]
  <2> DEFINE T == {k \in Nat : k <= L => wanted[k] = g[k]}
  <2>1. 0 \in T
    BY <1>1, <1>3, <1>8
  <2>2. ASSUME NEW k \in Nat, k \in T PROVE k + 1 \in T
    <3> SUFFICES ASSUME k + 1 <= L PROVE wanted[k + 1] = g[k + 1]
      OBVIOUS
    <3>1. k + 1 \in 0 .. L /\ k + 1 # 0 /\ (k + 1) - 1 = k /\ k + 1 \in 1 .. L
      BY <1>1
    <3>2. wanted[k] = g[k]
      BY <1>1, <2>2
    <3>3. wanted[k + 1] = IF Wanted(t, rs[k + 1]) THEN Append(wanted[k], rs[k + 1]) ELSE wanted[k]
      BY <1>8, <3>1
    <3>4. g[k + 1] = IF Wanted(t, rs[k + 1]) THEN Append(g[k], rs[k + 1]) ELSE g[k]
      BY <1>4, <3>1
    <3> QED BY <3>2, <3>3, <3>4
  <2>3. T = Nat
    <3>1. T \subseteq Nat
      OBVIOUS
    <3> HIDE DEF T
    <3> QED BY <2>1, <2>2, <3>1, NatSetInduction
  <2>4. L \in T
    BY <1>1, <2>3
  <2> QED BY <1>1, <2>4
<1> QED BY <1>3, <1>4, <1>7, <1>9 DEF L

(* What is kept of an answer are records of it, of the type asked for.     *)
LEMMA WantedAre ==
  ASSUME NEW t, NEW rs \in Seq(RecordType)
  PROVE  /\ WantedOf(t, rs) \in Seq(RecordType)
         /\ \A i \in 1 .. Len(WantedOf(t, rs)) :
              \E j \in 1 .. Len(rs) : WantedOf(t, rs)[i] = rs[j] /\ Wanted(t, rs[j])
<1> DEFINE L == Len(rs)
           Ours(r) == \E j \in 1 .. L : r = rs[j] /\ Wanted(t, rs[j])
<1>1. PICK g \in [0 .. L -> Seq(RecordType)] :
        /\ g[0] = << >>
        /\ \A n \in 1 .. L : g[n] = IF Wanted(t, rs[n]) THEN Append(g[n - 1], rs[n]) ELSE g[n - 1]
        /\ WantedOf(t, rs) = g[L]
  BY WantedSteps
<1>2. L \in Nat
  OBVIOUS
<1> DEFINE T == {k \in Nat : k <= L => \A i \in 1 .. Len(g[k]) : Ours(g[k][i])}
<1>3. 0 \in T
  BY <1>1
<1>4. ASSUME NEW k \in Nat, k \in T PROVE k + 1 \in T
  <2> SUFFICES ASSUME k + 1 <= L, NEW i \in 1 .. Len(g[k + 1]) PROVE Ours(g[k + 1][i])
    OBVIOUS
  <2>1. k + 1 \in 1 .. L /\ (k + 1) - 1 = k /\ k \in 0 .. L
    BY <1>2
  <2>2. g[k] \in Seq(RecordType) /\ rs[k + 1] \in RecordType
    BY <2>1
  <2>3. \A m \in 1 .. Len(g[k]) : Ours(g[k][m])
    BY <1>2, <1>4, <2>1
  <2>4. g[k + 1] = IF Wanted(t, rs[k + 1]) THEN Append(g[k], rs[k + 1]) ELSE g[k]
    BY <1>1, <2>1
  <2>5. Wanted(t, rs[k + 1]) => Ours(rs[k + 1])
    BY <2>1
  <2> HIDE DEF Ours
  <2>6. CASE ~Wanted(t, rs[k + 1])
    BY <2>3, <2>4, <2>6
  <2>7. CASE Wanted(t, rs[k + 1])
    <3>1. g[k + 1] = Append(g[k], rs[k + 1])
      BY <2>4, <2>7
    <3>2. Len(Append(g[k], rs[k + 1])) = Len(g[k]) + 1 /\ Len(g[k]) \in Nat
          /\ (\A m \in 1 .. Len(g[k]) : Append(g[k], rs[k + 1])[m] = g[k][m])
          /\ Append(g[k], rs[k + 1])[Len(g[k]) + 1] = rs[k + 1]
      BY <2>2
    <3>3. i \in 1 .. Len(g[k]) \/ i = Len(g[k]) + 1
      BY <3>1, <3>2
    <3> QED BY <2>3, <2>5, <2>7, <3>1, <3>2, <3>3
  <2> QED BY <2>6, <2>7
<1>5. T = Nat
  <2>1. T \subseteq Nat
    OBVIOUS
  <2> HIDE DEF T
  <2> QED BY <1>3, <1>4, <2>1, NatSetInduction
<1>6. L \in T /\ L \in 0 .. L
  BY <1>2, <1>5
<1> QED BY <1>1, <1>2, <1>6
-----------------------------------------------------------------------------
(* The lookups.                                                            *)

LEMMA WorldFacts ==
  ASSUME TypeOK
  PROVE  WorldType(world)
BY WorldsAssumption DEF TypeOK

LEMMA FoundType ==
  ASSUME NEW t \in Types, NEW reply \in ReplyType
  PROVE  Found(t, reply) \in Seq(RecordType)
<1>1. reply.records \in Seq(RecordType) /\ << >> \in Seq(RecordType)
  BY DEF ReplyType
<1> QED BY <1>1, WantedAre DEF Found

(* A packet that matches is one the name server sent for this query.       *)
LEMMA MatchingPackets ==
  ASSUME TypeOK, NEW t \in Types, NEW p \in Packets(t), Matches(t, p)
  PROVE  p.reply \in world.replies[t] /\ p.reply \in ReplyType
<1>1. world.replies[t] \subseteq ReplyType
  BY WorldFacts DEF WorldType
<1> QED BY <1>1 DEF Packets, Matches

(* What a step of one lookup changes.                                      *)
OneLookup(t) ==
  /\ lookup[t] \in {"Ready", "Sent"} /\ id' \in [Types -> Ids]
  /\ \E state \in LookupStates : lookup' = [lookup EXCEPT ![t] = state]
  /\ \/ records' = records /\ lookup'[t] # "Ok"
     \/ \E p \in Packets(t) :
          /\ Matches(t, p) /\ records' = [records EXCEPT ![t] = Found(t, p.reply)]
          /\ lookup'[t] = "Ok" <=> records'[t] # << >>

LEMMA AskIs ==
  ASSUME TypeOK, Ask
  PROVE  pc = "Lookup" /\ UNCHANGED << world, connVars >>
         /\ (LookupHosts \/ \E t \in Types : OneLookup(t))
<1>1. pc = "Lookup" /\ UNCHANGED << world, connVars >>
  BY DEF Ask
<1>2. CASE LookupHosts
  BY <1>1, <1>2
<1>3. CASE \E t \in Types : SendQuery(t) \/ LookupTimeout(t) \/ \E p \in Packets(t) : Receive(t, p)
  <2>1. PICK t \in Types : SendQuery(t) \/ LookupTimeout(t) \/ \E p \in Packets(t) : Receive(t, p)
    BY <1>3
  <2>2. lookup \in [Types -> LookupStates] /\ id \in [Types -> Ids] /\ records \in [Types -> Seq(RecordType)]
    BY DEF TypeOK
  <2>3. CASE SendQuery(t)
    <3>1. lookup[t] = "Ready" /\ records' = records
      BY <2>3 DEF SendQuery
    <3>2. \/ \E i \in Ids : id' = [id EXCEPT ![t] = i] /\ lookup' = [lookup EXCEPT ![t] = "Sent"]
          \/ lookup' = [lookup EXCEPT ![t] = "Error"] /\ id' = id
      BY <2>3 DEF SendQuery
    <3>3. id' \in [Types -> Ids]
      BY <2>2, <3>2
    <3>4. \E state \in {"Sent", "Error"} : lookup' = [lookup EXCEPT ![t] = state]
      BY <3>2
    <3>5. lookup'[t] # "Ok"
      BY <2>2, <3>4
    <3> QED BY <1>1, <3>1, <3>3, <3>4, <3>5 DEF OneLookup, LookupStates
  <2>4. CASE LookupTimeout(t)
    <3>1. /\ lookup[t] = "Sent" /\ records' = records /\ id' = id
          /\ lookup' = [lookup EXCEPT ![t] = "Error"]
      BY <2>4 DEF LookupTimeout
    <3>2. lookup'[t] # "Ok"
      BY <2>2, <3>1
    <3> QED BY <1>1, <2>2, <3>1, <3>2 DEF OneLookup, LookupStates
  <2>5. CASE \E p \in Packets(t) : Receive(t, p)
    <3>1. PICK p \in Packets(t) : Receive(t, p)
      BY <2>5
    <3>2. /\ lookup[t] = "Sent" /\ Matches(t, p) /\ id' = id
          /\ records' = [records EXCEPT ![t] = Found(t, p.reply)]
          /\ lookup' = [lookup EXCEPT ![t] = LookupResult(p.reply, records'[t])]
      BY <3>1 DEF Receive
    <3>3. LookupResult(p.reply, records'[t]) \in {"Ok", "Error"}
          /\ (LookupResult(p.reply, records'[t]) = "Ok" <=> records'[t] # << >>)
      BY DEF LookupResult
    <3>4. lookup'[t] = LookupResult(p.reply, records'[t])
      BY <2>2, <3>2
    <3> QED BY <1>1, <2>2, <3>2, <3>3, <3>4 DEF OneLookup, LookupStates
  <2> QED BY <2>1, <2>3, <2>4, <2>5
<1> QED BY <1>1, <1>2, <1>3 DEF Ask

LEMMA AskKeeps ==
  ASSUME IInv, Ask
  PROVE  IInv'
<1> USE DEF IInv
<1>1. pc = "Lookup" /\ UNCHANGED << world, connVars >> /\ (LookupHosts \/ \E t \in Types : OneLookup(t))
  BY AskIs
<1>2. lookup \in [Types -> LookupStates] /\ id \in [Types -> Ids] /\ records \in [Types -> Seq(RecordType)]
  BY DEF TypeOK
<1>3. /\ lookup' \in [Types -> LookupStates] /\ id' \in [Types -> Ids]
      /\ records' \in [Types -> Seq(RecordType)] /\ LookupInv'
  <2>1. CASE LookupHosts
    <3>1. /\ lookup' = [t \in Types |-> IF world.in_hosts THEN "Ok" ELSE "Error"]
          /\ records' = [t \in Types |-> IF world.in_hosts THEN world.hosts[t] ELSE << >>]
          /\ id' = id
      BY <2>1 DEF LookupHosts
    <3>2. world.hosts \in [Types -> Seq(RecordType)] /\ (world.in_hosts => \E t \in Types : world.hosts[t] # << >>)
      BY WorldFacts DEF WorldType
    <3>3. << >> \in Seq(RecordType)
      OBVIOUS
    <3>4. lookup' \in [Types -> LookupStates] /\ records' \in [Types -> Seq(RecordType)]
      BY <3>1, <3>2, <3>3 DEF LookupStates
    <3>5. LookupInv'
      BY <3>1, <3>2 DEF LookupInv
    <3> QED BY <1>2, <3>1, <3>4, <3>5
  <2>2. CASE \E t \in Types : OneLookup(t)
    <3>1. PICK t \in Types : OneLookup(t)
      BY <2>2
    <3>2. PICK state \in LookupStates : lookup' = [lookup EXCEPT ![t] = state]
      BY <3>1 DEF OneLookup
    <3>3. lookup' \in [Types -> LookupStates] /\ id' \in [Types -> Ids] /\ lookup[t] \notin {"Ok"}
      BY <1>2, <3>1, <3>2 DEF OneLookup
    <3>4. \A u \in Types : u # t => lookup'[u] = lookup[u]
      BY <1>2, <3>2
    <3>5. CASE records' = records /\ lookup'[t] # "Ok"
      <4>1. LookupInv'
        BY <3>3, <3>4, <3>5 DEF LookupInv
      <4> QED BY <1>2, <3>3, <3>5, <4>1
    <3>6. CASE \E p \in Packets(t) :
                 /\ Matches(t, p) /\ records' = [records EXCEPT ![t] = Found(t, p.reply)]
                 /\ lookup'[t] = "Ok" <=> records'[t] # << >>
      <4>1. PICK p \in Packets(t) :
              /\ Matches(t, p) /\ records' = [records EXCEPT ![t] = Found(t, p.reply)]
              /\ lookup'[t] = "Ok" <=> records'[t] # << >>
        BY <3>6
      <4>2. Found(t, p.reply) \in Seq(RecordType)
        BY <4>1, MatchingPackets, FoundType
      <4>3. records' \in [Types -> Seq(RecordType)]
        BY <1>2, <4>1, <4>2
      <4>4. \A u \in Types : u # t => records'[u] = records[u]
        BY <1>2, <4>1
      <4>5. LookupInv'
        BY <3>3, <3>4, <4>1, <4>4 DEF LookupInv
      <4> QED BY <3>3, <4>3, <4>5
    <3> QED BY <3>1, <3>5, <3>6 DEF OneLookup
  <2> QED BY <1>1, <2>1, <2>2
<1>4. TypeOK'
  BY <1>1, <1>3 DEF TypeOK, connVars
<1>5. TriedInv'
  BY <1>1 DEF TriedInv, connVars, Order, NoAddrs
<1> QED BY <1>3, <1>4, <1>5
-----------------------------------------------------------------------------
(* The attempts.                                                           *)

OrderOf(strategy, as) ==
  CASE strategy \in {"Default", "PreferIpv6"} -> as["AAAA"] \o as["A"]
    [] strategy = "PreferIpv4" -> as["A"] \o as["AAAA"]
    [] strategy = "Ipv4Only" -> as["A"]
    [] strategy = "Ipv6Only" -> as["AAAA"]

LEMMA OrderIs == Order = OrderOf(world.strategy, addrs) /\ Order' = OrderOf(world'.strategy, addrs')
BY DEF Order, OrderOf

LEMMA JoinedSeq ==
  ASSUME NEW S, NEW a \in Seq(S), NEW b \in Seq(S)
  PROVE  /\ a \o b \in Seq(S) /\ Len(a \o b) = Len(a) + Len(b)
         /\ \A i \in 1 .. Len(a) : (a \o b)[i] = a[i]
         /\ \A i \in 1 .. Len(b) : (a \o b)[Len(a) + i] = b[i]
         /\ \A i \in 1 .. Len(a) + Len(b) : i \in 1 .. Len(a) \/ i - Len(a) \in 1 .. Len(b)
OBVIOUS

LEMMA OrderType ==
  ASSUME NEW strategy \in Strategies, NEW as \in [Types -> Seq(Nat)]
  PROVE  OrderOf(strategy, as) \in Seq(Nat) /\ Len(OrderOf(strategy, as)) \in Nat
<1> DEFINE a == as["A"]
           b == as["AAAA"]
<1>1. a \in Seq(Nat) /\ b \in Seq(Nat)
  BY DEF Types
<1> HIDE DEF a, b
<1>2. a \o b \in Seq(Nat) /\ b \o a \in Seq(Nat)
  BY <1>1
<1>3. OrderOf(strategy, as) \in {a, b, a \o b, b \o a}
  BY DEF OrderOf, Strategies, a, b
<1>4. OrderOf(strategy, as) \in Seq(Nat)
  BY <1>1, <1>2, <1>3
<1>5. \A s \in Seq(Nat) : Len(s) \in Nat
  OBVIOUS
<1> QED BY <1>4, <1>5

LEMMA TriedFacts ==
  ASSUME TypeOK
  PROVE  /\ Order \in Seq(Nat) /\ Len(Order) \in Nat /\ tried \in Nat
         /\ world.strategy \in Strategies /\ addrs \in [Types -> Seq(Nat)]
         /\ world.accepts \subseteq Nat \ {0}
<1>1. world.strategy \in Strategies /\ addrs \in [Types -> Seq(Nat)] /\ tried \in Nat
      /\ world.accepts \subseteq Nat \ {0}
  BY WorldFacts DEF TypeOK, WorldType
<1> QED BY <1>1, OrderIs, OrderType

LEMMA JoinedKeeps ==
  ASSUME IInv, Joined
  PROVE  IInv'
<1> USE DEF IInv
<1>1. pc = "Lookup" /\ UNCHANGED << world, tried, socket >>
  BY DEF Joined
<1>2. addrs = NoAddrs /\ tried = 0 /\ socket = 0 /\ result = "None"
  BY <1>1 DEF TriedInv
<1>3. CASE /\ Success
           /\ addrs' = [t \in Types |-> Addresses(records[t])]
           /\ pc' = "Connect"
           /\ UNCHANGED << round, service, result, lookupVars >>
  <2>1. records \in [Types -> Seq(RecordType)]
    BY DEF TypeOK
  <2>2. ASSUME NEW t \in Types
        PROVE  Addresses(records[t]) \in Seq(Nat)
               /\ (records[t] # << >> => Addresses(records[t]) # << >>)
    <3>1. records[t] \in Seq(RecordType)
      BY <2>1
    <3> DEFINE s == records[t]
    <3> HIDE DEF s
    <3>2. s \in Seq(RecordType)
      BY <3>1 DEF s
    <3>3. ASSUME NEW i \in 1 .. Len(s) PROVE s[i].addr \in Nat
      <4>1. s[i] \in RecordType
        BY <3>2
      <4> QED BY <4>1 DEF RecordType
    <3>4. Addresses(s) \in Seq(Nat) /\ Len(Addresses(s)) = Len(s)
      BY <3>2, <3>3 DEF Addresses
    <3>5. s # << >> => Addresses(s) # << >>
      BY <3>2, <3>4
    <3> QED BY <3>4, <3>5 DEF s
  <2>3. addrs' \in [Types -> Seq(Nat)]
    BY <1>3, <2>2
  <2>4. \E t \in Types : addrs'[t] # << >>
    BY <1>3, <2>2 DEF LookupInv, Success
  <2>5. TypeOK'
    BY <1>1, <1>3, <2>3 DEF TypeOK, lookupVars
  <2>6. LookupInv'
    BY <1>3 DEF LookupInv, lookupVars
  <2>7. Order' \in Seq(Nat) /\ Len(Order') \in Nat
    BY <1>1, <2>3, OrderIs, OrderType, TriedFacts
  <2>8. TriedInv'
    <3>1. pc' = "Connect" /\ tried' = 0 /\ socket' = 0 /\ result' = "None"
      BY <1>1, <1>2, <1>3
    <3>2. tried' <= Len(Order') /\ 1 .. tried' = {}
      BY <2>7, <3>1
    <3> QED BY <2>4, <3>1, <3>2 DEF TriedInv
  <2> QED BY <2>5, <2>6, <2>8
<1>4. CASE /\ service' \in 0 .. NameServers /\ round' \in 1 .. Rounds
           /\ StartLookups /\ UNCHANGED << pc, addrs, result >>
  <2>1. /\ lookup' = [t \in Types |-> "Ready"] /\ records' = [t \in Types |-> << >>] /\ id' = id
    BY <1>4 DEF StartLookups
  <2>2. << >> \in Seq(RecordType)
    OBVIOUS
  <2>3. TypeOK'
    BY <1>1, <1>4, <2>1, <2>2 DEF TypeOK, LookupStates
  <2>4. LookupInv'
    BY <2>1 DEF LookupInv
  <2>5. TriedInv'
    BY <1>1, <1>4 DEF TriedInv, Order, NoAddrs
  <2> QED BY <2>3, <2>4, <2>5
<1>5. CASE /\ pc' = "Done" /\ result' = "DnsError"
           /\ UNCHANGED << round, service, addrs, lookupVars >>
  <2>1. TypeOK'
    BY <1>1, <1>5 DEF TypeOK, lookupVars, Results
  <2>2. LookupInv'
    BY <1>5 DEF LookupInv, lookupVars
  <2>3. TriedInv'
    BY <1>1, <1>2, <1>5 DEF TriedInv, Order
  <2> QED BY <2>1, <2>2, <2>3
<1>6. ASSUME StartLookups, UNCHANGED << pc, addrs, result >>,
             \/ service' = service + 1 /\ ~LastService /\ round' = round
             \/ service' = 0 /\ round' = round + 1 /\ round < Rounds
      PROVE  service' \in 0 .. NameServers /\ round' \in 1 .. Rounds
  <2>1. service \in 0 .. NameServers /\ round \in 1 .. Rounds /\ NameServers \in Nat /\ Rounds \in Nat
    BY ServicesAssumption DEF TypeOK
  <2> QED BY <1>6, <2>1 DEF LastService
<1> QED BY <1>3, <1>4, <1>5, <1>6 DEF Joined
LEMMA ConnectStepKeeps ==
  ASSUME IInv, ConnectStep
  PROVE  IInv'
<1> USE DEF IInv
<1>1. UNCHANGED << world, lookupVars, round, service, addrs >> /\ pc = "Connect" /\ result = "None"
  <2>1. UNCHANGED << world, lookupVars, round, service, addrs >> /\ pc = "Connect"
    BY DEF ConnectStep, SocketFails, Accepted, Refused, Exhausted, ConnectTimeout, SetOptions, Trying
  <2> QED BY <2>1 DEF TriedInv
<1>2. Order' = Order /\ LookupInv'
  BY <1>1 DEF Order, LookupInv, lookupVars
<1>3. Order \in Seq(Nat) /\ Len(Order) \in Nat /\ tried \in Nat /\ world.accepts \subseteq Nat \ {0}
  BY TriedFacts
<1>4. \E t \in Types : addrs[t] # << >>
  BY <1>1 DEF TriedInv
<1>5. ASSUME tried' \in Nat, socket' \in Nat, pc' \in {"Connect", "Done"}, result' \in Results
      PROVE  TypeOK'
  BY <1>1, <1>5 DEF TypeOK, lookupVars
<1>6. ASSUME Trying PROVE \A i \in 1 .. tried : Order[i] \notin world.accepts
  BY <1>1, <1>3, <1>6 DEF TriedInv, Trying
<1>7. CASE SocketFails \/ ConnectTimeout \/ Exhausted
  <2>1. /\ Trying /\ socket = 0 /\ pc' = "Done" /\ UNCHANGED << tried, socket >>
        /\ \/ result' \in {"SocketError", "Timeout"}
           \/ result' = "Refused" /\ tried = Len(Order)
           \/ result' = "NoAddresses" /\ tried = Len(Order) /\ ~(tried > 0)
    BY <1>7 DEF SocketFails, ConnectTimeout, Exhausted, Trying, Finish
  <2>2. result' = "NoAddresses" => Len(Order) = 0
    BY <1>3, <2>1
  <2>3. TypeOK'
    BY <1>5, <2>1 DEF TypeOK, Results
  <2>4. TriedInv'
    BY <1>1, <1>2, <1>4, <1>6, <2>1, <2>2 DEF TriedInv
  <2> QED BY <1>2, <2>3, <2>4
<1>8. CASE Accepted \/ Refused
  <2>1. /\ Trying /\ tried < Len(Order) /\ tried' = tried + 1
        /\ \/ /\ Order[tried + 1] \in world.accepts /\ socket' = Order[tried + 1]
              /\ UNCHANGED << pc, result >>
           \/ /\ Order[tried + 1] \notin world.accepts /\ socket' = socket
              /\ pc' \in {"Connect", "Done"} /\ result' \in {"None", "Interrupted"}
              /\ pc' = "Connect" => result' = "None"
    BY <1>1, <1>8 DEF Accepted, Refused, Next_, Finish
  <2>2. tried + 1 \in Nat /\ tried + 1 <= Len(Order) /\ tried + 1 # 0 /\ tried + 1 \in 1 .. Len(Order)
        /\ \A i \in 1 .. tried + 1 : i \in 1 .. tried \/ i = tried + 1
    BY <1>3, <2>1
  <2>3. Order[tried + 1] \in Nat
    BY <1>3, <2>2
  <2>4. TypeOK'
    BY <1>1, <1>5, <2>1, <2>2, <2>3 DEF TypeOK, Results
  <2>5. socket = 0
    BY <2>1 DEF Trying
  <2>6. \A i \in 1 .. tried : Order[i] \notin world.accepts
    BY <1>6, <2>1
  <2>7. result' \in {"None", "Interrupted"} /\ pc' \in {"Connect", "Done"} /\ (pc' = "Connect" => result' = "None")
    BY <1>1, <2>1
  <2>8. /\ \A i \in 1 .. tried + 1 : Order[i] \in world.accepts => i = tried + 1 /\ socket' = Order[i]
        /\ socket' # 0 => socket' = Order[tried + 1]
    BY <2>1, <2>2, <2>5, <2>6
  <2>9. TriedInv'
    <3>1. tried' = tried + 1 /\ world' = world /\ addrs' = addrs
      BY <1>1, <2>1
    <3> QED BY <1>2, <1>4, <2>2, <2>7, <2>8, <3>1 DEF TriedInv
  <2> QED BY <1>2, <2>4, <2>9
<1>9. CASE SetOptions
  <2>1. /\ tried' = tried /\ pc' = "Done"
        /\ \/ result' = "Ok" /\ socket' = socket
           \/ result' = "OptionError" /\ socket' = 0
    BY <1>9 DEF SetOptions, Finish
  <2>2. TypeOK'
    BY <1>5, <2>1 DEF TypeOK, Results
  <2>3. TriedInv'
    BY <1>1, <1>2, <1>4, <2>1 DEF TriedInv
  <2> QED BY <1>2, <2>2, <2>3
<1> QED BY <1>7, <1>8, <1>9 DEF ConnectStep

-----------------------------------------------------------------------------
(* The theorems.                                                           *)

LEMMA Initially ==
  ASSUME Init
  PROVE  IInv
<1> USE DEF Init
<1>1. WorldType(world)
  BY WorldsAssumption
<1>2. (CHOOSE i \in Ids : TRUE) \in Ids
  BY IdsAssumption
<1>3. << >> \in Seq(RecordType) /\ << >> \in Seq(Nat)
  OBVIOUS
<1>4. records \in [Types -> Seq(RecordType)] /\ addrs \in [Types -> Seq(Nat)]
  BY <1>1, <1>3 DEF NoAddrs, WorldType
<1>5. TypeOK
  BY <1>2, <1>4, ServicesAssumption DEF TypeOK, LookupStates, Results
<1>6. LookupInv
  BY DEF LookupInv
<1>7. TriedInv
  <2>1. Len(Order) \in Nat
    BY <1>5, TriedFacts
  <2>2. tried <= Len(Order) /\ 1 .. tried = {}
    BY <2>1
  <2>3. pc = "Connect" => \E t \in Types : addrs[t] # << >>
    BY <1>1 DEF WorldType
  <2>4. pc = "Lookup" => addrs = NoAddrs
    OBVIOUS
  <2> QED BY <2>2, <2>3, <2>4 DEF TriedInv
<1> QED BY <1>5, <1>6, <1>7 DEF IInv

LEMMA StepKeeps ==
  ASSUME IInv, [Next]_vars
  PROVE  IInv'
<1>1. CASE UNCHANGED vars
  BY <1>1 DEF vars, lookupVars, connVars, IInv, TypeOK, LookupInv, TriedInv, Order, NoAddrs
<1> QED BY <1>1, AskKeeps, JoinedKeeps, ConnectStepKeeps DEF Next

-----------------------------------------------------------------------------
(* The theorems.                                                           *)

(* The invariant of connect_stats: the types, what the lookups found and   *)
(* where the attempts stand.                                               *)
THEOREM Invariant == Spec => []IInv
<1>1. Init => IInv
  BY Initially
<1>2. IInv /\ [Next]_vars => IInv'
  BY StepKeeps
<1> QED BY <1>1, <1>2, PTL DEF Spec

(* Only the strategy keeps addresses out of the order: if none is tried    *)
(* there is none, or it is one of those that take a single family.         *)
LEMMA OrderEmpty ==
  ASSUME NEW strategy \in Strategies, NEW as \in [Types -> Seq(Nat)],
         Len(OrderOf(strategy, as)) = 0, \E t \in Types : as[t] # << >>
  PROVE  strategy \in {"Ipv4Only", "Ipv6Only"}
<1> DEFINE a == as["A"]
           b == as["AAAA"]
<1>1. a \in Seq(Nat) /\ b \in Seq(Nat) /\ (a # << >> \/ b # << >>)
  BY DEF Types
<1> HIDE DEF a, b
<1>2. Len(a) + Len(b) # 0 /\ Len(a \o b) = Len(a) + Len(b) /\ Len(b \o a) = Len(a) + Len(b)
  BY <1>1
<1> QED BY <1>2 DEF OrderOf, Strategies, a, b

(* connect_stats says that there are no addresses only when the strategy   *)
(* excludes those that the lookup found; it always found some.             *)
THEOREM NoneMeansExcluded == Spec => []NoAddressesMeansExcluded
<1>1. ASSUME IInv PROVE NoAddressesMeansExcluded
  <2>1. TypeOK /\ (pc = "Connect" => \E t \in Types : addrs[t] # << >>)
    BY <1>1 DEF IInv, TriedInv
  <2>2. ASSUME result = "NoAddresses" PROVE world.strategy \in {"Ipv4Only", "Ipv6Only"}
    <3>1. Len(OrderOf(world.strategy, addrs)) = 0 /\ \E t \in Types : addrs[t] # << >>
      BY <1>1, <2>2, OrderIs DEF IInv, TriedInv
    <3> QED BY <2>1, <3>1, TriedFacts, OrderEmpty
  <2> QED BY <2>1, <2>2 DEF NoAddressesMeansExcluded
<1>2. IInv => NoAddressesMeansExcluded
  BY <1>1
<1> QED BY <1>2, Invariant, PTL

-----------------------------------------------------------------------------
(* Which address accepts first.                                            *)

LEMMA ElementsAre ==
  ASSUME NEW s \in Seq(Nat), NEW S, \A i \in 1 .. Len(s) : s[i] \notin S
  PROVE  Elements(s) \cap S = {}
BY DEF Elements

(* The first of two sequences joined is the first of one of them, and of   *)
(* the second only if the first has none.                                  *)
LEMMA FirstOfJoined ==
  ASSUME NEW a \in Seq(Nat), NEW b \in Seq(Nat), NEW n \in 1 .. Len(a \o b),
         \A i \in 1 .. n - 1 : (a \o b)[i] \notin world.accepts
  PROVE  \/ FirstOf(a, (a \o b)[n])
         \/ Elements(a) \cap world.accepts = {} /\ FirstOf(b, (a \o b)[n])
<1>1. /\ Len(a) \in Nat /\ Len(b) \in Nat /\ Len(a \o b) = Len(a) + Len(b)
      /\ \A i \in 1 .. Len(a) : (a \o b)[i] = a[i]
      /\ \A i \in 1 .. Len(b) : (a \o b)[Len(a) + i] = b[i]
  BY JoinedSeq
<1>2. CASE n <= Len(a)
  <2>1. n \in 1 .. Len(a) /\ a[n] = (a \o b)[n]
    BY <1>1, <1>2
  <2>2. \A j \in 1 .. n - 1 : a[j] \notin world.accepts
    BY <1>1, <2>1
  <2> QED BY <2>1, <2>2 DEF FirstOf
<1>3. CASE n > Len(a)
  <2> DEFINE m == n - Len(a)
  <2>1. m \in 1 .. Len(b) /\ n = Len(a) + m
    BY <1>1, <1>3
  <2>2. \A j \in 1 .. Len(a) : a[j] \notin world.accepts
    BY <1>1, <1>3
  <2>3. \A j \in 1 .. m - 1 : j \in 1 .. Len(b) /\ Len(a) + j \in 1 .. n - 1
    BY <1>1, <2>1
  <2> HIDE DEF m
  <2>4. \A j \in 1 .. m - 1 : b[j] \notin world.accepts
    BY <1>1, <2>3
  <2>5. b[m] = (a \o b)[n]
    BY <1>1, <2>1
  <2>6. FirstOf(b, (a \o b)[n])
    BY <2>1, <2>4, <2>5 DEF FirstOf
  <2>7. Elements(a) \cap world.accepts = {}
    BY <2>2, ElementsAre
  <2> QED BY <2>6, <2>7
<1> QED BY <1>1, <1>2, <1>3

(* A sequence of which no element is in S has parts of which none is.      *)
LEMMA NoneOfJoined ==
  ASSUME NEW a \in Seq(Nat), NEW b \in Seq(Nat), NEW S,
         \A i \in 1 .. Len(a \o b) : (a \o b)[i] \notin S
  PROVE  Elements(a) \cap S = {} /\ Elements(b) \cap S = {}
<1>1. /\ Len(a) \in Nat /\ Len(b) \in Nat /\ Len(a \o b) = Len(a) + Len(b)
      /\ \A i \in 1 .. Len(a) : (a \o b)[i] = a[i]
      /\ \A i \in 1 .. Len(b) : (a \o b)[Len(a) + i] = b[i]
  BY JoinedSeq
<1>2. \A i \in 1 .. Len(a) : i \in 1 .. Len(a \o b)
  BY <1>1
<1>3. \A i \in 1 .. Len(b) : Len(a) + i \in 1 .. Len(a \o b)
  BY <1>1
<1>4. \A i \in 1 .. Len(a) : a[i] \notin S
  BY <1>1, <1>2
<1>5. \A i \in 1 .. Len(b) : b[i] \notin S
  BY <1>1, <1>3
<1> QED BY <1>4, <1>5, ElementsAre

(* The connection is to the first address that accepts, in the order of    *)
(* the strategy, and "refused" means that no address allowed does: the     *)
(* attempts neither skip an address nor go on after one that accepted.     *)
THEOREM FirstAccepts == Spec => []FirstThatAccepts
<1>1. ASSUME IInv PROVE FirstThatAccepts
  <2> DEFINE a == addrs["A"]
             b == addrs["AAAA"]
  <2>1. TypeOK /\ TriedInv /\ a \in Seq(Nat) /\ b \in Seq(Nat)
    BY <1>1, TriedFacts DEF IInv, Types
  <2>2. /\ Order \in Seq(Nat) /\ Len(Order) \in Nat /\ tried \in Nat
        /\ world.strategy \in Strategies /\ world.accepts \subseteq Nat \ {0}
    BY <2>1, TriedFacts
  <2> HIDE DEF a, b
  <2>3. /\ world.strategy \in {"Default", "PreferIpv6"} => Order = b \o a
        /\ world.strategy = "PreferIpv4" => Order = a \o b
        /\ world.strategy = "Ipv4Only" => Order = a
        /\ world.strategy = "Ipv6Only" => Order = b
    BY DEF Order, a, b
  <2>4. ASSUME result = "Refused"
        PROVE  \A t \in Allowed : Elements(addrs[t]) \cap world.accepts = {}
    <3>1. tried = Len(Order) /\ socket = 0
      BY <2>1, <2>4 DEF TriedInv
    <3>2. \A i \in 1 .. Len(Order) : Order[i] \notin world.accepts
      BY <2>1, <2>2, <2>4, <3>1 DEF TriedInv
    <3>3. CASE world.strategy \in {"Default", "PreferIpv6", "PreferIpv4"}
      <4>1. Elements(a) \cap world.accepts = {} /\ Elements(b) \cap world.accepts = {}
        BY <2>1, <2>3, <3>2, <3>3, NoneOfJoined
      <4> QED BY <4>1 DEF a, b, Allowed, Types
    <3>4. CASE world.strategy = "Ipv4Only"
      <4>1. Elements(a) \cap world.accepts = {}
        BY <2>1, <2>3, <3>2, <3>4, ElementsAre
      <4> QED BY <3>4, <4>1 DEF a, Allowed
    <3>5. CASE world.strategy = "Ipv6Only"
      <4>1. Elements(b) \cap world.accepts = {}
        BY <2>1, <2>3, <3>2, <3>5, ElementsAre
      <4> QED BY <3>5, <4>1 DEF b, Allowed
    <3> QED BY <2>2, <3>3, <3>4, <3>5 DEF Strategies
  <2>5. ASSUME socket # 0
        PROVE  \/ FirstOf(addrs[Preferred], socket)
               \/ /\ world.strategy \notin {"Ipv4Only", "Ipv6Only"}
                  /\ Elements(addrs[Preferred]) \cap world.accepts = {}
                  /\ FirstOf(addrs[Other], socket)
    <3>1. tried \in 1 .. Len(Order) /\ socket = Order[tried]
      BY <2>1, <2>2, <2>5 DEF TriedInv
    <3>2. \A i \in 1 .. tried - 1 : i \in 1 .. tried /\ i # tried
      BY <2>2
    <3>3. \A i \in 1 .. tried - 1 : Order[i] \notin world.accepts
      BY <2>1, <3>2 DEF TriedInv
    <3>4. CASE world.strategy \in {"Default", "PreferIpv6"}
      <4>1. FirstOf(b, socket) \/ (Elements(b) \cap world.accepts = {} /\ FirstOf(a, socket))
        BY <2>1, <2>3, <3>1, <3>3, <3>4, FirstOfJoined
      <4> QED BY <3>4, <4>1 DEF a, b, Preferred, Other
    <3>5. CASE world.strategy = "PreferIpv4"
      <4>1. FirstOf(a, socket) \/ (Elements(a) \cap world.accepts = {} /\ FirstOf(b, socket))
        BY <2>1, <2>3, <3>1, <3>3, <3>5, FirstOfJoined
      <4> QED BY <3>5, <4>1 DEF a, b, Preferred, Other
    <3>6. CASE world.strategy \in {"Ipv4Only", "Ipv6Only"}
      <4>1. FirstOf(Order, socket)
        BY <3>1, <3>3 DEF FirstOf
      <4> QED BY <2>3, <3>6, <4>1 DEF a, b, Preferred
    <3> QED BY <2>2, <3>4, <3>5, <3>6 DEF Strategies
  <2> QED BY <2>4, <2>5 DEF FirstThatAccepts
<1>2. IInv => FirstThatAccepts
  BY <1>1
<1> QED BY <1>2, Invariant, PTL

-----------------------------------------------------------------------------
(* Whose addresses are tried.                                              *)

(* What the hosts file and the server's answers to the query for the       *)
(* records of a type hold of that type is about the name asked for.        *)
(* Answers to other queries may hold anything.                             *)
Honest(w) ==
  \A t \in Types :
    /\ \A i \in 1 .. Len(w.hosts[t]) : w.hosts[t][i].addr \in Elements(w.host[t])
    /\ \A reply \in w.replies[t] : \A i \in 1 .. Len(reply.records) :
         reply.records[i].type = t => reply.records[i].addr \in Elements(w.host[t])

AddressesOf(rs, s) == \A i \in 1 .. Len(rs) : rs[i].addr \in Elements(s)

RecordsAreTheHosts == \A t \in Types : AddressesOf(records[t], world.host[t])

(* Of a packet that matches, only records of the type asked for are used.  *)
LEMMA FoundIsTheHosts ==
  ASSUME TypeOK, Honest(world), NEW t \in Types, NEW p \in Packets(t), Matches(t, p)
  PROVE  AddressesOf(Found(t, p.reply), world.host[t])
<1> DEFINE reply == p.reply
<1>1. reply \in world.replies[t] /\ reply \in ReplyType
  BY MatchingPackets
<1> HIDE DEF reply
<1>2. reply.records \in Seq(RecordType)
  BY <1>1 DEF ReplyType
<1>3. \A j \in 1 .. Len(reply.records) :
        Wanted(t, reply.records[j]) => reply.records[j].addr \in Elements(world.host[t])
  BY <1>1 DEF Honest, Wanted
<1>4. AddressesOf(WantedOf(t, reply.records), world.host[t])
  <2> DEFINE ws == WantedOf(t, reply.records)
  <2>1. \A i \in 1 .. Len(ws) : \E j \in 1 .. Len(reply.records) :
          ws[i] = reply.records[j] /\ Wanted(t, reply.records[j])
    BY <1>2, WantedAre
  <2> HIDE DEF ws
  <2>2. AddressesOf(ws, world.host[t])
    BY <1>3, <2>1 DEF AddressesOf
  <2> QED BY <2>2 DEF ws
<1>5. AddressesOf(<< >>, world.host[t])
  BY DEF AddressesOf
<1> QED BY <1>4, <1>5 DEF Found, reply

LEMMA RecordsStay ==
  ASSUME TypeOK, Honest(world), RecordsAreTheHosts, Next
  PROVE  RecordsAreTheHosts'
<1>1. world' = world
  BY DEF Next, Ask, Joined, ConnectStep
<1>2. \A t \in Types : AddressesOf(<< >>, world.host[t])
  BY DEF AddressesOf
<1>3. records \in [Types -> Seq(RecordType)]
  BY DEF TypeOK
<1>4. ASSUME records' = [t \in Types |-> << >>] PROVE RecordsAreTheHosts'
  BY <1>1, <1>2, <1>4 DEF RecordsAreTheHosts
<1>5. CASE Ask
  <2>1. CASE LookupHosts
    <3>1. records' = [t \in Types |-> IF world.in_hosts THEN world.hosts[t] ELSE << >>]
      BY <2>1 DEF LookupHosts
    <3>2. \A t \in Types : AddressesOf(world.hosts[t], world.host[t])
      BY DEF Honest, AddressesOf
    <3>3. CASE world.in_hosts
      BY <1>1, <3>1, <3>2, <3>3 DEF RecordsAreTheHosts
    <3>4. CASE ~world.in_hosts
      BY <1>4, <3>1, <3>4
    <3> QED BY <3>3, <3>4
  <2>2. ASSUME NEW t \in Types, OneLookup(t) PROVE RecordsAreTheHosts'
    <3>1. CASE records' = records
      BY <1>1, <3>1 DEF RecordsAreTheHosts
    <3>2. ASSUME NEW p \in Packets(t), Matches(t, p),
                 records' = [records EXCEPT ![t] = Found(t, p.reply)]
          PROVE  RecordsAreTheHosts'
      <4>1. AddressesOf(Found(t, p.reply), world.host[t])
        BY <3>2, FoundIsTheHosts
      <4>2. \A u \in Types : records'[u] = IF u = t THEN Found(t, p.reply) ELSE records[u]
        BY <1>3, <3>2
      <4>3. \A u \in Types : AddressesOf(records'[u], world.host[u])
        BY <4>1, <4>2 DEF RecordsAreTheHosts
      <4> QED BY <1>1, <4>3 DEF RecordsAreTheHosts
    <3> QED BY <2>2, <3>1, <3>2 DEF OneLookup
  <2> QED BY <1>5, <2>1, <2>2, AskIs
<1>6. CASE Joined
  <2>1. records' = records \/ records' = [t \in Types |-> << >>]
    BY <1>6 DEF Joined, StartLookups, lookupVars
  <2>2. CASE records' = records
    BY <1>1, <2>2 DEF RecordsAreTheHosts
  <2> QED BY <1>4, <2>1, <2>2
<1>7. CASE ConnectStep
  BY <1>1, <1>7 DEF ConnectStep, lookupVars, RecordsAreTheHosts
<1> QED BY <1>5, <1>6, <1>7 DEF Next

LEMMA AddressesStay ==
  ASSUME TypeOK, RecordsAreTheHosts, AddressesAreTheHosts, Next
  PROVE  AddressesAreTheHosts'
<1>1. world' = world
  BY DEF Next, Ask, Joined, ConnectStep
<1>2. CASE addrs' = addrs
  BY <1>1, <1>2 DEF AddressesAreTheHosts
<1>3. CASE addrs' = [t \in Types |-> Addresses(records[t])]
  <2>1. ASSUME NEW t \in Types PROVE Elements(Addresses(records[t])) \subseteq Elements(world.host[t])
    <3> DEFINE rs == records[t]
    <3>1. rs \in Seq(RecordType) /\ Len(rs) \in Nat
      BY DEF TypeOK
    <3>2. \A i \in 1 .. Len(rs) : rs[i].addr \in Elements(world.host[t])
      BY DEF RecordsAreTheHosts, AddressesOf
    <3> HIDE DEF rs
    <3>3. Len(Addresses(rs)) = Len(rs) /\ \A i \in 1 .. Len(rs) : Addresses(rs)[i] = rs[i].addr
      BY <3>1 DEF Addresses
    <3>4. ASSUME NEW x \in Elements(Addresses(rs)) PROVE x \in Elements(world.host[t])
      <4>1. PICK i \in 1 .. Len(rs) : x = Addresses(rs)[i]
        BY <3>3 DEF Elements
      <4> QED BY <3>2, <3>3, <4>1
    <3> QED BY <3>4 DEF rs
  <2> QED BY <1>1, <1>3, <2>1 DEF AddressesAreTheHosts
<1> QED BY <1>2, <1>3 DEF Next, Ask, Joined, ConnectStep, connVars

(* When the sources asked are honest, only addresses of the name are       *)
(* tried, whatever other packets arrive at the socket, parsed or not, and  *)
(* in which order: the identifier keeps them out.                          *)
THEOREM HonestAddresses == Spec => [](Honest(world) => AddressesAreTheHosts)
<1> DEFINE Ours == Honest(world) => RecordsAreTheHosts /\ AddressesAreTheHosts
<1>1. Init => Ours
  <2> SUFFICES ASSUME Init PROVE RecordsAreTheHosts /\ AddressesAreTheHosts
    OBVIOUS
  <2>1. Elements(<< >>) = {} /\ \A t \in Types : AddressesOf(<< >>, world.host[t])
    BY DEF Elements, AddressesOf
  <2> QED BY <2>1 DEF Init, NoAddrs, RecordsAreTheHosts, AddressesAreTheHosts
<1>2. TypeOK /\ Ours /\ [Next]_vars => Ours'
  <2> SUFFICES ASSUME TypeOK, Ours, [Next]_vars, Honest(world)'
               PROVE  RecordsAreTheHosts' /\ AddressesAreTheHosts'
    OBVIOUS
  <2>1. CASE UNCHANGED vars
    BY <2>1 DEF vars, lookupVars, connVars, Honest, RecordsAreTheHosts, AddressesAreTheHosts
  <2>2. CASE Next
    <3>1. world' = world
      BY <2>2 DEF Next, Ask, Joined, ConnectStep
    <3>2. Honest(world)
      BY <3>1 DEF Honest
    <3> QED BY <2>2, <3>2, RecordsStay, AddressesStay
  <2> QED BY <2>1, <2>2
<1>3. IInv => TypeOK
  BY DEF IInv
<1>4. Ours => (Honest(world) => AddressesAreTheHosts)
  OBVIOUS
<1> QED BY <1>1, <1>2, <1>3, <1>4, Invariant, PTL DEF Spec
=============================================================================
