----------------------------- MODULE MCConnect -----------------------------
(* Instances of Connect for TLC.                                           *)
EXTENDS Connect

Own(type, addr) == [own |-> TRUE, type |-> type, addr |-> addr]
Alien(type, addr) == [own |-> FALSE, type |-> type, addr |-> addr]

Reply(rs)  == [noerror |-> TRUE, records |-> rs]
NXDomain   == [noerror |-> FALSE, records |-> << >>]

\* IPv4 addresses 1 and 2, IPv6 address 3; 8 and 9 are other hosts'
MCHost    == [t \in Types |-> IF t = "A" THEN << 1, 2 >> ELSE << 3 >>]
Ip4       == [t \in Types |-> IF t = "A" THEN << 1 >> ELSE << >>]
Stray     == {Reply(<< Alien("A", 8), Alien("AAAA", 9) >>)}

Records(h) == [t \in Types |-> [i \in 1 .. Len(h[t]) |-> Own(t, h[t][i])]]

\* the name is an alias: the addresses are records of another name
Aliased(rs) == << Own("CNAME", 0) >> \o [i \in 1 .. Len(rs) |-> [rs[i] EXCEPT !.own = FALSE]]

World(strategy, accepts) ==
  [host |-> MCHost, literal |-> FALSE, in_hosts |-> FALSE, hosts |-> Records(MCHost),
   replies |-> [t \in Types |-> {Reply(Aliased(Records(MCHost)[t])), Reply(<< Own("CNAME", 0) >>), NXDomain}],
   strays |-> Stray, strategy |-> strategy, timeout |-> FALSE,
   accepts |-> accepts, no_socket |-> {}]

\* a name that is an address is known to nobody
NoRecords == [t \in Types |-> << >>]
Unknown   == [t \in Types |-> {NXDomain}]

\* every strategy with every set of addresses that accept
MCWorlds ==
  { World(s, a) : s \in Strategies, a \in SUBSET {1, 2, 3} }
    \cup { [World(s, {2, 3}) EXCEPT !.in_hosts = TRUE, !.timeout = to] : s \in Strategies, to \in BOOLEAN }
    \cup { [World(s, {2}) EXCEPT !.no_socket = {3}] : s \in Strategies }
    \cup { [World(s, {1}) EXCEPT !.host = Ip4, !.literal = TRUE,
                                         !.hosts = NoRecords, !.replies = Unknown] : s \in Strategies }
    \* the hosts file has only an IPv6 address
    \cup { [World("Default", {3}) EXCEPT !.in_hosts = TRUE, !.hosts["A"] = << >>] }

\* an answer whose additional section has the name server's own address
MCGlueWorlds ==
  { [World("Default", {1}) EXCEPT
       !.replies["A"] = {Reply(<< Own("A", 1), Alien("A", 8) >>)}] }
=============================================================================
