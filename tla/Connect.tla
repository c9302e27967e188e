------------------------------ MODULE Connect ------------------------------
(***************************************************************************)
(* Conn::connect_stats of src/net/conn.rs: the Resolver (src/dns/resolver) *)
(* asks its services in turn, then the addresses are tried in turn, in the *)
(* order of the IpStrategy.                                                *)
(***************************************************************************)
EXTENDS NameServer

CONSTANTS
  NameServers,   \* how many resolv.conf lists
  Rounds         \* how often resolve_ips_lookup asks all services, 3

ASSUME ServicesAssumption == NameServers \in Nat /\ Rounds \in Nat \ {0}

Strategies == {"Default", "Ipv4Only", "Ipv6Only", "PreferIpv4", "PreferIpv6"}

(* An address is not 0.  A name that is itself an address has that one; a  *)
(* name the hosts file has is there with an address.                       *)
WorldType(w) ==
  /\ w.host \in [Types -> Seq(Nat)] /\ w.hosts \in [Types -> Seq(RecordType)]
  /\ w.replies \in [Types -> SUBSET ReplyType] /\ w.strays \subseteq ReplyType
  /\ {w.literal, w.in_hosts, w.timeout} \subseteq BOOLEAN /\ w.strategy \in Strategies
  /\ w.accepts \subseteq Nat \ {0} /\ w.no_socket \subseteq Nat
  /\ w.literal => \E t \in Types : w.host[t] # << >>
  /\ w.in_hosts => \E t \in Types : w.hosts[t] # << >>

ASSUME WorldsAssumption == \A w \in Worlds : WorldType(w)

VARIABLES
  pc,         \* "Lookup", "Connect", or "Done"
  round,      \* of resolve_ips_lookup's outer loop
  service,    \* the service asked: 0 is the hosts file
  addrs,      \* LookupIp
  tried,      \* how many addresses have been tried (stats.tcp_tries)
  socket,     \* the address connected to, 0 for none
  result      \* what connect_stats returned

connVars == << pc, round, service, addrs, tried, socket, result >>
vars == << world, lookupVars, connVars >>

NoAddrs == [t \in Types |-> << >>]

Results == {"None", "Ok", "DnsError", "NoAddresses", "Refused", "SocketError",
            "Timeout", "Interrupted", "OptionError"}

Init ==
  /\ world \in Worlds
  /\ lookup = [t \in Types |-> "Ready"]
  /\ id = [t \in Types |-> CHOOSE i \in Ids : TRUE]
  /\ records = NoAddrs
  /\ pc = IF world.literal THEN "Connect" ELSE "Lookup"
  /\ round = 1 /\ service = 0
  /\ addrs = IF world.literal THEN world.host ELSE NoAddrs
  /\ tried = 0 /\ socket = 0 /\ result = "None"

-----------------------------------------------------------------------------
(* Resolver::resolve_ips_lookup.                                           *)

Ask ==
  /\ pc = "Lookup"
  /\ \/ service = 0 /\ LookupHosts
     \/ /\ service > 0
        /\ \E t \in Types :
             SendQuery(t) \/ LookupTimeout(t) \/ \E p \in Packets(t) : Receive(t, p)
  /\ UNCHANGED << world, connVars >>

Addresses(s) == [i \in 1 .. Len(s) |-> s[i].addr]

Success == \E t \in Types : lookup[t] = "Ok"

LastService == service = NameServers

(* Both lookups are back: one that succeeded is enough.  Otherwise the next*)
(* service, and after the last one the next round.                         *)
Joined ==
  /\ pc = "Lookup" /\ Answered
  /\ \/ /\ Success
        /\ addrs' = [t \in Types |-> Addresses(records[t])]
        /\ pc' = "Connect"
        /\ UNCHANGED << round, service, result, lookupVars >>
     \/ /\ ~Success /\ ~LastService
        /\ service' = service + 1
        /\ StartLookups
        /\ UNCHANGED << pc, round, addrs, result >>
     \/ /\ ~Success /\ LastService /\ round < Rounds
        /\ service' = 0 /\ round' = round + 1
        /\ StartLookups
        /\ UNCHANGED << pc, addrs, result >>
     \/ /\ ~Success /\ LastService /\ round = Rounds
        /\ pc' = "Done" /\ result' = "DnsError"
        /\ UNCHANGED << round, service, addrs, lookupVars >>
  /\ UNCHANGED << world, tried, socket >>

-----------------------------------------------------------------------------
(* Conn::connect_to and connect_addrs.                                     *)

\* mutant: the other family goes first
Order_Swapped ==
  IF world.strategy \in {"Default", "PreferIpv6"}
  THEN addrs["A"] \o addrs["AAAA"]
  ELSE IF world.strategy = "PreferIpv4" THEN addrs["AAAA"] \o addrs["A"]
  ELSE addrs[IF world.strategy = "Ipv4Only" THEN "A" ELSE "AAAA"]

Order ==
  CASE world.strategy \in {"Default", "PreferIpv6"} -> addrs["AAAA"] \o addrs["A"]
    [] world.strategy = "PreferIpv4" -> addrs["A"] \o addrs["AAAA"]
    [] world.strategy = "Ipv4Only" -> addrs["A"]
    [] world.strategy = "Ipv6Only" -> addrs["AAAA"]

Finish(r) == pc' = "Done" /\ result' = r

Trying == pc = "Connect" /\ socket = 0
Next_  == Order[tried + 1]

\* a socket of the address's kind cannot be had: no other address is tried
SocketFails ==
  /\ Trying /\ tried < Len(Order)
  /\ Next_ \in world.no_socket
  /\ Finish("SocketError")
  /\ UNCHANGED << tried, socket >>

Accepted ==
  /\ Trying /\ tried < Len(Order)
  /\ Next_ \in world.accepts \ world.no_socket
  /\ tried' = tried + 1 /\ socket' = Next_
  /\ UNCHANGED << pc, result >>

\* connect fails; check_interrupt may end it all
Refused ==
  /\ Trying /\ tried < Len(Order)
  /\ Next_ \notin world.accepts \cup world.no_socket
  /\ tried' = tried + 1
  /\ \/ UNCHANGED << pc, result >>
     \/ Finish("Interrupted")
  /\ UNCHANGED socket

Exhausted ==
  /\ Trying /\ tried = Len(Order)
  /\ Finish(IF tried > 0 THEN "Refused" ELSE "NoAddresses")
  /\ UNCHANGED << tried, socket >>

\* options.timeout, over the attempts alone
ConnectTimeout ==
  /\ Trying /\ tried < Len(Order) /\ world.timeout
  /\ Finish("Timeout")
  /\ UNCHANGED << tried, socket >>

\* the socket options are set, or one of them fails and drops the socket
SetOptions ==
  /\ pc = "Connect" /\ socket # 0
  /\ \/ Finish("Ok") /\ UNCHANGED socket
     \/ Finish("OptionError") /\ socket' = 0
  /\ UNCHANGED tried

ConnectStep ==
  /\ SocketFails \/ Accepted \/ Refused \/ Exhausted \/ ConnectTimeout \/ SetOptions
  /\ UNCHANGED << world, lookupVars, round, service, addrs >>

Next == Ask \/ Joined \/ ConnectStep

Spec == Init /\ [][Next]_vars

(* Queries are sent, timers fire and connect() ends; that a packet arrives *)
(* is not assumed.                                                         *)
FairSpec ==
  /\ Spec
  /\ WF_vars(Joined) /\ WF_vars(ConnectStep)
  /\ WF_vars(pc = "Lookup" /\ service = 0 /\ LookupHosts /\ UNCHANGED << world, connVars >>)
  /\ \A t \in Types :
       WF_vars(/\ pc = "Lookup" /\ service > 0
               /\ SendQuery(t) \/ LookupTimeout(t)
               /\ UNCHANGED << world, connVars >>)

-----------------------------------------------------------------------------
TypeOK ==
  /\ world \in Worlds
  /\ lookup \in [Types -> LookupStates] /\ id \in [Types -> Ids]
  /\ records \in [Types -> Seq(RecordType)]
  /\ pc \in {"Lookup", "Connect", "Done"}
  /\ round \in 1 .. Rounds /\ service \in 0 .. NameServers
  /\ addrs \in [Types -> Seq(Nat)]
  /\ tried \in Nat /\ socket \in Nat /\ result \in Results

Elements(s) == {s[i] : i \in 1 .. Len(s)}

(* The addresses tried are addresses of the name asked for: neither a      *)
(* packet meant for another query nor a record about another host gets in. *)
AddressesAreTheHosts ==
  \A t \in Types : Elements(addrs[t]) \subseteq Elements(world.host[t])

(* A lookup that succeeds has an address: "no addresses" is reported only  *)
(* when the strategy excludes those there are.  The types hold.            *)
NoAddressesMeansExcluded ==
  /\ TypeOK
  /\ pc = "Connect" => \E t \in Types : addrs[t] # << >>
  /\ result = "NoAddresses" => world.strategy \in {"Ipv4Only", "Ipv6Only"}

Allowed ==
  CASE world.strategy = "Ipv4Only" -> {"A"}
    [] world.strategy = "Ipv6Only" -> {"AAAA"}
    [] OTHER -> Types

Preferred == IF world.strategy \in {"PreferIpv4", "Ipv4Only"} THEN "A" ELSE "AAAA"
Other     == IF Preferred = "A" THEN "AAAA" ELSE "A"

FirstOf(s, addr) ==
  \E i \in 1 .. Len(s) :
    s[i] = addr /\ \A j \in 1 .. i - 1 : s[j] \notin world.accepts

(* A connection is to the first address, in the order the strategy         *)
(* prescribes, that accepts one; and "Refused" is reported only when no    *)
(* address the strategy allows accepts.                                    *)
FirstThatAccepts ==
  /\ result = "Refused" => \A t \in Allowed : Elements(addrs[t]) \cap world.accepts = {}
  /\ socket # 0 =>
       \/ FirstOf(addrs[Preferred], socket)
       \/ /\ world.strategy \notin {"Ipv4Only", "Ipv6Only"}
          /\ Elements(addrs[Preferred]) \cap world.accepts = {}
          /\ FirstOf(addrs[Other], socket)

(* connect_stats returns, whatever the servers do.                         *)
ConnectReturns == <>(pc = "Done")
=============================================================================
