----------------------------- MODULE NameServer -----------------------------
(***************************************************************************)
(* The services a Resolver asks: the hosts file (src/dns/hosts.rs) and the *)
(* name servers (src/dns/name_server.rs), each asked for the A and for the *)
(* AAAA records of one name at once.  A name server is asked over a UDP    *)
(* socket of its own, so packets may be lost, doubled, late or not meant   *)
(* for this query.                                                         *)
(***************************************************************************)
EXTENDS Integers, Sequences

CONSTANTS
  Worlds,     \* what a name's lookup and connection may meet
  Ids         \* the identifiers of queries

ASSUME IdsAssumption == Ids # {}

Types == {"A", "AAAA"}

(* A name: its addresses; whether it is itself an address; what the hosts  *)
(* file has on it; what name servers answer to each query, and to others;  *)
(* and how its addresses take a connection under the options chosen.       *)
(*   [host, literal, in_hosts, hosts, replies, strays,                     *)
(*    strategy, timeout, accepts, no_socket]                               *)

(* A record of an answer: whether it is about the name asked for, its type *)
(* ("A", "AAAA" or another) and the address it holds.                      *)
RecordType == [own : BOOLEAN, type : Types \cup {"CNAME", "SOA"}, addr : Nat]

(* An answer's code and its records, those of all three sections in turn.  *)
ReplyType == [noerror : BOOLEAN, records : Seq(RecordType)]

VARIABLES
  world,    \* what this name's lookup meets
  lookup,   \* lookup[t]: where the query for the records of type t is
  id,       \* the identifier it carries
  records   \* the records it returned

lookupVars == << lookup, id, records >>

LookupStates == {"Ready", "Sent", "Ok", "Error"}

StartLookups ==
  /\ lookup' = [t \in Types |-> "Ready"]
  /\ records' = [t \in Types |-> << >>]
  /\ UNCHANGED id

-----------------------------------------------------------------------------
(* Hosts::lookup: a name that is there has both kinds of records, maybe    *)
(* none of one of them.                                                    *)
LookupHosts ==
  /\ \A t \in Types : lookup[t] = "Ready"
  /\ lookup' = [t \in Types |-> IF world.in_hosts THEN "Ok" ELSE "Error"]
  /\ records' = [t \in Types |-> IF world.in_hosts THEN world.hosts[t] ELSE << >>]
  /\ UNCHANGED id

-----------------------------------------------------------------------------
(* NameServer::lookup.                                                     *)

\* a new socket and a new random identifier; connect or send may fail
SendQuery(t) ==
  /\ lookup[t] = "Ready"
  /\ \/ \E i \in Ids : id' = [id EXCEPT ![t] = i] /\ lookup' = [lookup EXCEPT ![t] = "Sent"]
     \/ lookup' = [lookup EXCEPT ![t] = "Error"] /\ UNCHANGED id
  /\ UNCHANGED records

\* mutant: whatever parses is the answer
Matches_Any(t, packet) == packet.parses

\* the packet parses and carries the identifier of the query
Matches(t, packet) == packet.parses /\ packet.id = id[t]

(* Every record of the type asked for counts, whatever its name (the name  *)
(* may be an alias) and its section.                                       *)
Wanted(t, r) == r.type = t

WantedOf(t, rs) ==
  LET wanted[n \in 0 .. Len(rs)] ==
        IF n = 0 THEN << >>
        ELSE IF Wanted(t, rs[n]) THEN Append(wanted[n - 1], rs[n]) ELSE wanted[n - 1]
  IN  wanted[Len(rs)]

Found(t, reply) == IF reply.noerror THEN WantedOf(t, reply.records) ELSE << >>

\* mutant: an answer without an error is a success
LookupResult_NoError(reply, found) == IF reply.noerror THEN "Ok" ELSE "Error"

LookupResult(reply, found) == IF found # << >> THEN "Ok" ELSE "Error"

(* A packet arrives.  One that does not match is dropped, and the next one *)
(* awaited; without a record of the type the lookup fails.                 *)
Receive(t, packet) ==
  /\ lookup[t] = "Sent"
  /\ Matches(t, packet)
  /\ records' = [records EXCEPT ![t] = Found(t, packet.reply)]
  /\ lookup' = [lookup EXCEPT ![t] = LookupResult(packet.reply, records'[t])]
  /\ UNCHANGED id

(* What may arrive: the server's answer, an answer to another query, or    *)
(* what is no packet at all.                                               *)
Packets(t) ==
  [parses : {TRUE}, id : {id[t]}, reply : world.replies[t]]
    \cup [parses : {TRUE}, id : Ids \ {id[t]}, reply : world.strays]
    \cup [parses : {FALSE}, id : {id[t]}, reply : world.strays]

\* mutant: an answer is waited for without a timeout
LookupTimeout_Never(t) == FALSE /\ UNCHANGED lookupVars

\* five seconds are over, or recv fails
LookupTimeout(t) ==
  /\ lookup[t] = "Sent"
  /\ lookup' = [lookup EXCEPT ![t] = "Error"]
  /\ UNCHANGED << id, records >>

Answered == \A t \in Types : lookup[t] \in {"Ok", "Error"}
=============================================================================
