----------------------------- MODULE MCTlsConn -----------------------------
(* Instances of TlsConn for TLC.                                           *)
EXTENDS TlsConn

\* kinds as << kind, after >> pairs
Server(units, end) ==
  [kinds |-> [i \in DOMAIN units |-> units[i][1]],
   after |-> [i \in DOMAIN units |-> units[i][2]],
   fin   |-> end]

More(n) == << "More", n >>

MCPeers == {
  \* TLS 1.3, data with the handshake, a record longer than a read_tls, the end
  Server(<< More(2), << "Finished13", 2 >>, << "Data", 2 >>,
            More(3), More(3), << "Data", 3 >> >>, TRUE),
  \* a key update between data, a close_notify, then silence
  Server(<< << "Finished13", 2 >>, << "Data", 3 >>, << "KeyUpdate", 3 >>,
            More(3), << "Data", 3 >>, << "CloseNotify", 3 >> >>, FALSE),
  \* TLS 1.2, a record cut by the end
  Server(<< << "ServerHello", 2 >>, << "Finished12", 3 >>, More(3), << "Data", 3 >>,
            More(4) >>, TRUE),
  \* a server that refuses, one that hangs up, one that breaks later
  Server(<< More(2), << "Bad", 2 >> >>, FALSE),
  Server(<< More(2) >>, TRUE),
  Server(<< << "Finished13", 2 >>, << "Data", 2 >>, << "Bad", 3 >> >>, TRUE)}
=============================================================================
