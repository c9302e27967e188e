--------------------------- MODULE MCHttpTransfer ---------------------------
(* An instance of HttpTransfer for TLC.                                    *)
EXTENDS HttpTransfer

U(scheme, host) == [scheme |-> scheme, host |-> host]

MCRequests ==
  [url : {U(s, "h1") : s \in Schemes}, error : {"None", "Builder"}, host : {"None", "h2"},
   body : Payloads, follow : {0, 2}]

Answer(redirection, location, length) ==
  [redirection |-> redirection, headers |-> [location |-> location, length |-> length]]

\* redirects to either host, so in circles, elsewhere, and without a Location
MCAnswers ==
  { Answer(TRUE, l, "Valid") : l \in Url \cup {NoUrl, Binary, Malformed} }
    \cup { Answer(TRUE, U("http", "h2"), n) : n \in {"None", "Invalid"} }
    \cup { Answer(FALSE, l, n) : l \in {NoUrl, U("http", "h1")}, n \in {"None", "Valid", "Invalid"} }
=============================================================================
