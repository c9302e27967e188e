------------------------------ MODULE Upgrade ------------------------------
(***************************************************************************)
(* The opening handshake of src/ws (transfer.rs, conn.rs, handshake.rs): a *)
(* client runs a WsRequest, again and again if it likes, each time with a  *)
(* new key, through redirects; a WebSocketServer runs a WebSocketHandle    *)
(* for each connection it accepts.  The client also meets servers that are *)
(* not this code, and the server clients that are not.                     *)
(*                                                                         *)
(* A head (a request's or an answer's) travels as Part units and an End    *)
(* that carries what its lines say; frames follow as Frame units.  A       *)
(* BufReader's fill takes any part of what has come, frames behind a head  *)
(* included, or a piece of the line that comes next.  A line that comes in *)
(* three pieces or more is late: read_line_in_place may then take the lines*)
(* behind it for a part of it, or run past the buffer.  HttpHead has how it*)
(* does so byte by byte; here it is a choice of what that can end in.      *)
(***************************************************************************)
EXTENDS Naturals, Sequences

CONSTANTS
  MaxRuns,      \* bound: how often the application runs the request
  MaxConns,     \* bound: connections, each of its own
  MaxFrames,    \* bound: frames an end sends in a connection
  MaxRedirects, \* Options::follow_redirect
  Capacity,     \* capacity of a BufReader, in units
  Requests,     \* heads other clients send
  Answers(_)    \* heads other servers send to a client that has used n keys

ASSUME BoundsAssumption ==
  /\ {MaxRuns, MaxConns, MaxFrames, MaxRedirects} \subseteq Nat
  /\ Capacity \in Nat \ {0}

\* Key 0 stands for none.  accept(key) is one to one: keys stand for it, too.
Request ==
  [get : BOOLEAN, http11 : BOOLEAN, connection : BOOLEAN, upgrade : BOOLEAN,
   version : BOOLEAN, key : Nat, decodes : BOOLEAN]
Response ==
  [status : {"SwitchingProtocols", "Redirect", "Other", "Malformed"},
   connection : BOOLEAN, upgrade : BOOLEAN, accept : Nat]

ASSUME HeadsAssumption ==
  /\ Requests \subseteq Request
  /\ \A n \in 0 .. MaxRuns : Answers(n) \subseteq Response

Part      == [kind |-> "Part"]
End(h)    == [kind |-> "End", head |-> h]
Frame(i)  == [kind |-> "Frame", number |-> i]
Frames(n) == [i \in 1 .. n |-> Frame(i)]

VARIABLES
  cpc,        \* where connect() awaits, or what it returned
  runs,       \* keys made so far; the last is this run's
  header,     \* the key in the request's headers
  redirects,  \* transfer: redirects remaining
  mine,       \* transfer: the client's connection
  unsent,     \* transfer: what is left of the request to send
  cbuf,       \* transfer: the BufReader
  late,       \* history: a line of the answer being read is late
  conns       \* all connections

(* up and down are what is in flight; upEnd and downEnd say that it ends   *)
(* there; spc, sbuf, out are the server task's: where it awaits, its       *)
(* BufReader, what it has left to write; slate is its late; answered is the*)
(* key it answered; cframes and sframes count the frames sent.             *)
NewConn(client, server) ==
  [client |-> client, server |-> server, up |-> << >>, down |-> << >>,
   upEnd |-> FALSE, downEnd |-> FALSE,
   spc |-> IF server = "ours" THEN "Read" ELSE "Other", sbuf |-> << >>, out |-> << >>,
   slate |-> FALSE, answered |-> 0, cframes |-> 0, sframes |-> 0]

clientVars == << cpc, runs, header, redirects, mine, unsent, cbuf, late >>
vars       == << clientVars, conns >>

Init ==
  /\ cpc = "Idle" /\ runs = 0 /\ header = 0 /\ redirects = 0 /\ mine = 0
  /\ unsent = << >> /\ cbuf = << >> /\ late = FALSE /\ conns = << >>

Running == cpc \in {"Connect", "Send", "Read", "Past"}

\* what is left in a buffer once the parser took the lines that are there
Unparsed(buf) == IF buf # << >> /\ buf[1] = Part THEN Tail(buf) ELSE buf
HeadCame(buf) == buf # << >> /\ buf[1].kind = "End"

FillSizes(buf, arrived) == {n \in 1 .. Len(arrived) : Len(buf) + n <= Capacity}
Filled(buf, arrived, n) == Unparsed(buf \o SubSeq(arrived, 1, n))
RestOf(s, n)            == SubSeq(s, n + 1, Len(s))

-----------------------------------------------------------------------------
(* The client: connect().                                                  *)

\* mutant: header() adds a header beside the old one, which is read first
HeaderKey_Added(old, new) == IF old = 0 THEN new ELSE old

HeaderKey(old, new) == new

Run ==
  /\ cpc \in {"Idle", "Rejected", "Failed"} /\ runs < MaxRuns
  /\ runs'      = runs + 1
  /\ header'    = HeaderKey(header, runs + 1)
  /\ redirects' = MaxRedirects
  /\ cpc'       = "Connect"
  /\ UNCHANGED << mine, unsent, cbuf, late, conns >>

OurRequest ==
  [get |-> TRUE, http11 |-> TRUE, connection |-> TRUE, upgrade |-> TRUE,
   version |-> TRUE, key |-> header, decodes |-> TRUE]

Connect ==
  /\ cpc = "Connect" /\ Len(conns) < MaxConns
  /\ \E server \in {"ours", "other"} : conns' = Append(conns, NewConn("ours", server))
  /\ mine'   = Len(conns')
  /\ unsent' = << Part, End(OurRequest) >>
  /\ cbuf'   = << >>
  /\ late'   = FALSE
  /\ cpc'    = "Send"
  /\ UNCHANGED << runs, header, redirects >>

SendRequest ==
  /\ cpc = "Send"
  /\ \E k \in 1 .. Len(unsent) :
       /\ conns'  = [conns EXCEPT ![mine].up = @ \o SubSeq(unsent, 1, k)]
       /\ unsent' = RestOf(unsent, k)
       /\ cpc'    = IF k = Len(unsent) THEN "Read" ELSE "Send"
  /\ UNCHANGED << runs, header, redirects, mine, cbuf, late >>

\* mutant: any key is taken for this run's
Accepts_AnyKey(h) == h.status = "SwitchingProtocols" /\ h.connection /\ h.upgrade /\ h.accept # 0

Accepts(h) == h.status = "SwitchingProtocols" /\ h.connection /\ h.upgrade /\ h.accept = runs

\* what transfer and connect() make of an answer's head
Outcome(h) ==
  CASE h.status = "Malformed"                   -> "Failed"
    [] h.status = "Redirect" /\ redirects > 0   -> "Connect"
    [] h.status # "Malformed" /\ Accepts(h)     -> "Open"
    [] OTHER                                    -> "Rejected"

(* fill() brings a piece of the line that comes next, and then another:    *)
(* read_line_in_place searches in vain twice and loses count.  What it     *)
(* counted too much are bytes behind this line, which it will not search.  *)
LateAnswer ==
  /\ cpc = "Read" /\ conns[mine].down # << >> /\ ~late
  /\ late' = TRUE
  /\ UNCHANGED << cpc, runs, header, redirects, mine, unsent, cbuf, conns >>

(* fill(), then the lines that are there, each as it was sent.  What the   *)
(* buffer holds behind the head stays for the WebSocket; any other outcome *)
(* drops the connection.                                                   *)
ReadAnswer ==
  /\ cpc = "Read"
  /\ \E n \in FillSizes(cbuf, conns[mine].down) :
       LET buf  == Filled(cbuf, conns[mine].down, n)
           next == IF HeadCame(buf) THEN Outcome(buf[1].head) ELSE "Read"
       IN  /\ cpc'       = next
           /\ late'      = (late /\ next = "Read")
           /\ cbuf'      = IF next = "Open" THEN Tail(buf) ELSE IF next = "Read" THEN buf ELSE << >>
           /\ redirects' = IF next = "Connect" THEN redirects - 1 ELSE redirects
           /\ conns'     = [conns EXCEPT ![mine].down  = RestOf(@, n),
                                         ![mine].upEnd = next \notin {"Read", "Open"}]
  /\ UNCHANGED << runs, header, mine, unsent >>

(* A late line takes lines behind it along.  A header with a newline in it *)
(* is an error, and so is a status line whose code is its last word; a     *)
(* slice beyond the buffer panics, which drops the connection as an error  *)
(* does.  Another status line leaves out the headers it takes: connect()   *)
(* (or the redirect) does without them and rejects.  Or the blank line     *)
(* goes, too, and the frames behind are read as lines.                     *)
MisreadAnswer ==
  /\ cpc = "Read" /\ late
  /\ \E n \in FillSizes(cbuf, conns[mine].down) :
       LET came == HeadCame(Filled(cbuf, conns[mine].down, n))
       IN  \E next \in {"Failed"} \cup (IF came THEN {"Rejected", "Past"} ELSE {}) :
             /\ cpc'   = next
             /\ conns' = [conns EXCEPT ![mine].down = RestOf(@, n), ![mine].upEnd = next # "Past"]
  /\ cbuf' = << >>
  /\ UNCHANGED << runs, header, redirects, mine, unsent, late >>

\* past the head: what comes may hold a newline, a blank line, or neither
ReadPastAnswer ==
  /\ cpc = "Past" /\ conns[mine].down # << >>
  /\ \E next \in {"Past", "Rejected", "Failed"} :
       /\ cpc'   = next
       /\ conns' = [conns EXCEPT ![mine].down = << >>, ![mine].upEnd = next # "Past"]
  /\ UNCHANGED << runs, header, redirects, mine, unsent, cbuf, late >>

\* connect() fails or its timer fires, and its connection is dropped
ClientGivesUp ==
  /\ cpc' = "Failed" /\ unsent' = << >> /\ cbuf' = << >> /\ late' = FALSE
  /\ conns' = IF cpc = "Connect" THEN conns ELSE [conns EXCEPT ![mine].upEnd = TRUE]
  /\ UNCHANGED << runs, header, redirects, mine >>

ReadAnswerEof ==
  /\ cpc \in {"Read", "Past"} /\ conns[mine].down = << >> /\ conns[mine].downEnd
  /\ ClientGivesUp

ClientTimeout == Running /\ ClientGivesUp

ClientSends ==
  /\ cpc = "Open" /\ conns[mine].cframes < MaxFrames
  /\ conns' = [conns EXCEPT ![mine].up = Append(@, Frame(conns[mine].cframes + 1)),
                            ![mine].cframes = @ + 1]
  /\ UNCHANGED clientVars

-----------------------------------------------------------------------------
(* The server: handle_upgrade(), one task for each connection.             *)

OurAnswer(key) ==
  [status |-> "SwitchingProtocols", connection |-> TRUE, upgrade |-> TRUE, accept |-> key]

Valid(h) ==
  /\ h.get /\ h.http11 /\ h.connection /\ h.upgrade /\ h.version
  /\ h.key # 0 /\ h.decodes

\* mutant: the connection gets a new BufReader
Leftover_New(buf) == << >>

\* into_parts() before the answer, from_parts() after it
Leftover(buf) == buf

\* as LateAnswer
LateRequest(c) ==
  /\ conns[c].spc = "Read" /\ conns[c].up # << >> /\ ~conns[c].slate
  /\ conns' = [conns EXCEPT ![c].slate = TRUE]
  /\ UNCHANGED clientVars

ReadRequest(c) ==
  /\ conns[c].spc = "Read"
  /\ \E n \in FillSizes(conns[c].sbuf, conns[c].up) :
       LET buf == Filled(conns[c].sbuf, conns[c].up, n)
           cs  == [conns EXCEPT ![c].up = RestOf(@, n), ![c].slate = @ /\ ~HeadCame(buf)]
       IN  CASE ~HeadCame(buf) -> conns' = [cs EXCEPT ![c].sbuf = buf]
             [] HeadCame(buf) /\ Valid(buf[1].head) ->
                  conns' = [cs EXCEPT ![c].spc = "Write", ![c].sbuf = Leftover(Tail(buf)),
                                      ![c].answered = buf[1].head.key,
                                      ![c].out = << Part, End(OurAnswer(buf[1].head.key)) >>]
             [] HeadCame(buf) /\ ~Valid(buf[1].head) ->
                  conns' = [cs EXCEPT ![c].spc = "Invalid", ![c].sbuf = << >>, ![c].downEnd = TRUE]
  /\ UNCHANGED clientVars

(* A late line takes lines behind it along: a request line or a header that*)
(* is none, a panic, or the blank line goes, too.                          *)
MisreadRequest(c) ==
  /\ conns[c].spc = "Read" /\ conns[c].slate
  /\ \E n \in FillSizes(conns[c].sbuf, conns[c].up) :
       LET came == HeadCame(Filled(conns[c].sbuf, conns[c].up, n))
       IN  \E next \in {"Invalid", "Failed"} \cup (IF came THEN {"Past"} ELSE {}) :
             conns' = [conns EXCEPT ![c].up = RestOf(@, n), ![c].spc = next, ![c].sbuf = << >>,
                                    ![c].downEnd = next # "Past"]
  /\ UNCHANGED clientVars

\* past the head: what comes may end the line, which is no header, or not
ReadPastRequest(c) ==
  /\ conns[c].spc = "Past" /\ conns[c].up # << >>
  /\ \E next \in {"Past", "Invalid", "Failed"} :
       conns' = [conns EXCEPT ![c].up = << >>, ![c].spc = next, ![c].downEnd = next # "Past"]
  /\ UNCHANGED clientVars

WriteAnswer(c) ==
  /\ conns[c].spc = "Write" /\ conns[c].out # << >>
  /\ \E k \in 1 .. Len(conns[c].out) :
       conns' = [conns EXCEPT ![c].down = @ \o SubSeq(conns[c].out, 1, k),
                              ![c].out = RestOf(@, k)]
  /\ UNCHANGED clientVars

\* flush() has returned; the timer may still come first
Upgraded(c) ==
  /\ conns[c].spc = "Write" /\ conns[c].out = << >>
  /\ conns' = [conns EXCEPT ![c].spc = "Open"]
  /\ UNCHANGED clientVars

ServerGivesUp(c) ==
  /\ conns' = [conns EXCEPT ![c].spc = "Failed", ![c].downEnd = TRUE, ![c].out = << >>,
                            ![c].sbuf = << >>, ![c].slate = FALSE]
  /\ UNCHANGED clientVars

\* mutant: the timer covers the answer and not the request
ServerTimed_Answer == {"Write"}

ServerTimed == {"Read", "Past", "Write"}

ServerTimeout(c) == conns[c].spc \in ServerTimed /\ ServerGivesUp(c)

ReadRequestEof(c) ==
  /\ conns[c].spc \in {"Read", "Past"} /\ conns[c].up = << >> /\ conns[c].upEnd
  /\ ServerGivesUp(c)

\* the peer has hung up: writing fails
WriteFails(c) ==
  /\ conns[c].spc = "Write" /\ conns[c].out # << >> /\ conns[c].upEnd
  /\ ServerGivesUp(c)

ServerSends(c) ==
  /\ conns[c].spc = "Open" /\ conns[c].sframes < MaxFrames
  /\ conns' = [conns EXCEPT ![c].down = Append(@, Frame(conns[c].sframes + 1)),
                            ![c].sframes = @ + 1]
  /\ UNCHANGED clientVars

-----------------------------------------------------------------------------
(* Ends that are not this code.                                            *)

\* a client that sends a request, whole with frames right behind it or not,
\* and hangs up or falls silent
OtherClient ==
  /\ Len(conns) < MaxConns
  /\ \E h \in Requests, n \in 0 .. MaxFrames, whole, end \in BOOLEAN :
       conns' = Append(conns,
         [NewConn("other", "ours") EXCEPT
            !.up      = IF whole THEN << Part, End(h) >> \o Frames(n) ELSE << Part >>,
            !.upEnd   = end,
            !.cframes = IF whole THEN n ELSE 0])
  /\ UNCHANGED clientVars

\* a server that answers, with frames right behind it, before or after the
\* whole request has come, or hangs up
OtherServer(c) ==
  /\ conns[c].spc = "Other" /\ conns[c].down = << >> /\ ~conns[c].downEnd
  /\ conns[c].sframes = 0
  /\ \/ \E h \in Answers(runs), n \in 0 .. MaxFrames :
          conns' = [conns EXCEPT ![c].down = << Part, End(h) >> \o Frames(n),
                                 ![c].sframes = n, ![c].spc = "Answered",
                                 ![c].answered = h.accept]
     \/ conns' = [conns EXCEPT ![c].downEnd = TRUE]
  /\ UNCHANGED clientVars

-----------------------------------------------------------------------------
Client    == Run \/ Connect \/ SendRequest \/ LateAnswer \/ ReadAnswer \/ MisreadAnswer
               \/ ReadPastAnswer \/ ReadAnswerEof \/ ClientTimeout \/ ClientSends
Server(c) == LateRequest(c) \/ ReadRequest(c) \/ MisreadRequest(c) \/ ReadPastRequest(c)
               \/ WriteAnswer(c) \/ Upgraded(c) \/ ServerTimeout(c) \/ ReadRequestEof(c)
               \/ WriteFails(c) \/ ServerSends(c)

Next == Client \/ OtherClient \/ \E c \in 1 .. Len(conns) : Server(c) \/ OtherServer(c)

(* Timers fire, and a coroutine whose operation is done is resumed.        *)
Fairness ==
  /\ WF_vars(ReadAnswer) /\ WF_vars(ReadAnswerEof) /\ WF_vars(ClientTimeout)
  /\ \A c \in 1 .. MaxConns : /\ WF_vars(c <= Len(conns) /\ (ReadRequest(c) \/ WriteAnswer(c)))
                              /\ WF_vars(c <= Len(conns) /\ Upgraded(c))
                              /\ WF_vars(c <= Len(conns) /\ ServerTimeout(c))

Spec == Init /\ [][Next]_vars /\ Fairness

-----------------------------------------------------------------------------
(* Properties.                                                             *)

TypeOK ==
  /\ cpc \in {"Idle", "Connect", "Send", "Read", "Past", "Open", "Rejected", "Failed"}
  /\ late \in BOOLEAN
  /\ runs \in 0 .. MaxRuns /\ header \in 0 .. runs /\ redirects \in 0 .. MaxRedirects
  /\ Len(conns) <= MaxConns /\ mine \in 0 .. Len(conns) /\ Len(cbuf) <= Capacity
  /\ \A c \in DOMAIN conns :
       /\ conns[c].spc \in {"Read", "Past", "Write", "Open", "Invalid", "Failed", "Other", "Answered"}
       /\ conns[c].slate \in BOOLEAN
       /\ Len(conns[c].sbuf) <= Capacity /\ conns[c].answered \in Nat
       /\ {conns[c].cframes, conns[c].sframes} \subseteq 0 .. MaxFrames

(* An open client was answered for this run's key, whatever answers were   *)
(* redirects or meant for an earlier run; and if the other end runs this   *)
(* code, its task has written all of that answer.  (It may still time out  *)
(* after its last write.)  The types hold.                                 *)
OpenMeansAgreed ==
  /\ TypeOK
  /\ cpc = "Open" => /\ conns[mine].answered = runs
                     /\ conns[mine].out = << >>
                     /\ conns[mine].spc \in {"Write", "Open", "Failed", "Answered"}

(* No frame that came with a head is lost, doubled or reordered: what an   *)
(* open end has buffered, followed by what is in flight, are the frames the*)
(* other end has sent.                                                     *)
NoFrameLost ==
  /\ cpc = "Open" => cbuf \o conns[mine].down = Frames(conns[mine].sframes)
  /\ \A c \in DOMAIN conns : conns[c].spc = "Open" =>
       conns[c].sbuf \o conns[c].up = Frames(conns[c].cframes)

(* The client's requests and the server's answers pass each other's checks,*)
(* however often a request is run and wherever it is redirected: one does  *)
(* not reject the other, unless a line of what it rejects was late.        *)
NeverRejected ==
  /\ cpc = "Rejected" /\ ~late => conns[mine].server = "other"
  /\ \A c \in DOMAIN conns :
       conns[c].spc = "Invalid" /\ ~conns[c].slate => conns[c].client = "other"

(* Every connect() and every accepted handle returns, whatever the other   *)
(* end does, and though it may read past the end of a head.                *)
HandshakesEnd ==
  /\ Running ~> ~Running
  /\ \A c \in 1 .. MaxConns :
       LET upgrading == c \in DOMAIN conns /\ conns[c].spc \in {"Read", "Past", "Write"}
       IN  upgrading ~> ~upgrading
=============================================================================
