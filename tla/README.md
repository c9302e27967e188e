# xx-url in TLA+

`xx-url` is a Rust library of network clients for the `xx-pulse` coroutine
runtime: HTTP/1.x, WebSocket (client and server), DNS, TCP connect, TLS, and a
`file:` stream.  This directory holds its specifications: TLA+ modules
translated from `src/src`, TLC configurations that check them on small
instances, and TLAPS proofs.  File names without a directory are this
directory's; `ws/stream.rs` stands for `src/src/ws/stream.rs`.

`PROJECT.json` has the details: which lines each definition models (`map`),
what each run checks (`runs`), for each property a plausible bug that breaks it
(`mutants`; the mutated forms are the definitions marked "mutant" in the
modules), what is hard to test in this code and which property covers it
(`hazards`), and where the code does not do what it says (`findings`).

## The system

All code runs in coroutines of one thread (per executor): two tasks interleave
only where one awaits.  Only the shared data is used by several threads.  An await may end in an error because the task was
interrupted.  The parts, the state each keeps, and what makes it correct:

| Part | State | Operations | Correct when |
|---|---|---|---|
| WebSocket endpoint `ws/stream.rs`, `ws/wire.rs` | `close_state`, shared by the halves; the writer's `last_sent_message_op`; the reader's `expect_continuation`, `current_message`; the connection | `Writer::send_frame`, `Frames::next` (`next_frame`, `read_frame`, `read_frame_header`, `read_frame_data`), `close` / `do_close`, `split` | the two ends agree where frames begin; a message arrives whole, in order, once; closing is orderly and ends |
| WebSocket handshake and server `ws/transfer.rs`, `ws/conn.rs`, `ws/handshake.rs`, `ws/mod.rs` | the request's headers and key, the server's `BufReader`, a timer at each end | `connect`, `WebSocketServer::accept` | both ends agree on the key of this run; no frame behind a head is lost; neither end of this code refuses the other, as far as its lines are read right; it ends in time |
| HTTP line and header reader `http/transfer.rs` | `BufReader`, `offset`, size limit | `parse_response`, `read_headers_limited`, `read_line_in_place` | lines come out as sent, however they arrive; limits hold; the body is left in the buffer |
| HTTP body `http/body.rs` | `transfer`, `BufReader` | `Body::new`, `read`, `read_trailer` | exactly the body comes out; its end is told from a cut; nothing beyond it is awaited |
| HTTP transfer `http/transfer.rs` | `Request` (URL, headers, payload), redirects remaining | `transfer` with `get_connection_for`, `send_request` | redirects end and keep the scheme; each request carries its payload; the response is the last one's |
| DNS resolver and services `dns/resolver.rs`, `dns/name_server.rs`, `dns/hosts.rs`, `dns/config.rs` | hosts table, name servers; per lookup a socket, an id | `resolve_ips`, `lookup` | the addresses are the name's; one family failing does not fail the other; it ends |
| TCP connect `net/conn.rs` | addresses tried, socket | `connect_stats`, `connect_to`, `connect_addrs` | the first address that accepts, in the strategy's order; an error only if none does; it ends |
| TLS `tls/conn.rs`, `tls/certs.rs` | the session (rustls), behind a lock once split; the read half's `BufReader`; the write half's buffer | `tls_connect`, `recv`, `send`; `split`, the halves' `read`, `write`, `flush` | the session's ciphertext goes out and comes in in order, whoever moves it; what `send` and `flush` accepted is on the socket when they return; calls return |
| Shared data `env.rs` | thread-local and global copies, a lock held across the creation | `get_data`, `free_data` | created once, shared by all; a creation that fails leaves nobody waiting |
| File stream `file/stream.rs` | position, start, end | `read`, `seek` | stays within start and end |
| Requests, errors `request.rs`, `http/request.rs`, ... | the URL or the first error | builders | no behaviour over time |

How they interact: `transfer` connects (DNS, TCP, then TLS for `https`), writes
the request and reads the response's header through a `BufReader`, which then
becomes the `Body`'s.  The WebSocket handshake is an HTTP transfer whose
`BufReader` becomes the WebSocket's reader.  `Conn::connect_stats` calls the
resolver, which `env.rs` creates once together with the TLS configuration.
Everything else is called by the application.

The hard behaviours: the halves of a WebSocket are two tasks that share
`close_state` and may both close, the halves of a TLS connection two that share
a session and its lock; every call can be interrupted at any await
and leaves its state behind; streams arrive in arbitrary pieces and end
anywhere; UDP packets are lost, late or not meant for the query; timeouts race
answers.

## The modules

```
WsFrame            frames, headers, close_state            ws/wire.rs, ws/stream.rs
  WebSocket        two endpoints over a connection          ws/stream.rs
    WebSocketChannel    ... implement FrameChannel          (refinement)
    WebSocketInvariant  the inductive invariant of the framing
      ChannelInvariant    the one of the refinement, on top of it
        WebSocketProofs     their proofs, what one endpoint promises
                            whatever its peer does, and the refinement
FrameChannel       what a WebSocket promises its applications
HttpLine           BufReader, read_line_in_place            http/transfer.rs
  HttpHead         parse_response                           http/transfer.rs
    HttpHeadProofs    the proofs of its safety properties
  HttpBody         Body                                     http/body.rs
    HttpBodyProofs    the proofs of its safety and action properties
HttpTransfer       transfer                                 http/transfer.rs
  HttpTransferProofs  the proofs of its safety properties
NameServer         hosts file and name servers              dns/
  Connect          resolve_ips, connect_stats               dns/resolver.rs, net/conn.rs
    ConnectProofs     the proofs of its safety properties
TlsSession         the session conn.rs drives               rustls (external)
  TlsConn          tls_connect, TlsConn, the halves         tls/conn.rs
    TlsConnProofs     the proofs of its safety and action properties
Upgrade            both ends of the opening handshake       ws/transfer.rs, ws/conn.rs,
                                                            ws/handshake.rs
  UpgradeProofs       the proofs of its safety properties
SharedData         get_data, free_data                      env.rs
  SharedDataProofs    the proofs of its safety properties
MC...              instances for TLC
```

### WebSocket

`WebSocket` has two endpoints, both running this code.  A frame travels as one
*unit* for its header and one for the bytes behind it; `wire[e]` holds the
units `e` has written and its peer has not read, `wshut[e]` says that a FIN
follows them.  The reader takes from a payload unit as many bytes as the
header announced and leaves the rest, as the code does; this is where a
disagreement about lengths would show.

An action is what happens from one await to the next.  `Send` is `send_frame`
up to its first await, with every check it makes before; `Write` is the
progress of `write_all_vectored`; `WriterShutdown`, `WriterHangUp` and
`WriterCloseTimeout` are `do_close` and the `select!` with the timeout around
it, and `Reader...` the same, called from `read_frame`.  `ReadHeader` is
`read_frame_header` and `read_frame` up to the payload, `ReadPayload` the rest,
`ReadEof` and `ReadPayloadEof` the same at the end of the stream, where
`read_frame` ignores how many bytes it was given.  `WriteFails` and
`ReadInterrupted` are errors: a reset, a closed socket, an interrupted task.
`Drop` is the WebSocket dropped at any moment.

The application is the environment.  `Split` says whose halves belong to two
tasks; otherwise calls do not overlap.  Assumed of it: it does not use a half
again after that half has returned an error (after `MessageTooLong`, say, the
payload is still unread and the next header would be made of it), and uses
`Frames`, not the raw `Reader`.  A cancelled call counts as one that returned an
error.  The mask key is always 0 in the code, so masking is the identity; only
the mask bit is modelled.  A FIN or an error may cut a frame between its two
units only: within a unit it makes no difference to what `read_frame_data`
does at the end of the stream.  The payload of a Text message is not looked at:
`Frame::text` and `Frame::text_partial` take a `&str` (`ws/mod.rs:71,86`),
`send_frame` never mixes text and binary fragments (`ws/stream.rs:454-457`), and
fragments that are UTF-8 each make a message that is, so that between two ends of
this code `String::from_utf8` (`ws/stream.rs:388`) does not fail.  The peer of a
real connection could make it fail; `next()` then returns that error.

`FrameChannel` is the abstract specification: each direction is a log of
messages delivered in order, once, up to one Close; only after the sender has
finished may the last message lose its contents or the stream's end stand for a
Close.  `WebSocketChannel` maps `sent` (put together from fragments) to the log
and `wshut` to `finished`.

### HTTP

A byte is a number: 0 to 15 are the hexadecimal digits with their values, 16 is
the line feed, 17 the carriage return, 18 a byte no header may hold, 19 any
other.  That is all the code tells apart.  A reader is a window
`pos .. hi` on what the server sends, at most `Capacity` wide (`BufReader`'s
buffer); a fill moves `hi` by any amount, so every split of the stream happens.

`HttpBody` has an action for each branch of `Body::read`; `NewTransfer` is
`Body::new`, `ReadTrailer` one call of `read_trailer` (the caller's loop,
`read_trailers`, only repeats it).  The caller's buffers have any length up to
`MaxRead` and calls may be interrupted and made again.  `response` is a
constant of a behaviour: the stream and its layout in chunks (`Layout`, an
assumption TLC evaluates), against which the properties are stated.  The
layout is not used by the actions.

`HttpHead` is `parse_response`: the prefix, the status line, the headers.  The
contents of a line are abstracted to what its parser makes of them.
`read_line_in_place` is modelled exactly, its `offset` included, and the
properties are stated for heads whose lines are there after one more fill
(`late` is FALSE); see the findings for the others.  Lines taken for one header
may pass as one when the newlines in it are next to its colon, where they are
trimmed (`MayBeHeader`); where the colon is is left out, so that is a choice.

`HttpTransfer` is the loop of `transfer`: an action for each await, `Receive`
for what follows `parse_response`.  The application may run the request again,
set another payload between runs, and spoil the request with a builder.  The
servers are the environment: an answer is any member of `Answers`, the contents
of its headers abstracted to what the loop makes of them.  `sent`, `answer`,
`given` and `lost` are history.  Connections are those of one run; ports and the
socket's options are left out.  The `Host` header stays that of the first URL
after a redirect to another host, as in the code; no property claims otherwise.

### DNS and connect

`NameServer` is one query for A and one for AAAA records at a service: the
hosts file, or a name server asked over UDP, with packets that answer, do not
parse, belong to another query, or never come.  A packet of another query has
another identifier: that 16 random bits coincide is left out.  `Connect` is
`resolve_ips_lookup`'s rounds over the services and `connect_to` /
`connect_addrs` over the addresses found.  `world` is a constant of a behaviour:
the name's true addresses, what each service holds, which addresses accept,
the `IpStrategy`.  How `/etc/hosts` and `resolv.conf` are parsed is left out:
their contents are parameters (`WorldType`: a name the hosts file has is there
with an address, as `Hosts::new` makes an entry only to put one in).  A name that
`Name::new` rejects (`dns/resolver.rs:132`) ends the call before it begins and is
left out.

### TLS

`TlsSession` is rustls's client as far as `conn.rs` relies on it: a state
machine without I/O.  Ciphertext travels in units; what the session produces is
numbered, and `TakeOut` (`write_tls`) hands units out in that order; what the
server sends is a sequence of kinds, and `Process` (`read_tls` and
`process_new_packets`) takes units in.  A unit that does not follow the last one
breaks the session, which is what a lost or doubled piece of ciphertext does.

`TlsConn` has an action for each stretch between two awaits: `ConnectPoll`,
`ConnectWrite`, `ConnectRead` and `ConnectEof` are `tls_connect`'s loop,
`Recv...` and `Send...` the unsplit connection, `HalfRead` and `Fill...` the read
half, `HalfWrite`, `HalfFlush` and `HalfSend` the write half.  The lock is never
held across an await, so it needs no variable: an action is the section under
the lock.  What matters is what the other half does in between, for instance
that a key update the read half takes in makes the session produce an answer
that only the write half's next `write` or `flush` sends.  `Unsplit` is the
halves dropped and the connection used whole again.  The socket takes and gives
any part of what is there; every operation may fail or be interrupted and the
call be made again, except that no call is made after an error of the session.

Two histories limit what is claimed.  `cut`: the write half sends its buffer
with one `send()` and drops what a short or failed send leaves, as the code
does; `lost`: a read half was dropped with ciphertext in its `BufReader`.  The
order of the bytes is claimed always, their completeness until then.  The read
half ignores what `fill()` returns and never reports the end; this is modelled
(`FillEof`), and the end is claimed of `recv` only.

### The opening handshake

`Upgrade` has a client that runs a `WsRequest` again and again, with redirects,
and servers and clients of this code and of others.  A head is a `Part` and an
`End` unit (its first lines, its empty line), with frames right behind it; a
fill takes any part of what has come, so frames land in a `BufReader` at the end
of a head, and the buffer's way through `into_parts` and `from_parts` matters.
The contents of a head are what the checks tell apart; a key stands for its
accept value too (SHA-1 and base64 are one to one for what is claimed here).
`Outcome` is what `transfer` and `connect` make of an answer, `Valid` what
`handle_upgrade` makes of a request.  Both timers are actions that may come at any
await, the server's after its last write too.  Connections are separate: a run
or a redirect takes a new one.

Both ends read lines with `read_line_in_place` and inherit its wrong `offset`.
`LateAnswer` and `LateRequest` are the two searches in vain after which it may
be wrong for a line (`late`, and `slate` at a server, are history).  From then on
either the line is read as it was sent after all (`ReadAnswer`, `ReadRequest`), or
it is misread (`MisreadAnswer`, `MisreadRequest`): lines joined to it make it no
header or no status line, or are lost with the header they hold, so that
`check_header!` or a redirect finds it missing; a slice panics; or the empty line is
among those joined, and frames are read for headers (`Past`, `ReadPastAnswer`,
`ReadPastRequest`) until a line is none, the buffer is full or a timer fires.  Which of
these depends on lengths that units do not have, so each is a choice: more than the code
does, and none of it ends in an open WebSocket.  `HttpHead` has the `offset` itself.

### Shared data

`SharedData` has tasks on threads.  `Get` returns the thread's copy or waits for
the lock; `GetGlobal`, `StartCreate` and `TakeGlobal` are what follows the lock in
`get_data` and `free_data`; `Created` and `CreatePanics` the end of
`create_global_data`, during which the lock is held.  Whether a panic poisons the
lock is left open; if it does, every later `unwrap` panics.

## What TLC checks

A module's type invariant is checked as a conjunct of one of its properties
(`Inv`, `DeliveredIsBody`, `HeadersAreLines`, `NoAddressesMeansExcluded`,
`WireInOrder`, `OpenMeansAgreed`, `CreatedOnce`); that of `HttpTransfer` is proved.
Deadlock is not checked anywhere: in each model the program really may stop
(everything read, closed or returned).

| Run | Shows |
|---|---|
| `websocket` | two endpoints, both split; fragments, a message of another type, Pings and both Closes; the client's calls interrupted, the server dropped: types, framing, no protocol error, orderly close, message limit, and that `Inv` holds |
| `websocket_channel` | a client used by two tasks and a server used by one, the calls of both interrupted: `WebSocket` implements `FrameChannel`; the endpoint used by one task closes once, behind whole frames unless its write failed; `close()` returns; a reader learns of the FIN; every message reaches an application that keeps reading |
| `websocket_close_code` | *violation*: a Close loses its code and reason |
| `http_body` | bodies of every kind, cut at every byte, split everywhere, read in any sizes, interrupted anywhere |
| `http_head` | heads cut at every byte and split everywhere |
| `http_head_offset` | *violation*: `offset` leaves the buffer |
| `http_transfer` | requests with and without payload, run again and again, redirected in circles, to other hosts and schemes and to nowhere, failing anywhere: scheme, payload and response are the right ones, and a run ends |
| `connect` | every strategy with every set of accepting addresses, hosts file and name servers |
| `connect_glue` | *violation*: another host's record counts |
| `tls` | servers of TLS 1.2 and 1.3 that finish, refuse, hang up, send data with the handshake, update keys, close and break; whole, split, joined again, failing anywhere: the ciphertext keeps its order both ways, what was sent is on the socket, the calls return |
| `upgrade` | clients and servers of this code and of others, runs repeated, redirected, misread, cut and timed out anywhere: the ends agree on the key, keep the frames behind the heads, refuse each other only over a line misread, and finish |
| `shared_data` | two tasks of one thread and one of another ask, free and panic: one copy at a time, shared by all, and nobody is left waiting |

Bounds.  `ControlMax` (125 in the code) is 4: a Close with its code and more,
less than a code, and too much all occur.  Three frames from the client and two
from the server are enough for a message of two fragments with a control frame
or a Close between, and for both sides to close in either order; `Capacity = 2`
units lets a writer be stopped after a header and a frame be wholly in flight.
The reader's limit differs per endpoint, so `MessageTooLong` happens on one
side.  `websocket_channel` checks behaviours and takes shorter frames for it: three
from a client used by two tasks, one from a server used by one.  In `http_body`, `Capacity = 4` and `MaxHex = 4` (33 in the code) make a
size line longer than the buffer's remainder, too many digits and a full buffer
happen; `MaxSize = 17` makes a two digit size too large.  In `http_head` the
buffer holds six bytes and the limit is twelve, so each may be met first.
`http_transfer` follows no redirect or two, enough for the limit to end a circle
of two hosts and for a second redirect to build on a first; runs are
unbounded.  In
`connect` there are one name server, two rounds (three in the code) and two
query identifiers, enough for an answer to the other query.
In `tls` the ClientHello has two units, so a flight may be sent in part; the session
buffers two units, fewer than the three an application writes, so that `write`
accepts a part or nothing; a `read_tls` takes two units of a buffer of four, so
that ciphertext waits in the buffer; the write half's buffer is two units, so
that a send may be short.  `upgrade` has two runs and two connections: a redirect, or
two runs, or a run beside a foreign client; a buffer of two units holds the end
of a head and a frame.  In `shared_data` three tasks on two threads are enough for
two to wait while one creates, on its own thread and on the other; data is
freed twice, so that it is created again.

Fairness.  The executor resumes a task whose operation is done, so actions
that only need what is already there are weakly fair; timers fire.  Nothing is
assumed of the application (except, in `websocket_channel`, that a reader who
wants its messages calls `next()`), nor that a packet arrives, nor that a
server sends anything, except in `http_transfer`, where connections are made or
fail and servers answer or hang up: `ReadReturns` and `ParseEnds` say themselves what the
server must have sent.  In `tls` what the server has sent arrives and the socket
takes data (the write half and `send` wait for nothing else); `connect` is only
claimed to end if the server answers or hangs up, since the code gives it no
timer of its own.  In `upgrade` the timers alone make both ends finish.  In
`shared_data` files are read and the lock wakes those who wait for it.

## What is proved

`WebSocketProofs` proves, for every set of frames, every limit, capacity, and
every choice of who splits, interrupts and drops:

* `Invariance`: `Spec => []Inv`
* `TypeCorrect`, `InSync`, `NoProtocolErrorArises`, `ShutdownComesLast`,
  `CloseSentLast`, `OnlyCloseIsCut`: the safety properties of the same runs
* `StaysClosed`: no step reopens a side
* `CloseGotLast`, `MessagesBounded`: what one endpoint promises its application
* `ClosesOnce`: an endpoint used by one task has one `close()`, and when it shuts
  down, what a reading peer has left to take ends with a whole frame.  An endpoint
  whose writer has failed is excepted: a Close interrupted after its header counts as
  sent, and a `next()` that then reads the peer's Close shuts down behind the half of
  it that was written (the run reaches this)
* `Implements`: `Spec => ImplementsChannel`, the refinement of `FrameChannel`

`TypeCorrect` and `StaysClosed` have no run of their own: the first is part of
`Inv`, the second follows from `Shared::shutdown` alone.

`HttpTransferProofs` proves, for every set of requests and of answers:

* `RunInvariance`: `Spec => []RunInv`
* `TransferTypeCorrect`, `SchemeIsKept`, `PayloadIsSent`, `ResponseIsTheLast`:
  types, and the safety properties of `http_transfer`

`SharedDataProofs` proves, for any number of tasks and threads:

* `SharedDataOnce`: `Spec => []CreatedOnce`, the safety property of `shared_data`
* `CreatorsExclude`: two tasks never create a copy at once

`UpgradeProofs` proves, for any number of runs, redirects, connections and
frames, every capacity, and whatever heads the ends that are not this code send:

* `UpgradeInvariance`: `Spec => []IInv`
* `EndsAgree`, `FramesKept`, `NoneRejected`: the safety properties of `upgrade`; the
  last is about heads of which no line is late, the others about all

`HttpBodyProofs` proves, for every response, every layout in chunks, every
buffer and every way the stream is cut into fills:

* `ReturnsTheBody`, `TellsEndFromCut`: the safety properties of `http_body`
* `LeavesBodyAtItsEnd`, `FailureLasts`: its action properties

`HttpHeadProofs` proves, for every head, buffer and limit:

* `TakesTheLines`, `EndsBeforeTheBody`, `LimitKept`: the safety properties of `http_head`

`TlsConnProofs` proves, for every server and all sizes of the buffers:

* `Invariant`: `Spec => []IInv`
* `SentInOrder`, `ReceivedInOrder`: the safety properties of `tls`
* `SentWhenToldSent`: when `send` or `flush` returns, all is on the socket

`ConnectProofs` proves, for any number of name servers and rounds, all
addresses, and whatever packets arrive:

* `Invariant`: `Spec => []IInv`
* `NoneMeansExcluded`, `FirstAccepts`: safety properties of `connect`
* `HonestAddresses`: `Spec => [](Honest(world) => AddressesAreTheHosts)`

`Honest` says that what the hosts file and the server's answers to the query hold
of the type asked for is about the name; of other packets it says nothing.  The
worlds of `connect` are honest, that of `connect_glue` is not, and there the code
breaks `AddressesAreTheHosts`.

The assumptions are those the modules name: frames are of the type callers can
build (`FramesAssumption`), the limits are numbers (`LimitsAssumption`),
`ControlMax >= 2` (`ControlMaxAssumption`), the environment's sets are sets
of endpoints, requests and answers are of their types
(`RequestsAssumption`, `AnswersAssumption`, `HeadsAssumption`, `WorldsAssumption`), bounds are
numbers (`BoundsAssumption`, `SizeAssumption`, `ConnAssumption`, `SessionAssumption`,
`ServicesAssumption`; a `BufReader` holds at least a unit, `CapacityAssumption`, and
what a parser waits for in one piece fits it: `MaxHexAssumption`, `PrefixAssumption`),
each task runs on a thread (`TasksAssumption`), there are query identifiers
(`IdsAssumption`), and a response is laid out as `Layout` says (`ResponsesAssumption`).

The argument.  That a reader waiting for a header finds one is not inductive:
it depends on what is still in flight, on what a suspended writer will still
write, and on whether the peers agree about being inside a message.  `Inv` says,
for each direction whose reader may still read (`DirectionInv`): the units on
the wire alternate as their headers announce (`WireOK`); data headers are
continuations exactly where the reader will expect them (`Expects`, computed
along the wire from the reader's own flag); what the writer has left goes on
where the wire ends (`WritingOK`), and a writer at rest has left whole frames
(`RestingOK`).  `EndpointInv` ties `close_state` to where reader and writer are
suspended.  A direction whose reader has failed or is closed needs nothing,
which is why an error may leave `last_sent_message_op` wrong without harm.
`WebSocketProofs` first has what putting and taking one unit does to these
predicates, then one lemma per action.

What one endpoint promises does not depend on its peer, but none of it is
inductive either.  `OwnInv` adds what holds in the middle of a call: as long as
`next()` may still read, it has returned no Close (`GotInv`); a frame whose header was
accepted fits the limit together with the message it continues, so that
`read_frame_data` may append all of it (`BoundInv`); and where one task has both halves, the
writer and the reader are never both in a call, so only one of them can find
itself the second to close (`TaskInv`).

That such an endpoint's FIN stands behind a whole frame (`OneTaskInv`) takes both ends.
`EndInv` says when everything accepted is written (`AllWritten`): the writer is past its
frame in `close()`, or is idle while `next()` may still read or is in a call.  An idle
writer alone is not enough, since a `close()` that times out in its write leaves one
with half a Close on the wire.  The last unit of a frame completes it (`WholePut`), and
what the peer takes, a piece of a payload unit included, leaves the end whole
(`WholeTake`, `WholeRest`).

The refinement is a matter of what is on its way.  `ChannelInv` says, for each
direction whose reader still reads (`StreamInv`): the units on the wire, and behind them those the
writer holds, belong one after the other to the frames that follow the `n` taken so
far, header, then payload (`Carried`), up to the last one sent unless the writer was cut short;
and what `next()` has returned, with the fragments in `current_message`, is what the
first `n` frames make (`HasTaken`).  `SentInv` says that a message in `sent` keeps its operation,
without which the reader could not give it back from continuation frames, and `HeldInv` that the
Close frame held during `close()` is the next message of the log.  Then a reader that finishes
a frame returns the next message: as it was sent, because the bytes are those of that
frame, or in its shape only, when zeros stand for a payload that did not come, which takes
a sender that has finished.  A direction may end anywhere, since nothing is asked of it
once its reader stops.  `Inv` and `OwnInv` give the rest: `send_frame` accepts nothing once its direction
has a FIN or a Close in it, and `next()` returns nothing after a Close.  What frames make
(`Assembled`) is a function over the frames, so its lemmas are by induction.

`RunInv` is the invariant of `transfer`'s loop: at each of its awaits the
payload that was set last is in `body` (in the request between runs), the next
URL has the scheme of the request's own, and no response is out.  `SchemeKept`
alone is not inductive, because it speaks of the last request sent and not of
the URL the next one will go to.

`CreatedOnce` counts copies, which says nothing of why there are not more.
`IInv` does: who creates a copy holds the lock and there is none (`CreatorHolds`),
every copy made was taken away but the one that is there (`MadeAndTaken`), and
whatever a task or a thread has was made (`CopiesMade`).

The handshake's `IInv` says of each connection what each end has still to read
(`Coming`: its buffer, what is in flight, and what its peer has not sent of its
head).  A server at its request, and a client at its answer, have a head before
them or what is left of one (`Headed`), followed by exactly the frames counted
as sent; or the sender gave up within the head (`Cut`), and no more of it comes.
From a client of this code the head is valid and its key is that of the run the
client waits in (`RequestInv`); a server of this code answers that key
(`AnswerInv`).  `OpenMeansAgreed` is not inductive without them, because it
speaks of the client that is open and not of the answer on its way, and
`NoFrameLost` needs to know that nothing of the answer is unwritten when its end
has been read: a server sends no frame before (`ServerInv`).  `HeadParsed`,
`CutParsed` and `HeadTruncated` say what a fill and giving up do to `Coming`;
then there is one lemma per action.

`DeliveredIsBody` speaks of positions; what keeps it true is where the transfer
stands.  `Place` of `HttpBodyProofs` says that for each kind of body: in a chunked
one the reader is in one of the chunks, and behind its size line, in its data or
at its end exactly as `transfer` has it (`AtChunk`), or it is at the end of the
last.  A chunk whose size cannot be read, or an early end, is a state no read
leaves (`Stuck`), hence `FailureIsFinal`.  That chunks come one behind the other is an
induction over the layout.

`IInv` of `HttpHeadProofs` relates the search to what has been searched: while
lines are prompt, `offset` is how much of the line at the reader is known to hold
no newline (`Searched`), the reader is at the beginning of a line and no empty line
is behind it (`Before`), the lines taken end where it is (`Taken`), and
`size_limit` is what has not been consumed (`Limit`).  The induction fails from the
second fill on, which is how the wrong `offset` came to light.

`IInv` of `TlsConnProofs` has one part per direction.  What the socket was given
and the write half still has (`Given`) is increasing, is what was taken from the
session, and is all of it unless a send was short (`Ciphertext`).  The session was
fed a first part of what the server sends and what waits in the read half's
buffer and on the socket goes on behind it; what was read and what the session
still has is the data of the part fed (`Plaintext`, `Fed`).  `Calls` says which half may be
where: without it the read half could fill its buffer while `recv` bypasses it.
What `Process` and `DataAmong` compute is found by induction over the units.

`IInv` of `ConnectProofs` says that if a lookup succeeded some lookup found
something (`LookupInv`), and that of the addresses tried only the last can accept,
and then it is the socket (`TriedInv`).  `FirstThatAccepts` follows from how the order is
joined of two lists.  `WantedAre` says what `WantedOf` takes of an answer, and
`MatchingPackets` that a packet with the query's identifier is the server's; from
these follows `HonestAddresses`.

Facts about what a recursive function computes (`Assembled`, `Process`, `DataAmong`, `WantedOf`) need
induction.  The library's induction theorems take an operator, which
no prover here instantiates, so it is done with sets: a set of numbers that holds 0 and
the successor of each member is `Nat` (`NatSetInduction`, from `WFMin`), and a
function defined by recursion exists (`RecursionExists`).

Only model-checked: all liveness (`CloseReturns`, `HangUpEndsRead`, `EveryMessageArrives`, `ReadReturns`, `ParseEnds`,
`TransferEnds`, `ConnectReturns`, `CallsReturn`, `HandshakesEnd`, `CallsEnd`), which is out of
TLAPS's reach.

## Findings

* `ws/stream.rs:439` announces a Close frame without the two bytes of its
  code: the code and the end of the reason are lost (`websocket_close_code`).
  Framing does not suffer, because a Close is last.
* `http/transfer.rs:225`: `read_line_in_place` adds all that is buffered to
  `offset` each time a fill brings no newline; from the second fill of a line on
  `offset` is too large (`http_head_offset`).  `HttpHead` follows the code, so
  the other properties of `http_head` are limited to prompt lines.  The handshake
  suffers too: this server's 101 answer, arriving as 17 bytes, 1 byte and the rest,
  loses its `Connection` header (`offset` is 35, the first line ends at 33) and this
  client rejects it.  `NeverRejected` is stated for prompt heads for this reason.
* `dns/name_server.rs:126`: records of all sections and names are taken for the
  name's (`connect_glue`).

## Not modelled, and the plan

Left out for good: the parsing of configuration files (`dns/config.rs`,
`dns/hosts.rs`, `resolv.conf` and `/etc/hosts`) and of certificates (`tls/certs.rs`), sequential
conversions of text; the DNS packet format, which belongs to another crate;
builders, errors, URLs, logging and statistics, which have no behaviour over
time.

Left out so far:

* the file stream, whose `read` and `seek` are sequential arithmetic on a position
  (its hazards are listed);
* the raw `Reader` with `discard_frame_data`, and an application that goes on after an
  error;
* `TlsConn`'s `poll`, `shutdown` and `close`, which pass the call on to the socket;
* the statistics and socket options of `connect_stats`, and ports.
