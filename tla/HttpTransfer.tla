---------------------------- MODULE HttpTransfer ----------------------------
(***************************************************************************)
(* transfer of src/http/transfer.rs: a request is sent to its URL and to   *)
(* where redirects lead, one connection for each.  The same request may be *)
(* run again, after a success or a failure; between runs the application   *)
(* may give it another payload.  Servers answer what they like.            *)
(***************************************************************************)
EXTENDS Integers

CONSTANTS
  Requests,   \* the requests applications build
  Answers     \* the headers of the responses servers give

Schemes      == {"http", "https"}
OtherSchemes == {"ftp"}
Hosts        == {"h1", "h2"}
Url          == [scheme : Schemes \cup OtherSchemes, host : Hosts]

\* no URL; a Location that is no text; one that no URL can be made of
NotUrl(w) == [scheme |-> w, host |-> w]
NoUrl     == NotUrl("None")
Binary    == NotUrl("Binary")
Malformed == NotUrl("Malformed")

\* a payload, and a stream that has been read to its end
Payloads == {"None", "Bytes", "Stream"}
Bodies   == Payloads \cup {"Drained"}

(* A request: its URL, or the error a builder left in its place; the Host  *)
(* header set; the payload; Options::follow_redirect.                      *)
RequestState == [url : [scheme : Schemes, host : Hosts],
                 error : {"None", "Builder", "Taken"},
                 host : Hosts \cup {"None"}, body : Bodies, follow : Nat]

\* one that has not been run
RequestType == {r \in RequestState : r.body # "Drained"}

(* What the code looks at in a response: a redirection's status, the       *)
(* Location header, and what Body::new makes of the headers of the body.   *)
Headers    == [location : Url \cup {NoUrl, Binary, Malformed},
               length   : {"None", "Valid", "Invalid"}]
AnswerType == [redirection : BOOLEAN, headers : Headers]

ASSUME RequestsAssumption == Requests \subseteq RequestType
ASSUME AnswersAssumption  == Answers \subseteq AnswerType

VARIABLES
  request,    \* Request: url or error, host, body, follow
  pc,         \* where transfer is
  body,       \* the payload it has taken out of the request
  url,        \* where the next request goes
  redirected, \* redirected_url
  remaining,  \* redirects_remaining
  headers,    \* response_headers
  result,     \* what run() returned
  given,      \* history: the payload the application set last
  lost,       \* history: a run has failed since
  sent,       \* history: the last request sent
  answer      \* history: the last response received

history == << given, lost, sent, answer >>
vars == << request, pc, body, url, redirected, remaining, headers, result, history >>

NoHeaders == [location |-> NoUrl, length |-> "None"]
NotSent   == [secure |-> FALSE, url |-> NoUrl, host |-> "None", body |-> "None"]

NoResult     == [kind |-> "None", url |-> NoUrl, headers |-> NoHeaders]
Failure(err) == [kind |-> err,    url |-> NoUrl, headers |-> NoHeaders]

Errors == {"BuilderError", "InvalidRequest", "Io", "InvalidHeader", "InvalidRedirectUrl",
           "RedirectForbidden"}

Init ==
  /\ request \in Requests
  /\ pc = "Idle" /\ body = "None"
  /\ url = NoUrl /\ redirected = NoUrl
  /\ remaining = 0 /\ headers = NoHeaders
  /\ result = NoResult
  /\ given = request.body /\ lost = FALSE
  /\ sent = NotSent /\ answer = NoHeaders

End(r) == pc' = "Idle" /\ result' = r /\ body' = "None"

Fails(err) == End(Failure(err)) /\ lost' = TRUE

-----------------------------------------------------------------------------
(* The application.                                                        *)

SetPayload(p) ==
  /\ pc = "Idle"
  /\ request' = [request EXCEPT !.body = p]
  /\ given' = p /\ lost' = FALSE
  /\ UNCHANGED << pc, body, url, redirected, remaining, headers, result, sent, answer >>

\* header() with an invalid name or value: RequestBase::fail
BuilderFails ==
  /\ pc = "Idle"
  /\ request' = [request EXCEPT !.error = "Builder"]
  /\ UNCHANGED << pc, body, url, redirected, remaining, headers, result, history >>

(* RequestBase::finalize: the builder's error is returned once.            *)
RunInvalid ==
  /\ pc = "Idle" /\ request.error # "None"
  /\ result' = Failure(IF request.error = "Builder" THEN "BuilderError" ELSE "InvalidRequest")
  /\ request' = [request EXCEPT !.error = "Taken"]
  /\ UNCHANGED << pc, body, url, redirected, remaining, headers, history >>

(* The Host header stays with the request, the payload leaves it.          *)
Run ==
  /\ pc = "Idle" /\ request.error = "None"
  /\ request' = [request EXCEPT !.host = IF @ = "None" THEN request.url.host ELSE @,
                                !.body = "None"]
  /\ body' = request.body
  /\ url' = request.url /\ redirected' = NoUrl
  /\ remaining' = request.follow
  /\ headers' = NoHeaders
  /\ pc' = "Connect" /\ result' = NoResult
  /\ UNCHANGED history

-----------------------------------------------------------------------------
(* The loop.                                                               *)

Secure == request.url.scheme = "https"

\* get_connection_for: secure is the first URL's
Connect ==
  /\ pc = "Connect"
  /\ pc' = "Send"
  /\ UNCHANGED << request, body, url, redirected, remaining, headers, result, history >>

\* send_request: a stream is read to its end
SendRequest ==
  /\ pc = "Send"
  /\ pc' = "Wait"
  /\ body' = IF body = "Stream" THEN "Drained" ELSE body
  /\ sent' = [secure |-> Secure, url |-> url, host |-> request.host, body |-> body]
  /\ UNCHANGED << request, url, redirected, remaining, headers, result, given, lost, answer >>

\* any of its awaits fails, parse_response returns an error, or it is cancelled
TransferFails ==
  /\ pc \in {"Connect", "Send", "Wait"}
  /\ Fails("Io")
  /\ UNCHANGED << request, url, redirected, remaining, headers, given, sent, answer >>

\* read_headers_limited inserts: a header replaces one of its name
Merge(old, new) ==
  [location |-> IF new.location # NoUrl THEN new.location ELSE old.location,
   length   |-> IF new.length # "None" THEN new.length ELSE old.length]

\* mutant: the headers of earlier responses are kept
ResponseHeaders_Kept(a) == Merge(headers, a.headers)

\* response_headers is cleared at the top of the loop
ResponseHeaders(a) == Merge(NoHeaders, a.headers)

\* mutant: nothing is subtracted
RemainingAfter_Same == remaining

FollowsAgain   == remaining > 0
RemainingAfter == remaining - 1

\* a is the answer, h what response_headers then holds
Follows(a, h) == FollowsAgain /\ a.redirection /\ h.location # NoUrl

\* mutant: any scheme is followed
OtherScheme_Never(location) == FALSE

OtherScheme(location) == location.scheme # request.url.scheme

(* What is wrong with a redirect, in the order it is looked at.            *)
RedirectError(h) ==
  CASE h.location = Binary \/ h.length = "Invalid" -> "InvalidHeader"
    [] h.location = Malformed /\ h.length # "Invalid" -> "InvalidRedirectUrl"
    [] h.location \in Url /\ h.length # "Invalid" /\ OtherScheme(h.location) ->
         "RedirectForbidden"
    [] OTHER -> "None"

\* mutant: the payload is not put back
BodyAfter_Lost == "None"

BodyAfter == body

Receive(a) ==
  /\ pc = "Wait"
  /\ answer' = a.headers
  /\ headers' = ResponseHeaders(a)
  /\ \/ /\ Follows(a, headers') /\ RedirectError(headers') = "None"
        /\ remaining' = RemainingAfter
        /\ url' = headers'.location /\ redirected' = headers'.location
        /\ pc' = "Connect"
        /\ UNCHANGED << request, body, result, lost >>
     \/ /\ Follows(a, headers') /\ RedirectError(headers') # "None"
        /\ Fails(RedirectError(headers'))
        /\ UNCHANGED << request, url, redirected, remaining >>
     \/ /\ ~Follows(a, headers')
        /\ request' = [request EXCEPT !.body = BodyAfter]
        /\ End(IF headers'.length = "Invalid"
               THEN Failure("InvalidHeader")    \* Response::fetch's Body::new
               ELSE [kind |-> "Ok", url |-> redirected, headers |-> headers'])
        /\ UNCHANGED << url, redirected, remaining, lost >>
  /\ UNCHANGED << given, sent >>

-----------------------------------------------------------------------------
Transfer == Connect \/ SendRequest \/ \E a \in Answers : Receive(a)

Application == (\E p \in Payloads \ {"None"} : SetPayload(p)) \/ BuilderFails \/ RunInvalid \/ Run

Next == Application \/ Transfer \/ TransferFails

Spec == Init /\ [][Next]_vars

(* Connections are made or fail, and servers answer or hang up.            *)
FairSpec == Spec /\ WF_vars(Transfer)

-----------------------------------------------------------------------------
TypeOK ==
  /\ request \in RequestState
  /\ pc \in {"Idle", "Connect", "Send", "Wait"}
  /\ body \in Bodies
  /\ url \in Url \cup {NoUrl} /\ redirected \in Url \cup {NoUrl}
  /\ remaining \in 0 .. request.follow
  /\ headers \in Headers
  /\ result.kind \in Errors \cup {"None", "Ok"}
  /\ given \in Payloads /\ lost \in BOOLEAN
  /\ sent.body \in Bodies /\ sent.url \in Url \cup {NoUrl}

(* Whether a connection is secure is decided once, by the first URL, and   *)
(* no redirect leads to a URL that asks for something else.                *)
SchemeKept ==
  sent # NotSent =>
    sent.url.scheme \in Schemes /\ (sent.secure <=> sent.url.scheme = "https")

(* Every request of a run, redirected or not, carries the payload the      *)
(* application set last, and so does the next run; only a run that has     *)
(* failed loses it, and only a stream can be sent but once.                *)
PayloadSent ==
  pc = "Wait" =>
    \/ lost /\ sent.body = "None"
    \/ ~lost /\ sent.body = given
    \/ ~lost /\ given = "Stream" /\ sent.body = "Drained"

(* A response has the headers of the last answer, none of those that       *)
(* redirected to it, and names the URL it came from if that is not the     *)
(* request's own.                                                          *)
ResponseIsLast ==
  result.kind = "Ok" =>
    /\ result.headers = answer
    /\ sent.url = IF result.url = NoUrl THEN request.url ELSE result.url

(* A run ends, also when redirects lead in a circle.                       *)
TransferEnds == pc # "Idle" ~> pc = "Idle"
=============================================================================
