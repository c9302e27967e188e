------------------------- MODULE HttpTransferProofs -------------------------
(***************************************************************************)
(* The safety properties of HttpTransfer, for every set of requests and of *)
(* answers.  Each says something of the last request sent or of the last   *)
(* response, which is settled earlier, when a URL is followed or a payload *)
(* taken; the invariant carries that through the loop.                     *)
(***************************************************************************)
EXTENDS HttpTransfer, TLAPS

-----------------------------------------------------------------------------
(* The payload in hand: the request's between runs, transfer's within one. *)
RightBody(b) ==
  \/ lost /\ b = "None"
  \/ ~lost /\ b = given
  \/ ~lost /\ given = "Stream" /\ b = "Drained"

PayloadInv ==
  /\ pc = "Idle" => RightBody(request.body)
  /\ pc # "Idle" => RightBody(body) /\ request.body = "None"
  /\ pc = "Wait" => RightBody(sent.body)

UrlInv ==
  /\ pc # "Idle" =>
       /\ url \in Url /\ url.scheme = request.url.scheme
       /\ url = IF redirected = NoUrl THEN request.url ELSE redirected
       /\ result = NoResult
  /\ pc = "Wait" => sent.url = url
  /\ sent = NotSent \/ (/\ sent.url \in Url /\ sent.url.scheme = request.url.scheme
                        /\ sent.secure <=> request.url.scheme = "https")

RunInv == TypeOK /\ PayloadInv /\ UrlInv /\ ResponseIsLast

-----------------------------------------------------------------------------
(* What an answer puts into an empty header map is the answer's headers.   *)
LEMMA OnlyTheAnswers ==
  ASSUME NEW a \in AnswerType
  PROVE  ResponseHeaders(a) = a.headers /\ a.headers \in Headers
<1>1. a.headers \in Headers
  BY DEF AnswerType
<1> QED
  BY <1>1 DEF ResponseHeaders, Merge, NoHeaders, Headers, NoUrl, NotUrl

(* A redirect that is followed leads to a URL of the first one's scheme.   *)
LEMMA FollowedUrl ==
  ASSUME NEW h \in Headers, h.location # NoUrl, RedirectError(h) = "None"
  PROVE  h.location \in Url /\ h.location.scheme = request.url.scheme
<1>1. h.location # Binary /\ h.length # "Invalid"
  BY DEF RedirectError
<1>2. h.location # Malformed
  BY <1>1 DEF RedirectError
<1>3. h.location \in Url
  BY <1>1, <1>2 DEF Headers
<1> QED
  BY <1>1, <1>2, <1>3 DEF RedirectError, OtherScheme

LEMMA InitRunInv == Init => RunInv
<1> SUFFICES ASSUME Init PROVE RunInv
  OBVIOUS
<1>1. request \in RequestType
  BY RequestsAssumption DEF Init
<1>2. TypeOK
  <2>1. request \in RequestState /\ request.body \in Payloads
    BY <1>1 DEF RequestType, RequestState, Bodies
  <2>2. NoHeaders \in Headers
    BY DEF NoHeaders, Headers
  <2>3. remaining \in 0 .. request.follow
    BY <2>1 DEF Init, RequestState
  <2> QED
    BY <2>1, <2>2, <2>3 DEF Init, TypeOK, Bodies, Payloads, NotSent, NoResult
<1>3. PayloadInv
  BY DEF Init, PayloadInv, RightBody
<1>4. UrlInv /\ ResponseIsLast
  BY DEF Init, UrlInv, ResponseIsLast, NoResult
<1> QED
  BY <1>2, <1>3, <1>4 DEF RunInv

-----------------------------------------------------------------------------
(* One lemma for each action.                                              *)

LEMMA SetPayloadKeepsRunInv ==
  ASSUME RunInv, NEW p \in Payloads \ {"None"}, SetPayload(p)
  PROVE  RunInv'
<1> USE DEF RunInv, SetPayload
<1>0. Payloads \subseteq Bodies
  BY DEF Bodies
<1>1. TypeOK'
  <2>1. request' \in RequestState
    BY <1>0, SMTT(60) DEF TypeOK, RequestState
  <2>2. given' \in Payloads /\ lost' \in BOOLEAN
    OBVIOUS
  <2>3. request'.follow = request.follow
    BY DEF TypeOK, RequestState
  <2> QED
    BY <2>1, <2>2, <2>3 DEF TypeOK
<1>2. PayloadInv'
  BY DEF TypeOK, RequestState, PayloadInv, RightBody
<1>3. UrlInv' /\ ResponseIsLast'
  BY DEF TypeOK, RequestState, UrlInv, ResponseIsLast
<1> QED
  BY <1>1, <1>2, <1>3

LEMMA InvalidKeepsRunInv ==
  ASSUME RunInv, BuilderFails \/ RunInvalid
  PROVE  RunInv'
<1> USE DEF RunInv, BuilderFails, RunInvalid, history
<1>1. TypeOK'
  BY DEF TypeOK, RequestState, Failure, Errors
<1>2. PayloadInv'
  BY DEF TypeOK, RequestState, PayloadInv, RightBody
<1>3. UrlInv' /\ ResponseIsLast'
  BY DEF TypeOK, RequestState, UrlInv, ResponseIsLast, Failure
<1> QED
  BY <1>1, <1>2, <1>3

LEMMA RunKeepsRunInv ==
  ASSUME RunInv, Run
  PROVE  RunInv'
<1> USE DEF RunInv, Run, history
<1>1. request.url \in Url
  BY DEF TypeOK, RequestState, Url
<1>2. TypeOK'
  <2>1. request' \in RequestState /\ request'.follow = request.follow
    BY DEF TypeOK, RequestState, Bodies, Payloads
  <2>2. remaining' \in 0 .. request'.follow
    BY <2>1 DEF TypeOK, RequestState
  <2>3. NoHeaders \in Headers
    BY DEF NoHeaders, Headers
  <2>4. body' \in Bodies
    BY DEF TypeOK, RequestState
  <2> QED
    BY <1>1, <2>1, <2>2, <2>3, <2>4 DEF TypeOK, NoResult
<1>3. PayloadInv'
  BY DEF TypeOK, PayloadInv, RightBody
<1>4. UrlInv'
  <2>1. request'.url = request.url
    BY DEF TypeOK, RequestState
  <2> QED
    BY <1>1, <2>1 DEF UrlInv
<1>5. ResponseIsLast'
  BY DEF ResponseIsLast, NoResult
<1> QED
  BY <1>2, <1>3, <1>4, <1>5

LEMMA ConnectKeepsRunInv ==
  ASSUME RunInv, Connect
  PROVE  RunInv'
BY DEF Connect, history, RunInv, TypeOK, PayloadInv, RightBody, UrlInv, ResponseIsLast

LEMMA SendKeepsRunInv ==
  ASSUME RunInv, SendRequest
  PROVE  RunInv'
<1> USE DEF RunInv, SendRequest
<1>1. TypeOK'
  BY DEF TypeOK, Bodies, Payloads
<1>2. PayloadInv'
  BY DEF TypeOK, PayloadInv, RightBody
<1>3. UrlInv'
  BY DEF TypeOK, UrlInv, Secure
<1>4. ResponseIsLast'
  BY DEF UrlInv, ResponseIsLast, NoResult
<1> QED
  BY <1>1, <1>2, <1>3, <1>4

(* Whatever the error, a run that fails has taken the payload with it.     *)
LEMMA FailureKeepsRunInv ==
  ASSUME RunInv, pc # "Idle", NEW err \in Errors, Fails(err), headers' \in Headers,
         UNCHANGED << request, url, redirected, remaining, given, sent >>
  PROVE  RunInv'
<1> USE DEF RunInv, Fails, End, Failure
<1>1. TypeOK'
  <2>1. err \in Errors \cup {"None", "Ok"} /\ result'.kind = err
    OBVIOUS
  <2>2. lost' \in BOOLEAN
    OBVIOUS
  <2> QED
    BY <2>1, <2>2 DEF TypeOK, Bodies, Payloads
<1>2. PayloadInv'
  BY DEF TypeOK, PayloadInv, RightBody
<1>3. UrlInv'
  BY DEF UrlInv
<1>4. ResponseIsLast'
  <2>1. result'.kind # "Ok"
    BY DEF Errors
  <2> QED
    BY <2>1 DEF ResponseIsLast
<1> QED
  BY <1>1, <1>2, <1>3, <1>4

LEMMA ReceiveKeepsRunInv ==
  ASSUME RunInv, NEW a \in Answers, Receive(a)
  PROVE  RunInv'
<1> DEFINE h == ResponseHeaders(a)
<1>1. h = a.headers /\ h \in Headers
  BY AnswersAssumption, OnlyTheAnswers
<1>2. headers' = h /\ answer' = h /\ UNCHANGED << given, sent >> /\ pc = "Wait"
  BY <1>1 DEF Receive
<1> HIDE DEF h
<1> USE DEF RunInv
<1>3. CASE Follows(a, headers') /\ RedirectError(headers') = "None"
  <2>1. h.location \in Url /\ h.location.scheme = request.url.scheme /\ h.location # NoUrl
    BY <1>1, <1>2, <1>3, FollowedUrl DEF Follows
  <2>2. /\ remaining' = remaining - 1 /\ remaining > 0
        /\ url' = h.location /\ redirected' = h.location /\ pc' = "Connect"
        /\ UNCHANGED << request, body, result, lost >>
    BY <1>2, <1>3 DEF Receive, Follows, FollowsAgain, RemainingAfter
  <2>3. TypeOK'
    <3>1. remaining' \in 0 .. request'.follow
      BY <2>2 DEF TypeOK, RequestState
    <3> QED
      BY <1>1, <1>2, <2>1, <2>2, <3>1 DEF TypeOK
  <2>4. PayloadInv'
    BY <1>2, <2>2 DEF PayloadInv, RightBody
  <2>5. UrlInv' /\ ResponseIsLast'
    BY <1>2, <2>1, <2>2 DEF UrlInv, ResponseIsLast, NoResult
  <2> QED
    BY <2>3, <2>4, <2>5
<1>4. CASE Follows(a, headers') /\ RedirectError(headers') # "None"
  <2>1. RedirectError(headers') \in Errors
    BY <1>4 DEF RedirectError, Errors
  <2>2. Fails(RedirectError(headers')) /\ UNCHANGED << request, url, redirected, remaining >>
    BY <1>4 DEF Receive
  <2> QED
    BY <1>1, <1>2, <2>1, <2>2, FailureKeepsRunInv
<1>5. CASE ~Follows(a, headers')
  <2>1. /\ request' = [request EXCEPT !.body = body]
        /\ pc' = "Idle" /\ body' = "None"
        /\ result' = IF headers'.length = "Invalid" THEN Failure("InvalidHeader")
                     ELSE [kind |-> "Ok", url |-> redirected, headers |-> headers']
        /\ UNCHANGED << url, redirected, remaining, lost >>
    BY <1>5 DEF Receive, End, BodyAfter
  <2>2. TypeOK'
    <3>1. request' \in RequestState /\ request'.follow = request.follow
      BY <2>1 DEF TypeOK, RequestState
    <3>2. result'.kind \in Errors \cup {"None", "Ok"}
      BY <2>1 DEF Failure, Errors
    <3>3. remaining' \in 0 .. request'.follow
      BY <2>1, <3>1 DEF TypeOK
    <3> QED
      BY <1>1, <1>2, <2>1, <3>1, <3>2, <3>3 DEF TypeOK, Bodies, Payloads
  <2>3. PayloadInv'
    BY <1>2, <2>1 DEF TypeOK, RequestState, PayloadInv, RightBody
  <2>4. UrlInv'
    BY <1>2, <2>1 DEF TypeOK, RequestState, UrlInv
  <2>5. ResponseIsLast'
    BY <1>2, <2>1 DEF TypeOK, RequestState, UrlInv, ResponseIsLast, Failure
  <2> QED
    BY <2>2, <2>3, <2>4, <2>5
<1> QED
  BY <1>3, <1>4, <1>5

LEMMA StepKeepsRunInv == RunInv /\ [Next]_vars => RunInv'
<1> SUFFICES ASSUME RunInv, [Next]_vars PROVE RunInv'
  OBVIOUS
<1>1. CASE Application
  BY <1>1, SetPayloadKeepsRunInv, InvalidKeepsRunInv, RunKeepsRunInv DEF Application
<1>2. CASE Transfer
  BY <1>2, ConnectKeepsRunInv, SendKeepsRunInv, ReceiveKeepsRunInv DEF Transfer
<1>3. CASE TransferFails
  <2>1. headers' \in Headers /\ "Io" \in Errors
    BY <1>3 DEF TransferFails, RunInv, TypeOK, Errors
  <2> QED
    BY <1>3, <2>1, FailureKeepsRunInv DEF TransferFails
<1>4. CASE UNCHANGED vars
  BY <1>4 DEF vars, history, RunInv, TypeOK, PayloadInv, RightBody, UrlInv, ResponseIsLast
<1> QED
  BY <1>1, <1>2, <1>3, <1>4 DEF Next

(* At every await of a run the payload is where it should be, the URL has  *)
(* the first one's scheme and no response is out: transfer's loop invariant.*)
THEOREM RunInvariance == Spec => []RunInv
<1>1. Init => RunInv
  BY InitRunInv
<1>2. RunInv /\ [Next]_vars => RunInv'
  BY StepKeepsRunInv
<1> QED
  BY <1>1, <1>2, PTL DEF Spec

(* Type correctness of a request and of transfer's locals.                 *)
THEOREM TransferTypeCorrect == Spec => []TypeOK
<1>1. RunInv => TypeOK
  BY DEF RunInv
<1> QED
  BY <1>1, RunInvariance, PTL

(* A redirect never takes a request over a connection of another kind than *)
(* its URL asks for, whatever Location servers send.                       *)
THEOREM SchemeIsKept == Spec => []SchemeKept
<1>1. RunInv => SchemeKept
  <2> SUFFICES ASSUME RunInv, sent # NotSent
               PROVE  sent.url.scheme \in Schemes /\ (sent.secure <=> sent.url.scheme = "https")
    BY DEF SchemeKept
  <2> QED
    BY DEF RunInv, UrlInv, TypeOK, RequestState
<1> QED
  BY <1>1, RunInvariance, PTL

(* Every request carries the payload that was set last, however often the  *)
(* request is redirected or run, until a run fails or a stream is used up. *)
THEOREM PayloadIsSent == Spec => []PayloadSent
<1>1. RunInv => PayloadSent
  BY DEF RunInv, PayloadInv, RightBody, PayloadSent
<1> QED
  BY <1>1, RunInvariance, PTL

(* A response's headers and URL are the last answer's.                     *)
THEOREM ResponseIsTheLast == Spec => []ResponseIsLast
<1>1. RunInv => ResponseIsLast
  BY DEF RunInv
<1> QED
  BY <1>1, RunInvariance, PTL
=============================================================================
