----------------------------- MODULE ApiClient -----------------------------
(***************************************************************************)
(* One call of the API client (src/internal/api/client.go): do, the retry  *)
(* loop, with classifyAttempt, the back-off and Retry-After rules, the     *)
(* redirect policy and decodeResponse.  The server and the network are the *)
(* environment: a request can be lost, carried out late, or carried out    *)
(* and its answer lost; an answer can be a redirect, be unreadable or ask  *)
(* to be retried later.  The caller can cancel the context at any moment.  *)
(*                                                                         *)
(* Time is counted in whole units.  An attempt, whose clock is the         *)
(* http.Client's Timeout, spends up to that timeout over its redirects,    *)
(* its answer and its body; a sleep spends what it waits.                  *)
(***************************************************************************)
EXTENDS Integers

CONSTANTS
  Methods,             \* HTTP methods of the calls considered
  Statuses,            \* HTTP statuses the server may answer with
  RetryAfterSeconds,   \* integers a Retry-After header may hold
  MaxRetries,          \* defaultMaxRetries: 3
  MaxRedirects,        \* maxRedirects: 3
  ReadTimeout,         \* defaultHTTPTimeout: 30 s
  WriteTimeout,        \* defaultWriteHTTPTimeout: 90 s
  BackoffInitial,      \* defaultBackoffInitial: 200 ms
  BackoffInitial429,   \* defaultBackoffInitial429: 1 s
  BackoffMax,          \* defaultBackoffMax: 30 s
  RetryAfterCap,       \* defaultRetryAfterCap: 60 s
  MaxRetryAfter        \* maxRetryAfter: 24 h

\* The redirects that keep the method and the body.  (net/http turns a POST that is
\* answered 301, 302 or 303 into a GET; that is left out, and so is a redirect without
\* a Location, which it returns as the answer.  The client sends no conditional request,
\* so no 304 answers it.)
RedirectStatuses == {307, 308}

ASSUME ApiClientAssumption ==
  /\ Statuses \subseteq Nat \ {0}
  /\ Statuses \intersect (300..399) \subseteq RedirectStatuses
  /\ RetryAfterSeconds \subseteq Int
  /\ MaxRetries \in Nat /\ MaxRedirects \in Nat
  /\ ReadTimeout \in Nat /\ WriteTimeout \in Nat
  /\ BackoffInitial \in Nat /\ BackoffInitial429 \in Nat /\ BackoffMax \in Nat
  /\ RetryAfterCap \in Nat /\ MaxRetryAfter \in Nat
  /\ BackoffMax <= RetryAfterCap     \* 30 s and 60 s

VARIABLES
  method,    \* the call's method, fixed
  pc,        \* "start", "send", "await", "sleep", "done"
  attempt,   \* the loop variable of do
  hop,       \* redirects followed in this attempt
  reply,     \* the answer that reached the client and is not yet read
  wait,      \* what the loop sleeps before the next attempt
  elapsed,   \* time since the call began
  result,    \* what do returned
  ctxDone,   \* the caller's context is cancelled
  wire,      \* requests sent, <<attempt, hop>>, that the server may still act on
  carried    \* how often the server carried the request out

vars == <<method, pc, attempt, hop, reply, wait, elapsed, result, ctxDone, wire, carried>>

-----------------------------------------------------------------------------
(* Values.                                                                 *)

Bodies == {"payload", "envelope", "garbled", "oversize", "unreadable"}

\* The Retry-After header of an answer, when it has one.
NoHeader == [present |-> FALSE, seconds |-> 0]
Headers == [present : {TRUE}, seconds : RetryAfterSeconds] \union {NoHeader}

Replies == [status : Statuses, retryAfter : Headers, body : Bodies]

\* No answer is waiting to be read.
NoReply == [status |-> 0]

Kinds == {"none", "ok", "answered", "noresponse", "unreadable", "cancelled", "refused"}

\* The codes the client makes up itself, and "server" for the one an envelope carries.
Codes == {"", "server", "internal_error", "rate_limited", "service_unavailable",
          "auth_required", "cluster_not_found", "validation_failed"}

Results == [kind : Kinds, code : Codes, status : Statuses \union {0}]

Res(k, c, s) == [kind |-> k, code |-> c, status |-> s]

NoResult == Res("none", "", 0)

-----------------------------------------------------------------------------
(* The client's rules, one operator per function.                          *)

\* Mutations: definitions named Bug... change the definition they stand before the way
\* a mistake in the code would, to show that a property notices.  Nothing else uses them.
BugRetryPost(m) == m \in {"GET", "HEAD", "PUT", "DELETE", "POST"}

\* A replayed POST could buy a second cluster.
IsRetryableMethod(m) == m \in {"GET", "HEAD", "PUT", "DELETE"}

IsWriteMethod(m) == m \notin {"GET", "HEAD"}

\* send picks the http.Client, and with it the time an attempt may take.
AttemptTimeout(m) == IF IsWriteMethod(m) THEN WriteTimeout ELSE ReadTimeout

BugRetryOnStatusAlone(m, status) == status \in {429, 500, 502, 503, 504}
ShouldRetry(m, status) == status \in {429, 500, 502, 503, 504} /\ IsRetryableMethod(m)

\* Any value below base * 2^(k+1) and below the maximum: the jitter is uniform.
JitteredBackoff(base, k) ==
  {w \in 0..BackoffMax : w = 0 \/ (w < BackoffMax /\ w < base * 2^(k + 1))}

\* A header that holds a negative number means now, a huge one saturates.
ParseRetryAfter(h) == IF h.seconds <= 0 THEN 0
                      ELSE IF h.seconds > MaxRetryAfter THEN MaxRetryAfter
                      ELSE h.seconds

RetryAfter(h, fallback) ==
  IF h.present /\ ParseRetryAfter(h) > fallback THEN ParseRetryAfter(h) ELSE fallback

BugNoCap(r, w) == ShouldRetry(method, r.status) /\ attempt < MaxRetries

\* Why the loop goes on after an answer: it is to be retried, and soon enough.
RetriesAfter(r, w) == /\ ShouldRetry(method, r.status)
                      /\ attempt < MaxRetries
                      /\ w <= RetryAfterCap

CodeForStatus(status) == CASE status = 429                -> "rate_limited"
                           [] status \in {502, 503, 504}  -> "service_unavailable"
                           [] status = 401                -> "auth_required"
                           [] status = 404                -> "cluster_not_found"
                           [] OTHER                       -> "internal_error"

DecodeError(r) ==
  Res("answered", IF r.body = "envelope" THEN "server" ELSE CodeForStatus(r.status), r.status)

BugStatusBlind(r) == IF r.body = "payload" THEN Res("ok", "", r.status) ELSE DecodeError(r)
DecodeResponse(r) ==
  CASE r.body = "unreadable"                        -> Res("unreadable", "", r.status)
    [] r.body = "oversize"                          -> Res("answered", "internal_error", r.status)
    [] r.body \in {"payload", "envelope", "garbled"} /\ r.status >= 400 -> DecodeError(r)
    [] r.body = "payload" /\ r.status < 400         -> Res("ok", "", r.status)
    [] OTHER                                        -> Res("answered", "internal_error", r.status)

NoResponse == Res("noresponse", "internal_error", 0)

-----------------------------------------------------------------------------
Init == /\ method \in Methods
        /\ pc = "start"
        /\ attempt = 0
        /\ hop = 0
        /\ reply = NoReply
        /\ wait = 0
        /\ elapsed = 0
        /\ result = NoResult
        /\ ctxDone = FALSE
        /\ wire = {}
        /\ carried = 0

\* do returns r.
Return(r) == /\ pc' = "done"
             /\ result' = r
             /\ UNCHANGED wait

\* The loop goes to sleep for w.
SleepFor(w) == /\ pc' = "sleep"
               /\ wait' = w
               /\ UNCHANGED result

\* The endpoint is not one the allowlist policy lets a request go to.
RefuseEndpoint == /\ pc = "start"
                  /\ Return(Res("refused", "validation_failed", 0))
                  /\ UNCHANGED <<method, attempt, hop, reply, elapsed, ctxDone, wire, carried>>

EnterLoop == /\ pc = "start"
             /\ pc' = "send"
             /\ UNCHANGED <<method, attempt, hop, reply, wait, elapsed, result, ctxDone,
                            wire, carried>>

\* An attempt without an answer is the last one.
BugNoLastAttempt == ~IsRetryableMethod(method)
GivesUp == ~IsRetryableMethod(method) \/ attempt = MaxRetries

\* What send and classifyAttempt do with an attempt that failed after time d: a
\* cancelled context outranks the error, and only a replayable call goes on.
SendFailed(d) ==
  /\ elapsed' = elapsed + d
  /\ reply' = NoReply
  /\ \/ ctxDone /\ Return(Res("cancelled", "", 0))
     \/ ~ctxDone /\ GivesUp /\ Return(NoResponse)
     \/ /\ ~ctxDone
        /\ ~GivesUp
        /\ \E w \in JitteredBackoff(BackoffInitial, attempt) : SleepFor(w)
  /\ UNCHANGED <<method, attempt, hop, ctxDone, wire, carried>>

\* The transport refuses a cancelled context before it dials.
Send == /\ pc = "send"
        /\ IF ctxDone
           THEN SendFailed(0)
           ELSE /\ pc' = "await"
                /\ hop' = 0
                /\ wire' = wire \union {<<attempt, 0>>}
                /\ UNCHANGED <<method, attempt, reply, wait, elapsed, result, ctxDone, carried>>

\* An answer that is not a redirect ends the attempt: classifyAttempt sleeps or is
\* done, and then decodeResponse reads what it holds.
Receive ==
  /\ pc = "await"
  /\ reply # NoReply
  /\ reply.status \notin RedirectStatuses
  /\ \E d \in 0..AttemptTimeout(method),
        b \in JitteredBackoff(IF reply.status = 429 THEN BackoffInitial429
                              ELSE BackoffInitial, attempt) :
       LET w == RetryAfter(reply.retryAfter, b)
       IN  /\ elapsed' = elapsed + d
           /\ IF RetriesAfter(reply, w) THEN SleepFor(w) ELSE Return(DecodeResponse(reply))
  /\ reply' = NoReply
  /\ UNCHANGED <<method, attempt, hop, ctxDone, wire, carried>>

\* checkRedirect lets the transport send the request again to where it was pointed.
FollowRedirect ==
  /\ pc = "await"
  /\ reply.status \in RedirectStatuses
  /\ ~ctxDone
  /\ hop + 1 < MaxRedirects
  /\ hop' = hop + 1
  /\ wire' = wire \union {<<attempt, hop + 1>>}
  /\ reply' = NoReply
  /\ UNCHANGED <<method, pc, attempt, wait, elapsed, result, ctxDone, carried>>

\* checkRedirect refuses: one redirect too many, or a host the policy does not allow.
\* It may refuse any redirect, because the policy may.
RefuseRedirect ==
  /\ pc = "await"
  /\ reply.status \in RedirectStatuses
  /\ \E d \in 0..AttemptTimeout(method) : SendFailed(d)

\* The attempt fails at any moment: no connection, a reset, a cancelled context.
TransportError ==
  /\ pc = "await"
  /\ \E d \in 0..AttemptTimeout(method) : SendFailed(d)

BugOnlyWritesTimeOut ==
  /\ pc = "await"
  /\ IsWriteMethod(method)
  /\ SendFailed(AttemptTimeout(method))

\* The http.Client's timeout ends an attempt that nothing else ended.
TimeOut ==
  /\ pc = "await"
  /\ SendFailed(AttemptTimeout(method))

\* The timer fires; nothing looks at the context when there was nothing to wait for.
Wake == /\ pc = "sleep"
        /\ pc' = "send"
        /\ attempt' = attempt + 1
        /\ elapsed' = elapsed + wait
        /\ UNCHANGED <<method, hop, reply, wait, result, ctxDone, wire, carried>>

SleepCancelled ==
  /\ pc = "sleep"
  /\ wait > 0
  /\ ctxDone
  /\ \E d \in 0..wait : elapsed' = elapsed + d
  /\ Return(Res("cancelled", "", 0))
  /\ UNCHANGED <<method, attempt, hop, reply, ctxDone, wire, carried>>

\* The caller: an interrupt cancels the command's context.
Cancel == /\ pc # "done"
          /\ ~ctxDone
          /\ ctxDone' = TRUE
          /\ UNCHANGED <<method, pc, attempt, hop, reply, wait, elapsed, result, wire, carried>>

\* The server (external) acts on a request it was sent, however late, and answers.  A
\* success is an answer to a request it carried out, a redirect or a refusal (4xx) to
\* one it did not; after a failure of its own (5xx) either may be the case.  The answer
\* reaches the client only if the attempt that sent the request still awaits it.
Serve(r, status, done) ==
  /\ r \in wire
  /\ status < 300 => done
  /\ status \in 300..499 => ~done
  /\ wire' = wire \ {r}
  /\ carried' = IF done THEN carried + 1 ELSE carried
  /\ IF pc = "await" /\ r = <<attempt, hop>>
     THEN \E h \in Headers, b \in Bodies :
            reply' = [status |-> status, retryAfter |-> h, body |-> b]
     ELSE UNCHANGED reply
  /\ UNCHANGED <<method, pc, attempt, hop, wait, elapsed, result, ctxDone>>

Client == RefuseEndpoint \/ EnterLoop \/ Send \/ Receive \/ FollowRedirect
          \/ RefuseRedirect \/ TimeOut \/ Wake \/ SleepCancelled

Server == \E r \in wire, status \in Statuses, done \in BOOLEAN : Serve(r, status, done)

Next == Client \/ TransportError \/ Cancel \/ Server

SafeSpec == Init /\ [][Next]_vars

\* The command's goroutine runs, its timers fire; the server may never answer.
Spec == SafeSpec /\ WF_vars(Client)

-----------------------------------------------------------------------------
(* Properties.                                                             *)

\* The methods HTTP lets a client send again: the others change something each time.
Idempotent == {"GET", "HEAD", "PUT", "DELETE"}

TypeOK ==
  /\ method \in Methods
  /\ pc \in {"start", "send", "await", "sleep", "done"}
  /\ attempt \in 0..MaxRetries
  /\ hop \in Nat
  /\ reply \in Replies \union {NoReply}
  /\ wait \in 0..RetryAfterCap
  /\ elapsed \in Nat
  /\ result \in Results
  /\ ctxDone \in BOOLEAN
  /\ wire \subseteq (0..MaxRetries) \X Nat
  /\ carried \in Nat

\* The loop sleeps only when it may try again: what makes TypeOK inductive.
RetryRemains == pc = "sleep" => attempt < MaxRetries

\* A create is carried out at most once, whatever is lost, late or retried: the promise
\* of isRetryableMethod's "a replayed POST can duplicate a billable cluster".
WriteAtMostOnce == method \in Idempotent \/ carried <= 1

\* What the command learns of its request, in ApiCall's words: an answer of 4xx, or the
\* client's own refusal to send it, says that it was not carried out.
OutcomeOf(r) ==
  CASE r.kind = "none"                                   -> "pending"
    [] r.kind = "ok"                                     -> "ok"
    [] r.kind = "refused"                                -> "rejected"
    [] r.kind = "answered" /\ r.status \in 400..499      -> "rejected"
    [] OTHER                                             -> "unknown"

Outcome == OutcomeOf(result)

\* A write reported as rejected was not carried out and never will be: no earlier
\* attempt of it is still on its way to the server.
RejectedWriteStaysUndone ==
  Outcome = "rejected" /\ method \notin Idempotent => carried = 0 /\ wire = {}

\* The call has told nothing before it is done, and holds an answer only while it awaits one.
TellsWhenDone ==
  /\ pc = "done" <=> Outcome # "pending"
  /\ reply # NoReply => pc = "await"

\* Why: a write has one attempt, so it has one request on its way, or one effect, or an
\* answer to it.
OneAttemptOfAWrite ==
  method \notin Idempotent =>
    /\ pc # "sleep" /\ attempt = 0
    /\ wire \subseteq {<<0, hop>>}
    /\ carried = 0 \/ (carried = 1 /\ wire = {})
    /\ pc \in {"start", "send"} => wire = {} /\ carried = 0
    /\ reply # NoReply => wire = {}
    /\ reply # NoReply /\ reply.status \in 300..499 => carried = 0
    /\ Outcome = "rejected" => carried = 0 /\ wire = {}

\* A success, read or not, is an answer to a request that was carried out.
SuccessMeansCarriedOut ==
  /\ reply # NoReply /\ reply.status < 300 => carried > 0
  /\ Outcome = "ok" => carried > 0

\* The longest a call can take: the retries' attempts and the waits between them, and
\* for a call that is never retried one attempt.  The command above relies on it to
\* return (the polls of --wait have no deadline of their own).
CallBudget(m) ==
  IF m \in Idempotent
  THEN (MaxRetries + 1) * AttemptTimeout(m) + MaxRetries * RetryAfterCap
  ELSE AttemptTimeout(m)

CallWithinBudget == elapsed <= CallBudget(method)

\* Why: each attempt that is over took its timeout, each sleep the cap, at most.
TimeOfRounds(m, n) == n * (AttemptTimeout(m) + RetryAfterCap)

TimeByRound ==
  /\ pc \in {"start", "send", "await"} => elapsed <= TimeOfRounds(method, attempt)
  /\ pc = "sleep" => elapsed <= TimeOfRounds(method, attempt) + AttemptTimeout(method)
  /\ pc = "done" =>
       \/ elapsed <= TimeOfRounds(method, attempt) + AttemptTimeout(method)
       \/ /\ attempt < MaxRetries
          /\ method \in Idempotent
          /\ elapsed <= TimeOfRounds(method, attempt + 1)

\* Every call returns, whatever the server does.
CallReturns == <>(pc = "done")

\* The retry loop implements the abstract call, its liveness included.
Call == INSTANCE ApiCall WITH Replayable <- Methods \intersect Idempotent,
                              outcome <- Outcome

CallSafeSpec == Call!SafeSpec
ImplementsApiCall == Call!Spec

\* The claim of NoResponse's comment and message: a request that got no response was
\* neither accepted nor rejected.  (It is of a write that it matters.)
NoResponseMeansNotAccepted ==
  result.kind = "noresponse" /\ method \notin Idempotent => carried = 0

=============================================================================
