-------------------------- MODULE ApiClientProofs --------------------------
(***************************************************************************)
(* ApiClient for every value of its constants: type correctness, a write   *)
(* is carried out at most once and not at all once it was rejected, a call *)
(* stays within its budget of time, and every step of the retry loop is a  *)
(* step of ApiCall or a stutter.                                           *)
(***************************************************************************)
EXTENDS ApiClient, TLAPS

-----------------------------------------------------------------------------
(* What the rules return.                                                  *)

\* The jitter never waits longer than the back-off maximum.
LEMMA BackoffRange ==
  ASSUME NEW base, NEW k, NEW w \in JitteredBackoff(base, k)
  PROVE  w \in Nat /\ w <= BackoffMax
  BY ApiClientAssumption DEF JitteredBackoff

\* A Retry-After header, whatever integer it holds, gives a wait of no negative length.
LEMMA RetryAfterRange ==
  ASSUME NEW h \in Headers, NEW b \in Nat
  PROVE  RetryAfter(h, b) \in Nat
  <1>1. h.seconds \in Int
    <2>1. CASE h \in [present : {TRUE}, seconds : RetryAfterSeconds]
      BY <2>1, ApiClientAssumption
    <2>2. CASE h = NoHeader
      BY <2>2 DEF NoHeader
    <2> QED
      BY <2>1, <2>2 DEF Headers
  <1>2. MaxRetryAfter \in Nat
    BY ApiClientAssumption
  <1>3. ParseRetryAfter(h) \in Nat
    BY <1>1, <1>2 DEF ParseRetryAfter
  <1> QED
    BY <1>3 DEF RetryAfter

\* The time of an attempt is a natural number.
LEMMA TimeoutType == ASSUME NEW m PROVE AttemptTimeout(m) \in Nat
  BY ApiClientAssumption DEF AttemptTimeout

\* Everything decodeResponse returns is a result.
LEMMA DecodeType ==
  ASSUME NEW r \in Replies
  PROVE  DecodeResponse(r) \in Results
  <1>1. r.status \in Statuses
    BY DEF Replies
  <1>2. DecodeError(r) \in Results
    BY <1>1 DEF DecodeError, Res, Results, Kinds, Codes, CodeForStatus
  <1> QED
    BY <1>1, <1>2 DEF DecodeResponse, Res, Results, Kinds, Codes

-----------------------------------------------------------------------------
(* Type correctness.                                                       *)

\* A failed attempt leaves the state well typed.
LEMMA SendFailedType ==
  ASSUME TypeOK, pc \in {"send", "await"},
         NEW d \in Nat, SendFailed(d)
  PROVE  TypeOK' /\ RetryRemains'
  <1>1. /\ elapsed' = elapsed + d
        /\ reply' = NoReply
        /\ UNCHANGED <<method, attempt, hop, ctxDone, wire, carried>>
    BY DEF SendFailed
  <1>2. /\ pc' \in {"done", "sleep"}
        /\ wait' \in 0..RetryAfterCap
        /\ result' \in Results
        /\ pc' = "sleep" => attempt < MaxRetries
    <2>1. CASE Return(Res("cancelled", "", 0))
      BY <2>1 DEF TypeOK, Return, Res, Results, Kinds, Codes
    <2>2. CASE Return(NoResponse)
      BY <2>2 DEF TypeOK, Return, NoResponse, Res, Results, Kinds, Codes
    <2>3. ASSUME ~GivesUp, NEW w \in JitteredBackoff(BackoffInitial, attempt), SleepFor(w)
          PROVE  /\ pc' \in {"done", "sleep"}
                 /\ wait' \in 0..RetryAfterCap
                 /\ result' \in Results
                 /\ pc' = "sleep" => attempt < MaxRetries
      <3>1. w \in 0..RetryAfterCap
        BY BackoffRange, ApiClientAssumption
      <3>2. attempt < MaxRetries
        BY <2>3, ApiClientAssumption DEF GivesUp, TypeOK
      <3> QED
        BY <2>3, <3>1, <3>2 DEF SleepFor, TypeOK
    <2> QED
      BY <2>1, <2>2, <2>3 DEF SendFailed
  <1> QED
    BY <1>1, <1>2 DEF TypeOK, RetryRemains

\* Every step keeps the state well typed.
LEMMA TypeStep ==
  ASSUME TypeOK, RetryRemains, [Next]_vars
  PROVE  TypeOK' /\ RetryRemains'
  <1>1. CASE RefuseEndpoint
    BY <1>1 DEF RefuseEndpoint, Return, Res, Results, Kinds, Codes, TypeOK, RetryRemains
  <1>2. CASE EnterLoop
    BY <1>2 DEF EnterLoop, TypeOK, RetryRemains
  <1>3. CASE Send
    <2>1. CASE ctxDone
      <3>1. pc = "send" /\ SendFailed(0)
        BY <1>3, <2>1 DEF Send
      <3> QED
        BY <3>1, SendFailedType
    <2>2. CASE ~ctxDone
      <3>1. /\ pc' = "await" /\ hop' = 0
            /\ wire' = wire \union {<<attempt, 0>>}
            /\ UNCHANGED <<method, attempt, reply, wait, elapsed, result, ctxDone, carried>>
        BY <1>3, <2>2 DEF Send
      <3> QED
        BY <3>1 DEF TypeOK, RetryRemains
    <2> QED
      BY <2>1, <2>2
  <1>4. CASE Receive
    <2>1. PICK d \in 0..AttemptTimeout(method),
               b \in JitteredBackoff(IF reply.status = 429 THEN BackoffInitial429
                                     ELSE BackoffInitial, attempt) :
            LET w == RetryAfter(reply.retryAfter, b)
            IN  /\ elapsed' = elapsed + d
                /\ IF RetriesAfter(reply, w) THEN SleepFor(w)
                   ELSE Return(DecodeResponse(reply))
      BY <1>4 DEF Receive
    <2> DEFINE w == RetryAfter(reply.retryAfter, b)
    <2>2. reply \in Replies /\ reply' = NoReply
          /\ UNCHANGED <<method, attempt, hop, ctxDone, wire, carried>>
      BY <1>4 DEF Receive, TypeOK
    <2>3. w \in Nat
      <3>1. b \in Nat
        BY BackoffRange
      <3>2. reply.retryAfter \in Headers
        BY <2>2 DEF Replies
      <3> QED
        BY <3>1, <3>2, RetryAfterRange
    <2>4. elapsed' \in Nat
      BY <2>1, TimeoutType DEF TypeOK
    <2>5. CASE RetriesAfter(reply, w)
      <3>1. SleepFor(w) /\ w \in 0..RetryAfterCap /\ attempt < MaxRetries
        BY <2>1, <2>3, <2>5, ApiClientAssumption DEF RetriesAfter
      <3> HIDE DEF w
      <3> QED
        BY <2>2, <2>4, <3>1 DEF SleepFor, TypeOK, RetryRemains
    <2>6. CASE ~RetriesAfter(reply, w)
      <3>1. Return(DecodeResponse(reply)) /\ DecodeResponse(reply) \in Results
        BY <2>1, <2>2, <2>6, DecodeType
      <3> QED
        BY <2>2, <2>4, <3>1 DEF Return, TypeOK, RetryRemains
    <2> QED
      BY <2>5, <2>6
  <1>5. CASE FollowRedirect
    BY <1>5 DEF FollowRedirect, TypeOK, RetryRemains
  <1>6. CASE RefuseRedirect
    <2>1. PICK d \in 0..AttemptTimeout(method) : SendFailed(d)
      BY <1>6 DEF RefuseRedirect
    <2> QED
      BY <1>6, <2>1, SendFailedType, TimeoutType DEF RefuseRedirect
  <1>7. CASE TimeOut
    BY <1>7, SendFailedType, TimeoutType DEF TimeOut
  <1>8. CASE Wake
    <2>1. attempt' \in 0..MaxRetries
      BY <1>8, ApiClientAssumption DEF Wake, TypeOK, RetryRemains
    <2> QED
      BY <1>8, <2>1, ApiClientAssumption DEF Wake, TypeOK, RetryRemains
  <1>9. CASE SleepCancelled
    <2>1. PICK d \in 0..wait : elapsed' = elapsed + d
      BY <1>9 DEF SleepCancelled
    <2>2. elapsed' \in Nat
      BY <2>1 DEF TypeOK
    <2>3. result' \in Results /\ pc' = "done"
      BY <1>9 DEF SleepCancelled, Return, Res, Results, Kinds, Codes
    <2> QED
      BY <1>9, <2>2, <2>3 DEF SleepCancelled, Return, TypeOK, RetryRemains
  <1>10. CASE TransportError
    <2>1. PICK d \in 0..AttemptTimeout(method) : SendFailed(d)
      BY <1>10 DEF TransportError
    <2> QED
      BY <1>10, <2>1, SendFailedType, TimeoutType DEF TransportError
  <1>11. CASE Cancel
    BY <1>11 DEF Cancel, TypeOK, RetryRemains
  <1>12. CASE Server
    <2>1. PICK r \in wire, status \in Statuses, done \in BOOLEAN : Serve(r, status, done)
      BY <1>12 DEF Server
    <2>2. reply' \in Replies \union {NoReply}
      BY <2>1 DEF Serve, Replies, TypeOK
    <2> QED
      BY <2>1, <2>2 DEF Serve, TypeOK, RetryRemains
  <1>13. CASE UNCHANGED vars
    BY <1>13 DEF vars, TypeOK, RetryRemains
  <1> QED
    BY <1>1, <1>2, <1>3, <1>4, <1>5, <1>6, <1>7, <1>8, <1>9, <1>10, <1>11, <1>12, <1>13
    DEF Next, Client

-----------------------------------------------------------------------------
(* A write has one attempt.                                                *)

\* For a method that is not idempotent every rule says "do not send again".
LEMMA WriteIsFinal ==
  ASSUME method \notin Idempotent
  PROVE  /\ GivesUp
         /\ \A r, w : ~RetriesAfter(r, w)
  BY DEF Idempotent, IsRetryableMethod, GivesUp, ShouldRetry, RetriesAfter

\* Only an answer of 4xx is told as a rejection, and only one of 2xx as a success.
LEMMA DecodedOutcome ==
  ASSUME NEW r \in Replies, r.status \notin RedirectStatuses
  PROVE  LET o == OutcomeOf(DecodeResponse(r))
         IN  /\ o \in {"ok", "rejected", "unknown"}
             /\ o = "rejected" => r.status \in 400..499
             /\ o = "ok" => r.status < 300
  <1> DEFINE res == DecodeResponse(r)
  <1>1. r.status \in Nat \ {0}
        /\ (r.status \in 300..399 => r.status \in RedirectStatuses)
    BY ApiClientAssumption DEF Replies
  <1>2. res.status = r.status /\ res.kind \in {"ok", "answered", "unreadable"}
    BY DEF DecodeResponse, DecodeError, Res
  <1>3. res.kind = "ok" => r.status < 400
    BY DEF DecodeResponse, DecodeError, Res
  <1> HIDE DEF res
  <1> QED
    BY <1>1, <1>2, <1>3 DEF OutcomeOf, res

\* What a failed attempt can return is not an answer: the outcome is unknown.
LEMMA FailureOutcome ==
  /\ OutcomeOf(NoResponse) = "unknown"
  /\ OutcomeOf(Res("cancelled", "", 0)) = "unknown"
  BY DEF OutcomeOf, NoResponse, Res

\* A failed attempt of a write is the end of its call.
LEMMA SendFailedWrite ==
  ASSUME method \notin Idempotent, NEW d, SendFailed(d)
  PROVE  /\ pc' = "done" /\ Outcome' = "unknown" /\ reply' = NoReply
         /\ UNCHANGED <<method, attempt, hop, wire, carried>>
  <1>1. Return(Res("cancelled", "", 0)) \/ Return(NoResponse)
    BY WriteIsFinal DEF SendFailed
  <1>2. pc' = "done" /\ Outcome' = "unknown"
    BY <1>1, FailureOutcome DEF Return, Outcome
  <1> QED
    BY <1>2 DEF SendFailed

\* The call tells its outcome when it is done, and not before.
LEMMA TellsStep ==
  ASSUME TypeOK, TellsWhenDone, [Next]_vars
  PROVE  TellsWhenDone'
  <1>1. ASSUME NEW d, SendFailed(d), pc \in {"send", "await"}
        PROVE  TellsWhenDone'
    BY <1>1, FailureOutcome DEF SendFailed, Return, SleepFor, Outcome, TellsWhenDone
  <1>2. CASE RefuseEndpoint
    <2>1. OutcomeOf(Res("refused", "validation_failed", 0)) = "rejected"
      BY DEF OutcomeOf, Res
    <2> QED
      BY <1>2, <2>1 DEF RefuseEndpoint, Return, Outcome, TellsWhenDone
  <1>3. CASE EnterLoop
    BY <1>3 DEF EnterLoop, Outcome, TellsWhenDone
  <1>4. CASE Send
    BY <1>1, <1>4 DEF Send, Outcome, TellsWhenDone
  <1>5. CASE Receive
    <2>1. /\ pc = "await" /\ reply' = NoReply
          /\ reply \in Replies /\ reply.status \notin RedirectStatuses
      BY <1>5 DEF Receive, TypeOK
    <2>2. \/ pc' = "sleep" /\ result' = result
          \/ pc' = "done" /\ result' = DecodeResponse(reply)
      BY <1>5 DEF Receive, SleepFor, Return
    <2> QED
      BY <2>1, <2>2, DecodedOutcome DEF TellsWhenDone, Outcome
  <1>6. CASE FollowRedirect
    BY <1>6 DEF FollowRedirect, Outcome, TellsWhenDone
  <1>7. CASE RefuseRedirect
    BY <1>1, <1>7 DEF RefuseRedirect
  <1>8. CASE TimeOut
    BY <1>1, <1>8 DEF TimeOut
  <1>9. CASE TransportError
    BY <1>1, <1>9 DEF TransportError
  <1>10. CASE Wake
    BY <1>10 DEF Wake, Outcome, TellsWhenDone
  <1>11. CASE SleepCancelled
    BY <1>11, FailureOutcome DEF SleepCancelled, Return, Outcome, TellsWhenDone
  <1>12. CASE Cancel
    BY <1>12 DEF Cancel, Outcome, TellsWhenDone
  <1>13. CASE Server
    BY <1>13 DEF Server, Serve, Outcome, TellsWhenDone
  <1>14. CASE UNCHANGED vars
    BY <1>14 DEF vars, Outcome, TellsWhenDone
  <1> QED
    BY <1>2, <1>3, <1>4, <1>5, <1>6, <1>7, <1>8, <1>9, <1>10, <1>11, <1>12, <1>13, <1>14
    DEF Next, Client

\* The two facts about answers that hold of every method.
LEMMA SuccessStep ==
  ASSUME TypeOK, SuccessMeansCarriedOut, [Next]_vars
  PROVE  SuccessMeansCarriedOut'
  <1>1. ASSUME NEW d, SendFailed(d)
        PROVE  SuccessMeansCarriedOut'
    <2>1. \/ Outcome' = "unknown"
          \/ Outcome' = Outcome
      BY <1>1, FailureOutcome DEF SendFailed, Return, SleepFor, Outcome
    <2>2. reply' = NoReply /\ carried' = carried
      BY <1>1 DEF SendFailed
    <2> QED
      BY <2>1, <2>2 DEF SuccessMeansCarriedOut
  <1>2. CASE RefuseEndpoint
    <2>1. OutcomeOf(Res("refused", "validation_failed", 0)) = "rejected"
      BY DEF OutcomeOf, Res
    <2> QED
      BY <1>2, <2>1 DEF RefuseEndpoint, Return, Outcome, SuccessMeansCarriedOut
  <1>3. CASE EnterLoop
    BY <1>3 DEF EnterLoop, Outcome, SuccessMeansCarriedOut
  <1>4. CASE Send
    BY <1>1, <1>4 DEF Send, Outcome, SuccessMeansCarriedOut
  <1>5. CASE Receive
    <2>1. /\ reply' = NoReply /\ carried' = carried
          /\ reply \in Replies /\ reply # NoReply /\ reply.status \notin RedirectStatuses
      BY <1>5 DEF Receive, TypeOK
    <2>2. result' = result \/ result' = DecodeResponse(reply)
      BY <1>5 DEF Receive, SleepFor, Return
    <2> QED
      BY <2>1, <2>2, DecodedOutcome DEF SuccessMeansCarriedOut, Outcome
  <1>6. CASE FollowRedirect
    BY <1>6 DEF FollowRedirect, Outcome, SuccessMeansCarriedOut
  <1>7. CASE RefuseRedirect
    BY <1>1, <1>7 DEF RefuseRedirect
  <1>8. CASE TimeOut
    BY <1>1, <1>8 DEF TimeOut
  <1>9. CASE TransportError
    BY <1>1, <1>9 DEF TransportError
  <1>10. CASE Wake
    BY <1>10 DEF Wake, Outcome, SuccessMeansCarriedOut
  <1>11. CASE SleepCancelled
    BY <1>11, FailureOutcome DEF SleepCancelled, Return, Outcome, SuccessMeansCarriedOut
  <1>12. CASE Cancel
    BY <1>12 DEF Cancel, Outcome, SuccessMeansCarriedOut
  <1>13. CASE Server
    <2>1. PICK r \in wire, status \in Statuses, done \in BOOLEAN : Serve(r, status, done)
      BY <1>13 DEF Server
    <2>2. carried' \in Nat /\ carried' >= carried /\ (status < 300 => carried' > 0)
      BY <2>1 DEF Serve, TypeOK
    <2>3. reply' = reply \/ (reply'.status = status)
      BY <2>1 DEF Serve
    <2>4. result' = result
      BY <2>1 DEF Serve
    <2> QED
      BY <2>2, <2>3, <2>4 DEF Outcome, SuccessMeansCarriedOut, TypeOK
  <1>14. CASE UNCHANGED vars
    BY <1>14 DEF vars, Outcome, SuccessMeansCarriedOut
  <1> QED
    BY <1>2, <1>3, <1>4, <1>5, <1>6, <1>7, <1>8, <1>9, <1>10, <1>11, <1>12, <1>13, <1>14
    DEF Next, Client

\* A write keeps to its one attempt.
LEMMA OneAttemptStep ==
  ASSUME TypeOK, TellsWhenDone, OneAttemptOfAWrite, [Next]_vars
  PROVE  OneAttemptOfAWrite'
  <1> SUFFICES ASSUME method \notin Idempotent
               PROVE  OneAttemptOfAWrite'
    <2>1. method' = method
      BY DEF Next, Client, RefuseEndpoint, EnterLoop, Send, Receive, FollowRedirect,
             RefuseRedirect, TimeOut, TransportError, Wake, SleepCancelled, Cancel, Server,
             Serve, SendFailed, vars
    <2> QED
      BY <2>1 DEF OneAttemptOfAWrite
  <1> DEFINE Writes ==
        /\ pc # "sleep" /\ attempt = 0
        /\ wire \subseteq {<<0, hop>>}
        /\ carried = 0 \/ (carried = 1 /\ wire = {})
        /\ pc \in {"start", "send"} => wire = {} /\ carried = 0
        /\ reply # NoReply => wire = {}
        /\ reply # NoReply /\ reply.status \in 300..499 => carried = 0
        /\ Outcome = "rejected" => carried = 0 /\ wire = {}
  <1>0. Writes
    BY DEF OneAttemptOfAWrite
  <1> SUFFICES Writes'
    BY DEF OneAttemptOfAWrite
  <1>1. ASSUME NEW d, SendFailed(d)
        PROVE  Writes'
    BY <1>0, <1>1, SendFailedWrite
  <1>2. CASE RefuseEndpoint
    BY <1>0, <1>2 DEF RefuseEndpoint, Return
  <1>3. CASE EnterLoop
    BY <1>0, <1>3 DEF EnterLoop, Outcome
  <1>4. CASE Send
    <2>1. CASE ctxDone
      BY <1>1, <1>4, <2>1 DEF Send
    <2>2. CASE ~ctxDone
      <3>1. /\ pc = "send" /\ pc' = "await" /\ hop' = 0
            /\ wire' = wire \union {<<attempt, 0>>}
            /\ UNCHANGED <<method, attempt, reply, result, carried>>
        BY <1>4, <2>2 DEF Send
      <3>2. reply = NoReply /\ Outcome # "rejected"
        BY <3>1 DEF TellsWhenDone
      <3> QED
        BY <1>0, <3>1, <3>2 DEF Outcome
    <2> QED
      BY <2>1, <2>2
  <1>5. CASE Receive
    <2>1. /\ reply' = NoReply /\ UNCHANGED <<attempt, hop, wire, carried>>
          /\ reply \in Replies /\ reply # NoReply /\ reply.status \notin RedirectStatuses
      BY <1>5 DEF Receive, TypeOK
    <2>2. pc' = "done" /\ result' = DecodeResponse(reply)
      BY <1>5, WriteIsFinal DEF Receive, Return
    <2>3. Outcome' = "rejected" => reply.status \in 300..499
      BY <2>1, <2>2, DecodedOutcome DEF Outcome
    <2> QED
      BY <1>0, <2>1, <2>2, <2>3
  <1>6. CASE FollowRedirect
    <2>1. pc = "await" /\ reply.status \in RedirectStatuses
      BY <1>6 DEF FollowRedirect
    <2>2. reply # NoReply /\ reply.status \in 300..499 /\ Outcome # "rejected"
      BY <2>1 DEF NoReply, RedirectStatuses, TellsWhenDone
    <2> QED
      BY <1>0, <1>6, <2>2 DEF FollowRedirect, Outcome
  <1>7. CASE RefuseRedirect
    BY <1>1, <1>7 DEF RefuseRedirect
  <1>8. CASE TimeOut
    BY <1>1, <1>8 DEF TimeOut
  <1>9. CASE TransportError
    BY <1>1, <1>9 DEF TransportError
  <1>10. CASE Wake \/ SleepCancelled
    BY <1>0, <1>10 DEF Wake, SleepCancelled
  <1>11. CASE Cancel
    BY <1>0, <1>11 DEF Cancel, Outcome
  <1>12. CASE Server
    <2>1. PICK r \in wire, status \in Statuses, done \in BOOLEAN : Serve(r, status, done)
      BY <1>12 DEF Server
    <2>2. wire # {} /\ carried = 0 /\ wire' = {}
      BY <1>0, <2>1 DEF Serve
    <2>3. carried' \in {0, 1} /\ (status \in 300..499 => carried' = 0)
      BY <2>1, <2>2 DEF Serve
    <2>4. reply' = reply \/ reply'.status = status
      BY <2>1 DEF Serve
    <2>5. UNCHANGED <<pc, attempt, hop, result>>
      BY <2>1 DEF Serve
    <2> QED
      BY <1>0, <2>2, <2>3, <2>4, <2>5 DEF Outcome
  <1>13. CASE UNCHANGED vars
    BY <1>0, <1>13 DEF vars, Outcome
  <1> QED
    BY <1>2, <1>3, <1>4, <1>5, <1>6, <1>7, <1>8, <1>9, <1>10, <1>11, <1>12, <1>13
    DEF Next, Client

-----------------------------------------------------------------------------
(* Time.                                                                   *)

\* A round more is a timeout and a cap more, and later rounds end later.
LEMMA Rounds ==
  ASSUME NEW m, NEW a \in Nat, NEW b \in Nat, a <= b
  PROVE  /\ TimeOfRounds(m, a) \in Nat
         /\ TimeOfRounds(m, a) <= TimeOfRounds(m, b)
         /\ TimeOfRounds(m, a + 1) = TimeOfRounds(m, a) + AttemptTimeout(m) + RetryAfterCap
         /\ TimeOfRounds(m, 0) = 0
  <1> DEFINE k == AttemptTimeout(m) + RetryAfterCap
  <1>1. k \in Nat /\ AttemptTimeout(m) \in Nat /\ RetryAfterCap \in Nat
    BY TimeoutType, ApiClientAssumption
  <1>2. \A x, y, z \in Nat : x <= y => x * z \in Nat /\ x * z <= y * z
    OBVIOUS
  <1>3. \A x, z \in Nat : (x + 1) * z = x * z + z /\ 0 * z = 0
    OBVIOUS
  <1>4. TimeOfRounds(m, a) = a * k /\ TimeOfRounds(m, b) = b * k
        /\ TimeOfRounds(m, a + 1) = (a + 1) * k /\ TimeOfRounds(m, 0) = 0 * k
    BY DEF TimeOfRounds
  <1> HIDE DEF k
  <1>5. a * k \in Nat /\ a * k <= b * k
    BY <1>1, <1>2
  <1>6. (a + 1) * k = a * k + k /\ 0 * k = 0
    BY <1>1, <1>3
  <1>7. k = AttemptTimeout(m) + RetryAfterCap
    BY DEF k
  <1> QED
    BY <1>1, <1>4, <1>5, <1>6, <1>7

\* A failed attempt adds at most its timeout to the rounds before it.
LEMMA SendFailedTime ==
  ASSUME TypeOK, pc \in {"send", "await"}, TimeByRound,
         NEW d \in 0..AttemptTimeout(method), SendFailed(d)
  PROVE  TimeByRound'
  <1>1. /\ elapsed' = elapsed + d
        /\ UNCHANGED <<method, attempt>>
        /\ pc' \in {"sleep", "done"}
    BY DEF SendFailed, Return, SleepFor
  <1>2. elapsed <= TimeOfRounds(method, attempt)
    BY DEF TimeByRound
  <1>3. elapsed' <= TimeOfRounds(method, attempt) + AttemptTimeout(method)
    <2>1. attempt \in Nat /\ elapsed \in Nat /\ AttemptTimeout(method) \in Nat
      BY TimeoutType DEF TypeOK
    <2>2. TimeOfRounds(method, attempt) \in Nat
      BY <2>1, Rounds
    <2> QED
      BY <1>1, <1>2, <2>1, <2>2
  <1> QED
    BY <1>1, <1>3 DEF TimeByRound

\* Each step keeps the time within the rounds.
LEMMA TimeStep ==
  ASSUME TypeOK, RetryRemains, OneAttemptOfAWrite, TimeByRound, [Next]_vars
  PROVE  TimeByRound'
  <1> DEFINE T == AttemptTimeout(method)
             R == TimeOfRounds(method, attempt)
  <1>0. /\ T \in Nat /\ R \in Nat /\ elapsed \in Nat /\ attempt \in Nat
        /\ wait \in 0..RetryAfterCap /\ RetryAfterCap \in Nat
        /\ TimeOfRounds(method, attempt + 1) = R + T + RetryAfterCap
    BY TimeoutType, Rounds, ApiClientAssumption DEF TypeOK
  <1> HIDE DEF T, R
  <1>t. TimeByRound <=>
          /\ pc \in {"start", "send", "await"} => elapsed <= R
          /\ pc = "sleep" => elapsed <= R + T
          /\ pc = "done" =>
               \/ elapsed <= R + T
               \/ /\ attempt < MaxRetries /\ method \in Idempotent
                  /\ elapsed <= TimeOfRounds(method, attempt + 1)
    BY DEF TimeByRound, T, R
  <1>1. CASE RefuseEndpoint
    BY <1>0, <1>1, <1>t DEF RefuseEndpoint, Return, TimeByRound, T, R
  <1>2. CASE EnterLoop
    BY <1>2 DEF EnterLoop, TimeByRound
  <1>3. CASE Send
    <2>1. CASE ctxDone
      BY <1>0, <1>3, <2>1, SendFailedTime DEF Send, T
    <2>2. CASE ~ctxDone
      BY <1>3, <2>2 DEF Send, TimeByRound
    <2> QED
      BY <2>1, <2>2
  <1>4. CASE Receive
    <2>1. PICK d \in 0..T : elapsed' = elapsed + d
      BY <1>4 DEF Receive, T
    <2>2. pc = "await" /\ pc' \in {"sleep", "done"} /\ UNCHANGED <<method, attempt>>
      BY <1>4 DEF Receive, SleepFor, Return
    <2>3. elapsed' <= R + T
      BY <1>0, <1>t, <2>1, <2>2
    <2> QED
      BY <2>2, <2>3 DEF TimeByRound, T, R
  <1>5. CASE FollowRedirect
    BY <1>5 DEF FollowRedirect, TimeByRound
  <1>6. CASE RefuseRedirect
    BY <1>6, SendFailedTime DEF RefuseRedirect
  <1>7. CASE TransportError
    BY <1>7, SendFailedTime DEF TransportError
  <1>8. CASE TimeOut
    BY <1>0, <1>8, SendFailedTime DEF TimeOut, T
  <1>9. CASE Wake
    <2>1. /\ pc = "sleep" /\ pc' = "send" /\ attempt' = attempt + 1
          /\ elapsed' = elapsed + wait /\ method' = method
      BY <1>9 DEF Wake
    <2>2. elapsed' <= TimeOfRounds(method, attempt + 1)
      BY <1>0, <1>t, <2>1
    <2> QED
      BY <2>1, <2>2 DEF TimeByRound
  <1>10. CASE SleepCancelled
    <2>1. /\ pc = "sleep" /\ pc' = "done" /\ UNCHANGED <<method, attempt>>
          /\ method \in Idempotent /\ attempt < MaxRetries
      BY <1>10 DEF SleepCancelled, Return, OneAttemptOfAWrite, RetryRemains
    <2>2. PICK d \in 0..wait : elapsed' = elapsed + d
      BY <1>10 DEF SleepCancelled
    <2>3. elapsed' <= TimeOfRounds(method, attempt + 1)
      BY <1>0, <1>t, <2>1, <2>2
    <2> QED
      BY <2>1, <2>3 DEF TimeByRound
  <1>11. CASE Cancel
    BY <1>11 DEF Cancel, TimeByRound
  <1>12. CASE Server
    BY <1>12 DEF Server, Serve, TimeByRound
  <1>13. CASE UNCHANGED vars
    BY <1>13 DEF vars, TimeByRound
  <1> QED
    BY <1>1, <1>2, <1>3, <1>4, <1>5, <1>6, <1>7, <1>8, <1>9, <1>10, <1>11, <1>12, <1>13
    DEF Next, Client

-----------------------------------------------------------------------------
(* The inductive invariant and what follows from it.                       *)

IInv == /\ TypeOK
        /\ RetryRemains
        /\ TellsWhenDone
        /\ SuccessMeansCarriedOut
        /\ OneAttemptOfAWrite
        /\ TimeByRound

LEMMA InitIInv == ASSUME Init PROVE IInv
  <1>1. TypeOK /\ RetryRemains
    <2>1. NoResult \in Results
      BY DEF NoResult, Res, Results, Kinds, Codes
    <2>2. 0 \in 0..MaxRetries /\ 0 \in 0..RetryAfterCap
      BY ApiClientAssumption
    <2>3. /\ method \in Methods /\ pc = "start" /\ attempt = 0 /\ hop = 0
          /\ reply = NoReply /\ wait = 0 /\ elapsed = 0 /\ result = NoResult
          /\ ctxDone = FALSE /\ wire = {} /\ carried = 0
      BY DEF Init
    <2> QED
      BY <2>1, <2>2, <2>3 DEF TypeOK, RetryRemains
  <1>2. Outcome = "pending"
    BY DEF Init, NoResult, Res, Outcome, OutcomeOf
  <1>3. TellsWhenDone /\ SuccessMeansCarriedOut /\ OneAttemptOfAWrite
    BY <1>2 DEF Init, TellsWhenDone, SuccessMeansCarriedOut, OneAttemptOfAWrite
  <1>4. TimeByRound
    BY Rounds DEF Init, TimeByRound
  <1> QED
    BY <1>1, <1>3, <1>4 DEF IInv

\* The inductive invariant holds in every state of every call.
THEOREM Invariance == SafeSpec => []IInv
  <1>1. Init => IInv
    BY InitIInv
  <1>2. IInv /\ [Next]_vars => IInv'
    BY TypeStep, TellsStep, SuccessStep, OneAttemptStep, TimeStep DEF IInv
  <1> QED
    BY <1>1, <1>2, PTL DEF SafeSpec

\* A call is well typed: its attempts stay within the retries and its waits within the
\* cap, whatever Retry-After says (classifyAttempt, do).
THEOREM TypeCorrect == SafeSpec => []TypeOK
  <1>1. IInv => TypeOK
    BY DEF IInv
  <1> QED
    BY <1>1, Invariance, PTL

\* A write, a create above all, is carried out at most once, for any retry limit and any
\* statuses and headers the server answers with.
THEOREM WriteOnce == SafeSpec => []WriteAtMostOnce
  <1>1. IInv => WriteAtMostOnce
    BY DEF IInv, OneAttemptOfAWrite, WriteAtMostOnce
  <1> QED
    BY <1>1, Invariance, PTL

\* A write the command is told was rejected is not carried out, then or later.
THEOREM RejectedUndone == SafeSpec => []RejectedWriteStaysUndone
  <1>1. IInv => RejectedWriteStaysUndone
    BY DEF IInv, OneAttemptOfAWrite, RejectedWriteStaysUndone
  <1> QED
    BY <1>1, Invariance, PTL

\* A call takes no longer than its budget: the timeouts of its attempts and the capped
\* waits between them, or a single timeout for a write.
THEOREM WithinBudget == SafeSpec => []CallWithinBudget
  <1>1. IInv => CallWithinBudget
    <2> SUFFICES ASSUME IInv PROVE CallWithinBudget
      OBVIOUS
    <2> DEFINE T == AttemptTimeout(method)
               M == TimeOfRounds(method, MaxRetries)
    <2>1. /\ T \in Nat /\ RetryAfterCap \in Nat /\ MaxRetries \in Nat
          /\ attempt \in 0..MaxRetries /\ elapsed \in Nat
      BY TimeoutType, ApiClientAssumption DEF IInv, TypeOK
    <2>2. CASE method \in Idempotent
      <3>1. /\ TimeOfRounds(method, attempt) \in Nat /\ M \in Nat
            /\ TimeOfRounds(method, attempt) <= M
            /\ attempt < MaxRetries => TimeOfRounds(method, attempt + 1) <= M
        BY <2>1, Rounds
      <3>2. (MaxRetries + 1) * T + MaxRetries * RetryAfterCap = M + T
        <4>1. \A x, y, z \in Nat : (x + 1) * y + x * z = x * (y + z) + y
          OBVIOUS
        <4> QED
          BY <2>1, <4>1 DEF TimeOfRounds
      <3>3. elapsed <= M + T
        <4> HIDE DEF T, M
        <4>1. \/ elapsed <= TimeOfRounds(method, attempt)
              \/ elapsed <= TimeOfRounds(method, attempt) + T
              \/ attempt < MaxRetries /\ elapsed <= TimeOfRounds(method, attempt + 1)
          BY DEF IInv, TimeByRound, TypeOK, T
        <4>2. attempt < MaxRetries =>
                TimeOfRounds(method, attempt + 1) \in Nat
          BY <2>1, Rounds
        <4> QED
          BY <2>1, <3>1, <4>1, <4>2
      <3> QED
        BY <2>2, <3>2, <3>3 DEF CallWithinBudget, CallBudget
    <2>3. CASE method \notin Idempotent
      <3>1. attempt = 0 /\ pc # "sleep" /\ TimeOfRounds(method, 0) = 0
        BY <2>3, Rounds DEF IInv, OneAttemptOfAWrite
      <3>2. elapsed <= TimeOfRounds(method, 0) \/ elapsed <= TimeOfRounds(method, 0) + T
        BY <2>3, <3>1 DEF IInv, TimeByRound, TypeOK
      <3> HIDE DEF T
      <3>3. elapsed <= T
        BY <2>1, <3>1, <3>2
      <3> QED
        BY <2>3, <3>3 DEF CallWithinBudget, CallBudget, T
    <2> QED
      BY <2>2, <2>3
  <1> QED
    BY <1>1, Invariance, PTL

\* Every step of the retry loop is a step of the abstract call or leaves it alone.
THEOREM ImplementsCallSafely == SafeSpec => CallSafeSpec
  <1>1. Init => Call!Init
    <2> SUFFICES ASSUME Init PROVE Call!Init
      OBVIOUS
    <2>1. Outcome = "pending"
      BY DEF Init, NoResult, Res, Outcome, OutcomeOf
    <2> QED
      BY <2>1 DEF Init, Call!Init
  <1>2. IInv /\ IInv' /\ [Next]_vars => [Call!Next]_(Call!vars)
    <2> SUFFICES ASSUME IInv, IInv', [Next]_vars
                 PROVE  Call!Next \/ UNCHANGED <<method, Outcome, carried>>
      BY DEF Call!vars
    <2>1. CASE Server
      <3>1. PICK r \in wire, status \in Statuses, done \in BOOLEAN : Serve(r, status, done)
        BY <2>1 DEF Server
      <3>2. method' = method /\ Outcome' = Outcome
            /\ (carried' = carried \/ carried' = carried + 1)
        BY <3>1 DEF Serve, Outcome
      <3>3. method \notin Idempotent => carried = 0 /\ Outcome # "rejected"
        BY DEF IInv, OneAttemptOfAWrite
      <3> QED
        BY <3>2, <3>3 DEF IInv, TypeOK, Call!Next, Call!CarryOut
    <2>2. CASE pc # "done" /\ UNCHANGED <<method, carried>>
      <3>1. Outcome = "pending"
        BY <2>2 DEF IInv, TellsWhenDone
      <3>2. Outcome' \in {"pending", "ok", "rejected", "unknown"}
        BY DEF Outcome, OutcomeOf
      <3>3. /\ Outcome' = "ok" => carried > 0
            /\ Outcome' = "rejected" /\ method \notin Idempotent => carried = 0
        BY <2>2 DEF IInv, SuccessMeansCarriedOut, OneAttemptOfAWrite
      <3> QED
        BY <2>2, <3>1, <3>2, <3>3 DEF IInv, TypeOK, Call!Next, Call!Return, Call!Outcomes
    <2>3. CASE UNCHANGED vars
      BY <2>3 DEF vars, Outcome
    <2>4. Server \/ (pc # "done" /\ UNCHANGED <<method, carried>>) \/ UNCHANGED vars
      BY DEF Next, Client, RefuseEndpoint, EnterLoop, Send, Receive, FollowRedirect,
             RefuseRedirect, TimeOut, TransportError, Wake, SleepCancelled, Cancel,
             SendFailed
    <2> QED
      BY <2>1, <2>2, <2>3, <2>4
  <1> QED
    BY <1>1, <1>2, Invariance, PTL DEF SafeSpec, CallSafeSpec, Call!SafeSpec

=============================================================================
