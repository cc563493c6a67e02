--------------------------- MODULE ProvisionProofs ---------------------------
(***************************************************************************)
(* For every set of statuses and lifecycle of the cloud, every --timeout   *)
(* and however long calls and pauses take: what `cluster create` says of   *)
(* the cluster is true, its wait ends in time, and the key is not spent.   *)
(***************************************************************************)
EXTENDS Provision, TLAPS

-----------------------------------------------------------------------------
(* The inductive invariant.                                                *)

Before == {"token", "create"}             \* the POST has not returned
Polling == {"poll", "status", "tick"}     \* pollUntilReady
Waiting == Polling \union {"get"}         \* after the POST, with --wait

\* A status after which the poll goes on.
GoesOn(s) == s = NoStatus \/ ClassifyStatus(s) \in {"polling", "unrecognized"}

\* What has happened when the command is at a step, and what has not.
StepInOrder ==
  /\ IF pc = "done" THEN result.kind # "none" ELSE result = NoResult
  /\ pc = "token" => ~sent
  /\ pc \in Before => post = "pending" /\ lastStatus = NoStatus /\ left = 0
  /\ pc \in Waiting => doWait
  /\ pc \in Waiting \union {"print"} => post = "ok"
  /\ pc \in Before \union Polling => keyFresh
  /\ pc \in Polling => GoesOn(lastStatus)
  /\ pc = "get" => lastStatus = "READY"

\* A GET that failed may still be served when the command is over.
LateGet == result.cause = "get" => doWait /\ lastStatus = "READY"

\* Where the deadline has been looked at, and what was spent since.
Spent == /\ pc = "status" => left >= 0
         /\ pc \in {"tick", "get"} => left >= -ReadBudget

\* The outcome of the POST tells the truth about it, and so does the end of the command.
PostIsTrue == /\ post = "ok" => clusters = 1
              /\ post = "rejected" => clusters = 0
              /\ ~sent => clusters = 0

EndIsTrue == /\ Told = "ok" => post = "ok"
             /\ Told = "rejected" => clusters = 0 /\ (post = "rejected" \/ ~sent)

IInv == /\ TypeOK /\ CreatedClusterIsNamed /\ KeySpentOnlyAtReady /\ OverrunIsBounded
        /\ StillProvisioningIsTrue
        /\ StepInOrder /\ LateGet /\ Spent /\ PostIsTrue /\ EndIsTrue

-----------------------------------------------------------------------------
(* Values.                                                                 *)

\* What there is before a read and before the end.
LEMMA NothingYet ==
  /\ NothingSeen \in Snapshots
  /\ NoResult \in Results /\ NoResult.kind = "none" /\ NoResult.cause = "none"
  /\ NoResult.details = {}
  BY DEF NothingSeen, NoResult, Snapshots, Results, Causes

\* The codes that the cloud and the client fail with are codes.
LEMMA CodesCoded == /\ {"validation_failed", "auth_required", "internal_error"} \subseteq Codes
                    /\ RefusalCodes \subseteq Codes /\ ServerFailureCodes \subseteq Codes
                    /\ Uncoded \notin Codes
  BY DEF Codes, RefusalCodes, ServerFailureCodes, Uncoded

\* The codes that say nothing of the create, and so does no code at all.
LEMMA Exits == /\ ExitForCode("internal_error") = GenericError
               /\ ExitForCode("service_unavailable") = ServiceUnavailable
               /\ ExitForCode(Uncoded) = GenericError
  BY DEF ExitForCode, Uncoded

\* A failure carries what it is made of.
LEMMA FailureIs ==
  ASSUME NEW c \in Causes, NEW code \in Codes \union {Uncoded}, NEW details \in SUBSET Details
  PROVE  /\ Failure(c, code, details) \in Results
         /\ Failure(c, code, details).kind = "failed"
         /\ Failure(c, code, details).cause = c
         /\ Failure(c, code, details).code = code
         /\ Failure(c, code, details).details = details
  BY NothingYet DEF Failure, Results

\* A failure of the wait names the cluster besides.
LEMMA WaitFailureIs ==
  ASSUME NEW c \in Causes, NEW code \in Codes \union {Uncoded}, NEW details \in SUBSET Details
  PROVE  /\ WaitFailure(c, code, details) \in Results
         /\ WaitFailure(c, code, details).kind = "failed"
         /\ WaitFailure(c, code, details).cause = c
         /\ WaitFailure(c, code, details).details = details \union {"cluster_id"}
  <1>1. CodeOr(code) \in Codes \union {Uncoded}
    BY CodesCoded DEF CodeOr
  <1>2. details \union {"cluster_id"} \in SUBSET Details
    BY DEF Details
  <1>3. QED
    BY <1>1, <1>2, FailureIs DEF WaitFailure

\* The longest overrun covers a poll or a GET after the last one that was in time, and a pause.
LEMMA OverrunIs ==
  /\ Longer(ReadBudget, TickInterval) \in Int
  /\ Longer(ReadBudget, TickInterval) >= ReadBudget
  /\ Longer(ReadBudget, TickInterval) >= TickInterval
  /\ ReadBudget \in Nat /\ TickInterval \in Nat
  BY ProvisionAssumption DEF Longer

\* How the guide reads r when the POST's outcome is p: true, and never a refusal of a request
\* that may still be carried out.
EndsTruly(r, p) ==
  \/ r.kind = "killed"
  \/ r.kind = "printed" /\ p = "ok"
  \/ r.kind = "failed" /\ "cluster_id" \in r.details /\ p = "ok"
  \/ /\ r.kind = "failed" /\ "cluster_id" \notin r.details
     /\ \/ r.code \in {"internal_error", "service_unavailable", Uncoded}
        \/ clusters = 0 /\ (p = "rejected" \/ ~sent)

-----------------------------------------------------------------------------
(* The steps.                                                              *)

\* At the start nothing is sent and nothing told.
LEMMA InitIInv == Init => IInv
  <1> SUFFICES ASSUME Init PROVE IInv
    OBVIOUS
  <1>1. result = NoResult /\ post = "pending" /\ clusters = 0 /\ keyFresh = TRUE
    BY DEF Init, Post!Init
  <1>2. TypeOK
    <2>1. post \in Post!Outcomes /\ clusters \in {0, 1}
      BY <1>1 DEF Post!Outcomes
    <2>2. /\ doWait \in BOOLEAN /\ timeoutGiven \in BOOLEAN /\ ctxDone \in BOOLEAN
          /\ sent \in BOOLEAN /\ keyFresh \in BOOLEAN
      BY <1>1 DEF Init
    <2>3. QED
      BY <2>1, <2>2, NothingYet DEF Init, TypeOK
  <1>3. CreatedClusterIsNamed /\ KeySpentOnlyAtReady /\ StillProvisioningIsTrue /\ LateGet
    BY <1>1, NothingYet
       DEF CreatedClusterIsNamed, KeySpentOnlyAtReady, StillProvisioningIsTrue, LateGet
  <1>4. OverrunIsBounded /\ Spent
    BY OverrunIs DEF Init, OverrunIsBounded, Spent
  <1>5. StepInOrder
    BY <1>1 DEF Init, StepInOrder, Before, Waiting, Polling
  <1>6. PostIsTrue
    BY <1>1 DEF PostIsTrue
  <1>7. EndIsTrue
    BY <1>1, NothingYet DEF EndIsTrue, Told
  <1>8. QED
    BY <1>2, <1>3, <1>4, <1>5, <1>6, <1>7 DEF IInv

\* A step on which the command goes on: there is nothing yet to be wrong about.
LEMMA GoOn ==
  ASSUME IInv, pc # "done", UNCHANGED result
  PROVE  (CreatedClusterIsNamed /\ StillProvisioningIsTrue /\ LateGet /\ EndIsTrue)'
  <1>1. result = NoResult
    BY DEF IInv, StepInOrder
  <1>2. QED
    BY <1>1, NothingYet
       DEF CreatedClusterIsNamed, StillProvisioningIsTrue, LateGet, EndIsTrue, Told

\* The command ends.
LEMMA EndKeeps ==
  ASSUME IInv, NEW r \in Results, r.kind # "none", End(r),
         UNCHANGED <<flags, ctxDone, sent, server>>,
         left' \in Int, lastStatus' \in ClusterStatuses \union {NoStatus},
         seen' \in Snapshots, post' \in Post!Outcomes, OverrunIsBounded',
         post' = "ok" => clusters = 1, post' = "rejected" => clusters = 0,
         ~keyFresh => lastStatus' = lastStatus,
         "still_provisioning" \in r.details => GoesOn(lastStatus'),
         r.cause = "get" => doWait /\ lastStatus' = "READY",
         post' = "ok" /\ r.kind = "failed" /\ r.cause # "output" => "cluster_id" \in r.details,
         EndsTruly(r, post')
  PROVE  IInv'
  <1>1. pc' = "done" /\ result' = r
    BY DEF End
  <1>2. UNCHANGED <<doWait, timeoutGiven, timeout, ctxDone, sent, clusters, cloud, keyFresh>>
    BY DEF flags, server
  <1>3. TypeOK'
    BY <1>1, <1>2 DEF IInv, TypeOK
  <1>4. (CreatedClusterIsNamed /\ KeySpentOnlyAtReady /\ StillProvisioningIsTrue /\ LateGet)'
    BY <1>1, <1>2 DEF IInv, CreatedClusterIsNamed, KeySpentOnlyAtReady, StillProvisioningIsTrue,
       LateGet, GoesOn
  <1>5. (StepInOrder /\ Spent)'
    BY <1>1 DEF StepInOrder, Spent, Before, Waiting, Polling
  <1>6. PostIsTrue'
    BY <1>2 DEF IInv, PostIsTrue
  <1>7. EndIsTrue'
    <2>1. CASE r.kind = "killed"
      BY <1>1, <2>1 DEF EndIsTrue, Told
    <2>2. CASE r.kind = "printed" /\ post' = "ok"
      BY <1>1, <2>2 DEF EndIsTrue, Told
    <2>3. CASE r.kind = "failed" /\ "cluster_id" \in r.details /\ post' = "ok"
      BY <1>1, <2>3 DEF EndIsTrue, Told
    <2>4. CASE /\ r.kind = "failed" /\ "cluster_id" \notin r.details
               /\ r.code \in {"internal_error", "service_unavailable", Uncoded}
      <3>1. ExitCode' \in {GenericError, ServiceUnavailable}
        BY <1>1, <2>4, Exits DEF ExitCode
      <3>2. QED
        BY <1>1, <2>4, <3>1 DEF EndIsTrue, Told
    <2>5. CASE /\ r.kind = "failed" /\ "cluster_id" \notin r.details
               /\ clusters = 0 /\ (post' = "rejected" \/ ~sent)
      <3>1. Told' \in {"unknown", "rejected"}
        BY <1>1, <2>5 DEF Told
      <3>2. QED
        BY <1>2, <2>5, <3>1 DEF EndIsTrue
    <2>6. QED
      BY <2>1, <2>2, <2>3, <2>4, <2>5 DEF EndsTruly
  <1>8. QED
    BY <1>3, <1>4, <1>5, <1>6, <1>7 DEF IInv

\* Before the POST has left, no failure can be of a cluster.
LEMMA TokenStep ==
  ASSUME IInv, RefuseFlags \/ TokenFails \/ SendCreate
  PROVE  IInv'
  <1>1. /\ pc = "token" /\ ~sent /\ post = "pending" /\ clusters = 0 /\ keyFresh
        /\ result = NoResult
    BY DEF RefuseFlags, TokenFails, SendCreate, IInv, StepInOrder, Before, PostIsTrue
  <1>2. CASE RefuseFlags \/ TokenFails
    <2>1. PICK code \in Codes \union {Uncoded} : End(Failure("token", code, {}))
      BY <1>2, CodesCoded DEF RefuseFlags, TokenFails
    <2>2. UNCHANGED <<flags, ctxDone, left, lastStatus, seen, sent, post, server>>
      BY <1>2 DEF RefuseFlags, TokenFails
    <2> DEFINE r == Failure("token", code, {})
    <2>3. /\ r \in Results /\ r.kind = "failed" /\ r.cause = "token" /\ r.details = {}
      BY FailureIs DEF Causes
    <2>4. EndsTruly(r, post')
      BY <1>1, <2>2, <2>3 DEF EndsTruly
    <2> HIDE DEF r
    <2>5. OverrunIsBounded'
      BY <2>2 DEF IInv, OverrunIsBounded, flags
    <2>6. QED
      BY <1>1, <2>1, <2>2, <2>3, <2>4, <2>5, EndKeeps DEF IInv, TypeOK, r
  <1>3. CASE SendCreate
    <2>1. /\ pc' = "create" /\ sent' \in BOOLEAN
          /\ UNCHANGED <<doWait, timeoutGiven, timeout, ctxDone, left, lastStatus, seen, result,
                         post, clusters, cloud, keyFresh>>
      BY <1>3 DEF SendCreate, flags, server, IInv, TypeOK
    <2>2. TypeOK'
      BY <2>1 DEF IInv, TypeOK
    <2>3. (KeySpentOnlyAtReady /\ OverrunIsBounded /\ Spent)'
      BY <2>1 DEF IInv, KeySpentOnlyAtReady, OverrunIsBounded, Spent
    <2>4. StepInOrder'
      BY <1>1, <2>1 DEF IInv, StepInOrder, Before, Waiting, Polling
    <2>5. PostIsTrue'
      BY <1>1, <2>1 DEF PostIsTrue
    <2>6. QED
      BY <1>1, <2>1, <2>2, <2>3, <2>4, <2>5, GoOn DEF IInv
  <1>4. QED
    BY <1>2, <1>3

\* The POST returned a cluster.
LEMMA CreatedStep ==
  ASSUME IInv, Created
  PROVE  IInv'
  <1>1. /\ pc = "create" /\ post = "pending" /\ clusters = 1 /\ keyFresh /\ lastStatus = NoStatus
        /\ left = 0 /\ result = NoResult
    BY DEF Created, Post!Return, IInv, TypeOK, StepInOrder, Before, Waiting, Polling
  <1>2. /\ post' = "ok"
        /\ UNCHANGED <<doWait, timeoutGiven, timeout, ctxDone, lastStatus, seen, result, sent,
                       clusters, cloud, keyFresh>>
    BY DEF Created, Post!Return, flags
  <1>3. \/ doWait /\ pc' = "poll" /\ left' = IF timeout = 0 THEN DefaultTimeout ELSE timeout
        \/ ~doWait /\ pc' = "print" /\ left' = left
    BY DEF Created
  <1>4. TypeOK'
    BY <1>2, <1>3, ProvisionAssumption DEF IInv, TypeOK, Post!Outcomes
  <1>5. OverrunIsBounded'
    BY <1>1, <1>2, <1>3, OverrunIs, ProvisionAssumption DEF OverrunIsBounded
  <1>6. (KeySpentOnlyAtReady /\ Spent)'
    BY <1>1, <1>2, <1>3 DEF KeySpentOnlyAtReady, Spent
  <1>7. StepInOrder'
    BY <1>1, <1>2, <1>3 DEF IInv, StepInOrder, Before, Waiting, Polling, GoesOn
  <1>8. PostIsTrue'
    BY <1>1, <1>2 DEF IInv, PostIsTrue
  <1>9. QED
    BY <1>1, <1>2, <1>4, <1>5, <1>6, <1>7, <1>8, GoOn DEF IInv

\* The POST did not.
LEMMA NotCreatedStep ==
  ASSUME IInv, CreateAnswered \/ CreateUnanswered
  PROVE  IInv'
  <1>1. /\ pc = "create" /\ keyFresh
        /\ UNCHANGED <<flags, ctxDone, left, lastStatus, seen, sent, server>>
    BY DEF CreateAnswered, CreateUnanswered, Post!Return, IInv, StepInOrder, Before, server
  <1>2. PICK c \in Causes \ {"get", "output"}, code \in Codes,
             details \in SUBSET {"idempotency_key", "cluster_may_exist", "failure_stage"} :
          /\ End(Failure(c, code, details))
          /\ \/ post' = "rejected" /\ clusters = 0
             \/ post' = "unknown" /\ code \in ServerFailureCodes
    <2>1. CASE CreateAnswered
      <3>1. CASE /\ Post!Return("rejected")
                 /\ \E code \in RefusalCodes : End(CreateFailure("answer", code, {}))
        <4>1. PICK code \in RefusalCodes : End(CreateFailure("answer", code, {}))
          BY <3>1
        <4>2. End(Failure("answer", code, {})) /\ code \in Codes
          BY <4>1, CodesCoded DEF CreateFailure
        <4>3. post' = "rejected" /\ clusters = 0
          BY <3>1 DEF Post!Return
        <4>4. QED
          BY <4>2, <4>3 DEF Causes
      <3>2. CASE /\ Post!Return("unknown")
                 /\ \E code \in ServerFailureCodes : End(CreateFailure("answer", code, {}))
        <4>1. PICK code \in ServerFailureCodes : End(CreateFailure("answer", code, {}))
          BY <3>2
        <4>2. End(Failure("answer", code, {})) /\ code \in Codes
          BY <4>1, CodesCoded DEF CreateFailure
        <4>3. post' = "unknown"
          BY <3>2 DEF Post!Return
        <4>4. QED
          BY <4>2, <4>3 DEF Causes
      <3>3. QED
        BY <2>1, <3>1, <3>2 DEF CreateAnswered
    <2>2. CASE CreateUnanswered
      <3>1. PICK c \in {"noresponse", "cancelled", "unreadable"},
                 details \in SUBSET {"idempotency_key", "cluster_may_exist", "failure_stage"} :
              End(Failure(c, "internal_error", details))
        BY <2>2, CodesCoded DEF CreateUnanswered, CreateFailure
      <3>2. post' = "unknown"
        BY <2>2 DEF CreateUnanswered, Post!Return
      <3>3. QED
        BY <3>1, <3>2, CodesCoded DEF Causes, ServerFailureCodes
    <2>3. QED
      BY <2>1, <2>2
  <1> DEFINE r == Failure(c, code, details)
  <1>3. /\ r \in Results /\ r.kind = "failed" /\ r.cause = c /\ r.code = code
        /\ r.details = details
    BY FailureIs DEF Details
  <1>4. EndsTruly(r, post')
    BY <1>2, <1>3 DEF EndsTruly, ServerFailureCodes
  <1> HIDE DEF r
  <1>5. "still_provisioning" \notin r.details
    BY <1>2, <1>3
  <1>6. OverrunIsBounded' /\ post' \in Post!Outcomes
    BY <1>1, <1>2 DEF IInv, OverrunIsBounded, flags, Post!Outcomes
  <1>7. QED
    BY <1>1, <1>2, <1>3, <1>4, <1>5, <1>6, EndKeeps DEF IInv, TypeOK, r

\* Every failure of the wait names the cluster, whose creation was confirmed.
LEMMA WaitEnds ==
  ASSUME IInv, pc \in Waiting,
         NEW c \in Causes \ {"output"}, NEW code \in Codes \union {Uncoded},
         NEW details \in SUBSET Details, End(WaitFailure(c, code, details)),
         UNCHANGED <<flags, ctxDone, sent, post, server>>,
         left' \in Int, lastStatus' \in ClusterStatuses \union {NoStatus}, seen' \in Snapshots,
         OverrunIsBounded',
         pc = "get" => lastStatus' = lastStatus,
         "still_provisioning" \in details => GoesOn(lastStatus'),
         c = "get" => pc = "get"
  PROVE  IInv'
  <1> DEFINE r == WaitFailure(c, code, details)
  <1>1. /\ r \in Results /\ r.kind = "failed" /\ r.cause = c
        /\ r.details = details \union {"cluster_id"}
    BY WaitFailureIs
  <1>2. post = "ok" /\ clusters = 1 /\ doWait /\ post \in Post!Outcomes
        /\ (pc = "get" => lastStatus = "READY") /\ (pc # "get" => keyFresh)
    BY DEF IInv, TypeOK, StepInOrder, Waiting, PostIsTrue
  <1>3. EndsTruly(r, post')
    BY <1>1, <1>2 DEF EndsTruly
  <1> HIDE DEF r
  <1>4. QED
    BY <1>1, <1>2, <1>3, EndKeeps DEF r

\* The details of a failed read do not say that the cluster still comes up.
LEMMA DetailsAre ==
  /\ ProvisioningDetails \in SUBSET Details
  /\ TimeoutDetails \in SUBSET Details
  /\ GetFailureDetails \in SUBSET Details /\ "still_provisioning" \notin GetFailureDetails
  BY DEF ProvisioningDetails, TimeoutDetails, GetFailureDetails, Details

\* A poll, or the end of the wait in its place.
LEMMA PollStep ==
  ASSUME IInv, PollTimedOut \/ PollCancelled \/ Poll
  PROVE  IInv'
  <1>1. pc = "poll" /\ GoesOn(lastStatus)
    BY DEF PollTimedOut, PollCancelled, Poll, IInv, StepInOrder, Polling
  <1>2. CASE PollTimedOut \/ PollCancelled
    <2>1. UNCHANGED <<flags, ctxDone, left, lastStatus, seen, sent, post, server>>
      BY <1>2 DEF PollTimedOut, PollCancelled
    <2>2. OverrunIsBounded'
      BY <2>1 DEF IInv, OverrunIsBounded, flags
    <2>3. PICK c \in {"timeout", "cancelled"}, details \in SUBSET Details :
            End(WaitFailure(c, Uncoded, details))
      BY <1>2, DetailsAre DEF PollTimedOut, PollCancelled
    <2>4. QED
      BY <1>1, <2>1, <2>2, <2>3, WaitEnds DEF IInv, TypeOK, Waiting, Polling, Causes
  <1>3. CASE Poll
    <2>1. /\ pc' = "status" /\ ~(left < 0) /\ seen' = NothingSeen
          /\ UNCHANGED <<doWait, timeoutGiven, timeout, ctxDone, left, lastStatus, result, sent,
                         post, clusters, cloud, keyFresh>>
      BY <1>3 DEF Poll, DeadlinePassed, flags, server
    <2>2. TypeOK'
      BY <2>1, NothingYet DEF IInv, TypeOK
    <2>3. (KeySpentOnlyAtReady /\ OverrunIsBounded /\ PostIsTrue)'
      BY <2>1 DEF IInv, KeySpentOnlyAtReady, OverrunIsBounded, PostIsTrue
    <2>4. Spent'
      BY <2>1 DEF IInv, TypeOK, Spent
    <2>5. StepInOrder'
      BY <1>1, <2>1 DEF IInv, StepInOrder, Before, Waiting, Polling
    <2>6. QED
      BY <1>1, <2>1, <2>2, <2>3, <2>4, <2>5, GoOn DEF IInv
  <1>4. QED
    BY <1>2, <1>3

\* A poll started in time ends within its budget, and decides on the status it was served.
LEMMA StatusStep ==
  ASSUME IInv, StatusRead \/ StatusFailed
  PROVE  IInv'
  <1>1. pc = "status" /\ left >= 0 /\ left \in Int /\ keyFresh /\ GoesOn(lastStatus)
    BY DEF StatusRead, StatusFailed, IInv, TypeOK, StepInOrder, Spent, Before, Polling
  <1>2. PICK d \in 0..ReadBudget : left' = left - d
    BY DEF StatusRead, StatusFailed
  <1>3. left' \in Int /\ left' >= -ReadBudget
    BY <1>1, <1>2, OverrunIs
  <1>4. OverrunIsBounded'
    BY <1>3, OverrunIs DEF OverrunIsBounded
  <1>5. UNCHANGED <<flags, ctxDone, sent, post, server>>
    BY DEF StatusRead, StatusFailed
  <1>6. CASE StatusFailed
    <2>1. PICK code \in Codes \union {Uncoded} :
            End(WaitFailure("status", code, ProvisioningDetails))
      BY <1>6 DEF StatusFailed
    <2>2. UNCHANGED <<lastStatus, seen>>
      BY <1>6 DEF StatusFailed
    <2>3. QED
      BY <1>1, <1>3, <1>4, <1>5, <2>1, <2>2, WaitEnds, DetailsAre
         DEF IInv, TypeOK, Waiting, Polling, Causes
  <1>7. CASE StatusRead
    <2>1. /\ lastStatus' = seen.status /\ seen' = NothingSeen
          /\ seen.status \in ClusterStatuses \union {NoStatus}
      BY <1>7 DEF StatusRead, IInv, TypeOK, Snapshots
    <2>2. CASE /\ ClassifyStatus(seen.status) = "terminal"
               /\ End(WaitFailure("terminal", Uncoded, {"terminal_status"}))
      <3>1. {"terminal_status"} \in SUBSET Details /\ "terminal" \in Causes \ {"output", "get"}
        BY DEF Details, Causes
      <3>2. QED
        BY <1>1, <1>3, <1>4, <1>5, <2>1, <2>2, <3>1, WaitEnds, NothingYet DEF Waiting, Polling
    <2>3. CASE /\ pc' \in {"get", "tick"} /\ UNCHANGED result
               /\ pc' = "get" => seen.status = "READY"
               /\ pc' = "tick" => ClassifyStatus(seen.status) \in {"polling", "unrecognized"}
      <3>1. UNCHANGED <<doWait, timeoutGiven, timeout, ctxDone, sent, post, clusters, cloud,
                        keyFresh>>
        BY <1>5 DEF flags, server
      <3>2. TypeOK'
        BY <1>3, <2>1, <2>3, <3>1, NothingYet DEF IInv, TypeOK
      <3>3. (KeySpentOnlyAtReady /\ PostIsTrue)'
        BY <1>1, <3>1 DEF IInv, KeySpentOnlyAtReady, PostIsTrue
      <3>4. Spent'
        BY <1>3, <2>3 DEF Spent
      <3>5. StepInOrder'
        BY <1>1, <2>1, <2>3, <3>1 DEF IInv, StepInOrder, Before, Waiting, Polling, GoesOn
      <3>6. QED
        BY <1>1, <1>4, <2>3, <3>2, <3>3, <3>4, <3>5, GoOn DEF IInv
    <2>4. QED
      <3>1. ClassifyStatus(seen.status) \in {"ready", "polling", "terminal", "unrecognized"}
            /\ (ClassifyStatus(seen.status) = "ready" => seen.status = "READY")
        BY DEF ClassifyStatus
      <3>2. QED
        BY <1>7, <2>2, <2>3, <3>1 DEF StatusRead
  <1>8. QED
    BY <1>6, <1>7

\* The pause between two polls, or a cancellation in it.
LEMMA TickStep ==
  ASSUME IInv, Tick \/ TickCancelled
  PROVE  IInv'
  <1>1. /\ pc = "tick" /\ left \in Int /\ left >= -ReadBudget /\ GoesOn(lastStatus)
        /\ UNCHANGED <<flags, ctxDone, lastStatus, seen, sent, post, server>>
    BY DEF Tick, TickCancelled, IInv, TypeOK, StepInOrder, Spent, Polling
  <1>2. left' \in Int /\ left' >= -(ReadBudget + TickInterval)
    <2>1. \E d \in 0..TickInterval : left' = left - d
      BY OverrunIs DEF Tick, TickCancelled
    <2>2. QED
      BY <1>1, <2>1, OverrunIs
  <1>3. OverrunIsBounded'
    BY <1>2, OverrunIs DEF OverrunIsBounded
  <1>4. CASE TickCancelled
    <2>1. End(WaitFailure("cancelled", Uncoded, ProvisioningDetails))
      BY <1>4 DEF TickCancelled
    <2>2. QED
      BY <1>1, <1>2, <1>3, <2>1, WaitEnds, DetailsAre DEF IInv, TypeOK, Waiting, Polling, Causes
  <1>5. CASE Tick
    <2>1. /\ pc' = "poll"
          /\ UNCHANGED <<doWait, timeoutGiven, timeout, ctxDone, lastStatus, seen, result, sent,
                         post, clusters, cloud, keyFresh>>
      BY <1>5 DEF Tick, flags, server
    <2>2. TypeOK'
      BY <1>2, <2>1 DEF IInv, TypeOK
    <2>3. (KeySpentOnlyAtReady /\ PostIsTrue /\ Spent)'
      BY <2>1 DEF IInv, KeySpentOnlyAtReady, PostIsTrue, Spent
    <2>4. StepInOrder'
      BY <1>1, <2>1 DEF IInv, StepInOrder, Before, Waiting, Polling
    <2>5. QED
      BY <1>1, <1>3, <2>1, <2>2, <2>3, <2>4, GoOn DEF IInv
  <1>6. QED
    BY <1>4, <1>5

\* The last read, which comes after a status that said READY.
LEMMA GetStep ==
  ASSUME IInv, Fetched \/ FetchFailed
  PROVE  IInv'
  <1>1. /\ pc = "get" /\ left \in Int /\ left >= -ReadBudget
        /\ UNCHANGED <<flags, ctxDone, lastStatus, seen, sent, post, server>>
    BY DEF Fetched, FetchFailed, IInv, TypeOK, Spent
  <1>2. left' \in Int /\ left' >= -(ReadBudget + ReadBudget)
    <2>1. \E d \in 0..ReadBudget : left' = left - d
      BY DEF Fetched, FetchFailed
    <2>2. QED
      BY <1>1, <2>1, OverrunIs
  <1>3. OverrunIsBounded'
    BY <1>2, OverrunIs DEF OverrunIsBounded
  <1>4. CASE FetchFailed
    <2>1. PICK code \in Codes \union {Uncoded} :
            End(WaitFailure("get", code, GetFailureDetails))
      BY <1>4 DEF FetchFailed
    <2>2. QED
      BY <1>1, <1>2, <1>3, <2>1, WaitEnds, DetailsAre DEF IInv, TypeOK, Waiting, Causes
  <1>5. CASE Fetched
    <2>1. /\ pc' = "print"
          /\ UNCHANGED <<doWait, timeoutGiven, timeout, ctxDone, lastStatus, seen, result, sent,
                         post, clusters, cloud, keyFresh>>
      BY <1>5 DEF Fetched, flags, server
    <2>2. TypeOK'
      BY <1>2, <2>1 DEF IInv, TypeOK
    <2>3. (KeySpentOnlyAtReady /\ PostIsTrue /\ Spent)'
      BY <2>1 DEF IInv, KeySpentOnlyAtReady, PostIsTrue, Spent
    <2>4. StepInOrder'
      BY <1>1, <2>1 DEF IInv, StepInOrder, Before, Waiting, Polling
    <2>5. QED
      BY <1>1, <1>3, <2>1, <2>2, <2>3, <2>4, GoOn DEF IInv
  <1>6. QED
    BY <1>4, <1>5

\* The end that is not a failure of the cluster: the output, or a kill.
LEMMA PrintStep ==
  ASSUME IInv, Printed \/ PrintFailed \/ Kill
  PROVE  IInv'
  <1>1. /\ pc # "done"
        /\ UNCHANGED <<flags, ctxDone, left, lastStatus, seen, sent, post, server>>
    BY DEF Printed, PrintFailed, Kill
  <1>2. seen \in Snapshots /\ OverrunIsBounded'
    BY <1>1 DEF IInv, TypeOK, OverrunIsBounded, flags
  <1>3. PICK r \in Results : /\ End(r)
                             /\ \/ r.kind = "printed" /\ pc = "print"
                                \/ r.kind = "failed" /\ r.cause = "output" /\ r.code = Uncoded
                                \/ r.kind = "killed"
                             /\ r.details = {} /\ r.cause # "get"
    <2>1. CASE Printed
      <3>1. [NoResult EXCEPT !.kind = "printed", !.shown = seen] \in Results
        BY <1>2 DEF NoResult, Results, Causes
      <3>2. QED
        BY <2>1, <3>1, NothingYet DEF Printed, NoResult
    <2>2. CASE PrintFailed
      BY <2>2, FailureIs DEF PrintFailed, Causes
    <2>3. CASE Kill
      <3>1. [NoResult EXCEPT !.kind = "killed", !.cause = "killed"] \in Results
        BY NothingYet DEF NoResult, Results, Causes
      <3>2. QED
        BY <2>3, <3>1, NothingYet DEF Kill, NoResult
    <2>4. QED
      BY <2>1, <2>2, <2>3
  <1>4. EndsTruly(r, post')
    BY <1>1, <1>3 DEF EndsTruly, IInv, StepInOrder
  <1>5. QED
    BY <1>1, <1>2, <1>3, <1>4, EndKeeps DEF IInv, TypeOK, PostIsTrue

\* The cloud and the user.
LEMMA InterruptStep ==
  ASSUME IInv, Interrupt
  PROVE  IInv'
  <1>1. /\ ctxDone' = TRUE
        /\ UNCHANGED <<doWait, timeoutGiven, timeout, pc, left, lastStatus, seen, result, sent,
                       post, clusters, cloud, keyFresh>>
    BY DEF Interrupt, flags, server
  <1>2. TypeOK'
    BY <1>1 DEF IInv, TypeOK
  <1>3. Told' = Told
    BY <1>1 DEF Told, ExitCode
  <1>4. QED
    BY <1>1, <1>2, <1>3 DEF IInv, CreatedClusterIsNamed, KeySpentOnlyAtReady, OverrunIsBounded,
       StillProvisioningIsTrue, StepInOrder, LateGet, Spent, PostIsTrue, EndIsTrue

\* The cloud carries the create out, whether the command waits or has given up.
LEMMA CloudCreatesStep ==
  ASSUME IInv, CloudCreates
  PROVE  IInv'
  <1>1. /\ sent /\ clusters = 0 /\ post # "rejected" /\ clusters' = 1 /\ cloud' \in FirstStatuses
        /\ UNCHANGED <<doWait, timeoutGiven, timeout, pc, ctxDone, left, lastStatus, seen, result,
                       sent, post, keyFresh>>
    BY DEF CloudCreates, Post!CarryOut, flags
  <1>2. TypeOK'
    BY <1>1, ProvisionAssumption DEF IInv, TypeOK
  <1>3. (CreatedClusterIsNamed /\ KeySpentOnlyAtReady /\ OverrunIsBounded
           /\ StillProvisioningIsTrue /\ StepInOrder /\ LateGet /\ Spent)'
    BY <1>1 DEF IInv, CreatedClusterIsNamed, KeySpentOnlyAtReady, OverrunIsBounded,
       StillProvisioningIsTrue, StepInOrder, LateGet, Spent
  <1>4. PostIsTrue'
    BY <1>1 DEF IInv, PostIsTrue
  <1>5. EndIsTrue'
    <2>1. Told' = Told
      BY <1>1 DEF Told, ExitCode
    <2>2. QED
      BY <1>1, <2>1 DEF IInv, EndIsTrue
  <1>6. QED
    BY <1>2, <1>3, <1>4, <1>5 DEF IInv

\* A GET is served, and its key spent, only once READY was seen.
LEMMA ServeStep ==
  ASSUME IInv, CloudMoves \/ ServeStatus \/ ServeGet
  PROVE  IInv'
  <1>1. /\ cloud' \in ClusterStatuses \union {NoStatus} /\ seen' \in Snapshots
        /\ keyFresh' \in BOOLEAN
        /\ keyFresh' = keyFresh \/ pc = "get" \/ result.cause = "get"
        /\ UNCHANGED <<doWait, timeoutGiven, timeout, pc, ctxDone, left, lastStatus, result, sent,
                       post, clusters>>
    <2>1. CASE CloudMoves
      BY <2>1 DEF CloudMoves, flags, IInv, TypeOK
    <2>2. CASE ServeStatus
      BY <2>2 DEF ServeStatus, flags, server, IInv, TypeOK, Snapshots
    <2>3. CASE ServeGet
      BY <2>3 DEF ServeGet, flags, IInv, TypeOK, Snapshots
    <2>4. QED
      BY <2>1, <2>2, <2>3
  <1>2. TypeOK'
    BY <1>1 DEF IInv, TypeOK
  <1>3. (CreatedClusterIsNamed /\ OverrunIsBounded /\ StillProvisioningIsTrue /\ LateGet
           /\ Spent /\ PostIsTrue)'
    BY <1>1 DEF IInv, CreatedClusterIsNamed, OverrunIsBounded, StillProvisioningIsTrue, LateGet,
       Spent, PostIsTrue
  <1>4. KeySpentOnlyAtReady'
    BY <1>1 DEF IInv, KeySpentOnlyAtReady, StepInOrder, LateGet, Waiting
  <1>5. StepInOrder'
    <2>1. pc # "done" => result.cause # "get"
      BY NothingYet DEF IInv, StepInOrder
    <2>2. pc \in Before \union Polling => pc # "get" /\ pc # "done"
      BY DEF Before, Polling
    <2>3. QED
      BY <1>1, <2>1, <2>2 DEF IInv, StepInOrder
  <1>6. EndIsTrue'
    <2>1. Told' = Told
      BY <1>1 DEF Told, ExitCode
    <2>2. QED
      BY <1>1, <2>1 DEF IInv, EndIsTrue
  <1>7. QED
    BY <1>2, <1>3, <1>4, <1>5, <1>6 DEF IInv

\* Every step keeps the invariant.
LEMMA NextIInv == IInv /\ [Next]_vars => IInv'
  <1> SUFFICES ASSUME IInv, [Next]_vars
               PROVE  IInv'
    OBVIOUS
  <1>1. CASE CommandStep
    BY <1>1, TokenStep, CreatedStep, NotCreatedStep, PollStep, StatusStep, TickStep, GetStep,
       PrintStep DEF CommandStep
  <1>2. CASE CloudStep \/ Interrupt \/ Kill
    BY <1>2, CloudCreatesStep, ServeStep, InterruptStep, PrintStep DEF CloudStep
  <1>3. CASE UNCHANGED vars
    <2>1. Told' = Told
      BY <1>3 DEF vars, Told, ExitCode
    <2>2. QED
      BY <1>3, <2>1 DEF vars, IInv, TypeOK, CreatedClusterIsNamed, KeySpentOnlyAtReady,
         OverrunIsBounded, StillProvisioningIsTrue, StepInOrder, LateGet, Spent, PostIsTrue,
         EndIsTrue
  <1>4. QED
    BY <1>1, <1>2, <1>3 DEF Next

\* So it holds of every reachable state.
LEMMA Invariance == SafeSpec => []IInv
  BY InitIInv, NextIInv, PTL DEF SafeSpec

-----------------------------------------------------------------------------
(* The theorems.                                                           *)

\* The variables keep their types: every failure is made of the codes and the details the
\* guide lists (createFailure, waitFailure).
THEOREM TypeCorrect == SafeSpec => []TypeOK
  BY Invariance, PTL DEF IInv

\* waitFailure: a cluster whose creation was confirmed is named in whatever error follows,
\* unless the printing itself fails.
THEOREM ClusterIsNamed == SafeSpec => []CreatedClusterIsNamed
  BY Invariance, PTL DEF IInv

\* pollUntilReady polls the status only: the one-time key is not spent before READY was seen
\* by a command that waits.
THEOREM KeyIsNotSpent == SafeSpec => []KeySpentOnlyAtReady
  BY Invariance, PTL DEF IInv

\* pollUntilReady looks at the deadline between polls: a wait outlasts --timeout by a poll and
\* a GET or a pause at most, however long they are.
THEOREM OverrunBounded == SafeSpec => []OverrunIsBounded
  BY Invariance, PTL DEF IInv

\* await.go: an error that says the cluster is still provisioning follows no READY and no
\* terminal status.
THEOREM StillProvisioning == SafeSpec => []StillProvisioningIsTrue
  BY Invariance, PTL DEF IInv

\* Read as the guide's failure table reads it, the command keeps the API call's promise, as
\* far as safety goes: one cluster at most, and "exists" and "not created" are true for good.
THEOREM CommandIsOneCallSafely == SafeSpec => Command!SafeSpec
  <1>1. Init => Command!Init
    <2> SUFFICES ASSUME Init PROVE Command!Init
      OBVIOUS
    <2>1. Told = "pending"
      BY NothingYet DEF Init, Told
    <2>2. QED
      BY <2>1 DEF Init, Post!Init, Command!Init
  <1>2. IInv /\ IInv' /\ [Next]_vars => [Command!Next]_(Command!vars)
    <2> SUFFICES ASSUME IInv, IInv', [Next]_vars
                 PROVE  Command!Next \/ UNCHANGED <<"POST", Told, clusters>>
      BY DEF Command!vars
    <2>1. CASE CloudCreates
      <3>1. sent /\ clusters = 0 /\ clusters' = clusters + 1 /\ post # "rejected" /\ Told' = Told
        BY <2>1 DEF CloudCreates, Post!CarryOut, Told, ExitCode
      <3>2. Told # "rejected"
        BY <3>1 DEF IInv, EndIsTrue
      <3>3. QED
        BY <3>1, <3>2 DEF Command!Next, Command!CarryOut
    <2>2. CASE pc # "done" /\ UNCHANGED clusters
      <3>1. Told = "pending"
        BY <2>2, NothingYet DEF IInv, StepInOrder, Told
      <3>2. Told' \in {"pending", "ok", "rejected", "unknown"}
        BY DEF Told, IInv, TypeOK, Results
      <3>3. /\ Told' = "ok" => clusters > 0
            /\ Told' = "rejected" => clusters = 0
        BY <2>2 DEF IInv, EndIsTrue, PostIsTrue
      <3>4. QED
        BY <2>2, <3>1, <3>2, <3>3 DEF Command!Next, Command!Return, Command!Outcomes
    <2>3. CASE UNCHANGED <<result, clusters>>
      BY <2>3 DEF Told, ExitCode
    <2>4. CloudCreates \/ (pc # "done" /\ UNCHANGED clusters) \/ UNCHANGED <<result, clusters>>
      BY DEF Next, vars, CommandStep, CloudStep, RefuseFlags, TokenFails, SendCreate, Created,
         CreateAnswered, CreateUnanswered, PollTimedOut, PollCancelled, Poll, StatusRead,
         StatusFailed, Tick, TickCancelled, Fetched, FetchFailed, Printed, PrintFailed, CloudMoves,
         ServeStatus, ServeGet, Interrupt, Kill, server, Post!Return
    <2>5. QED
      BY <2>1, <2>2, <2>3, <2>4
  <1>3. QED
    BY <1>1, <1>2, Invariance, PTL DEF SafeSpec, Command!SafeSpec

=============================================================================
