----------------------------- MODULE Provision -----------------------------
(***************************************************************************)
(* `wcloud cluster create [--wait] [--timeout T]`                          *)
(* (src/internal/command/cluster/create.go and await.go): the token, the   *)
(* POST, the poll of the status until the cluster is READY or the deadline *)
(* passes, the one GET that reads the cluster and its one-time API key,    *)
(* and what the command prints or fails with.  Each API call behaves as    *)
(* ApiCall says: the POST is an instance of it, a GET may be served any    *)
(* number of times before it returns.                                      *)
(*                                                                         *)
(* The cloud is the environment.  The cluster moves along Lifecycle as it  *)
(* likes, and the first GET served once it has been READY hands out the    *)
(* API key.  Time is counted towards the deadline: a call of the read      *)
(* client spends at most ReadBudget (ApiClient's CallWithinBudget), a wait *)
(* between two polls TickInterval.                                         *)
(***************************************************************************)
EXTENDS Integers, Errcode

CONSTANTS
  ClusterStatuses,  \* the statuses a cluster of this cloud can be in
  FirstStatuses,    \* those a new cluster can be in
  Lifecycle,        \* <<s, t>>: a cluster can go from s to t
  Timeouts,         \* values --timeout is given
  DefaultTimeout,   \* defaultWaitTimeout: 15 min
  ReadBudget,       \* the longest a status poll or a GET can take
  TickInterval      \* PollInterval: the pause between two polls

\* No status was read yet, or no cluster exists: a status is never the empty string.
NoStatus == ""

ASSUME ProvisionAssumption ==
  /\ NoStatus \notin ClusterStatuses
  /\ FirstStatuses \subseteq ClusterStatuses
  /\ Lifecycle \subseteq ClusterStatuses \X ClusterStatuses
  /\ Timeouts \subseteq Int
  /\ DefaultTimeout \in Nat
  /\ ReadBudget \in Nat
  /\ TickInterval \in Nat \ {0}

VARIABLES
  doWait,           \* --wait, fixed
  timeoutGiven,     \* --timeout is given, fixed
  timeout,          \* its value, fixed; 0 when it is not given
  pc,               \* "token", "create", "poll", "status", "get", "tick", "print", "done"
  ctxDone,          \* the command's context is cancelled
  left,             \* time left to the deadline; 0 until the wait begins
  lastStatus,       \* pollUntilReady's lastStatus
  seen,             \* what the GET in progress was last served
  result,           \* how the command ended
  sent,             \* the POST has left
  post, clusters,   \* the POST: its outcome, how often it was carried out
  cloud,            \* the status of the cluster
  keyFresh          \* the cloud still has the one-time key to give

vars == <<doWait, timeoutGiven, timeout, pc, ctxDone, left, lastStatus, seen, result,
          sent, post, clusters, cloud, keyFresh>>

Post == INSTANCE ApiCall WITH Methods <- {"POST"}, Replayable <- {},
                              method <- "POST", outcome <- post, carried <- clusters

-----------------------------------------------------------------------------
(* Values.                                                                 *)

ClassifyStatus(s) ==
  CASE s = "READY"                                                       -> "ready"
    [] s \in {"PENDING", "CREATING", "UPDATING", "WAITING", "DELETING"}  -> "polling"
    [] s \in {"FAILED", "DELETED", "EXPIRED", "SUSPENDED"}               -> "terminal"
    [] OTHER                                                             -> "unrecognized"

\* What a read was served: the status it saw and, for a GET, whether it got the key.
NothingSeen == [status |-> NoStatus, key |-> FALSE]
Snapshots == [status : ClusterStatuses \union {NoStatus}, key : BOOLEAN]

\* The keys of error.details.
Details == {"idempotency_key", "cluster_may_exist", "failure_stage", "cluster_id",
            "still_provisioning", "last_status", "terminal_status", "unrecognized_status"}

\* What made the command fail.
Causes == {"none", "token", "answer", "noresponse", "unreadable", "cancelled",
           "status", "get", "terminal", "timeout", "output", "killed"}

Results == [kind : {"none", "printed", "failed", "killed"}, cause : Causes,
            code : Codes \union {Uncoded}, details : SUBSET Details, shown : Snapshots]

NoResult == [kind |-> "none", cause |-> "none", code |-> Uncoded, details |-> {},
             shown |-> NothingSeen]

Failure(cause, code, details) ==
  [kind |-> "failed", cause |-> cause, code |-> code, details |-> details,
   shown |-> NothingSeen]

\* The codes of an answer that refuses a create (4xx), and of one that is not about the
\* request: a failure of the server or a body the client cannot use.
RefusalCodes == Codes \ {"service_unavailable"}
ServerFailureCodes == {"internal_error", "service_unavailable"}

\* detailedFailure: the cause's code when it has one.
CodeOr(code) == IF code = Uncoded THEN "internal_error" ELSE code

-----------------------------------------------------------------------------
(* How the command fails.                                                  *)

\* createFailure: an error with a code passes through, any other is marked.
CreateFailure(cause, code, details) ==
  IF code # Uncoded
  THEN Failure(cause, code, details)
  ELSE Failure(cause, "internal_error", {"idempotency_key", "cluster_may_exist"})

BugUnnamed(cause, code, details) == Failure(cause, CodeOr(code), details)
BugMisnamed(cause, code, details) ==
  Failure(cause, CodeOr(code), details \union {"clusterId"})

\* waitFailure: every failure after the create names the cluster.
WaitFailure(cause, code, details) ==
  Failure(cause, CodeOr(code), details \union {"cluster_id"})

ProvisioningDetails ==
  {"still_provisioning"} \union IF lastStatus = NoStatus THEN {} ELSE {"last_status"}

TimeoutDetails ==
  ProvisioningDetails \union
    IF lastStatus # NoStatus /\ ClassifyStatus(lastStatus) = "unrecognized"
    THEN {"unrecognized_status"} ELSE {}

\* The GET that follows READY does not say that the cluster is still provisioning.
BugGetDetails == ProvisioningDetails
GetFailureDetails == {"last_status"}

-----------------------------------------------------------------------------
Init == /\ doWait \in BOOLEAN
        /\ timeoutGiven \in BOOLEAN
        /\ timeout \in (IF timeoutGiven THEN Timeouts ELSE {0})
        /\ pc = "token"
        /\ ctxDone = FALSE
        /\ left = 0
        /\ lastStatus = NoStatus
        /\ seen = NothingSeen
        /\ result = NoResult
        /\ sent = FALSE
        /\ Post!Init
        /\ cloud = NoStatus
        /\ keyFresh = TRUE

flags == <<doWait, timeoutGiven, timeout>>
server == <<clusters, cloud, keyFresh>>

\* The command ends with r.
End(r) == pc' = "done" /\ result' = r

\* --timeout requires --wait, whatever its value.
RefuseFlags == /\ pc = "token"
               /\ ~doWait /\ timeoutGiven
               /\ End(Failure("token", "validation_failed", {}))
               /\ UNCHANGED <<flags, ctxDone, left, lastStatus, seen, sent, post, server>>

TokenFails == /\ pc = "token"
              /\ \E code \in {"auth_required", "internal_error", Uncoded} :
                   End(Failure("token", code, {}))
              /\ UNCHANGED <<flags, ctxDone, left, lastStatus, seen, sent, post, server>>

SendCreate == /\ pc = "token"
              /\ doWait \/ ~timeoutGiven
              /\ pc' = "create"
              /\ sent' = ~ctxDone    \* a cancelled context keeps it from leaving
              /\ UNCHANGED <<flags, ctxDone, left, lastStatus, seen, result, post, server>>

\* The POST returns a cluster: print it, or start the wait with its deadline.
Created ==
  /\ pc = "create"
  /\ Post!Return("ok")
  /\ IF doWait
     THEN /\ pc' = "poll"
          /\ left' = IF timeout = 0 THEN DefaultTimeout ELSE timeout
     ELSE pc' = "print" /\ UNCHANGED left
  /\ UNCHANGED <<flags, ctxDone, lastStatus, seen, result, sent, cloud, keyFresh>>

\* The POST was answered, with a refusal or with something that does not say whether it
\* was carried out.
CreateAnswered ==
  /\ pc = "create"
  /\ \/ /\ Post!Return("rejected")
        /\ \E code \in RefusalCodes : End(CreateFailure("answer", code, {}))
     \/ /\ Post!Return("unknown")
        /\ \E code \in ServerFailureCodes : End(CreateFailure("answer", code, {}))
  /\ UNCHANGED <<flags, ctxDone, left, lastStatus, seen, sent, cloud, keyFresh>>

\* The POST was not answered: NoResponse is coded, a cancelled context and an answer
\* that broke off are not.
CreateUnanswered ==
  /\ pc = "create"
  /\ Post!Return("unknown")
  /\ \/ ~ctxDone /\ End(CreateFailure("noresponse", "internal_error", {"failure_stage"}))
     \/ ctxDone /\ End(CreateFailure("cancelled", Uncoded, {}))
     \/ End(CreateFailure("unreadable", Uncoded, {}))
  /\ UNCHANGED <<flags, ctxDone, left, lastStatus, seen, sent, cloud, keyFresh>>

-----------------------------------------------------------------------------
(* pollUntilReady.                                                         *)

\* nowFn().After(deadline)
BugDeadlineOnce == left < 0 /\ lastStatus = NoStatus
DeadlinePassed == left < 0

PollTimedOut ==
  /\ pc = "poll"
  /\ DeadlinePassed
  /\ End(WaitFailure("timeout", Uncoded, TimeoutDetails))
  /\ UNCHANGED <<flags, ctxDone, left, lastStatus, seen, sent, post, server>>

PollCancelled ==
  /\ pc = "poll"
  /\ ~DeadlinePassed
  /\ ctxDone
  /\ End(WaitFailure("cancelled", Uncoded, ProvisioningDetails))
  /\ UNCHANGED <<flags, ctxDone, left, lastStatus, seen, sent, post, server>>

Poll == /\ pc = "poll"
        /\ ~DeadlinePassed
        /\ ~ctxDone
        /\ pc' = "status"
        /\ seen' = NothingSeen
        /\ UNCHANGED <<flags, ctxDone, left, lastStatus, result, sent, post, server>>

\* GetClusterStatus returns the status it was served, which may be gone by now.
StatusRead ==
  /\ pc = "status"
  /\ seen # NothingSeen
  /\ \E d \in 0..ReadBudget : left' = left - d
  /\ lastStatus' = seen.status
  /\ seen' = NothingSeen
  /\ CASE ClassifyStatus(seen.status) = "ready"    -> pc' = "get" /\ UNCHANGED result
       [] ClassifyStatus(seen.status) = "terminal" ->
            End(WaitFailure("terminal", Uncoded, {"terminal_status"}))
       [] OTHER                                    -> pc' = "tick" /\ UNCHANGED result
  /\ UNCHANGED <<flags, ctxDone, sent, post, server>>

StatusFailed ==
  /\ pc = "status"
  /\ \E d \in 0..ReadBudget : left' = left - d
  /\ \E code \in Codes \union {Uncoded} :
       End(WaitFailure("status", code, ProvisioningDetails))
  /\ UNCHANGED <<flags, ctxDone, lastStatus, seen, sent, post, server>>

BugNoPause == /\ pc = "tick"
              /\ pc' = "poll"
              /\ UNCHANGED <<flags, ctxDone, left, lastStatus, seen, result, sent, post, server>>

\* waitForNextPoll: the timer, or the context.
Tick == /\ pc = "tick"
        /\ pc' = "poll"
        /\ left' = left - TickInterval
        /\ UNCHANGED <<flags, ctxDone, lastStatus, seen, result, sent, post, server>>

TickCancelled ==
  /\ pc = "tick"
  /\ ctxDone
  /\ \E d \in 0..TickInterval : left' = left - d
  /\ End(WaitFailure("cancelled", Uncoded, ProvisioningDetails))
  /\ UNCHANGED <<flags, ctxDone, lastStatus, seen, sent, post, server>>

\* GetCluster returns the cluster; nothing looks at its status again.
Fetched ==
  /\ pc = "get"
  /\ seen # NothingSeen
  /\ \E d \in 0..ReadBudget : left' = left - d
  /\ pc' = "print"
  /\ UNCHANGED <<flags, ctxDone, lastStatus, seen, result, sent, post, server>>

FetchFailed ==
  /\ pc = "get"
  /\ \E d \in 0..ReadBudget : left' = left - d
  /\ \E code \in Codes \union {Uncoded} : End(WaitFailure("get", code, GetFailureDetails))
  /\ UNCHANGED <<flags, ctxDone, lastStatus, seen, sent, post, server>>

\* output.Write, which can fail on a closed stdout.
Printed == /\ pc = "print"
           /\ End([NoResult EXCEPT !.kind = "printed", !.shown = seen])
           /\ UNCHANGED <<flags, ctxDone, left, lastStatus, seen, sent, post, server>>

PrintFailed == /\ pc = "print"
               /\ End(Failure("output", Uncoded, {}))
               /\ UNCHANGED <<flags, ctxDone, left, lastStatus, seen, sent, post, server>>

-----------------------------------------------------------------------------
(* The environment.                                                        *)

Interrupt == /\ pc # "done" /\ ~ctxDone
             /\ ctxDone' = TRUE
             /\ UNCHANGED <<flags, pc, left, lastStatus, seen, result, sent, post, server>>

Kill == /\ pc # "done"
        /\ End([NoResult EXCEPT !.kind = "killed", !.cause = "killed"])
        /\ UNCHANGED <<flags, ctxDone, left, lastStatus, seen, sent, post, server>>

\* The cloud carries the POST out, perhaps after the command gave up on it.
CloudCreates == /\ sent
                /\ Post!CarryOut
                /\ cloud' \in FirstStatuses
                /\ UNCHANGED <<flags, pc, ctxDone, left, lastStatus, seen, result, sent, keyFresh>>

CloudMoves == /\ \E s \in ClusterStatuses : <<cloud, s>> \in Lifecycle /\ cloud' = s
              /\ UNCHANGED <<flags, pc, ctxDone, left, lastStatus, seen, result, sent, post,
                             clusters, keyFresh>>

BugPollByGet == /\ pc = "status"
                /\ seen' = [status |-> cloud, key |-> keyFresh]
                /\ keyFresh' = FALSE
                /\ UNCHANGED <<flags, pc, ctxDone, left, lastStatus, result, sent, post,
                               clusters, cloud>>

\* GET /clusters/{id}/status carries no key.
ServeStatus == /\ pc = "status"
               /\ seen' = [status |-> cloud, key |-> FALSE]
               /\ UNCHANGED <<flags, pc, ctxDone, left, lastStatus, result, sent, post, server>>

\* GET /clusters/{id} carries the key the first time.  The client may send the request
\* again when an answer is lost, and a late one is served when the call is over.
ServeGet == /\ pc = "get" \/ result.cause = "get"
            /\ seen' = [status |-> cloud, key |-> keyFresh]
            /\ keyFresh' = FALSE
            /\ UNCHANGED <<flags, pc, ctxDone, left, lastStatus, result, sent, post, clusters,
                           cloud>>

CommandStep ==
  \/ RefuseFlags \/ TokenFails \/ SendCreate
  \/ Created \/ CreateAnswered \/ CreateUnanswered
  \/ PollTimedOut \/ PollCancelled \/ Poll \/ StatusRead \/ StatusFailed
  \/ Tick \/ TickCancelled \/ Fetched \/ FetchFailed \/ Printed \/ PrintFailed

CloudStep == CloudCreates \/ CloudMoves \/ ServeStatus \/ ServeGet

Next == CommandStep \/ CloudStep \/ Interrupt \/ Kill

SafeSpec == Init /\ [][Next]_vars

\* The command runs, its calls return (ApiClient's CallReturns) and its timers fire; the
\* cloud does nothing it does not want to.
Spec == SafeSpec /\ WF_vars(CommandStep)

-----------------------------------------------------------------------------
(* Properties.                                                             *)

TypeOK ==
  /\ doWait \in BOOLEAN
  /\ timeoutGiven \in BOOLEAN /\ timeout \in Timeouts \union {0}
  /\ pc \in {"token", "create", "poll", "status", "get", "tick", "print", "done"}
  /\ ctxDone \in BOOLEAN
  /\ left \in Int
  /\ lastStatus \in ClusterStatuses \union {NoStatus}
  /\ seen \in Snapshots
  /\ result \in Results
  /\ sent \in BOOLEAN
  /\ post \in Post!Outcomes
  /\ clusters \in {0, 1}
  /\ cloud \in ClusterStatuses \union {NoStatus}
  /\ keyFresh \in BOOLEAN

\* A cluster whose creation was confirmed is never lost: whatever fails afterwards but
\* the printing itself, the error carries its id ("the caller's only handle on a cluster
\* that was created but never observed READY", waitFailure).
CreatedClusterIsNamed ==
  post = "ok" /\ result.kind = "failed" /\ result.cause # "output" =>
    "cluster_id" \in result.details

ExitCode == IF result.kind = "printed" THEN Success ELSE ExitForCode(result.code)

\* How the guide's failure table reads the end of the command: an id means the cluster
\* exists, exit 1 or 9 or a kill without one means that it may, any other exit that the
\* create did not happen and may be repeated.
Told ==
  CASE result.kind = "none"    -> "pending"
    [] result.kind = "printed" -> "ok"
    [] result.kind = "killed"  -> "unknown"
    [] result.kind = "failed"  -> IF "cluster_id" \in result.details THEN "ok"
                                  ELSE IF ExitCode \in {GenericError, ServiceUnavailable}
                                       THEN "unknown" ELSE "rejected"

\* Read as the guide reads it, the command keeps the promise the API call makes: one
\* cluster at most, "exists" and "not created" are true, and every end is told.
Command == INSTANCE ApiCall WITH Methods <- {"POST"}, Replayable <- {},
                                 method <- "POST", outcome <- Told, carried <- clusters
CommandIsOneCall == Command!Spec

\* The one-time key is not spent before the command, waiting, has seen READY: polling
\* never reads it, and a create without --wait leaves it for a later get.
KeySpentOnlyAtReady == ~keyFresh => doWait /\ lastStatus = "READY"

Longer(a, b) == IF a >= b THEN a ELSE b

\* The deadline is looked at between polls only, so a wait can outlast --timeout, by a
\* poll and then a GET or a pause at most.
OverrunIsBounded ==
  \/ left >= -(ReadBudget + Longer(ReadBudget, TickInterval))
  \/ left = timeout

\* A failure that says the cluster is still provisioning follows no READY and no terminal
\* status.
StillProvisioningIsTrue ==
  "still_provisioning" \in result.details =>
    lastStatus = NoStatus \/ ClassifyStatus(lastStatus) \in {"polling", "unrecognized"}

\* The command ends, whatever the cloud does and whichever statuses it invents.
CommandEnds == <>(pc = "done")

\* createFailure's comment: a request the server never answered may have been accepted,
\* so the failure is marked cluster_may_exist.
UnansweredCreateIsMarked ==
  clusters = 1 /\ result.cause \in {"noresponse", "unreadable", "cancelled"} =>
    result.details \intersect {"cluster_may_exist", "cluster_id"} # {}

\* README: create --wait prints the cluster together with its one-time API key.
WaitPrintsTheKey == result.kind = "printed" /\ doWait => result.shown.key

=============================================================================
