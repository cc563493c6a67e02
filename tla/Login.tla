------------------------------- MODULE Login -------------------------------
(***************************************************************************)
(* `wcloud auth login` up to the tokens (runLogin, loopback.go and         *)
(* exchangeCode in src/internal/auth): the goroutine that waits for the    *)
(* authorization code, the loopback HTTP server with one goroutine per     *)
(* callback, the two channels between them, the timeout of the wait and    *)
(* the shutdown.  Browsers, and whatever else finds the port, call back at *)
(* any time: with the code, with an error, without a code, with the state  *)
(* of another sign-in.                                                     *)
(***************************************************************************)
EXTENDS Naturals, Sequences

CONSTANTS Callbacks,  \* requests to the callback path
          NoOne

ASSUME LoginAssumption == NoOne \notin Callbacks

VARIABLES
  pc,        \* of runLogin: "start", "browse", "await", "exchange", "return",
             \* "shutdown", "done", and "exited" with its process
  waitErr,   \* what waitCtx.Err() returns: "none", "deadline", "cancelled"
  ctxDone,   \* the command's own context is cancelled
  taken,     \* the callback whose code awaitCode returned
  result,    \* how the login ended
  serving,   \* of the server goroutine: "no", "yes", "failing" to report an error
  errCh,     \* the error channel, buffered
  kind,      \* of each callback: what it carries
  step,      \* of each callback's goroutine: "none", "code", "error", "page", "answered"
  page       \* of each callback: the page written for it

vars == <<pc, waitErr, ctxDone, taken, result, serving, errCh, kind, step, page>>

Kinds == {"good", "denied", "stray", "codeless"}

\* make(chan error, 1)
ErrCap == 1

Init == /\ pc = "start"
        /\ waitErr = "none"
        /\ ctxDone = FALSE
        /\ taken = NoOne
        /\ result = "none"
        /\ serving = "no"
        /\ errCh = <<>>
        /\ kind = [c \in Callbacks |-> "none"]
        /\ step = [c \in Callbacks |-> "none"]
        /\ page = [c \in Callbacks |-> "none"]

login == <<pc, taken, result>>
context == <<waitErr, ctxDone>>
callbacks == <<kind, step, page>>

-----------------------------------------------------------------------------
(* runLogin.                                                               *)

\* The login returns r, through its deferred calls if the loopback server is up.
Finish(l, r) == pc' = l /\ result' = r

\* A refused URL, no randomness, every port busy.
StartFails == /\ pc = "start"
              /\ Finish("done", "error")
              /\ UNCHANGED <<context, taken, serving, errCh, callbacks>>

StartLoopback == /\ pc = "start"
                 /\ pc' = "browse"
                 /\ serving' = "yes"
                 /\ UNCHANGED <<context, taken, result, errCh, callbacks>>

\* openBrowser, which at worst is a warning.
OpenBrowser == /\ pc = "browse"
               /\ pc' = "await"
               /\ UNCHANGED <<context, taken, result, serving, errCh, callbacks>>

\* The select of awaitCode: any case that is ready.
AwaitEnds == /\ pc = "await"
             /\ \/ waitErr = "deadline" /\ Finish("return", "timeout")
                \/ waitErr = "cancelled" /\ Finish("return", "cancelled")
             /\ UNCHANGED <<context, taken, serving, errCh, callbacks>>

AwaitError == /\ pc = "await"
              /\ errCh # <<>>
              /\ errCh' = Tail(errCh)
              /\ Finish("return", "error")
              /\ UNCHANGED <<context, taken, serving, callbacks>>

BugBufferCode(c) ==
  /\ step[c] = "code"
  /\ \/ /\ pc = "await"
        /\ pc' = "exchange"
        /\ taken' = c
     \/ pc # "await" /\ UNCHANGED <<pc, taken>>
  /\ step' = [step EXCEPT ![c] = "page"]
  /\ page' = [page EXCEPT ![c] = "complete"]
  /\ UNCHANGED <<context, result, serving, errCh, kind>>

\* The code channel has no buffer: its sender and awaitCode go on together.
TakeCode(c) ==
  /\ pc = "await"
  /\ step[c] = "code"
  /\ pc' = "exchange"
  /\ taken' = c
  /\ step' = [step EXCEPT ![c] = "page"]
  /\ page' = [page EXCEPT ![c] = "complete"]
  /\ UNCHANGED <<context, result, serving, errCh, kind>>

\* exchangeCode, under the command's context and not under the wait's.
Exchange == /\ pc = "exchange"
            /\ \/ ~ctxDone /\ Finish("return", "tokens")
               \/ Finish("return", IF ctxDone THEN "cancelled" ELSE "error")
            /\ UNCHANGED <<context, taken, serving, errCh, callbacks>>

\* The deferred cancel runs before the deferred close, which stops accepting.
Return == /\ pc = "return"
          /\ pc' = "shutdown"
          /\ waitErr' = IF waitErr = "none" THEN "cancelled" ELSE waitErr
          /\ serving' = IF serving = "yes" THEN "no" ELSE serving
          /\ UNCHANGED <<ctxDone, taken, result, errCh, callbacks>>

Active == {c \in Callbacks : step[c] \in {"code", "error", "page"}}

BugWaitForHandlers == /\ pc = "shutdown"
                      /\ Active = {}
                      /\ pc' = "done"
                      /\ UNCHANGED <<context, taken, result, serving, errCh, callbacks>>

\* Shutdown waits for the callbacks being served, but no longer than shutdownTimeout.
Shutdown == /\ pc = "shutdown"
            /\ pc' = "done"
            /\ UNCHANGED <<context, taken, result, serving, errCh, callbacks>>

\* The command saves the tokens and the process ends, whatever still runs in it.
Exit == /\ pc = "done"
        /\ pc' = "exited"
        /\ UNCHANGED <<context, taken, result, serving, errCh, callbacks>>

-----------------------------------------------------------------------------
(* The loopback server.                                                    *)

BugAnyState(k) == IF k \in {"good", "stray"} THEN "code" ELSE "error"

\* callbackHandler: an error first, then the state, then the code.
Sends(k) == IF k = "good" THEN "code" ELSE "error"

\* A callback arrives; the page of a failure is written before the failure is reported.
Callback(c, k) ==
  /\ serving = "yes"
  /\ step[c] = "none"
  /\ kind' = [kind EXCEPT ![c] = k]
  /\ step' = [step EXCEPT ![c] = Sends(k)]
  /\ page' = [page EXCEPT ![c] = IF Sends(k) = "error" THEN "failed" ELSE @]
  /\ UNCHANGED <<login, context, serving, errCh>>

BugReportAnyway(c) ==
  /\ step[c] = "error"
  /\ errCh' = Append(errCh, c)
  /\ step' = [step EXCEPT ![c] = "page"]
  /\ UNCHANGED <<login, context, serving, kind, page>>

\* It waits while the channel is full: nobody may ever empty it.
ReportError(c) ==
  /\ pc # "exited"
  /\ step[c] = "error"
  /\ Len(errCh) < ErrCap
  /\ errCh' = Append(errCh, c)
  /\ step' = [step EXCEPT ![c] = "page"]
  /\ UNCHANGED <<login, context, serving, kind, page>>

\* The wait is over before it took the code.
Expire(c) ==
  /\ pc # "exited"
  /\ step[c] = "code"
  /\ waitErr # "none"
  /\ page' = [page EXCEPT ![c] = "expired"]
  /\ step' = [step EXCEPT ![c] = "page"]
  /\ UNCHANGED <<login, context, serving, errCh, kind>>

\* The handler returns, and the page reaches the browser.
Answer(c) == /\ pc # "exited"
             /\ step[c] = "page"
             /\ step' = [step EXCEPT ![c] = "answered"]
             /\ UNCHANGED <<login, context, serving, errCh, kind, page>>

\* srv.Serve returns an error, which waits for the channel like any other.
ServeFails == /\ serving = "yes"
              /\ serving' = "failing"
              /\ UNCHANGED <<login, context, errCh, callbacks>>

ReportServeError == /\ pc # "exited"
                    /\ serving = "failing"
                    /\ Len(errCh) < ErrCap
                    /\ errCh' = Append(errCh, NoOne)
                    /\ serving' = "no"
                    /\ UNCHANGED <<login, context, callbacks>>

-----------------------------------------------------------------------------
(* The timer of the wait and the user's interrupt.                         *)

Deadline == /\ pc \notin {"start", "done", "exited"}
            /\ waitErr = "none"
            /\ waitErr' = "deadline"
            /\ UNCHANGED <<login, ctxDone, serving, errCh, callbacks>>

Interrupt == /\ pc \notin {"start", "done", "exited"}
             /\ ~ctxDone
             /\ ctxDone' = TRUE
             /\ waitErr' = IF waitErr = "none" THEN "cancelled" ELSE waitErr
             /\ UNCHANGED <<login, serving, errCh, callbacks>>

RunLogin == \/ StartFails \/ StartLoopback \/ OpenBrowser \/ AwaitEnds \/ AwaitError
            \/ (\E c \in Callbacks : TakeCode(c)) \/ Exchange \/ Return \/ Shutdown \/ Exit

Handler(c) == ReportError(c) \/ Expire(c) \/ Answer(c)

Next == \/ RunLogin
        \/ \E c \in Callbacks : Handler(c) \/ \E k \in Kinds : Callback(c, k)
        \/ ServeFails \/ ReportServeError \/ Deadline \/ Interrupt

SafeSpec == Init /\ [][Next]_vars

\* The goroutines run and the timer fires; browsers and users owe nothing.
Spec == /\ SafeSpec
        /\ WF_vars(RunLogin)
        /\ WF_vars(Deadline)
        /\ \A c \in Callbacks : WF_vars(Handler(c))

-----------------------------------------------------------------------------
(* Properties.                                                             *)

TypeOK ==
  /\ pc \in {"start", "browse", "await", "exchange", "return", "shutdown", "done", "exited"}
  /\ waitErr \in {"none", "deadline", "cancelled"}
  /\ ctxDone \in BOOLEAN
  /\ taken \in Callbacks \union {NoOne}
  /\ result \in {"none", "tokens", "timeout", "cancelled", "error"}
  /\ serving \in {"no", "yes", "failing"}
  /\ Len(errCh) <= ErrCap
  /\ kind \in [Callbacks -> Kinds \union {"none"}]
  /\ step \in [Callbacks -> {"none", "code", "error", "page", "answered"}]
  /\ page \in [Callbacks -> {"none", "complete", "failed", "expired"}]

\* A browser that is told "Authentication complete" is the one whose code this login took,
\* and the login does not then say that it timed out waiting for it.
CompletePageIsTrue ==
  \A c \in Callbacks : page[c] = "complete" => taken = c /\ result # "timeout"

\* The code a login exchanges came with that login's own state, however many callbacks of
\* other sign-ins reach the port first or at the same moment.
CodeIsOurs == taken # NoOne => kind[taken] = "good"

\* The login ends: once its deadline has passed nothing keeps it, not the callbacks that wait
\* for ever to report an error nobody will read.
LoginEnds == <>(pc = "exited")

=============================================================================
