---------------------------- MODULE LoginProofs ----------------------------
(***************************************************************************)
(* For every set of callbacks, in whatever order they arrive, are served   *)
(* and run out of time: the page a browser sees is true, and the code the  *)
(* login exchanges came with its own state.                                *)
(***************************************************************************)
EXTENDS Login, TLAPS

-----------------------------------------------------------------------------
(* The inductive invariant.                                                *)

\* Until awaitCode has returned, no code was taken and the login has not ended.
StillWaiting ==
  /\ pc \in {"start", "browse", "await"} => taken = NoOne
  /\ pc \in {"start", "browse", "await", "exchange"} => result = "none"

\* The goroutine of a callback sends a code only for the one with the login's state, and that
\* of the callback whose code was taken is past its sending.
HandlersInOrder ==
  /\ \A c \in Callbacks : step[c] = "code" => kind[c] = "good"
  /\ taken # NoOne => step[taken] \in {"page", "answered"}

Errors == Callbacks \union {NoOne}

IInv == /\ TypeOK /\ errCh \in Seq(Errors)
        /\ CompletePageIsTrue /\ CodeIsOurs /\ StillWaiting /\ HandlersInOrder

-----------------------------------------------------------------------------
(* The steps.                                                              *)

\* At the start no callback has come.
LEMMA InitIInv == Init => IInv
  <1> SUFFICES ASSUME Init PROVE IInv
    OBVIOUS
  <1>1. TypeOK /\ errCh \in Seq(Errors)
    <2>1. <<>> \in Seq(Errors) /\ Len(<<>>) <= ErrCap
      BY DEF ErrCap
    <2>2. QED
      BY <2>1 DEF Init, TypeOK
  <1>2. CompletePageIsTrue /\ CodeIsOurs
    BY DEF Init, CompletePageIsTrue, CodeIsOurs
  <1>3. StillWaiting /\ HandlersInOrder
    BY DEF Init, StillWaiting, HandlersInOrder
  <1>4. QED
    BY <1>1, <1>2, <1>3 DEF IInv

\* An error put into the channel while it has room, or taken out of it.
LEMMA ErrorChannel ==
  ASSUME errCh \in Seq(Errors), Len(errCh) <= ErrCap, NEW e \in Errors
  PROVE  /\ Len(errCh) < ErrCap
              => Append(errCh, e) \in Seq(Errors) /\ Len(Append(errCh, e)) <= ErrCap
         /\ errCh # <<>> => Tail(errCh) \in Seq(Errors) /\ Len(Tail(errCh)) <= ErrCap
  BY DEF ErrCap

\* runLogin goes on, without a code.
LEMMA LoginStep ==
  ASSUME IInv,
         \/ StartFails \/ StartLoopback \/ OpenBrowser \/ AwaitEnds \/ AwaitError \/ Exchange
         \/ Return \/ Shutdown \/ Exit
  PROVE  IInv'
  <1>1. UNCHANGED <<ctxDone, taken, kind, step, page>>
    BY DEF StartFails, StartLoopback, OpenBrowser, AwaitEnds, AwaitError, Exchange, Return,
       Shutdown, Exit, context, callbacks
  <1>2. /\ pc' \in {"browse", "await", "return", "shutdown", "done", "exited"}
        /\ waitErr' \in {"none", "deadline", "cancelled"}
        /\ serving' \in {"no", "yes", "failing"}
        /\ result' \in {"none", "tokens", "timeout", "cancelled", "error"}
    BY DEF StartFails, StartLoopback, OpenBrowser, AwaitEnds, AwaitError, Exchange, Return,
       Shutdown, Exit, Finish, context, IInv, TypeOK
  <1>3. errCh' \in Seq(Errors) /\ Len(errCh') <= ErrCap
    <2>1. errCh' = errCh \/ (errCh # <<>> /\ errCh' = Tail(errCh))
      BY DEF StartFails, StartLoopback, OpenBrowser, AwaitEnds, AwaitError, Exchange, Return,
         Shutdown, Exit
    <2>2. NoOne \in Errors
      BY DEF Errors
    <2>3. QED
      BY <2>1, <2>2, ErrorChannel DEF IInv, TypeOK
  <1>4. TypeOK'
    BY <1>1, <1>2, <1>3 DEF IInv, TypeOK
  <1>5. /\ pc' \in {"browse", "await"} => taken = NoOne /\ result' = "none"
        /\ result' # result => result' # "timeout" \/ taken = NoOne
    BY DEF StartFails, StartLoopback, OpenBrowser, AwaitEnds, AwaitError, Exchange, Return,
       Shutdown, Exit, Finish, IInv, StillWaiting
  <1>6. CompletePageIsTrue'
    BY <1>1, <1>5, LoginAssumption DEF IInv, CompletePageIsTrue
  <1>7. (CodeIsOurs /\ HandlersInOrder)'
    BY <1>1 DEF IInv, CodeIsOurs, HandlersInOrder
  <1>8. StillWaiting'
    BY <1>1, <1>2, <1>5 DEF StillWaiting
  <1>9. QED
    BY <1>3, <1>4, <1>6, <1>7, <1>8 DEF IInv

\* The login takes c's code, the first and the only one.
LEMMA TakeCodeStep ==
  ASSUME IInv, NEW c \in Callbacks, TakeCode(c)
  PROVE  IInv'
  <1>1. /\ pc = "await" /\ step[c] = "code" /\ kind[c] = "good"
        /\ taken = NoOne /\ result = "none"
        /\ pc' = "exchange" /\ taken' = c
        /\ step' = [step EXCEPT ![c] = "page"] /\ page' = [page EXCEPT ![c] = "complete"]
        /\ UNCHANGED <<waitErr, ctxDone, result, serving, errCh, kind>>
    BY DEF TakeCode, context, IInv, StillWaiting, HandlersInOrder
  <1>2. TypeOK'
    BY <1>1 DEF IInv, TypeOK
  <1>3. CompletePageIsTrue'
    <2>1. ASSUME NEW d \in Callbacks, d # c
          PROVE  page'[d] # "complete"
      BY <1>1, <2>1, LoginAssumption DEF IInv, TypeOK, CompletePageIsTrue
    <2>2. QED
      BY <1>1, <2>1 DEF CompletePageIsTrue
  <1>4. CodeIsOurs' /\ StillWaiting'
    BY <1>1 DEF CodeIsOurs, StillWaiting
  <1>5. HandlersInOrder'
    BY <1>1 DEF IInv, TypeOK, HandlersInOrder
  <1>6. QED
    BY <1>1, <1>2, <1>3, <1>4, <1>5 DEF IInv

\* A callback's goroutine does what is not the login's: no page it writes says complete.
LEMMA CallbackStep ==
  ASSUME IInv, NEW c \in Callbacks, Handler(c) \/ \E k \in Kinds : Callback(c, k)
  PROVE  IInv'
  <1>1. UNCHANGED <<pc, taken, result, waitErr, ctxDone, serving>>
    BY DEF Handler, ReportError, Expire, Answer, Callback, login, context
  <1>2. PICK s \in {"code", "error", "page", "answered"}, p \in {"failed", "expired", page[c]},
             k \in Kinds \union {"none"} :
          /\ step' = [step EXCEPT ![c] = s] /\ page' = [page EXCEPT ![c] = p]
          /\ kind' = [kind EXCEPT ![c] = k]
          /\ s = "code" => k = "good"
          /\ \/ step[c] = "none"
             \/ step[c] # "none" /\ k = kind[c] /\ s \in {"page", "answered"}
    <2>1. /\ page = [page EXCEPT ![c] = page[c]] /\ kind = [kind EXCEPT ![c] = kind[c]]
          /\ kind[c] \in Kinds \union {"none"}
      BY DEF IInv, TypeOK
    <2>2. CASE Handler(c)
      BY <2>1, <2>2 DEF Handler, ReportError, Expire, Answer
    <2>3. ASSUME NEW k \in Kinds, Callback(c, k)
          PROVE  /\ step[c] = "none"
                 /\ kind' = [kind EXCEPT ![c] = k] /\ step' = [step EXCEPT ![c] = Sends(k)]
                 /\ Sends(k) \in {"code", "error"} /\ (Sends(k) = "code" => k = "good")
                 /\ \/ page' = [page EXCEPT ![c] = "failed"]
                    \/ page' = [page EXCEPT ![c] = page[c]]
      BY <2>3 DEF Callback, Sends
    <2>4. QED
      BY <2>2, <2>3
  <1>3. errCh' \in Seq(Errors) /\ Len(errCh') <= ErrCap
    <2>1. errCh' = errCh \/ (Len(errCh) < ErrCap /\ errCh' = Append(errCh, c))
      BY DEF Handler, ReportError, Expire, Answer, Callback
    <2>2. c \in Errors
      BY DEF Errors
    <2>3. QED
      BY <2>1, <2>2, ErrorChannel DEF IInv, TypeOK
  <1>4. TypeOK'
    BY <1>1, <1>2, <1>3 DEF IInv, TypeOK
  <1>5. taken = c => step[c] \in {"page", "answered"}
    BY LoginAssumption DEF IInv, HandlersInOrder
  <1>6. CompletePageIsTrue'
    BY <1>1, <1>2 DEF IInv, TypeOK, CompletePageIsTrue
  <1>7. CodeIsOurs' /\ StillWaiting'
    BY <1>1, <1>2, <1>5 DEF IInv, TypeOK, CodeIsOurs, StillWaiting
  <1>8. HandlersInOrder'
    BY <1>1, <1>2, <1>5 DEF IInv, TypeOK, HandlersInOrder
  <1>9. QED
    BY <1>3, <1>4, <1>6, <1>7, <1>8 DEF IInv

\* The server, the timer and the user.
LEMMA OtherStep ==
  ASSUME IInv, ServeFails \/ ReportServeError \/ Deadline \/ Interrupt
  PROVE  IInv'
  <1>1. UNCHANGED <<pc, taken, result, kind, step, page>>
    BY DEF ServeFails, ReportServeError, Deadline, Interrupt, login, callbacks
  <1>2. /\ waitErr' \in {"none", "deadline", "cancelled"} /\ ctxDone' \in BOOLEAN
        /\ serving' \in {"no", "yes", "failing"}
    BY DEF ServeFails, ReportServeError, Deadline, Interrupt, context, IInv, TypeOK
  <1>3. errCh' \in Seq(Errors) /\ Len(errCh') <= ErrCap
    <2>1. errCh' = errCh \/ (Len(errCh) < ErrCap /\ errCh' = Append(errCh, NoOne))
      BY DEF ServeFails, ReportServeError, Deadline, Interrupt
    <2>2. NoOne \in Errors
      BY DEF Errors
    <2>3. QED
      BY <2>1, <2>2, ErrorChannel DEF IInv, TypeOK
  <1>4. TypeOK'
    BY <1>1, <1>2, <1>3 DEF IInv, TypeOK
  <1>5. QED
    BY <1>1, <1>3, <1>4 DEF IInv, CompletePageIsTrue, CodeIsOurs, StillWaiting, HandlersInOrder

\* Every step keeps the invariant.
LEMMA NextIInv == IInv /\ [Next]_vars => IInv'
  <1> SUFFICES ASSUME IInv, [Next]_vars
               PROVE  IInv'
    OBVIOUS
  <1>1. CASE UNCHANGED vars
    BY <1>1 DEF vars, IInv, TypeOK, CompletePageIsTrue, CodeIsOurs, StillWaiting, HandlersInOrder
  <1>2. QED
    BY <1>1, LoginStep, TakeCodeStep, CallbackStep, OtherStep DEF Next, RunLogin

\* So it holds of every reachable state.
LEMMA Invariance == SafeSpec => []IInv
  BY InitIInv, NextIInv, PTL DEF SafeSpec

-----------------------------------------------------------------------------
(* The theorems.                                                           *)

\* The variables keep their types; the error channel never holds more than its buffer takes
\* (awaitCode's make(chan error, 1)).
THEOREM TypeCorrect == SafeSpec => []TypeOK
  BY Invariance, PTL DEF IInv

\* callbackHandler: of any number of browsers, "Authentication complete" reaches only the one
\* whose code this login took, and the login does not then time out.
THEOREM PageIsTrue == SafeSpec => []CompletePageIsTrue
  BY Invariance, PTL DEF IInv

\* callbackHandler checks the state before the code: what is exchanged came with this login's
\* own state.
THEOREM CodeIsOfThisLogin == SafeSpec => []CodeIsOurs
  BY Invariance, PTL DEF IInv

=============================================================================
