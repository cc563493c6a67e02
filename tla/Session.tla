------------------------------ MODULE Session ------------------------------
(***************************************************************************)
(* The signed-in session: wcloud processes that share one credentials file *)
(* (src/internal/auth/provider.go, credentials.go, exchange.go, revoke.go) *)
(* and the authorization server.  A process loads the file, may refresh    *)
(* its tokens, and saves what it got, with no lock between the three; a    *)
(* login and a logout write the same file.  The file itself is read and    *)
(* replaced atomically, as AtomicFile shows.                               *)
(*                                                                         *)
(* The server issues a refresh token with each login and may replace it at *)
(* each refresh; the one it replaced is dead.  Answers can be lost, saves  *)
(* can fail and processes can be killed between two steps.                 *)
(***************************************************************************)
EXTENDS Integers

CONSTANTS Procs,       \* the processes
          MaxLogins,   \* bound: how many logins there are
          MaxRotations \* bound: how often the server replaces a refresh token

ASSUME SessionAssumption == MaxLogins \in Nat /\ MaxRotations \in Nat

VARIABLES
  file,      \* the credentials file of the active profile
  pc,        \* of each process: "idle" or what it does next
  held,      \* of each process: the credentials it loaded, or the tokens it was issued
  outcome,   \* of each process: how its last command ended, if it is over
  logins,    \* the sessions the server has opened: 1..logins
  current,   \* per session: which of its refresh tokens is the live one
  alive,     \* per session: it has a refresh token and neither ended nor was revoked
  disturbed  \* something else happened than one process at a time whose steps all succeed

vars == <<file, pc, held, outcome, logins, current, alive, disturbed>>

-----------------------------------------------------------------------------
(* Values.                                                                 *)

Sessions == 1..MaxLogins

\* A token's session, 0 for no token.
NoToken == [session |-> 0, serial |-> 0]
RefreshTokens == [session : Sessions, serial : 0..MaxRotations] \union {NoToken}

\* Credentials on disk: the session of the access token, whether it has more than
\* expirySkew left, and the refresh token.
Credentials == [kind : {"creds"}, access : Sessions, fresh : BOOLEAN, refresh : RefreshTokens]

NoFile == [kind |-> "none"]
Corrupt == [kind |-> "corrupt"]

\* A file without an access token, which saveCredentials does not write.
Blank == [kind |-> "blank"]

IsCreds(f) == f.kind = "creds"

\* What saveCredentials writes of the tokens a server issued.
Tokens(s, rt) == [kind |-> "creds", access |-> s, fresh |-> TRUE, refresh |-> rt]

\* The server would accept the refresh token.
Live(rt) == rt # NoToken /\ alive[rt.session] /\ rt.serial = current[rt.session]

\* A command that found these credentials could get an access token.
Usable(f) == IsCreds(f) /\ (f.fresh \/ Live(f.refresh))

Outcomes == {"none", "token", "notSignedIn", "corrupt", "expired", "error",
             "signedIn", "signedOut"}

-----------------------------------------------------------------------------
Init == /\ file \in {NoFile, Corrupt, Blank}
        /\ pc = [p \in Procs |-> "idle"]
        /\ held = [p \in Procs |-> NoFile]
        /\ outcome = [p \in Procs |-> "none"]
        /\ logins = 0
        /\ current = [s \in Sessions |-> 0]
        /\ alive = [s \in Sessions |-> FALSE]
        /\ disturbed = FALSE

server == <<logins, current, alive>>

Alone(p) == \A q \in Procs \ {p} : pc[q] = "idle"

\* p's command ends with o.
End(p, o) == /\ pc' = [pc EXCEPT ![p] = "idle"]
             /\ held' = [held EXCEPT ![p] = NoFile]
             /\ outcome' = [outcome EXCEPT ![p] = o]

BugRefreshCorrupt(f) == f = Corrupt \/ (IsCreds(f) /\ ~f.fresh /\ f.refresh # NoToken)

\* tokenExpiring, and there is something to refresh the token with.
NeedsRefresh(f) == IsCreds(f) /\ ~f.fresh /\ f.refresh # NoToken

\* p goes on to step l with c in hand.
Goto(p, l, c) == /\ pc' = [pc EXCEPT ![p] = l]
                 /\ held' = [held EXCEPT ![p] = c]
                 /\ outcome' = [outcome EXCEPT ![p] = "none"]

\* RequireToken: load the file, and hand out its access token or go on to refresh it.  The
\* load can fail for other reasons than a file that is not there or does not parse.
RequireToken(p) ==
  /\ pc[p] = "idle"
  /\ \/ End(p, "error")
     \/ file \in {NoFile, Blank} /\ End(p, "notSignedIn")
     \/ file = Corrupt /\ End(p, "corrupt")
     \/ IsCreds(file) /\ file.fresh /\ End(p, "token")
     \/ IsCreds(file) /\ ~file.fresh /\ file.refresh = NoToken /\ End(p, "expired")
     \/ NeedsRefresh(file) /\ Goto(p, "refresh", file)
  /\ disturbed' = (disturbed \/ ~Alone(p))
  /\ UNCHANGED <<file, server>>

BugIgnoreRotation(p, rt) == held[p].refresh
BugKeepTheFilesToken(p, rt) ==
  IF rt = NoToken /\ IsCreds(file) THEN file.refresh ELSE rt

\* The refresh token that is saved: the one that was sent when the answer has none.
KeptRefreshToken(p, rt) == IF rt = NoToken THEN held[p].refresh ELSE rt

\* The server takes the refresh token and issues an access token, with a new refresh
\* token, which kills the old one, or without one.  The answer reaches p, is lost, or
\* lacks the access token, which p takes for the end of the session.
Refreshed(p) ==
  /\ pc[p] = "refresh"
  /\ Live(held[p].refresh)
  /\ \E rotate \in BOOLEAN :
       LET s == held[p].refresh.session
           rt == IF rotate THEN [session |-> s, serial |-> current[s] + 1] ELSE NoToken
       IN  /\ rotate => current[s] < MaxRotations
           /\ current' = IF rotate THEN [current EXCEPT ![s] = @ + 1] ELSE current
           /\ \/ /\ Goto(p, "save", Tokens(s, KeptRefreshToken(p, rt)))
                 /\ UNCHANGED disturbed
              \/ /\ \E o \in {"error", "expired"} : End(p, o)
                 /\ disturbed' = TRUE
  /\ UNCHANGED <<file, logins, alive>>

\* The server answers 4xx because the token is not, or no longer, one it accepts.
RefreshRejected(p) ==
  /\ pc[p] = "refresh"
  /\ ~Live(held[p].refresh)
  /\ End(p, "expired")
  /\ UNCHANGED <<file, server, disturbed>>

\* The server answers 4xx, but not 429, for another reason: the code tells no difference.
RefreshRefused(p) ==
  /\ pc[p] = "refresh"
  /\ Live(held[p].refresh)
  /\ End(p, "expired")
  /\ disturbed' = TRUE
  /\ UNCHANGED <<file, server>>

BugTransientIsExpiry(p) ==
  /\ pc[p] = "refresh"
  /\ End(p, "expired")
  /\ UNCHANGED <<file, server, disturbed>>

\* 429, 5xx, or no connection: transient.
RefreshFailed(p) ==
  /\ pc[p] = "refresh"
  /\ End(p, "error")
  /\ UNCHANGED <<file, server, disturbed>>

\* p.Save(refreshed)
SaveRefreshed(p) ==
  /\ pc[p] = "save"
  /\ file' = held[p]
  /\ End(p, "token")
  /\ UNCHANGED <<server, disturbed>>

SaveFailed(p) ==
  /\ pc[p] \in {"save", "saveLogin"}
  /\ End(p, "error")
  /\ disturbed' = TRUE
  /\ UNCHANGED <<file, server>>

\* auth login: the browser flow, then Save.
Login(p) ==
  /\ pc[p] = "idle"
  /\ Goto(p, "exchange", NoFile)
  /\ disturbed' = (disturbed \/ ~Alone(p))
  /\ UNCHANGED <<file, server>>

Exchanged(p) ==
  /\ pc[p] = "exchange"
  /\ logins < MaxLogins
  /\ logins' = logins + 1
  /\ \E rt \in {[session |-> logins + 1, serial |-> 0], NoToken} :
       /\ alive' = [alive EXCEPT ![logins + 1] = (rt # NoToken)]
       /\ Goto(p, "saveLogin", Tokens(logins + 1, rt))
  /\ UNCHANGED <<file, current, disturbed>>

LoginFailed(p) ==
  /\ pc[p] = "exchange"
  /\ End(p, "error")
  /\ UNCHANGED <<file, server, disturbed>>

SaveLogin(p) ==
  /\ pc[p] = "saveLogin"
  /\ file' = held[p]
  /\ End(p, "signedIn")
  /\ UNCHANGED <<server, disturbed>>

\* auth logout: load, revoke if there is something to revoke, delete.  A load that fails
\* only leaves out the revocation.
Logout(p) ==
  /\ pc[p] = "idle"
  /\ \/ IsCreds(file) /\ file.refresh # NoToken /\ Goto(p, "revoke", file)
     \/ Goto(p, "delete", NoFile)
  /\ disturbed' = (disturbed \/ ~Alone(p))
  /\ UNCHANGED <<file, server>>

\* The server revokes the session, or the request fails, which is only a warning.
Revoke(p) ==
  /\ pc[p] = "revoke"
  /\ \/ /\ Live(held[p].refresh)
        /\ alive' = [alive EXCEPT ![held[p].refresh.session] = FALSE]
     \/ UNCHANGED alive
  /\ Goto(p, "delete", NoFile)
  /\ UNCHANGED <<file, logins, current, disturbed>>

DeleteCredentials(p) ==
  /\ pc[p] = "delete"
  /\ file' = NoFile
  /\ End(p, "signedOut")
  /\ UNCHANGED <<server, disturbed>>

DeleteFailed(p) ==
  /\ pc[p] = "delete"
  /\ End(p, "error")
  /\ disturbed' = TRUE
  /\ UNCHANGED <<file, server>>

\* p is killed or interrupted in the middle of a command.
Crash(p) ==
  /\ pc[p] # "idle"
  /\ End(p, "error")
  /\ disturbed' = TRUE
  /\ UNCHANGED <<file, server>>

\* The saved access token comes within expirySkew of its end.
Age == /\ IsCreds(file)
       /\ file.fresh
       /\ file' = [file EXCEPT !.fresh = FALSE]
       /\ UNCHANGED <<pc, held, outcome, server, disturbed>>

\* The server ends a session: too old, or revoked elsewhere.
SessionEnds == /\ \E s \in Sessions : alive[s] /\ alive' = [alive EXCEPT ![s] = FALSE]
               /\ UNCHANGED <<file, pc, held, outcome, logins, current, disturbed>>

Step(p) == \/ RequireToken(p) \/ Refreshed(p) \/ RefreshRejected(p)
           \/ RefreshRefused(p) \/ RefreshFailed(p) \/ SaveRefreshed(p) \/ SaveFailed(p)
           \/ Login(p) \/ Exchanged(p) \/ LoginFailed(p) \/ SaveLogin(p)
           \/ Logout(p) \/ Revoke(p) \/ DeleteCredentials(p) \/ DeleteFailed(p)
           \/ Crash(p)

Next == Age \/ SessionEnds \/ \E p \in Procs : Step(p)

Spec == Init /\ [][Next]_vars

-----------------------------------------------------------------------------
(* Properties.                                                             *)

TypeOK ==
  /\ file \in Credentials \union {NoFile, Corrupt, Blank}
  /\ pc \in [Procs -> {"idle", "refresh", "save", "exchange", "saveLogin", "revoke", "delete"}]
  /\ held \in [Procs -> Credentials \union {NoFile}]
  /\ outcome \in [Procs -> Outcomes]
  /\ logins \in 0..MaxLogins
  /\ current \in [Sessions -> 0..MaxRotations]
  /\ alive \in [Sessions -> BOOLEAN]
  /\ disturbed \in BOOLEAN

\* However processes interleave, fail and are killed, the two tokens on disk come from
\* one login: a refresh answered without a refresh token neither drops the one the file
\* holds nor takes one over that another login has put there meanwhile (RequireToken's
\* "keep the existing one ... so the next refresh still works").
FileKeepsItsSession ==
  IsCreds(file) =>
    IF file.refresh = NoToken THEN ~alive[file.access] ELSE file.refresh.session = file.access

\* Used by one process at a time, with no step failing, the file never loses a session the
\* server still keeps: the refresh token on disk is the live one, rotated or not.
LoneSessionSurvives ==
  ~disturbed /\ (\A p \in Procs : pc[p] = "idle") /\ IsCreds(file) /\ alive[file.access]
    => Live(file.refresh)

\* A process is told that the session expired: every step that does so.
TellsExpired(p) == outcome[p] # "expired" /\ outcome'[p] = "expired"

\* Alone, a process that is told to sign in again really has no session left: a server
\* that is busy, or not there, is not an expired session.  A server that answers a token it
\* would accept with 4xx, or without an access token, has disturbed the process.
LoneExpiryIsTrue ==
  [][\A p \in Procs : TellsExpired(p) /\ ~disturbed' =>
       IsCreds(file) /\ ~file.fresh /\ ~alive[file.access]]_vars

\* RequireToken's comment, for any number of processes: auth_required is returned when
\* there is no usable session.  (RefreshRefused, where the server is to blame, is left aside.)
ExpiredMeansNoSession == [][\A p \in Procs : RefreshRejected(p) => ~Usable(file)]_vars

=============================================================================
