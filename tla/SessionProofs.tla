--------------------------- MODULE SessionProofs ---------------------------
(***************************************************************************)
(* For every number of processes, logins and rotations: the two tokens on  *)
(* disk come from one login, a process that is alone keeps its session,    *)
(* and is told that it expired only when it has.                           *)
(***************************************************************************)
EXTENDS Session, TLAPS

-----------------------------------------------------------------------------
(* The inductive invariant.                                                *)

\* The two tokens of f come from one login; there is no refresh token only when the login
\* issued none.
OfOneLogin(f) ==
  IsCreds(f) => /\ f.access <= logins
                /\ IF f.refresh = NoToken THEN ~alive[f.access]
                   ELSE f.refresh.session = f.access

\* What a process has in hand at each step.
HeldInOrder(p) ==
  /\ OfOneLogin(held[p])
  /\ pc[p] \in {"refresh", "revoke"} => IsCreds(held[p]) /\ held[p].refresh # NoToken
  /\ pc[p] \in {"save", "saveLogin"} => IsCreds(held[p])

\* A session that was not opened yet has no tokens.
Unopened == \A s \in Sessions : s > logins => current[s] = 0 /\ ~alive[s]

\* Whoever has f can go on with a session that the server keeps.
Survives(f) == IsCreds(f) /\ alive[f.access] => Live(f.refresh)

\* As long as one process works at a time and every step succeeds, the live refresh token is
\* on disk, except between a refresh and its save, when that process holds it.
Undisturbed ==
  ~disturbed =>
    /\ \A p, q \in Procs : pc[p] # "idle" /\ pc[q] # "idle" => p = q
    /\ (\A p \in Procs : pc[p] # "save") => Survives(file)
    /\ \A p \in Procs : /\ pc[p] = "refresh" => held[p] = file /\ ~file.fresh
                        /\ pc[p] \in {"save", "saveLogin"} => Survives(held[p])

IInv == /\ TypeOK /\ OfOneLogin(file) /\ Unopened /\ Undisturbed
        /\ \A p \in Procs : HeldInOrder(p)
-----------------------------------------------------------------------------
(* The steps.                                                              *)

\* At the start the file is missing or unreadable and nobody has signed in.
LEMMA InitIInv == Init => IInv
  <1> SUFFICES ASSUME Init PROVE IInv
    OBVIOUS
  <1>1. ~IsCreds(file)
    BY DEF Init, IsCreds, NoFile, Corrupt, Blank
  <1>2. TypeOK
    <2>1. 0 \in 0..MaxLogins /\ 0 \in 0..MaxRotations
      BY SessionAssumption
    <2>2. QED
      BY <2>1 DEF Init, TypeOK, Outcomes
  <1>3. Unopened /\ Undisturbed
    BY <1>1 DEF Init, Unopened, Undisturbed, Survives
  <1>4. \A p \in Procs : HeldInOrder(p)
    BY DEF Init, HeldInOrder, OfOneLogin, IsCreds, NoFile
  <1>5. QED
    BY <1>1, <1>2, <1>3, <1>4 DEF IInv, OfOneLogin

\* p goes on to step l with c in hand, and the others stay where they are.
Moves(p, l, c) == pc' = [pc EXCEPT ![p] = l] /\ held' = [held EXCEPT ![p] = c]

\* A step of p moves p alone.
LEMMA Moved ==
  ASSUME TypeOK, NEW p \in Procs, NEW l, NEW c, Moves(p, l, c)
  PROVE  /\ pc'[p] = l /\ held'[p] = c
         /\ \A q \in Procs : q # p => pc'[q] = pc[q] /\ held'[q] = held[q]
  BY DEF TypeOK, Moves

\* Credentials have a kind that a file that is missing, does not parse or is blank has not.
LEMMA NoFileIsNoCreds == ~IsCreds(NoFile) /\ ~IsCreds(Corrupt) /\ ~IsCreds(Blank)
  BY DEF IsCreds, NoFile, Corrupt, Blank

\* Tokens issued by a server are credentials.
LEMMA TokensAre ==
  ASSUME NEW s \in Sessions, NEW rt \in RefreshTokens
  PROVE  /\ Tokens(s, rt) \in Credentials /\ IsCreds(Tokens(s, rt))
         /\ Tokens(s, rt).access = s /\ Tokens(s, rt).refresh = rt
  BY DEF Tokens, Credentials, IsCreds

\* One process goes on to l with c in hand, and neither the file nor the server changes.
LEMMA MoveKeeps ==
  ASSUME IInv, NEW p \in Procs, NEW l, NEW c, Moves(p, l, c), UNCHANGED <<file, server>>,
         TypeOK', disturbed => disturbed',
         pc[p] = "idle" /\ ~disturbed' => Alone(p),
         pc[p] = "save" => disturbed',
         \/ l \in {"idle", "exchange", "delete"} /\ c = NoFile
         \/ l \in {"refresh", "revoke"} /\ c = file /\ IsCreds(file) /\ file.refresh # NoToken,
         l = "refresh" => ~file.fresh
  PROVE  IInv'
  <1>1. /\ pc'[p] = l /\ held'[p] = c
        /\ \A q \in Procs : q # p => pc'[q] = pc[q] /\ held'[q] = held[q]
    BY Moved DEF IInv
  <1>2. UNCHANGED <<file, logins, current, alive>>
    BY DEF server
  <1>3. OfOneLogin(file)' /\ Unopened'
    BY <1>2 DEF IInv, OfOneLogin, Unopened
  <1>4. ASSUME NEW q \in Procs
        PROVE  HeldInOrder(q)'
    BY <1>1, <1>2, NoFileIsNoCreds DEF IInv, HeldInOrder, OfOneLogin
  <1>5. Undisturbed'
    <2> SUFFICES ASSUME ~disturbed' PROVE Undisturbed'
      BY DEF Undisturbed
    <2>1. \A q, r \in Procs : pc'[q] # "idle" /\ pc'[r] # "idle" => q = r
      BY <1>1 DEF IInv, Undisturbed, Alone
    <2>2. (\A q \in Procs : pc[q] # "save") /\ Survives(file)
      <3>1. \A q \in Procs : pc[q] # "save"
        BY DEF IInv, Undisturbed, Alone
      <3>2. QED
        BY <3>1 DEF IInv, Undisturbed
    <2>3. Survives(file)'
      BY <1>2, <2>2 DEF Survives, Live
    <2>4. ASSUME NEW q \in Procs, q # p
          PROVE  /\ pc'[q] = "refresh" => held'[q] = file' /\ ~file'.fresh
                 /\ pc'[q] \in {"save", "saveLogin"} => Survives(held[q])'
      BY <1>1, <1>2, <2>4 DEF IInv, Undisturbed, Survives, Live
    <2>5. QED
      BY <1>1, <1>2, <2>1, <2>3, <2>4 DEF Undisturbed
  <1>6. QED
    BY <1>3, <1>4, <1>5 DEF IInv

\* The steps that only read the file or give up.
LEMMA StillStep ==
  ASSUME IInv, NEW p \in Procs,
         \/ RequireToken(p) \/ RefreshRejected(p) \/ RefreshRefused(p) \/ RefreshFailed(p)
         \/ SaveFailed(p)
         \/ Login(p) \/ LoginFailed(p) \/ Logout(p) \/ DeleteFailed(p) \/ Crash(p)
  PROVE  IInv'
  <1>1. PICK l \in {"idle", "exchange", "delete", "refresh", "revoke"},
             c \in Credentials \union {NoFile}, o \in Outcomes :
          /\ Moves(p, l, c) /\ outcome' = [outcome EXCEPT ![p] = o]
          /\ \/ l \in {"idle", "exchange", "delete"} /\ c = NoFile
             \/ l \in {"refresh", "revoke"} /\ c = file /\ IsCreds(file) /\ file.refresh # NoToken
          /\ l = "refresh" => ~file.fresh
    <2>1. IsCreds(file) => file \in Credentials
      BY NoFileIsNoCreds DEF IInv, TypeOK
    <2>2. CASE RequireToken(p)
      BY <2>1, <2>2 DEF RequireToken, End, Goto, Moves, NeedsRefresh, Outcomes
    <2>3. CASE Logout(p)
      BY <2>1, <2>3 DEF Logout, Goto, Moves, Outcomes
    <2>4. CASE Login(p)
      BY <2>4 DEF Login, Goto, Moves, Outcomes
    <2>5. CASE \/ RefreshRejected(p) \/ RefreshRefused(p) \/ RefreshFailed(p)
               \/ SaveFailed(p) \/ LoginFailed(p) \/ DeleteFailed(p) \/ Crash(p)
      <3>1. PICK o \in Outcomes : End(p, o)
        BY <2>5 DEF RefreshRejected, RefreshRefused, RefreshFailed, SaveFailed, LoginFailed,
           DeleteFailed, Crash, Outcomes
      <3>2. QED
        BY <3>1 DEF End, Moves
    <2>6. QED
      BY <2>2, <2>3, <2>4, <2>5
  <1>2. UNCHANGED <<file, server>>
    BY DEF RequireToken, RefreshRejected, RefreshRefused, RefreshFailed, SaveFailed, Login,
       LoginFailed, Logout, DeleteFailed, Crash
  <1>3. /\ disturbed' \in BOOLEAN
        /\ disturbed => disturbed'
        /\ pc[p] = "idle" /\ ~disturbed' => Alone(p)
        /\ pc[p] = "save" => disturbed'
    BY DEF IInv, TypeOK, RequireToken, RefreshRejected, RefreshRefused, RefreshFailed,
       SaveFailed, Login, LoginFailed, Logout, DeleteFailed, Crash
  <1>4. TypeOK'
    BY <1>1, <1>2, <1>3 DEF IInv, TypeOK, Moves, server
  <1>5. QED
    BY <1>1, <1>2, <1>3, <1>4, MoveKeeps

\* The steps that write the file: it becomes what the process had in hand, or goes.
LEMMA FileStep ==
  ASSUME IInv, NEW p \in Procs, SaveRefreshed(p) \/ SaveLogin(p) \/ DeleteCredentials(p)
  PROVE  IInv'
  <1>1. PICK o \in Outcomes : End(p, o)
    BY DEF SaveRefreshed, SaveLogin, DeleteCredentials, Outcomes
  <1>2. /\ pc'[p] = "idle" /\ held'[p] = NoFile
        /\ \A q \in Procs : q # p => pc'[q] = pc[q] /\ held'[q] = held[q]
    BY <1>1 DEF End, IInv, TypeOK
  <1>3. /\ pc[p] # "idle"
        /\ \/ file' = held[p] /\ pc[p] \in {"save", "saveLogin"}
           \/ file' = NoFile
    BY DEF SaveRefreshed, SaveLogin, DeleteCredentials
  <1>4. UNCHANGED <<logins, current, alive, disturbed>>
    BY DEF SaveRefreshed, SaveLogin, DeleteCredentials, server
  <1>5. TypeOK'
    <2>1. file' \in Credentials \union {NoFile, Corrupt, Blank}
      BY <1>3 DEF IInv, TypeOK
    <2>2. QED
      BY <1>1, <1>4, <2>1 DEF End, IInv, TypeOK
  <1>6. OfOneLogin(file)' /\ Unopened'
    BY <1>3, <1>4, NoFileIsNoCreds DEF IInv, HeldInOrder, OfOneLogin, Unopened
  <1>7. ASSUME NEW q \in Procs
        PROVE  HeldInOrder(q)'
    BY <1>2, <1>4, NoFileIsNoCreds DEF IInv, HeldInOrder, OfOneLogin
  <1>8. Undisturbed'
    <2> SUFFICES ASSUME ~disturbed' PROVE Undisturbed'
      BY DEF Undisturbed
    <2>1. \A q \in Procs : pc'[q] = "idle"
      BY <1>2, <1>3, <1>4 DEF IInv, Undisturbed
    <2>2. Survives(file)'
      BY <1>3, <1>4, NoFileIsNoCreds DEF IInv, Undisturbed, Survives, Live
    <2>3. QED
      BY <2>1, <2>2 DEF Undisturbed
  <1>9. QED
    BY <1>5, <1>6, <1>7, <1>8 DEF IInv

\* The saved access token comes near its end.
LEMMA AgeStep ==
  ASSUME IInv, Age
  PROVE  IInv'
  <1>1. /\ IsCreds(file) /\ file.fresh /\ file' = [file EXCEPT !.fresh = FALSE]
        /\ UNCHANGED <<pc, held, outcome, logins, current, alive, disturbed>>
    BY DEF Age, server
  <1>2. file \in Credentials
    BY <1>1, NoFileIsNoCreds DEF IInv, TypeOK
  <1>3. file' \in Credentials /\ file'.access = file.access /\ file'.refresh = file.refresh
    BY <1>1, <1>2 DEF Credentials
  <1>4. TypeOK'
    BY <1>1, <1>3 DEF IInv, TypeOK
  <1>5. OfOneLogin(file)' /\ Unopened'
    BY <1>1, <1>3 DEF IInv, OfOneLogin, Unopened
  <1>6. \A q \in Procs : HeldInOrder(q)'
    BY <1>1 DEF IInv, HeldInOrder, OfOneLogin
  <1>7. Undisturbed'
    BY <1>1, <1>3 DEF IInv, Undisturbed, Survives, Live
  <1>8. QED
    BY <1>4, <1>5, <1>6, <1>7 DEF IInv

\* A session that ends takes its tokens with it: nothing that survives it becomes stale.
LEMMA DeadSession ==
  ASSUME IInv, NEW s \in Sessions, alive' = [alive EXCEPT ![s] = FALSE],
         UNCHANGED <<logins, current>>
  PROVE  /\ Unopened'
         /\ \A f \in Credentials \union {NoFile, Corrupt, Blank} :
              /\ OfOneLogin(f) => OfOneLogin(f)'
              /\ OfOneLogin(f) /\ Survives(f) => Survives(f)'
  <1>1. /\ alive'[s] = FALSE
        /\ \A u \in Sessions : u # s => alive'[u] = alive[u]
    BY DEF IInv, TypeOK
  <1>2. Unopened'
    BY <1>1 DEF IInv, Unopened
  <1>3. ASSUME NEW f \in Credentials \union {NoFile, Corrupt, Blank}, IsCreds(f), OfOneLogin(f)
        PROVE  OfOneLogin(f)' /\ (Survives(f) => Survives(f)')
    <2>1. f.access \in Sessions
      BY <1>3, NoFileIsNoCreds DEF Credentials
    <2>2. OfOneLogin(f)'
      BY <1>1, <1>3, <2>1 DEF OfOneLogin
    <2>3. Survives(f) => Survives(f)'
      BY <1>1, <1>3, <2>1 DEF OfOneLogin, Survives, Live
    <2>4. QED
      BY <2>2, <2>3
  <1>4. QED
    BY <1>2, <1>3 DEF OfOneLogin, Survives

\* The server may end a session at any time.
LEMMA SessionEndsStep ==
  ASSUME IInv, SessionEnds
  PROVE  IInv'
  <1>1. PICK s \in Sessions : alive' = [alive EXCEPT ![s] = FALSE]
    BY DEF SessionEnds
  <1>2. UNCHANGED <<file, pc, held, outcome, logins, current, disturbed>>
    BY DEF SessionEnds
  <1>3. TypeOK'
    BY <1>1, <1>2 DEF IInv, TypeOK
  <1>4. OfOneLogin(file)' /\ Unopened' /\ (Survives(file) => Survives(file)')
    BY <1>1, <1>2, DeadSession DEF IInv, TypeOK, OfOneLogin, Survives, Live
  <1>5. ASSUME NEW q \in Procs
        PROVE  HeldInOrder(q)' /\ (Survives(held[q]) => Survives(held[q])')
    <2>1. held[q] \in Credentials \union {NoFile, Corrupt, Blank} /\ OfOneLogin(held[q])
      BY DEF IInv, TypeOK, HeldInOrder
    <2>2. OfOneLogin(held[q])' /\ (Survives(held[q]) => Survives(held[q])')
      BY <1>1, <1>2, <2>1, DeadSession DEF OfOneLogin, Survives, Live
    <2>3. QED
      BY <1>2, <2>2 DEF IInv, HeldInOrder
  <1>6. Undisturbed'
    BY <1>2, <1>4, <1>5 DEF IInv, Undisturbed
  <1>7. QED
    BY <1>3, <1>4, <1>5, <1>6 DEF IInv

\* logout revokes the session it loaded, or fails to.
LEMMA RevokeStep ==
  ASSUME IInv, NEW p \in Procs, Revoke(p)
  PROVE  IInv'
  <1>1. /\ pc[p] = "revoke" /\ Moves(p, "delete", NoFile)
        /\ outcome' = [outcome EXCEPT ![p] = "none"]
        /\ UNCHANGED <<file, logins, current, disturbed>>
    BY DEF Revoke, Goto, Moves
  <1>2. /\ pc'[p] = "delete" /\ held'[p] = NoFile
        /\ \A q \in Procs : q # p => pc'[q] = pc[q] /\ held'[q] = held[q]
    BY <1>1, Moved DEF IInv
  <1>3. UNCHANGED alive \/ \E s \in Sessions : alive' = [alive EXCEPT ![s] = FALSE]
    BY NoFileIsNoCreds
       DEF Revoke, IInv, TypeOK, HeldInOrder, Credentials, RefreshTokens
  <1>4. TypeOK'
    BY <1>1, <1>3 DEF IInv, TypeOK, Moves, Outcomes
  <1>5. /\ Unopened'
        /\ \A f \in Credentials \union {NoFile, Corrupt, Blank} :
             /\ OfOneLogin(f) => OfOneLogin(f)'
             /\ OfOneLogin(f) /\ Survives(f) => Survives(f)'
    <2>1. CASE UNCHANGED alive
      BY <1>1, <2>1 DEF IInv, Unopened, OfOneLogin, Survives, Live
    <2>2. CASE \E s \in Sessions : alive' = [alive EXCEPT ![s] = FALSE]
      BY <1>1, <2>2, DeadSession
    <2>3. QED
      BY <1>3, <2>1, <2>2
  <1>6. OfOneLogin(file)' /\ (Survives(file) => Survives(file)')
    BY <1>1, <1>5 DEF IInv, TypeOK, OfOneLogin, Survives, Live
  <1>7. ASSUME NEW q \in Procs
        PROVE  HeldInOrder(q)'
    <2>1. OfOneLogin(held[q]) => OfOneLogin(held[q])'
      <3>1. /\ held'[q] \in {held[q], NoFile}
            /\ held[q] \in Credentials \union {NoFile, Corrupt, Blank}
        BY <1>2 DEF IInv, TypeOK
      <3>2. QED
        BY <1>5, <3>1, NoFileIsNoCreds DEF OfOneLogin
    <2>2. QED
      BY <1>2, <2>1 DEF IInv, HeldInOrder
  <1>8. Undisturbed'
    BY <1>1, <1>2, <1>6 DEF IInv, Undisturbed
  <1>9. QED
    BY <1>4, <1>5, <1>6, <1>7, <1>8 DEF IInv

\* A refresh: whoever did it holds the session's live refresh token.
LEMMA RefreshedStep ==
  ASSUME IInv, NEW p \in Procs, Refreshed(p)
  PROVE  IInv'
  <1> DEFINE s == held[p].refresh.session
             k(rt) == KeptRefreshToken(p, rt)
  <1>1. /\ pc[p] = "refresh" /\ held[p].refresh # NoToken /\ alive[s]
        /\ held[p].refresh.serial = current[s]
        /\ UNCHANGED <<file, logins, alive>>
    BY DEF Refreshed, Live
  <1>2. /\ IsCreds(held[p]) /\ held[p] \in Credentials /\ held[p].refresh \in RefreshTokens
        /\ s = held[p].access /\ s \in Sessions /\ s <= logins
    BY <1>1, NoFileIsNoCreds DEF IInv, TypeOK, HeldInOrder, OfOneLogin, Credentials, RefreshTokens
  <1>3. PICK rt \in RefreshTokens :
          /\ \/ rt = NoToken /\ current' = current
             \/ /\ rt = [session |-> s, serial |-> current[s] + 1] /\ current[s] < MaxRotations
                /\ current' = [current EXCEPT ![s] = current[s] + 1]
          /\ \/ Goto(p, "save", Tokens(s, k(rt))) /\ UNCHANGED disturbed
             \/ \E o \in {"error", "expired"} : End(p, o) /\ disturbed'
    <2>1. PICK rotate \in BOOLEAN :
            LET rt == IF rotate THEN [session |-> s, serial |-> current[s] + 1] ELSE NoToken
            IN  /\ rotate => current[s] < MaxRotations
                /\ current' = IF rotate THEN [current EXCEPT ![s] = @ + 1] ELSE current
                /\ \/ Goto(p, "save", Tokens(s, k(rt))) /\ UNCHANGED disturbed
                   \/ (\E o \in {"error", "expired"} : End(p, o)) /\ disturbed' = TRUE
      BY DEF Refreshed
    <2>2. NoToken \in RefreshTokens
      BY DEF RefreshTokens
    <2>3. current[s] < MaxRotations
            => [session |-> s, serial |-> current[s] + 1] \in RefreshTokens \ {NoToken}
      BY <1>2, SessionAssumption DEF RefreshTokens, NoToken, IInv, TypeOK, Sessions
    <2>4. QED
      BY <2>1, <2>2, <2>3
  <1> HIDE DEF s
  <1>4. /\ current' \in [Sessions -> 0..MaxRotations]
        /\ \A u \in Sessions : u # s => current'[u] = current[u]
    BY <1>2, <1>3, SessionAssumption DEF IInv, TypeOK
  <1>5. /\ k(rt) \in RefreshTokens /\ k(rt) # NoToken
        /\ k(rt).session = s /\ k(rt).serial = current'[s]
    <2>1. CASE rt = NoToken /\ current' = current
      BY <1>1, <1>2, <2>1 DEF KeptRefreshToken, s
    <2>2. CASE /\ rt = [session |-> s, serial |-> current[s] + 1]
               /\ current' = [current EXCEPT ![s] = current[s] + 1]
      <3>1. rt # NoToken
        BY <1>2, <2>2 DEF NoToken, Sessions
      <3>2. current'[s] = current[s] + 1
        BY <1>2, <2>2 DEF IInv, TypeOK
      <3>3. QED
        BY <1>3, <2>2, <3>1, <3>2 DEF KeptRefreshToken
    <2>3. QED
      BY <1>3, <2>1, <2>2
  <1>6. PICK T \in Credentials : /\ T = Tokens(s, k(rt))
                                 /\ IsCreds(T) /\ T.access = s /\ T.refresh = k(rt)
    BY <1>2, <1>5, TokensAre
  <1> HIDE DEF k
  <1>7. Unopened' /\ OfOneLogin(file)' /\ OfOneLogin(T)'
    BY <1>1, <1>2, <1>4, <1>5, <1>6 DEF IInv, Unopened, OfOneLogin
  <1>8. CASE Goto(p, "save", T) /\ UNCHANGED disturbed
    <2>1. /\ pc'[p] = "save" /\ held'[p] = T
          /\ \A q \in Procs : q # p => pc'[q] = pc[q] /\ held'[q] = held[q]
      BY <1>8 DEF Goto, IInv, TypeOK
    <2>2. TypeOK'
      BY <1>1, <1>4, <1>6, <1>8 DEF Goto, IInv, TypeOK, Outcomes
    <2>3. ASSUME NEW q \in Procs
          PROVE  HeldInOrder(q)'
      BY <1>1, <1>6, <1>7, <2>1 DEF IInv, HeldInOrder, OfOneLogin
    <2>4. Survives(T)'
      BY <1>1, <1>5, <1>6 DEF Survives, Live
    <2>5. Undisturbed'
      BY <1>1, <1>8, <2>1, <2>4 DEF IInv, Undisturbed
    <2>6. QED
      BY <1>7, <2>2, <2>3, <2>5 DEF IInv
  <1>9. CASE \E o \in {"error", "expired"} : End(p, o) /\ disturbed'
    <2>1. PICK o \in {"error", "expired"} : End(p, o)
      BY <1>9
    <2>2. /\ pc'[p] = "idle" /\ held'[p] = NoFile
          /\ \A q \in Procs : q # p => pc'[q] = pc[q] /\ held'[q] = held[q]
      BY <2>1 DEF End, IInv, TypeOK
    <2>3. disturbed' = TRUE
      BY <1>8, <1>9 DEF Refreshed
    <2>4. TypeOK'
      BY <1>1, <1>4, <2>1, <2>3 DEF End, IInv, TypeOK, Outcomes
    <2>5. ASSUME NEW q \in Procs
          PROVE  HeldInOrder(q)'
      BY <1>1, <2>2, NoFileIsNoCreds DEF IInv, HeldInOrder, OfOneLogin
    <2>6. QED
      BY <1>7, <2>3, <2>4, <2>5 DEF IInv, Undisturbed
  <1>10. QED
    BY <1>3, <1>6, <1>8, <1>9

\* A login opens a session, and whoever did it holds its tokens.
LEMMA ExchangedStep ==
  ASSUME IInv, NEW p \in Procs, Exchanged(p)
  PROVE  IInv'
  <1> DEFINE s == logins + 1
  <1>1. /\ pc[p] = "exchange" /\ logins' = s /\ s \in Sessions
        /\ UNCHANGED <<file, current, disturbed>>
    BY SessionAssumption DEF Exchanged, IInv, TypeOK, Sessions
  <1>2. PICK rt \in {[session |-> s, serial |-> 0], NoToken} :
          /\ alive' = [alive EXCEPT ![s] = (rt # NoToken)]
          /\ Goto(p, "saveLogin", Tokens(s, rt))
    BY DEF Exchanged
  <1> HIDE DEF s
  <1>3. [session |-> s, serial |-> 0] \in RefreshTokens \ {NoToken}
    BY <1>1, SessionAssumption DEF RefreshTokens, NoToken, Sessions
  <1>4. rt \in RefreshTokens
    BY <1>2, <1>3 DEF RefreshTokens
  <1>5. PICK T \in Credentials : /\ T = Tokens(s, rt)
                                 /\ IsCreds(T) /\ T.access = s /\ T.refresh = rt
    BY <1>1, <1>4, TokensAre
  <1>6. /\ alive'[s] = (rt # NoToken)
        /\ \A u \in Sessions : u # s => alive'[u] = alive[u]
    BY <1>1, <1>2 DEF IInv, TypeOK
  <1>7. /\ pc'[p] = "saveLogin" /\ held'[p] = T
        /\ \A q \in Procs : q # p => pc'[q] = pc[q] /\ held'[q] = held[q]
    BY <1>2, <1>5 DEF Goto, IInv, TypeOK
  <1>8. TypeOK'
    <2>1. logins' \in 0..MaxLogins
      BY <1>1, SessionAssumption DEF Sessions
    <2>2. alive' \in [Sessions -> BOOLEAN]
      BY <1>1, <1>2 DEF IInv, TypeOK
    <2>3. held' \in [Procs -> Credentials \union {NoFile}]
      BY <1>2, <1>5 DEF Goto, IInv, TypeOK
    <2>4. QED
      BY <1>1, <1>2, <2>1, <2>2, <2>3 DEF Goto, IInv, TypeOK, Outcomes
  \* The tokens of the sessions opened before are the same.
  <1>9. ASSUME NEW f \in Credentials \union {NoFile, Corrupt, Blank}, OfOneLogin(f)
        PROVE  OfOneLogin(f)' /\ (Survives(f) => Survives(f)')
    <2> SUFFICES ASSUME IsCreds(f)
                 PROVE  OfOneLogin(f)' /\ (Survives(f) => Survives(f)')
      BY DEF OfOneLogin, Survives
    <2>1. f.access \in Sessions /\ f.access <= logins /\ f.access # s
      BY <1>9, NoFileIsNoCreds DEF Credentials, OfOneLogin, s, IInv, TypeOK, Sessions
    <2>2. alive'[f.access] = alive[f.access] /\ f.access <= logins'
      BY <1>1, <1>6, <2>1 DEF s, IInv, TypeOK, Sessions
    <2>3. OfOneLogin(f)'
      BY <1>9, <2>2 DEF OfOneLogin
    <2>4. Survives(f) => Survives(f)'
      BY <1>1, <1>9, <2>1, <2>2 DEF OfOneLogin, Survives, Live
    <2>5. QED
      BY <2>3, <2>4
  <1>10. OfOneLogin(T)' /\ Survives(T)'
    <2>1. current'[s] = 0
      BY <1>1 DEF IInv, Unopened, TypeOK, s
    <2>2. rt # NoToken => rt.session = s /\ rt.serial = 0
      BY <1>2
    <2>3. s <= logins'
      BY <1>1 DEF Sessions
    <2>4. QED
      BY <1>5, <1>6, <2>1, <2>2, <2>3 DEF OfOneLogin, Survives, Live
  <1>11. Unopened'
    <2> SUFFICES ASSUME NEW u \in Sessions, u > logins'
                 PROVE  current'[u] = 0 /\ ~alive'[u]
      BY DEF Unopened
    <2>1. u > logins /\ u # s
      BY <1>1 DEF s, Sessions, IInv, TypeOK
    <2>2. QED
      BY <1>1, <1>6, <2>1 DEF IInv, Unopened
  <1>12. OfOneLogin(file)' /\ (Survives(file) => Survives(file)')
    BY <1>1, <1>9 DEF IInv, TypeOK, OfOneLogin, Survives, Live
  <1>13. ASSUME NEW q \in Procs
         PROVE  HeldInOrder(q)'
    <2>1. CASE q = p
      BY <1>5, <1>7, <1>10, <2>1 DEF HeldInOrder, OfOneLogin
    <2>2. CASE q # p
      <3>1. held[q] \in Credentials \union {NoFile, Corrupt, Blank} /\ OfOneLogin(held[q])
        BY DEF IInv, TypeOK, HeldInOrder
      <3>2. OfOneLogin(held[q])'
        BY <1>7, <1>9, <2>2, <3>1 DEF OfOneLogin
      <3>3. QED
        BY <1>7, <2>2, <3>2 DEF IInv, HeldInOrder
    <2>3. QED
      BY <2>1, <2>2
  <1>14. Undisturbed'
    <2> SUFFICES ASSUME ~disturbed' PROVE Undisturbed'
      BY DEF Undisturbed
    <2>1. \A q \in Procs : q # p => pc'[q] = "idle"
      BY <1>1, <1>7 DEF IInv, Undisturbed
    <2>2. Survives(file)'
      BY <1>1, <1>12 DEF IInv, Undisturbed
    <2>3. Survives(held[p])'
      BY <1>7, <1>10 DEF Survives, Live
    <2>4. QED
      BY <1>7, <2>1, <2>2, <2>3 DEF Undisturbed
  <1>15. QED
    BY <1>8, <1>11, <1>12, <1>13, <1>14 DEF IInv

\* Every step keeps the invariant.
LEMMA NextIInv == IInv /\ [Next]_vars => IInv'
  <1> SUFFICES ASSUME IInv, [Next]_vars
               PROVE  IInv'
    OBVIOUS
  <1>1. ASSUME NEW p \in Procs, Step(p)
        PROVE  IInv'
    BY <1>1, StillStep, FileStep, RefreshedStep, ExchangedStep, RevokeStep DEF Step
  <1>2. CASE UNCHANGED vars
    BY <1>2 DEF vars, IInv, TypeOK, OfOneLogin, Unopened, Undisturbed, Survives, Live, HeldInOrder
  <1>3. QED
    BY <1>1, <1>2, AgeStep, SessionEndsStep DEF Next

\* So it holds of every reachable state.
LEMMA Invariance == Spec => []IInv
  BY InitIInv, NextIInv, PTL DEF Spec

-----------------------------------------------------------------------------
(* The theorems.                                                           *)

\* The variables keep their types: a process never goes on with credentials it has not got
\* (RequireToken, logout).
THEOREM TypeCorrect == Spec => []TypeOK
  BY Invariance, PTL DEF IInv

\* RequireToken's "keep the existing one": the two tokens on disk come from one login, in
\* whatever order processes refresh, sign in, sign out, fail and are killed.
THEOREM OneLoginOnDisk == Spec => []FileKeepsItsSession
  <1>1. IInv => FileKeepsItsSession
    BY DEF IInv, OfOneLogin, FileKeepsItsSession
  <1>2. QED
    BY <1>1, Invariance, PTL

\* Save after a rotating refresh: used by one process at a time, the file holds the live
\* refresh token of a session that the server keeps.
THEOREM SessionSurvives == Spec => []LoneSessionSurvives
  <1>1. IInv => LoneSessionSurvives
    BY DEF IInv, Undisturbed, Survives, LoneSessionSurvives
  <1>2. QED
    BY <1>1, Invariance, PTL

\* RequireToken returns auth_required to a process that is alone only when the session is
\* over, and never for an answer that is 429, 5xx or missing.
THEOREM ExpiryIsTrue == Spec => LoneExpiryIsTrue
  <1>1. ASSUME IInv, [Next]_vars, NEW p \in Procs, TellsExpired(p), ~disturbed'
        PROVE  IsCreds(file) /\ ~file.fresh /\ ~alive[file.access]
    <2>1. CASE UNCHANGED vars \/ Age \/ SessionEnds
      BY <1>1, <2>1 DEF TellsExpired, vars, Age, SessionEnds
    <2>2. ASSUME NEW q \in Procs, Step(q), q # p
          PROVE  FALSE
      <3>1. \E o : outcome' = [outcome EXCEPT ![q] = o]
        BY <2>2 DEF Step, RequireToken, Refreshed, RefreshRejected, RefreshRefused, RefreshFailed,
           SaveRefreshed, SaveFailed, Login, Exchanged, LoginFailed, SaveLogin, Logout, Revoke,
           DeleteCredentials, DeleteFailed, Crash, End, Goto
      <3>2. QED
        BY <1>1, <2>2, <3>1 DEF TellsExpired, IInv, TypeOK
    <2>3. CASE RequireToken(p)
      BY <1>1, <2>3 DEF TellsExpired, RequireToken, End, Goto, IInv, TypeOK, OfOneLogin
    <2>4. CASE Refreshed(p)
      BY <1>1, <2>4 DEF TellsExpired, Refreshed, Goto, IInv, TypeOK
    <2>5. CASE RefreshRejected(p)
      <3>1. /\ pc[p] = "refresh" /\ ~Live(held[p].refresh) /\ ~disturbed
        BY <1>1, <2>5 DEF RefreshRejected
      <3>2. held[p] = file /\ ~file.fresh /\ Survives(file) /\ IsCreds(held[p])
        BY <1>1, <3>1 DEF IInv, Undisturbed, HeldInOrder
      <3>3. QED
        BY <3>1, <3>2 DEF Survives
    <2>6. CASE \/ RefreshFailed(p) \/ SaveRefreshed(p) \/ SaveFailed(p) \/ Login(p)
               \/ Exchanged(p) \/ LoginFailed(p) \/ SaveLogin(p) \/ Logout(p) \/ Revoke(p)
               \/ DeleteCredentials(p) \/ DeleteFailed(p) \/ Crash(p)
      <3>1. \E o \in {"error", "none", "token", "signedIn", "signedOut"} :
              outcome' = [outcome EXCEPT ![p] = o]
        BY <2>6 DEF RefreshFailed, SaveRefreshed, SaveFailed, Login, Exchanged, LoginFailed,
           SaveLogin, Logout, Revoke, DeleteCredentials, DeleteFailed, Crash, End, Goto
      <3>2. QED
        BY <1>1, <3>1 DEF TellsExpired, IInv, TypeOK
    <2>7. CASE RefreshRefused(p)
      BY <1>1, <2>7 DEF RefreshRefused
    <2>8. QED
      BY <1>1, <2>1, <2>2, <2>3, <2>4, <2>5, <2>6, <2>7 DEF Next, Step
  <1>2. IInv /\ [Next]_vars
          => [\A p \in Procs : TellsExpired(p) /\ ~disturbed' =>
                IsCreds(file) /\ ~file.fresh /\ ~alive[file.access]]_vars
    BY <1>1
  <1>3. QED
    BY <1>2, Invariance, PTL DEF Spec, LoneExpiryIsTrue

=============================================================================
