--------------------------- MODULE ProfilesProofs ---------------------------
(***************************************************************************)
(* For every number of processes, names and profiles created: the active   *)
(* profile exists, and used by one process at a time the files are as the  *)
(* commands reported them, and credentials belong to their profile.        *)
(***************************************************************************)
EXTENDS Profiles, TLAPS

-----------------------------------------------------------------------------
(* The inductive invariant.                                                *)

\* However stale the profiles a process holds, their active one is among them, and so is the
\* one it will make active.
HeldInOrder(p) ==
  /\ Exists(held[p], held[p].active)
  /\ pc[p] = "use" => Exists(held[p], target[p])
  /\ pc[p] \in {"create", "delete", "deleteCredentials"} => target[p] \in Names

\* n's credentials, if it has any, were obtained for the profile n is now.
Belongs(n) == creds[n] # SignedOut => Exists(store, n) /\ creds[n] = Generation(store, n)

Existing == {n \in Names : Exists(store, n)}

\* What the only process that is working has found, and will find again when it saves; a
\* deleted profile is out of profiles.json before its credentials are, and before the report.
InHand(p) ==
  /\ pc[p] \in {"create", "use", "delete"} => held[p] = store
  /\ pc[p] = "create" => ~Exists(store, target[p])
  /\ pc[p] \in {"signIn", "refresh"}
       => Exists(store, target[p]) /\ mine[p] = Generation(store, target[p])
  /\ pc[p] = "refresh" => creds[target[p]] # SignedOut
  /\ pc[p] = "deleteCredentials" =>
       /\ ~Exists(store, target[p])
       /\ store.active = IF told.active = target[p] THEN Default ELSE told.active
       /\ Existing = told.profiles \ {target[p]}
       /\ \A n \in AllNames \ {target[p]} : Belongs(n)

Undisturbed ==
  ~disturbed =>
    /\ \A p, q \in Procs : pc[p] # "idle" /\ pc[q] # "idle" => p = q
    /\ told.signedIn = {n \in AllNames : creds[n] # SignedOut}
    /\ (\A p \in Procs : pc[p] # "deleteCredentials")
         => /\ told.active = store.active /\ told.profiles = Existing
            /\ \A n \in AllNames : Belongs(n)
    /\ \A p \in Procs : InHand(p)

IInv == TypeOK /\ ActiveExists /\ Undisturbed /\ \A p \in Procs : HeldInOrder(p)

-----------------------------------------------------------------------------
(* The steps.                                                              *)

\* Without profiles.json there is the default profile alone.
LEMMA NoProfilesHold == /\ NoProfiles \in Stores /\ NoProfiles.active = Default
                        /\ Exists(NoProfiles, Default)
                        /\ \A n \in Names : ~Exists(NoProfiles, n)
  BY ProfilesAssumption DEF NoProfiles, Stores, AllNames, Exists, Absent

\* At the start there is no profiles.json.
LEMMA InitIInv == Init => IInv
  <1> SUFFICES ASSUME Init PROVE IInv
    OBVIOUS
  <1>1. TypeOK
    <2>1. 0 \in 0..MaxCreated /\ SignedOut \in SignedOut..MaxCreated /\ Default \in AllNames
      BY ProfilesAssumption DEF SignedOut, AllNames
    <2>2. [active |-> Default, profiles |-> {}, signedIn |-> {}] \in Reports
      BY <2>1 DEF Reports
    <2>3. QED
      BY <2>1, <2>2, NoProfilesHold DEF Init, TypeOK
  <1>2. ActiveExists
    BY NoProfilesHold DEF Init, ActiveExists
  <1>3. \A p \in Procs : HeldInOrder(p)
    BY NoProfilesHold DEF Init, HeldInOrder
  <1>4. Existing = {}
    BY NoProfilesHold DEF Init, Existing
  <1>5. Undisturbed
    BY <1>4, NoProfilesHold DEF Init, Undisturbed, Belongs, InHand
  <1>6. QED
    BY <1>1, <1>2, <1>3, <1>5 DEF IInv

\* A process that is over holds nothing, and the others are where they were.
LEMMA Ended ==
  ASSUME TypeOK, NEW p \in Procs, End(p)
  PROVE  /\ pc'[p] = "idle" /\ HeldInOrder(p)'
         /\ \A q \in Procs : q # p => /\ pc'[q] = pc[q] /\ target'[q] = target[q]
                                     /\ held'[q] = held[q] /\ mine'[q] = mine[q]
         /\ pc' \in [Procs -> {"idle", "create", "use", "delete", "deleteCredentials",
                              "signIn", "refresh", "signOut"}]
         /\ target' \in [Procs -> AllNames]
         /\ held' \in [Procs -> Stores]
         /\ mine' \in [Procs -> SignedOut..MaxCreated]
  <1>1. pc'[p] = "idle" /\ held'[p] = NoProfiles
    BY DEF End, TypeOK
  <1>2. HeldInOrder(p)'
    BY <1>1, NoProfilesHold DEF HeldInOrder
  <1>3. SignedOut \in SignedOut..MaxCreated
    BY ProfilesAssumption DEF SignedOut
  <1>4. QED
    BY <1>1, <1>2, <1>3, NoProfilesHold DEF End, TypeOK, AllNames

\* Whether what was done could be told or not, what is told is a report.
LEMMA Reported ==
  ASSUME TypeOK, NEW r \in Reports, Report(r) \/ (disturbed' = TRUE /\ told' \in {r, told})
  PROVE  told' \in Reports /\ disturbed' \in BOOLEAN
  BY DEF Report, TypeOK

\* A process that was alone leaves none at work.
LEMMA LoneEnds ==
  ASSUME IInv, NEW p \in Procs, pc[p] # "idle", End(p), ~disturbed,
         told'.signedIn = {n \in AllNames : creds'[n] # SignedOut},
         told'.active = store'.active, told'.profiles = Existing',
         \A n \in AllNames : Belongs(n)'
  PROVE  Undisturbed'
  <1>1. \A q \in Procs : pc'[q] = "idle"
    BY Ended DEF IInv, Undisturbed
  <1>2. \A q \in Procs : InHand(q)'
    BY <1>1 DEF InHand
  <1>3. QED
    BY <1>1, <1>2 DEF Undisturbed

\* The active profile exists, and so its name has a generation.
LEMMA ExistingNames ==
  ASSUME TypeOK
  PROVE  /\ ActiveProfile(store) \in AllNames /\ Exists(store, ActiveProfile(store))
         /\ \A n \in AllNames : Generation(store, n) \in 0..MaxCreated
  BY ProfilesAssumption
     DEF TypeOK, Stores, ActiveProfile, Exists, Generation, Builtin, AllNames

\* A command begins: it takes hold of what is on disk.
LEMMA BeginStep ==
  ASSUME IInv, NEW p \in Procs,
         \/ \E n \in Names : LoadToCreate(p, n) \/ LoadToDelete(p, n)
         \/ \E n \in AllNames : LoadToUse(p, n)
         \/ Login(p) \/ Refresh(p) \/ Logout(p)
  PROVE  IInv'
  <1>1. PICK l \in {"create", "delete", "use", "signIn", "refresh", "signOut"},
             n \in AllNames, h \in {store, held[p]}, m \in SignedOut..MaxCreated :
          /\ Begin(p, l, n)
          /\ held' = [held EXCEPT ![p] = h] /\ mine' = [mine EXCEPT ![p] = m]
          /\ l \in {"create", "delete", "use"} => h = store
          /\ l \in {"create", "delete"} => n \in Names
          /\ l = "create" => ~Exists(store, n)
          /\ l \in {"use", "signIn", "refresh", "signOut"} => Exists(store, n)
          /\ l = "signIn" => m = Generation(store, n)
          /\ l = "refresh" => m = creds[n] /\ creds[n] # SignedOut
    <2>1. held = [held EXCEPT ![p] = held[p]] /\ mine = [mine EXCEPT ![p] = mine[p]]
      BY DEF IInv, TypeOK
    <2>2. mine[p] \in SignedOut..MaxCreated /\ Names \subseteq AllNames
      BY DEF IInv, TypeOK, AllNames
    <2>3. CASE \E n \in Names : LoadToCreate(p, n)
      BY <2>1, <2>2, <2>3 DEF LoadToCreate, BeginLoaded
    <2>4. CASE \E n \in Names : LoadToDelete(p, n)
      BY <2>1, <2>2, <2>4 DEF LoadToDelete, BeginLoaded
    <2>5. CASE \E n \in AllNames : LoadToUse(p, n)
      BY <2>1, <2>2, <2>5 DEF LoadToUse, BeginLoaded
    <2>6. CASE Login(p)
      <3>1. Generation(store, ActiveProfile(store)) \in SignedOut..MaxCreated
        BY ExistingNames, ProfilesAssumption DEF IInv, SignedOut
      <3>2. QED
        BY <2>1, <2>6, <3>1, ExistingNames DEF Login, IInv
    <2>7. CASE Refresh(p)
      <3>1. creds[ActiveProfile(store)] \in SignedOut..MaxCreated
        BY ExistingNames DEF IInv, TypeOK
      <3>2. QED
        BY <2>1, <2>7, <3>1, ExistingNames DEF Refresh, IInv
    <2>8. CASE Logout(p)
      BY <2>1, <2>2, <2>8, ExistingNames DEF Logout, IInv
    <2>9. QED
      BY <2>3, <2>4, <2>5, <2>6, <2>7, <2>8
  <1>2. UNCHANGED <<store, creds, created, told>>
    BY DEF LoadToCreate, LoadToDelete, LoadToUse, Login, Refresh, Logout, disk
  <1>3. /\ pc[p] = "idle" /\ pc'[p] = l /\ target'[p] = n /\ held'[p] = h /\ mine'[p] = m
        /\ \A q \in Procs : q # p => /\ pc'[q] = pc[q] /\ target'[q] = target[q]
                                    /\ held'[q] = held[q] /\ mine'[q] = mine[q]
        /\ disturbed' = (disturbed \/ ~Alone(p))
    BY <1>1 DEF Begin, IInv, TypeOK
  <1>4. TypeOK'
    <2>1. h \in Stores
      BY <1>1 DEF IInv, TypeOK
    <2>2. QED
      BY <1>1, <1>2, <2>1 DEF IInv, TypeOK, Begin
  <1>5. ActiveExists'
    BY <1>2 DEF IInv, ActiveExists
  <1>6. ASSUME NEW q \in Procs
        PROVE  HeldInOrder(q)'
    BY <1>1, <1>3 DEF IInv, HeldInOrder, ActiveExists
  <1>7. Undisturbed'
    <2> SUFFICES ASSUME ~disturbed' PROVE Undisturbed'
      BY DEF Undisturbed
    <2>1. ~disturbed /\ \A q \in Procs : pc[q] = "idle"
      BY <1>3 DEF Alone
    <2>2. /\ told.active = store.active /\ told.profiles = Existing
          /\ told.signedIn = {k \in AllNames : creds[k] # SignedOut}
          /\ \A k \in AllNames : Belongs(k)
      BY <2>1 DEF IInv, Undisturbed
    <2>3. InHand(p)'
      <3>1. l = "refresh" => m = Generation(store, n)
        BY <1>1, <2>2 DEF Belongs
      <3>2. QED
        BY <1>1, <1>2, <1>3, <3>1 DEF InHand
    <2>4. \A q \in Procs : q # p => InHand(q)'
      BY <1>3, <2>1 DEF InHand
    <2>5. /\ Existing' = Existing
          /\ \A k \in AllNames : Belongs(k)'
      BY <1>2, <2>2 DEF Existing, Belongs
    <2>6. QED
      BY <1>2, <1>3, <2>1, <2>2, <2>3, <2>4, <2>5 DEF Undisturbed
  <1>8. QED
    BY <1>4, <1>5, <1>6, <1>7 DEF IInv

\* A command that is given up or killed changes neither file.
LEMMA GiveUpStep ==
  ASSUME IInv, NEW p \in Procs, GiveUp(p) \/ Crash(p)
  PROVE  IInv'
  <1>1. /\ End(p) /\ UNCHANGED <<store, creds, created, told>> /\ disturbed' \in BOOLEAN
        /\ ~disturbed' => ~disturbed /\ pc[p] \notin {"idle", "deleteCredentials"}
    BY DEF GiveUp, Crash, disk, IInv, TypeOK
  <1>2. TypeOK'
    BY <1>1, Ended DEF IInv, TypeOK
  <1>3. ActiveExists'
    BY <1>1 DEF IInv, ActiveExists
  <1>4. ASSUME NEW q \in Procs
        PROVE  HeldInOrder(q)'
    BY <1>1, Ended DEF IInv, HeldInOrder
  <1>5. Undisturbed'
    <2> SUFFICES ASSUME ~disturbed' PROVE Undisturbed'
      BY DEF Undisturbed
    <2>1. \A q \in Procs : pc[q] # "deleteCredentials"
      BY <1>1 DEF IInv, Undisturbed
    <2>2. /\ told'.active = store'.active /\ told'.profiles = Existing'
          /\ told'.signedIn = {n \in AllNames : creds'[n] # SignedOut}
          /\ \A n \in AllNames : Belongs(n)'
      BY <1>1, <2>1 DEF IInv, Undisturbed, Existing, Belongs
    <2>3. QED
      BY <1>1, <2>2, LoneEnds
  <1>6. QED
    BY <1>2, <1>3, <1>4, <1>5 DEF IInv

\* profile create saves the profiles it loaded, with one of a generation of its own.
LEMMA SaveCreatedStep ==
  ASSUME IInv, NEW p \in Procs, SaveCreated(p)
  PROVE  IInv'
  <1> DEFINE n == target[p]
  <1>1. /\ pc[p] = "create" /\ n \in Names /\ created < MaxCreated /\ created' = created + 1
        /\ created' \in 1..MaxCreated
        /\ End(p) /\ UNCHANGED creds
    BY ProfilesAssumption DEF SaveCreated, IInv, TypeOK, HeldInOrder
  <1>2. PICK setActive \in BOOLEAN :
          /\ store' = [active |-> IF setActive THEN n ELSE held[p].active,
                       gen |-> [held[p].gen EXCEPT ![n] = created + 1]]
          /\ Report([told EXCEPT !.profiles = @ \union {n},
                                 !.active = IF setActive THEN n ELSE @])
    BY DEF SaveCreated
  <1>3. /\ held[p] \in Stores /\ n \in AllNames
        /\ held[p].active \in AllNames /\ held[p].gen \in [Names -> 0..MaxCreated]
    BY <1>1 DEF IInv, TypeOK, Stores, AllNames
  <1>4. /\ store'.active = IF setActive THEN n ELSE held[p].active
        /\ store'.gen = [held[p].gen EXCEPT ![n] = created']
        /\ \A k \in Names : store'.gen[k] = IF k = n THEN created' ELSE held[p].gen[k]
    BY <1>1, <1>2, <1>3
  <1>5. store' \in Stores
    BY <1>1, <1>2, <1>3 DEF Stores
  <1>6. PICK r \in Reports : /\ Report(r) /\ r.signedIn = told.signedIn
                             /\ r.active = IF setActive THEN n ELSE told.active
                             /\ r.profiles = told.profiles \union {n}
    <2> DEFINE r == [told EXCEPT !.profiles = @ \union {n},
                                 !.active = IF setActive THEN n ELSE @]
    <2>1. /\ r \in Reports /\ r.signedIn = told.signedIn
          /\ r.active = IF setActive THEN n ELSE told.active
          /\ r.profiles = told.profiles \union {n}
      BY <1>1, <1>3 DEF IInv, TypeOK, Reports
    <2> HIDE DEF r
    <2>2. QED
      BY <1>2, <2>1 DEF r
  <1> HIDE DEF n
  <1>7. TypeOK'
    <2>1. told' \in Reports /\ disturbed' \in BOOLEAN
      BY <1>6, Reported DEF IInv
    <2>2. QED
      BY <1>1, <1>5, <2>1, Ended DEF IInv, TypeOK
  <1>8. Exists(store', n) /\ \A k \in AllNames : k # n => Exists(store', k) = Exists(held[p], k)
    <2>1. n # Default /\ created' # Absent
      BY <1>1, ProfilesAssumption DEF Absent
    <2>2. Exists(store', n)
      BY <1>1, <1>4, <2>1 DEF Exists
    <2>3. ASSUME NEW k \in AllNames, k # n
          PROVE  Exists(store', k) = Exists(held[p], k)
      BY <1>4, <2>3 DEF Exists, AllNames
    <2>4. QED
      BY <2>2, <2>3
  <1>9. ActiveExists'
    BY <1>3, <1>4, <1>8 DEF IInv, ActiveExists, HeldInOrder
  <1>10. ASSUME NEW q \in Procs
         PROVE  HeldInOrder(q)'
    BY <1>1, Ended DEF IInv, HeldInOrder
  <1>11. Undisturbed'
    <2> SUFFICES ASSUME ~disturbed' PROVE Undisturbed'
      BY DEF Undisturbed
    <2>1. /\ ~disturbed /\ told' = r /\ held[p] = store /\ ~Exists(store, n)
          /\ \A q \in Procs : pc[q] # "deleteCredentials"
      BY <1>1, <1>6 DEF Report, IInv, Undisturbed, InHand, n
    <2>2. /\ told.active = store.active /\ told.profiles = Existing
          /\ told.signedIn = {k \in AllNames : creds[k] # SignedOut}
          /\ \A k \in AllNames : Belongs(k)
      BY <2>1 DEF IInv, Undisturbed
    <2>3. told'.profiles = Existing'
      BY <1>1, <1>6, <1>8, <2>1, <2>2 DEF Existing, AllNames
    <2>4. told'.active = store'.active
      BY <1>4, <1>6, <2>1, <2>2
    <2>5. ASSUME NEW k \in AllNames
          PROVE  Belongs(k)'
      <3>1. CASE k = n
        BY <1>1, <1>3, <2>1, <2>2, <3>1 DEF Belongs
      <3>2. CASE k # n
        <4>1. Generation(store', k) = Generation(store, k)
          BY <1>4, <2>1, <3>2 DEF Generation, AllNames
        <4>2. QED
          BY <1>1, <1>8, <2>1, <2>2, <3>2, <4>1 DEF Belongs
      <3>3. QED
        BY <3>1, <3>2
    <2>6. QED
      BY <1>1, <1>6, <2>1, <2>2, <2>3, <2>4, <2>5, LoneEnds
  <1>12. QED
    BY <1>7, <1>9, <1>10, <1>11 DEF IInv

\* use saves the profiles it loaded, with the target, which was among them, active.
LEMMA SaveUsedStep ==
  ASSUME IInv, NEW p \in Procs, SaveUsed(p)
  PROVE  IInv'
  <1>1. /\ pc[p] = "use" /\ store' = [held[p] EXCEPT !.active = target[p]]
        /\ Report([told EXCEPT !.active = target[p]])
        /\ End(p) /\ UNCHANGED <<creds, created>>
    BY DEF SaveUsed
  <1>2. held[p] \in Stores /\ target[p] \in AllNames /\ Exists(held[p], target[p])
    BY <1>1 DEF IInv, TypeOK, HeldInOrder
  <1>3. store' \in Stores /\ store'.active = target[p] /\ store'.gen = held[p].gen
    BY <1>1, <1>2 DEF Stores
  <1>4. PICK r \in Reports : /\ Report(r) /\ r.active = target[p]
                             /\ r.profiles = told.profiles /\ r.signedIn = told.signedIn
    BY <1>1, <1>2 DEF IInv, TypeOK, Reports
  <1>5. TypeOK'
    BY <1>1, <1>3, <1>4, Ended, Reported DEF IInv, TypeOK
  <1>6. ActiveExists'
    BY <1>2, <1>3 DEF ActiveExists, Exists
  <1>7. ASSUME NEW q \in Procs
        PROVE  HeldInOrder(q)'
    BY <1>1, Ended DEF IInv, HeldInOrder
  <1>8. Undisturbed'
    <2> SUFFICES ASSUME ~disturbed' PROVE Undisturbed'
      BY DEF Undisturbed
    <2>1. /\ ~disturbed /\ told' = r /\ held[p] = store
          /\ \A q \in Procs : pc[q] # "deleteCredentials"
      BY <1>1, <1>4 DEF Report, IInv, Undisturbed, InHand
    <2>2. /\ told.profiles = Existing
          /\ told.signedIn = {k \in AllNames : creds[k] # SignedOut}
          /\ \A k \in AllNames : Belongs(k)
      BY <2>1 DEF IInv, Undisturbed
    <2>3. Existing' = Existing /\ \A k \in AllNames : Belongs(k)'
      BY <1>1, <1>3, <2>1, <2>2 DEF Existing, Belongs, Exists, Generation
    <2>4. QED
      BY <1>1, <1>3, <1>4, <2>1, <2>2, <2>3, LoneEnds
  <1>9. QED
    BY <1>5, <1>6, <1>7, <1>8 DEF IInv

\* profile delete: the profile goes first, and with it its being the active one.
LEMMA SaveDeletedStep ==
  ASSUME IInv, NEW p \in Procs, SaveDeleted(p)
  PROVE  IInv'
  <1> DEFINE n == target[p]
  <1>1. /\ pc[p] = "delete" /\ n \in Names /\ store' = Without(held[p], n)
        /\ pc' = [pc EXCEPT ![p] = "deleteCredentials"]
        /\ UNCHANGED <<creds, created, target, held, mine, told, disturbed>>
    BY DEF SaveDeleted, IInv, HeldInOrder
  <1>2. held[p] \in Stores
    BY DEF IInv, TypeOK
  <1>3. /\ store' \in Stores
        /\ store'.active = IF held[p].active = n THEN Default ELSE held[p].active
        /\ \A k \in Names : store'.gen[k] = IF k = n THEN Absent ELSE held[p].gen[k]
    BY <1>1, <1>2, ProfilesAssumption DEF Without, Stores, AllNames, Absent
  <1>4. /\ pc'[p] = "deleteCredentials"
        /\ \A q \in Procs : q # p => pc'[q] = pc[q]
    BY <1>1 DEF IInv, TypeOK
  <1> HIDE DEF n
  <1>5. TypeOK'
    BY <1>1, <1>3 DEF IInv, TypeOK
  <1>6. ~Exists(store', n) /\ \A k \in AllNames : k # n => Exists(store', k) = Exists(held[p], k)
    BY <1>1, <1>3, ProfilesAssumption DEF Exists, AllNames
  <1>7. ActiveExists'
    <2>1. held[p].active \in AllNames /\ Exists(held[p], held[p].active)
      BY <1>2 DEF Stores, IInv, HeldInOrder
    <2>2. QED
      BY <1>3, <1>6, <2>1 DEF ActiveExists, Exists
  <1>8. ASSUME NEW q \in Procs
        PROVE  HeldInOrder(q)'
    BY <1>1, <1>4 DEF IInv, HeldInOrder, n
  <1>9. Undisturbed'
    <2> SUFFICES ASSUME ~disturbed' PROVE Undisturbed'
      BY DEF Undisturbed
    <2>1. /\ ~disturbed /\ held[p] = store
          /\ \A q \in Procs : q # p => pc[q] = "idle"
          /\ \A q \in Procs : pc[q] # "deleteCredentials"
      BY <1>1 DEF IInv, Undisturbed, InHand
    <2>2. /\ told.active = store.active /\ told.profiles = Existing
          /\ told.signedIn = {k \in AllNames : creds[k] # SignedOut}
          /\ \A k \in AllNames : Belongs(k)
      BY <2>1 DEF IInv, Undisturbed
    <2>3. Existing' = told.profiles \ {n}
      BY <1>6, <2>1, <2>2 DEF Existing, AllNames
    <2>4. ASSUME NEW k \in AllNames, k # n
          PROVE  Belongs(k)'
      <3>1. Generation(store', k) = Generation(store, k)
        BY <1>3, <2>1, <2>4 DEF Generation, AllNames
      <3>2. QED
        BY <1>1, <1>6, <2>1, <2>2, <2>4, <3>1 DEF Belongs
    <2>5. InHand(p)'
      BY <1>1, <1>3, <1>4, <1>6, <2>1, <2>2, <2>3, <2>4 DEF InHand, n
    <2>6. \A q \in Procs : q # p => InHand(q)'
      BY <1>4, <2>1 DEF InHand
    <2>7. QED
      BY <1>1, <1>4, <2>1, <2>2, <2>5, <2>6 DEF Undisturbed
  <1>10. QED
    BY <1>5, <1>7, <1>8, <1>9 DEF IInv

\* delete removes the credentials, or warns that it could not.
LEMMA DeleteCredentialsStep ==
  ASSUME IInv, NEW p \in Procs, DeleteCredentials(p)
  PROVE  IInv'
  <1> DEFINE n == target[p]
  <1>1. /\ pc[p] = "deleteCredentials" /\ n \in Names
        /\ End(p) /\ UNCHANGED <<store, created>>
    BY DEF DeleteCredentials, IInv, HeldInOrder
  <1>2. PICK r \in Reports :
          /\ r.active = IF told.active = n THEN Default ELSE told.active
          /\ r.profiles = told.profiles \ {n}
          /\ r.signedIn = told.signedIn \ {n}
          /\ \/ creds' = [creds EXCEPT ![n] = SignedOut] /\ Report(r)
             \/ disturbed' = TRUE /\ told' \in {r, told} /\ creds' = creds
    <2> DEFINE r == [told EXCEPT !.profiles = @ \ {n}, !.signedIn = @ \ {n},
                                 !.active = IF @ = n THEN Default ELSE @]
    <2>1. /\ r \in Reports
          /\ r.active = IF told.active = n THEN Default ELSE told.active
          /\ r.profiles = told.profiles \ {n} /\ r.signedIn = told.signedIn \ {n}
      BY <1>1 DEF IInv, TypeOK, Reports, AllNames
    <2>2. \/ creds' = [creds EXCEPT ![n] = SignedOut] /\ Report(r)
          \/ disturbed' = TRUE /\ told' \in {r, told} /\ creds' = creds
      BY DEF DeleteCredentials
    <2> HIDE DEF r
    <2>3. QED
      BY <2>1, <2>2
  <1>3. creds' \in [AllNames -> SignedOut..MaxCreated] /\ disturbed' \in BOOLEAN
    <2>1. SignedOut \in SignedOut..MaxCreated
      BY ProfilesAssumption DEF SignedOut
    <2>2. disturbed' \in BOOLEAN
      BY <1>2, Reported DEF IInv
    <2>3. creds' = creds \/ creds' = [creds EXCEPT ![n] = SignedOut]
      BY <1>2
    <2>4. QED
      BY <2>1, <2>2, <2>3 DEF IInv, TypeOK
  <1>4. TypeOK'
    <2>1. told' \in Reports
      BY <1>2, Reported DEF IInv, TypeOK
    <2>2. QED
      BY <1>1, <1>3, <2>1, Ended DEF IInv, TypeOK
  <1>5. ActiveExists'
    BY <1>1 DEF IInv, ActiveExists
  <1>6. ASSUME NEW q \in Procs
        PROVE  HeldInOrder(q)'
    BY <1>1, Ended DEF IInv, HeldInOrder
  <1>7. Undisturbed'
    <2> SUFFICES ASSUME ~disturbed' PROVE Undisturbed'
      BY DEF Undisturbed
    <2>1. /\ ~disturbed /\ told' = r /\ creds'[n] = SignedOut
          /\ \A k \in AllNames : k # n => creds'[k] = creds[k]
      BY <1>1, <1>2 DEF Report, IInv, TypeOK, AllNames
    <2>2. /\ store.active = IF told.active = n THEN Default ELSE told.active
          /\ Existing = told.profiles \ {n}
          /\ \A k \in AllNames \ {n} : Belongs(k)
          /\ told.signedIn = {k \in AllNames : creds[k] # SignedOut}
      BY <1>1, <2>1 DEF IInv, Undisturbed, InHand
    <2>3. told'.signedIn = {k \in AllNames : creds'[k] # SignedOut}
      BY <1>2, <2>1, <2>2
    <2>4. \A k \in AllNames : Belongs(k)'
      BY <1>1, <2>1, <2>2 DEF Belongs
    <2>5. told'.active = store'.active /\ told'.profiles = Existing'
      BY <1>1, <1>2, <2>1, <2>2 DEF Existing
    <2>6. QED
      BY <1>1, <2>1, <2>3, <2>4, <2>5, LoneEnds
  <1>8. QED
    BY <1>4, <1>5, <1>6, <1>7 DEF IInv

\* Signing in, refreshing and signing out write the target's credentials file alone.
LEMMA CredentialsStep ==
  ASSUME IInv, NEW p \in Procs, SaveCredentials(p) \/ SignOut(p)
  PROVE  IInv'
  <1> DEFINE n == target[p]
  <1>1. PICK c \in SignedOut..MaxCreated :
          /\ creds' = [creds EXCEPT ![n] = c]
          /\ \/ pc[p] \in {"signIn", "refresh"} /\ c = mine[p]
             \/ pc[p] = "signOut" /\ c = SignedOut
    <2>1. SignedOut \in SignedOut..MaxCreated
      BY ProfilesAssumption DEF SignedOut
    <2>2. QED
      BY <2>1 DEF SaveCredentials, SignOut, IInv, TypeOK
  <1>2. End(p) /\ n \in AllNames /\ UNCHANGED <<store, created>>
    BY DEF SaveCredentials, SignOut, IInv, TypeOK
  <1>3. PICK r \in Reports :
          /\ Report(r) /\ r.active = told.active /\ r.profiles = told.profiles
          /\ r.signedIn = CASE pc[p] = "signIn"  -> told.signedIn \union {n}
                            [] pc[p] = "signOut" -> told.signedIn \ {n}
                            [] OTHER             -> told.signedIn
    <2>1. told \in Reports
      BY DEF IInv, TypeOK
    <2>2. CASE UNCHANGED <<told, disturbed>> /\ pc[p] = "refresh"
      BY <2>1, <2>2 DEF Report
    <2>3. CASE Report([told EXCEPT !.signedIn = @ \union {n}]) /\ pc[p] = "signIn"
      BY <1>2, <2>1, <2>3 DEF Reports
    <2>4. CASE Report([told EXCEPT !.signedIn = @ \ {n}]) /\ pc[p] = "signOut"
      BY <1>2, <2>1, <2>4 DEF Reports
    <2>5. QED
      BY <2>2, <2>3, <2>4 DEF SaveCredentials, SignOut
  <1>4. TypeOK'
    BY <1>1, <1>2, <1>3, Ended, Reported DEF IInv, TypeOK
  <1>5. ActiveExists'
    BY <1>2 DEF IInv, ActiveExists
  <1>6. ASSUME NEW q \in Procs
        PROVE  HeldInOrder(q)'
    BY <1>2, Ended DEF IInv, HeldInOrder
  <1>7. Undisturbed'
    <2> SUFFICES ASSUME ~disturbed' PROVE Undisturbed'
      BY DEF Undisturbed
    <2>1. ~disturbed /\ told' = r /\ \A q \in Procs : pc[q] # "deleteCredentials"
      BY <1>1, <1>2, <1>3 DEF Report, IInv, Undisturbed
    <2>2. /\ told.active = store.active /\ told.profiles = Existing
          /\ told.signedIn = {k \in AllNames : creds[k] # SignedOut}
          /\ \A k \in AllNames : Belongs(k)
      BY <2>1 DEF IInv, Undisturbed
    <2>3. creds'[n] = c /\ \A k \in AllNames : k # n => creds'[k] = creds[k]
      BY <1>1, <1>2 DEF IInv, TypeOK
    <2>4. CASE pc[p] \in {"signIn", "refresh"}
      <3>1. /\ Exists(store, n) /\ c = Generation(store, n) /\ c # SignedOut
            /\ pc[p] = "refresh" => creds[n] # SignedOut
        BY <1>1, <1>2, <2>1, <2>4, ExistingNames DEF IInv, Undisturbed, InHand, SignedOut
      <3>2. told'.signedIn = {k \in AllNames : creds'[k] # SignedOut}
        BY <1>2, <1>3, <2>1, <2>2, <2>3, <2>4, <3>1
      <3>3. \A k \in AllNames : Belongs(k)'
        BY <1>2, <2>2, <2>3, <3>1 DEF Belongs
      <3>4. Existing' = Existing
        BY <1>2 DEF Existing
      <3>5. QED
        BY <1>2, <1>3, <2>1, <2>2, <2>4, <3>2, <3>3, <3>4, LoneEnds
    <2>5. CASE pc[p] = "signOut"
      <3>1. told'.signedIn = {k \in AllNames : creds'[k] # SignedOut}
        BY <1>1, <1>2, <1>3, <2>1, <2>2, <2>3, <2>5
      <3>2. \A k \in AllNames : Belongs(k)'
        BY <1>1, <1>2, <2>2, <2>3, <2>5 DEF Belongs
      <3>3. Existing' = Existing
        BY <1>2 DEF Existing
      <3>4. QED
        BY <1>2, <1>3, <2>1, <2>2, <2>5, <3>1, <3>2, <3>3, LoneEnds
    <2>6. QED
      BY <1>1, <2>4, <2>5
  <1>8. QED
    BY <1>4, <1>5, <1>6, <1>7 DEF IInv

\* Every step keeps the invariant.
LEMMA NextIInv == IInv /\ [Next]_vars => IInv'
  <1> SUFFICES ASSUME IInv, [Next]_vars
               PROVE  IInv'
    OBVIOUS
  <1>1. ASSUME NEW p \in Procs, Step(p)
        PROVE  IInv'
    BY <1>1, BeginStep, GiveUpStep, SaveCreatedStep, SaveUsedStep, SaveDeletedStep,
       DeleteCredentialsStep, CredentialsStep DEF Step
  <1>2. CASE UNCHANGED vars
    BY <1>2 DEF vars, IInv, TypeOK, ActiveExists, Undisturbed, HeldInOrder, InHand, Belongs,
       Existing
  <1>3. QED
    BY <1>1, <1>2 DEF Next

\* So it holds of every reachable state.
LEMMA Invariance == Spec => []IInv
  BY InitIInv, NextIInv, PTL DEF Spec

-----------------------------------------------------------------------------
(* The theorems.                                                           *)

\* The variables keep their types: what a profile command saves is again a profiles.json
\* (SaveProfiles), and a credentials file is one that some sign-in wrote.
THEOREM TypeCorrect == Spec => []TypeOK
  BY Invariance, PTL DEF IInv

\* profile use, create and delete: however stale the profiles that they save, the active one
\* is among them.
THEOREM ActiveProfileExists == Spec => []ActiveExists
  BY Invariance, PTL DEF IInv

\* Used by one process at a time, profiles.json and the credentials files are as the commands
\* reported them.
THEOREM ReportsAreTrue == Spec => []LoneReportsAreTrue
  <1>1. IInv => LoneReportsAreTrue
    BY DEF IInv, Undisturbed, Existing, LoneReportsAreTrue, Settled
  <1>2. QED
    BY <1>1, Invariance, PTL

\* profile delete removes the credentials with the profile: one that is created later under
\* the same name starts signed out.
THEOREM CredentialsBelong == Spec => []LoneCredentialsBelong
  <1>1. IInv => LoneCredentialsBelong
    BY DEF IInv, Undisturbed, Belongs, LoneCredentialsBelong, Settled
  <1>2. QED
    BY <1>1, Invariance, PTL

=============================================================================
