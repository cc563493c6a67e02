------------------------------ MODULE Profiles ------------------------------
(***************************************************************************)
(* The profiles of a user and their sign-ins: wcloud processes that share  *)
(* profiles.json (src/internal/config/profile.go, command/profile/*.go)    *)
(* and one credentials file per profile.  A profile command loads the      *)
(* whole file, talks to the user and saves the whole file, with no lock; a *)
(* process resolves the active profile once, when it starts (factory.New), *)
(* and reads and writes that profile's credentials from then on.           *)
(*                                                                         *)
(* Both files are cells (FileCell).  A profile's settings are abstracted   *)
(* to which of the creations of that name it comes from, its generation,   *)
(* and credentials to the generation they were obtained for.               *)
(***************************************************************************)
EXTENDS Integers

CONSTANTS Procs,       \* the processes
          Names,       \* the names of profiles, without the built-in one
          Default,     \* DefaultProfileName
          MaxCreated   \* bound: how many profiles are ever created

ASSUME ProfilesAssumption == Default \notin Names /\ MaxCreated \in Nat

VARIABLES
  store,      \* profiles.json: the active name, and the generation of each profile
  creds,      \* of each profile: the generation its credentials file is for
  created,    \* generations so far
  pc,         \* of each process: "idle" or the step it takes next
  target,     \* of each process: the profile its command is about
  held,       \* of each process: the profiles it loaded
  mine,       \* of each process: the credentials' generation it will save
  told,       \* what the commands have reported, in the order in which they ended
  disturbed   \* processes have overlapped, or one was killed, could not delete or report

vars == <<store, creds, created, pc, target, held, mine, told, disturbed>>

-----------------------------------------------------------------------------
(* Values.                                                                 *)

Absent == 0        \* no such profile
Builtin == 0       \* the generation of the default profile, which is never stored
SignedOut == -1    \* no credentials file

AllNames == Names \union {Default}

\* A missing profiles.json reads as the default profile alone.
NoProfiles == [active |-> Default, gen |-> [n \in Names |-> Absent]]

Stores == [active : AllNames, gen : [Names -> 0..MaxCreated]]

Exists(s, n) == IF n = Default THEN TRUE ELSE s.gen[n] # Absent

\* ActiveProfile falls back to the default when the active one does not exist.
ActiveProfile(s) == IF Exists(s, s.active) THEN s.active ELSE Default

Generation(s, n) == IF n = Default THEN Builtin ELSE s.gen[n]

\* What the reports add up to.
Reports == [active : AllNames, profiles : SUBSET Names, signedIn : SUBSET AllNames]

-----------------------------------------------------------------------------
Init == /\ store = NoProfiles
        /\ creds = [n \in AllNames |-> SignedOut]
        /\ created = 0
        /\ pc = [p \in Procs |-> "idle"]
        /\ target = [p \in Procs |-> Default]
        /\ held = [p \in Procs |-> NoProfiles]
        /\ mine = [p \in Procs |-> SignedOut]
        /\ told = [active |-> Default, profiles |-> {}, signedIn |-> {}]
        /\ disturbed = FALSE

disk == <<store, creds, created>>

Alone(p) == \A q \in Procs \ {p} : pc[q] = "idle"

\* p starts a command about profile n that goes on to step l.
Begin(p, l, n) == /\ pc[p] = "idle"
                  /\ pc' = [pc EXCEPT ![p] = l]
                  /\ target' = [target EXCEPT ![p] = n]
                  /\ disturbed' = (disturbed \/ ~Alone(p))

\* p's command begins by loading the profiles it will save.
BeginLoaded(p, l, n) == Begin(p, l, n) /\ held' = [held EXCEPT ![p] = store]

\* p's command is over.
End(p) == /\ pc' = [pc EXCEPT ![p] = "idle"]
          /\ target' = [target EXCEPT ![p] = Default]
          /\ held' = [held EXCEPT ![p] = NoProfiles]
          /\ mine' = [mine EXCEPT ![p] = SignedOut]

\* output.WriteEnv, when the files are changed: the command tells what it did, or fails
\* because stdout does.
Report(r) == \/ told' = r /\ UNCHANGED disturbed
             \/ disturbed' = TRUE /\ UNCHANGED told

-----------------------------------------------------------------------------
(* profile create, use and delete.  A name that does not fit is an error   *)
(* that changes nothing, so only commands that get past it are begun.      *)

LoadToCreate(p, n) == /\ ~Exists(store, n)
                      /\ created < MaxCreated
                      /\ BeginLoaded(p, "create", n)
                      /\ UNCHANGED <<disk, mine, told>>

\* The wizard is done: save the profiles loaded before it, with the new one.
SaveCreated(p) ==
  /\ pc[p] = "create"
  /\ created < MaxCreated
  /\ created' = created + 1
  /\ \E setActive \in BOOLEAN :
       LET n == target[p]
       IN  /\ store' = [active |-> IF setActive THEN n ELSE held[p].active,
                        gen |-> [held[p].gen EXCEPT ![n] = created + 1]]
           /\ Report([told EXCEPT !.profiles = @ \union {n},
                                  !.active = IF setActive THEN n ELSE @])
  /\ End(p)
  /\ UNCHANGED creds

LoadToUse(p, n) == /\ Exists(store, n)
                   /\ BeginLoaded(p, "use", n)
                   /\ UNCHANGED <<disk, mine, told>>

BugSaveOnlyActive(p) ==
  /\ pc[p] = "use"
  /\ store' = [NoProfiles EXCEPT !.active = target[p]]
  /\ Report([told EXCEPT !.active = target[p]])
  /\ End(p)
  /\ UNCHANGED <<creds, created>>

SaveUsed(p) ==
  /\ pc[p] = "use"
  /\ store' = [held[p] EXCEPT !.active = target[p]]
  /\ Report([told EXCEPT !.active = target[p]])
  /\ End(p)
  /\ UNCHANGED <<creds, created>>

LoadToDelete(p, n) == /\ n # Default /\ Exists(store, n)
                      /\ BeginLoaded(p, "delete", n)
                      /\ UNCHANGED <<disk, mine, told>>

BugKeepActive(s, n) == [s EXCEPT !.gen[n] = Absent]

BugClearActive(s, n) == [active |-> IF s.active = n THEN "" ELSE s.active,
                         gen |-> [s.gen EXCEPT ![n] = Absent]]

\* The profiles without n; the default becomes active when n was.
Without(s, n) == [active |-> IF s.active = n THEN Default ELSE s.active,
                  gen |-> [s.gen EXCEPT ![n] = Absent]]

\* Confirmed: first the profile goes, then its credentials.
SaveDeleted(p) ==
  /\ pc[p] = "delete"
  /\ store' = Without(held[p], target[p])
  /\ pc' = [pc EXCEPT ![p] = "deleteCredentials"]
  /\ UNCHANGED <<creds, created, target, held, mine, told, disturbed>>

BugKeepCredentials(p) ==
  /\ pc[p] = "deleteCredentials"
  /\ Report([told EXCEPT !.profiles = @ \ {target[p]}, !.signedIn = @ \ {target[p]},
                         !.active = IF @ = target[p] THEN Default ELSE @])
  /\ End(p)
  /\ UNCHANGED creds
  /\ UNCHANGED <<store, created>>

\* A failure to remove the credentials is a warning: the profile is deleted all the same.
DeleteCredentials(p) ==
  /\ pc[p] = "deleteCredentials"
  /\ LET r == [told EXCEPT !.profiles = @ \ {target[p]}, !.signedIn = @ \ {target[p]},
                           !.active = IF @ = target[p] THEN Default ELSE @]
     IN  \/ creds' = [creds EXCEPT ![target[p]] = SignedOut] /\ Report(r)
         \/ disturbed' = TRUE /\ told' \in {r, told} /\ UNCHANGED creds
  /\ End(p)
  /\ UNCHANGED <<store, created>>

\* The wizard or the confirmation is abandoned, the save or the logout's removal fails:
\* nothing changed.
GiveUp(p) == /\ pc[p] \in {"create", "use", "delete", "signIn", "refresh", "signOut"}
             /\ End(p)
             /\ UNCHANGED <<disk, told, disturbed>>

-----------------------------------------------------------------------------
(* auth login, auth logout, and any command that refreshes the token: they *)
(* are about the profile that was active when the process started.         *)

Login(p) == LET n == ActiveProfile(store)
            IN  /\ Begin(p, "signIn", n)
                /\ mine' = [mine EXCEPT ![p] = Generation(store, n)]
                /\ UNCHANGED <<disk, held, told>>

Refresh(p) == LET n == ActiveProfile(store)
              IN  /\ creds[n] # SignedOut
                  /\ Begin(p, "refresh", n)
                  /\ mine' = [mine EXCEPT ![p] = creds[n]]
                  /\ UNCHANGED <<disk, held, told>>

SaveCredentials(p) ==
  /\ pc[p] \in {"signIn", "refresh"}
  /\ creds' = [creds EXCEPT ![target[p]] = mine[p]]
  /\ IF pc[p] = "signIn" THEN Report([told EXCEPT !.signedIn = @ \union {target[p]}])
                         ELSE UNCHANGED <<told, disturbed>>
  /\ End(p)
  /\ UNCHANGED <<store, created>>

Logout(p) == /\ Begin(p, "signOut", ActiveProfile(store))
             /\ UNCHANGED <<disk, held, mine, told>>

SignOut(p) == /\ pc[p] = "signOut"
              /\ creds' = [creds EXCEPT ![target[p]] = SignedOut]
              /\ Report([told EXCEPT !.signedIn = @ \ {target[p]}])
              /\ End(p)
              /\ UNCHANGED <<store, created>>

\* p is killed between two steps.
Crash(p) == /\ pc[p] # "idle"
            /\ End(p)
            /\ disturbed' = TRUE
            /\ UNCHANGED <<disk, told>>

Step(p) ==
  \/ \E n \in Names : LoadToCreate(p, n) \/ LoadToDelete(p, n)
  \/ \E n \in AllNames : LoadToUse(p, n)
  \/ SaveCreated(p) \/ SaveUsed(p) \/ SaveDeleted(p) \/ DeleteCredentials(p) \/ GiveUp(p)
  \/ Login(p) \/ Refresh(p) \/ SaveCredentials(p) \/ Logout(p) \/ SignOut(p) \/ Crash(p)

Next == \E p \in Procs : Step(p)

Spec == Init /\ [][Next]_vars

-----------------------------------------------------------------------------
(* Properties.                                                             *)

TypeOK ==
  /\ store \in Stores
  /\ creds \in [AllNames -> SignedOut..MaxCreated]
  /\ created \in 0..MaxCreated
  /\ pc \in [Procs -> {"idle", "create", "use", "delete", "deleteCredentials",
                       "signIn", "refresh", "signOut"}]
  /\ target \in [Procs -> AllNames]
  /\ held \in [Procs -> Stores]
  /\ mine \in [Procs -> SignedOut..MaxCreated]
  /\ told \in Reports
  /\ disturbed \in BOOLEAN

\* Whatever processes overlap and are killed, and however stale the profiles a command
\* saves, the active profile of profiles.json is one of its profiles: ActiveProfile falls
\* back to the production default only for a file that somebody edited.
ActiveExists == Exists(store, store.active)

Settled == ~disturbed /\ \A p \in Procs : pc[p] = "idle"

\* Used by one process at a time, the files are as the commands reported them: a command
\* that failed before it saved changed nothing, one that succeeded changed what it said.
\* (One that fails to report what it has saved, or to remove credentials, is excepted.)
LoneReportsAreTrue ==
  Settled => /\ told.active = store.active
             /\ told.profiles = {n \in Names : Exists(store, n)}
             /\ told.signedIn = {n \in AllNames : creds[n] # SignedOut}

\* Used by one process at a time, credentials belong to the profile they are used for: a
\* profile created under the name of a deleted one starts signed out.
LoneCredentialsBelong ==
  Settled => \A n \in AllNames : creds[n] # SignedOut =>
               Exists(store, n) /\ creds[n] = Generation(store, n)

=============================================================================
