------------------------------- MODULE Config -------------------------------
(***************************************************************************)
(* Where wcloud gets its endpoint and its sign-in settings from            *)
(* (src/internal/config): profiles.json, the environment and the built-in  *)
(* defaults.  Operators only; Process uses them.                           *)
(*                                                                         *)
(* URLs, client ids and names are strings that stand for themselves, the   *)
(* empty one for a setting that is not there.                              *)
(***************************************************************************)
CONSTANTS Names,               \* the names of profiles, without the built-in one
          Default,             \* DefaultProfileName
          URLs,                \* what a user may give as a URL, the empty string apart
          HTTPURLs,            \* those of them that are http(s) with a host
          ClientIDs,           \* what a user may give as a client id
          ProductionEndpoint,
          DefaultAuth          \* what defaultAuth returns

Unset == ""

AuthConfigs == [baseURL : URLs \union {Unset}, clientID : ClientIDs \union {Unset}]

ASSUME ConfigAssumption ==
  /\ Default \notin Names
  /\ Unset \notin Names \union {Default} \union URLs \union ClientIDs
  /\ HTTPURLs \subseteq URLs
  /\ ProductionEndpoint \in HTTPURLs
  /\ DefaultAuth \in [baseURL : HTTPURLs, clientID : ClientIDs]

-----------------------------------------------------------------------------
(* A profile.  Its auth is a pointer: hasAuth says whether it is set.      *)

NoAuth == [baseURL |-> Unset, clientID |-> Unset]

NoSettings == [endpoint |-> Unset, hasAuth |-> FALSE, auth |-> NoAuth]

Profile == {p \in [endpoint : URLs \union {Unset}, hasAuth : BOOLEAN, auth : AuthConfigs] :
              p.hasAuth \/ p.auth = NoAuth}

\* The client id is not looked at: an auth without one would pass.
BugValidateProfile(p) ==
  /\ p.endpoint # Unset => p.endpoint \in HTTPURLs
  /\ p.hasAuth => p.auth.baseURL \in HTTPURLs

\* Auth is all or nothing.
ValidateProfile(p) ==
  /\ p.endpoint # Unset => p.endpoint \in HTTPURLs
  /\ p.hasAuth => /\ p.auth.baseURL \in HTTPURLs
                  /\ p.auth.clientID # Unset

\* The profiles that profile create saves (create.go:51).
SavedProfiles == {p \in Profile : ValidateProfile(p)}

-----------------------------------------------------------------------------
(* profiles.json as LoadProfiles returns it: the active name, and a        *)
(* function from the names it has to their profiles.                       *)

\* A missing profiles.json is the default profile alone.
LoadProfiles(f) ==
  IF f.state = "missing" THEN [state |-> "missing", active |-> Default, profiles |-> <<>>] ELSE f

Readable(f) == f.state # "unreadable"

HoldsSavedProfiles(f) == /\ DOMAIN f.profiles \subseteq Names
                         /\ \A n \in DOMAIN f.profiles : f.profiles[n] \in SavedProfiles

ActiveProfile(f) == IF f.active \in DOMAIN f.profiles THEN f.active ELSE Default

Settings(f, n) == IF n = Default THEN NoSettings ELSE f.profiles[n]

Or(v, w) == IF v # Unset THEN v ELSE w

\* The auth of a profile replaces the default one as a whole.
AuthOf(p) == IF p.hasAuth THEN p.auth ELSE DefaultAuth

\* The environment replaces each field.
ResolveWith(f, env) ==
  LET prof == Settings(f, ActiveProfile(f))
      auth == AuthOf(prof)
  IN  [endpoint |-> Or(env.endpoint, Or(prof.endpoint, ProductionEndpoint)),
       auth |-> [baseURL |-> Or(env.baseURL, auth.baseURL),
                 clientID |-> Or(env.clientID, auth.clientID)]]

-----------------------------------------------------------------------------
(* The reference: each field by itself, from the environment, else the     *)
(* profile, else the default.                                              *)

EndpointOf(p, env) == Or(env.endpoint, Or(p.endpoint, ProductionEndpoint))

BaseURLOf(p, env) == Or(env.baseURL, Or(p.auth.baseURL, DefaultAuth.baseURL))

ClientIDOf(p, env) == Or(env.clientID, Or(p.auth.clientID, DefaultAuth.clientID))

PerField(p, env) == [endpoint |-> EndpointOf(p, env),
                     auth |-> [baseURL |-> BaseURLOf(p, env),
                               clientID |-> ClientIDOf(p, env)]]

=============================================================================
