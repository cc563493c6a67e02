--------------------------- MODULE ProcessProofs ----------------------------
(***************************************************************************)
(* For every set of profiles, URLs and client ids, every command line and  *)
(* environment, and everything other processes do to profiles.json: the    *)
(* configuration is the documented precedence per field, tokens go only    *)
(* where it says, stdout has one document that fits the exit status, and   *)
(* an install writes just what was asked for.                              *)
(***************************************************************************)
EXTENDS Process, FiniteSetTheorems, WellFoundedInduction, TLAPS

USE DEF Unset

-----------------------------------------------------------------------------
(* The configuration.                                                      *)

\* For a profile that ValidateProfile accepts, and for one without settings, the auth has both
\* fields or neither, so that replacing the default auth as a whole replaces each field
\* (profile.go:113-115, 149-168).
LEMMA AuthAllOrNothing ==
  ASSUME NEW p \in SavedProfiles \union {NoSettings}
  PROVE  /\ AuthOf(p).baseURL = Or(p.auth.baseURL, DefaultAuth.baseURL)
         /\ AuthOf(p).clientID = Or(p.auth.clientID, DefaultAuth.clientID)
  <1>1. CASE p = NoSettings
    BY <1>1 DEF NoSettings, NoAuth, AuthOf, Or
  <1>2. CASE p \in SavedProfiles
    <2>1. p \in Profile /\ ValidateProfile(p)
      BY <1>2 DEF SavedProfiles
    <2>2. CASE p.hasAuth = TRUE
      <3>1. p.auth.baseURL # "" /\ p.auth.clientID # ""
        BY <2>1, <2>2, ConfigAssumption DEF ValidateProfile
      <3>2. QED
        BY <2>2, <3>1 DEF AuthOf, Or
    <2>3. CASE p.hasAuth = FALSE
      <3>1. p.auth = NoAuth
        BY <2>1, <2>3 DEF Profile
      <3>2. AuthOf(p) = DefaultAuth
        BY <2>3 DEF AuthOf
      <3>3. NoAuth.baseURL = "" /\ NoAuth.clientID = ""
        BY DEF NoAuth
      <3>4. QED
        BY <3>1, <3>2, <3>3 DEF Or
    <2>4. p.hasAuth \in BOOLEAN
      BY <2>1 DEF Profile
    <2>5. QED
      BY <2>2, <2>3, <2>4
  <1>3. QED
    BY <1>1, <1>2

\* The settings of the profile that is active are saved ones, or none.
LEMMA ActiveSettings ==
  ASSUME NEW f, HoldsSavedProfiles(f)
  PROVE  /\ ActiveProfile(f) \in DOMAIN f.profiles \union {Default}
         /\ Settings(f, ActiveProfile(f)) \in SavedProfiles \union {NoSettings}
  BY DEF HoldsSavedProfiles, ActiveProfile, Settings

\* What ResolveWith composes is the precedence of environment, profile and default for each
\* field (doc.go:1-4, profile.go:100-101).
THEOREM ResolveIsPerField ==
  ASSUME NEW f, NEW env, HoldsSavedProfiles(f)
  PROVE  ResolveWith(f, env) = PerField(Settings(f, ActiveProfile(f)), env)
  <1>1. PICK p \in SavedProfiles \union {NoSettings} : p = Settings(f, ActiveProfile(f))
    BY ActiveSettings
  <1>2. QED
    BY <1>1, AuthAllOrNothing DEF ResolveWith, PerField, EndpointOf, BaseURLOf, ClientIDOf

-----------------------------------------------------------------------------
(* The inductive invariant.                                                *)

\* What is on the disk, and what was read from it, are profiles that wcloud saves.
SavedFiles == HoldsSavedProfiles(file) /\ HoldsSavedProfiles(loaded)

Configured == /\ Readable(loaded)
              /\ config.profile = ActiveProfile(loaded)
              /\ config.endpoint = ResolveWith(loaded, run.env).endpoint
              /\ config.auth = ResolveWith(loaded, run.env).auth

\* The steps up to the last request.
Ahead == {"parse", "help", "prerun", "run", "call"}

\* The configuration is resolved before a command that needs it begins, and stays.
ConfiguredOnce == /\ pc = "new" => config = NoConfig
                  /\ config = NoConfig \/ Configured
                  /\ pc \in Ahead /\ NeedsConfig(run.cmd) => Configured

\* Each request carries the token of the resolved profile to the resolved destination, or a
\* redirect took it from there to one that the policy permits.
SentAsConfigured ==
  /\ pc = "new" => sent = {}
  /\ pc = "call" => Configured /\ token = config.profile
  /\ \A r \in sent : /\ Configured
                     /\ r.of = config.profile
                     /\ CheckStrict(r.url)
                     /\ ~r.redirected => r.url = IF r.to = "api" THEN config.endpoint
                                                ELSE config.auth.baseURL

\* What profile create will save: the profiles it loaded, under a name that is acceptable, and,
\* from its last check on, a profile that is.
Drafted == /\ HoldsSavedProfiles(held)
           /\ draft \in Profile /\ typed \in AuthConfigs
           /\ prompt \in {"load", "endpoint", "custom", "baseURL", "clientID", "check", "active",
                          "save"} => name \in Names
           /\ prompt \in {"active", "save"} => ValidateProfile(draft)

IInv == SavedFiles /\ ConfiguredOnce /\ SentAsConfigured /\ Drafted

\* LoadProfiles returns saved profiles, and knows an unreadable file from a missing one
\* (profile.go:40-68).
LEMMA LoadKeepsSaved ==
  ASSUME NEW f, HoldsSavedProfiles(f)
  PROVE  HoldsSavedProfiles(LoadProfiles(f)) /\ (Readable(LoadProfiles(f)) <=> Readable(f))
  BY DEF HoldsSavedProfiles, LoadProfiles, Readable

\* The invariant gives the precedence of each field, whatever the environment.
LEMMA IInvPrecedence == IInv => PrecedencePerField
  <1>1. SUFFICES ASSUME IInv
                 PROVE  PrecedencePerField
    OBVIOUS
  <1>2. ASSUME config # NoConfig
        PROVE  LET c == PerField(Settings(loaded, config.profile), run.env)
               IN  config.endpoint = c.endpoint /\ config.auth = c.auth
    <2>1. Configured /\ HoldsSavedProfiles(loaded)
      BY <1>1, <1>2 DEF IInv, SavedFiles, ConfiguredOnce
    <2>2. ResolveWith(loaded, run.env) = PerField(Settings(loaded, config.profile), run.env)
      BY <2>1, ResolveIsPerField DEF Configured
    <2>3. QED
      BY <2>1, <2>2 DEF Configured
  <1>3. ResolveWith(file, run.env) = PerField(Settings(file, ActiveProfile(file)), run.env)
    BY <1>1, ResolveIsPerField DEF IInv, SavedFiles
  <1>4. QED
    BY <1>2, <1>3 DEF PrecedencePerField

\* The invariant keeps every token to its own profile's destinations.
LEMMA IInvRequests == IInv => RequestsGoWhereConfigured
  <1>1. SUFFICES ASSUME IInv, NEW r \in sent
                 PROVE  /\ Readable(loaded)
                        /\ r.of \in DOMAIN loaded.profiles \union {Default}
                        /\ CheckStrict(r.url)
                        /\ ~r.redirected =>
                             r.url = IF r.to = "api"
                                     THEN EndpointOf(Settings(loaded, r.of), run.env)
                                     ELSE BaseURLOf(Settings(loaded, r.of), run.env)
    BY DEF RequestsGoWhereConfigured
  <1>2. /\ Configured /\ HoldsSavedProfiles(loaded)
        /\ r.of = config.profile
        /\ CheckStrict(r.url)
        /\ ~r.redirected => r.url = IF r.to = "api" THEN config.endpoint ELSE config.auth.baseURL
    BY <1>1 DEF IInv, SavedFiles, SentAsConfigured
  <1>3. r.of \in DOMAIN loaded.profiles \union {Default}
    BY <1>2, ActiveSettings DEF Configured
  <1>4. ResolveWith(loaded, run.env) = PerField(Settings(loaded, r.of), run.env)
    BY <1>2, ResolveIsPerField DEF Configured
  <1>5. /\ config.endpoint = EndpointOf(Settings(loaded, r.of), run.env)
        /\ config.auth.baseURL = BaseURLOf(Settings(loaded, r.of), run.env)
    BY <1>2, <1>4 DEF Configured, PerField
  <1>6. QED
    BY <1>2, <1>3, <1>5 DEF Configured

\* main starts with nothing resolved and nothing sent.
LEMMA InitIInv == Init => IInv
  <1>1. SUFFICES ASSUME Init
                 PROVE  IInv
    OBVIOUS
  <1>2. SavedFiles /\ ConfiguredOnce /\ SentAsConfigured
    BY <1>1, ProcessAssumption DEF Init, SavedFiles, ConfiguredOnce, SentAsConfigured, Ahead
  <1>3. NoAuth \in AuthConfigs /\ NoSettings \in Profile
    BY DEF NoAuth, NoSettings, AuthConfigs, Profile
  <1>4. /\ held.profiles = <<>> /\ draft = NoSettings /\ typed = NoAuth /\ prompt = "off"
    BY <1>1 DEF Init, WizardInit
  <1>5. DOMAIN held.profiles = {}
    BY <1>4
  <1>6. Drafted
    BY <1>3, <1>4, <1>5 DEF Drafted, HoldsSavedProfiles
  <1>7. QED
    BY <1>2, <1>6 DEF IInv

-----------------------------------------------------------------------------
(* The steps.                                                              *)

\* A step that neither configures nor sends only has to go on in order.
LEMMA MovesOn ==
  ASSUME IInv, UNCHANGED <<run, loaded, config, token, sent>>,
         HoldsSavedProfiles(file'), Drafted',
         pc' = "new" => pc = "new",
         pc' = "call" => pc = "call",
         pc' \in Ahead => pc \in Ahead
  PROVE  IInv'
  BY DEF IInv, SavedFiles, Configured, ConfiguredOnce, SentAsConfigured, Ahead

\* main and the command tree after factory.New.
LEMMA MainSteps ==
  ASSUME IInv, ParseFlags \/ ValidateArgs \/ PersistentPreRunE \/ Report
  PROVE  IInv'
  <1>1. HoldsSavedProfiles(file) /\ (UNCHANGED wizardVars => Drafted')
    BY DEF IInv, SavedFiles, Drafted, wizardVars
  <1>2. CASE ParseFlags
    BY <1>1, <1>2, MovesOn DEF ParseFlags, Fail, Continue, Ahead, inputs, setup, session
  <1>3. CASE ValidateArgs
    BY <1>1, <1>3, MovesOn DEF ValidateArgs, ShowHelp, Fail, Continue, Ahead, inputs, setup, session
  <1>4. CASE PersistentPreRunE
    BY <1>1, <1>4, MovesOn DEF PersistentPreRunE, Fail, Continue, Ahead, inputs, setup, session
  <1>5. CASE Report
    BY <1>1, <1>5, MovesOn DEF Report, Ahead, inputs, setup, session
  <1>6. QED
    BY <1>2, <1>3, <1>4, <1>5

\* The commands that send nothing, the user and the other processes.
LEMMA LocalSteps ==
  ASSUME IInv, \/ Guide \/ Group \/ Version \/ ListProfiles \/ ShowProfile \/ Write
               \/ Install \/ EndInstall \/ AnswerPrompt \/ Interrupt \/ ChangeProfiles
               \/ EndCreate
  PROVE  IInv'
  <1>1. HoldsSavedProfiles(file) /\ (UNCHANGED wizardVars => Drafted')
    BY DEF IInv, SavedFiles, Drafted, wizardVars
  <1>2. CASE Guide
    BY <1>1, <1>2, MovesOn DEF Guide, Finish, Fail, Ahead, inputs, setup, session
  <1>3. CASE Group
    BY <1>1, <1>3, MovesOn DEF Group, ShowHelp, Ahead, inputs, setup, session
  <1>4. CASE Version
    BY <1>1, <1>4, MovesOn DEF Version, Continue, Ahead, inputs, setup, session
  <1>5. CASE ListProfiles
    BY <1>1, <1>5, MovesOn DEF ListProfiles, Fail, Continue, Ahead, inputs, setup, session
  <1>6. CASE ShowProfile
    BY <1>1, <1>6, MovesOn DEF ShowProfile, Fail, Continue, Ahead, inputs, setup, session
  <1>7. CASE Write
    BY <1>1, <1>7, MovesOn DEF Write, Finish, Fail, Ahead, inputs, setup, session
  <1>8. CASE Install
    BY <1>1, <1>8, MovesOn DEF Install, inputs, setup, session
  <1>9. CASE EndInstall
    BY <1>1, <1>9, MovesOn DEF EndInstall, Fail, Continue, Ahead, inputs, setup, session
  <1>10. CASE AnswerPrompt
    BY <1>1, <1>10, MovesOn DEF AnswerPrompt, inputs, setup, session
  <1>11. CASE Interrupt
    BY <1>1, <1>11, MovesOn DEF Interrupt, setup, session
  <1>12. CASE ChangeProfiles
    BY <1>1, <1>12, MovesOn, ProcessAssumption DEF ChangeProfiles, setup, session
  <1>13. CASE EndCreate
    BY <1>1, <1>13, MovesOn DEF EndCreate, Fail, Continue, Ahead, inputs, setup, session
  <1>14. QED
    BY <1>2, <1>3, <1>4, <1>5, <1>6, <1>7, <1>8, <1>9, <1>10, <1>11, <1>12, <1>13

\* A step of the wizard keeps what it will save acceptable: the name, the profile once it is
\* checked, and the profiles it loaded (create.go:80-158).
LEMMA WizardStep ==
  ASSUME Drafted, HoldsSavedProfiles(file),
         \/ BeginCreate(request.stdinTTY, run.name) \/ LoadToCreate(file) \/ CheckDraft
         \/ SaveCreated \/ Answer
  PROVE  Drafted'
  <1>1. CASE BeginCreate(request.stdinTTY, run.name)
    BY <1>1 DEF Drafted, BeginCreate, Ask, Abort
  <1>2. CASE LoadToCreate(file)
    BY <1>2, LoadKeepsSaved DEF Drafted, LoadToCreate, Ask, Abort
  <1>3. CASE CheckDraft \/ SaveCreated
    BY <1>3 DEF Drafted, CheckDraft, SaveCreated, Ask, Abort
  <1>4. CASE AnswerName \/ AnswerCustom \/ AnswerActive \/ AnswerFails
    BY <1>4 DEF Drafted, AnswerName, AnswerCustom, AnswerActive, AnswerFails, Questions, Ask, Abort
  <1>5. CASE AnswerEndpoint
    <2>1. draft' \in Profile
      BY <1>5 DEF Drafted, AnswerEndpoint, Profile
    <2>2. QED
      BY <1>5, <2>1 DEF Drafted, AnswerEndpoint, Ask
  <1>6. CASE AnswerBaseURL
    <2>1. typed' \in AuthConfigs
      BY <1>6 DEF Drafted, AnswerBaseURL, AuthConfigs
    <2>2. QED
      BY <1>6, <2>1 DEF Drafted, AnswerBaseURL, Ask
  <1>7. CASE AnswerClientID
    <2>1. PICK line \in ClientIDs \union {Unset} :
            LET auth == [typed EXCEPT !.clientID = line]
            IN  \/ /\ draft' = [draft EXCEPT !.hasAuth = TRUE, !.auth = auth]
                   /\ typed' = typed /\ prompt' = "check"
                \/ /\ typed' = NoAuth /\ draft' = draft /\ prompt' = "baseURL"
      BY <1>7 DEF AnswerClientID, Ask
    <2>2. [typed EXCEPT !.clientID = line] \in AuthConfigs
      BY DEF Drafted, AuthConfigs
    <2>3. NoAuth \in AuthConfigs /\ typed' \in AuthConfigs
      <3>1. NoAuth \in AuthConfigs
        BY DEF NoAuth, AuthConfigs
      <3>2. typed' \in {typed, NoAuth}
        BY <2>1
      <3>3. QED
        BY <3>1, <3>2 DEF Drafted
    <2>4. \A auth \in AuthConfigs : [draft EXCEPT !.hasAuth = TRUE, !.auth = auth] \in Profile
      BY DEF Drafted, Profile
    <2>5. draft' \in Profile
      BY <2>1, <2>2, <2>4 DEF Drafted
    <2>6. QED
      BY <1>7, <2>1, <2>3, <2>5 DEF Drafted, AnswerClientID
  <1>8. QED
    BY <1>1, <1>2, <1>3, <1>4, <1>5, <1>6, <1>7 DEF Answer

\* What profile create saves are profiles that it may save.
LEMMA CreatedIsSaved ==
  ASSUME Drafted, prompt = "save"
  PROVE  HoldsSavedProfiles(Created)
  <1>1. draft \in SavedProfiles /\ name \in Names
    BY DEF Drafted, SavedProfiles
  <1>2. /\ DOMAIN Created.profiles = DOMAIN held.profiles \union {name}
        /\ \A n \in DOMAIN Created.profiles :
             Created.profiles[n] = IF n = name THEN draft ELSE held.profiles[n]
    BY DEF Created
  <1>3. QED
    BY <1>1, <1>2 DEF Drafted, HoldsSavedProfiles

\* profile create, up to its result, and the user's answers.
LEMMA CreateStep ==
  ASSUME IInv, Create \/ AnswerWizard
  PROVE  IInv'
  <1>1. HoldsSavedProfiles(file) /\ Drafted
    BY DEF IInv, SavedFiles
  <1>2. Drafted'
    BY <1>1, WizardStep DEF Create, AnswerWizard
  <1>3. CASE Create
    <2>1. HoldsSavedProfiles(file')
      BY <1>1, <1>3, CreatedIsSaved DEF Create, SaveCreated
    <2>2. QED
      BY <1>2, <1>3, <2>1, MovesOn DEF Create, setup, session
  <1>4. CASE AnswerWizard
    BY <1>1, <1>2, <1>4, MovesOn DEF AnswerWizard, inputs, setup, session
  <1>5. QED
    BY <1>3, <1>4

\* factory.New resolves the configuration of a file it can read, and lets no command that
\* needs one begin without.
LEMMA NewStep ==
  ASSUME IInv, New
  PROVE  IInv'
  <1>1. /\ HoldsSavedProfiles(file) /\ HoldsSavedProfiles(loaded')
        /\ Readable(loaded') <=> Readable(file)
    BY LoadKeepsSaved DEF IInv, SavedFiles, New
  <1>2. /\ UNCHANGED <<run, file, token, sent>> /\ sent = {} /\ pc' \in {"parse", "fail"}
    BY DEF IInv, SentAsConfigured, New, Continue, Fail, inputs, session
  <1>3. Readable(file) => Configured'
    BY <1>1, <1>2 DEF New, Configured
  <1>4. ~Readable(file) => /\ config' = config
                           /\ pc' = "parse" => ~NeedsConfig(run.cmd)
    BY DEF New, Continue, Fail
  <1>5. ~Readable(file) => config' = NoConfig
    BY <1>4 DEF IInv, ConfiguredOnce, New
  <1>6. Drafted'
    BY DEF IInv, Drafted, New, wizardVars
  <1>7. QED
    BY <1>1, <1>2, <1>3, <1>4, <1>5, <1>6
    DEF IInv, SavedFiles, ConfiguredOnce, SentAsConfigured, Ahead, NeedsConfig

\* What is sent beyond what was: the request, and the one that a redirect makes of it.
LEMMA SendsWhat ==
  ASSUME NEW to, NEW u, NEW p, CheckStrict(u), Sends(to, u, p), NEW q \in sent', q \notin sent
  PROVE  /\ q = [to |-> to, url |-> q.url, of |-> p, redirected |-> q.redirected]
         /\ q.to = to /\ q.of = p
         /\ q.redirected \in BOOLEAN
         /\ CheckStrict(q.url)
         /\ q.url = u \/ q.url \in URLs
         /\ ~q.redirected => q.url = u
  <1>1. PICK first : first = [to |-> to, url |-> u, of |-> p, redirected |-> FALSE]
    OBVIOUS
  <1>2. \/ q = first
        \/ \E v \in URLs : CheckStrict(v)
                          /\ q = [first EXCEPT !.url = v, !.redirected = TRUE]
    BY <1>1 DEF Sends
  <1>3. ASSUME NEW v \in URLs, CheckStrict(v),
               q = [first EXCEPT !.url = v, !.redirected = TRUE]
        PROVE  q = [to |-> to, url |-> v, of |-> p, redirected |-> TRUE]
    BY <1>1, <1>3
  <1>4. QED
    <2>1. CASE \E v \in URLs : CheckStrict(v)
                             /\ q = [first EXCEPT !.url = v, !.redirected = TRUE]
      <3>1. PICK v \in URLs : CheckStrict(v)
                             /\ q = [first EXCEPT !.url = v, !.redirected = TRUE]
        BY <2>1
      <3>2. q = [to |-> to, url |-> v, of |-> p, redirected |-> TRUE]
        BY <3>1, <1>3
      <3>3. q.url = v /\ q.to = to /\ q.of = p /\ q.redirected = TRUE
        BY <3>2
      <3>4. q = [to |-> to, url |-> q.url, of |-> p, redirected |-> q.redirected]
        BY <3>2, <3>3
      <3>5. CheckStrict(q.url)
        BY <3>1, <3>3
      <3>6. QED
        BY <3>3, <3>4, <3>5
    <2>2. CASE q = first
      <3>1. q.url = u /\ q.to = to /\ q.of = p /\ q.redirected = FALSE
        BY <1>1, <2>2
      <3>2. q = [to |-> to, url |-> q.url, of |-> p, redirected |-> q.redirected]
        BY <1>1, <2>2, <3>1
      <3>3. CheckStrict(q.url)
        BY <3>1
      <3>4. QED
        BY <3>1, <3>2, <3>3
    <2>3. QED
      BY <1>2, <2>1, <2>2

\* A token is that of the resolved profile, and a refresh sends it to the resolved auth host.
LEMMA TokenStep ==
  ASSUME IInv, RequireToken
  PROVE  IInv'
  <1>1. /\ UNCHANGED <<run, file, loaded, config>>
        /\ Configured
        /\ pc' \in {"call", "fail"}
    BY DEF IInv, ConfiguredOnce, RequireToken, Ahead, APICommands, NeedsConfig,
           Continue, Fail, inputs, setup
  <1>2. pc' = "call" => token' = config.profile
    BY DEF RequireToken, Continue, Fail
  <1>3. \A r \in sent' :
          r \notin sent => /\ r.to = "auth" /\ r.of = config.profile
                           /\ CheckStrict(r.url)
                           /\ ~r.redirected => r.url = config.auth.baseURL
    <2>1. \/ UNCHANGED sent
          \/ CheckStrict(config.auth.baseURL) /\ Sends("auth", config.auth.baseURL, config.profile)
      BY DEF RequireToken, session
    <2>2. QED
      BY <2>1, SendsWhat
  <1>4. SavedFiles'
    BY <1>1 DEF IInv, SavedFiles
  <1>5. Configured'
    BY <1>1 DEF Configured
  <1>6. ConfiguredOnce'
    BY <1>1, <1>5 DEF ConfiguredOnce
  <1>7. SentAsConfigured'
    <2>1. ASSUME NEW r \in sent'
          PROVE  /\ r.of = config.profile
                 /\ CheckStrict(r.url)
                 /\ ~r.redirected => r.url = IF r.to = "api" THEN config.endpoint
                                            ELSE config.auth.baseURL
      <3>1. CASE r \in sent
        BY <3>1 DEF IInv, SentAsConfigured
      <3>2. CASE r \notin sent
        <4>1. r.to = "auth" /\ r.of = config.profile /\ CheckStrict(r.url)
          BY <1>3, <2>1, <3>2
        <4>2. ~r.redirected => r.url = config.auth.baseURL
          BY <1>3, <2>1, <3>2
        <4>3. QED
          BY <4>1, <4>2
      <3>3. QED
        BY <3>1, <3>2
    <2>2. QED
      BY <1>1, <1>2, <1>5, <2>1 DEF SentAsConfigured
  <1>8. Drafted'
    BY DEF IInv, Drafted, RequireToken, wizardVars
  <1>9. QED
    BY <1>4, <1>6, <1>7, <1>8 DEF IInv

\* The command's calls go to the resolved endpoint.
LEMMA CallStep ==
  ASSUME IInv, Call
  PROVE  IInv'
  <1>1. /\ UNCHANGED <<run, file, loaded, config, token>>
        /\ Configured /\ token = config.profile
        /\ pc' \in {"write", "fail"}
    BY DEF IInv, SentAsConfigured, Call, Continue, Fail, inputs, setup
  <1>2. \A r \in sent' :
          r \notin sent => /\ r.to = "api" /\ r.of = config.profile
                           /\ CheckStrict(r.url)
                           /\ ~r.redirected => r.url = config.endpoint
    <2>1. \/ UNCHANGED sent
          \/ CheckStrict(config.endpoint) /\ Sends("api", config.endpoint, config.profile)
      BY <1>1 DEF Call
    <2>2. QED
      BY <2>1, SendsWhat
  <1>3. SavedFiles'
    BY <1>1 DEF IInv, SavedFiles
  <1>4. Configured'
    BY <1>1 DEF Configured
  <1>5. ConfiguredOnce'
    BY <1>1, <1>4 DEF ConfiguredOnce
  <1>6. SentAsConfigured'
    <2>1. ASSUME NEW r \in sent'
          PROVE  /\ r.of = config.profile
                 /\ CheckStrict(r.url)
                 /\ ~r.redirected => r.url = IF r.to = "api" THEN config.endpoint
                                            ELSE config.auth.baseURL
      <3>1. CASE r \in sent
        BY <3>1 DEF IInv, SentAsConfigured
      <3>2. CASE r \notin sent
        <4>1. r.to = "api" /\ r.of = config.profile /\ CheckStrict(r.url)
          BY <1>2, <2>1, <3>2
        <4>2. ~r.redirected => r.url = config.endpoint
          BY <1>2, <2>1, <3>2
        <4>3. QED
          BY <4>1, <4>2
      <3>3. QED
        BY <3>1, <3>2
    <2>2. QED
      BY <1>1, <1>4, <2>1 DEF SentAsConfigured
  <1>7. Drafted'
    BY DEF IInv, Drafted, Call, wizardVars
  <1>8. QED
    BY <1>3, <1>5, <1>6, <1>7 DEF IInv

\* Every step of the process, the user and other processes keeps the invariant.
LEMMA NextIInv == IInv /\ [Next]_vars => IInv'
  <1>1. SUFFICES ASSUME IInv, [Next]_vars
                 PROVE  IInv'
    OBVIOUS
  <1>2. CASE New
    BY <1>1, <1>2, NewStep
  <1>3. CASE ParseFlags \/ ValidateArgs \/ PersistentPreRunE \/ Report
    BY <1>1, <1>3, MainSteps
  <1>4. CASE \/ Guide \/ Group \/ Version \/ ListProfiles \/ ShowProfile \/ Write
             \/ Install \/ EndInstall \/ AnswerPrompt \/ Interrupt \/ ChangeProfiles
             \/ EndCreate
    BY <1>1, <1>4, LocalSteps
  <1>5. CASE RequireToken
    BY <1>1, <1>5, TokenStep
  <1>6. CASE Call
    BY <1>1, <1>6, CallStep
  <1>7. CASE Create \/ AnswerWizard
    BY <1>1, <1>7, CreateStep
  <1>8. CASE UNCHANGED vars
    <2>1. UNCHANGED <<run, file, loaded, config, token, sent, pc, wizardVars>>
      BY <1>8 DEF vars, inputs, setup, session
    <2>2. HoldsSavedProfiles(file') /\ Drafted'
      BY <1>1, <2>1 DEF IInv, SavedFiles, Drafted, wizardVars
    <2>3. QED
      BY <1>1, <2>1, <2>2, MovesOn
  <1>9. QED
    BY <1>1, <1>2, <1>3, <1>4, <1>5, <1>6, <1>7, <1>8 DEF Next, ProcessStep

-----------------------------------------------------------------------------
(* What is told: a second invariant, which needs nothing of the first.     *)

\* Nothing is on either stream until the command ends; where stdout fails half-way, the failure
\* finds what was written there.
ToldInOrder == /\ pc \notin {"fail", "exited"} => stdout = <<>> /\ stderr = <<>>
               /\ pc = "fail" => stdout \in {<<>>, <<Doc("partial")>>} /\ stderr = <<>>

\* The format is open until PersistentPreRunE, from then on what --output asks for; and an error
\* is told in JSON, whenever it comes, to whoever wants JSON.
FormatInOrder ==
  /\ pc \in {"new", "parse", "help", "prerun"} => format = "unresolved"
  /\ pc \in {"help", "prerun"} => flagValue = run.output
  /\ pc \in {"run", "call", "write"} => format = ResolveFormat(run.output, run.human)
  /\ pc = "fail" /\ WantsJSON => ResolveErrorFormat = "json"

\* guide and version fail for no other reason than stdout.
OnlyStdoutFails ==
  /\ pc = "call" => run.cmd \in APICommands
  /\ run.cmd \in {"guide", "version"} /\ WellFormed =>
       /\ pc = "fail" => stdout = <<Doc("partial")>>
       /\ pc = "exited" => exit = Success \/ StdoutFailed

Telling == IsRun(run) /\ ToldInOrder /\ FormatInOrder /\ OnlyStdoutFails /\ JSONContract

\* The process starts with nothing told.
LEMMA InitTelling == Init => Telling
  <1>1. Init => IsRun(run)
    BY ProcessAssumption DEF Init
  <1>2. Init => ToldInOrder /\ FormatInOrder /\ OnlyStdoutFails /\ JSONContract
    BY DEF Init, ToldInOrder, FormatInOrder, OnlyStdoutFails, JSONContract, Ended, Exited
  <1>3. QED
    BY <1>1, <1>2 DEF Telling

\* Who wants JSON has it from PersistentPreRunE on.
LEMMA WantedIsJSON ==
  ASSUME Telling, pc \in {"run", "call", "write"}, WantsJSON
  PROVE  format = "json"
  BY DEF Telling, FormatInOrder, WantsJSON, ResolveFormat

\* A step inside a command tells nothing.
LEMMA TellsNothing ==
  ASSUME Telling, UNCHANGED <<run, loaded, pc, flagValue, format, error, told>>
  PROVE  Telling'
  BY DEF Telling, IsRun, ToldInOrder, FormatInOrder, OnlyStdoutFails, JSONContract, Ended,
         Exited, StdoutFailed, WantsJSON, Overlooked, PlainResult, ResolveErrorFormat, WellFormed,
         told

\* A command goes on: to its calls, which only those that use the API have, or to its result.
LEMMA GoesOn ==
  ASSUME Telling, pc \in {"run", "call"},
         pc' = "write" \/ (pc' = "call" /\ run.cmd \in APICommands),
         UNCHANGED <<run, loaded, flagValue, format, told>>
  PROVE  Telling'
  BY DEF Telling, IsRun, ToldInOrder, FormatInOrder, OnlyStdoutFails, JSONContract, Ended,
         Exited, told

\* A command fails: any but guide and version by itself, every one when stdout does.
LEMMA Fails ==
  ASSUME Telling, pc \in {"run", "call", "write"}, pc' = "fail",
         UNCHANGED <<run, loaded, flagValue, format, stderr>>,
         \/ stdout' = stdout /\ run.cmd \notin {"guide", "version"}
         \/ stdout' = Append(stdout, Doc("partial"))
  PROVE  Telling'
  <1>1. /\ stdout = <<>> /\ stderr = <<>>
        /\ format = ResolveFormat(run.output, run.human)
        /\ WantsJSON => format = "json"
    BY WantedIsJSON DEF Telling, ToldInOrder, FormatInOrder
  <1>2. stdout' = <<Doc("partial")>> \/ (stdout' = <<>> /\ run.cmd \notin {"guide", "version"})
    BY <1>1
  <1>3. IsRun(run)' /\ JSONContract'
    BY DEF Telling, IsRun, JSONContract, Ended, Exited
  <1>4. ToldInOrder'
    BY <1>1, <1>2 DEF ToldInOrder
  <1>5. WantsJSON' => format' = "json"
    BY <1>1 DEF WantsJSON, Overlooked
  <1>6. FormatInOrder'
    BY <1>5 DEF FormatInOrder, ResolveErrorFormat
  <1>7. OnlyStdoutFails'
    BY <1>2 DEF OnlyStdoutFails
  <1>8. QED
    BY <1>3, <1>4, <1>6, <1>7 DEF Telling

\* A command succeeds: with JSON asked for, unless its result is never JSON, with the one
\* document.
LEMMA Succeeds ==
  ASSUME Telling, pc' = "exited", exit' = Success, UNCHANGED <<run, loaded>>,
         WantsJSON /\ ~PlainResult => stdout' = <<Doc("data")>> /\ stderr' = <<>>
  PROVE  Telling'
  <1>1. WantsJSON' = WantsJSON /\ PlainResult' = PlainResult
    BY DEF WantsJSON, Overlooked, PlainResult
  <1>2. JSONContract'
    BY <1>1 DEF JSONContract
  <1>3. QED
    BY <1>2 DEF Telling, IsRun, ToldInOrder, FormatInOrder, OnlyStdoutFails

\* factory.New fails only a command that needs the configuration, and leaves --output as far as
\* root's flags can tell.
LEMMA NewTells ==
  ASSUME Telling, New
  PROVE  Telling'
  <1>1. /\ run' = run /\ format' = "unresolved" /\ stdout' = <<>> /\ stderr' = <<>>
        /\ pc' \in {"parse", "fail"}
    BY DEF Telling, ToldInOrder, FormatInOrder, New, Continue, Fail, inputs, told
  <1>2. pc' = "fail" => /\ ~Readable(loaded') /\ NeedsConfig(run.cmd)
                        /\ flagValue' = ParseRootFlags(run)
    BY DEF New, Continue, Fail, LoadProfiles, Readable
  <1>3. IsRun(run)' /\ ToldInOrder' /\ JSONContract'
    BY <1>1 DEF Telling, IsRun, ToldInOrder, JSONContract, Ended, Exited
  <1>4. pc' = "fail" /\ WantsJSON' => ResolveErrorFormat' = "json"
    BY <1>1, <1>2 DEF Telling, IsRun, WantsJSON, Overlooked, ResolveErrorFormat,
                      ResolveFormat, ParseRootFlags
  <1>5. FormatInOrder'
    BY <1>1, <1>4 DEF FormatInOrder
  <1>6. OnlyStdoutFails'
    BY <1>1, <1>2 DEF OnlyStdoutFails, NeedsConfig
  <1>7. QED
    BY <1>3, <1>5, <1>6 DEF Telling

\* Where the parser stops before --output, who asked for JSON may have overlooked it.
LEMMA ParseTells ==
  ASSUME Telling, ParseFlags
  PROVE  Telling'
  <1>1. /\ UNCHANGED <<run, loaded>> /\ format' = "unresolved" /\ stdout' = <<>> /\ stderr' = <<>>
        /\ flagValue' = ParseCommandFlags(run)
    BY DEF Telling, ToldInOrder, FormatInOrder, ParseFlags, inputs, setup, told
  <1>2. IF run.before = "unknown" \/ run.after = "unknown" THEN pc' = "fail" ELSE pc' = "help"
    BY DEF ParseFlags, Continue, Fail
  <1>3. IsRun(run)' /\ ToldInOrder' /\ JSONContract'
    BY <1>1, <1>2 DEF Telling, IsRun, ToldInOrder, JSONContract, Ended, Exited
  <1>4. pc' = "fail" /\ WantsJSON' => ResolveErrorFormat' = "json"
    BY <1>1 DEF Telling, IsRun, WantsJSON, Overlooked, ResolveErrorFormat, ResolveFormat,
                ParseCommandFlags
  <1>5. FormatInOrder'
    BY <1>1, <1>2, <1>4 DEF FormatInOrder, ParseCommandFlags
  <1>6. OnlyStdoutFails'
    BY <1>1, <1>2 DEF OnlyStdoutFails, WellFormed
  <1>7. QED
    BY <1>3, <1>5, <1>6 DEF Telling

\* The help that is asked for, and the arguments.
LEMMA ValidateTells ==
  ASSUME Telling, ValidateArgs
  PROVE  Telling'
  <1>1. /\ UNCHANGED <<run, loaded, flagValue, format>> /\ pc = "help"
        /\ flagValue = run.output /\ format = "unresolved" /\ stdout = <<>> /\ stderr = <<>>
    BY DEF Telling, ToldInOrder, FormatInOrder, ValidateArgs, inputs, setup
  <1>2. CASE run.help
    <2>1. pc' = "exited" /\ exit' = Success /\ PlainResult
      BY <1>2 DEF ValidateArgs, ShowHelp, PlainResult
    <2>2. QED
      BY <1>1, <2>1, Succeeds
  <1>3. CASE ~run.help
    <2>1. /\ pc' = IF run.badArgs THEN "fail" ELSE "prerun"
          /\ stdout' = <<>> /\ stderr' = <<>>
      BY <1>1, <1>3 DEF ValidateArgs, Continue, Fail, told
    <2>2. IsRun(run)' /\ ToldInOrder' /\ JSONContract'
      BY <1>1, <2>1 DEF Telling, IsRun, ToldInOrder, JSONContract, Ended, Exited
    <2>3. WantsJSON' => ResolveErrorFormat' = "json"
      BY <1>1 DEF WantsJSON, Overlooked, ResolveErrorFormat, ResolveFormat
    <2>4. FormatInOrder'
      BY <1>1, <2>1, <2>3 DEF FormatInOrder
    <2>5. OnlyStdoutFails'
      BY <1>1, <2>1 DEF OnlyStdoutFails, WellFormed
    <2>6. QED
      BY <2>2, <2>4, <2>5 DEF Telling
  <1>4. QED
    BY <1>2, <1>3

\* The format is resolved, or --output is what is wrong.
LEMMA PreRunTells ==
  ASSUME Telling, PersistentPreRunE
  PROVE  Telling'
  <1>1. /\ UNCHANGED <<run, loaded, flagValue>> /\ stdout' = <<>> /\ stderr' = <<>>
        /\ flagValue = run.output /\ format' = ResolveFormat(run.output, run.human)
    BY DEF Telling, ToldInOrder, FormatInOrder, PersistentPreRunE, inputs, setup, told
  <1>2. pc' = IF format' = "unresolved" THEN "fail" ELSE "run"
    BY DEF PersistentPreRunE, Continue, Fail
  <1>3. IsRun(run)' /\ ToldInOrder' /\ JSONContract'
    BY <1>1, <1>2 DEF Telling, IsRun, ToldInOrder, JSONContract, Ended, Exited
  <1>4. format' = "unresolved" => run.output = "other"
    BY <1>1 DEF Telling, IsRun, ResolveFormat
  <1>5. FormatInOrder'
    BY <1>1, <1>2, <1>4 DEF FormatInOrder, WantsJSON
  <1>6. OnlyStdoutFails'
    BY <1>1, <1>2, <1>4 DEF OnlyStdoutFails, WellFormed
  <1>7. QED
    BY <1>3, <1>5, <1>6 DEF Telling

\* Every code, and none, stands for a failure; an error without a code is told, and exits, as an
\* internal one.
LEMMA ExitTellsCode ==
  ASSUME NEW code
  PROVE  /\ ExitForCode(code) # Success
         /\ ExitForCode(Or(code, "internal_error")) = ExitForCode(code)
  <1>1. \A c : ExitForCode(c) # Success
    BY DEF ExitForCode, Success, GenericError, UsageError, AuthRequired, NotFound,
           PermissionDenied, Conflict, QuotaExceeded, RateLimited, ServiceUnavailable
  <1>2. ExitForCode("internal_error") = ExitForCode("")
    BY DEF ExitForCode
  <1>3. CASE code = ""
    BY <1>1, <1>2, <1>3 DEF Or
  <1>4. CASE code # ""
    BY <1>1, <1>4 DEF Or
  <1>5. QED
    BY <1>3, <1>4

\* The error is told once, with the code that the exit status stands for.
LEMMA ReportTells ==
  ASSUME Telling, Report
  PROVE  Telling'
  <1>1. PICK doc : doc = [kind |-> "error", code |-> Or(error.code, "internal_error"),
                          retryAfter |-> error.retryAfter, details |-> error.details]
    OBVIOUS
  <1>2. /\ UNCHANGED <<run, loaded, error>> /\ pc = "fail" /\ pc' = "exited"
        /\ stdout \in {<<>>, <<Doc("partial")>>} /\ stderr = <<>>
        /\ exit' = ExitForCode(error.code)
    BY DEF Telling, ToldInOrder, Report, inputs, setup
  <1>3. exit' # Success /\ ExitForCode(doc.code) = exit'
    BY <1>1, <1>2, ExitTellsCode
  <1>4. WantsJSON' => /\ stderr' = <<>>
                      /\ \E d \in {doc, Doc("partial")} : stdout' = Append(stdout, d)
    <2>1. WantsJSON' => WantsJSON
      BY <1>2 DEF WantsJSON, Overlooked
    <2>2. WantsJSON => ResolveErrorFormat = "json"
      BY <1>2 DEF Telling, FormatInOrder
    <2>3. QED
      BY <1>1, <1>2, <2>1, <2>2 DEF Report
  <1>5. Doc("partial").kind = "partial"
    BY DEF Doc
  <1>6. stdout = <<Doc("partial")>> => StdoutFailed'
    <2>1. SUFFICES ASSUME stdout = <<Doc("partial")>>
                   PROVE  StdoutFailed'
      OBVIOUS
    <2>2. stdout' = stdout \/ \E d : stdout' = Append(stdout, d)
      BY DEF Report
    <2>3. 1 \in DOMAIN stdout' /\ stdout'[1] = Doc("partial")
      BY <2>1, <2>2
    <2>4. QED
      BY <1>5, <2>3 DEF StdoutFailed
  <1>7. JSONContract'
    <2>1. SUFFICES ASSUME ~StdoutFailed', WantsJSON'
                   PROVE  /\ Len(stdout') = 1 /\ stdout'[1] = doc
                          /\ stderr' = <<>>
      BY <1>1, <1>2, <1>3 DEF JSONContract, Ended
    <2>2. stdout = <<>>
      BY <1>2, <1>6, <2>1
    <2>3. PICK d \in {doc, Doc("partial")} : stdout' = <<d>>
      BY <1>4, <2>1, <2>2
    <2>4. Len(stdout') = 1 /\ DOMAIN stdout' = {1} /\ stdout'[1] = d
      BY <2>3
    <2>5. d # Doc("partial")
      BY <1>5, <2>1, <2>4 DEF StdoutFailed
    <2>6. QED
      BY <1>4, <2>1, <2>3, <2>4, <2>5
  <1>8. IsRun(run)' /\ ToldInOrder' /\ FormatInOrder'
    BY <1>2 DEF Telling, IsRun, ToldInOrder, FormatInOrder
  <1>9. OnlyStdoutFails'
    BY <1>2, <1>6 DEF Telling, OnlyStdoutFails, WellFormed
  <1>10. QED
    BY <1>7, <1>8, <1>9 DEF Telling

\* A command that ends by writing its result: guide's is never JSON, Write's is when JSON is
\* wanted.
LEMMA FinishTells ==
  ASSUME Telling, NEW doc, Finish(doc), pc \in {"run", "write"},
         UNCHANGED <<run, loaded, flagValue, format>>,
         WantsJSON /\ ~PlainResult => doc = Doc("data")
  PROVE  Telling'
  <1>1. stdout = <<>> /\ stderr = <<>>
    BY DEF Telling, ToldInOrder
  <1>2. CASE pc' = "exited" /\ exit' = Success /\ stdout' = Append(stdout, doc) /\ stderr' = stderr
    BY <1>1, <1>2, Succeeds
  <1>3. CASE pc' = "fail" /\ stdout' = Append(stdout, Doc("partial")) /\ stderr' = stderr
    BY <1>3, Fails
  <1>4. QED
    BY <1>2, <1>3 DEF Finish, Fail

\* The commands and their results.
LEMMA CommandsTell ==
  ASSUME Telling, \/ Guide \/ Group \/ Version \/ ListProfiles \/ ShowProfile \/ RequireToken
                  \/ Call \/ Write \/ EndInstall \/ EndCreate
  PROVE  Telling'
  <1>1. CASE Guide
    BY <1>1, FinishTells DEF Guide, PlainResult, inputs, setup
  <1>2. CASE Group
    BY <1>2, Succeeds DEF Group, ShowHelp, PlainResult, inputs, setup
  <1>3. CASE Version
    BY <1>3, GoesOn DEF Version, Continue, inputs, setup
  <1>4. CASE ListProfiles
    BY <1>4, GoesOn, Fails DEF ListProfiles, Continue, Fail, inputs, setup, told
  <1>5. CASE ShowProfile
    BY <1>5, GoesOn, Fails DEF ShowProfile, Continue, Fail, inputs, setup, told
  <1>6. CASE RequireToken
    BY <1>6, GoesOn, Fails DEF RequireToken, APICommands, Continue, Fail, inputs, setup, told
  <1>7. CASE Call
    <2>1. run.cmd \in APICommands
      BY <1>7 DEF Call, Telling, OnlyStdoutFails
    <2>2. QED
      BY <1>7, <2>1, GoesOn, Fails DEF Call, APICommands, Continue, Fail, inputs, setup, told
  <1>8. CASE Write
    <2>1. WantsJSON => format = "json"
      BY <1>8, WantedIsJSON DEF Write
    <2>2. QED
      BY <1>8, <2>1, FinishTells DEF Write, inputs, setup
  <1>9. CASE EndInstall
    BY <1>9, GoesOn, Fails DEF EndInstall, Continue, Fail, inputs, setup, told
  <1>10. CASE EndCreate
    BY <1>10, GoesOn, Fails DEF EndCreate, Continue, Fail, inputs, setup, told
  <1>11. QED
    BY <1>1, <1>2, <1>3, <1>4, <1>5, <1>6, <1>7, <1>8, <1>9, <1>10

\* Every step keeps what is told in order.
LEMMA NextTelling == Telling /\ [Next]_vars => Telling'
  <1>1. SUFFICES ASSUME Telling, [Next]_vars
                 PROVE  Telling'
    OBVIOUS
  <1>2. CASE New
    BY <1>1, <1>2, NewTells
  <1>3. CASE ParseFlags
    BY <1>1, <1>3, ParseTells
  <1>4. CASE ValidateArgs
    BY <1>1, <1>4, ValidateTells
  <1>5. CASE PersistentPreRunE
    BY <1>1, <1>5, PreRunTells
  <1>6. CASE Report
    BY <1>1, <1>6, ReportTells
  <1>7. CASE \/ Guide \/ Group \/ Version \/ ListProfiles \/ ShowProfile \/ RequireToken
             \/ Call \/ Write \/ EndInstall \/ EndCreate
    BY <1>1, <1>7, CommandsTell
  <1>8. CASE Install
    BY <1>1, <1>8, TellsNothing DEF Install, inputs, setup
  <1>9. CASE Create
    BY <1>1, <1>9, TellsNothing DEF Create, setup
  <1>10. CASE AnswerPrompt \/ AnswerWizard
    BY <1>1, <1>10, TellsNothing DEF AnswerPrompt, AnswerWizard, inputs, setup
  <1>11. CASE Interrupt \/ ChangeProfiles
    BY <1>1, <1>11, TellsNothing DEF Interrupt, ChangeProfiles, setup
  <1>12. CASE UNCHANGED vars
    BY <1>1, <1>12, TellsNothing DEF vars, inputs, setup
  <1>13. QED
    BY <1>1, <1>2, <1>3, <1>4, <1>5, <1>6, <1>7, <1>8, <1>9, <1>10, <1>11, <1>12
    DEF Next, ProcessStep

\* The invariant gives the contract of the two streams, and guide and version their success.
LEMMA TellingGuide == Telling => GuideNeedsNoConfig
  BY DEF Telling, OnlyStdoutFails, GuideNeedsNoConfig, Ended, Exited

-----------------------------------------------------------------------------
(* The selection of the installer: what its two recursive functions compute. *)

\* What holds of 0, and of n + 1 where it holds of n, holds up to every L: a least number that is
\* missing has a predecessor that is not.
LEMMA UpTo ==
  ASSUME NEW L \in Nat, NEW S, 0 \in S, \A n \in 0..(L - 1) : n \in S => n + 1 \in S
  PROVE  0..L \subseteq S
  <1>1. SUFFICES ASSUME 0..L \ S # {}
                 PROVE  FALSE
    OBVIOUS
  <1>2. PICK x \in 0..L \ S : \A y \in 0..L \ S : <<y, x>> \notin OpToRel(<, Nat)
    <2>1. 0..L \ S \subseteq Nat
      OBVIOUS
    <2>2. QED
      BY <1>1, <2>1, NatLessThanWellFounded, WFMin, Zenon
  <1>3. \A y \in 0..L : <<y, x>> \in OpToRel(<, Nat) <=> y < x
    BY DEF OpToRel
  <1>4. PICK y \in 0..L : x = y + 1
    <2>1. x # 0 /\ x \in 0..L
      BY <1>2
    <2>2. x - 1 \in 0..L /\ x = (x - 1) + 1
      BY <2>1
    <2>3. QED
      BY <2>2
  <1>5. y < x /\ y \in 0..(L - 1)
    BY <1>4
  <1>6. y \in S
    BY <1>2, <1>3, <1>5
  <1>7. QED
    BY <1>2, <1>4, <1>5, <1>6

\* What f has done with s up to n, for each n.
PicksFrom(f, s, T) == /\ f[0] = <<>>
                      /\ \A n \in 1..Len(s) :
                           f[n] = IF s[n] \in T /\ ~Contains(f[n - 1], s[n])
                                  THEN Append(f[n - 1], s[n]) ELSE f[n - 1]

\* Picked's recursion has a solution, so that Picked is its last value.
LEMMA PickedRecursion ==
  ASSUME NEW X, NEW s \in Seq(X), NEW T
  PROVE  \E f : Picked(s, T) = f[Len(s)] /\ PicksFrom(f, s, T)
  <1> DEFINE Value(f, n) == IF n = 0 THEN <<>>
                            ELSE IF s[n] \in T /\ ~Contains(f[n - 1], s[n])
                                 THEN Append(f[n - 1], s[n])
                            ELSE f[n - 1]
             Solved == {n \in 0..Len(s) : \E f : f = [i \in 0..n |-> Value(f, i)]}
  <1>1. Len(s) \in Nat
    OBVIOUS
  <1>2. 0 \in Solved
    <2>1. PICK f : f = [i \in 0..0 |-> <<>>]
      OBVIOUS
    <2>2. f = [i \in 0..0 |-> Value(f, i)]
      BY <2>1
    <2>3. QED
      BY <1>1, <2>2
  <1>3. ASSUME NEW n \in 0..(Len(s) - 1), n \in Solved
        PROVE  n + 1 \in Solved
    <2>1. PICK f : f = [i \in 0..n |-> Value(f, i)]
      BY <1>3
    <2>2. PICK g : g = [i \in 0..(n + 1) |-> Value(f, i)]
      OBVIOUS
    <2>3. \A i \in 0..(n + 1) : i # 0 => g[i - 1] = f[i - 1]
      <3>1. SUFFICES ASSUME NEW i \in 0..(n + 1), i # 0
                     PROVE  g[i - 1] = f[i - 1]
        OBVIOUS
      <3>2. i - 1 \in 0..n /\ i - 1 \in 0..(n + 1)
        BY <3>1
      <3>3. QED
        BY <2>1, <2>2, <3>2
    <2>4. \A i \in 0..(n + 1) : Value(g, i) = Value(f, i)
      BY <2>3
    <2>5. g = [i \in 0..(n + 1) |-> Value(g, i)]
      BY <2>2, <2>4
    <2>6. QED
      BY <1>1, <2>5
  <1>4. \E h : h = [i \in 0..Len(s) |-> Value(h, i)]
    <2>1. 0..Len(s) \subseteq Solved
      <3> HIDE DEF Solved
      <3>1. QED
        BY <1>1, <1>2, <1>3, UpTo
    <2>2. Len(s) \in Solved
      <3> HIDE DEF Solved
      <3>1. QED
        BY <1>1, <2>1
    <2>3. QED
      BY <2>2
  <1>5. PICK f : f = CHOOSE h : h = [i \in 0..Len(s) |-> Value(h, i)]
    OBVIOUS
  <1>6. f = [i \in 0..Len(s) |-> Value(f, i)]
    <2> HIDE DEF Value
    <2>1. QED
      BY <1>4, <1>5
  <1>7. Picked(s, T) = f[Len(s)]
    BY <1>5 DEF Picked
  <1>8. \A n \in 0..Len(s) : f[n] = Value(f, n)
    <2> HIDE DEF Value
    <2>1. QED
      BY <1>6
  <1>9. f[0] = <<>>
    BY <1>1, <1>8
  <1>10. \A n \in 1..Len(s) : f[n] = IF s[n] \in T /\ ~Contains(f[n - 1], s[n])
                                  THEN Append(f[n - 1], s[n]) ELSE f[n - 1]
    BY <1>1, <1>8
  <1>11. PicksFrom(f, s, T)
    BY <1>9, <1>10 DEF PicksFrom
  <1>12. QED
    BY <1>7, <1>11

\* What Picked adds at the end keeps a sequence of different elements one.
LEMMA AppendOther ==
  ASSUME NEW S, NEW t \in Seq(S), NEW e, e \notin ToSet(t), IsInjective(t)
  PROVE  /\ Append(t, e) \in Seq(S \union {e})
         /\ ToSet(Append(t, e)) = ToSet(t) \union {e}
         /\ IsInjective(Append(t, e))
  <1>1. /\ Len(Append(t, e)) = Len(t) + 1 /\ DOMAIN Append(t, e) = 1..(Len(t) + 1)
        /\ DOMAIN t = 1..Len(t) /\ Len(t) \in Nat
        /\ \A i \in 1..Len(t) : Append(t, e)[i] = t[i]
        /\ Append(t, e)[Len(t) + 1] = e
    OBVIOUS
  <1>2. t \in Seq(S \union {e})
    OBVIOUS
  <1>3. Append(t, e) \in Seq(S \union {e})
    BY <1>2
  <1>4. ToSet(Append(t, e)) = ToSet(t) \union {e}
    BY <1>1 DEF ToSet
  <1>5. IsInjective(Append(t, e))
    BY <1>1 DEF ToSet, IsInjective
  <1>6. QED
    BY <1>3, <1>4, <1>5

\* Picked returns each element that s has of T, once.
LEMMA PickedIs ==
  ASSUME NEW X, NEW s \in Seq(X), NEW T
  PROVE  /\ Picked(s, T) \in Seq(ToSet(s) \cap T)
         /\ ToSet(Picked(s, T)) = ToSet(s) \cap T
         /\ IsInjective(Picked(s, T))
  <1>1. PICK f : Picked(s, T) = f[Len(s)] /\ PicksFrom(f, s, T)
    BY PickedRecursion
  <1> DEFINE Of(n) == {s[i] : i \in 1..n} \cap T
             Right == {n \in 0..Len(s) : /\ f[n] \in Seq(Of(n))
                                         /\ ToSet(f[n]) = Of(n)
                                         /\ IsInjective(f[n])}
  <1>2. 0 \in Right
    <2>1. <<>> \in Seq(Of(0)) /\ DOMAIN <<>> = {}
      OBVIOUS
    <2>2. Of(0) = {}
      OBVIOUS
    <2>3. ToSet(<<>>) = {} /\ IsInjective(<<>>)
      BY <2>1 DEF ToSet, IsInjective
    <2>4. 0 \in 0..Len(s)
      OBVIOUS
    <2>5. QED
      BY <1>1, <2>1, <2>2, <2>3, <2>4 DEF PicksFrom
  <1>3. ASSUME NEW n \in 0..(Len(s) - 1), n \in Right
        PROVE  n + 1 \in Right
    <2>1. n + 1 \in 1..Len(s) /\ n + 1 \in 0..Len(s) /\ (n + 1) - 1 = n
      OBVIOUS
    <2>2. f[n + 1] = IF s[n + 1] \in T /\ ~Contains(f[n], s[n + 1])
                     THEN Append(f[n], s[n + 1]) ELSE f[n]
      BY <1>1, <2>1 DEF PicksFrom
    <2>3. f[n] \in Seq(Of(n)) /\ ToSet(f[n]) = Of(n) /\ IsInjective(f[n])
      BY <1>3
    <2>4. Contains(f[n], s[n + 1]) <=> s[n + 1] \in ToSet(f[n])
      <3> HIDE DEF Of
      <3>1. DOMAIN f[n] = 1..Len(f[n])
        BY <2>3
      <3>2. QED
        BY <3>1 DEF Contains, ToSet
    <2>5. Of(n + 1) = IF s[n + 1] \in T THEN Of(n) \union {s[n + 1]} ELSE Of(n)
      <3>1. 1..(n + 1) = 1..n \union {n + 1}
        OBVIOUS
      <3>2. QED
        BY <3>1
    <2> HIDE DEF Of
    <2>6. CASE s[n + 1] \in T /\ ~Contains(f[n], s[n + 1])
      <3>1. f[n + 1] = Append(f[n], s[n + 1]) /\ Of(n + 1) = Of(n) \union {s[n + 1]}
        BY <2>2, <2>5, <2>6
      <3>2. s[n + 1] \notin ToSet(f[n])
        BY <2>4, <2>6
      <3>3. /\ Append(f[n], s[n + 1]) \in Seq(Of(n) \union {s[n + 1]})
            /\ ToSet(Append(f[n], s[n + 1])) = ToSet(f[n]) \union {s[n + 1]}
            /\ IsInjective(Append(f[n], s[n + 1]))
        BY <2>3, <3>2, AppendOther
      <3>4. QED
        BY <2>1, <2>3, <3>1, <3>3
    <2>7. CASE ~(s[n + 1] \in T /\ ~Contains(f[n], s[n + 1]))
      <3>1. f[n + 1] = f[n]
        BY <2>2, <2>7
      <3>2. Of(n + 1) = Of(n)
        BY <2>3, <2>4, <2>5, <2>7
      <3>3. QED
        BY <2>1, <2>3, <3>1, <3>2
    <2>8. QED
      BY <2>6, <2>7
  <1>4. Len(s) \in Right
    <2>1. Len(s) \in Nat /\ Len(s) \in 0..Len(s)
      OBVIOUS
    <2>2. 0..Len(s) \subseteq Right
      <3> HIDE DEF Right
      <3>1. QED
        BY <1>2, <1>3, <2>1, UpTo
    <2> HIDE DEF Right
    <2>3. QED
      BY <2>1, <2>2
  <1>5. Of(Len(s)) = ToSet(s) \cap T
    BY DEF ToSet
  <1>6. QED
    BY <1>1, <1>4, <1>5

\* What is selected after the first n numbers of a line, for each n.
TogglesFrom(f, preSelected, line) ==
  /\ f[0] = preSelected
  /\ \A n \in 1..Len(line) : f[n] = IF line[n] \in DOMAIN KnownHarnesses
                                    THEN SymDiff(f[n - 1], {KnownHarnesses[line[n]]})
                                    ELSE f[n - 1]

\* ToggleFrom's recursion has a solution.
LEMMA ToggleRecursion ==
  ASSUME NEW pre, NEW line \in Seq(Nat)
  PROVE  \E f : /\ ToggleFrom(pre, line) = Picked(KnownHarnesses, f[Len(line)])
                /\ TogglesFrom(f, pre, line)
  <1> DEFINE Value(f, n) == IF n = 0 THEN pre
                            ELSE IF line[n] \in DOMAIN KnownHarnesses
                                 THEN SymDiff(f[n - 1], {KnownHarnesses[line[n]]})
                            ELSE f[n - 1]
             Solved == {n \in 0..Len(line) : \E f : f = [i \in 0..n |-> Value(f, i)]}
  <1>1. Len(line) \in Nat
    OBVIOUS
  <1>2. 0 \in Solved
    <2>1. PICK f : f = [i \in 0..0 |-> pre]
      OBVIOUS
    <2>2. f = [i \in 0..0 |-> Value(f, i)]
      BY <2>1
    <2>3. QED
      BY <1>1, <2>2
  <1>3. ASSUME NEW n \in 0..(Len(line) - 1), n \in Solved
        PROVE  n + 1 \in Solved
    <2>1. PICK f : f = [i \in 0..n |-> Value(f, i)]
      BY <1>3
    <2>2. PICK g : g = [i \in 0..(n + 1) |-> Value(f, i)]
      OBVIOUS
    <2>3. \A i \in 0..(n + 1) : i # 0 => g[i - 1] = f[i - 1]
      <3>1. SUFFICES ASSUME NEW i \in 0..(n + 1), i # 0
                     PROVE  g[i - 1] = f[i - 1]
        OBVIOUS
      <3>2. i - 1 \in 0..n /\ i - 1 \in 0..(n + 1)
        BY <3>1
      <3>3. QED
        BY <2>1, <2>2, <3>2
    <2>4. \A i \in 0..(n + 1) : Value(g, i) = Value(f, i)
      BY <2>3
    <2>5. g = [i \in 0..(n + 1) |-> Value(g, i)]
      BY <2>2, <2>4
    <2>6. n + 1 \in 0..Len(line)
      BY <1>1
    <2> HIDE DEF Value
    <2>7. QED
      BY <2>5, <2>6
  <1>4. \E h : h = [i \in 0..Len(line) |-> Value(h, i)]
    <2>1. 0..Len(line) \subseteq Solved
      <3> HIDE DEF Solved
      <3>1. QED
        BY <1>1, <1>2, <1>3, UpTo
    <2>2. Len(line) \in Solved
      <3> HIDE DEF Solved
      <3>1. QED
        BY <1>1, <2>1
    <2>3. QED
      BY <2>2
  <1>5. PICK f : f = CHOOSE h : h = [i \in 0..Len(line) |-> Value(h, i)]
    OBVIOUS
  <1>6. f = [i \in 0..Len(line) |-> Value(f, i)]
    <2> HIDE DEF Value
    <2>1. QED
      BY <1>4, <1>5
  <1>7. ToggleFrom(pre, line) = Picked(KnownHarnesses, f[Len(line)])
    BY <1>5 DEF ToggleFrom
  <1>8. \A n \in 0..Len(line) : f[n] = Value(f, n)
    <2> HIDE DEF Value
    <2>1. QED
      BY <1>6
  <1>9. Value(f, 0) = pre
    OBVIOUS
  <1>10. \A n \in 1..Len(line) : Value(f, n) = IF line[n] \in DOMAIN KnownHarnesses
                                                THEN SymDiff(f[n - 1], {KnownHarnesses[line[n]]})
                                                ELSE f[n - 1]
    <2>1. \A n \in 1..Len(line) : n # 0
      OBVIOUS
    <2>2. QED
      BY <2>1
  <1>11. TogglesFrom(f, pre, line)
    <2> HIDE DEF Value
    <2>1. 0 \in 0..Len(line) /\ 1..Len(line) \subseteq 0..Len(line)
      BY <1>1
    <2>2. QED
      BY <2>1, <1>8, <1>9, <1>10 DEF TogglesFrom
  <1>12. QED
    BY <1>7, <1>11

\* The numbers among the first n of a line that stand for h.
Flips(line, n, h) == {k \in 1..n : line[k] \in DOMAIN KnownHarnesses /\ KnownHarnesses[line[k]] = h}

\* One number more is one flip more, or none.
LEMMA OneMore ==
  ASSUME NEW line, NEW n \in Nat, NEW h
  PROVE  /\ Cardinality(Flips(line, n, h)) \in Nat
         /\ Cardinality(Flips(line, n + 1, h)) =
              IF line[n + 1] \in DOMAIN KnownHarnesses /\ KnownHarnesses[line[n + 1]] = h
              THEN Cardinality(Flips(line, n, h)) + 1 ELSE Cardinality(Flips(line, n, h))
  <1>1. IsFiniteSet(Flips(line, n, h))
    <2>1. IsFiniteSet(1..n)
      BY FS_Interval
    <2>2. Flips(line, n, h) \in SUBSET (1..n)
      BY DEF Flips
    <2>3. QED
      BY <2>1, <2>2, FS_Subset
  <1>2. n + 1 \notin Flips(line, n, h) /\ 1..(n + 1) = 1..n \union {n + 1}
    BY DEF Flips
  <1>3. Flips(line, n + 1, h) =
          IF line[n + 1] \in DOMAIN KnownHarnesses /\ KnownHarnesses[line[n + 1]] = h
          THEN Flips(line, n, h) \union {n + 1} ELSE Flips(line, n, h)
    BY <1>2 DEF Flips
  <1>4. Cardinality(Flips(line, n, h)) \in Nat
    BY <1>1, FS_CardinalityType
  <1>5. Cardinality(Flips(line, n, h) \union {n + 1}) = Cardinality(Flips(line, n, h)) + 1
    BY <1>1, <1>2, FS_AddElement
  <1>6. QED
    BY <1>3, <1>4, <1>5

\* toggleFrom (install.go:235-258), for every line that may be typed: a harness is selected in the
\* end, once, when it was and was typed an even number of times, or was not and was typed an odd
\* number of times; numbers that stand for none count for nothing.
THEOREM TogglesAreParity ==
  ASSUME NEW pre \in SUBSET Harnesses, NEW line \in Seq(Nat)
  PROVE  /\ ToggleFrom(pre, line) \in Seq(Harnesses)
         /\ IsInjective(ToggleFrom(pre, line))
         /\ ToSet(ToggleFrom(pre, line)) =
              {h \in Harnesses : (h \in pre) # (Cardinality(Flips(line, Len(line), h)) % 2 = 1)}
  <1>1. PICK f : /\ ToggleFrom(pre, line) = Picked(KnownHarnesses, f[Len(line)])
                 /\ TogglesFrom(f, pre, line)
    BY ToggleRecursion
  <1> DEFINE On(n) == {h \in Harnesses : (h \in pre) # (Cardinality(Flips(line, n, h)) % 2 = 1)}
             Right == {n \in 0..Len(line) : f[n] = On(n)}
  <1>2. 0 \in Right
    <2>1. \A h : Flips(line, 0, h) = {}
      BY DEF Flips
    <2>2. \A h : Cardinality(Flips(line, 0, h)) % 2 = 0
      <3>1. Cardinality({}) = 0 /\ 0 % 2 = 0
        BY FS_EmptySet
      <3>2. QED
        BY <2>1, <3>1, Zenon
    <2>3. On(0) = pre
      BY <2>2
    <2>4. f[0] = pre /\ 0 \in 0..Len(line)
      BY <1>1 DEF TogglesFrom
    <2>5. QED
      BY <2>3, <2>4
  <1>3. ASSUME NEW n \in 0..(Len(line) - 1), n \in Right
        PROVE  n + 1 \in Right
    <2>1. n \in Nat /\ n + 1 \in 1..Len(line) /\ n + 1 \in 0..Len(line) /\ (n + 1) - 1 = n
      OBVIOUS
    <2>2. f[n] = On(n)
      BY <1>3
    <2>3. f[n + 1] = IF line[n + 1] \in DOMAIN KnownHarnesses
                     THEN SymDiff(f[n], {KnownHarnesses[line[n + 1]]}) ELSE f[n]
      BY <1>1, <2>1 DEF TogglesFrom
    <2>4. \A h \in Harnesses :
            h \in f[n + 1] <=>
              (h \in f[n]) # (line[n + 1] \in DOMAIN KnownHarnesses
                                /\ KnownHarnesses[line[n + 1]] = h)
      BY <2>3 DEF SymDiff
    <2>5. \A c \in Nat : ((c + 1) % 2 = 1) <=> ~(c % 2 = 1)
      OBVIOUS
    <2>6. \A h \in Harnesses :
            (Cardinality(Flips(line, n + 1, h)) % 2 = 1) <=>
              (Cardinality(Flips(line, n, h)) % 2 = 1)
                # (line[n + 1] \in DOMAIN KnownHarnesses /\ KnownHarnesses[line[n + 1]] = h)
      <3>1. SUFFICES ASSUME NEW h \in Harnesses
                     PROVE  (Cardinality(Flips(line, n + 1, h)) % 2 = 1) <=>
                              (Cardinality(Flips(line, n, h)) % 2 = 1)
                                # (line[n + 1] \in DOMAIN KnownHarnesses
                                     /\ KnownHarnesses[line[n + 1]] = h)
        OBVIOUS
      <3>2. PICK c \in Nat : c = Cardinality(Flips(line, n, h))
        BY <2>1, OneMore
      <3>3. CASE line[n + 1] \in DOMAIN KnownHarnesses /\ KnownHarnesses[line[n + 1]] = h
        <4>1. Cardinality(Flips(line, n + 1, h)) = c + 1
          BY <2>1, <3>2, <3>3, OneMore
        <4>2. QED
          BY <2>5, <3>2, <3>3, <4>1
      <3>4. CASE ~(line[n + 1] \in DOMAIN KnownHarnesses /\ KnownHarnesses[line[n + 1]] = h)
        <4>1. Cardinality(Flips(line, n + 1, h)) = c
          BY <2>1, <3>2, <3>4, OneMore
        <4>2. QED
          BY <3>2, <3>4, <4>1
      <3>5. QED
        BY <3>3, <3>4
    <2>7. f[n + 1] \subseteq Harnesses
      <3>1. line[n + 1] \in DOMAIN KnownHarnesses => KnownHarnesses[line[n + 1]] \in Harnesses
        BY DEF Harnesses, ToSet
      <3>2. QED
        BY <2>2, <2>3, <3>1 DEF SymDiff
    <2>8. \A h \in Harnesses : h \in f[n + 1] <=> h \in On(n + 1)
      BY <2>2, <2>4, <2>6
    <2>9. f[n + 1] = On(n + 1)
      BY <2>7, <2>8
    <2>10. QED
      BY <2>1, <2>9
  <1>4. f[Len(line)] = On(Len(line))
    <2>1. Len(line) \in Nat /\ Len(line) \in 0..Len(line)
      OBVIOUS
    <2>2. 0..Len(line) \subseteq Right
      <3> HIDE DEF Right
      <3>1. QED
        BY <1>2, <1>3, <2>1, UpTo
    <2>3. Len(line) \in Right
      <3> HIDE DEF Right
      <3>1. QED
        BY <2>1, <2>2
    <2>4. QED
      BY <2>3
  <1>5. KnownHarnesses \in Seq(Harnesses) /\ ToSet(KnownHarnesses) = Harnesses
    BY SkillInstallAssumption DEF Harnesses
  <1>6. /\ Picked(KnownHarnesses, On(Len(line))) \in Seq(Harnesses \cap On(Len(line)))
        /\ ToSet(Picked(KnownHarnesses, On(Len(line)))) = Harnesses \cap On(Len(line))
        /\ IsInjective(Picked(KnownHarnesses, On(Len(line))))
    <2> HIDE DEF On
    <2>1. QED
      BY <1>5, PickedIs
  <1>7. Harnesses \cap On(Len(line)) = On(Len(line))
    OBVIOUS
  <1>8. QED
    BY <1>1, <1>4, <1>6, <1>7

-----------------------------------------------------------------------------
(* What is installed: a third invariant, which rests on the second.        *)

AllFiles == Files("home") \union Files("project")

Targets == ResolveTargets(chosen, request.project)

EntryOf(f) == [harness |-> HarnessLabelForPath(f), path |-> f]

\* A selection is what the user asked for, and is made once.
SelectionInOrder == /\ IsRequest(request)
                    /\ answer \in Seq(Nat)
                    /\ chosen \in Seq(Harnesses) /\ IsInjective(chosen)
                    /\ stage \in {"off", "resolve", "prompt"} => chosen = <<>>
                    /\ stage = "prompt" => ~request.all /\ request.harness = <<>>
                    /\ stage \in {"write", "done"} => chosen # <<>>
                    /\ chosen # <<>> => ToSet(chosen) = Wanted

\* What is in the result and what is left are the files of the selected harnesses, in order.
ResultInOrder == /\ installed \in Seq([harness : Harnesses \union {"agents"}, path : AllFiles])
                 /\ left \in Seq(AllFiles)
                 /\ Len(installed) + Len(left) = Len(Targets)
                 /\ \A i \in 1..Len(installed) : installed[i] = EntryOf(Targets[i])
                 /\ \A j \in 1..Len(left) : left[j] = Targets[Len(installed) + j]
                 /\ stage = "done" => left = <<>>

\* What is in the result is written, and nothing else is.
WrittenIsInstalled ==
  /\ skills \in [AllFiles -> {"none", "old", "this"}]
  /\ \A f \in AllFiles :
       skills[f] = IF \E i \in DOMAIN installed : installed[i].path = f
                   THEN RenderSKILL ELSE request.before[f]

\* Only an install that is done is reported as a success.
DoneIsReported ==
  run.cmd = "skill install" =>
    /\ pc = "write" => stage = "done"
    /\ pc = "exited" /\ exit = Success /\ ~run.help => stage = "done"

Installing == SelectionInOrder /\ ResultInOrder /\ WrittenIsInstalled /\ DoneIsReported

\* A path of a harness is one of the six files, under the root the flags say.
LEMMA PathIsFile ==
  ASSUME NEW h, NEW p \in BOOLEAN
  PROVE  /\ TargetPath(h, p) \in AllFiles
         /\ TargetPath(h, p).root = IF p THEN "project" ELSE "home"
  BY DEF TargetPath, AllFiles, Files, File

\* The targets are the files of the harnesses, each once (targets.go:59-72).
THEOREM TargetsAre ==
  ASSUME NEW hs \in Seq(Harnesses), NEW p \in BOOLEAN
  PROVE  /\ ResolveTargets(hs, p) \in Seq(AllFiles)
         /\ IsInjective(ResolveTargets(hs, p))
         /\ ToSet(ResolveTargets(hs, p)) = {TargetPath(h, p) : h \in ToSet(hs)}
  <1> DEFINE paths == [i \in DOMAIN hs |-> TargetPath(hs[i], p)]
  <1>1. paths \in Seq(AllFiles)
    <2>1. \A i \in DOMAIN hs : TargetPath(hs[i], p) \in AllFiles
      BY PathIsFile
    <2>2. DOMAIN hs = 1..Len(hs) /\ Len(hs) \in Nat
      OBVIOUS
    <2>3. QED
      BY <2>1, <2>2
  <1>2. ToSet(paths) = {TargetPath(h, p) : h \in ToSet(hs)}
    BY DEF ToSet
  <1>3. ToSet(paths) \subseteq AllFiles
    BY <1>1 DEF ToSet
  <1>4. ResolveTargets(hs, p) = Picked(paths, ToSet(paths))
    BY DEF ResolveTargets
  <1> HIDE DEF paths
  <1>5. /\ Picked(paths, ToSet(paths)) \in Seq(ToSet(paths) \cap ToSet(paths))
        /\ ToSet(Picked(paths, ToSet(paths))) = ToSet(paths) \cap ToSet(paths)
        /\ IsInjective(Picked(paths, ToSet(paths)))
    BY <1>1, PickedIs
  <1>6. ToSet(paths) \cap ToSet(paths) = ToSet(paths)
    OBVIOUS
  <1>7. Picked(paths, ToSet(paths)) \in Seq(AllFiles)
    BY <1>3, <1>5, <1>6
  <1>8. QED
    BY <1>2, <1>4, <1>5, <1>6, <1>7

\* Nothing is to be written before a selection is made.
LEMMA NothingYet ==
  ASSUME SelectionInOrder, ResultInOrder, chosen = <<>>
  PROVE  Targets = <<>> /\ installed = <<>> /\ left = <<>>
  <1>1. request.project \in BOOLEAN
    BY DEF SelectionInOrder, IsRequest
  <1>2. /\ Targets \in Seq(AllFiles)
        /\ ToSet(Targets) = {TargetPath(h, request.project) : h \in ToSet(chosen)}
    BY <1>1, TargetsAre DEF SelectionInOrder, Targets
  <1>3. ToSet(chosen) = {}
    <2>1. DOMAIN chosen = {}
      OBVIOUS
    <2>2. QED
      BY <2>1 DEF ToSet
  <1>4. Len(Targets) = 0
    <2>1. ToSet(Targets) = {}
      BY <1>2, <1>3
    <2>2. DOMAIN Targets = 1..Len(Targets) /\ Len(Targets) \in Nat
      BY <1>2
    <2>3. \A i \in DOMAIN Targets : Targets[i] \in ToSet(Targets)
      BY DEF ToSet
    <2>4. Len(Targets) # 0 => 1 \in DOMAIN Targets
      BY <2>2
    <2>5. QED
      BY <2>1, <2>3, <2>4
  <1>5. Len(installed) \in Nat /\ Len(left) \in Nat /\ Len(installed) + Len(left) = 0
    BY <1>4 DEF ResultInOrder
  <1>6. QED
    BY <1>2, <1>4, <1>5 DEF ResultInOrder

\* A step that leaves the installer alone keeps its promise, if it does not end the command.
LEMMA InstallStays ==
  ASSUME Installing, UNCHANGED <<request, stage, answer, chosen, left, skills, installed, run>>,
         DoneIsReported'
  PROVE  Installing'
  <1>1. Wanted' = Wanted
    BY DEF Wanted, Typed
  <1>2. SelectionInOrder'
    BY <1>1 DEF Installing, SelectionInOrder
  <1>3. ResultInOrder'
    BY DEF Installing, ResultInOrder, Targets, EntryOf, HarnessLabelForPath
  <1>4. WrittenIsInstalled'
    BY DEF Installing, WrittenIsInstalled
  <1>5. QED
    BY <1>2, <1>3, <1>4 DEF Installing

\* A selection that is empty or what the user asked for becomes targets that are all left.
LEMMA ChooseStep ==
  ASSUME Installing, stage \in {"resolve", "prompt"},
         NEW hs \in Seq(Harnesses), Choose(hs), IsInjective(hs), ToSet(hs) = Wanted',
         UNCHANGED <<request, skills, installed>>, answer' \in Seq(Nat)
  PROVE  SelectionInOrder' /\ ResultInOrder' /\ WrittenIsInstalled'
  <1>1. chosen = <<>> /\ Targets = <<>> /\ installed = <<>> /\ left = <<>>
    BY NothingYet DEF Installing, SelectionInOrder
  <1>2. WrittenIsInstalled'
    BY DEF Installing, WrittenIsInstalled
  <1>3. CASE hs = <<>>
    <2>1. stage' = "failed" /\ chosen' = <<>> /\ left' = <<>>
      BY <1>1, <1>3 DEF Choose, Refuse
    <2>2. SelectionInOrder'
      BY <2>1, <1>1 DEF Installing, SelectionInOrder
    <2>3. Targets' = Targets
      BY <1>1, <2>1 DEF Targets
    <2>4. ResultInOrder'
      BY <2>1, <2>3, <1>1 DEF Installing, ResultInOrder
    <2>5. QED
      BY <1>2, <2>2, <2>4
  <1>4. CASE hs # <<>>
    <2>1. /\ stage' = "write" /\ chosen' = hs
          /\ left' = ResolveTargets(hs, request.project) /\ left' = Targets'
      BY <1>4 DEF Choose, Targets
    <2>2. SelectionInOrder'
      BY <2>1, <1>4 DEF Installing, SelectionInOrder
    <2>3. left' \in Seq(AllFiles)
      BY <2>1, TargetsAre DEF Installing, SelectionInOrder, IsRequest
    <2>4. installed' = <<>> /\ Len(installed') = 0
      BY <1>1
    <2>5. /\ installed' \in Seq([harness : Harnesses \union {"agents"}, path : AllFiles])
          /\ Len(left') \in Nat
      BY <2>3, <2>4
    <2>6. ResultInOrder'
      BY <2>1, <2>3, <2>4, <2>5 DEF ResultInOrder
    <2>7. QED
      BY <1>2, <2>2, <2>6
  <1>5. QED
    BY <1>3, <1>4

\* A step to another stage without a selection changes neither selection nor result.
LEMMA StageStep ==
  ASSUME Installing, UNCHANGED <<request, answer, chosen, left, skills, installed>>,
         stage' \in {"off", "resolve", "prompt"} => chosen = <<>>,
         stage' = "prompt" => ~request.all /\ request.harness = <<>>,
         stage' \in {"write", "done"} => chosen # <<>>,
         stage' = "done" => left = <<>>
  PROVE  SelectionInOrder' /\ ResultInOrder' /\ WrittenIsInstalled'
  <1>1. Wanted' = Wanted
    BY DEF Wanted, Typed
  <1>2. SelectionInOrder'
    BY <1>1 DEF Installing, SelectionInOrder
  <1>3. ResultInOrder'
    BY DEF Installing, ResultInOrder, Targets, EntryOf, HarnessLabelForPath
  <1>4. WrittenIsInstalled'
    BY DEF Installing, WrittenIsInstalled
  <1>5. QED
    BY <1>2, <1>3, <1>4

\* --all selects every harness.
LEMMA AllStep ==
  ASSUME Installing, SelectAll
  PROVE  SelectionInOrder' /\ ResultInOrder' /\ WrittenIsInstalled'
  <1>1. /\ stage = "resolve" /\ UNCHANGED <<request, answer, skills, installed>>
        /\ answer \in Seq(Nat) /\ chosen = <<>>
    BY DEF SelectAll, disk, Installing, SelectionInOrder
  <1>2. CASE request.harness = <<>>
    <2>1. Choose(KnownHarnesses)
      BY <1>2 DEF SelectAll
    <2>2. ToSet(KnownHarnesses) = Harnesses /\ Wanted' = Harnesses
      BY <1>1, <1>2 DEF Wanted, SelectAll, Harnesses
    <2>3. KnownHarnesses \in Seq(Harnesses) /\ IsInjective(KnownHarnesses)
      BY SkillInstallAssumption
    <2>4. QED
      BY <1>1, <2>1, <2>2, <2>3, ChooseStep
  <1>3. CASE request.harness # <<>>
    BY <1>1, <1>3, StageStep DEF SelectAll, Refuse
  <1>4. QED
    BY <1>2, <1>3

\* --harness selects what it names, unless a name is nobody's.
LEMMA NamedStep ==
  ASSUME Installing, ParseHarnesses
  PROVE  SelectionInOrder' /\ ResultInOrder' /\ WrittenIsInstalled'
  <1>1. /\ stage = "resolve" /\ UNCHANGED <<request, answer, skills, installed>>
        /\ answer \in Seq(Nat) /\ chosen = <<>>
        /\ ~request.all /\ request.harness # <<>> /\ request.harness \in Seq(STRING)
    BY DEF ParseHarnesses, disk, Installing, SelectionInOrder, IsRequest
  <1>2. CASE Unknown = {}
    <2> DEFINE names == [i \in DOMAIN request.harness |-> Canonical(request.harness[i])]
    <2>1. Choose(Named)
      BY <1>2 DEF ParseHarnesses
    <2>2. names \in Seq(STRING \union {Devin})
      <3>1. \A i \in DOMAIN request.harness :
              Canonical(request.harness[i]) \in STRING \union {Devin}
        BY <1>1 DEF Canonical
      <3>2. DOMAIN request.harness = 1..Len(request.harness) /\ Len(request.harness) \in Nat
        BY <1>1
      <3>3. QED
        BY <3>1, <3>2
    <2>3. ToSet(names) = {Canonical(n) : n \in ToSet(request.harness)}
      BY DEF ToSet
    <2>4. Named = Picked(names, Harnesses)
      BY DEF Named
    <2> HIDE DEF names
    <2>5. /\ Named \in Seq(ToSet(names) \cap Harnesses)
          /\ ToSet(Named) = ToSet(names) \cap Harnesses
          /\ IsInjective(Named)
      BY <2>2, <2>4, PickedIs
    <2>6. ToSet(names) \cap Harnesses = {Canonical(n) : n \in ToSet(request.harness) \ {""}}
      <3>1. Canonical("") \notin Harnesses
        BY SkillInstallAssumption DEF Canonical
      <3>2. {Canonical(n) : n \in ToSet(request.harness) \ {""}} \subseteq Harnesses
        BY <1>2 DEF Unknown
      <3>3. QED
        BY <2>3, <3>1, <3>2
    <2>7. ToSet(request.harness) \ {""} \subseteq Harnesses \union {Windsurf}
      <3>1. \A n \in ToSet(request.harness) \ {""} : Canonical(n) \in Harnesses
        BY <1>2 DEF Unknown
      <3>2. QED
        BY <3>1 DEF Canonical
    <2>8. Wanted' = {Canonical(n) : n \in ToSet(request.harness) \ {""}}
      BY <1>1, <2>7 DEF Wanted
    <2>9. Named \in Seq(Harnesses)
      BY <2>5
    <2>10. QED
      BY <1>1, <2>1, <2>5, <2>6, <2>8, <2>9, ChooseStep
  <1>3. CASE Unknown # {}
    BY <1>1, <1>3, StageStep DEF ParseHarnesses, Refuse
  <1>4. QED
    BY <1>2, <1>3

\* At the prompt, each number flips a harness, and what was detected is on at first.
LEMMA TypedStep ==
  ASSUME Installing, NEW line \in Lines, ReadSelection(line)
  PROVE  SelectionInOrder' /\ ResultInOrder' /\ WrittenIsInstalled'
  <1>1. /\ stage = "prompt" /\ UNCHANGED <<request, skills, installed>>
        /\ answer' = line /\ line \in Seq(Nat)
        /\ Choose(ToggleFrom(DetectHarnesses, line))
    BY ProcessAssumption DEF ReadSelection, disk
  <1>2. DetectHarnesses \in SUBSET Harnesses
    BY DEF DetectHarnesses
  <1>3. /\ ToggleFrom(DetectHarnesses, line) \in Seq(Harnesses)
        /\ IsInjective(ToggleFrom(DetectHarnesses, line))
        /\ ToSet(ToggleFrom(DetectHarnesses, line)) =
             {h \in Harnesses :
                (h \in DetectHarnesses) # (Cardinality(Flips(line, Len(line), h)) % 2 = 1)}
    BY <1>1, <1>2, TogglesAreParity
  <1>4. \A h : Typed(h)' = Flips(line, Len(line), h)
    <2>1. DOMAIN line = 1..Len(line)
      BY <1>1
    <2>2. QED
      BY <1>1, <2>1 DEF Typed, Flips
  <1>5. Wanted' = {h \in Harnesses :
                     (Footprints[h] \cap request.dirs # {})
                       # (Cardinality(Typed(h)') % 2 = 1)}
    BY <1>1 DEF Wanted, Installing, SelectionInOrder
  <1>6. ToSet(ToggleFrom(DetectHarnesses, line)) = Wanted'
    <2>1. \A h \in Harnesses : h \in DetectHarnesses <=> Footprints[h] \cap request.dirs # {}
      BY DEF DetectHarnesses
    <2>2. QED
      BY <1>3, <1>4, <1>5, <2>1
  <1>7. QED
    BY <1>1, <1>3, <1>6, ChooseStep

\* A file written enters the result, and is the next of those left.
LEMMA WriteStep ==
  ASSUME Installing, WriteSkill
  PROVE  SelectionInOrder' /\ ResultInOrder' /\ WrittenIsInstalled'
  <1>1. PICK f : f = Head(left)
    OBVIOUS
  <1>2. PICK k \in Nat : k = Len(installed)
    BY DEF Installing, ResultInOrder
  <1>3. /\ left \in Seq(AllFiles) /\ left # <<>> /\ f \in AllFiles
        /\ Len(left) \in Nat \ {0} /\ f = left[1]
        /\ Len(Tail(left)) = Len(left) - 1 /\ Tail(left) \in Seq(AllFiles)
        /\ \A j \in 1..(Len(left) - 1) : Tail(left)[j] = left[j + 1]
    BY <1>1 DEF WriteSkill, Installing, ResultInOrder
  <1>4. /\ UNCHANGED <<request, answer, chosen, stage>> /\ stage = "write"
        /\ left' = Tail(left) /\ installed' = Append(installed, EntryOf(f))
        /\ skills' = [skills EXCEPT ![f] = RenderSKILL]
    BY <1>1 DEF WriteSkill, EntryOf
  <1>5. SelectionInOrder'
    <2>1. Wanted' = Wanted
      BY <1>4 DEF Wanted, Typed
    <2>2. QED
      BY <1>4, <2>1 DEF Installing, SelectionInOrder
  <1>6. EntryOf(f) \in [harness : Harnesses \union {"agents"}, path : AllFiles]
    BY <1>3, SkillInstallAssumption DEF EntryOf, HarnessLabelForPath
  <1>7. /\ installed' \in Seq([harness : Harnesses \union {"agents"}, path : AllFiles])
        /\ Len(installed') = k + 1
        /\ installed'[k + 1] = EntryOf(f)
        /\ \A i \in 1..k : installed'[i] = installed[i]
    BY <1>2, <1>4, <1>6 DEF Installing, ResultInOrder
  <1>8. ResultInOrder'
    <2>1. Targets' = Targets /\ \A g : EntryOf(g)' = EntryOf(g)
      BY <1>4 DEF Targets, EntryOf, HarnessLabelForPath
    <2>2. Len(installed') + Len(left') = Len(Targets)
      BY <1>2, <1>3, <1>4, <1>7 DEF Installing, ResultInOrder
    <2>3. f = Targets[k + 1]
      BY <1>2, <1>3 DEF Installing, ResultInOrder
    <2>4. \A i \in 1..Len(installed') : installed'[i] = EntryOf(Targets[i])
      <3>1. \A i \in 1..k : installed'[i] = EntryOf(Targets[i])
        BY <1>2, <1>7 DEF Installing, ResultInOrder
      <3>2. 1..Len(installed') = 1..k \union {k + 1}
        BY <1>7
      <3>3. QED
        BY <1>7, <2>3, <3>1, <3>2
    <2>5. \A j \in 1..Len(left') : left'[j] = Targets[Len(installed') + j]
      <3>1. SUFFICES ASSUME NEW j \in 1..(Len(left) - 1)
                     PROVE  Tail(left)[j] = Targets[k + 1 + j]
        BY <1>3, <1>4, <1>7
      <3>2. j + 1 \in 1..Len(left) /\ k + (j + 1) = k + 1 + j
        BY <1>3
      <3>3. left[j + 1] = Targets[k + (j + 1)]
        BY <1>2, <3>2 DEF Installing, ResultInOrder
      <3>4. QED
        BY <1>3, <3>2, <3>3
    <2>6. QED
      BY <1>3, <1>4, <1>7, <2>1, <2>2, <2>4, <2>5 DEF ResultInOrder
  <1>9. WrittenIsInstalled'
    <2>1. skills' \in [AllFiles -> {"none", "old", "this"}]
      BY <1>3, <1>4 DEF Installing, WrittenIsInstalled, RenderSKILL
    <2>2. DOMAIN installed' = 1..(k + 1) /\ DOMAIN installed = 1..k
      BY <1>2, <1>7 DEF Installing, ResultInOrder
    <2>3. \A g : (\E i \in DOMAIN installed' : installed'[i].path = g)
                   <=> g = f \/ \E i \in DOMAIN installed : installed[i].path = g
      <3>1. 1..(k + 1) = 1..k \union {k + 1} /\ EntryOf(f).path = f
        BY DEF EntryOf
      <3>2. QED
        BY <1>7, <2>2, <3>1
    <2>4. \A g \in AllFiles : skills'[g] = IF g = f THEN RenderSKILL ELSE skills[g]
      BY <1>4 DEF Installing, WrittenIsInstalled
    <2>5. QED
      BY <1>4, <2>1, <2>3, <2>4 DEF Installing, WrittenIsInstalled
  <1>10. QED
    BY <1>5, <1>8, <1>9

\* Every step of the installer, and of the user at its prompt, keeps selection and result in order.
LEMMA InstallerSteps ==
  ASSUME Installing,
         \/ BeginInstall \/ InstallStep \/ CancelSelection(interrupted) \/ ReadSelectionFails
         \/ \E line \in Lines : ReadSelection(line)
  PROVE  SelectionInOrder' /\ ResultInOrder' /\ WrittenIsInstalled'
  <1>1. CASE BeginInstall
    BY <1>1, StageStep DEF BeginInstall, GoTo, Refuse, disk, Installing, SelectionInOrder
  <1>2. CASE SelectAll
    BY <1>2, AllStep
  <1>3. CASE ParseHarnesses
    BY <1>3, NamedStep
  <1>4. CASE SelectByUser
    BY <1>4, StageStep DEF SelectByUser, GoTo, Refuse, disk, Installing, SelectionInOrder
  <1>5. CASE WriteSkill
    BY <1>5, WriteStep
  <1>6. CASE WriteSkillFails
    BY <1>6, StageStep DEF WriteSkillFails, Refuse, disk
  <1>7. CASE AllWritten
    BY <1>7, StageStep DEF AllWritten, GoTo, disk, Installing, SelectionInOrder
  <1>8. CASE CancelSelection(interrupted) \/ ReadSelectionFails
    BY <1>8, StageStep DEF CancelSelection, ReadSelectionFails, Refuse, disk
  <1>9. CASE \E line \in Lines : ReadSelection(line)
    BY <1>9, TypedStep
  <1>10. QED
    BY <1>1, <1>2, <1>3, <1>4, <1>5, <1>6, <1>7, <1>8, <1>9 DEF InstallStep

\* The installer starts with nothing selected, and with the files as they were.
LEMMA InitInstalling == Init => Installing
  <1>1. SUFFICES ASSUME Init
                 PROVE  Installing
    OBVIOUS
  <1>2. /\ IsRequest(request) /\ skills = request.before
        /\ stage = "off" /\ answer = <<>> /\ chosen = <<>> /\ left = <<>> /\ installed = <<>>
        /\ pc = "new"
    BY <1>1, ProcessAssumption DEF Init
  <1>3. /\ chosen \in Seq(Harnesses) /\ answer \in Seq(Nat) /\ left \in Seq(AllFiles)
        /\ installed \in Seq([harness : Harnesses \union {"agents"}, path : AllFiles])
    BY <1>2
  <1>4. DOMAIN chosen = {} /\ DOMAIN installed = {} /\ Len(left) = 0 /\ Len(installed) = 0
    BY <1>2
  <1>5. SelectionInOrder
    BY <1>2, <1>3, <1>4 DEF SelectionInOrder, IsInjective
  <1>6. Len(Targets) = 0
    <2>1. Targets \in Seq(AllFiles) /\ ToSet(Targets) = {}
      <3>1. ToSet(chosen) = {}
        BY <1>4 DEF ToSet
      <3>2. QED
        BY <1>2, <1>3, <3>1, TargetsAre DEF Targets, IsRequest
    <2>2. \A i \in DOMAIN Targets : Targets[i] \in ToSet(Targets)
      BY DEF ToSet
    <2>3. DOMAIN Targets = 1..Len(Targets) /\ Len(Targets) \in Nat
      BY <2>1
    <2>4. Len(Targets) # 0 => 1 \in DOMAIN Targets
      BY <2>3
    <2>5. QED
      BY <2>1, <2>2, <2>4
  <1>7. ResultInOrder
    BY <1>2, <1>3, <1>4, <1>6 DEF ResultInOrder
  <1>8. WrittenIsInstalled
    BY <1>2, <1>4 DEF WrittenIsInstalled, IsRequest, AllFiles
  <1>9. DoneIsReported
    BY <1>2 DEF DoneIsReported
  <1>10. QED
    BY <1>5, <1>7, <1>8, <1>9 DEF Installing

\* Outside the installer, a result is told only once it is done.
LEMMA OtherSteps ==
  ASSUME Telling, Installing,
         \/ New \/ ParseFlags \/ ValidateArgs \/ PersistentPreRunE \/ Report
         \/ Guide \/ Group \/ Version \/ ListProfiles \/ ShowProfile \/ RequireToken
         \/ Call \/ Write \/ EndInstall \/ EndCreate
  PROVE  Installing'
  <1>1. UNCHANGED <<request, stage, answer, chosen, left, skills, installed, run>>
    BY DEF New, ParseFlags, ValidateArgs, PersistentPreRunE, Report, Guide, Group, Version,
           ListProfiles, ShowProfile, RequireToken, Call, Write, EndInstall, EndCreate, inputs,
           installVars
  <1>2. DoneIsReported'
    <2>1. CASE New \/ ParseFlags \/ PersistentPreRunE
      BY <2>1 DEF New, ParseFlags, PersistentPreRunE, Continue, Fail, DoneIsReported
    <2>2. CASE ValidateArgs
      BY <1>1, <2>2 DEF ValidateArgs, ShowHelp, Continue, Fail, DoneIsReported
    <2>3. CASE Report
      <3>1. exit' # Success /\ pc' = "exited"
        BY <2>3, ExitTellsCode DEF Report
      <3>2. QED
        BY <3>1 DEF DoneIsReported
    <2>4. CASE Guide \/ Group \/ Version \/ ListProfiles \/ ShowProfile \/ RequireToken \/ EndCreate
      <3>1. run.cmd # "skill install"
        BY <2>4 DEF Guide, Group, Version, ListProfiles, ShowProfile, RequireToken, EndCreate,
                    APICommands
      <3>2. QED
        BY <1>1, <3>1 DEF DoneIsReported
    <2>5. CASE Call
      <3>1. run.cmd # "skill install"
        BY <2>5 DEF Call, Telling, OnlyStdoutFails, APICommands
      <3>2. QED
        BY <1>1, <3>1 DEF DoneIsReported
    <2>6. CASE Write \/ EndInstall
      BY <1>1, <2>6 DEF Write, EndInstall, Finish, Continue, Fail, Installing, DoneIsReported
    <2>7. QED
      BY <2>1, <2>2, <2>3, <2>4, <2>5, <2>6
  <1>3. QED
    BY <1>1, <1>2, InstallStays

\* Every step keeps the installer's promise.
LEMMA NextInstalling == Telling /\ Installing /\ [Next]_vars => Installing'
  <1>1. SUFFICES ASSUME Telling, Installing, [Next]_vars
                 PROVE  Installing'
    OBVIOUS
  <1>2. CASE \/ New \/ ParseFlags \/ ValidateArgs \/ PersistentPreRunE \/ Report
             \/ Guide \/ Group \/ Version \/ ListProfiles \/ ShowProfile \/ RequireToken
             \/ Call \/ Write \/ EndInstall \/ EndCreate
    BY <1>1, <1>2, OtherSteps
  <1>3. CASE Install \/ AnswerPrompt
    <2>1. SelectionInOrder' /\ ResultInOrder' /\ WrittenIsInstalled'
      BY <1>1, <1>3, InstallerSteps DEF Install, AnswerPrompt
    <2>2. DoneIsReported'
      BY <1>3 DEF Install, AnswerPrompt, DoneIsReported
    <2>3. QED
      BY <2>1, <2>2 DEF Installing
  <1>4. CASE Create \/ AnswerWizard \/ Interrupt \/ ChangeProfiles \/ UNCHANGED vars
    <2>1. /\ UNCHANGED <<request, stage, answer, chosen, left, skills, installed>>
          /\ UNCHANGED <<run, pc, exit>>
      BY <1>4 DEF Create, AnswerWizard, Interrupt, ChangeProfiles, vars, inputs, told, installVars
    <2>2. DoneIsReported'
      BY <1>1, <2>1 DEF Installing, DoneIsReported
    <2>3. QED
      BY <1>1, <2>1, <2>2, InstallStays
  <1>5. QED
    BY <1>1, <1>2, <1>3, <1>4 DEF Next, ProcessStep

\* The files of the harnesses that are selected, counted, are those of the targets.
LEMMA TargetsCount ==
  ASSUME Installing
  PROVE  /\ Targets \in Seq(AllFiles) /\ IsInjective(Targets)
         /\ ToSet(Targets) = {TargetPath(h, request.project) : h \in ToSet(chosen)}
         /\ Len(Targets) = Cardinality(ToSet(Targets))
  <1>1. /\ Targets \in Seq(AllFiles) /\ IsInjective(Targets)
        /\ ToSet(Targets) = {TargetPath(h, request.project) : h \in ToSet(chosen)}
    BY TargetsAre DEF Installing, SelectionInOrder, IsRequest, Targets
  <1>2. DOMAIN Targets = 1..Len(Targets) /\ Len(Targets) \in Nat
    BY <1>1
  <1>3. Targets \in Bijection(1..Len(Targets), ToSet(Targets))
    BY <1>1, <1>2 DEF ToSet, IsInjective, Bijection, Injection, Surjection
  <1>4. ExistsBijection(1..Len(Targets), ToSet(Targets))
    BY <1>3 DEF ExistsBijection
  <1>5. IsFiniteSet(1..Len(Targets)) /\ Cardinality(1..Len(Targets)) = Len(Targets)
    <2>1. PICK n \in Nat : n = Len(Targets)
      BY <1>2
    <2>2. IsFiniteSet(1..n) /\ Cardinality(1..n) = IF 1 > n THEN 0 ELSE n - 1 + 1
      BY FS_Interval
    <2>3. (IF 1 > n THEN 0 ELSE n - 1 + 1) = n
      OBVIOUS
    <2>4. QED
      BY <2>1, <2>2, <2>3
  <1>6. Cardinality(ToSet(Targets)) = Len(Targets)
    BY <1>4, <1>5, FS_Bijection
  <1>7. QED
    BY <1>1, <1>6

\* The files in the result are targets.
LEMMA InstalledAreTargets ==
  ASSUME Installing, NEW i \in DOMAIN installed
  PROVE  /\ i \in DOMAIN Targets
         /\ installed[i] = EntryOf(Targets[i]) /\ installed[i].path = Targets[i]
         /\ installed[i].path \in ToSet(Targets)
  <1>1. /\ DOMAIN installed = 1..Len(installed) /\ DOMAIN Targets = 1..Len(Targets)
        /\ Len(installed) \in Nat /\ Len(left) \in Nat /\ Len(Targets) \in Nat
        /\ Len(installed) + Len(left) = Len(Targets)
    BY TargetsCount DEF Installing, ResultInOrder
  <1>2. i \in DOMAIN Targets /\ installed[i] = EntryOf(Targets[i])
    BY <1>1 DEF Installing, ResultInOrder
  <1>3. QED
    BY <1>2 DEF EntryOf, ToSet

\* Nothing is written but what the user asked for.
LEMMA InstallingWanted == Installing => NothingWrittenUnlessWanted
  <1>1. SUFFICES ASSUME Installing, NEW f \in DOMAIN skills, skills[f] # request.before[f]
                 PROVE  /\ f \in {TargetPath(h, request.project) : h \in Wanted}
                        /\ chosen # <<>>
    BY DEF NothingWrittenUnlessWanted
  <1>2. PICK i \in DOMAIN installed : installed[i].path = f
    BY <1>1 DEF Installing, WrittenIsInstalled
  <1>3. f \in {TargetPath(h, request.project) : h \in ToSet(chosen)}
    BY <1>1, <1>2, InstalledAreTargets, TargetsCount
  <1>4. chosen # <<>>
    <2>1. SUFFICES ASSUME chosen = <<>>
                   PROVE  FALSE
      OBVIOUS
    <2>2. installed = <<>>
      BY <1>1, <2>1, NothingYet DEF Installing
    <2>3. QED
      BY <1>2, <2>2
  <1>5. ToSet(chosen) = Wanted
    BY <1>1, <1>4 DEF Installing, SelectionInOrder
  <1>6. QED
    BY <1>3, <1>4, <1>5

\* Only the files of Claude Code are labelled as such, outside a .claude directory.
LEMMA LabelIsClaude ==
  ASSUME NEW h, NEW p \in BOOLEAN, ~request.nested
  PROVE  (HarnessLabelForPath(TargetPath(h, p)) = ClaudeCode)
           <=> (TargetPath(h, p) = TargetPath(ClaudeCode, p))
  <1>1. HarnessLabelForPath(TargetPath(h, p)) = ClaudeCode <=> TargetPath(h, p).dir = ".claude"
    BY SkillInstallAssumption DEF HarnessLabelForPath
  <1>2. TargetPath(ClaudeCode, p) = File(IF p THEN "project" ELSE "home", ".claude")
    BY SkillInstallAssumption DEF TargetPath
  <1>3. TargetPath(h, p) = File(IF p THEN "project" ELSE "home", TargetPath(h, p).dir)
    BY DEF TargetPath, File
  <1>4. QED
    BY <1>1, <1>2, <1>3 DEF File

\* An install that reports success has written what the user asked for.
LEMMA InstallingInPlace == Installing => InstalledIsInPlace
  <1>1. SUFFICES ASSUME Installing, InstallSucceeded
                 PROVE  LET targets == {e.path : e \in ToSet(HarnessEntries)}
                        IN  /\ targets # {}
                            /\ {e.harness : e \in ToSet(HarnessEntries)} = Wanted
                            /\ \A f \in targets : skills[f] = RenderSKILL
                            /\ Len(installed) = Cardinality(targets)
                            /\ {e.path : e \in ToSet(installed)} = targets
                            /\ \A e \in ToSet(installed) :
                                 ~request.nested =>
                                   (e.harness = ClaudeCode)
                                     = (e.path = TargetPath(ClaudeCode, request.project))
    BY DEF InstalledIsInPlace
  <1>2. stage = "done" /\ left = <<>> /\ chosen # <<>> /\ ToSet(chosen) = Wanted
    BY <1>1 DEF InstallSucceeded, Exited, Installing, DoneIsReported, ResultInOrder,
                SelectionInOrder
  <1>3. /\ chosen \in Seq(Harnesses) /\ request.project \in BOOLEAN
        /\ DOMAIN HarnessEntries = DOMAIN chosen
        /\ \A i \in DOMAIN chosen :
             /\ HarnessEntries[i].harness = chosen[i]
             /\ HarnessEntries[i].path = TargetPath(chosen[i], request.project)
    BY <1>1 DEF Installing, SelectionInOrder, IsRequest, HarnessEntries
  <1>4. {e.path : e \in ToSet(HarnessEntries)} = ToSet(Targets)
    <2>1. {e.path : e \in ToSet(HarnessEntries)}
            = {TargetPath(h, request.project) : h \in ToSet(chosen)}
      BY <1>3 DEF ToSet
    <2>2. QED
      BY <1>1, <2>1, TargetsCount
  <1>5. {e.harness : e \in ToSet(HarnessEntries)} = Wanted
    BY <1>2, <1>3 DEF ToSet
  <1>6. ToSet(Targets) # {}
    <2>1. 1 \in DOMAIN chosen
      BY <1>2, <1>3
    <2>2. chosen[1] \in ToSet(chosen)
      BY <2>1 DEF ToSet
    <2>3. QED
      BY <1>1, <2>2, TargetsCount
  <1>7. Len(installed) = Len(Targets) /\ DOMAIN installed = DOMAIN Targets
    BY <1>1, <1>2, TargetsCount DEF Installing, ResultInOrder
  <1>8. {e.path : e \in ToSet(installed)} = ToSet(Targets)
    <2>1. \A i \in DOMAIN installed : installed[i].path = Targets[i]
      BY <1>1, InstalledAreTargets
    <2>2. QED
      BY <1>7, <2>1 DEF ToSet
  <1>9. \A f \in ToSet(Targets) : skills[f] = RenderSKILL
    <2>1. SUFFICES ASSUME NEW f \in ToSet(Targets)
                   PROVE  skills[f] = RenderSKILL
      OBVIOUS
    <2>2. \E i \in DOMAIN installed : installed[i].path = f
      BY <1>8 DEF ToSet
    <2>3. f \in AllFiles
      BY <1>1, TargetsCount DEF ToSet
    <2>4. QED
      BY <1>1, <2>2, <2>3 DEF Installing, WrittenIsInstalled
  <1>10. \A e \in ToSet(installed) :
           ~request.nested =>
             (e.harness = ClaudeCode) = (e.path = TargetPath(ClaudeCode, request.project))
    <2>1. SUFFICES ASSUME NEW i \in DOMAIN installed, ~request.nested
                   PROVE  (installed[i].harness = ClaudeCode)
                            = (installed[i].path = TargetPath(ClaudeCode, request.project))
      BY DEF ToSet
    <2>2. /\ installed[i].path = Targets[i]
          /\ installed[i].harness = HarnessLabelForPath(Targets[i])
          /\ Targets[i] \in ToSet(Targets)
      BY <1>1, InstalledAreTargets DEF EntryOf
    <2>3. PICK h \in ToSet(chosen) : Targets[i] = TargetPath(h, request.project)
      BY <1>1, <2>2, TargetsCount
    <2>4. QED
      BY <1>3, <2>1, <2>2, <2>3, LabelIsClaude
  <1>11. Len(installed) = Cardinality(ToSet(Targets))
    BY <1>1, <1>7, TargetsCount
  <1>12. QED
    BY <1>4, <1>5, <1>6, <1>8, <1>9, <1>10, <1>11

-----------------------------------------------------------------------------
(* Types: a fourth invariant, which rests on the three.                    *)

TypeOfMain == /\ changes \in Nat
              /\ pc \in {"new", "parse", "help", "prerun", "run", "call", "write", "fail", "exited"}
              /\ flagValue \in {"auto", "json", "text", "other"}
              /\ format \in {"unresolved", "json", "text"}
              /\ interrupted \in BOOLEAN

TypeOfSession == /\ config \in Configs
                 /\ token \in Names \union {Default, Unset}
                 /\ sent \subseteq Requests

Errors == [code : ErrorCodes, retryAfter : BOOLEAN, details : BOOLEAN]

TypeOfOutput == /\ error \in Errors
                /\ stdout \in Seq(Docs) /\ stderr \in Seq(Docs)
                /\ exit \in 0..ServiceUnavailable

TypeOfInstaller == /\ stage \in {"off", "resolve", "prompt", "write", "done", "failed"}
                   /\ refusal \in Codes \union {Uncoded}

TypeOfWizard == /\ prompt \in Questions \union {"off", "load", "check", "save", "done", "failed"}
                /\ setActive \in BOOLEAN
                /\ cause \in Codes \union {Uncoded}

Types == TypeOfMain /\ TypeOfSession /\ TypeOfOutput /\ TypeOfInstaller /\ TypeOfWizard

\* The other invariants know the rest: what the installer has left is part of its targets.
LEMMA TypesAreTypeOK == IInv /\ Installing /\ Types => TypeOK
  <1>1. SUFFICES ASSUME IInv, Installing, Types
                 PROVE  TypeOK
    OBVIOUS
  <1>2. draft \in Profile /\ typed \in AuthConfigs
    BY <1>1 DEF IInv, Drafted
  <1>3. chosen \in Seq(Harnesses) /\ IsInjective(chosen)
    BY <1>1 DEF Installing, SelectionInOrder
  <1>4. skills \in [AllFiles -> {"none", "old", "this"}] /\ left \in Seq(DOMAIN skills)
    BY <1>1 DEF Installing, WrittenIsInstalled, ResultInOrder
  <1>5. IsInjective(left)
    <2>1. PICK k \in Nat, m \in Nat : k = Len(installed) /\ m = Len(left)
      BY <1>1 DEF Installing, ResultInOrder
    <2>2. /\ Targets \in Seq(AllFiles) /\ IsInjective(Targets) /\ Len(Targets) = k + m
          /\ \A j \in 1..m : left[j] = Targets[k + j]
          /\ DOMAIN left = 1..m
      BY <1>1, <1>4, <2>1, TargetsCount DEF Installing, ResultInOrder
    <2>3. \A j \in 1..m : k + j \in DOMAIN Targets
      BY <2>2
    <2>4. \A i, j \in 1..m : k + i = k + j => i = j
      OBVIOUS
    <2>5. QED
      BY <2>2, <2>3, <2>4 DEF IsInjective
  <1>6. QED
    BY <1>1, <1>2, <1>3, <1>4, <1>5
    DEF TypeOK, Types, TypeOfMain, TypeOfSession, TypeOfOutput, TypeOfInstaller, TypeOfWizard,
        AllFiles, Errors

\* The resolved settings are ones that can be given, and the destinations are there.
LEMMA ResolvedTypes ==
  ASSUME NEW f, NEW env \in Environments, HoldsSavedProfiles(f)
  PROVE  /\ ResolveWith(f, env).endpoint \in URLs
         /\ ResolveWith(f, env).auth \in AuthConfigs
         /\ ResolveWith(f, env).auth.baseURL \in URLs
         /\ ActiveProfile(f) \in Names \union {Default}
  <1>1. PICK p \in SavedProfiles \union {NoSettings} : p = Settings(f, ActiveProfile(f))
    BY ActiveSettings
  <1>2. /\ p.endpoint \in URLs \union {Unset}
        /\ AuthOf(p) \in AuthConfigs /\ AuthOf(p).baseURL \in URLs
    <2>1. CASE p = NoSettings
      BY <2>1, ConfigAssumption DEF NoSettings, AuthOf, AuthConfigs
    <2>2. CASE p \in SavedProfiles /\ p.hasAuth
      BY <2>2, ConfigAssumption DEF SavedProfiles, Profile, ValidateProfile, AuthOf
    <2>3. CASE p \in SavedProfiles /\ ~p.hasAuth
      BY <2>3, ConfigAssumption DEF SavedProfiles, Profile, AuthOf, AuthConfigs
    <2>4. QED
      BY <2>1, <2>2, <2>3
  <1>3. /\ env.endpoint \in URLs \union {Unset} /\ env.baseURL \in URLs \union {Unset}
        /\ env.clientID \in ClientIDs \union {Unset}
    BY DEF Environments
  <1>4. Or(env.endpoint, Or(p.endpoint, ProductionEndpoint)) \in URLs
    BY <1>2, <1>3, ConfigAssumption DEF Or
  <1>5. Or(env.baseURL, AuthOf(p).baseURL) \in URLs
    BY <1>2, <1>3 DEF Or
  <1>6. Or(env.clientID, AuthOf(p).clientID) \in ClientIDs \union {Unset}
    BY <1>2, <1>3 DEF Or, AuthConfigs
  <1>7. ActiveProfile(f) \in Names \union {Default}
    BY DEF HoldsSavedProfiles, ActiveProfile
  <1>8. QED
    BY <1>1, <1>4, <1>5, <1>6, <1>7 DEF ResolveWith, AuthConfigs

\* Where a configuration is resolved, its destinations and its profile are there.
LEMMA ConfiguredTypes ==
  ASSUME IInv, Telling, Configured
  PROVE  /\ config.endpoint \in URLs /\ config.auth.baseURL \in URLs
         /\ config.profile \in Names \union {Default}
  <1>1. HoldsSavedProfiles(loaded) /\ run.env \in Environments
    BY DEF IInv, SavedFiles, Telling, IsRun
  <1>2. QED
    BY <1>1, ResolvedTypes DEF Configured

\* Every code stands for one of the exit statuses.
LEMMA ExitTypes == \A code : ExitForCode(code) \in 0..ServiceUnavailable
  BY DEF ExitForCode, Success, GenericError, UsageError, AuthRequired, NotFound,
         PermissionDenied, Conflict, QuotaExceeded, RateLimited, ServiceUnavailable

\* The codes that a refusal may carry are among those an error may.
LEMMA CodeTypes ==
  /\ \A code \in {"validation_failed", "auth_required", "internal_error", "", Uncoded} :
       code \in Codes \union {Uncoded}
  /\ \A code \in Codes \union {Uncoded} : code \in ErrorCodes
  BY DEF Codes, Uncoded, ErrorCodes

\* What is told without an error is a document, and an error of a code is an error.
LEMMA DocTypes ==
  /\ \A kind \in {"data", "text", "error", "guide", "help", "partial"} : Doc(kind) \in Docs
  /\ \A code \in ErrorCodes : Err(code) \in Errors
  /\ Success \in 0..ServiceUnavailable
  <1>1. Uncoded \in ErrorCodes
    BY CodeTypes
  <1>2. QED
    BY <1>1 DEF Doc, Docs, Err, Errors, Success, ServiceUnavailable

\* A step that tells documents, each on its stream, or ends with an error, keeps the types.
LEMMA OutputTypes ==
  ASSUME TypeOfOutput,
         error' = error \/ error' \in Errors,
         stdout' = stdout \/ \E d \in Docs : stdout' = Append(stdout, d),
         stderr' = stderr \/ \E d \in Docs : stderr' = Append(stderr, d),
         exit' = exit \/ exit' \in 0..ServiceUnavailable
  PROVE  TypeOfOutput'
  <1>1. stdout \in Seq(Docs) /\ stderr \in Seq(Docs)
    BY DEF TypeOfOutput
  <1>2. \A d \in Docs : Append(stdout, d) \in Seq(Docs) /\ Append(stderr, d) \in Seq(Docs)
    BY <1>1
  <1>3. stdout' \in Seq(Docs)
    <2>1. CASE stdout' = stdout
      BY <1>1, <2>1
    <2>2. CASE \E d \in Docs : stdout' = Append(stdout, d)
      BY <1>2, <2>2
    <2>3. QED
      BY <2>1, <2>2
  <1>4. stderr' \in Seq(Docs)
    <2>1. CASE stderr' = stderr
      BY <1>1, <2>1
    <2>2. CASE \E d \in Docs : stderr' = Append(stderr, d)
      BY <1>2, <2>2
    <2>3. QED
      BY <2>1, <2>2
  <1>5. QED
    BY <1>3, <1>4 DEF TypeOfOutput

\* A step that tells nothing goes on or fails with a code.
LEMMA UntoldTypes ==
  ASSUME TypeOfOutput, UNCHANGED told,
         \/ UNCHANGED error
         \/ \E code \in ErrorCodes : error' = Err(code)
  PROVE  TypeOfOutput'
  <1>1. error' = error \/ error' \in Errors
    BY DocTypes
  <1>2. QED
    BY <1>1, OutputTypes DEF told

\* At the start nothing is told and nothing configured.
LEMMA InitTypes == Init => Types
  <1>1. SUFFICES ASSUME Init
                 PROVE  Types
    OBVIOUS
  <1>2. TypeOfMain
    BY <1>1, ProcessAssumption DEF Init, TypeOfMain
  <1>3. NoConfig \in Configs
    BY DEF NoConfig, NoAuth, Configs, AuthConfigs
  <1>4. TypeOfSession
    BY <1>1, <1>3 DEF Init, TypeOfSession
  <1>5. <<>> \in Seq(Docs)
    OBVIOUS
  <1>6. error \in Errors /\ exit \in 0..ServiceUnavailable
    BY <1>1, DocTypes, CodeTypes DEF Init, NoError
  <1>7. TypeOfOutput
    BY <1>1, <1>5, <1>6 DEF Init, TypeOfOutput
  <1>8. TypeOfInstaller
    BY <1>1 DEF Init, TypeOfInstaller, Uncoded
  <1>9. TypeOfWizard
    BY <1>1 DEF Init, WizardInit, TypeOfWizard, Uncoded
  <1>10. QED
    BY <1>2, <1>4, <1>7, <1>8, <1>9 DEF Types

\* A command that ends tells one document, or a part of it.
LEMMA FinishTypes ==
  ASSUME TypeOfOutput, NEW doc \in Docs, Finish(doc)
  PROVE  TypeOfOutput' /\ pc' \in {"exited", "fail"}
  <1>1. Doc("partial") \in Docs /\ Err(Uncoded) \in Errors /\ Success \in 0..ServiceUnavailable
    BY DocTypes, CodeTypes
  <1>2. /\ error' = error \/ error' = Err(Uncoded)
        /\ stdout' = Append(stdout, doc) \/ stdout' = Append(stdout, Doc("partial"))
        /\ UNCHANGED stderr
        /\ exit' = exit \/ exit' = Success
        /\ pc' \in {"exited", "fail"}
    BY DEF Finish, Fail
  <1>3. QED
    BY <1>1, <1>2, OutputTypes

\* So does help.
LEMMA HelpTypes ==
  ASSUME TypeOfOutput, ShowHelp
  PROVE  TypeOfOutput' /\ pc' = "exited"
  <1>1. \E d \in Docs : stdout' = Append(stdout, d)
    BY DocTypes DEF ShowHelp
  <1>2. UNCHANGED <<error, stderr>> /\ exit' = Success /\ pc' = "exited"
    BY DEF ShowHelp
  <1>3. QED
    BY <1>1, <1>2, DocTypes, OutputTypes

\* main and the command tree.
LEMMA MainTypes ==
  ASSUME IInv, Telling, Types, New \/ ParseFlags \/ ValidateArgs \/ PersistentPreRunE
  PROVE  Types'
  <1>1. /\ TypeOfMain /\ TypeOfSession /\ TypeOfOutput /\ TypeOfInstaller /\ TypeOfWizard
        /\ run.output \in {"auto", "json", "text", "other"} /\ run.env \in Environments
    BY DEF Types, Telling, IsRun
  <1>2. /\ UNCHANGED <<changes, interrupted, token, sent>>
        /\ TypeOfInstaller' /\ TypeOfWizard'
    BY <1>1 DEF New, ParseFlags, ValidateArgs, PersistentPreRunE, inputs, session, installVars,
                wizardVars, TypeOfInstaller, TypeOfWizard
  <1>3. CASE New
    <2>1. config' \in Configs
      <3>1. HoldsSavedProfiles(loaded')
        BY <1>3, LoadKeepsSaved DEF IInv, SavedFiles, New
      <3>2. /\ ResolveWith(loaded', run.env).endpoint \in URLs
            /\ ResolveWith(loaded', run.env).auth \in AuthConfigs
            /\ ActiveProfile(loaded') \in Names \union {Default}
        BY <1>1, <3>1, ResolvedTypes
      <3>3. CASE Readable(file)
        <4>1. config' = [endpoint |-> ResolveWith(loaded', run.env).endpoint,
                         auth |-> ResolveWith(loaded', run.env).auth,
                         profile |-> ActiveProfile(loaded')]
          BY <1>3, <3>3 DEF New
        <4>2. QED
          BY <3>2, <4>1 DEF Configs
      <3>4. CASE ~Readable(file)
        BY <1>1, <1>3, <3>4 DEF New, TypeOfSession
      <3>5. QED
        BY <3>3, <3>4
    <2>2. TypeOfSession'
      BY <1>1, <1>2, <2>1 DEF TypeOfSession
    <2>3. TypeOfMain'
      BY <1>1, <1>2, <1>3 DEF New, Continue, Fail, ParseRootFlags, TypeOfMain
    <2>4. TypeOfOutput'
      <3>1. /\ UNCHANGED told
            /\ UNCHANGED error \/ error' = Err("validation_failed")
        BY <1>3 DEF New, Continue, Fail
      <3>2. QED
        BY <1>1, <3>1, CodeTypes, UntoldTypes
    <2>5. QED
      BY <1>2, <2>2, <2>3, <2>4 DEF Types
  <1>4. CASE ParseFlags
    <2>1. TypeOfMain' /\ TypeOfSession'
      BY <1>1, <1>2, <1>4 DEF ParseFlags, Continue, Fail, ParseCommandFlags, setup, TypeOfMain,
                              TypeOfSession
    <2>2. TypeOfOutput'
      <3>1. /\ UNCHANGED told
            /\ UNCHANGED error \/ error' = Err("validation_failed")
        BY <1>4 DEF ParseFlags, Continue, Fail
      <3>2. QED
        BY <1>1, <3>1, CodeTypes, UntoldTypes
    <2>3. QED
      BY <1>2, <2>1, <2>2 DEF Types
  <1>5. CASE ValidateArgs
    <2>1. TypeOfSession'
      BY <1>1, <1>2, <1>5 DEF ValidateArgs, setup, TypeOfSession
    <2>2. TypeOfOutput' /\ pc' \in {"exited", "fail", "prerun"}
      <3>1. CASE run.help
        BY <1>1, <1>5, <3>1, HelpTypes DEF ValidateArgs
      <3>2. CASE ~run.help
        <4>1. /\ UNCHANGED told
              /\ UNCHANGED error \/ error' = Err("validation_failed")
              /\ pc' \in {"fail", "prerun"}
          BY <1>5, <3>2 DEF ValidateArgs, Continue, Fail
        <4>2. QED
          BY <1>1, <4>1, CodeTypes, UntoldTypes
      <3>3. QED
        BY <3>1, <3>2
    <2>3. TypeOfMain'
      BY <1>1, <1>2, <1>5, <2>2 DEF ValidateArgs, TypeOfMain
    <2>4. QED
      BY <1>2, <2>1, <2>2, <2>3 DEF Types
  <1>6. CASE PersistentPreRunE
    <2>1. TypeOfMain' /\ TypeOfSession'
      BY <1>1, <1>2, <1>6 DEF PersistentPreRunE, Continue, Fail, ResolveFormat, setup, TypeOfMain,
                              TypeOfSession
    <2>2. TypeOfOutput'
      <3>1. /\ UNCHANGED told
            /\ UNCHANGED error \/ error' = Err("validation_failed")
        BY <1>6 DEF PersistentPreRunE, Continue, Fail
      <3>2. QED
        BY <1>1, <3>1, CodeTypes, UntoldTypes
    <2>3. QED
      BY <1>2, <2>1, <2>2 DEF Types
  <1>7. QED
    BY <1>3, <1>4, <1>5, <1>6

\* main's fail.
LEMMA ReportTypes ==
  ASSUME Types, Report
  PROVE  Types'
  <1>1. /\ TypeOfMain /\ TypeOfSession /\ TypeOfOutput /\ TypeOfInstaller /\ TypeOfWizard
    BY DEF Types
  <1>2. TypeOfSession' /\ TypeOfInstaller' /\ TypeOfWizard'
    BY <1>1 DEF Report, setup, session, installVars, wizardVars, TypeOfSession, TypeOfInstaller,
                TypeOfWizard
  <1>3. ResolveErrorFormat \in {"json", "text"}
    BY <1>1 DEF ResolveErrorFormat, ResolveFormat, TypeOfMain
  <1>4. TypeOfMain'
    BY <1>1, <1>3 DEF Report, inputs, TypeOfMain
  <1>5. PICK doc : doc = [kind |-> "error", code |-> Or(error.code, "internal_error"),
                          retryAfter |-> error.retryAfter, details |-> error.details]
    OBVIOUS
  <1>6. doc \in Docs /\ [doc EXCEPT !.details = FALSE] \in Docs /\ Doc("partial") \in Docs
    <2>1. /\ error.code \in ErrorCodes /\ "internal_error" \in ErrorCodes
          /\ error.retryAfter \in BOOLEAN /\ error.details \in BOOLEAN
      BY <1>1, CodeTypes DEF TypeOfOutput, Errors
    <2>2. doc \in Docs
      BY <1>5, <2>1 DEF Docs, Or
    <2>3. [doc EXCEPT !.details = FALSE] \in Docs
      BY <2>2 DEF Docs
    <2>4. QED
      BY <2>2, <2>3, DocTypes
  <1>7. /\ stdout' = stdout \/ \E d \in Docs : stdout' = Append(stdout, d)
        /\ stderr' = stderr \/ \E d \in Docs : stderr' = Append(stderr, d)
        /\ error' = error /\ exit' = ExitForCode(error.code)
    BY <1>5, <1>6 DEF Report
  <1>8. TypeOfOutput'
    BY <1>1, <1>7, ExitTypes, OutputTypes
  <1>9. QED
    BY <1>2, <1>4, <1>8 DEF Types

\* The commands, without the installer's and the wizard's own steps.
LEMMA CommandTypes ==
  ASSUME IInv, Telling, Types,
         \/ Guide \/ Group \/ Version \/ ListProfiles \/ ShowProfile \/ Write
         \/ EndInstall \/ EndCreate
  PROVE  Types'
  <1>1. /\ TypeOfMain /\ TypeOfSession /\ TypeOfOutput /\ TypeOfInstaller /\ TypeOfWizard
    BY DEF Types
  <1>2. /\ UNCHANGED <<changes, interrupted, flagValue, format>>
        /\ TypeOfSession' /\ TypeOfInstaller' /\ TypeOfWizard'
    BY <1>1 DEF Guide, Group, Version, ListProfiles, ShowProfile, Write, EndInstall, EndCreate,
                inputs, setup, session, installVars, wizardVars, TypeOfSession, TypeOfInstaller,
                TypeOfWizard
  <1>3. TypeOfOutput' /\ pc' \in {"write", "fail", "exited"}
    <2>1. CASE Guide
      BY <1>1, <2>1, FinishTypes, DocTypes DEF Guide
    <2>2. CASE Group
      <3>1. CASE format = "json"
        <4>1. /\ stderr' = Append(stderr, Doc("help")) /\ UNCHANGED <<error, stdout>>
              /\ exit' = Success /\ pc' = "exited"
          BY <2>2, <3>1 DEF Group
        <4>2. QED
          BY <1>1, <4>1, DocTypes, OutputTypes
      <3>2. CASE format # "json"
        BY <1>1, <2>2, <3>2, HelpTypes DEF Group
      <3>3. QED
        BY <3>1, <3>2
    <2>3. CASE Version \/ ListProfiles \/ ShowProfile
      <3>1. /\ UNCHANGED told
            /\ UNCHANGED error \/ \E code \in {"validation_failed", Uncoded} : error' = Err(code)
            /\ pc' \in {"write", "fail"}
        BY <2>3 DEF Version, ListProfiles, ShowProfile, Continue, Fail
      <3>2. QED
        BY <1>1, <3>1, CodeTypes, UntoldTypes
    <2>4. CASE Write
      BY <1>1, <2>4, FinishTypes, DocTypes DEF Write
    <2>5. CASE EndInstall \/ EndCreate
      <3>1. /\ UNCHANGED told
            /\ UNCHANGED error \/ error' = Err(refusal) \/ error' = Err(cause)
            /\ pc' \in {"write", "fail"}
        BY <2>5 DEF EndInstall, EndCreate, Continue, Fail
      <3>2. refusal \in ErrorCodes /\ cause \in ErrorCodes
        BY <1>1, CodeTypes DEF TypeOfInstaller, TypeOfWizard
      <3>3. QED
        BY <1>1, <3>1, <3>2, UntoldTypes
    <2>6. QED
      BY <2>1, <2>2, <2>3, <2>4, <2>5
  <1>4. TypeOfMain'
    BY <1>1, <1>2, <1>3 DEF TypeOfMain
  <1>5. QED
    BY <1>2, <1>3, <1>4 DEF Types

\* The commands that use the API send to the resolved destinations.
LEMMA APITypes ==
  ASSUME IInv, Telling, Types, RequireToken \/ Call
  PROVE  Types'
  <1>1. /\ TypeOfMain /\ TypeOfSession /\ TypeOfOutput /\ TypeOfInstaller /\ TypeOfWizard
    BY DEF Types
  <1>2. /\ UNCHANGED <<changes, interrupted, flagValue, format, config>>
        /\ TypeOfInstaller' /\ TypeOfWizard'
    BY <1>1 DEF RequireToken, Call, inputs, setup, installVars, wizardVars, TypeOfInstaller,
                TypeOfWizard
  <1>3. Configured
    BY DEF RequireToken, Call, IInv, ConfiguredOnce, SentAsConfigured, Ahead, NeedsConfig,
           APICommands
  <1>4. /\ config.endpoint \in URLs /\ config.auth.baseURL \in URLs
        /\ config.profile \in Names \union {Default}
    BY <1>3, ConfiguredTypes
  <1>5. CASE RequireToken
    <2>1. token' \in {token, config.profile}
      BY <1>5 DEF RequireToken, session
    <2>2. \/ UNCHANGED sent
          \/ CheckStrict(config.auth.baseURL) /\ Sends("auth", config.auth.baseURL, config.profile)
      BY <1>5 DEF RequireToken, session
    <2>3. sent' \subseteq sent \union Requests
      BY <1>4, <2>2, SendsWhat DEF Requests
    <2>4. TypeOfSession'
      BY <1>1, <1>2, <1>4, <2>1, <2>3 DEF TypeOfSession
    <2>5. TypeOfOutput' /\ pc' \in {"call", "fail"}
      <3>1. /\ UNCHANGED told
            /\ \/ UNCHANGED error
               \/ \E code \in {"validation_failed", "auth_required", "internal_error", Uncoded} :
                    error' = Err(code)
            /\ pc' \in {"call", "fail"}
        BY <1>5 DEF RequireToken, Continue, Fail
      <3>2. QED
        BY <1>1, <3>1, CodeTypes, UntoldTypes
    <2>6. TypeOfMain'
      BY <1>1, <1>2, <2>5 DEF TypeOfMain
    <2>7. QED
      BY <1>2, <2>4, <2>5, <2>6 DEF Types
  <1>6. CASE Call
    <2>1. token' = token /\ token = config.profile
      BY <1>6 DEF Call, IInv, SentAsConfigured
    <2>2. \/ UNCHANGED sent
          \/ CheckStrict(config.endpoint) /\ Sends("api", config.endpoint, config.profile)
      BY <1>6, <2>1 DEF Call
    <2>3. sent' \subseteq sent \union Requests
      BY <1>4, <2>2, SendsWhat DEF Requests
    <2>4. TypeOfSession'
      BY <1>1, <1>2, <2>1, <2>3 DEF TypeOfSession
    <2>5. TypeOfOutput' /\ pc' \in {"write", "fail"}
      <3>1. /\ UNCHANGED told
            /\ UNCHANGED error \/ error' \in Failures \/ error' = Err("validation_failed")
            /\ pc' \in {"write", "fail"}
        BY <1>6 DEF Call, Continue, Fail
      <3>2. Failures \subseteq Errors
        BY ProcessAssumption DEF Errors, ErrorCodes
      <3>3. error' = error \/ error' \in Errors
        BY <3>1, <3>2, CodeTypes, DocTypes
      <3>4. QED
        BY <1>1, <3>1, <3>3, OutputTypes DEF told
    <2>6. TypeOfMain'
      BY <1>1, <1>2, <2>5 DEF TypeOfMain
    <2>7. QED
      BY <1>2, <2>4, <2>5, <2>6 DEF Types
  <1>7. QED
    BY <1>5, <1>6

\* The installer's own steps and the user's at its prompt.
LEMMA InstallTypes ==
  ASSUME Types, Install \/ AnswerPrompt
  PROVE  Types'
  <1>1. /\ TypeOfMain /\ TypeOfSession /\ TypeOfOutput /\ TypeOfInstaller /\ TypeOfWizard
    BY DEF Types
  <1>2. TypeOfMain' /\ TypeOfSession' /\ TypeOfOutput' /\ TypeOfWizard'
    BY <1>1 DEF Install, AnswerPrompt, inputs, setup, session, told, wizardVars, TypeOfMain,
                TypeOfSession, TypeOfOutput, TypeOfWizard
  <1>3. SUFFICES TypeOfInstaller'
    BY <1>2 DEF Types
  <1>4. \/ \E hs : Choose(hs)
        \/ \E code \in {"validation_failed", ""} : Refuse(code)
        \/ \E s \in {"resolve", "prompt", "done"} : GoTo(s)
        \/ UNCHANGED <<stage, refusal>>
    <2>1. CASE Install
      <3>1. CASE BeginInstall
        BY <3>1 DEF BeginInstall
      <3>2. CASE InstallStep
        BY <3>2 DEF InstallStep, SelectAll, ParseHarnesses, SelectByUser, WriteSkill,
                    WriteSkillFails, AllWritten
      <3>3. CASE CancelSelection(interrupted)
        BY <3>3 DEF CancelSelection
      <3>4. QED
        BY <2>1, <3>1, <3>2, <3>3 DEF Install
    <2>2. CASE AnswerPrompt
      BY <2>2 DEF AnswerPrompt, ReadSelectionFails, ReadSelection
    <2>3. QED
      BY <2>1, <2>2
  <1>5. \/ stage' \in {"resolve", "prompt", "write", "done"} /\ refusal' = refusal
        \/ stage' = "failed" /\ refusal' \in {"validation_failed", ""}
        \/ UNCHANGED <<stage, refusal>>
    BY <1>4 DEF Choose, Refuse, GoTo
  <1>6. refusal' \in Codes \union {Uncoded}
    BY <1>1, <1>5, CodeTypes DEF TypeOfInstaller
  <1>7. QED
    BY <1>1, <1>5, <1>6 DEF TypeOfInstaller

\* The wizard's own steps and the user's answers.
LEMMA CreateTypes ==
  ASSUME Types, Create \/ AnswerWizard
  PROVE  Types'
  <1>1. /\ TypeOfMain /\ TypeOfSession /\ TypeOfOutput /\ TypeOfInstaller /\ TypeOfWizard
    BY DEF Types
  <1>2. TypeOfMain' /\ TypeOfSession' /\ TypeOfOutput' /\ TypeOfInstaller'
    BY <1>1 DEF Create, AnswerWizard, inputs, setup, session, told, installVars, TypeOfMain,
                TypeOfSession, TypeOfOutput, TypeOfInstaller
  <1>3. /\ prompt' \in Questions \union {"off", "load", "check", "save", "done", "failed"}
        /\ cause' \in Codes \union {Uncoded}
    <2>1. \/ \E q \in Questions \union {"load", "check", "save", "done"} : Ask(q)
          \/ \E code \in {"validation_failed", Uncoded} : Abort(code)
      <3>1. CASE Create
        BY <3>1 DEF Create, BeginCreate, LoadToCreate, CheckDraft, SaveCreated, Questions
      <3>2. CASE AnswerWizard
        BY <3>2 DEF AnswerWizard, Answer, AnswerName, AnswerEndpoint, AnswerCustom,
                    AnswerBaseURL, AnswerClientID, AnswerActive, AnswerFails, Questions
      <3>3. QED
        BY <3>1, <3>2
    <2>2. \/ prompt' \in Questions \union {"load", "check", "save", "done"} /\ cause' = cause
          \/ prompt' = "failed" /\ cause' \in {"validation_failed", Uncoded}
      BY <2>1 DEF Ask, Abort
    <2>3. QED
      BY <1>1, <2>2, CodeTypes DEF TypeOfWizard
  <1>4. setActive' \in BOOLEAN
    BY <1>1 DEF Create, AnswerWizard, BeginCreate, LoadToCreate, CheckDraft, SaveCreated, Answer,
                AnswerName, AnswerEndpoint, AnswerCustom, AnswerBaseURL, AnswerClientID,
                AnswerActive, AnswerFails, TypeOfWizard
  <1>5. QED
    BY <1>2, <1>3, <1>4 DEF Types, TypeOfWizard

\* The signal and the other processes.
LEMMA OutsideTypes ==
  ASSUME Types, Interrupt \/ ChangeProfiles \/ UNCHANGED vars
  PROVE  Types'
  <1>1. /\ TypeOfMain /\ TypeOfSession /\ TypeOfOutput /\ TypeOfInstaller /\ TypeOfWizard
    BY DEF Types
  <1>2. TypeOfSession' /\ TypeOfOutput' /\ TypeOfInstaller' /\ TypeOfWizard'
    BY <1>1 DEF Interrupt, ChangeProfiles, vars, setup, session, told, installVars, wizardVars,
                TypeOfSession, TypeOfOutput, TypeOfInstaller, TypeOfWizard
  <1>3. TypeOfMain'
    <2>1. CASE Interrupt
      BY <1>1, <2>1 DEF Interrupt, TypeOfMain
    <2>2. CASE ChangeProfiles
      <3>1. changes \in Nat /\ changes > 0 /\ changes' = changes - 1
        BY <1>1, <2>2 DEF ChangeProfiles, TypeOfMain
      <3>2. changes' \in Nat
        BY <3>1
      <3>3. QED
        BY <1>1, <2>2, <3>2 DEF ChangeProfiles, TypeOfMain
    <2>3. CASE UNCHANGED vars
      BY <1>1, <2>3 DEF vars, inputs, TypeOfMain
    <2>4. QED
      BY <2>1, <2>2, <2>3
  <1>4. QED
    BY <1>2, <1>3 DEF Types

\* Every step keeps the types.
LEMMA NextTypes == IInv /\ Telling /\ Types /\ [Next]_vars => Types'
  <1>1. SUFFICES ASSUME IInv, Telling, Types, [Next]_vars
                 PROVE  Types'
    OBVIOUS
  <1>2. CASE New \/ ParseFlags \/ ValidateArgs \/ PersistentPreRunE
    BY <1>1, <1>2, MainTypes
  <1>3. CASE Report
    BY <1>1, <1>3, ReportTypes
  <1>4. CASE \/ Guide \/ Group \/ Version \/ ListProfiles \/ ShowProfile \/ Write
             \/ EndInstall \/ EndCreate
    BY <1>1, <1>4, CommandTypes
  <1>5. CASE RequireToken \/ Call
    BY <1>1, <1>5, APITypes
  <1>6. CASE Install \/ AnswerPrompt
    BY <1>1, <1>6, InstallTypes
  <1>7. CASE Create \/ AnswerWizard
    BY <1>1, <1>7, CreateTypes
  <1>8. CASE Interrupt \/ ChangeProfiles \/ UNCHANGED vars
    BY <1>1, <1>8, OutsideTypes
  <1>9. QED
    BY <1>1, <1>2, <1>3, <1>4, <1>5, <1>6, <1>7, <1>8 DEF Next, ProcessStep

-----------------------------------------------------------------------------
(* The theorems.                                                           *)

\* The state keeps its types, the installer's selection and what it has left to write among them:
\* sequences without repetition, whatever was named or typed.
THEOREM TypeCorrect == Spec => []TypeOK
  BY InitIInv, NextIInv, InitTelling, NextTelling, InitInstalling, NextInstalling, InitTypes,
     NextTypes, TypesAreTypeOK, PTL DEF Spec

\* For all profiles that wcloud writes and every environment, the configuration of a process is
\* the documented precedence of each field, from its start to its end (doc.go:1-4,
\* profile.go:100-129).
THEOREM Precedence == Spec => []PrecedencePerField
  BY InitIInv, NextIInv, IInvPrecedence, PTL DEF Spec

\* However often profiles.json is replaced while the process runs, each token goes only where
\* the profile it belongs to said at the start, or the environment says; with an unreadable
\* file none is sent (factory.go:43-83, provider.go:101-150).
THEOREM TokensStayHome == Spec => []RequestsGoWhereConfigured
  BY InitIInv, NextIInv, IInvRequests, PTL DEF Spec

\* For every command line, whatever profiles.json holds and others put there, and whatever error
\* a command ends with: who asks for JSON finds the one document on stdout, the result exactly
\* when the exit status is 0, and otherwise the error whose code the status stands for
\* (main.go:24-66, output.go, codes.go).
THEOREM OneDocument == Spec => []JSONContract
  <1>1. Telling => JSONContract
    BY DEF Telling
  <1>2. QED
    BY <1>1, InitTelling, NextTelling, PTL DEF Spec

\* guide and version succeed with every profiles.json, readable or not, unless stdout fails
\* (main.go:123-125).
THEOREM GuideAlwaysWorks == Spec => []GuideNeedsNoConfig
  BY InitTelling, NextTelling, TellingGuide, PTL DEF Spec

\* An install that reports success has written this version's skill for just the harnesses the
\* user asked for, however the numbers typed at the prompt repeat and whichever harnesses share a
\* file (install.go:67-105, 235-258; targets.go:37-72).
THEOREM SkillIsInPlace == Spec => []InstalledIsInPlace
  BY InitTelling, NextTelling, InitInstalling, NextInstalling, InstallingInPlace, PTL DEF Spec

\* Whatever becomes of the install, no file of a harness the user did not ask for is touched
\* (install.go:85-88, 131-142).
THEOREM OnlyWantedIsWritten == Spec => []NothingWrittenUnlessWanted
  BY InitTelling, NextTelling, InitInstalling, NextInstalling, InstallingWanted, PTL DEF Spec

=============================================================================
