------------------------------- MODULE Wizard -------------------------------
(***************************************************************************)
(* wcloud profile create (src/internal/command/profile/create.go,          *)
(* wizard.go): a line per prompt, each asked again until it is acceptable, *)
(* and profiles.json, loaded before the first setting is asked for, saved  *)
(* after the last.  Process runs it as a command.                          *)
(*                                                                         *)
(* An answer that is asked for again changes nothing and is no step, the   *)
(* two auth settings excepted, which are asked for together.               *)
(***************************************************************************)
EXTENDS Config, Errcode

VARIABLES
  prompt,     \* the question the wizard waits on, or what it does next
  name,       \* the profile's name
  held,       \* profiles.json as the command loaded it
  draft,      \* the profile so far
  typed,      \* promptAuth's auth
  setActive,
  cause       \* the code of the failure

wizardVars == <<prompt, name, held, draft, typed, setActive, cause>>

\* Where the wizard reads a line.
Questions == {"name", "endpoint", "custom", "baseURL", "clientID", "active"}

WizardInit == /\ prompt = "off" /\ name = Unset
              /\ held = [state |-> "missing", active |-> Default, profiles |-> <<>>]
              /\ draft = NoSettings /\ typed = NoAuth
              /\ setActive = FALSE /\ cause = Uncoded

-----------------------------------------------------------------------------
Ask(q) == prompt' = q /\ UNCHANGED cause

Abort(code) == prompt' = "failed" /\ cause' = code

\* A terminal is needed, and a name that is given must be a valid one.
BeginCreate(stdinTTY, arg) ==
  /\ prompt = "off"
  /\ IF ~stdinTTY \/ arg \notin Names \union {Unset}
     THEN Abort("validation_failed") /\ UNCHANGED name
     ELSE /\ name' = arg
          /\ Ask(IF arg = Unset THEN "name" ELSE "load")
  /\ UNCHANGED <<held, draft, typed, setActive>>

AnswerName == /\ prompt = "name"
              /\ name' \in Names
              /\ Ask("load")
              /\ UNCHANGED <<held, draft, typed, setActive>>

LoadToCreate(f) ==
  /\ prompt = "load"
  /\ IF ~Readable(f) THEN Abort(Uncoded) /\ UNCHANGED held
     ELSE IF name \in DOMAIN f.profiles THEN Abort("validation_failed") /\ UNCHANGED held
     ELSE held' = LoadProfiles(f) /\ Ask("endpoint")
  /\ UNCHANGED <<name, draft, typed, setActive>>

\* An empty line keeps the default endpoint.
AnswerEndpoint == /\ prompt = "endpoint"
                  /\ \E line \in URLs \union {Unset} : draft' = [draft EXCEPT !.endpoint = line]
                  /\ ValidateProfile(draft')
                  /\ Ask("custom")
                  /\ UNCHANGED <<name, held, typed, setActive>>

AnswerCustom == /\ prompt = "custom"
                /\ Ask("baseURL") \/ Ask("check")
                /\ UNCHANGED <<name, held, draft, typed, setActive>>

AnswerBaseURL == /\ prompt = "baseURL"
                 /\ \E line \in URLs \union {Unset} : typed' = [typed EXCEPT !.baseURL = line]
                 /\ Ask("clientID")
                 /\ UNCHANGED <<name, held, draft, setActive>>

\* With the second auth setting both are validated, and both are asked for again.
AnswerClientID ==
  /\ prompt = "clientID"
  /\ \E line \in ClientIDs \union {Unset} :
       LET auth == [typed EXCEPT !.clientID = line]
       IN  IF ValidateProfile([NoSettings EXCEPT !.hasAuth = TRUE, !.auth = auth])
           THEN /\ draft' = [draft EXCEPT !.hasAuth = TRUE, !.auth = auth]
                /\ Ask("check")
                /\ UNCHANGED typed
           ELSE /\ typed' = NoAuth
                /\ Ask("baseURL")
                /\ UNCHANGED draft
  /\ UNCHANGED <<name, held, setActive>>

\* create validates once more what the wizard returns.
CheckDraft == /\ prompt = "check"
              /\ IF ValidateProfile(draft) THEN Ask("active") ELSE Abort("validation_failed")
              /\ UNCHANGED <<name, held, draft, typed, setActive>>

AnswerActive == /\ prompt = "active"
                /\ setActive' \in BOOLEAN
                /\ Ask("save")
                /\ UNCHANGED <<name, held, draft, typed>>

\* End of input, or a terminal that fails.
AnswerFails == /\ prompt \in Questions
               /\ Abort(Uncoded)
               /\ UNCHANGED <<name, held, draft, typed, setActive>>

\* What create saves: what it loaded, however long ago, and the new profile.
Created == [state |-> "valid",
            active |-> IF setActive THEN name ELSE held.active,
            profiles |-> [n \in DOMAIN held.profiles \union {name} |->
                            IF n = name THEN draft ELSE held.profiles[n]]]

SaveCreated == /\ prompt = "save"
               /\ Ask("done") \/ Abort(Uncoded)
               /\ UNCHANGED <<name, held, draft, typed, setActive>>

Answer == \/ AnswerName \/ AnswerEndpoint \/ AnswerCustom \/ AnswerBaseURL \/ AnswerClientID
          \/ AnswerActive \/ AnswerFails

=============================================================================
