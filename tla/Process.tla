------------------------------ MODULE Process -------------------------------
(***************************************************************************)
(* One run of wcloud, from main to the exit status: the configuration it   *)
(* resolves once, at its start (factory.New), the flags cobra parses, the  *)
(* output format, the command, and how its result or its failure is told   *)
(* (src/cmd/wcloud/main.go, src/internal/{factory,cli,output,errcode}).    *)
(*                                                                         *)
(* Other processes and editors may replace profiles.json at any moment     *)
(* (Profiles), and Ctrl-C or SIGTERM arrive at any moment.                 *)
(*                                                                         *)
(* A command that uses the API takes a token and makes its calls: get,     *)
(* list, status, regions and whoami make one (ApiClient), create and its   *)
(* wait are those of Provision; here they end with a result or a failure.  *)
(***************************************************************************)
EXTENDS Allowlist, SkillInstall, Wizard

CONSTANTS Starts,      \* the command line, its environment, what is on the disk, the bound
          Contents,    \* what others may put into profiles.json
          Lines,       \* what may be typed at the installer's prompt
          Failures     \* the errors an API command may end with

\* The value of an environment variable is a setting, or it is not there.
Environments == [endpoint : URLs \union {Unset}, baseURL : URLs \union {Unset},
                 clientID : ClientIDs \union {Unset}]

\* Of --output there are the three values that mean something and all others; before it stands
\* nothing, --help, a flag of the command's own, or, among such flags, one that nobody has.
IsRun(r) == /\ r.output \in {"auto", "json", "text", "other"}
            /\ r.before \in {"nothing", "help", "local", "unknown"}
            /\ r.before = "help" => r.help
            /\ r.env \in Environments

IsRequest(q) == /\ q.all \in BOOLEAN /\ q.project \in BOOLEAN /\ q.nested \in BOOLEAN
                /\ q.harness \in Seq(STRING)
                /\ q.before \in [Files("home") \union Files("project") -> {"none", "old", "this"}]

\* Whoever puts profiles.json there, profile create made its profiles.
ASSUME ProcessAssumption ==
  /\ \A s \in Starts : /\ HoldsSavedProfiles(s.file)
                       /\ IsRun(s.run) /\ IsRequest(s.request) /\ s.changes \in Nat
  /\ \A f \in Contents : HoldsSavedProfiles(f)
  /\ Lines \subseteq Seq(Nat)
  /\ \A e \in Failures : e \in [code : {e.code}, retryAfter : BOOLEAN, details : BOOLEAN]

VARIABLES
  run,          \* the invocation
  file,         \* profiles.json
  changes,      \* bound: how often others may still replace it
  pc,           \* the step the process takes next
  loaded,       \* profiles.json as factory.New read it
  config,       \* the Factory's Endpoint, and its Provider's settings and profile
  flagValue,    \* the value of --output
  format,       \* the Factory's OutputFormat
  token,        \* the profile whose access token the command holds
  sent,         \* the requests that carried a token: whose, and to which destination
  error,        \* the error the command ended with
  stdout, stderr,
  exit,
  interrupted   \* the signal context is cancelled

told == <<stdout, stderr, exit>>
inputs == <<run, file, changes, interrupted>>
setup == <<loaded, config>>
session == <<token, sent>>

vars == <<inputs, pc, setup, flagValue, format, session, error, told, installVars, wizardVars>>

-----------------------------------------------------------------------------
(* Values.                                                                 *)

NoConfig == [endpoint |-> Unset, auth |-> NoAuth, profile |-> Unset]

Err(code) == [code |-> code, retryAfter |-> FALSE, details |-> FALSE]

NoError == Err(Uncoded)

Doc(kind) == [kind |-> kind, code |-> Uncoded, retryAfter |-> FALSE, details |-> FALSE]

\* The commands that use the API, get, list, status and regions being as whoami is.
APICommands == {"whoami", "cluster create"}

-----------------------------------------------------------------------------
(* Helpers of main, factory and output.                                    *)

BugNeedsConfig(cmd) == TRUE

NeedsConfig(cmd) == cmd \notin {"guide", "version"}

ResolveFormat(value, human) == CASE value = "auto"             -> IF human THEN "text" ELSE "json"
                                 [] value \in {"json", "text"} -> value
                                 [] OTHER                      -> "unresolved"

\* An error before the format was resolved: by the flag, unless that is what is wrong.
ResolveErrorFormat ==
  IF format # "unresolved" THEN format
  ELSE LET f == ResolveFormat(flagValue, run.human)
       IN  IF f # "unresolved" THEN f ELSE ResolveFormat("auto", run.human)

BugParseRootFlags(r) == "auto"

\* root.ParseFlags stops at the first flag that root does not have, be it one of the command's,
\* and at --help, which cobra gives a command only when it executes.
ParseRootFlags(r) == IF r.before = "nothing" THEN r.output ELSE "auto"

\* The command's own flag set stops at a flag that nobody has.
ParseCommandFlags(r) == IF r.before # "unknown" THEN r.output ELSE "auto"

\* A request that carries profile p's token to u.  A redirect takes it on to any destination the
\* policy permits; bound: one of a run stands for all.  (net/http takes the token off an API
\* request that leaves the domain.  The model leaves it on.)
Sends(to, u, p) ==
  \E first \in {[to |-> to, url |-> u, of |-> p, redirected |-> FALSE]} :
    \/ sent' = sent \union {first}
    \/ \E v \in URLs :
         /\ CheckStrict(v) /\ \A q \in sent : ~q.redirected
         /\ sent' = sent \union {first, [first EXCEPT !.url = v, !.redirected = TRUE]}

-----------------------------------------------------------------------------
(* The two ways to end.                                                    *)

Fail(e) == /\ pc' = "fail"
           /\ error' = e

\* The last thing a command does is to write doc to a stream, which may fail half-way.
Finish(doc) == \/ /\ pc' = "exited"
                  /\ exit' = Success
                  /\ stdout' = Append(stdout, doc)
                  /\ UNCHANGED <<error, stderr>>
               \/ /\ Fail(Err(Uncoded))
                  /\ stdout' = Append(stdout, Doc("partial"))
                  /\ UNCHANGED <<exit, stderr>>

\* Help ends well, whatever becomes of the text.
ShowHelp == /\ pc' = "exited"
            /\ exit' = Success
            /\ \E d \in {Doc("help"), Doc("partial")} : stdout' = Append(stdout, d)
            /\ UNCHANGED <<error, stderr>>

Continue(l) == pc' = l /\ UNCHANGED error

-----------------------------------------------------------------------------
(* main and the command tree.                                              *)

\* factory.New, and what main does when it fails.
New == /\ pc = "new"
       /\ loaded' = LoadProfiles(file)
       /\ IF Readable(file)
          THEN /\ LET c == ResolveWith(loaded', run.env)
                  IN  config' = [endpoint |-> c.endpoint, auth |-> c.auth,
                                 profile |-> ActiveProfile(loaded')]
               /\ Continue("parse")
               /\ UNCHANGED flagValue
          ELSE /\ UNCHANGED config
               /\ IF NeedsConfig(run.cmd)
                  THEN /\ flagValue' = ParseRootFlags(run)
                       /\ Fail(Err("validation_failed"))
                  ELSE Continue("parse") /\ UNCHANGED flagValue
       /\ UNCHANGED <<inputs, format, session, told, installVars, wizardVars>>

ParseFlags == /\ pc = "parse"
              /\ flagValue' = ParseCommandFlags(run)
              /\ IF run.before = "unknown" \/ run.after = "unknown"
                 THEN Fail(Err("validation_failed"))
                 ELSE Continue("help")
              /\ UNCHANGED <<inputs, format, setup, session, told, installVars, wizardVars>>

\* --help, then the arguments, among them the name of a command that does not exist.
ValidateArgs == /\ pc = "help"
                /\ IF run.help THEN ShowHelp
                   ELSE /\ IF run.badArgs THEN Fail(Err("validation_failed"))
                           ELSE Continue("prerun")
                        /\ UNCHANGED told
                /\ UNCHANGED <<inputs, format, setup, flagValue, session, installVars, wizardVars>>

PersistentPreRunE ==
  /\ pc = "prerun"
  /\ format' = ResolveFormat(flagValue, run.human)
  /\ IF format' = "unresolved" THEN Fail(Err("validation_failed")) ELSE Continue("run")
  /\ UNCHANGED <<inputs, setup, flagValue, session, told, installVars, wizardVars>>

\* main's fail: resolve the format, tell the error, exit.  A failing stdout is ignored.
Report ==
  LET f == ResolveErrorFormat
      doc == [kind |-> "error", code |-> Or(error.code, "internal_error"),
              retryAfter |-> error.retryAfter, details |-> error.details]
  IN  /\ pc = "fail"
      /\ format' = f
      /\ IF f = "text"
         THEN /\ stderr' = Append(stderr, [doc EXCEPT !.details = FALSE])
              /\ UNCHANGED stdout
         ELSE /\ \E d \in {doc, Doc("partial")} : stdout' = Append(stdout, d)
              /\ UNCHANGED stderr
      /\ exit' = ExitForCode(error.code)
      /\ pc' = "exited"
      /\ UNCHANGED <<inputs, setup, flagValue, session, error, installVars, wizardVars>>

-----------------------------------------------------------------------------
(* The commands.                                                           *)

Guide == /\ pc = "run" /\ run.cmd = "guide"
         /\ Finish(Doc("guide"))
         /\ UNCHANGED <<inputs, setup, flagValue, format, session, installVars, wizardVars>>

\* A group without a verb; its help goes to stderr when stdout is for JSON.
Group == /\ pc = "run" /\ run.cmd = "group"
         /\ IF format = "json"
            THEN /\ pc' = "exited" /\ exit' = Success
                 /\ stderr' = Append(stderr, Doc("help"))
                 /\ UNCHANGED <<error, stdout>>
            ELSE ShowHelp
         /\ UNCHANGED <<inputs, setup, flagValue, format, session, installVars, wizardVars>>

Version == /\ pc = "run" /\ run.cmd = "version"
           /\ Continue("write")
           /\ UNCHANGED <<inputs, setup, flagValue, format, session, told, installVars, wizardVars>>

\* profile list and show load profiles.json once more.
ListProfiles == /\ pc = "run" /\ run.cmd = "profile list"
                /\ IF Readable(file) THEN Continue("write") ELSE Fail(Err(Uncoded))
                /\ UNCHANGED <<inputs, setup, flagValue, format, session, told, installVars,
                               wizardVars>>

\* show takes a name, or else the active profile.
ShowProfile ==
  /\ pc = "run" /\ run.cmd = "profile show"
  /\ LET f == LoadProfiles(file)
     IN  IF ~Readable(file) THEN Fail(Err(Uncoded))
         ELSE IF Or(run.name, ActiveProfile(f)) \notin DOMAIN f.profiles \union {Default}
              THEN Fail(Err("validation_failed"))
              ELSE Continue("write")
  /\ UNCHANGED <<inputs, setup, flagValue, format, session, told, installVars, wizardVars>>

BugRequireToken == /\ pc = "run" /\ run.cmd \in APICommands
                   /\ Readable(file)
                   /\ token' = ActiveProfile(LoadProfiles(file))
                   /\ Continue("call")
                   /\ UNCHANGED <<inputs, setup, flagValue, format, sent, told, installVars,
                                  wizardVars>>

\* The token of the provider's profile: as stored, refreshed first, or a failure, which create
\* may also have with its own flags.
RequireToken ==
  /\ pc = "run" /\ run.cmd \in APICommands
  /\ \/ /\ token' = config.profile
        /\ Continue("call")
        /\ UNCHANGED sent
     \/ /\ CheckStrict(config.auth.baseURL)
        /\ Sends("auth", config.auth.baseURL, config.profile)
        /\ \/ token' = config.profile /\ Continue("call")
           \/ \E code \in {"auth_required", "internal_error", Uncoded} : Fail(Err(code))
              /\ UNCHANGED token
     \/ /\ ~CheckStrict(config.auth.baseURL)
        /\ Fail(Err("validation_failed"))
        /\ UNCHANGED session
     \/ /\ \E code \in {"auth_required", Uncoded} : Fail(Err(code))
        /\ UNCHANGED session
     \/ /\ run.cmd = "cluster create"
        /\ Fail(Err("validation_failed"))
        /\ UNCHANGED session
  /\ UNCHANGED <<inputs, setup, flagValue, format, told, installVars, wizardVars>>

\* The calls of the command, all to the endpoint, unless the policy refuses it.
Call ==
  /\ pc = "call"
  /\ IF CheckStrict(config.endpoint)
     THEN /\ Sends("api", config.endpoint, token)
          /\ Continue("write") \/ \E e \in Failures : Fail(e)
     ELSE Fail(Err("validation_failed")) /\ UNCHANGED sent
  /\ UNCHANGED <<inputs, setup, flagValue, format, token, told, installVars, wizardVars>>

\* output.Write and WriteEnv.
Write == /\ pc = "write"
         /\ Finish(Doc(IF format = "text" THEN "text" ELSE "data"))
         /\ UNCHANGED <<inputs, setup, flagValue, format, session, installVars, wizardVars>>

\* skill install: SkillInstall's steps, then its result or its failure.
Install == /\ pc = "run" /\ run.cmd = "skill install"
           /\ \/ BeginInstall \/ InstallStep \/ CancelSelection(interrupted)
           /\ UNCHANGED <<inputs, pc, setup, flagValue, format, session, error, told, wizardVars>>

EndInstall == /\ pc = "run" /\ run.cmd = "skill install"
              /\ \/ stage = "done" /\ Continue("write")
                 \/ stage = "failed" /\ Fail(Err(refusal))
              /\ UNCHANGED <<inputs, setup, flagValue, format, session, told, installVars,
                             wizardVars>>

\* profile create: the wizard's steps, then its result or its failure.
Create == /\ pc = "run" /\ run.cmd = "profile create"
          /\ \/ /\ BeginCreate(request.stdinTTY, run.name) \/ LoadToCreate(file) \/ CheckDraft
                /\ UNCHANGED file
             \/ /\ SaveCreated
                /\ file' = IF prompt' = "done" THEN Created ELSE file
          /\ UNCHANGED <<run, changes, interrupted, pc, setup, flagValue, format, session, error,
                         told, installVars>>

EndCreate == /\ pc = "run" /\ run.cmd = "profile create"
             /\ \/ prompt = "done" /\ Continue("write")
                \/ prompt = "failed" /\ Fail(Err(cause))
             /\ UNCHANGED <<inputs, setup, flagValue, format, session, told, installVars,
                            wizardVars>>

-----------------------------------------------------------------------------
(* The user, the terminal and the other processes.                         *)

AnswerPrompt == /\ pc = "run" /\ run.cmd = "skill install"
                /\ ReadSelectionFails \/ \E line \in Lines : ReadSelection(line)
                /\ UNCHANGED <<inputs, pc, setup, flagValue, format, session, error, told,
                               wizardVars>>

AnswerWizard == /\ pc = "run" /\ run.cmd = "profile create"
                /\ Answer
                /\ UNCHANGED <<inputs, pc, setup, flagValue, format, session, error, told,
                               installVars>>

Interrupt == /\ pc \notin {"new", "fail", "exited"}
             /\ ~interrupted
             /\ interrupted' = TRUE
             /\ UNCHANGED <<run, file, changes, pc, setup, flagValue, format, session, error,
                            told, installVars, wizardVars>>

ChangeProfiles == /\ pc # "exited"
                  /\ changes > 0
                  /\ changes' = changes - 1
                  /\ file' \in Contents
                  /\ UNCHANGED <<run, interrupted, pc, setup, flagValue, format, session, error,
                                 told, installVars, wizardVars>>

Init == /\ \E s \in Starts : /\ run = s.run /\ file = s.file /\ changes = s.changes
                             /\ request = s.request /\ skills = s.request.before
        /\ interrupted = FALSE
        /\ pc = "new"
        /\ loaded = file /\ config = NoConfig
        /\ flagValue = "auto" /\ format = "unresolved"
        /\ token = Unset /\ sent = {}
        /\ error = NoError
        /\ stdout = <<>> /\ stderr = <<>> /\ exit = Success
        /\ stage = "off" /\ answer = <<>> /\ chosen = <<>> /\ left = <<>>
        /\ installed = <<>> /\ refusal = Uncoded
        /\ WizardInit

\* What the process does by itself.
ProcessStep == \/ New \/ ParseFlags \/ ValidateArgs \/ PersistentPreRunE \/ Report
               \/ Guide \/ Group \/ Version \/ ListProfiles \/ ShowProfile
               \/ RequireToken \/ Call \/ Write \/ Install \/ EndInstall
               \/ Create \/ EndCreate

Next == ProcessStep \/ AnswerPrompt \/ AnswerWizard \/ Interrupt \/ ChangeProfiles

Spec == Init /\ [][Next]_vars /\ WF_vars(ProcessStep)

-----------------------------------------------------------------------------
(* Properties.                                                             *)

\* The frozen codes, none, and those that a server may invent.
ErrorCodes == Codes \union {Uncoded} \union {e.code : e \in Failures}

Docs == [kind : {"data", "text", "error", "guide", "help", "partial"}, code : ErrorCodes,
         retryAfter : BOOLEAN, details : BOOLEAN]

Configs == [endpoint : URLs \union {Unset}, auth : AuthConfigs,
            profile : Names \union {Default, Unset}]

Requests == [to : {"api", "auth"}, url : URLs, of : Names \union {Default},
             redirected : BOOLEAN]

TypeOK ==
  /\ changes \in Nat
  /\ pc \in {"new", "parse", "help", "prerun", "run", "call", "write", "fail", "exited"}
  /\ config \in Configs
  /\ flagValue \in {"auto", "json", "text", "other"}
  /\ format \in {"unresolved", "json", "text"}
  /\ token \in Names \union {Default, Unset}
  /\ sent \subseteq Requests
  /\ error \in [code : ErrorCodes, retryAfter : BOOLEAN, details : BOOLEAN]
  /\ stdout \in Seq(Docs) /\ stderr \in Seq(Docs)
  /\ exit \in 0..ServiceUnavailable
  /\ interrupted \in BOOLEAN
  /\ stage \in {"off", "resolve", "prompt", "write", "done", "failed"}
  /\ chosen \in Seq(Harnesses) /\ IsInjective(chosen)
  /\ left \in Seq(DOMAIN skills) /\ IsInjective(left)
  /\ skills \in [Files("home") \union Files("project") -> {"none", "old", "this"}]
  /\ prompt \in Questions \union {"off", "load", "check", "save", "done", "failed"}
  /\ draft \in Profile /\ typed \in AuthConfigs /\ setActive \in BOOLEAN

Exited == pc = "exited"

\* A write to stdout failed: then nothing is claimed of what is on it.
StdoutFailed == \E i \in DOMAIN stdout : stdout[i].kind = "partial"

Ended == Exited /\ ~StdoutFailed

\* The parser stopped before it came to --output.
Overlooked == run.before = "unknown" \/ (run.before \in {"local", "help"} /\ ~Readable(loaded))

\* Who asks for JSON, or pipes the output, or is no human, gets JSON.
WantsJSON == \/ run.output = "json" /\ ~(Overlooked /\ run.human)
             \/ run.output = "auto" /\ ~run.human

\* The command's result is not JSON whatever is asked for.
PlainResult == run.help \/ run.cmd \in {"guide", "group"}

\* With JSON asked for, stdout ends up with one document: the result exactly when the exit
\* status is 0, and otherwise an error whose code is the one the status stands for, with its
\* details and its retry-after.  It holds for errors before, in and after the parsing of the
\* command line, with a broken profiles.json and with a broken --output (guide.md:5, main.go:24-66).
JSONContract ==
  Ended /\ WantsJSON =>
    /\ exit # Success => /\ Len(stdout) = 1 /\ stdout[1].kind = "error"
                         /\ ExitForCode(stdout[1].code) = exit
                         /\ stdout[1].retryAfter = error.retryAfter
                         /\ stdout[1].details = error.details
                         /\ stderr = <<>>
    /\ exit = Success /\ ~PlainResult => stdout = <<Doc("data")>> /\ stderr = <<>>

\* A token goes only where its own profile, as it was when the process started, or the
\* environment says: the profile may be switched, changed or deleted while the process runs.  From
\* there a redirect takes it to no host that the allowlist does not have (provider.go:40-53).
\* With a profiles.json that cannot be read, none goes anywhere (factory.go:53-55).
RequestsGoWhereConfigured ==
  \A r \in sent :
    /\ Readable(loaded)
    /\ r.of \in DOMAIN loaded.profiles \union {Default}
    /\ CheckStrict(r.url)
    /\ ~r.redirected =>
         r.url = IF r.to = "api" THEN EndpointOf(Settings(loaded, r.of), run.env)
                 ELSE BaseURLOf(Settings(loaded, r.of), run.env)

\* Replacing the auth settings as a whole is the precedence that is documented, of the
\* environment, the profile and the default for each field (doc.go:1-4, profile.go:100-101): for
\* this process, and for one that starts now, with whatever profile create made of the answers.
PrecedencePerField ==
  /\ config # NoConfig =>
       LET c == PerField(Settings(loaded, config.profile), run.env)
       IN  config.endpoint = c.endpoint /\ config.auth = c.auth
  /\ ResolveWith(file, run.env) = PerField(Settings(file, ActiveProfile(file)), run.env)

WellFormed == /\ run.before # "unknown" /\ run.after # "unknown"
              /\ ~run.help /\ ~run.badArgs /\ run.output # "other"

\* Whatever profiles.json holds, guide and version do what they are for (main.go:123-125).
GuideNeedsNoConfig == Ended /\ run.cmd \in {"guide", "version"} /\ WellFormed => exit = Success

InstallSucceeded == Exited /\ run.cmd = "skill install" /\ exit = Success /\ ~run.help

Typed(h) == {k \in DOMAIN answer : answer[k] \in DOMAIN KnownHarnesses
                                     /\ KnownHarnesses[answer[k]] = h}

\* What the user asked for: nothing, when the flags are wrong.
Wanted ==
  LET named == ToSet(request.harness) \ {""}
  IN  IF request.all THEN IF request.harness = <<>> THEN Harnesses ELSE {}
      ELSE IF request.harness # <<>>
           THEN IF named \subseteq Harnesses \union {Windsurf} THEN {Canonical(n) : n \in named}
                ELSE {}
      ELSE {h \in Harnesses :
              (Footprints[h] \cap request.dirs # {}) # (Cardinality(Typed(h)) % 2 = 1)}

\* A skill install that reports success has served just the harnesses the user asked for,
\* written this version's skill where each of them reads it, lists each of the files once, and
\* labels Claude Code's, no other, as such (unless the project lies in a .claude directory).
InstalledIsInPlace ==
  InstallSucceeded =>
    LET targets == {e.path : e \in ToSet(HarnessEntries)}
    IN  /\ targets # {}
        /\ {e.harness : e \in ToSet(HarnessEntries)} = Wanted
        /\ \A f \in targets : skills[f] = RenderSKILL
        /\ Len(installed) = Cardinality(targets)
        /\ {e.path : e \in ToSet(installed)} = targets
        /\ \A e \in ToSet(installed) :
             ~request.nested =>
               (e.harness = ClaudeCode) = (e.path = TargetPath(ClaudeCode, request.project))

\* Only files of harnesses the user asked for are touched: by --all, by name or alias, or
\* detected and not switched off at the prompt, or switched on there.  A refused, cancelled
\* or misspelt selection touches none ("nothing written", install.go:87).
NothingWrittenUnlessWanted ==
  \A f \in DOMAIN skills : skills[f] # request.before[f] =>
    /\ f \in {TargetPath(h, request.project) : h \in Wanted}
    /\ chosen # <<>>

\* Ctrl-C ends the command, the installer's prompt among them, even if the user never types.
\* The prompts of profile create do not see it (wizard.go:27): there it ends the command only
\* once the user has answered them all.
InterruptEnds == interrupted ~> (Exited \/ prompt \in Questions)

=============================================================================
