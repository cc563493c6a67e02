----------------------------- MODULE MCProcess ------------------------------
(***************************************************************************)
(* Process for TLC.  One profile beside the default one is enough to       *)
(* switch between two; the second is for profile create to keep.  The      *)
(* starts are four families: every shape of a command line against a       *)
(* profiles.json that can be read or not; every content of profiles.json   *)
(* with every environment for a command that sends tokens; every request   *)
(* to the installer; every answer to the wizard.                           *)
(***************************************************************************)
EXTENDS Process

-----------------------------------------------------------------------------
(* Config and Allowlist.                                                   *)

MCURLs == {"production", "own", "auth", "own-auth", "elsewhere", "mailto"}
MCHTTPURLs == MCURLs \ {"mailto"}
MCScheme == [u \in MCURLs |-> IF u = "mailto" THEN "mailto" ELSE "https"]
MCHost == [u \in MCURLs |-> CASE u = "production" -> <<"api-cloud", "weaviate", "cloud">>
                              [] u = "auth"       -> <<"auth", "weaviate", "cloud">>
                              [] u = "own"        -> <<"dev", "weaviate", "cloud">>
                              [] u = "own-auth"   -> <<"weaviate", "cloud">>
                              [] u = "elsewhere"  -> <<"weaviate", "example">>
                              [] OTHER            -> <<>>]
MCDefaultAuth == [baseURL |-> "auth", clientID |-> "public"]

\* Profiles as profile create saves them, one of each shape.
MCSaved ==
  {[endpoint |-> u, hasAuth |-> FALSE, auth |-> NoAuth] : u \in {Unset, "own", "elsewhere"}}
  \union {[endpoint |-> u, hasAuth |-> TRUE,
           auth |-> [baseURL |-> "own-auth", clientID |-> "mine"]] : u \in {Unset, "own"}}

ProfilesJSON(active, profiles) == [state |-> "valid", active |-> active, profiles |-> profiles]
Missing == [state |-> "missing", active |-> Unset, profiles |-> <<>>]
Unreadable == [Missing EXCEPT !.state = "unreadable"]

\* What may be there at the start; of the last two, one is active without being there.
Found ==
  {Missing, Unreadable}
  \union {ProfilesJSON(active, [n \in {"work"} |-> p]) :
            active \in {"default", "work"}, p \in MCSaved}
  \union {ProfilesJSON(active, <<>>) : active \in {"default", "work"}}

\* With one profile that is not the one to be created, active or not.
Another == {ProfilesJSON(active, [n \in {"staging"} |-> [NoSettings EXCEPT !.endpoint = "own"]]) :
              active \in {"default", "staging"}}

\* What others may put in its place.
MCContents ==
  {Missing, Unreadable}
  \union {ProfilesJSON(active, [n \in {"work"} |-> [NoSettings EXCEPT !.endpoint = "own"]]) :
            active \in {"default", "work"}}

AnyEnv == [endpoint : {Unset, "production"}, baseURL : {Unset, "auth"},
           clientID : {Unset, "public"}]
NoEnv == [endpoint |-> Unset, baseURL |-> Unset, clientID |-> Unset]

MCFailures == {[code |-> "rate_limited", retryAfter |-> TRUE, details |-> FALSE],
               [code |-> "service_unavailable", retryAfter |-> TRUE, details |-> TRUE],
               [code |-> "internal_error", retryAfter |-> FALSE, details |-> TRUE],
               [code |-> "cluster_not_found", retryAfter |-> FALSE, details |-> FALSE],
               [code |-> "a_code_of_tomorrow", retryAfter |-> FALSE, details |-> FALSE],
               NoError}

-----------------------------------------------------------------------------
(* SkillInstall.                                                           *)

MCKnownHarnesses == <<"claude-code", "gemini-cli", "antigravity", "devin">>
MCFootprints == [h \in {"claude-code", "gemini-cli", "antigravity", "devin"} |->
                   CASE h = "claude-code" -> {".claude"}
                     [] h = "gemini-cli"  -> {".gemini"}
                     [] h = "antigravity" -> {".gemini/antigravity-cli"}
                     [] OTHER             -> {".codeium/windsurf", ".config/devin"}]

\* A directory comes with its parent.
HomeDirs == {d \in SUBSET {".claude", ".gemini", ".gemini/antigravity-cli", ".config/devin"} :
               ".gemini/antigravity-cli" \in d => ".gemini" \in d}

\* Up to two numbers, valid or not.
MCLines == UNION {[1..n -> 0..5] : n \in 0..2}

NoSkills == [f \in Files("home") \union Files("project") |-> "none"]
OldSkills == [f \in Files("home") \union Files("project") |-> "old"]

\* What an install that stopped after its first file leaves.
PartOfSkills == [NoSkills EXCEPT ![File("home", ".claude")] = "this",
                                 ![File("project", ".claude")] = "this"]

Request == [all |-> FALSE, harness |-> <<>>, project |-> FALSE, nested |-> FALSE,
            stdinTTY |-> FALSE, dirs |-> {}, before |-> NoSkills]

InstallRequests ==
  {[Request EXCEPT !.all = a, !.harness = hs, !.project = p, !.nested = n, !.before = b] :
     a \in BOOLEAN, p \in BOOLEAN, n \in BOOLEAN, b \in {NoSkills, OldSkills, PartOfSkills},
     hs \in {<<>>, <<"">>, <<"devin", "", "gemini-cli", "claude-code">>,
             <<"windsurf", "devin">>, <<"gemini-cli", "vim">>}}
  \union {[Request EXCEPT !.stdinTTY = TRUE, !.project = p, !.dirs = d, !.before = b] :
            p \in BOOLEAN, d \in HomeDirs, b \in {NoSkills, OldSkills}}

-----------------------------------------------------------------------------
(* Starts.                                                                 *)

ProfileCommands == {"profile list", "profile show"}

Commands == APICommands \union ProfileCommands
  \union {"profile create", "guide", "version", "group", "skill install"}

Run == [cmd |-> "whoami", name |-> Unset, output |-> "json", before |-> "nothing",
        after |-> "nothing", badArgs |-> FALSE, help |-> FALSE, human |-> FALSE, env |-> NoEnv]

Shapes == {[Run EXCEPT !.cmd = c, !.output = o, !.before = b, !.after = a, !.badArgs = x,
                       !.help = h, !.human = t] :
             c \in Commands, o \in {"auto", "json", "text", "other"},
             b \in {"nothing", "local", "unknown"}, a \in {"nothing", "unknown"},
             x \in BOOLEAN, h \in BOOLEAN, t \in BOOLEAN}
  \union {[Run EXCEPT !.cmd = c, !.output = o, !.before = "help", !.help = TRUE, !.human = t] :
             c \in Commands, o \in {"auto", "json", "text", "other"}, t \in BOOLEAN}

Start(r, f, q, n) == [run |-> r, file |-> f, request |-> q, changes |-> n]

MCStarts ==
  {Start(r, f, [Request EXCEPT !.all = TRUE], 0) : r \in Shapes, f \in {Missing, Unreadable}}
  \union {Start([Run EXCEPT !.env = e], f, Request, 1) : e \in AnyEnv, f \in Found}
  \union {Start([Run EXCEPT !.cmd = "cluster create"], f, Request, 1) : f \in Found}
  \union {Start([Run EXCEPT !.cmd = c, !.name = n], f, Request, 1) :
            c \in ProfileCommands, n \in {Unset, "default", "work"}, f \in Found}
  \union {Start([Run EXCEPT !.cmd = "skill install"], Missing, q, 0) : q \in InstallRequests}
  \union {Start([Run EXCEPT !.cmd = "profile create", !.name = n], f,
                [Request EXCEPT !.stdinTTY = TRUE], 0) :
            n \in {Unset, "work", "default"}, f \in {Missing, Unreadable} \union Another}
  \union {Start([Run EXCEPT !.cmd = "profile create", !.name = "work"], f,
                [Request EXCEPT !.stdinTTY = TRUE], 1) : f \in Another}

=============================================================================
