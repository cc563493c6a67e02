# wcloud in TLA+

`wcloud` is the command line of Weaviate Cloud: it signs a user in, keeps named
profiles, creates and reads clusters and hands out their API keys. It is a
short-lived process that several agents, shells and CI jobs run at the same time
over the same files, against servers that answer late or not at all. This
directory models what is hard about that, checks it with TLC and proves its safety
properties with TLAPS. Every definition is translated from the source; paths below are
relative to the repository.

## The system

| component | state | operations | interacts with |
|---|---|---|---|
| API client, `internal/api/client.go`, `errcode/noresponse.go` | one call: attempt, redirects, pending answer, wait, context | `do`, `send`, `classifyAttempt`, `sleep`, `checkRedirect`, `decodeResponse` | every command above it, the API below it |
| API operations, `internal/api/clusters.go`, `regions.go`, `whoami.go` | none | one call each | API client |
| Error codes, `internal/errcode` | none | `ExitCodeFor`, `CodeFor`, `exitForCode` | everything that fails; `main` |
| `cluster create [--wait]`, `command/cluster/create.go`, `await.go` | flags, deadline, last status, failure details; in the cloud the cluster and its one-time key | POST, poll, GET, print | API client, session, guide |
| `cluster get`, `list`, `status`, `region list`, `whoami` | the token they hold | one token, one call and one print each | session, API client |
| `profile list`, `show` | none | read `profiles.json` once more and print | other processes |
| Session, `internal/auth/provider.go`, `credentials.go`, `exchange.go`, `revoke.go` | the credentials file; at the server the refresh tokens | `RequireToken`, `Save`, `Logout` | authorization server, other processes through the file |
| Browser sign-in, `internal/auth/oauth.go`, `loopback.go`, `browser.go` | wait context, two channels, one goroutine per callback | `runLogin`, `awaitCode`, `callbackHandler`, `close` | browser, authorization server |
| Atomic files, `internal/config/atomicfile.go`, `credentials.go` | directory entries and inodes | `WriteFileAtomic`, `DeleteCredentials`, `os.ReadFile` | session, profiles, other processes |
| Profiles, `internal/config/profile.go`, `command/profile/*.go`, `factory` | `profiles.json`, one credentials file per profile | `create`, `use`, `delete`, and login, refresh and logout under the profile a process resolved at its start | other processes through the files |
| Configuration resolution, `config/profile.go`, `auth.go`, `config.go`, `factory` | the Factory's endpoint, sign-in settings and profile, set once | `LoadProfiles`, `ActiveProfile`, `ResolveWith`, `ValidateProfile`, `factory.New` | every command; other processes replace `profiles.json` |
| Skill installer, `command/skill` | files in several agents' directories; the selection, the files still to write | detect, ask, resolve targets, write one after the other | atomic files, the user at the prompt, the signal context |
| Process entry, `cmd/wcloud/main.go`; command tree, `internal/cli`; streams and envelope, `internal/output` | parsed flags, output format, the two streams, exit status, signal context | `main`, `needsConfig`, `PersistentPreRunE`, `fail`, `writeErrorEnvelope`, `Write` | all commands |
| Allowlist, `internal/allowlist` | none | a verdict on a URL | API client, sign-in |
| Guide for agents, `internal/guide/guide.md` | none | a table that says how to read a failure | agents |
| Release job, `.github/workflows/release.yml`, `scripts/npm-publish.sh`, `.goreleaser.yaml` | GitHub release, npm packages and dist-tags, formula | one step after the other; re-run after a failure | GitHub, npm, the Homebrew tap |
| npm shim, output rendering, progress lines, PKCE, test support | none | | |

What is hard, component by component, and what makes it correct:

- *API client.* Requests and answers are lost and late; a request can be carried
  out after the client gave up on it. A read must be retried, a create must not,
  a rejection must be true, and the call must end in bounded time whatever
  `Retry-After` holds and whenever the context is cancelled.
- *create --wait.* Any of a dozen steps can fail after a billable cluster
  exists. What the failure says (exit code, `cluster_id`, `still_provisioning`)
  decides whether an agent creates a second one.
- *Session.* Load, refresh and save with no lock, under rotation of refresh
  tokens; logins and logouts cross them; the server's answer or the save is lost.
- *Browser sign-in.* Callbacks race each other, the deadline and Ctrl-C; a
  channel with room for one can hold handlers for ever.
- *Files.* Writers, readers and a remover in several processes; a process is
  killed between two system calls.
- *Profiles.* A wizard holds the profiles it loaded for minutes and then saves
  all of them; a process keeps a profile another one deletes.
- *Process.* A failure may come before the flags are parsed, while they are,
  after, or from the write of the result, and must be told on one stream in the
  format asked for, with an exit status that fits its code. `profiles.json`
  may be unreadable or be replaced while the process runs: tokens must still go
  where the process's own profile said. Ctrl-C no longer kills a process that
  has caught it, so everything that waits must notice.
- *Skill installer.* Several harnesses share a file, one has two names, numbers
  at the prompt flip what was detected, and one of several writes fails.
- *Release.* Steps fail half-way or take effect and report a failure; npm
  accepts a version once.

`PROJECT.json` lists these hazards one by one, each at its line, with the
properties that cover it or the reason why none does.

## Modules

| module | models | uses |
|---|---|---|
| `ApiCall` | abstract: what one call promises its caller | |
| `ApiClient` | the retry loop of one call, over an unreliable network | `ApiCall` as refinement target |
| `ApiClientProofs` | theorems about `ApiClient` | `ApiClient`, TLAPS |
| `Errcode` | the frozen codes and their exit codes | |
| `Provision` | `cluster create` with and without `--wait`, the cluster and its key | its POST is an instance of `ApiCall`; `Errcode` |
| `ProvisionProofs` | theorems about `Provision` | `Provision`, TLAPS |
| `FileCell` | abstract: a file as one atomic cell | |
| `AtomicFile` | temporary file, chmod, rename, remove, reads | `FileCell` as refinement target |
| `AtomicFileProofs` | theorems about `AtomicFile`, the refinement among them | `AtomicFile`, TLAPS |
| `Session` | the credentials file, refresh, login, logout, and the server's tokens | the file as a cell |
| `SessionProofs` | theorems about `Session` | `Session`, TLAPS |
| `Profiles` | `profiles.json`, and a credentials file per profile | the files as cells |
| `ProfilesProofs` | theorems about `Profiles` | `Profiles`, TLAPS |
| `Login` | `runLogin` with the loopback server | |
| `LoginProofs` | theorems about `Login` | `Login`, TLAPS |
| `Config` | how environment, profile and default make the configuration; what a profile may be; the reference, field by field | |
| `Allowlist` | the strict policy on credential destinations | |
| `SkillInstall` | `skill install`: selection, prompt, targets, writes | the files as cells |
| `Wizard` | `profile create`, prompt by prompt | `Config`, `Errcode` |
| `Process` | one run of `wcloud`, from `main` to the exit status | `Config`, `Allowlist`, `Errcode`, `SkillInstall`, `Wizard` |
| `ProcessProofs` | theorems about `Config`, `SkillInstall` and `Process` | `Process`, TLAPS |
| `Release` | the release job and `npm-publish.sh` | |
| `ReleaseProofs` | theorems about `Release` | `Release`, TLAPS |

The layers rest on each other: `ApiClient` is shown to implement `ApiCall`, and
`Provision` makes its create with `ApiCall`'s own actions, so what it shows
assumes of the client no more than the client was shown to do. In the same way
`AtomicFile` implements `FileCell`, and `Session` and `Profiles` read and replace
a file in one step. `Provision`'s own end, read as the guide reads it, is again
an `ApiCall`: the command keeps the promise of the call it is built on.

`MC*.tla` give the constants values for TLC. Definitions named `Bug...` model a
plausible mistake each (a dropped guard, a wrong order, a missing reset); they
are used by nothing, and `PROJECT.json` pairs each with the definition it would
replace and the property that then fails, so that no property is one the code
could not break. `map` in `PROJECT.json` names the lines of each definition.

### How state and actions correspond to the code

- **ApiClient.** `pc` is where `do` is: `send` before `c.send`, `await` in
  `http.Client.Do` and the read of the body, `sleep` in the back-off. `attempt` is the
  loop variable, `hop` the length of `via` in `checkRedirect`, `wire` the requests that
  left and that the server may still act on. `SendFailed` is the error branch of
  `classifyAttempt`, shared by a transport error, a timeout and a refused
  redirect; `Receive` is the other one, with `RetriesAfter` for its condition.
  `JitteredBackoff` is the set of waits the random jitter can give;
  `ParseRetryAfter` saturates as the code does. The two timeouts of the two
  `http.Client`s are `AttemptTimeout`.
- **Provision.** One action per statement of `create` that changes something, one
  per way it fails. `left` is `deadline - now`; `DeadlinePassed` is the `After`
  of the loop. `CreateFailure`, `WaitFailure` and `TimeoutDetails` are the code's
  functions, with `error.details` as the set of its keys. A poll or a GET may be served
  any number of times before it returns, which is what a retried read is.
- **Session.** One action per step of `RequireToken`, `Login`, `Logout` between
  which another process can act; a token is its session and its place in the
  rotation. `Refreshed` decides between rotating, keeping and losing the answer.
- **AtomicFile.** `dir` maps names to inodes, `file` inodes to contents, so that
  a reader keeps what it opened and a rename replaces an entry. The abstract
  write takes effect in `Rename`, the abstract read in `Open`.
- **Profiles.** `Report` is the `output.WriteEnv` at the end of a command, which may fail. A profile is the generation of its creation, credentials the
  generation they were obtained for; `held` is what `LoadProfiles` returned and
  `SaveProfiles` will write back. `told` adds up what the commands reported.
- **Login.** `pc` is `runLogin`'s own goroutine, `step` each handler's. `TakeCode`
  is the rendezvous on the unbuffered channel, `errCh` the one with room for one.
- **Process.** `pc` is where the process is: `new` before `factory.New`, `parse`
  and `help` in cobra, `prerun` before `PersistentPreRunE`, `run` in a command's
  `RunE`, `call` between `RequireToken` and the API call, `write` before
  `output.Write`, `fail` in `main`'s `fail`. `run` is the invocation: the
  command, the value of `--output`, what stands before and after it on the
  command line (nothing, `--help`, a flag that only the command has, or one that nobody
  has), wrong arguments, `--help`, the environment, and whether a human reads
  stdout. `loaded` is `profiles.json` as `factory.New` read it, `file` what it is
  now; `config` the Factory's endpoint and its Provider's settings and profile.
  `sent` adds up the requests that carried a token, redirected ones included (`Sends`), `stdout` and `stderr` what was
  written, a partial document standing for a write that failed. `ParseRootFlags` is the
  `root.ParseFlags` that `main` makes for an unreadable configuration,
  `ParseCommandFlags` cobra's own. `profile use` and `delete`, `auth login` and `logout` are not among its commands: `Profiles`, `Login` and `Session` have
  them; `cluster create` is here up to its outcome, which `Provision` has.
- **SkillInstall.** `stage` is where `runInstall` is. A file is its root (home
  or project) and its skills directory, and holds no skill, an older one or this
  version's. `Picked` is the loop that keeps each element once, where it first occurs, of
  `resolveTargets` and `parseHarnesses`; the map that `toggleFrom` flips entries of is the
  set of harnesses it holds true for. `CancelSelection` and `ReadSelection` are the two branches of
  `readLineOrCancel`'s select. `Process` runs these actions inside its `run` step.
- **Config.** A URL is a name for itself; `HTTPURLs` are those `validateHTTPURL`
  accepts, `SavedProfiles` the profiles that `ValidateProfile` does.
- **Wizard.** `prompt` is the question `profile create` waits on, or the step it takes
  next; `held` is `profiles.json` as it was loaded after the name, `draft` the profile so
  far. An answer that is asked for again leaves the state as it is, but for the auth
  settings, which are asked for again together. `Process` runs its steps inside `run`;
  `Profiles` has the same command at the level of files, beside other processes'
  commands.
- **Release.** A step either succeeds, or fails before its effect (`Fail`), or
  takes effect and fails (the disjunct that goes to `failed`). `Start` also
  re-runs.

## What the runs check

Counts are distinct states; each run is exhaustive within its bounds.

| run | states | shows |
|---|---|---|
| `api_client` | 125,070 | `WriteAtMostOnce`, `RejectedWriteStaysUndone`, `CallWithinBudget`, `CallReturns`, and `ImplementsApiCall`, the refinement with its liveness |
| `provision` | 42,074 | `CreatedClusterIsNamed`, `KeySpentOnlyAtReady`, `OverrunIsBounded`, `StillProvisioningIsTrue`, `CommandEnds`, and `CommandIsOneCall`: read as the guide's table says, the end of the command tells the truth about the create |
| `session` | 738,364 | `FileKeepsItsSession` for any interleaving; `LoneSessionSurvives` and `LoneExpiryIsTrue` for one process at a time |
| `atomic_file` | 372,900 | `ImplementsFileCell`, `TempHasItsWriter` |
| `profiles` | 2,521,657 | `ActiveExists` for any interleaving; `LoneReportsAreTrue` and `LoneCredentialsBelong` for one process at a time |
| `login` | 241,337 | `CompletePageIsTrue`, `CodeIsOurs`, `LoginEnds` |
| `release` | 2,924 | `MainIsInstallable`, `RevealedInOrder`, `RetriesComplete` |
| `process` | 615,553 | `JSONContract`: one document on stdout, an error exactly when the exit status says so, whatever went wrong and when; `RequestsGoWhereConfigured` (and redirects stay within the allowlist) and `PrecedencePerField` while `profiles.json` changes; `GuideNeedsNoConfig`; `InstalledIsInPlace` and `NothingWrittenUnlessWanted` for the installer; `InterruptEnds` |

Each of them also checks its module's `TypeOK`.

Four runs check a claim the repository makes and find it violated by what the
code does. They are kept as findings:

- `api_no_response`: the comment and the message of `NoResponse`
  (`errcode/noresponse.go:15-24`) say that the request was neither accepted nor
  rejected. The run has a POST that times out and is carried out.
- `provision_mark`: `createFailure`'s comment (`create.go:84-87`) says that a
  create that was not answered is marked `cluster_may_exist`. The client gives
  that failure a code of its own, and a coded failure passes through unmarked.
  Only a cancelled context, or a body that breaks off, is marked. The guide's
  table still leads an agent right, because it goes by the exit code.
- `provision_key`: `create --wait` is documented to print the one-time key. When
  the answer that carries it is lost, the read is retried, and the command
  prints the second answer, without the key, and exits 0.
- `session_expired`: `RequireToken`'s comment says that `auth_required` means that
  there is no usable session. Two processes that refresh at once under rotation
  leave the slower one with `auth_required` while the file holds a usable one.

### Bounds

- `api_client`: GET and POST; a status of each class the client tells apart (200,
  307, 404, 429, 503), two retries (the loop's first, middle and last round), one
  redirect that is followed and a next that is refused, times scaled so that a write's timeout exceeds a read's and
  `Retry-After` values lie below zero, under and over the cap, and beyond the
  saturation point.
- `provision`: statuses of every class of `classifyStatus`, one of them unknown;
  `--timeout` not given, zero, short and negative; a poll that can outlast the pause.
  Time needs no bound of its own, because the wait ends soon after its deadline.
- `session`: three processes, two logins, two rotations of each. Two processes
  race for a refresh, the third logs in or out across them. Processes are
  symmetric.
- `atomic_file`: two writers, a reader, a remover, two contents of two chunks
  (so that a mixture is visible), two names and four inodes; writers, names and contents are
  symmetric. A writer that finds no name or no inode waits, so that nothing is
  lost by the bound but longer backlogs of leftovers.
- `profiles`: two processes, two names, two creations: enough to delete a name
  and create it again while another process acts on the deleted one. Processes and
  names are symmetric.
- `login`: three callbacks: one ends the wait, one fills the error channel, one
  waits for room in it.
- `release`: a final version and a prerelease, with and without a tap token; two
  platforms; any number of failures and re-runs.

- `process`: four families of starts. Every shape of a command line (9 commands,
  4 values of `--output`, what precedes and follows it, `--help`, wrong
  arguments, human or not) with `profiles.json` missing or unreadable; every
  content of `profiles.json` over one name (5 profiles, one of each
  shape, active or not, an active name that is not there) with every
  environment (`cluster create` and the commands that read profiles: with none), one
  redirect in a run and one replacement by another process, for the commands that send
  tokens or read profiles; every request to the installer (flags, an alias, blank and
  unknown names, 12 sets of directories, up to two numbers typed, files that hold
  nothing, older skills, or what an interrupted install left); every answer to the wizard
  (all URLs and client ids, valid or not, the end of input at each prompt) for a name
  that is given, reserved or asked for, with `profiles.json` missing, unreadable or
  holding another profile, active or not, and one replacement while the user types. One name and the
  default one are two profiles to switch between; a second name is there for
  `profile create` to keep. Four of the eight harnesses
  stand for the four kinds there are: a directory of its own, one of its own at user scope
  only, the shared one, and the shared one with an alias and two footprints.

Deadlock is not checked: all these systems stop, with a call that returned, a
command that ended or a bound that is used up. That they stop only where they
should is what the liveness properties say.

### Fairness

- `ApiClient`: weak fairness of `Client`, the caller's goroutine and its timers,
  the `http.Client` timeout among them. Nothing is assumed of the server.
- `Provision`: weak fairness of `CommandStep`: the process runs and its calls
  return, which `CallReturns` establishes for each. The cloud owes nothing; a
  cluster may stay `CREATING` for ever.
- `Login`: weak fairness of `runLogin`, of the handlers that can go on and of
  the wait's timer. Neither browser nor user owes anything.
- `Release`: the premise of the claim it checks (`release.yml:104-107`,
  "re-run this job ... retrying is safe"): a failed job is re-run, and no step
  fails every time it is tried (strong fairness of each step's success, because a
  failure elsewhere disables the step again and again). It also supposes that
  GoReleaser can run once more on a release that is public, the constant
  `UploadsAgain`, which is TRUE in the run. That is GoReleaser's to say, not this
  repository's: if it refused to upload an asset twice, a job whose merge failed
  could not be completed by re-running it, and TLC finds that behaviour when
  `RetriesComplete` is stated without the premise.
- `Process`: weak fairness of `ProcessStep`: the process runs, calls return
  (`CallReturns`, `CommandEnds`) and a cancelled context is noticed by the select
  of the installer's prompt. The user need never type anything. The wizard's prompts
  read stdin without the context (`wizard.go:27`): a Ctrl-C there is caught and
  ends nothing until the user has answered, so `InterruptEnds` excepts them.
- `Session`, `Profiles` and `AtomicFile` state safety only and need none.

### What the models assume

- A 4xx answer means that the request was not carried out; a 5xx leaves it open
  (`Serve`; likewise `RefusalCodes` and `ServerFailureCodes`, by which a refusal
  is never coded `service_unavailable` and a 5xx carries `internal_error` or
  `service_unavailable`).
- `net/http` follows 307 and 308 with the same method and body. 301 to 303, which
  turn a POST into a GET, are left out, and so are 304 and a redirect without a
  `Location`, which `net/http` returns as the answer.
- `Process` leaves the token on a request that `net/http` redirects to another host (it
  takes the header off when the domain changes, not a refresh token in a body), so
  `RequestsGoWhereConfigured` covers more requests than carry one.
- A 4xx, other than 429, to a refresh may come for a reason that is not the token
  (`RefreshRefused`): the code reads it as the end of the session all the same.
  `LoneExpiryIsTrue` and `ExpiredMeansNoSession` are about servers that do not do this.
- GoReleaser finds the formula's open pull request when it runs again, and may open another
  once that is merged (`Propose`).
- `os.CreateTemp` never draws a name another live writer still holds (one of 2^32).
- A rename is atomic and a process can be killed anywhere, but the machine does not lose
  power: the code does not sync, and nothing is claimed about that.
- The eight harnesses have different names, none of them blank, `windsurf`, or the
  `agents` that labels the shared directory (`SkillInstallAssumption`), as `knownHarnesses` has it.
- `profiles.json` holds profiles that `profile create` made when the process starts and
  whenever another process replaces it, or cannot be read (`ProcessAssumption`). `LoadProfiles` does not validate:
  a profile edited by hand, with an auth that lacks a field, would break
  `PrecedencePerField`.
- A write to a stream succeeds or fails half-way with an error; a closed pipe that
  kills the process by SIGPIPE is left out.
- `JSONContract` excepts what the code does not keep: on a terminal with a human,
  an `-o json` that stands after a flag the parser does not know is not seen (with an
  unreadable `profiles.json`, after any flag of the command's own or `--help`), and the error
  is text on stderr (`Overlooked`). It also excepts `--help`, `guide` and groups, which
  print text, and a stdout that failed.
- A credentials file is used under one profile by each process for its whole life,
  as `factory.New` resolves it once.
- The properties named `Lone...` claim something only of runs in which
  processes do not overlap and no step is lost (`disturbed` is false). That is
  the code's design: there is no lock, and the model shows what is left of the
  promise without one (`FileKeepsItsSession`, `ActiveExists`) and with it. A command
  that saved and then failed to write its result is a step that is lost, too. The hazards
  that these exceptions leave to the user are listed in `PROJECT.json` with no property,
  or with the part of them that one covers.

## What is proved

Every safety property of the passing runs is a theorem of its specification (the safety
part, `SafeSpec`, where the specification also has fairness), for every value of the constants: any number
of processes, writers, callbacks, statuses, profiles, tags, retries. A run shows on a
small instance what the theorem then says of all. Of the two refinements, that of
`FileCell` is proved as a whole, those of `ApiCall` as far as safety goes.

Each rests on an inductive invariant (`IInv`), which TLC checked on the bounds above
before it was proved, and which says what the property leaves unsaid: what an actor that
is between two steps has already done. The proof that a step preserves it has a lemma per
action or per group of actions that disturb the same part. The constants are assumed to be
what the named `ASSUME`s of each module say and no more.

### The API client

`ApiClientProofs` proves, for every set of methods and statuses, every retry limit,
timeout, back-off and cap, and every integer in a `Retry-After` header:

| theorem | says |
|---|---|
| `TypeCorrect` | `TypeOK`: no attempt beyond the last retry, no wait beyond the cap |
| `WriteOnce` | `WriteAtMostOnce` |
| `RejectedUndone` | `RejectedWriteStaysUndone` |
| `WithinBudget` | `CallWithinBudget` |
| `ImplementsCallSafely` | every step of the loop is a step of `ApiCall` or a stutter |

The only assumption is `ApiClientAssumption`: the constants are numbers, the 3xx
statuses are 307 and 308, and the longest back-off does not exceed the cap
(30 s and 60 s in the code; without it a wait after a failed attempt could exceed
the cap). `Invariance` shows that `IInv` is inductive. It is the conjunction of

- `TypeOK` and `RetryRemains`: a sleeping loop has a retry left, without which the
  next `attempt` could leave its range;
- `OneAttemptOfAWrite`: a write never sleeps, so it has one request under way,
  or one effect, or an answer to it. `WriteAtMostOnce` alone is not inductive: a
  second request on the wire could be carried out in the next step;
- `SuccessMeansCarriedOut`: a success that waits to be read answers a request
  that was carried out, which the step that returns it needs;
- `TellsWhenDone`: there is an outcome exactly when the loop is done, so that the
  abstract call returns once;
- `TimeByRound`: the time used is bounded by the rounds that are over; the
  budget alone says nothing about the round in progress.

Its preservation is proved conjunct by conjunct and action by action
(`TypeStep`, `TellsStep`, `SuccessStep`, `OneAttemptStep`, `TimeStep`), with
lemmas for what the rules return (`BackoffRange`, `RetryAfterRange`, `DecodeType`).

### The configuration

`ProcessProofs` proves, for all names, URLs and client ids, every environment, and any
`Starts` and `Contents` whose profiles `profile create` saved (it is proved to save no others):

| theorem | says |
|---|---|
| `ResolveIsPerField` | `ResolveWith`, which replaces the auth settings as a whole, equals `PerField`, which goes field by field |
| `Precedence` | `PrecedencePerField`, at every moment of every process, for its own configuration and for `profiles.json` as it is then |
| `TokensStayHome` | `RequestsGoWhereConfigured`, with the redirects of a request |

The assumptions are `ConfigAssumption` (the default profile's name is not among the
others, and the empty string is no name, URL or client id) and `ProcessAssumption`.
The first theorem rests on `AuthAllOrNothing`: an auth that
`ValidateProfile` lets through has both fields. Drop the check of the client
id and both that lemma and the run fail (`BugValidateProfile`).

`RequestsGoWhereConfigured` is not inductive: a request that is sent next may go
anywhere unless `config` is known. `IInv` adds

- `SavedFiles`: what is on the disk and what was loaded are saved profiles, which
  every replacement by another process keeps;
- `ConfiguredOnce`: the configuration is either not there or is what the loaded file
  and the environment resolve to, and a command that needs one does not begin without;
- `SentAsConfigured`: the token in hand and every request sent belong to the
  resolved profile, and what redirects made of a request stays within the allowlist;
- `Drafted`: what `profile create` loaded are saved profiles, the name it writes under
  is a valid one, and from its last check on its profile is one it may save. Without it
  the save could put anything into the file.

Most steps touch none of this: `MovesOn` says once that such a step keeps `IInv`
if it does not skip ahead, and `MainSteps` and `LocalSteps` apply it to each action.
`NewStep`, `TokenStep`, `CallStep` and `CreateStep` are the four that matter, the last
resting on `WizardStep` and `CreatedIsSaved`.

### The process and its streams

`ProcessProofs` has three more invariants, each resting on those before it.

| theorem | says | for every |
|---|---|---|
| `OneDocument` | `JSONContract` | command line, environment, `profiles.json`, and error a command may end with |
| `GuideAlwaysWorks` | `GuideNeedsNoConfig` | the same |
| `SkillIsInPlace` | `InstalledIsInPlace` | list of harnesses, request, and line typed at the prompt |
| `OnlyWantedIsWritten` | `NothingWrittenUnlessWanted` | the same |
| `TogglesAreParity` | what `toggleFrom` computes: a harness typed an odd number of times is flipped, and each is there once | line and preselection |
| `TargetsAre` | what `resolveTargets` computes: just the files of the selection, each once | selection |
| `TypeCorrect` | `TypeOK` | all of these |

- `Telling`: nothing is on a stream before the process ends; the format, once resolved, is
  the one `--output` asks for; only a failing stdout leaves a part of a document
  (`ToldInOrder`, `FormatInOrder`, `OnlyStdoutFails`). `JSONContract` alone says nothing of a
  process that is about to fail before its format is known.
- `Installing`: the selection is the one asked for and is made once
  (`SelectionInOrder`); the files in the result followed by those left to write are the
  targets, in order (`ResultInOrder`); a file is this version's just when it is in the result
  (`WrittenIsInstalled`); only an install that is done reaches the result (`DoneIsReported`).
- `Types`: `TypeOK` without what the others know already. That `left` never repeats is no
  invariant by itself: it is a part of the targets, which do not.

What `Picked` and `ToggleFrom` compute for every input is proved by induction, though no
theorem of the library that takes an operator can be used: `UpTo` is induction over a set,
by a least number that is missing from it (`WFMin` of the well-founded order on Nat), and
`PickedRecursion` and `ToggleRecursion` show in that way that there are functions which the
recursive definitions describe.

### Provisioning

`ProvisionProofs`, for every `--timeout`, set of statuses and lifecycle of the cloud, and however
long calls and pauses take: `ClusterIsNamed` (`CreatedClusterIsNamed`), `KeyIsNotSpent`
(`KeySpentOnlyAtReady`), `OverrunBounded` (`OverrunIsBounded`), `StillProvisioning`
(`StillProvisioningIsTrue`), `TypeCorrect`, and `CommandIsOneCallSafely`: every step of the command, its end read by the guide's
table, is a step of `ApiCall` or none. `IInv` adds

- `StepInOrder`: what the POST, the last status and the result are at each step. Without it a
  failure in the GET could follow a status that is not READY;
- `LateGet`: a GET that failed may still spend the key when the command is over;
- `Spent`: the deadline was looked at before each poll, and one poll has passed since;
- `PostIsTrue` and `EndIsTrue`: the outcome of the POST tells the truth about the cloud, and
  an end read as "not created" is one of a POST that was rejected or never sent.

### The files

`AtomicFileProofs`, for any writers, readers, contents of any number of chunks, names and inodes:
`ImplementsCell` (`ImplementsFileCell`), `TempRemoved` (`TempHasItsWriter`) and `TypeCorrect`.
The refinement maps the steps one by one: `Rename` is the cell's write, `Open` its read, `Delete`
its removal, and every other step begins or ends a call or changes nothing of the cell. It needs to know that no inode is written any more once it is at the path:
`WriterInOrder` (the inode a writer has open is under the name it drew, complete when it is
closed), `WritersApart`, `EntriesApart` (no two entries are of one inode),
`PathComplete`, and `ReaderInOrder` (what a reader has read is of one complete inode, which
has no temporary name).

### The session and the profiles

`SessionProofs`, for any number of processes, logins and rotations: `OneLoginOnDisk`
(`FileKeepsItsSession`), `SessionSurvives` (`LoneSessionSurvives`), `ExpiryIsTrue`
(the action property `LoneExpiryIsTrue`) and `TypeCorrect`. What is on disk comes from what some
process holds, so `IInv` says of both that they are of one login (`OfOneLogin`), and of a
process at each step what it holds (`HeldInOrder`). `Undisturbed` is the lone process's: the live
refresh token is on disk, but for the time between a refresh and its save.

`ProfilesProofs`, for any number of processes, names and creations: `ActiveProfileExists`
(`ActiveExists`), `ReportsAreTrue` (`LoneReportsAreTrue`), `CredentialsBelong`
(`LoneCredentialsBelong`) and `TypeCorrect`. The first holds in any interleaving because every
`profiles.json` that a process holds has its own active profile (`HeldInOrder`). The others are
claimed of one process at a time: `Undisturbed` says what it has in hand (`InHand`), among it
that `delete` takes the profile out before its credentials.

### The sign-in and the release

`LoginProofs`, for any set of callbacks in any order: `PageIsTrue` (`CompletePageIsTrue`),
`CodeIsOfThisLogin` (`CodeIsOurs`) and `TypeCorrect`. `IInv` adds that nothing is taken while
the login still waits (`StillWaiting`), and where the handlers are that have sent a code
(`HandlersInOrder`).

`ReleaseProofs`, for any tags and platforms and any number of failures and re-runs:
`Installable` (`MainIsInstallable`), `InOrder` (`RevealedInOrder`) and `TypeCorrect`. `StepsInOrder` adds what
the steps before the one a job is at have done, in this run of it or an earlier one.

### What is not proved

Only model-checked: all liveness (`CallReturns`, `CommandEnds`, `LoginEnds`,
`RetriesComplete`, `InterruptEnds`, and the liveness halves of `ImplementsApiCall` and
`CommandIsOneCall`), since fairness and ENABLED are beyond the prover. The four findings
are counterexamples, which TLC shows. That `Session` and `Profiles` may take a file for a cell
is argued above, by `ImplementsCell`, and not a theorem about their composition with `AtomicFile`;
nor is the use `Process` makes of `CallReturns` and of `Provision`'s outcomes.

## Not modelled, and why

- Progress lines, tables, JSON rendering, sanitizing, browser page markup, terminal
  detection: formatting without state that a property is about.
- The payloads of the read commands: `Process` has one document for any result.
- The prompt of `profile delete`: `Profiles` has it as the time between load and save.
- The hidden `help` command, `--version` and `-v`: they print, or print more.
- `detect_agent.go`: environment variables that decide what a create says it was
  provisioned by.
- PKCE values, state and nonces: random values; that a callback carries this
  login's state is a kind of callback in `Login`.
- URL parsing: `Allowlist` has scheme and host labels as a table, and in `ApiClient`
  the verdict is nondeterministic.
- The npm shim: it starts a binary.
- Generated mocks and test helpers.

## Plan

Done: all components of the first table as the components of `PROJECT.json` list them,
and the proofs of every safety property that a run checks. Next:

1. The steps towards liveness that are safety: a measure that each step of `CommandStep`
   and of `runLogin` lowers, and what a stuck handler of the sign-in would have to wait for,
   as invariants and action properties that can be proved.
2. The composition of `Session` with a call: an access token with more than
   `expirySkew` left can expire during a call that takes its whole budget, or during
   a wait.
3. `profile use` and `delete`, `auth login` and `logout` inside `Process`, so that their
   results are told there too.
