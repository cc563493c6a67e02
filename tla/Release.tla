------------------------------ MODULE Release ------------------------------
(***************************************************************************)
(* A release of wcloud (.github/workflows/release.yml,                     *)
(* scripts/npm-publish.sh): the job a pushed tag starts.  It drafts the    *)
(* GitHub release and proposes the Homebrew formula, stages the platform   *)
(* packages on npm, and then reveals the release: the main npm package,    *)
(* the GitHub release, the formula.  A step can fail, even after it has    *)
(* taken effect, and the job is then re-run from its beginning; the jobs   *)
(* of several tags run at the same time.                                   *)
(***************************************************************************)
EXTENDS Naturals

CONSTANTS Tags,         \* versions
          Prereleases,  \* those of them with a hyphen
          Platforms,    \* platform packages
          UploadsAgain  \* GoReleaser can run on a release that is public already

ASSUME ReleaseAssumption == /\ Prereleases \subseteq Tags
                            /\ "none" \notin Tags
                            /\ UploadsAgain \in BOOLEAN

VARIABLES
  tapToken,   \* HOMEBREW_TAP_TOKEN is set
  job,        \* of each tag: the step its job is at
  platforms,  \* of each tag: the platform packages npm has of it
  main,       \* tags of which npm has the main package
  distTag,    \* what the main package's dist-tags name
  release,    \* of each tag: the GitHub release
  formula     \* of each tag: the pull request of the formula

vars == <<tapToken, job, platforms, main, distTag, release, formula>>

Steps == {"draft", "propose", "stage", "reveal", "undraft", "merge"}

Init == /\ tapToken \in BOOLEAN
        /\ job = [t \in Tags |-> "none"]
        /\ platforms = [t \in Tags |-> {}]
        /\ main = {}
        /\ distTag = [latest |-> "none", next |-> "none"]
        /\ release = [t \in Tags |-> "none"]
        /\ formula = [t \in Tags |-> "none"]

github == <<release, formula>>
npm == <<platforms, main, distTag>>

BugOneTag(t) == "latest"

\* DIST_TAG
DistTagOf(t) == IF t \in Prereleases THEN "next" ELSE "latest"

\* A formula is proposed and merged for a final release, if there is a token for it.
HasFormula(t) == tapToken /\ t \notin Prereleases

Goto(t, s) == job' = [job EXCEPT ![t] = s]

-----------------------------------------------------------------------------
(* The job.                                                                *)

\* The tag is pushed, or a failed job is re-run: all its steps, from the first.
Start(t) == /\ job[t] \in {"none", "failed"}
            /\ Goto(t, "draft")
            /\ UNCHANGED <<tapToken, npm, github>>

\* The step fails before it did anything.
Fail(t) == /\ job[t] \in Steps
           /\ Goto(t, "failed")
           /\ UNCHANGED <<tapToken, npm, github>>

\* GoReleaser replaces the draft; a release that is public already stays so, if
\* GoReleaser does not refuse to upload the assets it has once more.
Draft(t) == /\ job[t] = "draft"
            /\ release[t] = "public" => UploadsAgain
            /\ release' = [release EXCEPT ![t] = IF @ = "public" THEN @ ELSE "draft"]
            /\ \/ Goto(t, "propose")
               \/ Goto(t, "failed")
            /\ UNCHANGED <<tapToken, npm, formula>>

\* GoReleaser opens the formula's pull request, unless there is one; once that is merged, and
\* its branch perhaps gone, it may open another with the same formula.
Propose(t) ==
  /\ job[t] = "propose"
  /\ \/ /\ HasFormula(t) /\ formula[t] \in {"none", "merged"}
        /\ formula' = [formula EXCEPT ![t] = "open"]
     \/ /\ HasFormula(t) => formula[t] # "none"
        /\ UNCHANGED formula
  /\ Goto(t, "stage")
  /\ UNCHANGED <<tapToken, npm, release>>

\* npm publish of platform p, whose answer may be lost.
StagePlatform(t, p) ==
  /\ job[t] = "stage"
  /\ p \notin platforms[t]
  /\ platforms' = [platforms EXCEPT ![t] = @ \union {p}]
  /\ \/ UNCHANGED job
     \/ Goto(t, "failed")
  /\ UNCHANGED <<tapToken, main, distTag, github>>

BugStageSome(t) == /\ job[t] = "stage"
                   /\ Goto(t, "reveal")
                   /\ UNCHANGED <<tapToken, npm, github>>

\* The loop is over: packages that were published before were skipped.
Staged(t) == /\ job[t] = "stage"
             /\ platforms[t] = Platforms
             /\ Goto(t, "reveal")
             /\ UNCHANGED <<tapToken, npm, github>>

\* npm publish of the main package, which moves its dist-tag.
RevealMain(t) ==
  /\ job[t] = "reveal"
  /\ t \notin main
  /\ main' = main \union {t}
  /\ distTag' = [distTag EXCEPT ![DistTagOf(t)] = t]
  /\ \/ Goto(t, "undraft")
     \/ Goto(t, "failed")
  /\ UNCHANGED <<tapToken, platforms, github>>

BugRepublish(t) == /\ job[t] = "reveal"
                   /\ t \in main
                   /\ Goto(t, "failed")
                   /\ UNCHANGED <<tapToken, npm, github>>

\* already_published: a version can be published once, so a re-run skips it.
SkipMain(t) == /\ job[t] = "reveal"
               /\ t \in main
               /\ Goto(t, "undraft")
               /\ UNCHANGED <<tapToken, npm, github>>

BugMergeFirst(t) == /\ job[t] = "undraft"
                    /\ Goto(t, "merge")
                    /\ UNCHANGED <<tapToken, npm, github>>

\* gh release edit --draft=false, without effect on a public release.
Undraft(t) == /\ job[t] = "undraft"
              /\ release' = [release EXCEPT ![t] = "public"]
              /\ \/ Goto(t, "merge")
                 \/ Goto(t, "failed")
              /\ UNCHANGED <<tapToken, npm, formula>>

\* gh pr merge --auto of the open pull request; nothing when there is none to merge.
Merge(t) ==
  /\ job[t] = "merge"
  /\ HasFormula(t) => formula[t] # "none"
  /\ formula' = [formula EXCEPT ![t] = IF HasFormula(t) /\ @ = "open" THEN "auto" ELSE @]
  /\ \/ Goto(t, "finished")
     \/ Goto(t, "failed")
  /\ UNCHANGED <<tapToken, npm, release>>

\* The tap merges what was set to merge by itself.
AutoMerge(t) == /\ formula[t] = "auto"
                /\ formula' = [formula EXCEPT ![t] = "merged"]
                /\ UNCHANGED <<tapToken, job, npm, release>>

Progress(t) == \/ Draft(t) \/ Propose(t) \/ (\E p \in Platforms : StagePlatform(t, p))
               \/ Staged(t) \/ RevealMain(t) \/ SkipMain(t) \/ Undraft(t) \/ Merge(t)

Next == \E t \in Tags : Start(t) \/ Fail(t) \/ Progress(t) \/ AutoMerge(t)

\* A step of t's job that takes effect and does not fail.
Succeed(t) == Progress(t) /\ job'[t] # "failed"

SafeSpec == Init /\ [][Next]_vars

\* A failed job is re-run, and no step fails for ever: what a re-run can rely on.
Spec == /\ SafeSpec
        /\ \A t \in Tags : /\ WF_vars(Start(t))
                           /\ WF_vars(AutoMerge(t))
                           /\ SF_vars(job[t] = "draft" /\ Succeed(t))
                           /\ SF_vars(job[t] = "propose" /\ Succeed(t))
                           /\ SF_vars(job[t] = "stage" /\ Succeed(t))
                           /\ SF_vars(job[t] = "reveal" /\ Succeed(t))
                           /\ SF_vars(job[t] = "undraft" /\ Succeed(t))
                           /\ SF_vars(job[t] = "merge" /\ Succeed(t))

-----------------------------------------------------------------------------
(* Properties.                                                             *)

TypeOK ==
  /\ tapToken \in BOOLEAN
  /\ job \in [Tags -> Steps \union {"none", "failed", "finished"}]
  /\ platforms \in [Tags -> SUBSET Platforms]
  /\ main \subseteq Tags
  /\ distTag \in [latest : (Tags \ Prereleases) \union {"none"},
                  next : Prereleases \union {"none"}]
  /\ release \in [Tags -> {"none", "draft", "public"}]
  /\ formula \in [Tags -> {"none", "open", "auto", "merged"}]

\* A main package on npm can be installed on every platform: the platform packages it pins
\* by exact version are all there, whichever steps failed and were repeated.
MainIsInstallable == \A t \in main : platforms[t] = Platforms

\* Nothing is revealed before what it needs: the formula is never merged before the assets
\* it points at can be downloaded, and neither before the irreversible publish on npm.
RevealedInOrder ==
  \A t \in Tags : /\ formula[t] \in {"auto", "merged"} => release[t] = "public"
                  /\ release[t] = "public" => t \in main

\* Retrying is safe (release.yml's last step): however often and wherever a release failed,
\* re-running its job completes it everywhere, provided that GoReleaser can run again.
Complete(t) == /\ t \in main
               /\ release[t] = "public"
               /\ HasFormula(t) => formula[t] = "merged"

RetriesComplete == UploadsAgain => \A t \in Tags : <>[]Complete(t)

=============================================================================
