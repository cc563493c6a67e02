--------------------------- MODULE ReleaseProofs ---------------------------
(***************************************************************************)
(* For every set of tags and platforms, wherever the jobs fail and however *)
(* often they are re-run: a main package on npm is installable, and a      *)
(* release is revealed in order.                                           *)
(***************************************************************************)
EXTENDS Release, TLAPS

-----------------------------------------------------------------------------
(* The inductive invariant.                                                *)

\* Where a job stands, what the steps before have done is done, by this run of the job or by
\* an earlier one.
JobOfTag(t) == /\ job[t] = "reveal" => platforms[t] = Platforms
               /\ job[t] = "undraft" => t \in main
               /\ job[t] = "merge" => release[t] = "public"

StepsInOrder == \A t \in Tags : JobOfTag(t)

IInv == TypeOK /\ MainIsInstallable /\ RevealedInOrder /\ StepsInOrder

\* Nothing is published when the first tag is pushed.
LEMMA InitIInv == Init => IInv
  BY DEF Init, IInv, TypeOK, MainIsInstallable, RevealedInOrder, StepsInOrder, JobOfTag, Steps

-----------------------------------------------------------------------------
(* The steps.  Each is about one tag and leaves what the others have alone.*)

\* A step of t's job that publishes nothing moves it to a step whose work before is done.
LEMMA JobStep ==
  ASSUME IInv, NEW t \in Tags, Start(t) \/ Fail(t) \/ Staged(t) \/ SkipMain(t)
  PROVE  IInv'
  <1>1. UNCHANGED <<tapToken, platforms, main, distTag, release, formula>>
    BY DEF Start, Fail, Staged, SkipMain, npm, github
  <1>2. PICK s \in {"draft", "failed", "reveal", "undraft"} : Goto(t, s)
    BY DEF Start, Fail, Staged, SkipMain
  <1>3. TypeOK'
    BY <1>1, <1>2 DEF IInv, TypeOK, Goto, Steps
  <1>4. MainIsInstallable' /\ RevealedInOrder'
    BY <1>1 DEF IInv, MainIsInstallable, RevealedInOrder
  <1>5. JobOfTag(t)'
    BY <1>1 DEF IInv, TypeOK, JobOfTag, Start, Fail, Staged, SkipMain, Goto
  <1>6. ASSUME NEW u \in Tags, u # t
        PROVE  JobOfTag(u)'
    BY <1>1, <1>2, <1>6 DEF IInv, TypeOK, StepsInOrder, JobOfTag, Goto
  <1>7. QED
    BY <1>3, <1>4, <1>5, <1>6 DEF IInv, StepsInOrder

\* npm: a platform package is added, or the main one, once they are all there.
LEMMA NpmStep ==
  ASSUME IInv, NEW t \in Tags, RevealMain(t) \/ \E p \in Platforms : StagePlatform(t, p)
  PROVE  IInv'
  <1>1. UNCHANGED <<tapToken, release, formula>>
    BY DEF RevealMain, StagePlatform, github
  <1> DEFINE Published == /\ \A u \in Tags : platforms[u] = Platforms => platforms'[u] = Platforms
                          /\ main \subseteq main' /\ main' \subseteq main \union {t}
                          /\ \A u \in Tags \ {t} : job'[u] = job[u]
                          /\ job'[t] \in {"stage", "failed", "undraft"}
                          /\ job'[t] = "undraft" => t \in main'
                          /\ t \in main' \ main => platforms'[t] = Platforms
  <1>2. Published
    <2>1. CASE RevealMain(t)
      BY <2>1 DEF IInv, TypeOK, StepsInOrder, JobOfTag, RevealMain, Goto
    <2>2. ASSUME NEW p \in Platforms, StagePlatform(t, p)
          PROVE  Published
      <3>1. /\ platforms' = [platforms EXCEPT ![t] = @ \union {p}]
            /\ platforms[t] \subseteq Platforms
            /\ main' = main /\ job[t] = "stage"
            /\ job' = job \/ job' = [job EXCEPT ![t] = "failed"]
        BY <2>2 DEF IInv, TypeOK, StagePlatform, Goto
      <3>2. QED
        BY <3>1 DEF IInv, TypeOK
    <2>3. QED
      BY <2>1, <2>2
  <1>3. TypeOK'
    <2>1. CASE RevealMain(t)
      BY <2>1 DEF IInv, TypeOK, RevealMain, Goto, DistTagOf, Steps, github
    <2>2. ASSUME NEW p \in Platforms, StagePlatform(t, p)
          PROVE  TypeOK'
      BY <2>2 DEF IInv, TypeOK, StagePlatform, Goto, Steps, github
    <2>3. QED
      BY <2>1, <2>2
  <1>4. MainIsInstallable'
    BY <1>2 DEF IInv, TypeOK, MainIsInstallable
  <1>5. RevealedInOrder'
    BY <1>1, <1>2 DEF IInv, RevealedInOrder
  <1>6. ASSUME NEW u \in Tags
        PROVE  JobOfTag(u)'
    BY <1>1, <1>2 DEF IInv, StepsInOrder, JobOfTag
  <1>7. QED
    BY <1>3, <1>4, <1>5, <1>6 DEF IInv, StepsInOrder

\* GitHub: the draft, the release, the formula.  A public release stays public.
LEMMA GitHubStep ==
  ASSUME IInv, NEW t \in Tags,
         Draft(t) \/ Propose(t) \/ Undraft(t) \/ Merge(t) \/ AutoMerge(t)
  PROVE  IInv'
  <1>1. UNCHANGED <<tapToken, platforms, main, distTag>>
    BY DEF Draft, Propose, Undraft, Merge, AutoMerge, npm
  <1>2. TypeOK'
    BY <1>1 DEF IInv, TypeOK, Draft, Propose, Undraft, Merge, AutoMerge, Goto, Steps
  <1>3. \A u \in Tags \ {t} : /\ job'[u] = job[u]
                              /\ release'[u] = release[u] /\ formula'[u] = formula[u]
    BY DEF IInv, TypeOK, Draft, Propose, Undraft, Merge, AutoMerge, Goto
  <1>4. /\ release[t] = "public" => release'[t] = "public"
        /\ release'[t] = "public" => release[t] = "public" \/ job[t] = "undraft"
        /\ formula'[t] \in {"auto", "merged"} =>
             formula[t] \in {"auto", "merged"} \/ job[t] = "merge"
        /\ \/ job'[t] = job[t]
           \/ job'[t] \notin {"reveal", "undraft"} /\ (job'[t] = "merge" => release'[t] = "public")
    BY DEF IInv, TypeOK, Draft, Propose, Undraft, Merge, AutoMerge, Goto
  <1>5. MainIsInstallable'
    BY <1>1 DEF IInv, MainIsInstallable
  <1>6. RevealedInOrder'
    BY <1>1, <1>3, <1>4 DEF IInv, RevealedInOrder, StepsInOrder, JobOfTag
  <1>7. ASSUME NEW u \in Tags
        PROVE  JobOfTag(u)'
    BY <1>1, <1>3, <1>4 DEF IInv, StepsInOrder, JobOfTag
  <1>8. QED
    BY <1>2, <1>5, <1>6, <1>7 DEF IInv, StepsInOrder

\* Whatever the jobs of all tags do, the invariant stays.
LEMMA NextIInv == IInv /\ [Next]_vars => IInv'
  <1>1. SUFFICES ASSUME IInv, [Next]_vars
                 PROVE  IInv'
    OBVIOUS
  <1>2. CASE UNCHANGED vars
    BY <1>1, <1>2 DEF vars, IInv, TypeOK, MainIsInstallable, RevealedInOrder, StepsInOrder, JobOfTag
  <1>3. CASE Next
    <2>1. PICK t \in Tags : Start(t) \/ Fail(t) \/ Progress(t) \/ AutoMerge(t)
      BY <1>3 DEF Next
    <2>2. QED
      BY <1>1, <2>1, JobStep, NpmStep, GitHubStep DEF Progress
  <1>4. QED
    BY <1>1, <1>2, <1>3

-----------------------------------------------------------------------------
(* The theorems.                                                           *)

\* So it holds of every reachable state.
LEMMA Invariance == SafeSpec => []IInv
  BY InitIInv, NextIInv, PTL DEF SafeSpec

\* Every state is well typed: a dist-tag names no version of the other kind
\* (release.yml, DIST_TAG).
THEOREM TypeCorrect == SafeSpec => []TypeOK
  BY Invariance, PTL DEF IInv

\* A main package that is on npm finds the platform packages it pins, for every set of platforms
\* and whichever steps of whichever jobs fail (npm-publish.sh:76-124).
THEOREM Installable == SafeSpec => []MainIsInstallable
  BY Invariance, PTL DEF IInv

\* No formula is merged before its assets are public, and nothing is public before the
\* irreversible publish on npm (release.yml:60-110).
THEOREM InOrder == SafeSpec => []RevealedInOrder
  BY Invariance, PTL DEF IInv

=============================================================================
