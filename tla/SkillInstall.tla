---------------------------- MODULE SkillInstall ----------------------------
(***************************************************************************)
(* wcloud skill install (src/internal/command/skill): which harnesses the  *)
(* flags or the user at the prompt select, which files these read, and the *)
(* files written one after the other.  Process runs it as a command.       *)
(*                                                                         *)
(* A file is named by its root, the home or the project directory, and by  *)
(* the skills directory under it; it has no skill, an older one or this    *)
(* version's.  WriteFileAtomic replaces it or leaves it (AtomicFile).      *)
(***************************************************************************)
EXTENDS Naturals, Sequences, SequencesExt

CONSTANTS KnownHarnesses,   \* in the order of the list that is offered
          ClaudeCode, Antigravity, Devin,
          Windsurf,         \* harnessAliasWindsurf, another name of Devin
          Footprints        \* of each harness: the directories under home that give it away

Harnesses == ToSet(KnownHarnesses)

\* The names in the list are different, and none is blank or the label of a shared directory.
ASSUME SkillInstallAssumption ==
  /\ KnownHarnesses \in Seq(Harnesses) /\ IsInjective(KnownHarnesses)
  /\ {ClaudeCode, Antigravity, Devin} \subseteq Harnesses
  /\ Antigravity # ClaudeCode
  /\ Windsurf \notin Harnesses \union {""}
  /\ Harnesses \cap {"", "agents"} = {}
  /\ DOMAIN Footprints = Harnesses

VARIABLES
  request,    \* the flags, whether stdin is a terminal, the directories and skills there are
  stage,      \* "off", "resolve", "prompt", "write", "done" or "failed"
  answer,     \* the numbers typed at the prompt
  chosen,     \* the selected harnesses
  left,       \* the files still to be written
  skills,     \* what each file holds
  installed,  \* the entries of the result
  refusal     \* the code of the failure

installVars == <<request, stage, answer, chosen, left, skills, installed, refusal>>

-----------------------------------------------------------------------------
(* Files and labels.                                                       *)

File(root, dir) == [root |-> root, dir |-> dir]

Files(root) == {File(root, d) : d \in {".claude", ".gemini", ".agents"}}

TargetPath(h, project) ==
  LET root == IF project THEN "project" ELSE "home"
  IN  CASE h = ClaudeCode                -> File(root, ".claude")
        [] h = Antigravity /\ ~project   -> File(root, ".gemini")
        [] OTHER                         -> File(root, ".agents")

\* What this version writes: its description and its guide.
RenderSKILL == "this"

\* What s has of T, each element once, where it first occurs.
Picked(s, T) ==
  LET picked[n \in 0..Len(s)] ==
        IF n = 0 THEN <<>>
        ELSE IF s[n] \in T /\ ~Contains(picked[n - 1], s[n]) THEN Append(picked[n - 1], s[n])
        ELSE picked[n - 1]
  IN  picked[Len(s)]

BugResolveTargets(hs, project) == [i \in DOMAIN hs |-> TargetPath(hs[i], project)]

ResolveTargets(hs, project) ==
  LET paths == [i \in DOMAIN hs |-> TargetPath(hs[i], project)]
  IN  Picked(paths, ToSet(paths))

\* A path with a .claude directory anywhere above the file is taken for Claude Code's.
HarnessLabelForPath(f) ==
  IF f.dir = ".claude" \/ (f.root = "project" /\ request.nested) THEN ClaudeCode
  ELSE IF f.dir = ".gemini" THEN Antigravity ELSE "agents"

-----------------------------------------------------------------------------
(* Selection.                                                              *)

Canonical(name) == IF name = Windsurf THEN Devin ELSE name

\* What --harness names, blank parts left out, that is not a harness.
Unknown == {Canonical(n) : n \in ToSet(request.harness) \ {""}} \ Harnesses

\* The rest of it.
Named == Picked([i \in DOMAIN request.harness |-> Canonical(request.harness[i])], Harnesses)

DetectHarnesses == {h \in Harnesses : Footprints[h] \cap request.dirs # {}}

BugToggleFrom(preSelected, line) ==
  Picked(KnownHarnesses, {h \in Harnesses : \E k \in DOMAIN line :
                            line[k] \in DOMAIN KnownHarnesses /\ KnownHarnesses[line[k]] = h})

\* Every number typed flips the harness it stands for; others are ignored.
ToggleFrom(preSelected, line) ==
  LET toggled[n \in 0..Len(line)] ==
        IF n = 0 THEN preSelected
        ELSE IF line[n] \in DOMAIN KnownHarnesses
             THEN SymDiff(toggled[n - 1], {KnownHarnesses[line[n]]})
        ELSE toggled[n - 1]
  IN  Picked(KnownHarnesses, toggled[Len(line)])

-----------------------------------------------------------------------------
(* Steps.                                                                  *)

disk == <<request, skills, installed>>

Refuse(code) == /\ stage' = "failed"
                /\ refusal' = code
                /\ UNCHANGED <<chosen, left>>

GoTo(s) == /\ stage' = s
           /\ UNCHANGED <<chosen, left, refusal>>

\* No harness left is a failure; otherwise their files are to be written.
Choose(hs) == IF hs = <<>> THEN Refuse("validation_failed")
              ELSE /\ chosen' = hs
                   /\ left' = ResolveTargets(hs, request.project)
                   /\ stage' = "write"
                   /\ UNCHANGED refusal

\* Resolving the home or the working directory may fail.
BeginInstall == /\ stage = "off"
                /\ GoTo("resolve") \/ Refuse("")
                /\ UNCHANGED <<disk, answer>>

SelectAll == /\ stage = "resolve"
             /\ request.all
             /\ IF request.harness = <<>> THEN Choose(KnownHarnesses)
                ELSE Refuse("validation_failed")
             /\ UNCHANGED <<disk, answer>>

ParseHarnesses == /\ stage = "resolve"
                  /\ ~request.all /\ request.harness # <<>>
                  /\ IF Unknown = {} THEN Choose(Named)
                     ELSE Refuse("validation_failed")
                  /\ UNCHANGED <<disk, answer>>

\* Without flags, a user at a terminal is asked.
SelectByUser == /\ stage = "resolve"
                /\ ~request.all /\ request.harness = <<>>
                /\ IF request.stdinTTY THEN GoTo("prompt") ELSE Refuse("validation_failed")
                /\ UNCHANGED <<disk, answer>>

\* The user's line; an empty one accepts what was detected.
ReadSelection(line) == /\ stage = "prompt"
                       /\ answer' = line
                       /\ Choose(ToggleFrom(DetectHarnesses, line))
                       /\ UNCHANGED disk

\* End of input, or a terminal that fails.
ReadSelectionFails == stage = "prompt" /\ Refuse("") /\ UNCHANGED <<disk, answer>>

BugNeverCancel(cancelled) == FALSE

\* The context is cancelled while the prompt waits.
CancelSelection(cancelled) == /\ stage = "prompt"
                              /\ cancelled
                              /\ Refuse("")
                              /\ UNCHANGED <<disk, answer>>

WriteSkill == /\ stage = "write" /\ left # <<>>
              /\ skills' = [skills EXCEPT ![Head(left)] = RenderSKILL]
              /\ installed' = Append(installed, [harness |-> HarnessLabelForPath(Head(left)),
                                                 path |-> Head(left)])
              /\ left' = Tail(left)
              /\ UNCHANGED <<request, stage, answer, chosen, refusal>>

BugPassOver == /\ stage = "write" /\ left # <<>>
               /\ left' = Tail(left)
               /\ UNCHANGED <<disk, stage, answer, chosen, refusal>>

\* The directory cannot be made or the file not replaced; what was written stays.
WriteSkillFails == /\ stage = "write" /\ left # <<>>
                   /\ Refuse("")
                   /\ UNCHANGED <<disk, answer>>

AllWritten == /\ stage = "write" /\ left = <<>>
              /\ GoTo("done")
              /\ UNCHANGED <<disk, answer>>

\* What the result says of each selected harness.
HarnessEntries == [i \in DOMAIN chosen |->
                     [harness |-> chosen[i], path |-> TargetPath(chosen[i], request.project)]]

\* What the installer does by itself, once it has begun.
InstallStep == \/ SelectAll \/ ParseHarnesses \/ SelectByUser
               \/ WriteSkill \/ WriteSkillFails \/ AllWritten

=============================================================================
