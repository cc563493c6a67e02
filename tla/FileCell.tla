------------------------------ MODULE FileCell ------------------------------
(***************************************************************************)
(* What the credentials and profiles files promise the commands that share *)
(* them: a file is one cell.  A write replaces the whole content at one    *)
(* moment or does nothing, and its writer is told which; a read returns    *)
(* the whole content of one moment between its start and its end.          *)
(***************************************************************************)

CONSTANTS Writers, Readers, Values,
          Missing  \* the content of a file that does not exist

VARIABLES
  content,  \* of the file, Missing when there is none
  writing,  \* of each writer: the value it is writing, Missing when it is not
  applied,  \* of each writer: its write has taken effect
  told,     \* of each writer: how its last write ended
  taken,    \* of each reader: <<content>> at the moment its read took effect, or <<>>
  read      \* of each reader: what its last read returned

vars == <<content, writing, applied, told, taken, read>>

Init == /\ content = Missing
        /\ writing = [w \in Writers |-> Missing]
        /\ applied = [w \in Writers |-> FALSE]
        /\ told = [w \in Writers |-> "nothing"]
        /\ taken = [r \in Readers |-> <<>>]
        /\ read = [r \in Readers |-> Missing]

StartWrite(w, v) == /\ writing[w] = Missing
                    /\ writing' = [writing EXCEPT ![w] = v]
                    /\ told' = [told EXCEPT ![w] = "nothing"]
                    /\ UNCHANGED <<content, applied, taken, read>>

ApplyWrite(w) == /\ writing[w] # Missing /\ ~applied[w]
                 /\ content' = writing[w]
                 /\ applied' = [applied EXCEPT ![w] = TRUE]
                 /\ UNCHANGED <<writing, told, taken, read>>

\* A writer that is killed is told nothing.
EndWrite(w, o) == /\ writing[w] # Missing
                  /\ \/ o = "written" /\ applied[w]
                     \/ o = "failed" /\ ~applied[w]
                     \/ o = "nothing"
                  /\ writing' = [writing EXCEPT ![w] = Missing]
                  /\ applied' = [applied EXCEPT ![w] = FALSE]
                  /\ told' = [told EXCEPT ![w] = o]
                  /\ UNCHANGED <<content, taken, read>>

Remove == /\ content' = Missing
          /\ UNCHANGED <<writing, applied, told, taken, read>>

\* The moment of a read.
Look(r) == /\ taken[r] = <<>>
           /\ taken' = [taken EXCEPT ![r] = <<content>>]
           /\ read' = [read EXCEPT ![r] = Missing]
           /\ UNCHANGED <<content, writing, applied, told>>

EndRead(r) == /\ taken[r] # <<>>
              /\ read' = [read EXCEPT ![r] = taken[r][1]]
              /\ taken' = [taken EXCEPT ![r] = <<>>]
              /\ UNCHANGED <<content, writing, applied, told>>

\* A reader that is killed forgets what it was reading.
AbandonRead(r) == /\ taken' = [taken EXCEPT ![r] = <<>>]
                  /\ UNCHANGED <<content, writing, applied, told, read>>

Next == \/ \E w \in Writers : \/ \E v \in Values : StartWrite(w, v)
                              \/ ApplyWrite(w)
                              \/ \E o \in {"nothing", "written", "failed"} : EndWrite(w, o)
        \/ Remove
        \/ \E r \in Readers : Look(r) \/ EndRead(r) \/ AbandonRead(r)

Spec == Init /\ [][Next]_vars

=============================================================================
