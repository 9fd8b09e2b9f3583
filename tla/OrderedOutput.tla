---------------------------- MODULE OrderedOutput ----------------------------
(***************************************************************************)
(* What a user of the multi-threaded decoder sees: the translations of the *)
(* sentences read so far come out in the order the sentences came in, none *)
(* is left out, and in the end all of them are there.                      *)
(***************************************************************************)
EXTENDS Integers, Sequences

CONSTANT NumSentences   \* how many sentences there are

VARIABLES
  read,     \* how many sentences have been read
  printed   \* the sentences whose translations are out, in order

outputVars == <<read, printed>>

Init == read = 0 /\ printed = <<>>

Read ==
  /\ read < NumSentences
  /\ read' = read + 1
  /\ UNCHANGED printed

Emit ==
  /\ \E last \in Len(printed) + 1 .. read : printed' = [i \in 1 .. last |-> i]
  /\ UNCHANGED read

Next == Read \/ Emit

Spec == Init /\ [][Next]_outputVars /\ WF_outputVars(Next)
=============================================================================
