---------------------------- MODULE OrderedPipe ----------------------------
(***************************************************************************)
(* What an ordering stage promises: tasks enter with the serials 0, 1, 2,  *)
(* ... and leave one at a time in that order, none twice, none skipped.    *)
(***************************************************************************)
EXTENDS Integers, Sequences

VARIABLES
  entered,   \* how many tasks have entered
  output     \* the serials that have left, first one first

pipe == <<entered, output>>

Init == entered = 0 /\ output = <<>>

Enter == entered' = entered + 1 /\ UNCHANGED output

Emit ==
  /\ Len(output) < entered
  /\ output' = Append(output, Len(output))
  /\ UNCHANGED entered

Next == Enter \/ Emit

Spec == Init /\ [][Next]_pipe
=============================================================================
