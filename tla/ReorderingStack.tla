--------------------------- MODULE ReorderingStack ---------------------------
(***************************************************************************)
(* The hierarchical reordering model, backward: a ReorderingStack of the   *)
(* source spans translated so far, where spans that adjoin are merged, and *)
(* the orientation of a new phrase towards the one on top                  *)
(* (HierarchicalReorderingBackwardState).                                  *)
(***************************************************************************)
EXTENDS Integers, Sequences, SequencesExt

\* The two cases of merging: current is right behind previous, or right before it.
Mono(previous, current) == current[1] - previous[2] = 1
Swap(previous, current) == previous[1] - current[2] = 1

Merged(previous, current) ==
  IF Mono(previous, current) THEN <<previous[1], current[2]>> ELSE <<current[1], previous[2]>>

\* Mutant of Reduce: the merged span is not merged again.
ReduceOnce(stack, current) ==
  IF stack # <<>> /\ (Mono(Last(stack), current) \/ Swap(Last(stack), current))
  THEN Append(Front(stack), Merged(Last(stack), current)) ELSE Append(stack, current)

\* Reduce: current is merged with the spans on top as long as they adjoin, and put on the stack.
Reduce(stack, current) ==
  LET reduce[n \in 0 .. Len(stack), span \in Int \X Int] ==
        IF n > 0 /\ (Mono(stack[n], span) \/ Swap(stack[n], span))
        THEN reduce[n - 1, Merged(stack[n], span)] ELSE Append(SubSeq(stack, 1, n), span)
  IN  reduce[Len(stack), current]

\* What ShiftReduce returns: the distance to the span on top.
ReoDistance(stack, span) ==
  IF stack = <<>> THEN span[1] + 1
  ELSE LET prev == Last(stack) IN
       IF span[1] > prev[1] THEN span[1] - prev[2] ELSE span[2] - prev[1]

\* ShiftReduce, without its result: it merges at a distance of 1 or -1 and pushes otherwise.
ShiftReduce(stack, span) ==
  IF stack # <<>> /\ ReoDistance(stack, span) \in {1, -1}
  THEN Reduce(Front(stack), Merged(Last(stack), span))
  ELSE Append(stack, span)

\* GetOrientationTypeMSLR: monotone, swap, discontinuous to the right or to the left.
GetOrientationTypeMSLR(distance) ==
  CASE distance = 1 -> "M" [] distance = -1 -> "S" [] distance > 1 -> "DR" [] OTHER -> "DL"

\* The other model types tell fewer apart.
GetOrientationType(modelType, distance) ==
  CASE modelType = "MSLR" -> GetOrientationTypeMSLR(distance)
    [] modelType = "MSD" -> IF distance = 1 THEN "M" ELSE IF distance = -1 THEN "S" ELSE "D"
    [] modelType = "LeftRight" -> IF distance >= 1 THEN "R" ELSE "L"
    [] modelType = "Monotonic" -> IF distance = 1 THEN "M" ELSE "NM"

\* The stack behind a path of phrases.
StackBehind(path) == FoldLeft(ShiftReduce, <<>>, path)
==============================================================================
