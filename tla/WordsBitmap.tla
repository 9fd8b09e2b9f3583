----------------------------- MODULE WordsBitmap -----------------------------
(***************************************************************************)
(* moses/WordsBitmap.h: which words of the source sentence a hypothesis    *)
(* has translated.  The array of m_size flags is the set of the positions  *)
(* whose flag is true; m_size is the parameter size.                       *)
(***************************************************************************)
EXTENDS Integers, FiniteSets, FiniteSetsExt

\* NOT_FOUND is the largest size_t: greater than every position it is
\* compared with, never equal to one.
NOT_FOUND == 2147483647

Positions(size) == 0 .. size - 1

GetNumWordsCovered(bitmap) == Cardinality(bitmap)

\* The gaps are the words not yet translated.
Gaps(size, bitmap) == Positions(size) \ bitmap

\* Position of the first word not yet translated.
GetFirstGapPos(size, bitmap) ==
  IF Gaps(size, bitmap) = {} THEN NOT_FOUND
  ELSE CHOOSE pos \in Gaps(size, bitmap) :
         \A other \in Gaps(size, bitmap) : pos <= other

\* Position of the last translated word.
GetLastPos(bitmap) ==
  IF bitmap = {} THEN NOT_FOUND
  ELSE CHOOSE pos \in bitmap : \A other \in bitmap : other <= pos

Overlap(bitmap, startPos, endPos) == (startPos .. endPos) \cap bitmap # {}

SetValue(bitmap, startPos, endPos) == bitmap \cup (startPos .. endPos)

IsComplete(size, bitmap) == GetNumWordsCovered(bitmap) = size

-----------------------------------------------------------------------------
(***************************************************************************)
(* Integer IDs.  Bit pos-start-1 of an ID is the flag of pos, for the      *)
(* positions between the first gap (exclusive) and the last translated     *)
(* word; the first gap is kept above bit 16.                               *)
(***************************************************************************)
IDStart(size, bitmap) ==
  IF Gaps(size, bitmap) = {} THEN size ELSE GetFirstGapPos(size, bitmap)

IDEnd(bitmap) == IF bitmap = {} THEN 0 ELSE GetLastPos(bitmap)

\* CHECK(end < start || end-start <= 16): GetID and GetIDPlus abort where this
\* is false.
IDCheck(start, end) == end < start \/ end - start <= 16

Pattern(bitmap, start, end) ==
  MapThenSumSet(LAMBDA pos : 2^(pos - start - 1),
                {pos \in bitmap : start < pos /\ pos <= end})

\* Mutant of GapField: the pattern below it has 15 bits.
GapFieldNarrow(start) == 2^15 * start

GapField(start) == 2^16 * start

GetID(size, bitmap) ==
  LET start == IDStart(size, bitmap)
  IN  Pattern(bitmap, start, IDEnd(bitmap)) + GapField(start)

\* GetIDPlus moves the first gap past the span that fills it, but not past words
\* beyond the span that are covered already.
IDPlusStart(size, bitmap, startPos, endPos) ==
  LET gap == IDStart(size, bitmap) IN IF gap = startPos THEN endPos + 1 ELSE gap

IDPlusEnd(bitmap, endPos) ==
  LET last == IDEnd(bitmap) IN IF last < endPos THEN endPos ELSE last

\* The ID "with an additional span covered".
GetIDPlus(size, bitmap, startPos, endPos) ==
  LET start == IDPlusStart(size, bitmap, startPos, endPos)
  IN  Pattern(SetValue(bitmap, startPos, endPos), start, IDPlusEnd(bitmap, endPos))
        + GapField(start)
=============================================================================
