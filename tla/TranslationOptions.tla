-------------------------- MODULE TranslationOptions --------------------------
(***************************************************************************)
(* TranslationOptionCollection and SquareMatrix: from the phrase tables,   *)
(* the mark-up and the unknown words of a sentence to the options of each  *)
(* span, and to the future scores that the search adds to a hypothesis.    *)
(*                                                                         *)
(* An option is [score, word]: its future score, and the words that the    *)
(* language model will remember.  A sentence is a record                   *)
(*   tables      for each decode graph and span, the options it makes      *)
(*               within the table limits and without them                  *)
(*   backoff     m_decodeGraphBackoff of each graph                        *)
(*   xml         [type, options]: the mark-up, options for some spans      *)
(*   unknown     the option ProcessOneUnknownWord makes of each word       *)
(***************************************************************************)
EXTENDS Expansion, Ordering

CONSTANTS
  MaxNoTransOptPerCoverage,   \* 0 for no limit
  TranslationOptionThreshold  \* negative, as the logarithm of a ratio

ASSUME OptionsAssumption ==
  /\ MaxNoTransOptPerCoverage \in Nat
  /\ TranslationOptionThreshold \in Int /\ TranslationOptionThreshold <= 0

\* The spans that m_collection has a list for.
PhraseSpans == {span \in Spans : span[2] - span[1] < MaxPhraseLength}

Words(span) == span[1] .. span[2]

HasXmlOptionsOverlappingRange(sentence, span) ==
  \E other \in Spans :
    sentence.xml.options[other] # <<>> /\ Words(span) \cap Words(other) # {}

\* What graph adds to the list of a span.
CreateTranslationOptionsForRange(sentence, graph, span, adhereTableLimit) ==
  LET overlap == HasXmlOptionsOverlappingRange(sentence, span)
      table   == sentence.tables[graph][span]
  IN  (IF sentence.xml.type = "exclusive" /\ overlap THEN <<>>
       ELSE IF adhereTableLimit THEN table.limited ELSE table.all)
        \o (IF graph = 1 /\ sentence.xml.type # "pass-through" /\ overlap
            THEN sentence.xml.options[span] ELSE <<>>)

\* Graph is a later one, and makes no options for a span that has some or is too long.
NoBackoff(sentence, graph, span, list) ==
  /\ graph > 1 /\ sentence.backoff[graph] # 0
  /\ span[2] - span[1] + 1 >= sentence.backoff[graph] \/ list # <<>>

Graphs(sentence) == DOMAIN sentence.tables

\* The first loop of CreateTranslationOptions.
Looked(sentence, span) ==
  FoldLeft(LAMBDA list, graph :
             IF NoBackoff(sentence, graph, span, list) THEN list
             ELSE list \o CreateTranslationOptionsForRange(sentence, graph, span, TRUE),
           <<>>, [graph \in Graphs(sentence) |-> graph])

\* ProcessUnknownWord: a word without options is looked up without table limits, graph by
\* graph until one has some, and else is an unknown word.
WithUnknownWord(sentence, span) ==
  LET unlimited ==
        FoldLeft(LAMBDA list, graph :
                   IF list = <<>>
                   THEN CreateTranslationOptionsForRange(sentence, graph, span, FALSE) ELSE list,
                 Looked(sentence, span), [graph \in Graphs(sentence) |-> graph])
  IN  IF span[1] # span[2] THEN Looked(sentence, span)
      ELSE IF unlimited = <<>> THEN <<sentence.unknown[span[1]]>> ELSE unlimited

\* CompareTranslationOption; equal scores stay in the order of the list, one of the orders that
\* sort and nth_element may leave.
Sort(list) == SortSeq(list, LAMBDA a, b : a.score > b.score)

\* By number, and what is left by the distance to its best; a single option is not pruned.
Prune(list) ==
  LET sorted == Sort(list)
      kept   == IF MaxNoTransOptPerCoverage \in 1 .. Len(list)
                THEN SubSeq(sorted, 1, MaxNoTransOptPerCoverage) ELSE sorted
  IN  SelectSeq(kept, LAMBDA option : option.score >= sorted[1].score + TranslationOptionThreshold)

\* CreateTranslationOptions, up to CalcFutureScore.
TranslationOptionLists(sentence) ==
  [span \in PhraseSpans |-> Sort(Prune(WithUnknownWord(sentence, span)))]

-----------------------------------------------------------------------------
\* The best option of a span.
BestOption(lists, span) ==
  IF span \in PhraseSpans /\ lists[span] # <<>>
  THEN Max({option.score : option \in ToSet(lists[span])}) ELSE NegInfinity

\* Mutant of FutureScoreMatrix: the last join of a span is left out.
FutureScoreMatrixShortJoin(lists) ==
  LET score[span \in Spans] ==
        Max({BestOption(lists, span)} \cup
            {score[<<span[1], joinAt>>] + score[<<joinAt + 1, span[2]>>] :
               joinAt \in span[1] .. span[2] - 2})
  IN  score

\* CalcFutureScore of the collection: the best option of each span, or the best way to join two
\* shorter spans.
FutureScoreMatrix(lists) ==
  LET score[span \in Spans] ==
        Max({BestOption(lists, span)} \cup
            {score[<<span[1], joinAt>>] + score[<<joinAt + 1, span[2]>>] :
               joinAt \in span[1] .. span[2] - 1})
  IN  score

\* The loop of SquareMatrix::CalcFutureScore, from a position to another, in a gap or not: it adds
\* the score of each gap that ends.
ScanGaps(matrix, covered, from, to, startGap) ==
  FoldLeft(LAMBDA scan, pos :
             IF pos \notin covered /\ scan.startGap = NOT_FOUND
             THEN [scan EXCEPT !.startGap = pos]
             ELSE IF pos \in covered /\ scan.startGap # NOT_FOUND
             THEN [startGap |-> NOT_FOUND,
                   score |-> scan.score + matrix[<<scan.startGap, pos - 1>>]]
             ELSE scan,
           [startGap |-> startGap, score |-> 0], [i \in 1 .. to - from + 1 |-> from + i - 1])

\* Of a coverage.
CalcFutureScore(matrix, bitmap) ==
  LET scan == ScanGaps(matrix, bitmap, 0, Size - 1, NOT_FOUND)
  IN  scan.score + (IF scan.startGap = NOT_FOUND THEN 0
                    ELSE matrix[<<scan.startGap, Size - 1>>])

\* Of a coverage and a span, from the first gap to the last word covered.
CalcFutureScoreWith(matrix, bitmap, startPos, endPos) ==
  LET gap   == GetFirstGapPos(Size, bitmap)
      last  == GetLastPos(bitmap)
      lastCovered == IF endPos > last \/ last = NOT_FOUND THEN endPos ELSE last
      scan == ScanGaps(matrix, SetValue(bitmap, startPos, endPos),
                       IF startPos = gap THEN endPos + 1 ELSE gap + 1, lastCovered,
                       IF startPos = gap THEN NOT_FOUND ELSE gap)
  IN  IF gap = NOT_FOUND THEN 0
      ELSE scan.score + (IF lastCovered = Size - 1 THEN 0
                         ELSE matrix[<<lastCovered + 1, Size - 1>>])
=============================================================================
