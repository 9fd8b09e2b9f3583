------------------------------ MODULE ChartRules ------------------------------
(***************************************************************************)
(* The rules that apply to a range of a sentence in the chart decoder:     *)
(* ChartParser::Create asks each rule table (CYK+ lookup, the in-memory    *)
(* one) for the rules that match the range, and ChartTranslationOptionList *)
(* keeps the best of them.                                                 *)
(*                                                                         *)
(* A rule table maps a pattern, a sequence of words and non-terminals, to  *)
(* its target phrases, best first (SortAndPrune).  A target phrase is      *)
(*   lhs     the non-terminal it makes                                     *)
(*   words   words, and ChildIndex symbols for the non-terminals of the    *)
(*           pattern                                                       *)
(*   score   GetFutureScore                                                *)
(* A dotted rule is the part of a pattern that has been seen, the position *)
(* where it ends, and the range and label of each non-terminal in it.      *)
(***************************************************************************)
EXTENDS Ordering

CONSTANTS
  Labels,   \* the non-terminals
  Inputs    \* the sentences: words (<s> and </s> included), tables, unknown, xml, lm, limits

ASSUME InputAssumption ==
  \A i \in Inputs :
    /\ i.words # <<>>
    /\ \A t \in DOMAIN i.tables : i.tables[t].maxSpan \in Nat
    /\ i.ruleLimit \in Nat \ {0} /\ i.threshold \in Int /\ i.threshold <= 0

VARIABLES
  input,    \* the sentence being translated
  hypos,    \* the hypotheses, in the order of their creation
  sorted,   \* m_hyposOrdered of each range and label; <<>> as long as the cell is not finished
  dotted,   \* m_expandableDottedRuleList of each table and start
  list      \* m_translationOptionList: its options, and its m_scoreThreshold

Size == Len(input.words)

Ranges == {r \in (0 .. Size - 1) \X (0 .. Size - 1) : r[1] <= r[2]}

Width(range) == range[2] - range[1] + 1

WordAt(pos) == input.words[pos + 1]

Total(seq) == FoldLeft(+, 0, seq)

\* GetTargetLabelSet: what the finished cell of a range has hypotheses for.
LabelSet(range) == {label \in Labels : sorted[range][label] # <<>>}

-----------------------------------------------------------------------------
(***************************************************************************)
(* The lookup (ChartRuleLookupManagerMemory).  Its dotted rules stay from  *)
(* one range to the next with the same start.                              *)
(***************************************************************************)
IsNode(rules, seen) == \E pattern \in DOMAIN rules : IsPrefix(seen, pattern)

IsLeaf(rules, seen) == \A pattern \in DOMAIN rules : ~IsStrictPrefix(seen, pattern)

RootRule(start) == [seen |-> <<>>, end |-> start - 1, stack |-> <<>>]

\* Mutant of NonTerminalEnd: a rule may not begin with a non-terminal.
NonTerminalEndAlways(range, from) == range[2]

\* A non-terminal at the start of the range leaves a word to the rest of the rule: there are no
\* rules of one non-terminal only.
NonTerminalEnd(range, from) ==
  IF from = range[1] /\ range[2] > range[1] THEN range[2] - 1 ELSE range[2]

\* A dotted rule with the last word of the range, or with a non-terminal that ends there.
Extensions(rules, rule, range) ==
  LET from == rule.end + 1
      last == range[2]
      end  == NonTerminalEnd(range, from)
      withWord ==
        {[seen |-> Append(rule.seen, WordAt(last)), end |-> last, stack |-> rule.stack] :
           pos \in {from} \cap {last}}
      withNonTerminal ==
        {[seen |-> Append(rule.seen, label), end |-> end,
          stack |-> Append(rule.stack, [range |-> <<from, end>>, label |-> label])] :
           label \in IF from <= last THEN LabelSet(<<from, end>>) ELSE {}}
  IN  Listed({r \in withWord \cup withNonTerminal : IsNode(rules, r.seen)})

\* The dotted rules that a range adds.  The loop goes on into those it has just added: a rule that
\* begins with a non-terminal may be extended again, by the last word of the range.
NewDottedRules(rules, expandable, range) ==
  LET Round(found) == FlattenSeq([i \in DOMAIN found |-> Extensions(rules, found[i], range)])
      first == Round(expandable)
  IN  first \o Round(first)

Expandable(rules, found) == SelectSeq(found, LAMBDA r : ~IsLeaf(rules, r.seen))

Completed(rules, found, range) ==
  SelectSeq(found, LAMBDA r : r.end = range[2] /\ r.seen \in DOMAIN rules)

\* The tables whose rules may be as wide as the range.
TablesFor(range) ==
  {t \in DOMAIN input.tables :
     input.tables[t].maxSpan = 0 \/ Width(range) <= input.tables[t].maxSpan}

Found(t, range) == NewDottedRules(input.tables[t].rules, dotted[t][range[1]], range)

\* The dotted rules after a range has been looked up.
DottedAfter(range) ==
  [t \in DOMAIN dotted |->
     IF t \in TablesFor(range)
     THEN [dotted[t] EXCEPT ![range[1]] = @ \o Expandable(input.tables[t].rules, Found(t, range))]
     ELSE dotted[t]]

-----------------------------------------------------------------------------
(***************************************************************************)
(* The list of options (ChartTranslationOptionList).  An option is a       *)
(* pattern's target phrases, its non-terminals, and its score.             *)
(***************************************************************************)
\* CalcEstimateOfBestScore: the best target phrase on the best hypotheses.
EstimateOfBestScore(targets, stack) ==
  targets[1].score
    + Total([k \in DOMAIN stack |-> hypos[Head(sorted[stack[k].range][stack[k].label])].total])

Clear == [options |-> <<>>, threshold |-> -NegInfinity]

Best(options) ==
  SubSeq(SortSeq(options, LAMBDA a, b : a.score > b.score), 1, input.ruleLimit)

Add(l, targets, stack) ==
  LET score == EstimateOfBestScore(targets, stack)
      grown == Append(l.options, [targets |-> targets, stack |-> stack, score |-> score])
  IN  IF Len(l.options) > input.ruleLimit /\ score < l.threshold THEN l
      ELSE IF Len(grown) = 2 * input.ruleLimit
           THEN [options |-> Best(grown), threshold |-> Best(grown)[input.ruleLimit].score]
           ELSE [options |-> grown,
                 threshold |-> IF Len(grown) <= input.ruleLimit /\ score < l.threshold
                               THEN score ELSE l.threshold]

\* The rules of a table, in the order in which they were completed.
AddCompletedRules(l, t, range) ==
  LET rules == input.tables[t].rules
  IN  FoldLeft(LAMBDA all, r : Add(all, rules[r.seen], r.stack), l,
               Completed(rules, Found(t, range), range))

\* ChartParserUnknown: one option for each label that an unknown word may have.
ProcessUnknown(l, word) ==
  FoldLeft(LAMBDA all, label :
             Add(all, <<[lhs |-> label, words |-> <<word>>, score |-> input.unknown[label]]>>, <<>>),
           l, Listed(DOMAIN input.unknown))

\* ChartParser::Create: all tables, and a word that none of them knows; <s> and </s> are known.
Create(range) ==
  LET matched == FoldLeft(LAMBDA l, t : IF t \in TablesFor(range) THEN AddCompletedRules(l, t, range)
                                        ELSE l,
                          Clear, [t \in DOMAIN input.tables |-> t])
  IN  IF Width(range) = 1 /\ range[1] # 0 /\ range[1] # Size - 1
         /\ (matched.options = <<>> \/ input.alwaysCreateDirect)
      THEN ProcessUnknown(matched, WordAt(range[1])) ELSE matched

\* The best ruleLimit options, and of them those that are near the best.
ApplyThreshold(l) ==
  LET kept == IF Len(l.options) > input.ruleLimit THEN Best(l.options) ELSE l.options
      best == Max({kept[i].score : i \in DOMAIN kept})
  IN  [l EXCEPT !.options = SelectSeq(kept, LAMBDA o : o.score >= best + input.threshold)]
=============================================================================
