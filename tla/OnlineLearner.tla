----------------------------- MODULE OnlineLearner -----------------------------
(***************************************************************************)
(* moses/OnlineLearner.{h,cpp} and MultiTaskLearning.{h,cpp}: what one     *)
(* post-edited sentence changes, the scores of phrase pairs (m_feature)    *)
(* and the weights of the users.                                           *)
(*                                                                         *)
(* The n-best list of the sentence is a sequence of paths, the best        *)
(* hypothesis first, each a record                                         *)
(*   pairs   the phrase pairs it uses                                      *)
(*   bleu    its GetBleu against the post-edited sentence                  *)
(*   score   its total score                                               *)
(* A weight vector is known by the sentences whose updates it contains.    *)
(***************************************************************************)
EXTENDS Integers, Sequences, SequencesExt

CONSTANTS
  Pairs,          \* phrase pairs
  BlankPairs,     \* those with a blank source or target
  Algorithm,      \* -w_algorithm
  FLearningRate,  \* -f_learningrate
  Users           \* how many users -mtl-matrix names, 0 without -mtl-on

ASSUME LearnerAssumption ==
  /\ BlankPairs \subseteq Pairs
  /\ Algorithm \in {"perceptron", "alsoMira"}
  /\ FLearningRate \in Nat /\ Users \in Nat

MultiTaskingOn == Users > 0

\* LoadOnlineLearningModel.
Implementation == IF Algorithm = "perceptron" THEN "FOnlyPerceptron" ELSE "FPercepWMira"

Distance(m, n) == IF m > n THEN m - n ELSE n - m

\* PP_BEST of the best hypothesis, and PP_ORACLE of a path, from which the
\* blank pairs are left out.
PP_BEST(nBestList) == nBestList[1].pairs
PP_ORACLE(path) == path.pairs \ BlankPairs

-----------------------------------------------------------------------------
\* ShootUp and ShootDown.  A pair penalised for the first time gets 0; the
\* "== 0" that ends ShootDown assigns nothing.
Score(feature, pair) == IF pair \in DOMAIN feature THEN feature[pair] ELSE 0

ShootUp(feature, pair, margin) == Score(feature, pair) + FLearningRate * margin

ShootDown(feature, pair, margin) ==
  IF pair \in DOMAIN feature THEN feature[pair] - FLearningRate * margin ELSE 0

\* The pairs a path uses and the best hypothesis does not are rewarded if the
\* path is the better translation, and penalised if it is the worse one; those
\* only the best hypothesis uses, the other way round.
Rewarded(nBestList, path) ==
  IF path.bleu > nBestList[1].bleu THEN PP_ORACLE(path) \ PP_BEST(nBestList)
  ELSE IF path.bleu < nBestList[1].bleu THEN PP_BEST(nBestList) \ PP_ORACLE(path)
  ELSE {}

Penalised(nBestList, path) ==
  IF path.bleu > nBestList[1].bleu THEN PP_BEST(nBestList) \ PP_ORACLE(path)
  ELSE IF path.bleu < nBestList[1].bleu THEN PP_ORACLE(path) \ PP_BEST(nBestList)
  ELSE {}

\* Mutant of LearnFromPath: no list of the pairs visited.
LearnFromPathAgain(nBestList, learned, path) ==
  LET margin == Distance(path.score, nBestList[1].score)
      up     == Rewarded(nBestList, path)
      down   == Penalised(nBestList, path)
  IN  [feature |-> [pair \in DOMAIN learned.feature \cup up \cup down |->
         IF pair \in up THEN ShootUp(learned.feature, pair, margin)
         ELSE IF pair \in down THEN ShootDown(learned.feature, pair, margin)
         ELSE learned.feature[pair]],
       visited |-> {}]

\* Mutant of LearnFromPath: all pairs of the path count as visited.
LearnFromPathMarkingAll(nBestList, learned, path) ==
  LET margin == Distance(path.score, nBestList[1].score)
      up     == Rewarded(nBestList, path) \ learned.visited
      down   == Penalised(nBestList, path) \ learned.visited
  IN  [feature |-> [pair \in DOMAIN learned.feature \cup up \cup down |->
         IF pair \in up THEN ShootUp(learned.feature, pair, margin)
         ELSE IF pair \in down THEN ShootDown(learned.feature, pair, margin)
         ELSE learned.feature[pair]],
       visited |-> learned.visited \cup path.pairs]

\* One path of the list; a pair is changed once per sentence (Visited).
LearnFromPath(nBestList, learned, path) ==
  LET margin == Distance(path.score, nBestList[1].score)
      up     == Rewarded(nBestList, path) \ learned.visited
      down   == Penalised(nBestList, path) \ learned.visited
  IN  [feature |-> [pair \in DOMAIN learned.feature \cup up \cup down |->
         IF pair \in up THEN ShootUp(learned.feature, pair, margin)
         ELSE IF pair \in down THEN ShootDown(learned.feature, pair, margin)
         ELSE learned.feature[pair]],
       visited |-> learned.visited \cup up \cup down]

\* The loop over the n-best list, of RunOnlineLearning and of
\* RunOnlineMultiTaskLearning.
LearnFeature(feature, nBestList) ==
  IF Implementation # "FPercepWMira" THEN feature
  ELSE FoldLeft(LAMBDA learned, path : LearnFromPath(nBestList, learned, path),
                [feature |-> feature, visited |-> {}], nBestList).feature

-----------------------------------------------------------------------------
\* The loop of RunOnlineMultiTaskLearning over the tasks z, after sentence n
\* of user task.  The update, which is none if no constraint is violated, is
\* added to the weights of z, and the result is set as the weights of task.
LearnTaskWeights(weights, task, n, violated) ==
  LET update == IF violated THEN {n} ELSE {}
  IN  FoldLeft(LAMBDA w, z : [w EXCEPT ![task] = w[z] \cup update],
               weights, [i \in 1 .. Users |-> i - 1])

\* The path with the best translation of the list.
IsOracle(nBestList, i) ==
  /\ \A j \in DOMAIN nBestList : nBestList[j].bleu <= nBestList[i].bleu
  /\ \A j \in 1 .. i - 1 : nBestList[j].bleu < nBestList[i].bleu
=============================================================================
