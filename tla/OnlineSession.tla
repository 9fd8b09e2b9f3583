----------------------------- MODULE OnlineSession -----------------------------
(***************************************************************************)
(* moses-cmd/Main.cpp with Sentence::Read: the lines of a session, some to *)
(* be translated and some with a post-edited sentence to learn from, are   *)
(* read and worked on one after the other.                                 *)
(*                                                                         *)
(* Of a line only the number of parts counts that "_#_" separates, and the *)
(* user it names.  Outputs are known by the number of their line.          *)
(***************************************************************************)
EXTENDS OnlineLearner, OutputCollector

CONSTANTS
  MaxLines,     \* bound: how many lines the input has
  NBestLists    \* the n-best lists that decoding a line may come to

ASSUME SessionAssumption ==
  /\ MaxLines \in Nat
  /\ \A list \in NBestLists :
       list # <<>> /\ \A i \in DOMAIN list : list[i].pairs \subseteq Pairs

VARIABLES
  linesRead,    \* how many lines have been read
  line,         \* the line being worked on: [parts, user]
  phase,        \* "read", "decode", "run", "count", "eof", or "refused" where
                \* Read fails
  nBestList,    \* what decoding the line has come to
  feature,      \* m_feature
  taskWeights,  \* m_user2weightvec
  allWeights,   \* StaticData's m_allWeights
  learn,        \* m_learn
  postEdited,   \* m_postedited: the line it came with, or 0 for none
  lineCount,    \* lineCount in main()
  stdout,       \* what has been written to cout
  wordGraph,    \* wordGraphCollector
  nBest         \* nbestCollector, with the list in a file of its own

sessionVars ==
  <<linesRead, line, phase, nBestList, feature, taskWeights, allWeights, learn,
    postEdited, lineCount, stdout, wordGraph, nBest>>

learnerVars == <<feature, taskWeights, allWeights, learn, postEdited>>
outputVars == <<stdout, wordGraph, nBest>>

UserIds == 0 .. Users - 1

\* With several users every line ends with the id of one.
Lines ==
  IF MultiTaskingOn THEN [parts : 2 .. 3, user : UserIds]
  ELSE [parts : 1 .. 2, user : {0}]

\* A line without a post-edited sentence.
IsSource(l) == l.parts = IF MultiTaskingOn THEN 2 ELSE 1

SessionInit ==
  /\ linesRead = 0
  /\ line \in [parts : {1}, user : {0}]
  /\ phase = "read"
  /\ nBestList = <<>>
  /\ feature = <<>>
  /\ taskWeights = [user \in UserIds |-> {}]
  /\ allWeights = {}
  /\ learn = FALSE
  /\ postEdited = 0
  /\ lineCount = 0
  /\ stdout = <<>>
  /\ wordGraph = NewCollector /\ nBest = NewCollector

-----------------------------------------------------------------------------
\* Mutant: a line to be translated leaves m_learn as it is.
ReadSourceOnly ==
  /\ phase' = "decode"
  /\ UNCHANGED <<learn, postEdited>>

\* SetOnlineLearningFalse.
ReadSource ==
  /\ phase' = "decode"
  /\ learn' = FALSE
  /\ UNCHANGED postEdited

\* SetOnlineLearningTrue, and SetPostEditedSentence, which refuses if the one
\* before has not been used: Read then returns 0.
ReadPostEdited ==
  /\ learn' = TRUE
  /\ IF postEdited = 0 THEN postEdited' = linesRead' /\ phase' = "decode"
     ELSE phase' = "refused" /\ UNCHANGED postEdited

\* Sentence::Read.
Read ==
  /\ phase = "read" /\ linesRead < MaxLines
  /\ linesRead' = linesRead + 1
  /\ line' \in Lines
  /\ IF IsSource(line') THEN ReadSource ELSE ReadPostEdited
  /\ allWeights' = IF MultiTaskingOn /\ phase' = "decode" THEN taskWeights[line'.user]
                   ELSE allWeights
  /\ UNCHANGED <<nBestList, feature, taskWeights, lineCount, outputVars>>

\* The input ends.
EndOfFile ==
  /\ phase = "read"
  /\ phase' = "eof"
  /\ UNCHANGED <<linesRead, line, nBestList, learnerVars, lineCount, outputVars>>

\* manager.ProcessSentence().
ProcessSentence ==
  /\ phase = "decode"
  /\ nBestList' \in NBestLists
  /\ phase' = "run"
  /\ UNCHANGED <<linesRead, line, learnerVars, lineCount, outputVars>>

\* MIRA, with the weights of the tasks or those of StaticData.  If no constraint
\* is violated these stay, while a task still gets the weights of the last one.
LearnWeights(violated) ==
  \/ /\ Implementation # "FPercepWMira"
     /\ UNCHANGED <<taskWeights, allWeights>>
  \/ /\ Implementation = "FPercepWMira" /\ MultiTaskingOn
     /\ taskWeights' = LearnTaskWeights(taskWeights, line.user, linesRead, violated)
     /\ UNCHANGED allWeights
  \/ /\ Implementation = "FPercepWMira" /\ ~MultiTaskingOn
     /\ allWeights' = IF violated THEN allWeights \cup {linesRead} ELSE allWeights
     /\ UNCHANGED taskWeights

\* Mutant: RemoveJunk is not called.
LearnKeepingJunk(violated) ==
  /\ feature' = LearnFeature(feature, nBestList)
  /\ LearnWeights(violated)
  /\ UNCHANGED postEdited

\* RunOnlineLearning or RunOnlineMultiTaskLearning, and RemoveJunk.
Learn(violated) ==
  /\ feature' = LearnFeature(feature, nBestList)
  /\ LearnWeights(violated)
  /\ postEdited' = 0

\* The rest of TranslationTask::Run: learning, and the outputs.
Run ==
  /\ phase = "run"
  /\ IF learn THEN \E violated \in BOOLEAN : Learn(violated)
     ELSE UNCHANGED <<feature, taskWeights, allWeights, postEdited>>
  /\ wordGraph' = Write(wordGraph, lineCount, linesRead)
  /\ stdout' = IF learn THEN stdout ELSE Append(stdout, linesRead)
  /\ nBest' = IF line.parts = 1 THEN Write(nBest, lineCount, linesRead) ELSE nBest
  /\ phase' = "count"
  /\ UNCHANGED <<linesRead, line, nBestList, learn, lineCount>>

\* "if the sentence is supposed to be translated then lineCount ++".
CountLine ==
  /\ phase = "count"
  /\ lineCount' = IF IsSource(line) THEN lineCount + 1 ELSE lineCount
  /\ phase' = "read"
  /\ UNCHANGED <<linesRead, line, nBestList, learnerVars, outputVars>>

SessionNext == Read \/ EndOfFile \/ ProcessSentence \/ Run \/ CountLine

SessionSpec == SessionInit /\ [][SessionNext]_sessionVars

-----------------------------------------------------------------------------
\* The session ends with the input.  Each post-edited sentence has been used
\* and cleared when the next comes, so that SetPostEditedSentence never
\* refuses one, which would end the session with lines unread.
EndsWithInput == phase # "refused"

\* "When learning from postedition the decoder doesn't output anything", and
\* only then: what goes to stdout is the translation of every line that has
\* no post-edited sentence, in the order of the input.
PrintsTranslationsOnly ==
  [][phase = "run" =>
       stdout' = IF IsSource(line) THEN Append(stdout, linesRead) ELSE stdout]_sessionVars

\* A line to be translated teaches nothing: neither the score of a phrase
\* pair nor a weight changes but for a post-edited sentence, and for that of
\* the line itself.  The weights that learning changes are those of the users,
\* or with no users those of StaticData; with users, the latter are but a copy
\* that Read makes.
OnlyPostEditsTeach ==
  [][\/ feature' # feature
     \/ taskWeights' # taskWeights
     \/ ~MultiTaskingOn /\ allWeights' # allWeights
     => postEdited = linesRead /\ ~IsSource(line)]_sessionVars

\* A sentence moves the score of a pair at most once, by a reward or a
\* penalty of one path, however many paths of the n-best list use the pair.
OneStepPerSentence ==
  [][\A pair \in DOMAIN feature' :
       feature'[pair] # Score(feature, pair) =>
         \E i \in DOMAIN nBestList :
           Distance(feature'[pair], Score(feature, pair))
             = FLearningRate * Distance(nBestList[i].score, nBestList[1].score)
    ]_sessionVars

\* The pairs by which the oracle, "the closest translation to a post edited
\* sentence", betters the translation the decoder had chosen.
OraclePairs ==
  UNION {PP_ORACLE(nBestList[i]) \ PP_BEST(nBestList) :
           i \in {k \in DOMAIN nBestList :
                    IsOracle(nBestList, k) /\ nBestList[k].bleu > nBestList[1].bleu}}

\* By the README the feature "stores the phrase pairs which occur[...] in
\* Oracle translation". The run takes the algorithm alsoMira; with the
\* perceptron the code updates no feature.
OraclePairsStored ==
  [][phase = "run" /\ learn => OraclePairs \subseteq DOMAIN feature']_sessionVars

\* RunOnlineMultiTaskLearning goes through the tasks to "set the weights in
\* the memory for ith task": a sentence from which the weights of one user have
\* learned, those of every user have.
EveryTaskLearns ==
  \A learner, user \in UserIds :
    linesRead \in taskWeights[learner] => linesRead \in taskWeights[user]
=============================================================================
