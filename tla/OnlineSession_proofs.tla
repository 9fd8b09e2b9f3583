-------------------------- MODULE OnlineSession_proofs --------------------------
(***************************************************************************)
(* Proofs about OnlineSession, for every input, n-best list, learning      *)
(* algorithm and number of users.  All three theorems rest on SessionInv,  *)
(* which says what m_learn and m_postedited hold in each phase of a line.  *)
(***************************************************************************)
EXTENDS OnlineSession, TLAPS

\* Before a line is read no post-edited sentence is stored; while it is
\* worked on, one is stored if and only if it is the line's own, and this is
\* what m_learn says.
SessionInv ==
  /\ linesRead \in Nat
  /\ phase \in {"read", "decode", "run", "count", "eof"}
  /\ phase \in {"read", "count", "eof"} => postEdited = 0
  /\ phase \in {"decode", "run"} =>
       /\ linesRead # 0
       /\ learn <=> ~IsSource(line)
       /\ postEdited = IF IsSource(line) THEN 0 ELSE linesRead

\* SessionInv holds before the first line is read.
LEMMA SessionInvInit == SessionInit => SessionInv
  BY DEF SessionInit, SessionInv

\* Reading a line keeps SessionInv: as no sentence is stored,
\* SetPostEditedSentence does not refuse.
LEMMA SessionInvRead == SessionInv /\ Read => SessionInv'
<1> SUFFICES ASSUME SessionInv, Read PROVE SessionInv'
  OBVIOUS
<1>1. linesRead' \in Nat /\ linesRead' # 0 /\ postEdited = 0
  BY DEF SessionInv, Read
<1>2. CASE IsSource(line')
  <2>1. phase' = "decode" /\ learn' = FALSE /\ postEdited' = 0
    BY <1>1, <1>2 DEF Read, ReadSource
  <2> QED
    BY <1>1, <1>2, <2>1, Zenon DEF SessionInv, IsSource
<1>3. CASE ~IsSource(line')
  <2>1. phase' = "decode" /\ learn' = TRUE /\ postEdited' = linesRead'
    BY <1>1, <1>3 DEF Read, ReadPostEdited
  <2> QED
    BY <1>1, <1>3, <2>1, Zenon DEF SessionInv, IsSource
<1> QED
  BY <1>2, <1>3

\* Run keeps SessionInv: RemoveJunk clears the sentence if there is one.
LEMMA SessionInvRun == SessionInv /\ Run => SessionInv'
  BY DEF SessionInv, Run, Learn, LearnWeights, IsSource

\* So does every step.
LEMMA SessionInvNext == SessionInv /\ [SessionNext]_sessionVars => SessionInv'
<1>1. SessionInv /\ EndOfFile => SessionInv'
  BY DEF SessionInv, EndOfFile, learnerVars, outputVars, IsSource
<1>2. SessionInv /\ ProcessSentence => SessionInv'
  BY DEF SessionInv, ProcessSentence, learnerVars, outputVars, IsSource
<1>3. SessionInv /\ CountLine => SessionInv'
  BY DEF SessionInv, CountLine, learnerVars, outputVars, IsSource
<1>4. SessionInv /\ UNCHANGED sessionVars => SessionInv'
  BY DEF SessionInv, sessionVars, IsSource
<1> QED
  BY <1>1, <1>2, <1>3, <1>4, SessionInvRead, SessionInvRun DEF SessionNext

\* SessionInv is an invariant.
LEMMA SessionInvAlways == SessionSpec => []SessionInv
  BY SessionInvInit, SessionInvNext, PTL DEF SessionSpec

\* The session ends with the input: Read never fails because the post-edited
\* sentence of an earlier line has not been used yet.
THEOREM NoLineRefused == SessionSpec => []EndsWithInput
<1>1. SessionInv => EndsWithInput
  BY DEF SessionInv, EndsWithInput
<1> QED
  BY <1>1, SessionInvAlways, PTL

\* What goes to stdout is the translation of the lines that have no
\* post-edited sentence, and of no other.
THEOREM TranslationsPrinted == SessionSpec => PrintsTranslationsOnly
<1>1. SessionInv /\ [SessionNext]_sessionVars
        => [phase = "run" =>
              stdout' = IF IsSource(line) THEN Append(stdout, linesRead)
                        ELSE stdout]_sessionVars
  BY DEF SessionInv, SessionNext, Read, EndOfFile, ProcessSentence, Run, CountLine,
         sessionVars
<1> QED
  BY <1>1, SessionInvAlways, PTL DEF SessionSpec, PrintsTranslationsOnly

\* Neither the score of a phrase pair nor the weights, of any user or of a session without users, change
\* but by the post-edited sentence of the line being worked on.
THEOREM PostEditsTeach == SessionSpec => OnlyPostEditsTeach
<1> DEFINE Taught == \/ feature' # feature
                     \/ taskWeights' # taskWeights
                     \/ ~MultiTaskingOn /\ allWeights' # allWeights
<1>1. SessionInv /\ [SessionNext]_sessionVars
        => [Taught => postEdited = linesRead /\ ~IsSource(line)]_sessionVars
  <2> SUFFICES ASSUME SessionInv, SessionNext, Taught
               PROVE  postEdited = linesRead /\ ~IsSource(line)
    BY DEF sessionVars
  <2>1. ~Read
    BY DEF Read
  <2>2. ~EndOfFile /\ ~ProcessSentence /\ ~CountLine
    BY DEF EndOfFile, ProcessSentence, CountLine, learnerVars
  <2>3. Run /\ learn
    BY <2>1, <2>2 DEF SessionNext, Run
  <2> QED
    BY <2>3 DEF SessionInv, Run
<1> QED
  BY <1>1, SessionInvAlways, PTL DEF SessionSpec, OnlyPostEditsTeach
=============================================================================
