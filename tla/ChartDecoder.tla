----------------------------- MODULE ChartDecoder -----------------------------
(***************************************************************************)
(* moses-chart-cmd: main() reads sentences and submits a TranslationTask   *)
(* for each to the thread pool; a task translates its sentence and writes  *)
(* the best translation, then the n-best list, to collectors that all      *)
(* threads share.                                                          *)
(*                                                                         *)
(* A task is known by the number of its sentence in the input, which also  *)
(* stands for its translation.  The pool is that of ThreadPool, with       *)
(* main() as its client.                                                   *)
(***************************************************************************)
EXTENDS ThreadPool, OutputCollector

CONSTANTS
  SegId,               \* the id each input line gives in a <seg> tag, or 0
  StartTranslationId   \* -start-translation-id

ASSUME ChartDecoderAssumption ==
  /\ SegId \in [1 .. NumTasks -> Nat]
  /\ StartTranslationId \in Nat

VARIABLES
  nextTranslationId,   \* IOWrapper::m_translationId
  translationId,       \* the id of each sentence that has been read
  best,                \* m_singleBestOutputCollector
  nBest,               \* m_nBestOutputCollector
  bestWritten          \* the threads that have written the best translation

ioVars == <<nextTranslationId, translationId, best, nBest, bestWritten>>
decoderVars == <<poolVars, ioVars>>

\* GetIOWrapper ends with ResetTranslationId.
DecoderInit ==
  /\ Init
  /\ nextTranslationId = StartTranslationId
  /\ translationId = <<>>
  /\ best = NewCollector /\ nBest = NewCollector
  /\ bestWritten = {}

-----------------------------------------------------------------------------
\* IOWrapper::GetInput numbers the sentences that come without an id.
GetInput(segId) ==
  IF segId # 0
  THEN /\ translationId' = Append(translationId, segId)
       /\ nextTranslationId' = IF segId >= nextTranslationId THEN segId + 1
                               ELSE nextTranslationId
  ELSE /\ translationId' = Append(translationId, nextTranslationId)
       /\ nextTranslationId' = nextTranslationId + 1

\* main() reads a sentence before it calls Submit, and calls Stop when there
\* is none left to read.
ReadInput ==
  /\ Call
  /\ IF submitted < NumTasks THEN GetInput(SegId[submitted + 1])
     ELSE UNCHANGED <<nextTranslationId, translationId>>
  /\ UNCHANGED <<best, nBest, bestWritten>>

\* TranslationTask::Run, up to OutputBestHypo.
OutputBestHypo(t) ==
  /\ thread[t] = "run" /\ t \notin bestWritten
  /\ best' = Write(best, translationId[job[t]], job[t])
  /\ bestWritten' = bestWritten \cup {t}
  /\ UNCHANGED <<poolVars, nextTranslationId, translationId, nBest>>

\* The rest of Run, with OutputNBestList.
OutputNBestList(t) ==
  /\ t \in bestWritten
  /\ RunTask(t)
  /\ nBest' = Write(nBest, translationId[job[t]], job[t])
  /\ bestWritten' = bestWritten \ {t}
  /\ UNCHANGED <<nextTranslationId, translationId, best>>

DecoderThread(t) ==
  \/ OutputBestHypo(t)
  \/ OutputNBestList(t)
  \/ /\ FindJob(t) \/ Woken(t) \/ NotifyThreadAvailable(t) \/ CheckStopped(t)
     /\ UNCHANGED ioVars

Main ==
  \/ ReadInput
  \/ /\ Submit \/ BeginStop \/ Drain \/ SetStopped \/ NotifyStopped \/ JoinAll
     /\ UNCHANGED ioVars

DecoderNext ==
  \/ \E t \in Threads : DecoderThread(t)
  \/ Main
  \/ SpuriousWakeup /\ UNCHANGED ioVars

DecoderSpec ==
  /\ DecoderInit /\ [][DecoderNext]_decoderVars
  /\ \A t \in Threads : WF_decoderVars(DecoderThread(t))
  /\ WF_decoderVars(Main)

-----------------------------------------------------------------------------
\* The decoder implements OrderedOutput, for the best translations and for
\* the n-best lists.
BestOrdered == INSTANCE OrderedOutput
  WITH NumSentences <- NumTasks, read <- Len(translationId), printed <- best.stream

NBestOrdered == INSTANCE OrderedOutput
  WITH NumSentences <- NumTasks, read <- Len(translationId), printed <- nBest.stream

\* "Makes sure output goes in the correct order when multi-threading": with threads finishing in
\* any order, the best translations come out in the order of the input, and all of them do; so do
\* the n-best lists, which reach their collector later and in another order.
OutputsInOrder == BestOrdered!Spec /\ NBestOrdered!Spec

\* Nothing is lost: when main() is through, every sentence it read has been
\* written, by its id whatever its number is.
NothingLeftUnwritten ==
  client = "done" =>
    \A n \in Jobs : \E i \in DOMAIN best.stream : best.stream[i] = n
=============================================================================
