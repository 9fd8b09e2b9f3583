--------------------------- MODULE OutputCollector ---------------------------
(***************************************************************************)
(* moses/OutputCollector.h: a stream that several threads write to, which  *)
(* puts what they write in the order of its sourceId.  A collector is a    *)
(* record                                                                  *)
(*   nextOutput  m_nextOutput                                              *)
(*   outputs     m_outputs, a set of [id, output] with distinct ids        *)
(*   stream      what has been written to m_outStream, a sequence          *)
(* m_debugs is written in step with m_outputs and is left out.             *)
(***************************************************************************)
EXTENDS Integers, Sequences, FiniteSets

NewCollector == [nextOutput |-> 0, outputs |-> {}, stream |-> <<>>]

SavedIds(collector) == {saved.id : saved \in collector.outputs}

SavedOutput(collector, id) ==
  (CHOOSE saved \in collector.outputs : saved.id = id).output

\* The first id from the one after sourceId on that is not saved.
FirstMissing(collector, sourceId) ==
  CHOOSE id \in sourceId + 1 .. sourceId + 1 + Cardinality(collector.outputs) :
    /\ id \notin SavedIds(collector)
    /\ \A between \in sourceId + 1 .. id - 1 : between \in SavedIds(collector)

\* "This is the one we were expecting": it is written, and what is saved for
\* the ids that follow it.
WriteExpected(collector, sourceId, output) ==
  LET next == FirstMissing(collector, sourceId)
  IN  [nextOutput |-> next,
       outputs |-> {saved \in collector.outputs : saved.id \notin sourceId + 1 .. next - 1},
       stream |-> Append(collector.stream, output)
                    \o [i \in 1 .. next - sourceId - 1 |->
                          SavedOutput(collector, sourceId + i)]]

\* "save for later": replaces what is saved for the same id.
Save(collector, sourceId, output) ==
  [collector EXCEPT
     !.outputs = {saved \in @ : saved.id # sourceId}
                   \cup {[id |-> sourceId, output |-> output]}]

\* Mutant of Write: only the expected output is written.
WriteWithoutFlush(collector, sourceId, output) ==
  IF sourceId = collector.nextOutput
  THEN [collector EXCEPT !.nextOutput = @ + 1, !.stream = Append(@, output)]
  ELSE Save(collector, sourceId, output)

Write(collector, sourceId, output) ==
  IF sourceId = collector.nextOutput
  THEN WriteExpected(collector, sourceId, output)
  ELSE Save(collector, sourceId, output)
=============================================================================
