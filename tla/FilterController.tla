--------------------------- MODULE FilterController ---------------------------
(***************************************************************************)
(* The threaded n-gram filter: lm::Controller with its filter workers and  *)
(* its output worker (lm/filter/thread.hh), on two util::ThreadPools       *)
(* (util/thread_pool.hh) and three PCQueues, fed by the readers of ARPA    *)
(* and raw count files (arpa_io.hh, count_io.hh).  Batches travel from the *)
(* reader to a filter worker, to the output worker and back.  A queue is a *)
(* bounded FIFO in which a call takes effect at once, as PCQueue shows.    *)
(***************************************************************************)
EXTENDS Integers, Sequences, SequencesExt, FiniteSets

CONSTANTS Workers,      \* the threads of the filter pool
          Queue,        \* batches, and capacity of each queue
          BatchSize,
          Inputs,       \* files to filter: for each line what it is, an n-gram or the end of
                        \* a section; a raw count file has n-grams only
          Passes        \* the n-grams that pass the filter, by the numbers of their lines

ASSUME PoolAssumption == IsFiniteSet(Workers) /\ Workers # {}
ASSUME QueueAssumption == Queue = 2 * Cardinality(Workers)      \* filter_main.cc
ASSUME BatchSizeAssumption == BatchSize \in Nat \ {0}
ASSUME InputsAssumption == Inputs \subseteq Seq({"ngram", "end"})

VARIABLES in, read,         \* the file, and how many of its lines have been read
          main,             \* where the reading thread is
          batches, sequence_,
          local_read_,      \* the stack of free batches of the reader; its top is filled
          to_read_,         \* queue of batches on their way back to the reader
          filter_, output_, \* the queues of the two pools
          hand,             \* hand[w]: the batch of filter worker w, or where it is
          writer,           \* whether the output worker still runs
          ordering_, base_sequence_,
          poisons,          \* poison requests the destructor has produced for the filter pool
          written           \* what the output has got

reader == <<in, read, main, sequence_, local_read_, poisons>>
vars == <<reader, batches, to_read_, filter_, output_, hand, writer, ordering_, base_sequence_,
          written>>

Batches == 1..Queue
NULL == 0               \* no batch; the poison of both pools
GONE == -1              \* the hand of a worker that has left

\* A batch's buffers keep their lines until Fill and Flush clear them.
EmptyBatch == [input |-> <<>>, output |-> <<>>, sequence |-> 0]

Full(queue) == Len(queue) = Queue

\* Fill: the free batch b becomes the input, with the next sequence number.
Fill(b) ==
    /\ batches' = [batches EXCEPT ![b].input = <<>>, ![b].sequence = sequence_]
    /\ sequence_' = sequence_ + 1

-----------------------------------------------------------------------------

\* The constructor starts the pools, and fills the batch on top of the stack.
Init ==
    /\ in \in Inputs
    /\ read = 0 /\ main = "reading"
    /\ batches = [b \in Batches |-> EmptyBatch] /\ sequence_ = 1
    /\ local_read_ = [i \in Batches |-> i]
    /\ to_read_ = <<>> /\ filter_ = <<>> /\ output_ = <<>>
    /\ hand = [w \in Workers |-> NULL]
    /\ writer = "running" /\ ordering_ = <<>> /\ base_sequence_ = 0
    /\ poisons = 0 /\ written = <<>>

\* ReadNGrams: the n-grams of a section, then its end.
NextLineIs(kind) == read < Len(in) /\ in[read + 1] = kind

\* Mutant of FlushInput: the batch stays with the reader.
FlushInputKept(b) ==
    /\ ~Full(filter_)
    /\ filter_' = Append(filter_, b)
    /\ UNCHANGED local_read_

\* FlushInput: the batch b is handed to the filter pool.  The rest, waiting for a free
\* batch if there is none, is done by MoveRead.
FlushInput(b) ==
    /\ ~Full(filter_)
    /\ filter_' = Append(filter_, b)
    /\ local_read_' = Front(local_read_)

\* ReadNGrams, ReadCount: one more line, with Controller::AddNGram.
AddNGram ==
    LET b == Last(local_read_)
        filled == Append(batches[b].input, read + 1)
    IN
    /\ main = "reading" /\ NextLineIs("ngram")
    /\ read' = read + 1
    /\ batches' = [batches EXCEPT ![b].input = filled]
    /\ \/ Len(filled) # BatchSize /\ UNCHANGED <<main, filter_, local_read_>>
       \/ Len(filled) = BatchSize /\ FlushInput(b) /\ main' = "renewing"
    /\ UNCHANGED <<in, sequence_, to_read_, output_, hand, writer, ordering_, base_sequence_,
                   poisons, written>>

\* DispatchARPAInput::EndLength calls Flush, which hands over what has been read.
BeginFlush ==
    LET b == Last(local_read_) IN
    /\ main = "reading" /\ NextLineIs("end")
    /\ main' = "flushing"
    /\ \/ batches[b].input = <<>> /\ UNCHANGED <<filter_, local_read_>>
       \/ batches[b].input # <<>> /\ FlushInput(b)
    /\ UNCHANGED <<in, read, batches, sequence_, to_read_, output_, hand, writer,
                   ordering_, base_sequence_, poisons, written>>

Short == \/ main = "renewing" /\ local_read_ = <<>>
         \/ main = "flushing" /\ Len(local_read_) < Queue

\* MoveRead: wait for a batch that the output worker has returned.
MoveRead ==
    /\ Short
    /\ to_read_ # <<>>
    /\ local_read_' = Append(local_read_, Head(to_read_))
    /\ to_read_' = Tail(to_read_)
    /\ UNCHANGED <<in, read, main, batches, sequence_, filter_, output_, hand, writer,
                   ordering_, base_sequence_, poisons, written>>

\* NewInput, which ends AddNGram and Flush; behind Flush, EndLength ends the section.
NewInput ==
    /\ main \in {"renewing", "flushing"} /\ ~Short
    /\ Fill(Last(local_read_))
    /\ main' = "reading"
    /\ \/ main = "renewing" /\ UNCHANGED <<read, written>>
       \/ main = "flushing" /\ read' = read + 1 /\ written' = Append(written, read + 1)
    /\ UNCHANGED <<in, local_read_, to_read_, filter_, output_, hand, writer, ordering_,
                   base_sequence_, poisons>>

\* The file has been read: the reader goes on to ~Controller.
EndOfFile ==
    /\ main = "reading" /\ read = Len(in)
    /\ main' = "closing"
    /\ UNCHANGED <<in, read, sequence_, local_read_, poisons, batches, to_read_, filter_,
                   output_, hand, writer, ordering_, base_sequence_, written>>

\* ~ThreadPool of the filter pool, the member destroyed first: one poison for each worker.
PoisonFilter ==
    /\ main = "closing" /\ poisons < Cardinality(Workers) /\ ~Full(filter_)
    /\ filter_' = Append(filter_, NULL)
    /\ poisons' = poisons + 1
    /\ UNCHANGED <<in, read, main, sequence_, local_read_, batches, to_read_, output_,
                   hand, writer, ordering_, base_sequence_, written>>

\* The filter workers are joined, and ~ThreadPool of the output pool poisons its one worker.
PoisonOutput ==
    /\ main = "closing" /\ poisons = Cardinality(Workers) /\ ~Full(output_)
    /\ \A w \in Workers : hand[w] = GONE
    /\ output_' = Append(output_, NULL)
    /\ main' = "joining"
    /\ UNCHANGED <<in, read, sequence_, local_read_, poisons, batches, to_read_, filter_,
                   hand, writer, ordering_, base_sequence_, written>>

\* The output worker is joined, and the queues and batches are destroyed.
Destroyed ==
    /\ main = "joining" /\ writer = "gone"
    /\ main' = "destroyed"
    /\ UNCHANGED <<in, read, sequence_, local_read_, poisons, batches, to_read_, filter_,
                   output_, hand, writer, ordering_, base_sequence_, written>>

Reader == AddNGram \/ BeginFlush \/ MoveRead \/ NewInput \/ EndOfFile
            \/ PoisonFilter \/ PoisonOutput \/ Destroyed
-----------------------------------------------------------------------------

\* Worker::operator() of the filter pool: consume a request, and leave if it is the poison.
Take(w) ==
    /\ hand[w] = NULL
    /\ filter_ # <<>>
    /\ filter_' = Tail(filter_)
    /\ hand' = [hand EXCEPT ![w] = IF Head(filter_) = NULL THEN GONE ELSE Head(filter_)]
    /\ UNCHANGED <<reader, batches, to_read_, output_, writer, ordering_, base_sequence_, written>>

\* Those of the lines that are in keep, in their order.
Selected(lines, keep) ==
    LET select[n \in 0..Len(lines)] ==
            IF n = 0 THEN <<>>
            ELSE IF lines[n] \in keep THEN Append(select[n - 1], lines[n])
            ELSE select[n - 1]
    IN  select[Len(lines)]

\* FilterWorker::operator(): filter the lines of the batch, and pass it on.
Filter(w) ==
    /\ hand[w] \in Batches /\ ~Full(output_)
    /\ batches' = [batches EXCEPT ![hand[w]].output =
                        @ \o Selected(batches[hand[w]].input, Passes)]
    /\ output_' = Append(output_, hand[w])
    /\ hand' = [hand EXCEPT ![w] = NULL]
    /\ UNCHANGED <<reader, to_read_, filter_, writer, ordering_, base_sequence_, written>>

FrontReady == ordering_ # <<>> /\ Head(ordering_) # NULL

\* Mutant of Arrange: batches are written as they come.
ArrangeAsTheyCome ==
    LET b == Head(output_) IN
    /\ writer = "running" /\ output_ # <<>> /\ b # NULL /\ ~FrontReady
    /\ output_' = Tail(output_)
    /\ ordering_' = Append(ordering_, b)
    /\ UNCHANGED <<reader, batches, to_read_, filter_, hand, writer, base_sequence_, written>>

\* OutputWorker::operator(): put the batch at its place behind base_sequence_ ...
Arrange ==
    LET b == Head(output_)
        pos == batches[b].sequence - base_sequence_ + 1
    IN
    /\ writer = "running" /\ output_ # <<>> /\ b # NULL /\ ~FrontReady
    /\ output_' = Tail(output_)
    /\ ordering_' = [i \in 1..(IF pos > Len(ordering_) THEN pos ELSE Len(ordering_)) |->
                        IF i = pos THEN b ELSE IF i <= Len(ordering_) THEN ordering_[i] ELSE NULL]
    /\ UNCHANGED <<reader, batches, to_read_, filter_, hand, writer, base_sequence_, written>>

\* Mutant of WriteFront: base_sequence_ does not follow.
WriteFrontSameBase ==
    LET b == Head(ordering_) IN
    /\ FrontReady /\ ~Full(to_read_)
    /\ written' = written \o batches[b].output
    /\ batches' = [batches EXCEPT ![b].output = <<>>]
    /\ to_read_' = Append(to_read_, b)
    /\ ordering_' = Tail(ordering_)
    /\ UNCHANGED <<reader, filter_, output_, hand, writer, base_sequence_>>

\* ... and write and return the batches whose turn it is, one after the other.
WriteFront ==
    LET b == Head(ordering_) IN
    /\ FrontReady /\ ~Full(to_read_)
    /\ written' = written \o batches[b].output
    /\ batches' = [batches EXCEPT ![b].output = <<>>]
    /\ to_read_' = Append(to_read_, b)
    /\ ordering_' = Tail(ordering_)
    /\ base_sequence_' = base_sequence_ + 1
    /\ UNCHANGED <<reader, filter_, output_, hand, writer>>

\* The poison ends the output worker.
WriterLeaves ==
    /\ writer = "running" /\ output_ # <<>> /\ Head(output_) = NULL /\ ~FrontReady
    /\ output_' = Tail(output_)
    /\ writer' = "gone"
    /\ UNCHANGED <<reader, batches, to_read_, filter_, hand, ordering_, base_sequence_, written>>

Writer == Arrange \/ WriteFront \/ WriterLeaves

Next == Reader \/ Writer \/ \E w \in Workers : Take(w) \/ Filter(w)

Spec ==
    /\ Init /\ [][Next]_vars
    /\ WF_vars(Reader) /\ WF_vars(Writer)
    /\ \A w \in Workers : WF_vars(Take(w) \/ Filter(w))

-----------------------------------------------------------------------------

\* What a filter on one thread writes: the n-grams that pass and the ends of the sections.
ToWrite == {i \in 1..Len(in) : in[i] = "end" \/ i \in Passes}
Expected == Selected([i \in 1..Len(in) |-> i], ToWrite)

\* However the filter workers overtake each other, the output is that of one thread: no line is
\* lost, repeated or out of order, and a section ends behind all of its lines.
WrittenInOrder == IsPrefix(written, Expected)

Occurrences(queue, b) == Cardinality({i \in DOMAIN queue : queue[i] = b})

\* A batch is in one place only, so that no two threads use its buffers at once.
BatchInOnePlace ==
    \A b \in Batches :
        Occurrences(local_read_, b) + Occurrences(filter_, b) + Occurrences(hand, b)
          + Occurrences(output_, b) + Occurrences(ordering_, b) + Occurrences(to_read_, b) = 1

\* The filter ends, and has written everything by then.
EverythingWritten == <>(main = "destroyed" /\ written = Expected)
=============================================================================
