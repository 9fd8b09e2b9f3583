---------------------------- MODULE MCSearchNormal ----------------------------
EXTENDS SearchNormal

Single == {<<pos, pos>> : pos \in Positions(Size)}

Short == {span \in Spans : span[2] - span[1] < MaxPhraseLength}

Sentence(completed, options, walls, zones) ==
  [completed |-> completed, options |-> options, walls |-> walls, zones |-> zones,
   constraint |-> FinalizeWalls(RawConstraint(Size, walls, zones))]

\* Prefixes of a sentence.
Prefixes == {0 .. n - 1 : n \in 0 .. Size - 1}

\* Unconstrained sentences: any phrases beside the single words, any prefix
\* translated already.
FreeSources ==
  {Sentence(completed, Single \cup phrases, {}, <<>>) :
     completed \in Prefixes, phrases \in SUBSET (Short \ Single)}

\* Walls anywhere; no zone, one, or two of which the tags nest or are apart (the inner one is
\* closed, hence set, first).
ConstrainedSources ==
  {Sentence(completed, Short, walls, zones) :
     completed \in {{}, {0}},
     walls \in SUBSET Positions(Size),
     zones \in {<<>>} \cup {<<z>> : z \in Spans}
                 \cup {<<y, z>> \in Spans \X Spans :
                         y[2] < z[1] \/ (z[1] <= y[1] /\ y[2] <= z[2])}}

AllSources == FreeSources \cup ConstrainedSources
=============================================================================
