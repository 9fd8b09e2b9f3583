----------------------------- MODULE MCExpansion -----------------------------
(***************************************************************************)
(* Hypotheses of a sentence without zones and walls, along the extensions  *)
(* SearchNormal makes, without stacks.  The sentence is so long that the   *)
(* pattern of an ID may fill its 16 bits; to keep the hypotheses few, the  *)
(* phrase table knows either the short phrases of the first words, whose   *)
(* order on the path is kept, or one long phrase, at some place, and each  *)
(* word outside of it.                                                     *)
(***************************************************************************)
EXTENDS Expansion, ReorderingStack

CONSTANTS
  FirstWords, ShortPhrase,   \* how many words the first are, and a short phrase has at most
  LongPhrase                 \* how many words the long phrase has

ASSUME MCExpansionAssumption ==
  /\ FirstWords \in 1 .. Size /\ ShortPhrase \in 1 .. FirstWords
  /\ LongPhrase \in 1 .. Size

VARIABLES source, hypo,
          path     \* the spans of its phrases, where they are short

ShortPhrases == {span \in Spans : span[2] < FirstWords /\ span[2] - span[1] < ShortPhrase}

PhrasesWithLongAt(pos) ==
  LET long == pos .. pos + LongPhrase - 1
  IN  {<<pos, pos + LongPhrase - 1>>} \cup {<<word, word>> : word \in Positions(Size) \ long}

\* The spans that have translation options.
Phrasings == {ShortPhrases} \cup {PhrasesWithLongAt(pos) : pos \in 0 .. Size - LongPhrase}

Init ==
  /\ source \in {[completed |-> {}, options |-> phrases,
                  constraint |-> FinalizeWalls(RawConstraint(Size, {}, <<>>))] :
                   phrases \in Phrasings}
  /\ hypo = InitialHypothesis({})
  /\ path = <<>>

Next ==
  /\ hypo' \in Extensions(source, hypo)
  /\ path' = IF source.options = ShortPhrases THEN Append(path, hypo'.last) ELSE path
  /\ UNCHANGED source

Spec == Init /\ [][Next]_<<source, hypo, path>>

-----------------------------------------------------------------------------
\* The coverages that phrases of a sentence may make and that have an ID, with that ID.
IDs ==
  [phrases \in Phrasings |->
     LET coverages == {UNION {span[1] .. span[2] : span \in spans} : spans \in SUBSET phrases}
     IN  [cov \in {c \in coverages : IDCheck(IDStart(Size, c), IDEnd(c))} |-> GetID(Size, cov)]]

\* The span fills the first gap, and the word behind it is covered already.
FillsUpTo(span) == span[1] = FirstGap(hypo) /\ span[2] + 1 \in hypo.cov

\* GetID keys the diversity counters of a stack (m_diversityWorstScore, diversityCount in
\* PruneToSize), and early discarding looks for those of an extension under GetIDPlus.  With a
\* distortion limit of up to 17 words no coverage and no extension of the search fails the CHECK of the
\* two, and no other coverage of the sentence has the same ID.  GetIDPlus is the ID of the extension,
\* unless the span FillsUpTo covered words; in the stack of the extension no other coverage has it.
IDsTellApart ==
  LET ids == IDs[source.options] IN
  /\ IDCheck(IDStart(Size, hypo.cov), IDEnd(hypo.cov))
  /\ LET id == GetID(Size, hypo.cov) IN \A other \in DOMAIN ids : ids[other] = id => other = hypo.cov
  /\ \A extension \in Extensions(source, hypo) :
       LET span   == extension.last
           idPlus == GetIDPlus(Size, hypo.cov, span[1], span[2])
       IN  /\ IDCheck(IDPlusStart(Size, hypo.cov, span[1], span[2]), IDPlusEnd(hypo.cov, span[2]))
           /\ \/ idPlus = GetID(Size, extension.cov)
              \/ /\ FillsUpTo(span)
                 /\ \A other \in DOMAIN ids :
                      ids[other] = idPlus =>
                        GetNumWordsCovered(other) # GetNumWordsCovered(extension.cov)

\* The phrases from one to another, as they follow each other on the path, are a block if they can
\* be put together two by two, each time two blocks whose spans adjoin; Block gives its span.
Blocks ==
  LET spans[i \in DOMAIN path, j \in DOMAIN path] ==
        IF i > j THEN {} ELSE IF i = j THEN {path[i]}
        ELSE {Merged(a, b) : <<a, b>> \in
                {<<a, b>> \in UNION {spans[i, k] \X spans[k + 1, j] : k \in i .. j - 1} :
                   Mono(a, b) \/ Swap(a, b)}}
  IN  spans

\* The stack, which merges as soon as it can and looks at its top only, misses no block: on top is
\* the longest that ends the path, below it the longest that ends what is left, and a phrase is
\* monotone if any block that ends the path is right before it, a swap if one is right behind it.
OrientationFollowsBlocks ==
  LET blocks == Blocks
      stack  == StackBehind(path)
      longest[n \in 0 .. Len(path)] ==
        IF n = 0 THEN <<>>
        ELSE LET first == CHOOSE i \in 1 .. n :
                            blocks[i, n] # {} /\ \A k \in 1 .. i - 1 : blocks[k, n] = {}
             IN  Append(longest[first - 1], CHOOSE span \in blocks[first, n] : TRUE)
      ends == UNION {blocks[i, Len(path)] : i \in DOMAIN path}
  IN  /\ stack = longest[Len(path)]
      /\ \A span \in {e.last : e \in Extensions(source, hypo)} :
           path # <<>> =>
             LET type == GetOrientationType("MSLR", ReoDistance(stack, span))
             IN  /\ type = "M" <=> \E block \in ends : Mono(block, span)
                 /\ type = "S" <=> \E block \in ends : Swap(block, span)
                 /\ type \in {"M", "DR"} <=> span[1] > path[Len(path)][1]
=============================================================================
