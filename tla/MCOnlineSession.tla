---------------------------- MODULE MCOnlineSession ----------------------------
EXTENDS OnlineSession

\* Phrase pairs: p, q and r, and a source word that is dropped.
CONSTANTS p, q, r, dropped

SomePairs == {p, q, r, dropped}

Path(pairs, bleu, score) == [pairs |-> pairs, bleu |-> bleu, score |-> score]

\* The best hypothesis and two more paths, of lower scores.
SomeNBestLists ==
  {<<Path({p, dropped}, bestBleu, 3), Path(second, secondBleu, 2), Path(third, thirdBleu, 0)>> :
     bestBleu \in {1}, secondBleu \in 0 .. 3, thirdBleu \in 0 .. 3,
     second \in {{q}, {q, dropped}, {p, q}}, third \in {{q, r}, {p, r}, {r}}}
=============================================================================
