----------------------------- MODULE MCStreamChain -----------------------------
(***************************************************************************)
(* The shapes of chain that lm/builder uses: a file or a stream of n-grams *)
(* as source, a worker that shortens blocks, and the two ways to recycle.  *)
(***************************************************************************)
EXTENDS StreamChain

MCChains == {<<"Read", "Collapse", "Write", "Recycler">>, <<"Read", "WriteAndRecycle">>,
             <<"Stream", "Collapse", "WriteAndRecycle">>}
MCRounds == <<11, 0, 9>>
MCDropped == {1, 4, 5, 6, 9}
=============================================================================
