---------------------------- MODULE MCChartDecoder ----------------------------
EXTENDS ChartDecoder

CONSTANTS t1, t2, t3

ThreeThreads == {t1, t2, t3}

\* Plain input, without <seg id=...>.
NoSegIds == [n \in 1 .. NumTasks |-> 0]
=============================================================================
