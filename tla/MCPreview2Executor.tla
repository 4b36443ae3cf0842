------------------------- MODULE MCPreview2Executor -------------------------
\* Small instances of the Preview 2 executor.
EXTENDS Preview2Executor, TLC

CONSTANTS w1, w2, t1, t2, t3

TwoWaits == {w1, w2}
OneWait == {w1}
TwoTasks == {t1, t2}
ThreeTasks == {t1, t2, t3}
Symmetric == Permutations(Waits) \cup Permutations(Tasks)
=============================================================================
