------------------------------- MODULE MCNewForest -------------------------------
EXTENDS NewForest
Presses == {<<1, 1>>, <<7, 7>>, <<7, 1>>, <<-5, 7>>, <<0, 9>>}
\* Halves: -1, 0, 0.5, 1, 1.5, 2 and 3.
Halves == {-2, 0, 1, 2, 3, 4, 6}
================================================================================
