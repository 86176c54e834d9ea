------------------------------- MODULE MCEngine -------------------------------
EXTENDS ShownForest, TLC
Row2 == {<<0, 0>>, <<0, 1>>}
Row3 == {<<0, 0>>, <<0, 1>>, <<0, 2>>}
NoSectors == {}
Corner == {<<0, 0>>}
CrewSymmetry == Permutations(Brigades)
==============================================================================
