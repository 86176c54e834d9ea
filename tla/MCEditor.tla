-------------------------------- MODULE MCEditor --------------------------------
EXTENDS EditorPages
InsideAndBorder == {<<1, 1>>, <<2, 1>>}
================================================================================
