------------------------------- MODULE MCOperator -------------------------------
EXTENDS OperatorPages
OneOfEach == {<<"fireBrigade", 1>>, <<"foresterPatrol", 1>>}
================================================================================
