------------------------------- MODULE MCIvc -------------------------------
EXTENDS IvcRefinement, TLC

CONSTANTS a, b

MCMsg == {a, b}

MCOneMsg == {a}

OneSends == {"bpmp"}

MsgSymmetry == Permutations(MCMsg)
=============================================================================
