------------------------------- MODULE MCPoll -------------------------------
EXTENDS Poll
CONSTANTS p1, p2, u1, u2
TwoPollers == {p1, p2}
TwoUsers   == {u1, u2}
=============================================================================
