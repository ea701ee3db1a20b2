---------------------------- MODULE MCLinkedList ----------------------------
EXTENDS LinkedList
CONSTANTS w1, w2
TwoWriters == {w1, w2}
OneWriter  == {w1}
=============================================================================
