---------------------------- MODULE MCSequencer ----------------------------
\* Three commits to be picked in a row, one of them and another to be picked between.
EXTENDS Sequencer

CONSTANTS c1, c2, c3, x

MCLists == {<<c1, c2, c3>>}
=============================================================================
