---------------------------- MODULE MCLockFile ----------------------------
(* LockFile for TLC: two processes, one of which may fork a third.         *)
EXTENDS LockFile

CONSTANTS p1, p2, p3, x, y

MCProc == {p1, p2, p3}
MCFirst == {p1, p2}
MCPath == {x, y}
MCOnePath == {x}
=============================================================================
