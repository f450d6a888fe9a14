-------------------------- MODULE MCPosixDeadline ---------------------------
(* Times around the boundaries of the arithmetic, for TLC.                 *)
EXTENDS PosixDeadline

\* Three seconds of a clock, at both sides of every carry.
MCClockTimes ==
    [s : 0..2, n : {0, 999999, 1000000, 499500000, 998999999, 999999999}]

MCTimeouts == {0, 1, 500, 999, 1000, 1001}

MCWaitTimeouts == MCTimeouts \cup {-1, -999, -1000, -1500}
=============================================================================
