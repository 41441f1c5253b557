------------------------------ MODULE MCSources ------------------------------
EXTENDS Sources

Plain(k, ids, n, h) ==
    [kind |-> k, high |-> TRUE, flags |-> {"ONESHOT", "AUTOCLOSE"}, ids |-> ids, bursts |-> {},
     max |-> n, keep |-> 0, harm |-> h]
NoAutoclose(s) == [s EXCEPT !.flags = {"ONESHOT"}]
Bucket(k, ids, bs, n, h) == [Plain(k, ids, n, h) EXCEPT !.bursts = bs]
Keeping(s, n) == [s EXCEPT !.high = FALSE, !.keep = n]

IntMin == -4

(* Three fds, so that a node has two children, two that are closed and       *)
(* registered again, and two sources of the other kinds; with a bucket the timers that follow one another and another       *)
(* source.  The timers of 3 and 11, and a clock and the timer of 9, are the  *)
(* same to an int, and so are the thresholds 3 and 4.  Where events wait,    *)
(* fewer sources and hazards do.                                            *)
AllSetups ==
    {NoAutoclose(Plain("FD", {3, 4, 5}, 3, 0)), Plain("FD", {3, 4}, 3, 0),
     Plain("TMR", {3, 9, 11}, 2, 2), Plain("PID", {3, 4}, 2, 2),
     Plain("TASK", {3, 4}, 2, 2), Plain("THRESH", {3, 4, 6}, 2, 2),
     Bucket("FD", {3}, {0, 1, 2}, 2, 2), Bucket("TMR", {3, 4}, {1}, 3, 0),
     Keeping(Plain("SGN", {3, 4}, 2, 0), 1), Keeping(Plain("SGN", {3}, 1, 2), 2),
     Keeping(Plain("TMR", {3, 4}, 2, 0), 1), Keeping(Plain("TASK", {3}, 2, 1), 1),
     Keeping(Bucket("SGN", {3}, {2}, 2, 1), 1)}

LiveSetups == {Bucket("FD", {3}, {0, 1, 2}, 3, 1), Keeping(Bucket("THRESH", {3}, {1}, 2, 1), 1)}
OneshotSetups == {Plain("TMR", {3, 4}, 2, 2)}
StopSetups == {Plain("FD", {3, 4}, 2, 0)}
==============================================================================
