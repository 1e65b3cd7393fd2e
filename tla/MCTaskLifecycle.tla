-------------------------- MODULE MCTaskLifecycle --------------------------
(* Two tasks and two types: a session that is the first of all, of its     *)
(* task only, or neither; two channels: for one type, or for two.          *)
EXTENDS TaskLifecycle, TLC

CONSTANTS t1, t2, y1, y2, c1, c2

MCTasks == {t1, t2}
MCTypes == {y1, y2}
MCChannels == {c1, c2}
=============================================================================
