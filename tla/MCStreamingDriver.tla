-------------------------- MODULE MCStreamingDriver --------------------------
(* Instances of StreamingDriver for TLC: one thread that starts and stops    *)
(* the stream, at most one that sends commands meanwhile, and one or two     *)
(* update threads alive at once.                                             *)
EXTENDS StreamingDriver, TLC

CONSTANTS main, svc, u1, u2

JustMain == {main}
JustSvc == {svc}
OneUpdater == {u1}
TwoUpdaters == {u1, u2}
AllThreads == {main, svc, u1, u2}
NoUpdaterTwin == {main, svc, u1}
Alone == {main, u1}
NoCommands == {main, u1, u2}
Nobody == {}
Symmetry == Permutations(Updater)
=============================================================================
