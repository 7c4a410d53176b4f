---------------------------- MODULE MCTestRunner ----------------------------
(* Two workers, two suites, a suite to be skipped and an example; the output *)
(* of one suite may not decode.                                              *)
EXTENDS TestRunner

CONSTANTS w1, w2

MCWorker == {w1, w2}
MCExample == {4}
MCSkip == {2}
MCGarbled == {3}
=============================================================================
