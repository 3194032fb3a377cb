---------------------------- MODULE MCLoginPipeline ----------------------------
(* Instances of LoginPipeline for TLC.                                      *)
EXTENDS LoginPipeline, Integers

CONSTANTS c1, c2, t1, t2
=============================================================================
