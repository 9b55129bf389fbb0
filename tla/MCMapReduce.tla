---------------------------- MODULE MCMapReduce ----------------------------
(* Instances of MapReduce for TLC.                                        *)
EXTENDS MapReduce

CONSTANTS w1, w2, w3

\* One worker for ever and two that go offline, after one and two calls.
Mixed == [w \in Workers |-> IF w = w1 THEN -1 ELSE IF w = w2 THEN 1 ELSE 2]

\* No worker goes offline by itself.
Unlimited == [w \in Workers |-> -1]
=============================================================================
