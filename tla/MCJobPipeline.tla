--------------------------- MODULE MCJobPipeline ---------------------------
(* Instances of JobPipeline for TLC: the pool of workers the runs use.       *)
EXTENDS JobPipeline

CONSTANTS b1, s1, p1

OneOfEach == [w \in {b1, s1, p1} |-> IF w = b1 THEN "build" ELSE IF w = s1 THEN "seal" ELSE "publish"]
=============================================================================
