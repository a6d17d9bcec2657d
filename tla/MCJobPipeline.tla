---------------------------- MODULE MCJobPipeline ----------------------------
(* Finite instances of JobPipeline for TLC. *)
EXTENDS JobSafety, TLC

CONSTANTS j1, c1, g1, r1, r2

Sentiment == {"sentiment_analysis"}
AllOutcomes == {"sentiment_analysis", "prime_count", "embeddings", "translation"}
Transient == {"transient"}
Everything == Consumers
ReducersAlike == Permutations({r1, r2})
=============================================================================
