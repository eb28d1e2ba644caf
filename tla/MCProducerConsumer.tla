------------------------- MODULE MCProducerConsumer -------------------------
(* Instances of ProducerConsumer for TLC. *)
EXTENDS ProducerConsumer, TLC

ThreadSymmetry == Permutations(Producers) \cup Permutations(Consumers)
=============================================================================
