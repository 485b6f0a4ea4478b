----------------------- MODULE MCWirekeeperConnection -----------------------
(* Instances of WirekeeperConnection for TLC.                              *)
EXTENDS WirekeeperConnectionFeed, TLC

\* Consumers are interchangeable.
ConsumerSymmetry == Permutations(Consumers)

=============================================================================
