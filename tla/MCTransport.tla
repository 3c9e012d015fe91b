---------------------------- MODULE MCTransport ----------------------------
(* Bodies of packets for the model checker: with and without a table name, *)
(* raw and compressed, with a block that several frames can share.         *)
EXTENDS Transport

MCBodies == {[plain |-> 1, block |-> 1, compressed |-> FALSE],
             [plain |-> 2, block |-> 1, compressed |-> FALSE],
             [plain |-> 1, block |-> 2, compressed |-> TRUE]}
=============================================================================
