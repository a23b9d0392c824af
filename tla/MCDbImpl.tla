------------------------------ MODULE MCDbImpl ------------------------------
(* Small instances of DbImpl for TLC.                                      *)
EXTENDS DbImpl

MCKeys == {1, 2}

(* One update, and two updates that together exceed SmallBatch when two    *)
(* such batches meet.                                                      *)
MCBatches == {<<1>>, <<2, 1>>}
MCOneBatch == {<<1, 2>>}
=============================================================================
