---------------------------- MODULE MCRemoteMem ----------------------------
(* Instances of RemoteMem for TLC.                                         *)
EXTENDS RemoteMem

\* Every call but trim_bulk_rmem, which spoils the pointer it is given.
NoTrim == AllCalls \ {"trim"}

\* The calls that stay correct when packets are lost or overtake each other.
WithoutBulkWrite == AllCalls \ {"writeBulk"}

\* Clients are interchangeable.
Symmetry == Permutations(Client)

BulkOnly == {"allocBulk", "writeBulk", "readBulk"}
=============================================================================
