---------------------------- MODULE PartitionSpec ----------------------------
(***************************************************************************)
(* What meshopt_partitionClusters (src/partition.cpp) promises its         *)
(* callers: every cluster gets the number of a partition, the numbers have *)
(* no holes, and a partition is at most a third larger than the target     *)
(* size (src/meshoptimizer.h, src/demo/clusterlod.h).  Partitioner is      *)
(* checked against it, and ClusterLod relies on it.                        *)
(***************************************************************************)
EXTENDS Integers, FiniteSets

MaxSize(target) == target + (target \div 3)

IsPartition(part, count, target) ==
  /\ DOMAIN part = 1..count
  /\ \E n \in 0..count : {part[c] : c \in 1..count} = 1..n
  /\ \A p \in {part[c] : c \in 1..count} : Cardinality({c \in 1..count : part[c] = p}) <= MaxSize(target)
=============================================================================
