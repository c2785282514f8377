---------------------------- MODULE MCEventStore ----------------------------
(* Small instances of EventStore for TLC.                                  *)
EXTENDS EventStore

\* Two partitions; an event is its position in the stream.
MCEvent == 1..6
MCPartition == {"odd", "even"}
MCPartitionOf == [e \in MCEvent |-> IF e % 2 = 1 THEN "odd" ELSE "even"]

\* With FlushRows = 1 the capacity is 4 and the threshold 3: the second
\* batch crosses the threshold and the third has to wait for room.
MCInput == <<<<1, 2>>, <<3, 4>>, <<5, 6>>>>

MCWideEvent == 1..7
MCWidePartitionOf == [e \in MCWideEvent |-> IF e % 2 = 1 THEN "odd" ELSE "even"]

\* The second batch exceeds the capacity.
MCWideInput == <<<<1>>, <<2, 3, 4, 5, 6>>, <<7>>>>
=============================================================================
