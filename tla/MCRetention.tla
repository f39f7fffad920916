------------------------------ MODULE MCRetention ------------------------------
(* Two streams: buckets 1 and 2 belong to the first, bucket 3 to the second. *)
EXTENDS Retention

MCStreamOf == [b \in Bucket |-> IF b = 3 THEN "s2" ELSE "s1"]
MCDateCreate == [b \in Bucket |-> IF b = 2 THEN 1 ELSE 0]
MCStorageDays == [s \in Stream |-> 1]
=============================================================================
