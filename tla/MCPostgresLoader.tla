----------------------------- MODULE MCPostgresLoader -----------------------------
(* The export of 1999 and those of the first two months of 2000.  Months have *)
(* two days.  A record of January's is dated in February; the second export   *)
(* of January repeats a record of the first; the shard of 1999 is empty.      *)
EXTENDS PostgresLoader

Y2K == 2 * 12 * 2000
MCPeriod ==
    [old |-> [year |-> 1999, part |-> "year", n |-> 1],
     jan |-> [year |-> 2000, part |-> "month", n |-> 1],
     again |-> [year |-> 2000, part |-> "month", n |-> 1]]
MCPathOf == [s1 |-> "jan", s2 |-> "jan", s3 |-> "again", s4 |-> "old"]
MCRows == [s1 |-> {"a", "b", "c"}, s2 |-> {"d"}, s3 |-> {"c", "e"}, s4 |-> {}]
MCDay == [a |-> Y2K, b |-> Y2K + 1, c |-> Y2K + 2, d |-> Y2K + 1, e |-> Y2K]
MCBucket == [a |-> "x", b |-> "y", c |-> "x", d |-> "y", e |-> "y"]
===============================================================================
