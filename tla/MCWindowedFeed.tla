---------------------------- MODULE MCWindowedFeed ----------------------------
(***************************************************************************)
(* Instances of WindowedFeed for TLC.                                      *)
(***************************************************************************)
EXTENDS WindowedFeed

CONSTANTS w1, w2, w3

MCColumns == <<"id", "amount", "ts">>

MCRows == [id : {w1}, amount : {1, Null, Fraction}, ts : {1, 3}]
            \cup [id : {w2}, amount : {Fraction, 0}, ts : {2}]

AllKinds == {"insert", "update", "delete"}
AllFeeds ==
    {[format |-> "debezium", changes |-> AllKinds],
     [format |-> "json_object", changes |-> AllKinds],
     [format |-> "json_array", changes |-> AllKinds],
     [format |-> "pgoutput", changes |-> {"insert", "delete"}]}
PgOutputUpdates == {[format |-> "pgoutput", changes |-> AllKinds]}

MCOther == {[id |-> w3, amount |-> 1, ts |-> 1]}
=============================================================================
