---------------------------- MODULE MCGcPipeline ----------------------------
(* gc with its seven stages and delete_garbage with its three, with pools of *)
(* two.                                                                      *)
EXTENDS GcPipeline

Commands == {"gc", "delete_garbage"}

Gcs == [kind |-> <<"list", "parse", "count", "filter", "count", "clone", "delete">>,
        task |-> <<1, 1, 2, 3, 4, 5, 6>>,
        stage |-> [l |-> 1, p |-> 2, n |-> 3, f |-> 4, m |-> 5,
                   c1 |-> 6, c2 |-> 6, d1 |-> 7, d2 |-> 7],
        share |-> [w \in {"l"} |-> Object],
        capacity |-> [s \in 1..7 |-> 1],
        source |-> "blobs"]

DeleteGarbages == [kind |-> <<"list", "count", "delete">>,
                   task |-> <<1, 2, 3>>,
                   stage |-> [l |-> 1, n |-> 2, d1 |-> 3, d2 |-> 3],
                   share |-> [w \in {"l"} |-> Object],
                   capacity |-> <<1, 0, 0>>,
                   source |-> "garbage"]

Pipelines == [c \in Commands |-> IF c = "gc" THEN Gcs ELSE DeleteGarbages]
=============================================================================
