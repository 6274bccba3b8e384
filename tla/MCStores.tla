------------------------------ MODULE MCStores ------------------------------
(* Two tickets, one of them with a row of another project too, and the crowds on    *)
(* which TLC runs Stores: processes that open their stores while the scripts run or *)
(* beside each other, the daemon against the backfill, and against the import.      *)
EXTENDS Stores

Rows == {"A", "A elsewhere", "B"}
Names == [t \in Rows |-> IF t = "B" THEN "B" ELSE "A"]

Some ==
    {{"status", "import", "backfill"}, {"bench", "import", "backfill"}, {"status", "bench"},
     {"runs", "backfill"}, {"runs", "import"}}
=============================================================================
