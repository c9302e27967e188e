---------------------------- MODULE MCSharedData ----------------------------
(* Instances of SharedData for TLC.                                        *)
EXTENDS SharedData

MCTasks    == {"a1", "a2", "b1"}
MCThreads  == {"a", "b"}
MCThreadOf == [t \in MCTasks |-> IF t = "b1" THEN "b" ELSE "a"]
=============================================================================
