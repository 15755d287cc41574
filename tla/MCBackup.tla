----------------------------- MODULE MCBackup ------------------------------
(* Instances of Backup for TLC.                                            *)
EXTENDS BackupRefinement

(* The same backup is asked for: as it should be, with the key of another   *)
(* machine than the destination, and for two destinations.                  *)
Ask(tees, key) == [tees |-> tees, id |-> "b1", key |-> key, source |-> "t2",
                   action |-> "a1"]
MCAsked == {Ask(<<"t1">>, "t1"), Ask(<<"t1">>, "t2"), Ask(<<"t1", "t2">>, "t1")}
=============================================================================
