---------------------------- MODULE MCFsWatcher ----------------------------
(* The settings for TLC: two files that are only changed; one file that is  *)
(* deleted and comes back, watched for good or unwatched at times; and one  *)
(* that is changed, or deleted too, next to the stale file check.           *)
EXTENDS FsWatcher

CONSTANTS f1, f2

Around(files, delete, drop, clean, n) ==
    [files |-> files, mayDelete |-> delete, mayDrop |-> drop,
     cleaner |-> clean, maxVer |-> n]

MCSetting ==
    {Around({f1, f2}, FALSE, TRUE, FALSE, 2), Around({f1}, TRUE, FALSE, FALSE, 3),
     Around({f1}, TRUE, TRUE, FALSE, 3), Around({f1}, FALSE, TRUE, TRUE, 2),
     Around({f1}, TRUE, TRUE, TRUE, 3)}

=============================================================================
