---------------------------- MODULE MCScanTrigger ----------------------------
(* Model-checking instances of ScanTrigger. *)
EXTENDS ScanTrigger, TLC

CONSTANTS aurora, redis, id

(* A deployment that changed both the cron expression and the types, and   *)
(* one whose configuration lists no resource at all.                       *)
Old == [cron |-> "daily", types |-> {aurora}]
New == [cron |-> "hourly", types |-> {aurora, redis}]
Empty == [cron |-> "daily", types |-> {}]
Deployed == {Old, New, Empty}

Request(scanID, types, body) == [scanID |-> scanID, types |-> types, body |-> body]
(* A body of unknown length is decoded like none, and nothing is claimed   *)
(* of what it starts, so the run leaves it out.                            *)
Asked == {Request(None, {}, "none"), Request(id, {redis}, "sized"),
          Request(None, {aurora}, "malformed"), Request(id, {aurora}, "flags"),
          Request(None, {}, "flags")}

Symmetry == Permutations(Replicas)
=============================================================================
