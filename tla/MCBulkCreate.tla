---------------------------- MODULE MCBulkCreate ----------------------------
(* BulkCreate for TLC: a list with a blank and a repeated entry, longer than *)
(* the semaphore is wide, and a short one that overlaps with it.             *)
EXTENDS BulkCreate
CONSTANTS b1, b2, f1, f2

MCRawLists == [b \in Posts |->
  IF b = b1 THEN {<<f1, Blank, f2, f1>>} ELSE {<<f2>>, <<Blank>>}]
=============================================================================
