---------------------------- MODULE MCCleanup ----------------------------
(* Small instances of Cleanup for TLC: a .path unit, the service it        *)
(* starts, and one directory.                                              *)
EXTENDS Cleanup, TLC

CONSTANTS path, restore, programs, r1, r2

OneTrigger == <<path>>
OneService == <<restore>>
PathStartsRestore == path :> restore
OneItem == <<programs>>
=============================================================================
