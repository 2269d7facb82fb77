---------------------------- MODULE MCWorkerLoop ----------------------------
(***************************************************************************)
(* One round of every length between a moment and the longest that still   *)
(* satisfies TimesAssumption: a select, a packet and a poll period of one  *)
(* unit each, and a broker as impatient as they allow.  Both activities    *)
(* have a name: one without is shown as nothing at all.  How packets are   *)
(* cut out of the stream is in MCFraming.                                  *)
(***************************************************************************)
EXTENDS WorkerLoop, MCFraming

CONSTANTS docked, mowing

MCActivities == {docked, mowing}
=============================================================================
