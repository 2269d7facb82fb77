-------------------------- MODULE MCEntityTakeover --------------------------
(* Instances of EntityTakeover. *)
EXTENDS EntityTakeover

CONSTANTS r1, r2

\* The value of one resource comes and goes.
OneMayVanish == {{r1}, {r1, r2}}
=============================================================================
