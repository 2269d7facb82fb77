--------------------------- MODULE MCDiagnostics ---------------------------
(* A set-up of one stage for the model checker.  One operation that fails  *)
(* has a stage of its own, the other is blamed on that of the session.     *)
EXTENDS Diagnostics

MCSetUp == <<"mqtt_connect">>
MCMishaps == {"mqtt_read", "mqtt_connect"}
=============================================================================
