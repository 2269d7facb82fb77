----------------------------- MODULE MCHandover -----------------------------
(* Small instances of Handover for TLC: one or two gateways, one or two    *)
(* sets of options and HTTP threads.                                       *)
EXTENDS HandoverInvariants

CONSTANTS b1, b2, h1, h2, t1, t2

\* One set of options per gateway.
OneGateway == [b \in Bindings |-> h1]
TwoGateways == [b \in Bindings |-> IF b = b1 THEN h1 ELSE h2]

\* The legacy publisher in any state, or running and starting at boot.
AnyState == SUBSET {"active", "enabled"}
InService == {{"active", "enabled"}}

\* Any command that changes a unit may fail; `disable gardena-local.service`
\* does not.
Commands == {"stop", "disable", "enable", "start"} \X Units
AllButDisableRuntime == Commands \ {<<"disable", "runtime">>}

\* The check of the publisher may be blind as well, that of the service not.
BlindToPublisher == AllButDisableRuntime \cup {<<"verify", "legacy">>}

\* No answer of systemctl can be relied on, and the publisher's unit file may
\* not be found; stopping the service is what works.
BlindToBoth ==
    (Verbs \X Units) \ {<<"stop", "runtime">>, <<"disable", "runtime">>}
=============================================================================
