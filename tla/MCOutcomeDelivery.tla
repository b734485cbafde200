-------------------------- MODULE MCOutcomeDelivery --------------------------
(* Instances of OutcomeDelivery for TLC.  Two records share the parent:    *)
(* one is resumed and sends updates, the other is only run and stopped.    *)
EXTENDS OutcomeDelivery

=============================================================================
