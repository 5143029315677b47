------------------------------ MODULE MCOutbox ------------------------------
(* Instances of Outbox.                                                    *)
EXTENDS Outbox
CONSTANTS ack, event, reading
MCMessages == {ack, event, reading}
MCCritical == {ack, event}
============================================================================
