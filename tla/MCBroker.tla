------------------------------ MODULE MCBroker ------------------------------
EXTENDS Broker
=============================================================================
