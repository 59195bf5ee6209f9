--------------------------- MODULE MCRedisBroker ---------------------------
EXTENDS RedisBroker
=============================================================================
