---------------------------- MODULE MCConsumers ----------------------------
\* Instances of Consumers for TLC.
EXTENDS Consumers, TLC
=============================================================================
