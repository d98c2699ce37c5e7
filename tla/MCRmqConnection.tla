-------------------------- MODULE MCRmqConnection --------------------------
\* Instances of RmqConnection for TLC.
EXTENDS RmqConnection, TLC
=============================================================================
