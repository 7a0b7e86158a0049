---------------------------- MODULE MCLifecycle ----------------------------
\* The start and stop of the agent, for TLC.
EXTENDS Lifecycle
=============================================================================
