------------------------------ MODULE MCRelay ------------------------------
\* One connection of the SOCKS5 front end, for TLC.
EXTENDS Relay
=============================================================================
