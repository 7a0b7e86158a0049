----------------------------- MODULE MCDesktop -----------------------------
\* The desktop UI and its files, for TLC.
EXTENDS Desktop
=============================================================================
