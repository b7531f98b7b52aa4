----------------------------- MODULE MCStream -------------------------------
EXTENDS StreamRelay

CONSTANTS s1, s2
=============================================================================
