--------------------------- MODULE MCUidRegistry ---------------------------
\* Two assets and two reconciles.
EXTENDS UidRegistry
=============================================================================
