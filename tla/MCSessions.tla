---------------------------- MODULE MCSessions ----------------------------
\* One session, one API token and two requests at a time.
EXTENDS Sessions
=============================================================================
