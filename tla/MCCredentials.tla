--------------------------- MODULE MCCredentials ---------------------------
\* Two dispatches of one job and two runs that resolve.
EXTENDS Credentials
=============================================================================
