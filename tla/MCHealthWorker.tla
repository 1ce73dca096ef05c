--------------------------- MODULE MCHealthWorker ---------------------------
\* Two contacts, one of them typed twice, and an administrator.
EXTENDS HealthWorker

MCContacts == <<Address("ann", "Ann"), Blank, Address("bob", "bob"), Address("ann", "ANN")>>
MCAdmin == Address("root", "root")
=============================================================================
