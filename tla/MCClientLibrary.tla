--------------------------- MODULE MCClientLibrary ---------------------------
EXTENDS ClientLibrary
=============================================================================
