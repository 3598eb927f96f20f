--------------------------- MODULE MCDataMapper ---------------------------
EXTENDS DataMapper, MCSignals
=============================================================================
