--------------------------- MODULE MCSignalMapping ---------------------------
EXTENDS SignalMapping, MCSignals
=============================================================================
