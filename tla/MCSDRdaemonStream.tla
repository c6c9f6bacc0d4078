------------------------- MODULE MCSDRdaemonStream -------------------------
EXTENDS SDRdaemonStream
=============================================================================
