---------------------------- MODULE MCRlpxWire ----------------------------
EXTENDS RlpxWire
=============================================================================
