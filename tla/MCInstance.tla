----------------------------- MODULE MCInstance -----------------------------
EXTENDS Instance
=============================================================================
