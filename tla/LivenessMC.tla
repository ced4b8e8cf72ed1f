----------------------------- MODULE LivenessMC -----------------------------
EXTENDS SizedPool
=============================================================================
