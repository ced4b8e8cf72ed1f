---------------------------- MODULE StoreOrderMC ----------------------------
EXTENDS StoreOrderInv
=============================================================================
