------------------------------ MODULE MemObjMC ------------------------------
EXTENDS MemObj
=============================================================================
