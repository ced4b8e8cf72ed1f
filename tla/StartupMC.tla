------------------------------ MODULE StartupMC -----------------------------
EXTENDS Startup
=============================================================================
