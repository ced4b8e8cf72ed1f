----------------------------- MODULE OptionsMC ------------------------------
EXTENDS Options
=============================================================================
