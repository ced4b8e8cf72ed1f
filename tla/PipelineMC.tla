----------------------------- MODULE PipelineMC -----------------------------
EXTENDS PacketInv
=============================================================================
