----------------------------- MODULE PacketFlow -----------------------------
(***************************************************************************)
(* What EIVU promises end to end (README.md: rx, nf and tx exchange        *)
(* packets over two vioqueues): two bounded first-in first-out queues with *)
(* the batch of the network function between them.  The packets 1, 2, ...  *)
(* PACKETS are sent in this order and received in this order, each of them *)
(* once, with its contents.                                                *)
(***************************************************************************)
EXTENDS Integers, Sequences

CONSTANTS
  PACKETS,     \* how many packets there are to send
  ROOM,        \* how many packets a queue holds
  MAX_BATCH    \* how many packets the network function takes at once

VARIABLES
  sent,        \* the number of packets sent
  rxq, batch, txq,
  received     \* the packet received last

flowVars == <<sent, rxq, batch, txq, received>>

FlowInit ==
  /\ sent = 0
  /\ rxq = <<>> /\ batch = <<>> /\ txq = <<>>
  /\ received = 0

Send ==
  /\ sent < PACKETS
  /\ Len(rxq) < ROOM
  /\ sent' = sent + 1
  /\ rxq' = Append(rxq, sent')
  /\ UNCHANGED <<batch, txq, received>>

Take ==
  /\ batch = <<>>
  /\ \E n \in 1 .. MAX_BATCH :
       /\ n <= Len(rxq)
       /\ batch' = SubSeq(rxq, 1, n)
       /\ rxq' = SubSeq(rxq, n + 1, Len(rxq))
  /\ UNCHANGED <<sent, txq, received>>

Forward ==
  /\ batch # <<>>
  /\ Len(txq) < ROOM
  /\ txq' = Append(txq, Head(batch))
  /\ batch' = Tail(batch)
  /\ UNCHANGED <<sent, rxq, received>>

Receive ==
  /\ txq # <<>>
  /\ Head(txq) = received + 1
  /\ received' = Head(txq)
  /\ txq' = Tail(txq)
  /\ UNCHANGED <<sent, rxq, batch>>

FlowNext == Send \/ Take \/ Forward \/ Receive

FlowSpec == FlowInit /\ [][FlowNext]_flowVars
=============================================================================
