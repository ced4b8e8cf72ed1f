----------------------------- MODULE DataPathMC -----------------------------
EXTENDS DataPath

Orders == {<<0, 1, 2>>, <<3, 1, 0>>}

\* The builds that are sound.  The sizes are those at which another field is written, and
\* those around them.
Sounds ==
  {b \in [metadata_size: {0, 2, 4, 5, 8, 24}, headroom_size: {0, 12}, dataroom_size: {60},
          mbuf_alignment: {"mbuf", "pkt", "none"},
          separated_md: BOOLEAN, aggregated_md: BOOLEAN, host_aggregated_md: BOOLEAN,
          memcpy_md: BOOLEAN, vio_header: BOOLEAN, aggregation_num: {2}] :
     Accepted(b) /\ ~(b.memcpy_md /\ b.host_aggregated_md) /\ Sound(b)}

\* The example of README.md:77 without its zero_copy, in small groups of metadata of n bytes.
Aggregating(n) ==
  [metadata_size |-> n, headroom_size |-> 0, dataroom_size |-> 64, mbuf_alignment |-> "mbuf",
   separated_md |-> FALSE, aggregated_md |-> TRUE, host_aggregated_md |-> TRUE,
   memcpy_md |-> FALSE, vio_header |-> FALSE, aggregation_num |-> 2]

OddSize == {Aggregating(3)}

\* Only one of the two sides aggregates: PacketsIntact fails.
Mixed == {[Aggregating(16) EXCEPT !.host_aggregated_md = FALSE],
          [Aggregating(16) EXCEPT !.aggregated_md = FALSE]}

\* The default build, but the host copies the metadata: PacketsIntact fails.
HostLed == {[Aggregating(128) EXCEPT !.headroom_size = 128, !.vio_header = TRUE,
                                     !.aggregated_md = FALSE, !.host_aggregated_md = FALSE,
                                     !.memcpy_md = TRUE, !.dataroom_size = 2048]}
=============================================================================
