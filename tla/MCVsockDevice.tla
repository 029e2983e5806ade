--------------------------- MODULE MCVsockDevice ---------------------------
(* VsockDevice on small sets of ports and payloads. *)
EXTENDS VsockDevice

CONSTANT b1

MCByte == {b1}
MCWrites == {<<b1>>}

\* Every step starts with an empty list of sent packets, so states that
\* differ only in that list have the same future.
View == <<[dev EXCEPT !.sent = <<>>], draining, snapshots, past>>

\* A run goes on from a saved state only to restart and load it: what the
\* device does in between has no effect on the image.  NEEDS_RESET is left to
\* the run without snapshots.
SavedThenLoaded ==
  /\ "reset" \notin past
  /\ \/ snapshots = {}
     \/ \A saved \in snapshots : saveToSnapshot(dev) = saved.image
     \/ dev.mStreams = NewDevice.mStreams /\ dev.mOrphanPackets = <<>> /\ dev.vqFree = 0
=============================================================================
