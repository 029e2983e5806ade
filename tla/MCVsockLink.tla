---------------------------- MODULE MCVsockLink ----------------------------
(* VsockLink on a few ports; bytes are <<id of the writer, number>>. *)
EXTENDS VsockLink

MCByte == (1 .. 2 * MaxOpened) \X (1 .. MaxWritten)

\* What follows the reuse of ports that are not clean is left unexplored.
PortsClean == ~reused
=============================================================================
