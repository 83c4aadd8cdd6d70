--------------------------- MODULE MCOneManyStream --------------------------
(* Bounds for model checking OneManyStream.                                *)
EXTENDS OneManyStream

\* Two targets, so that batches interleave them; up to two messages per
\* stream, so that a message follows another and a bad one can come first.
MCNumTargets == 2
MCMaxMsgs == 2
\* Enough calls to read every message, the terminal status and one more.
MCMaxCalls == MCMaxMsgs + 2

\* The round-trip comparison takes one target, as a direct connection has.
MCOneTarget == 1
=============================================================================
