--------------------------- MODULE MCLeaderDetector ---------------------------
(***************************************************************************)
(* Model-checking instance of LeaderDetector. The first cversion decides  *)
(* which sequence numbers the names carry; in every instance it stays     *)
(* below 2^31 - 1, so the order in which masters join is the order of     *)
(* their sequence numbers and LeaderView's oldest master is the lowest    *)
(* sequence number that spec 2 and 4.1 name as the leader.               *)
(***************************************************************************)
EXTENDS LeaderDetector

\* 0999999998, 0999999999, 1000000000...: the digit count grows but the
\* width stays fixed.
MCWidthBoundary == 999999998

\* -2147483648, -2147483647, ...: the root's cversion has wrapped before the
\* first master joins, and the names carry a sign.
MCNegativeSeq == -2147483647 - 1

=============================================================================
