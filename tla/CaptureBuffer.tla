---------------------------- MODULE CaptureBuffer ----------------------------
(***************************************************************************)
(* The buffer that takes a verifier's output.  It keeps what comes first,  *)
(* up to a limit, and says whether anything was dropped.  A verifier       *)
(* writes as often and as much at a time as it likes; os/exec passes the   *)
(* pieces on one after another.                                            *)
(***************************************************************************)
EXTENDS Integers, Sequences

Lesser(m, n) == IF m <= n THEN m ELSE n

\* The buffer after a write of p.  The limit is not negative.
Written(buffer, p, limit) ==
  LET remaining == limit - Len(buffer.data) IN
  [data      |-> IF remaining > 0
                 THEN buffer.data \o SubSeq(p, 1, Lesser(Len(p), remaining))
                 ELSE buffer.data,
   truncated |-> buffer.truncated \/ Len(p) > remaining]

\* What the buffer should be when `output' is all that was written.
Captured(output, limit) ==
  [data      |-> SubSeq(output, 1, Lesser(Len(output), limit)),
   truncated |-> Len(output) > limit]
=============================================================================
