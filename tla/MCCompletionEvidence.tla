------------------------ MODULE MCCompletionEvidence ------------------------
(* Small worktrees and configurations for CompletionEvidence.              *)
EXTENDS CompletionEvidence, Sequences

MCGlobs == {"all", "first"}
MCMatches == [p \in MCGlobs |-> IF p = "all" THEN Files ELSE {1}]

Check(contract, globs, required) ==
  [contract |-> contract, globs |-> globs, required |-> required]

(* Two required checks over the same patterns (one fingerprint serves      *)
(* both), or none at all.                                                  *)
BothRequired == <<Check("test", "all", TRUE), Check("test", "all", TRUE)>>

(* One check as it stands, under another argv, or with other patterns.     *)
OneRequired == <<Check("test", "all", TRUE)>>
OtherArgv   == <<Check("vet", "all", TRUE)>>
OtherGlobs  == <<Check("test", "first", TRUE)>>
NoChecks    == [c \in {} |-> Check("test", "all", TRUE)]

TwoChecks   == {BothRequired, NoChecks}
SomeConfigs == {OneRequired, OtherArgv, OtherGlobs}
OneConfig   == {OneRequired}

(* The capture buffer of a run, for outputs and writes of a few bytes:     *)
(* what WriteCaptures says of all of them.                                 *)
Buffer == INSTANCE CaptureBuffer

Texts == UNION {[1..n -> {"x", "y"}] : n \in 0..3}

ASSUME CaptureAsWritten ==
  \A limit \in 0..4, output, p \in Texts :
    Buffer!Written(Buffer!Captured(output, limit), p, limit)
      = Buffer!Captured(output \o p, limit)
=============================================================================
