--------------------------- MODULE MCSandboxExec ---------------------------
EXTENDS SandboxExec

\* timeout_ms in seconds and max_concurrent_execs, each scaled down.
SmallLimits == {[floor |-> 1, cap |-> 5, default |-> 2], [floor |-> 1, cap |-> 3, default |-> 3]}

Values == {None} \cup 0..6
=============================================================================
