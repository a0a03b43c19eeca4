--------------------------- MODULE MCTmuxClient ---------------------------
(* TLC instances of TmuxClient. *)
EXTENDS TmuxClient, TLC

\* A command prints a line that looks like the terminator of another block, and an
\* empty one.
LookalikePayloads == {<<"end", "blank">>}

\* The goroutines in ExecRaw are interchangeable (safety only).
Symmetry == Permutations(Execs)
=============================================================================
