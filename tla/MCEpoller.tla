----------------------------- MODULE MCEpoller -----------------------------
(***************************************************************************)
(* Instances of Epoller for TLC.                                           *)
(***************************************************************************)
EXTENDS Epoller, TLC

Symmetry == Permutations(Fds)

\* What the goroutines request in the various runs.
ReadWaits == {<<"R", "ARM">>}
Waits == Modes \X {"ARM"}
WaitsAndReadDeadlines == Waits \cup {<<"R", "DEADLINE">>}

\* All that goroutines ask for: the reader everything, the writer to wait beside it.
ReaderAsksAll == Waits \cup ({"R"} \X {"RESET", "DEADLINE", "CANCEL"})

=============================================================================
