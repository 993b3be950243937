----------------------------- MODULE MCGadgetOne -----------------------------
(* A small instance of GadgetOne for TLC. *)
EXTENDS GadgetOne

\* Off; a fixed delay; growing to a maximum that is no multiple of the
\* interval; growing without one, until it wraps around.
MCParams ==
  {[autoresume |-> 0, max_autoresume |-> 0, autoresume_interval_ms |-> 0],
   [autoresume |-> 1, max_autoresume |-> 1, autoresume_interval_ms |-> 0],
   [autoresume |-> 1, max_autoresume |-> 3, autoresume_interval_ms |-> 700],
   [autoresume |-> 2, max_autoresume |-> 0, autoresume_interval_ms |-> 1000]}

AllFaults == FaultKinds
==============================================================================
