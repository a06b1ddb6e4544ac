--------------------------- MODULE MCWriterBuffer ---------------------------
(***************************************************************************)
(* A small instance of WriterBuffer for TLC: see the cfg file.             *)
(***************************************************************************)
EXTENDS WriterBuffer

\* Of each kind, small enough for the sizes of the cfg files, and the defaults;
\* the last is an adaptive one inside a wrapper that does not forward its baseline.
MCPolicies ==
    { NoOpPolicy,
      WithBaseline(WithCooldown(NewAdaptive(2, 3), 2), 4),
      WithBaseline(NewAdaptive(2, 2), 9),
      WithBaseline(NewThreshold(12, 4, 3), 4),
      WithBaseline(NewThreshold(4, 4, 1), 9),
      WithBaseline(DefaultAdaptive, 4),
      WithBaseline(DefaultThreshold, 4),
      Wrapped(WithBaseline(NewAdaptive(2, 1), 4), FALSE) }

=============================================================================
