----------------------------- MODULE MCBackfill -----------------------------
\* TLC's instance of Backfill: workers are interchangeable, but they are
\* numbered because runWithConcurrency numbers them, so there is no symmetry.
EXTENDS Backfill
=============================================================================
