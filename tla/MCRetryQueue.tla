---------------------------- MODULE MCRetryQueue ----------------------------
\* TLC's instance of RetryQueue.  Ledgers are interchangeable, and so are the
\* passes of the recovery job; the symmetry is used where no liveness is
\* checked.
EXTENDS RetryQueue, TLC

Symmetric == Permutations(Ledgers) \union Permutations(Passes)
=============================================================================
