------------------------ MODULE MCRealtimePublisher ------------------------
\* TLC's instance of RealtimePublisher.  Polls are interchangeable, but no
\* symmetry is declared: a liveness property is checked.
EXTENDS RealtimePublisher
=============================================================================
