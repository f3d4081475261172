----------------------------- MODULE MCTestRun -----------------------------
\* TestRun on a few concurrent requests for one test.
EXTENDS TestRun, TLC

\* Requests are interchangeable; used where no liveness is checked.
Symmetry == Permutations(Requests)
===========================================================================
