--------------------------- MODULE MCApiFindings ---------------------------
\* ApiFindings on a few scans of a project with a few possible findings.
EXTENDS ApiFindings, TLC

\* Findings are interchangeable, and so are scan requests.
Symmetry == Permutations(Findings) \cup Permutations(Scans)
===========================================================================
