---------------------------- MODULE MCApiJobs ----------------------------
\* ApiJobs on one or two jobs of either endpoint, and a few cancelling handlers.
EXTENDS ApiJobs
===========================================================================
