---------------------------- MODULE MCJobQueue ----------------------------
\* JobQueue on a few jobs and cancelling handlers.
EXTENDS JobQueue, TLC

\* Statuses returned by the two factories of api_specs.py (execute, security scan).
MCVerdicts == {"passed", "failed", "warning"}
===========================================================================
