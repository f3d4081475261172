---------------------------- MODULE MCJobPolling ----------------------------
\* An execution and a scan, each polled twice.
EXTENDS JobPolling
===========================================================================
