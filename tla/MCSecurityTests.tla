--------------------------- MODULE MCSecurityTests ---------------------------
EXTENDS SecurityTests
CONSTANTS r1, r2, r3

\* Two suites and a scan, two scans and an execution, two suites and an execution.
MCKinds == {[r \in {r1, r2, r3} |-> IF r = r1 THEN k[1] ELSE IF r = r2 THEN k[2] ELSE k[3]] :
               k \in {<<"generate", "generate", "scan">>, <<"scan", "scan", "execute">>,
                      <<"generate", "generate", "execute">>}}

\* Nothing, a hardened login page, a bare one, and an API that answers without a token.
MCResponses ==
    {[answered |-> FALSE, code |-> 0, html |-> FALSE, reflected |-> FALSE, headers |-> {}, cookies |-> {}],
     [answered |-> TRUE, code |-> 401, html |-> TRUE, reflected |-> FALSE,
      headers |-> {"hsts", "nosniff", "csp"}, cookies |-> {{"secure", "httponly"}}],
     [answered |-> TRUE, code |-> 200, html |-> TRUE, reflected |-> TRUE,
      headers |-> {"hsts", "server"}, cookies |-> {{"secure"}}],
     [answered |-> TRUE, code |-> 200, html |-> FALSE, reflected |-> FALSE,
      headers |-> {"hsts", "nosniff"}, cookies |-> {}]}
==============================================================================
