--------------------------- MODULE MCOneManyUnary ----------------------------
EXTENDS OneManyUnary

\* One target takes the conn.Invoke path; two and three take the fan-in
\* goroutine with every delivery order of InvokeOneMany.
MCMaxTargets == 3
=============================================================================
