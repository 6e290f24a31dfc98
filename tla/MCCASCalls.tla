----------------------------- MODULE MCCASCalls -----------------------------
EXTENDS CASCalls

\* A number and an expression.
MCValues == {"2", "x"}
MCNumbers == {"2"}

\* A bare question, an equation, and an integral with bounds, whose text also
\* reads as one without.
MCTexts == {{}, {"solve", "simplify"}, {"integrate_from_to", "integrate"}}

\* An integral without bounds.
MCAuthored == {"integrate"}

\* A number, two roots.
MCFindings == [found : {TRUE}, values : {{"2"}, {"2", "x"}}]

MCClaims == [parses : {TRUE}, value : {"2"}, constant : BOOLEAN]
=============================================================================
