------------------------------ MODULE MCSession ------------------------------
EXTENDS SessionRefinement

\* A command the factory knows and one it does not, of one byte.
Unknown == <<"x">>
MCLines == {InsertLine, Unknown}
InsertOnly == {InsertLine}
OneLine == {Unknown}
==============================================================================
