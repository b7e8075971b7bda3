------------------------------ MODULE MCStorage ------------------------------
EXTENDS StorageRefinement

MCIds == {0, 1}
MCNames == {"x", "y"}
MCTableNames == {"A", "B", "C"}

\* One name is enough where the question is when things happen, not what is stored.
OneName == {"x"}
KnownTables == {"A", "B"}
=============================================================================
