----------------------------- MODULE MCLessonPacks -----------------------------
EXTENDS LessonPacks

CONSTANTS k1

\* Every selection the server makes is of the first pack.
MCSelectedKey == [s \in Selections |-> k1]
=============================================================================
