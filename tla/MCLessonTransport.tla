--------------------------- MODULE MCLessonTransport ---------------------------
EXTENDS LessonTransport
=============================================================================
