--------------------------- MODULE MCChatOutbound ---------------------------
EXTENDS ChatOutbound
=============================================================================
