---------------------------- MODULE MCChatReceiver ----------------------------
EXTENDS ChatReceiver
=============================================================================
