--------------------------- MODULE MCGlobalChat ----------------------------
EXTENDS GlobalChat, TLC
=============================================================================
