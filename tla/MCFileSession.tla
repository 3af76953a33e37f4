--------------------------- MODULE MCFileSession ----------------------------
EXTENDS FileSession
=============================================================================
