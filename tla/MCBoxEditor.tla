---------------------------- MODULE MCBoxEditor -----------------------------
EXTENDS BoxEditor
=============================================================================
