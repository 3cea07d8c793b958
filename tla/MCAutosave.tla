----------------------------- MODULE MCAutosave -----------------------------
EXTENDS Autosave
=============================================================================
