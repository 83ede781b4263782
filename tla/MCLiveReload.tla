---------------------------- MODULE MCLiveReload ----------------------------
\* LiveReload on small sessions.
EXTENDS LiveReload
=============================================================================
