------------------------ MODULE MCResourceLifecycle ------------------------
EXTENDS ResourceLifecycle
=============================================================================
