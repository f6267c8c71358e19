---------------------------- MODULE MCQueryThread ----------------------------
EXTENDS QueryThread
=============================================================================
