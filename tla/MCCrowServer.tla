---------------------------- MODULE MCCrowServer ----------------------------
\* Small instances of CrowServer.
EXTENDS CrowServer
=============================================================================
