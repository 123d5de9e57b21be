----------------------------- MODULE MCLiveTests -----------------------------
\* LiveTests with the server and the configuration of MCFtpsClient.
EXTENDS LiveTests, MCFtpsClient
=============================================================================
