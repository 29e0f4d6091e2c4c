---------------------------- MODULE MCLiveSessions ----------------------------
EXTENDS LiveSessions
=============================================================================
