-------------------------- MODULE MCLiveSessionRecord --------------------------
\* A small instance of LiveSessionRecord.
EXTENDS LiveSessionRecord
=============================================================================
