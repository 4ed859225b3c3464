----------------------------- MODULE MCRotateLogs -----------------------------
EXTENDS RotateLogs
===============================================================================
