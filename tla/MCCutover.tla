------------------------------- MODULE MCCutover ------------------------------
EXTENDS Cutover
===============================================================================
