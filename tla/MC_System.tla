------------------------------ MODULE MC_System ------------------------------
EXTENDS System

CONSTANTS T1, T2

MC_Tags == {T1, T2}
MC_Causes == {{"watchdog"}}
==============================================================================
