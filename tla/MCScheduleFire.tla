---------------------------- MODULE MCScheduleFire ----------------------------
EXTENDS ScheduleFire

CONSTANTS f1, f2   \* two calls of fire_schedule
=============================================================================
