----------------------------- MODULE MCLksystem -----------------------------
\* Values for the constants of Lksystem: what the requesters ask for.
EXTENDS Lksystem

AnyPower == Power
RebootOnly == {"reboot"}
=============================================================================
