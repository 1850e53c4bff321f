----------------------------- MODULE MCLksysdir -----------------------------
\* Values for the constants of Lksysdir: dbus, one that waits for it, and
\* a login prompt that waits for both.
EXTENDS Lksysdir

CONSTANTS dbus, networkmanager, agetty1

Services == {dbus, networkmanager, agetty1}
Agettys == {agetty1}
=============================================================================
