------------------------- MODULE MC_AccessorySetupNFC -------------------------
(* The NFC tag for TLC: the constants are given in the .cfg files.        *)
EXTENDS AccessorySetupNFC

=============================================================================
