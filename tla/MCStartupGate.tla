--------------------------- MODULE MCStartupGate ---------------------------
(* StartupGate with the constants of the configurations.                    *)
EXTENDS StartupGate
=============================================================================
