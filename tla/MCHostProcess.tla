------------------------------ MODULE MCHostProcess ------------------------------
EXTENDS HostProcess
BothChips == {"plain", "toshiba"}
TwoPolicies == {"other", "batch"}
OneMask == {"all"}
=============================================================================
