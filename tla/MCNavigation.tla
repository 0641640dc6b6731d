---------------------------- MODULE MCNavigation ----------------------------
\* The telephone menus with a two-level piece of the help tree.
EXTENDS Navigation

MCHelp == [help_reading |-> "info", help_browsing |-> "help_reading"]
=============================================================================
