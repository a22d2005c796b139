------------------------------ MODULE MCAlertFeed ------------------------------
(* The alerts table alone, for the run that looks for an acknowledged alert that *)
(* has never been on the page.                                                   *)
EXTENDS AlertFeed
================================================================================
