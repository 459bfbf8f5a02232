------------------------------ MODULE MCWebUi ------------------------------
(* A small instance of the page and its API process for TLC.                *)
EXTENDS WebUi

CONSTANTS s1, s2, other
=============================================================================
