------------------------------ MODULE MCHelpFormat ------------------------------
(* Texts of up to seven characters wrapped at three, and rows of up to two *)
(* names of up to eight characters in the 15-wide column of printItemMap.  *)
EXTENDS HelpFormat

MCMaxLen     == 7
MCMaxLength  == 3
MCMaxNames   == 2
MCMaxNameLen == 8
MCColumns    == 15
==============================================================================
