----------------------------- MODULE MCMessages ------------------------------
(* Model values for checking Messages.                                      *)
EXTENDS Messages

CONSTANTS h1, h2

TwoHandles == {h1, h2}
OneTerminal == {h1}
JustNobody == {Nobody}
OneFilter == {{"status", "exit"}}
=============================================================================
