----------------------------- MODULE MCAppConfig -----------------------------
(* Small instances of AppConfig.                                             *)
EXTENDS AppConfig

CONSTANTS fa, fb, m1, m2, m3

\* two app files, one of them with two maps
TwoFiles == <<fa, fb>>
TwoApps  == [f \in Files |-> IF f = fa THEN <<m1, m2>> ELSE <<m3>>]
=============================================================================
