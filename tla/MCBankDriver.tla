---------------------------- MODULE MCBankDriver ----------------------------
(***************************************************************************)
(* An instance of BankDriver for TLC: two workers and 64 commands, on      *)
(* three branches of five accounts each, two of which -f makes overdrawn.  *)
(* The others hold more than all commands together can take.               *)
(***************************************************************************)
EXTENDS BankDriver

\* A mixture that has every selector in it and is different for every seed.
Mixture(s, p) == (s * s * 5 + p * p * 3 + s * p * 7 + p + s * 11 + 2) % 97
=============================================================================
