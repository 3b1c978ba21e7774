---------------------------- MODULE MCLedgerFile ----------------------------
(***************************************************************************)
(* Small instances of LedgerFile for TLC.                                  *)
(***************************************************************************)
EXTENDS LedgerFile

PlainLines   == [e \in Events |-> "plain"]
OneSeparator == [e \in Events |-> IF e = 2 THEN "separator" ELSE IF e = 3 THEN "long" ELSE "plain"]
=============================================================================
