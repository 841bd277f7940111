---------------------------- MODULE MCCryptoLedger ----------------------------
(* Symmetric model values for TLC. *)
EXTENDS CryptoLedger, TLC

LedgerSymmetry == Permutations(PreviewIds) \cup Permutations(Handlers)
=============================================================================
