---------------------------- MODULE MCVaultFiles ----------------------------
(* VaultFiles for TLC: passphrases are interchangeable, and so are restorers. *)
EXTENDS VaultFiles, TLC

Symmetry == Permutations(Passphrase) \cup Permutations(Restorer)
=============================================================================
