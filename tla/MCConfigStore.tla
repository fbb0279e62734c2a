--------------------------- MODULE MCConfigStore ---------------------------
(***************************************************************************)
(* The instance of ConfigStore that TLC checks.  Two ports let two edits   *)
(* of one row differ; one text and one method are enough to tell a filled  *)
(* field from an empty one.                                                *)
(***************************************************************************)
EXTENDS ConfigStore

CONSTANTS A, B, C, Text, Aes

MCId == {A, B, C}
MCServer == {Text}
MCPort == {443, 9103}
MCCrypto == {Aes}

\* Ids are only compared, and the rows keep the order they were added in.
IdSymmetry == Permutations(MCId)
============================================================================
