----------------------- MODULE MCProfessionalJournal -----------------------
(* ProfessionalJournal for TLC: runs of the collector are interchangeable. *)
EXTENDS ProfessionalJournal

Interchangeable == Permutations(Runs)
=============================================================================
