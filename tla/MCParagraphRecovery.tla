------------------------ MODULE MCParagraphRecovery ------------------------
(* ParagraphRecovery for TLC: paragraphs are interchangeable. *)
EXTENDS ParagraphRecovery, TLC

Symmetry == Permutations(Paragraphs)
=============================================================================
