---------------------------- MODULE MCKnowledge ----------------------------
(* The symmetry the model checker uses on the knowledge base. *)
EXTENDS KnowledgeIngestion, TLC

Interchangeable == Permutations(DocIds) \union Permutations(Files) \union Permutations(Slots)
=============================================================================
