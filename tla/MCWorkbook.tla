----------------------------- MODULE MCWorkbook -----------------------------
(* The settings patches the model checker sends to the workbook. *)
EXTENDS Workbook, TLC

\* A certification set outright, one submitted by another person, one unlocked, and new parameters.
MCPatches ==
  {[status |-> "approved", locks |-> TRUE],
   [status |-> "in_review", by |-> Reviewer],
   [locks |-> FALSE]} \union [params: Params]

\* When requests interleave: a certification that locks the workbook while a save is in flight.
MCCertification == {[status |-> "approved", locks |-> TRUE]}

Interchangeable == Permutations(Tabs) \union Permutations(Docs) \union Permutations(Params)
=============================================================================
