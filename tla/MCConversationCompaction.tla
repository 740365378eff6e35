---------------------- MODULE MCConversationCompaction ----------------------
(* Model values for the runs of one conversation's summary job. *)
EXTENDS ConversationCompaction, TLC

(* Runs are interchangeable: no action or property names one. *)
RunSymmetry == Permutations(Workers)

=============================================================================
