------------------------- MODULE MCGenerationControl --------------------------
(* GenerationControl on small instances: one conversation, the processes on *)
(* one host or on two.                                                      *)
EXTENDS GenerationControl, TLC

OneConversation == [g \in Generations |-> CHOOSE c \in Conversations : TRUE]
OneHost == [p \in Processes |-> CHOOSE h \in Hosts : TRUE]

Symmetry == Permutations(Tasks) \union Permutations(Keys) \union Permutations(Generations)
             \union Permutations(Processes)
=============================================================================
