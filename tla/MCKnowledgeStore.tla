-------------------------- MODULE MCKnowledgeStore --------------------------
(* KnowledgeStore with interchangeable operations and a publisher that      *)
(* offers three sequences, the second with two contents.                    *)
EXTENDS KnowledgeStore, TLC

MCBundles == {[sequence |-> 1, digest |-> "a"], [sequence |-> 2, digest |-> "a"],
              [sequence |-> 2, digest |-> "b"], [sequence |-> 3, digest |-> "a"]}

OpSymmetry == Permutations(Ops)
=============================================================================
