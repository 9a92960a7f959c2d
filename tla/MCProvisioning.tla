--------------------------- MODULE MCProvisioning ---------------------------
(* Every run has one id: a retry, a replayed cassette, or two at one time.  *)
EXTENDS Provisioning, TLC

OneId == [r \in Runs |-> "id"]

(* Runs of one id are alike, and so are the files of a checkout.            *)
Alike == Permutations(Runs) \cup Permutations(Files)
=============================================================================
