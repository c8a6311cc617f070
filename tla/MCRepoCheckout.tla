--------------------------- MODULE MCRepoCheckout ---------------------------
(* Instances of RepoCheckout for TLC. *)
EXTENDS RepoCheckout

(* Every combination of the fields the code reads: the tag only for a push,  *)
(* the provider and the number only for a merge request.                     *)
AllRepositories ==
    {r \in Repository : /\ r.event = "pull_request" => ~r.tag
                        /\ r.event = "push" => r.provider = "github" /\ ~r.prNumber}

(* A merge request as the tests of buildRefSpecs have it. *)
MergeRequests == {r \in Repository : r.event = "pull_request" /\ r.provider = "gitlab"
                                     /\ r.prNumber /\ r.commit /\ ~r.tag}
=============================================================================
