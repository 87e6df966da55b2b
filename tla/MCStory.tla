------------------------------ MODULE MCStory ------------------------------
(* An instance of StoryRun: a bundled budget of one, overrides above it and  *)
(* below it, two versions of the files, the first of which lets the story   *)
(* file speak for a review.                                                  *)
EXTENDS StoryProperties, TLC

BundledBudgets == [t \in Triggers |-> 1]
ContractSources == ("v1" :> {"sprint", "file"}) @@ ("v2" :> {"sprint"})
=============================================================================
