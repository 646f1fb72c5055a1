----------------------------- MODULE MCCatalogue ----------------------------
(* A small instance of Catalogue for TLC.  The second builder              *)
(* transliterates a name the first one had no slug for.                    *)
EXTENDS Catalogue

MCPostings ==
  {[name |-> "acme", text |-> "remote", mode |-> ""],
   [name |-> "yandex", text |-> "berlin", mode |-> "hybrid"]}

MCSlugOf == <<[acme |-> "acme", yandex |-> "none"], [acme |-> "acme", yandex |-> "iandeks"]>>
MCGeoOf == [remote |-> "any", berlin |-> "DE"]
MCModeOf == [remote |-> "remote", berlin |-> ""]
MCSkillsOf == [remote |-> "go", berlin |-> "sql"]
==============================================================================
