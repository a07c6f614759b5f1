---------------------------- MODULE MCSelection ----------------------------
(* Conversations are interchangeable.  A behaviour is about one *)
(* of: messages that arrive while the user looks around, commands, removals. *)
EXTENDS Selection, TLC, FiniteSetsExt

Interchangeable == Permutations(Keys)

Pairs == kSubset(2, Keys)

Reading   == [keys : Pairs, messages : {3}, commands : {0}, removals : {0}, overlays : {0}]
Answering == [keys : {Keys}, messages : {1}, commands : {2}, removals : {0}, overlays : {0}]
Overlaid  == [keys : {Keys}, messages : {1}, commands : {1}, removals : {0}, overlays : {1}]
Listing   == [keys : {Keys}, messages : {1}, commands : {0}, removals : {1}, overlays : {0}]
Emptying  == [keys : Pairs, messages : {1}, commands : {1}, removals : {1}, overlays : {0}]
MCBudgets == Reading \cup Answering \cup Overlaid \cup Listing \cup Emptying
=============================================================================
