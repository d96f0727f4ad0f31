----------------------- MODULE MCRevisionProcessing -----------------------
(* Two regions of RevisionProcessing for TLC.  A behaviour stays in one:   *)
(* "pipeline", where files change while no error passes and no file goes   *)
(* away, and "holders", where leases run out, errors pass, files are       *)
(* trashed, purged and lose their source, and the revision stays.          *)
EXTENDS RevisionProcessing, TLC

VARIABLE region

SlotSymmetry == Permutations(Slots)

RegionInit == region \in {"pipeline", "holders"} /\ Init

RegionNext ==
    /\ UNCHANGED region
    /\ Next
    /\ CASE region = "pipeline" ->
              /\ UNCHANGED <<place, connected>>
              /\ \A s \in Slots : slots'[s].pc # "retry"
         [] region = "holders" -> UNCHANGED current

(* The attempts of a task are looked at only where an error may pass.      *)
Unseen == [t \in Task |-> IF region = "pipeline" THEN [tasks[t] EXCEPT !.attempts = 0]
                                                 ELSE tasks[t]]
RegionView == <<region, file, events, Unseen, texts, indexed, slots>>

\* The pipeline with nothing taken away: what must become searchable stays.
NothingLeaves == UNCHANGED <<region, place, connected>>
SettledSpec == /\ region = "pipeline" /\ Init
               /\ [][Next /\ NothingLeaves]_<<region, vars>> /\ WorkerFairness

RegionSpec == RegionInit /\ [][RegionNext]_<<region, vars>>
===========================================================================
