---------------------------- MODULE StreamedEngine ----------------------------
(***************************************************************************)
(* A server from its start to its forward passes: Startup decides what is  *)
(* loaded, pinned and read ahead, and BlockStreamer's passes then run over *)
(* the blocks it left to be streamed.  What was loaded does not change     *)
(* while it serves, so it is judged before the first pass begins.          *)
(***************************************************************************)
EXTENDS BlockStreamer, Startup

CONSTANT Followed    \* bound: the cases whose passes are run

ASSUME FollowedAssumption == Followed \subseteq DOMAIN Cases

engineVars == <<vars, boot>>

Running ==
  boot.phase = "serving" /\ boot.ahead = "streamer" /\ boot.case \in Followed

(* with_streamer: the streamer is given the spans the loader left.         *)
LeftToStream == {l \in Blocks : \E backend \in Now.target : backend.spans[l].len > 0}

(* Nothing is pinned before the checkpoint is loaded.                      *)
EngineInit == pinned = {} /\ Init /\ StartInit

EngineStart ==
  /\ StartNext
  /\ pinned' = IF Running' THEN Blocks \ LeftToStream ELSE pinned
  /\ UNCHANGED <<ring, queue, reader, pass, begun, failed>>

EngineRuns == Running /\ Next /\ UNCHANGED boot

EngineNext == EngineStart \/ EngineRuns

EngineSpec == EngineInit /\ [][EngineNext]_engineVars /\ Fairness

-----------------------------------------------------------------------------
\* The moments at which a loaded engine is judged.
Fresh == begun = 0

(* A checkpoint never half-loads (Startup).                                *)
LoadedWhole == Fresh => ReadsTheFile

(* Pinning keeps its budget, and the ring is given exactly the blocks that *)
(* are not held (Startup).                                                 *)
PinnedOrStreamed ==
  Fresh => /\ PinsKept
           /\ Running => \A s \in Serving : s.ahead = "streamer" =>
                \A w \in Packed(s) : \A l \in InBlock(w) \cap Blocks :
                  HasBytes(w) => (l \in pinned <=> w.src.kind = "owned")

(* The pages warmed for an expert are the pages it is read from (Startup). *)
ExpertsWarmed == Fresh => WarmsItsExpert

(* Quantised kernels and decoders agree, vector by vector (Startup).       *)
KernelsExact == Fresh => KernelsAgree
=============================================================================
