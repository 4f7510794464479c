------------------------------ MODULE Pressure ------------------------------
(***************************************************************************)
(* What memory pressure promises the rest of the run: when it begins every *)
(* cache is shed before anything is judged, a run is ended only under a    *)
(* pressure that began on an earlier reading, and a stopped governor       *)
(* leaves no pressure behind.                                              *)
(***************************************************************************)
VARIABLE mode

\* "fresh" is pressure whose caches are shed and which the reading that began it has
\* not finished with.
Mode == {"clear", "shedding", "fresh", "under", "ended", "stopped"}

TypeOK == mode \in Mode

\* The governor's flag, which stays set while a run it ended winds down.
Pressed == mode \in {"shedding", "fresh", "under", "ended"}

Init == mode = "clear"

Begin  == mode = "clear" /\ mode' = "shedding"
Shed   == mode = "shedding" /\ mode' = "fresh"
Settle == mode = "fresh" /\ mode' = "under"
Relief == mode = "under" /\ mode' = "clear"
End    == mode = "under" /\ mode' = "ended"
Stop   == mode \in {"clear", "under", "ended"} /\ mode' = "stopped"

Next == Begin \/ Shed \/ Settle \/ Relief \/ End \/ Stop

Spec == Init /\ [][Next]_mode
=============================================================================
