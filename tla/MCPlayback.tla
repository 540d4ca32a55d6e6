----------------------------- MODULE MCPlayback -----------------------------
(***************************************************************************)
(* Admission to playback, and the master playlist an edge answers with.    *)
(* focus says which one is running, the other rests in an initial state;   *)
(* they share no state.                                                    *)
(***************************************************************************)
EXTENDS EdgeAdmission, HlsFailover, TLC

\* Requests and sessions of playback are interchangeable.
MCSymmetry == Permutations(AdmissionThreads) \cup Permutations(PlaybackSessions)

\* Edges that are eligible with more or less load, and ones that are not.
MCRenditions == [master : {1}, stream : {11, 12}, bandwidth : {2}]
EdgeState(edge, draining, busy, load, url) ==
    [known |-> TRUE, edge |-> edge, draining |-> draining, overloaded |-> busy, load |-> load,
     url |-> url]
MCEdgeStates == {EdgeState(TRUE, FALSE, FALSE, 0, 1), EdgeState(TRUE, FALSE, FALSE, 1, 2),
                 EdgeState(TRUE, FALSE, TRUE, 0, 1), EdgeState(TRUE, TRUE, FALSE, 0, 2),
                 EdgeState(FALSE, FALSE, FALSE, 0, 2), EdgeState(TRUE, FALSE, FALSE, 0, 0)}
-----------------------------------------------------------------------------
VARIABLE focus

PlaybackInit ==
    /\ focus \in {"admission", "hls"}
    /\ AdmissionInit
    /\ IF focus = "hls" THEN TRUE
       ELSE edge_reports = [e \in RegionEdges |-> NoEdgeReport] /\ hls_overloaded = FALSE
    /\ HlsInit

PlaybackNext ==
    /\ UNCHANGED focus
    /\ IF focus = "admission" THEN AdmissionNext ELSE UNCHANGED admissionVars
    /\ IF focus = "hls" THEN HlsNext ELSE UNCHANGED hlsVars

PlaybackSpec == PlaybackInit /\ [][PlaybackNext]_<<focus, admissionVars, hlsVars>>
=============================================================================
