------------------------- MODULE MCRuntimeRequests -------------------------
(* Instances of RuntimeRequests for TLC. *)
EXTENDS RuntimeRequests

CONSTANTS cx, cy, cz, k, l, callback

Frame == [NoSpec EXCEPT !.freshness = "LATEST", !.stream = 1, !.bytes = 1]
Plain == [NoSpec EXCEPT !.bytes = 1]

(* A frame that can be on the device, a mate for its batch, and a newer    *)
(* frame of the same or of another size.                                   *)
MixedSpecs ==
  << {[Frame EXCEPT !.context = cx, !.async = TRUE, !.batch = TRUE]},
     {[Plain EXCEPT !.context = cy, !.batch = TRUE, !.priority = 1]},
     {[Frame EXCEPT !.context = cz], [Frame EXCEPT !.context = cz, !.bytes = 2]} >>

(* A frame, or a context's request with a hard deadline, either of them    *)
(* perhaps on the device; then a frame of another size.                    *)
LiveSpecs ==
  << {[Frame EXCEPT !.async = TRUE],
      [Plain EXCEPT !.context = cx, !.freshness = "DROP_IF_LATE", !.deadline = 1,
                    !.async = TRUE]},
     {[Frame EXCEPT !.bytes = 2]} >>

(* A batch of two contexts and a third request for the second of them. *)
LaneSpecs ==
  << {[Plain EXCEPT !.context = cx, !.batch = TRUE]},
     {[Plain EXCEPT !.context = cy, !.batch = TRUE]},
     {[Plain EXCEPT !.context = cy]} >>
=============================================================================
