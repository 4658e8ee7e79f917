-------------------------- MODULE MC_LinearMemory --------------------------
(* Contracts named after the limits of their memory; one starts with no    *)
(* page at all.                                                            *)
EXTENDS LinearMemory, TLC

CONSTANTS small, large, growing, huge, empty, f, g

MCContract == {small, large, growing, huge, empty}
MCMin == (small :> 1) @@ (large :> 3) @@ (growing :> 1) @@ (huge :> 4) @@ (empty :> 0)
MCMax == (small :> 1) @@ (large :> 4) @@ (growing :> 3) @@ (huge :> 4) @@ (empty :> 2)
MCImagePages == (small :> 1) @@ (large :> 2) @@ (growing :> 0) @@ (huge :> 4) @@ (empty :> 0)

MCDelta == {-2, -1, 0, 1, 2, 3}

(* A full table of several pages with segments that overlap, a page that   *)
(* is half used, no table element at all, and a segment that does not fit. *)
Segment(offset, functions) == [offset |-> offset, functions |-> functions]
MCTableMin == (small :> 3) @@ (large :> 5) @@ (growing :> 0) @@ (huge :> 2) @@ (empty :> 1)
MCSegments ==
    (small :> <<Segment(1, <<f, g>>)>>)
    @@ (large :> <<Segment(0, <<f, f, f>>), Segment(2, <<g>>), Segment(4, <<f>>), Segment(5, <<>>)>>)
    @@ (growing :> <<>>)
    @@ (huge :> <<Segment(1, <<f, g>>)>>)
    @@ (empty :> <<>>)
=============================================================================
