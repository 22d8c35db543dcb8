--------------------------- MODULE MCSegmentCache ---------------------------
(* SegmentCache on small instances.                                        *)
EXTENDS SegmentCache

MCSizes == <<1, 2, 1>>
=============================================================================
