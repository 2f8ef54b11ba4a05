--------------------------- MODULE MCPhysMapFile ---------------------------
(* PhysMapFile with the numbers the source computes for vertex records, and *)
(* with one number for all three, small enough for several pages.           *)
EXTENDS PhysMapFile, TLC

VertexInline   == InlineTuplesPerPage(VertexRecordSize)
VertexComputed == CalculateTuplesPerPage(VertexRecordSize)
VertexCapacity == PageCapacity(VertexRecordSize)
=============================================================================
