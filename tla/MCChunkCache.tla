---- MODULE MCChunkCache ----
EXTENDS ChunkCache

\* Chunks of 2 bytes.
Var(filters, fsize, size, nelems, bound, sync) ==
    [scalar |-> FALSE, filters |-> filters, fsize |-> fsize, size |-> size, nelems |-> nelems,
     faults |-> bound, sync |-> sync]

\* Without filters calls of the store fail and nc_sync is called; filters make a
\* chunk smaller or larger.
MCShapes == {Var(FALSE, 2, 4, 1, 2, TRUE), Var(FALSE, 2, 5, 3, 1, TRUE),
             Var(TRUE, 1, 4, 3, 0, FALSE), Var(TRUE, 3, 5, 2, 0, FALSE)}

\* Filters, and nc_sync while chunks are in the cache.
SyncShapes == {Var(TRUE, 1, 4, 3, 0, TRUE)}

\* A scalar that is written, closed, opened and written again.
ScalarShapes == {[Var(FALSE, 2, 4, 3, 0, TRUE) EXCEPT !.scalar = TRUE]}
====
