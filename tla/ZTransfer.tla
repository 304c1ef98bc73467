----------------------------- MODULE ZTransfer ------------------------------
(***************************************************************************)
(* NCZarr: nc_put_vars and nc_get_vars of a chunked variable.  The calls   *)
(* check and, for unlimited dimensions, extend (libnczarr/zvar.c); the     *)
(* slices are projected onto the chunks (zchunking.c); three odometers     *)
(* (zodom.c) walk the chunks, the points in a chunk and the memory of the  *)
(* caller (zwalk.c).                                                       *)
(*                                                                         *)
(* Data is left out: what matters is which place of which chunk meets      *)
(* which place of the memory.                                              *)
(***************************************************************************)
EXTENDS Integers, Sequences, FiniteSets, FiniteSetsExt, SequencesExt, Functions

CONSTANTS
    Shapes,     \* the variables: chunksizes, unlimited and first length of every
                \* dimension, and bounds: the starts, counts and strides asked for,
                \* and the length beyond which nothing is written
    Idle        \* no call is under way

VARIABLES
    shape,      \* the member of Shapes this behaviour is about
    dimlen,     \* NC_DIM_INFO_T.len
    call,       \* [op, start, count, stride], or Idle
    allprojections, \* for every dimension, one projection for every chunk of the range
    chunkodom,  \* the odometer over the chunks
    walk,       \* [slp, mem]: the odometers in one chunk, or Idle
    read,       \* the chunks taken from the cache in this call, in order
    moved,      \* the places that have met: <<chunk, offset in it, offset in memory>>
    stat        \* what the call returns, if nothing more happens

vars == <<shape, dimlen, call, allprojections, chunkodom, walk, read, moved, stat>>

Dims == DOMAIN shape.chunk
Rank == Len(shape.chunk)

ASSUME ZTransferAssumption ==
    \A s \in Shapes : \A r \in DOMAIN s.chunk :
        /\ s.chunk[r] \in Nat \ {0} /\ s.len[r] \in Nat /\ s.unlimited[r] \in BOOLEAN
        /\ s.start[r] \subseteq Nat /\ s.count[r] \subseteq Nat /\ s.stride[r] \subseteq Nat

----------------------------------------------------------------------------
(* zodom.c *)

ceildiv(x, y) == IF x % y = 0 THEN x \div y ELSE x \div y + 1

\* The assertion of nczodom_new is on the stops, that of nczodom_fromslices on
\* the extent; the rest is the same.
Odometer(start, stop, stride, len) ==
    [start |-> start, stop |-> stop, stride |-> stride, len |-> len, index |-> start]

nczodom_more(o) == o.index[1] < o.stop[1]

\* Mutant: no position is reset.
nczodom_nextKeep(o) ==
    LET i == Max({1} \cup {r \in Dims : o.index[r] + o.stride[r] < o.stop[r]})
    IN  [o EXCEPT !.index = [r \in Dims |-> IF r < i THEN @[r] ELSE @[r] + o.stride[r]]]

\* Mutant: the first position is reset too.
nczodom_nextWrap(o) ==
    LET i == Max({0} \cup {r \in Dims : o.index[r] + o.stride[r] < o.stop[r]})
    IN  [o EXCEPT !.index = [r \in Dims |->
            IF r < i THEN @[r] ELSE IF r = i THEN @[r] + o.stride[r] ELSE o.start[r]]]

\* The first position overflows; the others are reset.
nczodom_next(o) ==
    LET i == Max({1} \cup {r \in Dims : o.index[r] + o.stride[r] < o.stop[r]})
    IN  [o EXCEPT !.index = [r \in Dims |->
            IF r < i THEN @[r] ELSE IF r = i THEN @[r] + o.stride[r] ELSE o.start[r]]]

\* Offset of an index in an array of that shape, the last dimension fastest.
Offset(index, len) ==
    LET upto[r \in 0 .. Len(index)] == IF r = 0 THEN 0 ELSE upto[r - 1] * len[r] + index[r]
    IN  upto[Len(index)]

nczodom_offset(o) == Offset(o.index, o.len)

nczodom_avail(o) == o.stop[Rank] - o.start[Rank]

nczodom_skipavail(o) == [o EXCEPT !.index[Rank] = o.stop[Rank]]

----------------------------------------------------------------------------
(* zchunking.c *)

\* NCZ_transferslice: the part of dimension r the call is about.
Slice(c, r) ==
    LET stop == c.start[r] + c.count[r] * c.stride[r]
    IN  [start |-> c.start[r], stride |-> c.stride[r],
         stop |-> IF shape.unlimited[r] THEN stop ELSE Min({stop, dimlen[r]})]

\* compute_intersection: the first chunk, and the one after the last.
ChunkRange(c, r) ==
    [start |-> Slice(c, r).start \div shape.chunk[r],
     stop |-> ceildiv(Slice(c, r).stop, shape.chunk[r])]

\* Mutant: the mark is forgotten.
SkippedTaken(offset, iopos) ==
    [skip |-> FALSE, offset |-> offset, first |-> 0, stop |-> 0, last |-> 0, iopos |-> iopos, iocount |-> 0]

\* skipchunk
Skipped(offset, iopos) ==
    [skip |-> TRUE, offset |-> offset, first |-> 0, stop |-> 0, last |-> 0, iopos |-> iopos, iocount |-> 0]

\* NCZ_compute_projections for chunk i, after those before it: where in the chunk
\* the slice begins and ends, and where in memory that is.
Projection(c, r, i, before) ==
    LET slice == Slice(c, r)
        chunklen == shape.chunk[r]
        abslimit == Min({(i + 1) * chunklen, slice.stop, dimlen[r]})
        prev == Last(SelectSeq(before, LAMBDA p : ~p.skip))
        absnextpoint == prev.offset + prev.last + slice.stride
        first == IF before = <<>> THEN slice.start - i * chunklen ELSE absnextpoint - i * chunklen
        stop == IF slice.stop > abslimit THEN chunklen ELSE slice.stop - i * chunklen
        iocount == ceildiv(stop - first, slice.stride)
        iopos == IF before = <<>> THEN 0 ELSE ceildiv(i * chunklen - slice.start, slice.stride)
    IN  IF before # <<>> /\ absnextpoint >= abslimit THEN Skipped(i * chunklen, iopos)
        ELSE [skip |-> FALSE, offset |-> i * chunklen, first |-> first, stop |-> stop,
              last |-> first + slice.stride * (iocount - 1), iopos |-> iopos, iocount |-> iocount]

\* Mutant: a slice that fills its dimension is refused.
VerifiedLess(c, r, p) ==
    /\ p.iocount >= 0 /\ p.iocount < c.count[r]
    /\ p.stop >= p.first /\ p.stop - p.first <= shape.chunk[r]

\* verifyslice of memslice and chunkslice
Verified(c, r, p) ==
    /\ p.iocount >= 0 /\ p.iocount <= c.count[r]
    /\ p.stop >= p.first /\ p.stop - p.first <= shape.chunk[r]

NoProjections == [r \in Dims |-> <<>>]

Ones == [r \in Dims |-> 1]

\* The odometer over the chunks of all ranges, and the assertion in nczodom_new.
ChunkOdometer(c) ==
    Odometer([r \in Dims |-> ChunkRange(c, r).start], [r \in Dims |-> ChunkRange(c, r).stop], Ones,
             [r \in Dims |-> ceildiv(dimlen[r], shape.chunk[r])])

Asserted(o) == \A r \in Dims : o.stop[r] >= o.start[r] /\ o.len[r] + 1 >= o.stop[r]

----------------------------------------------------------------------------
(* The calls *)

\* endindex
EndIndex(c, r) == IF c.count[r] = 0 THEN c.start[r] ELSE c.start[r] + c.stride[r] * (c.count[r] - 1)

Zero(c) == \E r \in Dims : c.count[r] = 0

\* The bounds checks of dimension r: NCZ_put_vars asks nothing of an unlimited
\* dimension, and only NCZ_get_vars checks the edge when another count is zero.
Checked(c, r) ==
    CASE c.op = "put" /\ shape.unlimited[r] -> "NC_NOERR"
      [] c.start[r] > dimlen[r] \/ (c.start[r] = dimlen[r] /\ c.count[r] > 0) -> "NC_EINVALCOORDS"
      [] (IF c.op = "put" THEN ~Zero(c) ELSE c.count[r] > 0) /\ EndIndex(c, r) >= dimlen[r] -> "NC_EEDGE"
      [] OTHER -> "NC_NOERR"

\* Strides first; then the first dimension that is refused decides.
Checks(c) ==
    LET bad == {r \in Dims : Checked(c, r) # "NC_NOERR"}
    IN  IF \E r \in Dims : c.stride[r] <= 0 THEN "NC_ESTRIDE"
        ELSE IF bad = {} THEN "NC_NOERR" ELSE Checked(c, Min(bad))

\* The call is accepted: a put extends the unlimited dimensions.
Begin(c) ==
    /\ call = Idle
    /\ \A r \in Dims : c.op = "put" => EndIndex(c, r) < shape.most[r]
    /\ call' = c
    /\ stat' = Checks(c)
    /\ dimlen' = IF Checks(c) # "NC_NOERR" THEN dimlen
                 ELSE [r \in Dims |-> IF c.op = "put" /\ shape.unlimited[r] /\ ~Zero(c)
                                      THEN Max({dimlen[r], EndIndex(c, r) + 1}) ELSE dimlen[r]]
    /\ UNCHANGED <<shape, allprojections, chunkodom, walk, read, moved>>

Done ==
    /\ call # Idle /\ stat = "NC_NOERR"
    /\ \/ call.op = "get" /\ Zero(call)
       \/ chunkodom # Idle /\ walk = Idle /\ ~nczodom_more(chunkodom)

\* Nothing is left to do, or the call has failed.
Return ==
    /\ Done \/ (call # Idle /\ stat # "NC_NOERR")
    /\ call' = Idle /\ allprojections' = NoProjections /\ chunkodom' = Idle
    /\ read' = <<>> /\ moved' = {} /\ stat' = "NC_NOERR"
    /\ UNCHANGED <<shape, dimlen, walk>>

\* NCZ_compute_all_slice_projections and NCZ_compute_per_slice_projections: one
\* chunk of one dimension after the other.
Missing(r) ==
    LET range == ChunkRange(call, r) IN Len(allprojections[r]) < range.stop - range.start

Transferring == call # Idle /\ stat = "NC_NOERR" /\ ~(call.op = "get" /\ Zero(call))

Project(r) ==
    LET before == allprojections[r]
        proj == Projection(call, r, ChunkRange(call, r).start + Len(before), before)
    IN  /\ Transferring /\ chunkodom = Idle
        /\ Missing(r) /\ \A q \in Dims : q < r => ~Missing(q)
        /\ IF proj.skip \/ Verified(call, r, proj)
           THEN allprojections' = [allprojections EXCEPT ![r] = Append(@, proj)] /\ UNCHANGED stat
           ELSE stat' = "NC_ECONSTRAINT" /\ UNCHANGED allprojections
        /\ UNCHANGED <<shape, dimlen, call, chunkodom, walk, read, moved>>

\* A dimension of which no chunk is touched has an empty array of projections, but
\* NCZ_transfer asks only the first dimension whether there is a chunk.
NoneToRead(o) == nczodom_more(o) /\ \E r \in Dims : allprojections[r] = <<>>

\* The end of NCZ_projectslices
StartChunks ==
    LET odom == ChunkOdometer(call)
    IN  /\ Transferring /\ chunkodom = Idle
        /\ \A r \in Dims : ~Missing(r)
        /\ IF Asserted(odom) /\ ~NoneToRead(odom)
           THEN chunkodom' = odom /\ UNCHANGED stat
           ELSE /\ stat' = IF Asserted(odom) THEN "undefined" ELSE "assertion"
                /\ UNCHANGED chunkodom
        /\ UNCHANGED <<shape, dimlen, call, allprojections, walk, read, moved>>

\* The slices cover exactly one chunk.
iswholechunk(c) ==
    \A r \in Dims : /\ Slice(c, r).stride = 1 /\ Slice(c, r).start % shape.chunk[r] = 0
                    /\ Slice(c, r).stop - Slice(c, r).start = shape.chunk[r]

Volume == FoldFunction(LAMBDA x, y : x * y, 1, shape.chunk)

\* The whole chunk is transferred with one copy.
WholeChunk ==
    LET chunk == [r \in Dims |-> call.start[r] \div shape.chunk[r]]
    IN  /\ call # Idle /\ chunkodom # Idle /\ walk = Idle /\ read = <<>>
        /\ nczodom_more(chunkodom) /\ iswholechunk(call)
        /\ read' = <<chunk>>
        /\ moved' = {<<chunk, i, i>> : i \in 0 .. Volume - 1}
        /\ chunkodom' = [chunkodom EXCEPT !.index = chunkodom.stop]
        /\ UNCHANGED <<shape, dimlen, call, allprojections, walk, stat>>

\* The projections of the chunk the odometer is at.
Here(r) == allprojections[r][chunkodom.index[r] - chunkodom.start[r] + 1]

SlpOdometer == Odometer([r \in Dims |-> Here(r).first], [r \in Dims |-> Here(r).stop],
                        call.stride, shape.chunk)

\* Mutant: memslice.len is the length of the chunk.
MemOdometerOfChunk == Odometer([r \in Dims |-> Here(r).iopos],
                        [r \in Dims |-> Here(r).iopos + Here(r).iocount], Ones, shape.chunk)

MemOdometer == Odometer([r \in Dims |-> Here(r).iopos],
                        [r \in Dims |-> Here(r).iopos + Here(r).iocount], Ones, call.count)

\* NCZ_transfer takes the next chunk, unless a projection skips it.
Chunk ==
    /\ call # Idle /\ chunkodom # Idle /\ walk = Idle
    /\ nczodom_more(chunkodom) /\ ~(read = <<>> /\ iswholechunk(call))
    /\ IF \E r \in Dims : Here(r).skip
       THEN /\ chunkodom' = nczodom_next(chunkodom)
            /\ UNCHANGED <<walk, read>>
       ELSE /\ walk' = [slp |-> SlpOdometer, mem |-> MemOdometer]
            /\ read' = Append(read, chunkodom.index)
            /\ UNCHANGED chunkodom
    /\ UNCHANGED <<shape, dimlen, call, allprojections, moved, stat>>

\* NCZ_walk: with stride 1 the rest of the row at once, else one point.
Walk ==
    LET slp == walk.slp  mem == walk.mem
        row == slp.stride[Rank] = 1
        avail == IF row THEN nczodom_avail(slp) ELSE 1
        next(o) == nczodom_next(IF row THEN nczodom_skipavail(o) ELSE o)
    IN  /\ walk # Idle /\ nczodom_more(slp)
        /\ moved' = moved \cup {<<chunkodom.index, nczodom_offset(slp) + i, nczodom_offset(mem) + i>> :
                                i \in 0 .. avail - 1}
        /\ walk' = [slp |-> next(slp), mem |-> next(mem)]
        /\ UNCHANGED <<shape, dimlen, call, allprojections, chunkodom, read, stat>>

\* The chunk is done.
ChunkDone ==
    /\ walk # Idle /\ ~nczodom_more(walk.slp)
    /\ walk' = Idle
    /\ chunkodom' = nczodom_next(chunkodom)
    /\ UNCHANGED <<shape, dimlen, call, allprojections, read, moved, stat>>

Init ==
    /\ shape \in Shapes
    /\ dimlen = shape.len
    /\ call = Idle /\ allprojections = NoProjections /\ chunkodom = Idle /\ walk = Idle
    /\ read = <<>> /\ moved = {} /\ stat = "NC_NOERR"

\* The vectors with a member of sets[r] in every dimension r.
Vectors(sets) == {v \in [Dims -> UNION Range(sets)] : \A r \in Dims : v[r] \in sets[r]}

Step == (\E r \in Dims : Project(r)) \/ StartChunks \/ WholeChunk \/ Chunk \/ Walk \/ ChunkDone \/ Return

Next ==
    \/ \E op \in {"put", "get"}, start \in Vectors(shape.start), count \in Vectors(shape.count),
          stride \in Vectors(shape.stride) :
          Begin([op |-> op, start |-> start, count |-> count, stride |-> stride])
    \/ Step

\* A call runs until it returns.
Spec == Init /\ [][Next]_vars /\ WF_vars(Step)

----------------------------------------------------------------------------
(* Properties *)

\* The odometers stay in their ranges until they overflow in the first position,
\* and offsets in a chunk are offsets in a chunk.
TypeOK ==
    /\ \A r \in Dims : dimlen[r] \in 0 .. shape.most[r]
    /\ stat \in {"NC_NOERR", "NC_ESTRIDE", "NC_EINVALCOORDS", "NC_EEDGE", "NC_ECONSTRAINT",
                "assertion", "undefined"}
    /\ walk # Idle => \A o \in {walk.slp, walk.mem}, r \in Dims : o.index[r] < o.stop[r] \/ r = 1
    /\ \A m \in moved : m[2] \in 0 .. Volume - 1

\* Where the points of a request are: point k of the request is start + k * stride
\* of the variable and place k of the memory.
Expected(c) ==
    {LET at == [r \in Dims |-> c.start[r] + k[r] * c.stride[r]]
     IN  <<[r \in Dims |-> at[r] \div shape.chunk[r]],
           Offset([r \in Dims |-> at[r] % shape.chunk[r]], shape.chunk),
           Offset(k, c.count)>> :
     k \in Vectors([r \in Dims |-> 0 .. c.count[r] - 1])}

\* Every step of the transfer is one the request asks for, and when the call has
\* succeeded it has made them all: projections and odometers agree with the
\* plain meaning of start, count and stride.
Exact ==
    call # Idle /\ stat = "NC_NOERR" =>
        /\ moved \subseteq Expected(call)
        /\ Done => moved = Expected(call)

\* A chunk is taken from the cache once and only if a point of the request lies in
\* it: what is taken and does not exist is created.  (A put of no points may create
\* the chunk of its start.)
ReadsNeeded ==
    call # Idle /\ ~Zero(call) =>
        /\ IsInjective(read)
        /\ Range(read) \subseteq {m[1] : m \in Expected(call)}

\* A request within the dimensions, as far as they cannot be extended.
Inside(c) == \A r \in Dims : (c.op = "put" /\ shape.unlimited[r]) \/ EndIndex(c, r) < dimlen[r]

\* A request of at least one point is refused exactly if a point of it is outside;
\* no other error and no assertion comes from the projections.
Accepts ==
    call # Idle /\ ~Zero(call) /\ (\A r \in Dims : call.stride[r] > 0) =>
        (stat = "NC_NOERR" <=> Inside(call))

\* Every call returns.
Ends == call # Idle ~> call = Idle
=============================================================================
