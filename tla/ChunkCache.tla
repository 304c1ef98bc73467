----------------------------- MODULE ChunkCache -----------------------------
(***************************************************************************)
(* The chunk cache of an NCZarr variable (libnczarr/zxcache.c) over the    *)
(* LRU list of libdispatch/ncxcache.c, and the calls that use it: transfer *)
(* of a chunk, nc_sync, nc_close, nc_abort.                                *)
(*                                                                         *)
(* The cache holds chunks as the user sees them; the store holds them      *)
(* filtered when the variable has filters.  put_chunk filters the chunk in *)
(* place.  Any call of the store may fail, as long as faults are left.     *)
(***************************************************************************)
EXTENDS Integers, Sequences, FiniteSets, FiniteSetsExt, SequencesExt

CONSTANTS
    Chunks,       \* the chunks of the variable
    Values,       \* what a whole chunk can hold
    Fill,         \* a chunk of fill values
    Garbage,      \* filtered bytes taken for data, or the other way round
    NoEntry,      \* a chunk that is not in the cache
    Absent,       \* a chunk that is not in the store
    ChunkSize,    \* NCZChunkCache.chunksize
    Shapes        \* the variables considered: whether it is a scalar, whether it has
                  \* filters and the size of a filtered chunk, params.size and
                  \* params.nelems, and bounds: how many calls of the store fail,
                  \* whether nc_sync is called

VARIABLES
    cache,        \* NCZChunkCache: [entry, lru, mru, used]; the front of lru is
                  \* the chunk used last, mru is in order of arrival
    store,        \* the objects under the keys of the chunks: [filtered, data]
    faults,       \* how many more calls of the store may fail
    mode,         \* "closed", or how the file is open: "create", "write", "read"
    saved,        \* the last call was nc_sync or nc_close and returned NC_NOERR
    shape         \* the member of Shapes this behaviour is about

vars == <<cache, store, faults, mode, saved, shape>>

ASSUME ChunkCacheAssumption ==
    /\ ChunkSize \in Nat \ {0}
    /\ Fill \notin Values /\ Garbage \notin Values \cup {Fill}
    /\ Shapes \subseteq [scalar : BOOLEAN, filters : BOOLEAN, fsize : Nat \ {0}, size : Nat,
                         nelems : Nat, faults : Nat, sync : BOOLEAN]
    /\ NoEntry \notin [data : Values \cup {Fill, Garbage}, filtered : BOOLEAN, modified : BOOLEAN]
    /\ Absent \notin [filtered : BOOLEAN, data : Values \cup {Fill, Garbage}]

NoWrite == mode = "read"      \* NC_FILE_INFO_T.no_write

----------------------------------------------------------------------------
(* Entries.  A world w is a cache with its store and the faults left. *)

SizeOf(e) == IF e.filtered THEN shape.fsize ELSE ChunkSize

\* The sum of the sizes of the entries of S.
Space(entry, S) == MapThenSumSet(LAMBDA x : SizeOf(entry[x]), S)

\* What is left of a list when the chunks outside S are unlinked.
Only(list, S) ==
    LET left[i \in 0 .. Len(list)] ==
            IF i = 0 THEN <<>>
            ELSE IF list[i] \in S THEN Append(left[i - 1], list[i]) ELSE left[i - 1]
    IN  left[Len(list)]

World == [cache |-> cache, store |-> store, faults |-> faults]

\* put_chunk, when the store accepts the object: the entry is filtered in place
\* unless it already is.
Encoded(e) == [e EXCEPT !.filtered = e.filtered \/ shape.filters]

Object(e) == [filtered |-> Encoded(e).filtered, data |-> e.data]

\* The data of an object after get_chunk has undone the filters.
Decoded(o) == IF o.filtered = shape.filters THEN o.data ELSE Garbage

\* What the user finds in the data of an entry: get_chunk and NCZ_walk take it
\* for real data.
Real(e) == IF e.filtered THEN Garbage ELSE e.data

----------------------------------------------------------------------------
(* constraincache *)

\* The chunks ncxcachelast returns, one after the other, until there are at most
\* nelems left that use no more than final.
Victims(c, final) ==
    LET n == Len(c.lru)
        last(k) == {c.lru[i] : i \in n - k + 1 .. n}
        enough(k) == Len(c.mru) - k <= shape.nelems /\ c.used - Space(c.entry, last(k)) <= final
        k == Min({i \in 0 .. n : i = n \/ enough(i)})
    IN  Reverse(SubSeq(c.lru, n - k + 1, n))

\* The victims leave the cache; those that are modified go to the store, except
\* the ones in failed: they leave all the same.
Evict(w, gone, failed) ==
    LET c == w.cache
        written == {x \in ToSet(gone) : c.entry[x].modified} \ failed
    IN  [cache |-> [entry |-> [x \in Chunks |-> IF x \in ToSet(gone) THEN NoEntry ELSE c.entry[x]],
                    lru   |-> SubSeq(c.lru, 1, Len(c.lru) - Len(gone)),
                    mru   |-> Only(c.mru, Chunks \ ToSet(gone)),
                    used  |-> c.used - Space(c.entry, ToSet(gone))],
         store |-> [x \in Chunks |-> IF x \in written THEN Object(c.entry[x]) ELSE w.store[x]],
         faults |-> w.faults - Cardinality(failed)]

\* The status is that of the last victim, modified or not: ncxcacheremove sets
\* it anew for each one.
constraincache(w, final) ==
    LET gone == Victims(w.cache, final)
        dirty == {x \in ToSet(gone) : w.cache.entry[x].modified}
    IN  IF w.cache.used = 0 THEN {[w |-> w, ok |-> TRUE]}
        ELSE {[w |-> Evict(w, gone, F), ok |-> gone = <<>> \/ Last(gone) \notin F] :
                 F \in {F \in SUBSET dirty : Cardinality(F) <= w.faults}}

\* Mutant: only get_chunk makes room.
verifycacheNever(w) == {[w |-> w, ok |-> TRUE]}

verifycache(w) == constraincache(w, shape.size)

\* Room for an object of that size: as much is evicted, room or no room.
makeroom(w, needed) ==
    constraincache(w, IF w.cache.used > needed THEN w.cache.used - needed ELSE 0)

----------------------------------------------------------------------------
(* NCZ_read_cache_chunk: the outcomes of a call *)

\* Mutant: no_write is not asked.
FetchedDirty(o) ==
    IF o = Absent THEN [data |-> Fill, filtered |-> FALSE, modified |-> TRUE]
                  ELSE [data |-> Decoded(o), filtered |-> FALSE, modified |-> FALSE]

\* The chunk as get_chunk finds it: a chunk that is not in the store is a fill
\* chunk, modified unless the file is read-only.
Fetched(o) ==
    IF o = Absent THEN [data |-> Fill, filtered |-> FALSE, modified |-> ~NoWrite]
                  ELSE [data |-> Decoded(o), filtered |-> FALSE, modified |-> FALSE]

SizeInStore(o) == IF o = Absent THEN 0 ELSE IF o.filtered THEN shape.fsize ELSE ChunkSize

Fault(w) == [w |-> [w EXCEPT !.faults = @ - 1], ok |-> FALSE]

\* Mutant: the size in the store is counted, not that of the data in memory.
get_chunkRawSize(w, c) ==
    (IF w.faults > 0 THEN {Fault(w)} ELSE {}) \cup
    UNION {IF ~o.ok THEN {o}
           ELSE {[o EXCEPT !.w.cache.used = @ + SizeInStore(w.store[c])]} \cup
                (IF o.w.faults > 0 /\ w.store[c] # Absent THEN {Fault(o.w)} ELSE {}) :
           o \in makeroom(w, SizeInStore(w.store[c]))}

\* nczmap_len, room, nczmap_read, and the space of the new chunk is counted.
get_chunk(w, c) ==
    (IF w.faults > 0 THEN {Fault(w)} ELSE {}) \cup
    UNION {IF ~o.ok THEN {o}
           ELSE {[o EXCEPT !.w.cache.used = @ + SizeOf(Fetched(w.store[c]))]} \cup
                (IF o.w.faults > 0 /\ w.store[c] # Absent THEN {Fault(o.w)} ELSE {}) :
           o \in makeroom(w, SizeInStore(w.store[c]))}

\* Only after the cache has been verified is the entry put into it.
Insert(w, c, e) ==
    [w EXCEPT !.cache.entry[c] = e,
              !.cache.mru = Append(@, c),
              !.cache.lru = <<c>> \o @]

\* Mutant: the node is not unlinked first.
TouchLinked(w, c) == [w EXCEPT !.cache.lru = <<c>> \o @]

\* ncxcachetouch
Touch(w, c) == [w EXCEPT !.cache.lru = <<c>> \o Only(@, Chunks \ {c})]

NCZ_read_cache_chunk(w, c) ==
    IF w.cache.entry[c] # NoEntry THEN {[w |-> Touch(w, c), ok |-> TRUE]}
    ELSE UNION {IF ~g.ok THEN {g}
                ELSE {IF v.ok THEN [v EXCEPT !.w = Insert(v.w, c, Fetched(w.store[c]))] ELSE v :
                      v \in verifycache(g.w)} :
                g \in get_chunk(w, c)}

\* Mutant: the chunk is not marked.
ModifyUnmarked(w, c, v) ==
    LET e == w.cache.entry[c]
    IN  [w EXCEPT !.cache.entry[c] = [e EXCEPT !.data = IF e.filtered THEN Garbage ELSE v]]

\* The data of the chunk is overwritten; NCZ_transfer then calls
\* NCZ_chunk_cache_modify, NCZ_transferscalar does not.
Modify(w, c, v) ==
    LET e == w.cache.entry[c]
    IN  [w EXCEPT !.cache.entry[c] =
            [e EXCEPT !.data = IF e.filtered THEN Garbage ELSE v, !.modified = @ \/ ~shape.scalar]]

----------------------------------------------------------------------------
(* NCZ_flush_chunk_cache *)

\* The first n chunks of mru are written and clean.
Flushed(w, n) ==
    LET done == {w.cache.mru[i] : i \in 1 .. n}
        put == {x \in done : w.cache.entry[x].modified}
    IN  [w EXCEPT
           !.cache.entry = [x \in Chunks |->
               IF x \in put THEN [Encoded(w.cache.entry[x]) EXCEPT !.modified = FALSE] ELSE @[x]],
           !.store = [x \in Chunks |-> IF x \in put THEN Object(w.cache.entry[x]) ELSE @[x]]]

\* Mutant: the entry is marked clean before put_chunk is called.
FlushFailedClean(w, n) ==
    LET x == w.cache.mru[n]
    IN  Fault([Flushed(w, n - 1) EXCEPT
                 !.cache.entry[x] = [Encoded(@) EXCEPT !.modified = FALSE]])

\* put_chunk of the n-th fails: it is left modified, but filtered.
FlushFailed(w, n) ==
    LET x == w.cache.mru[n]
    IN  Fault([Flushed(w, n - 1) EXCEPT !.cache.entry[x] = Encoded(@)])

Recomputed(w) ==
    [w EXCEPT !.cache.used = Space(w.cache.entry, ToSet(w.cache.mru))]

NCZ_flush_chunk_cache(w) ==
    LET n == Len(w.cache.mru)
        dirty == {i \in 1 .. n : w.cache.entry[w.cache.mru[i]].modified}
    IN  IF n = 0 THEN {[w |-> w, ok |-> TRUE]}
        ELSE verifycache(Recomputed(Flushed(w, n))) \cup
             (IF w.faults > 0 THEN {FlushFailed(w, i) : i \in dirty} ELSE {})

----------------------------------------------------------------------------
(* The calls of the user *)

Empty == [entry |-> [c \in Chunks |-> NoEntry], lru |-> <<>>, mru |-> <<>>, used |-> 0]

Becomes(w) == cache' = w.cache /\ store' = w.store /\ faults' = w.faults

\* nc_create of the dataset; nc_open of one that is there.
Open(how) ==
    /\ mode = "closed"
    /\ how = "create" => \A c \in Chunks : store[c] = Absent
    /\ mode' = how
    /\ saved' = FALSE
    /\ UNCHANGED <<cache, store, faults, shape>>

Returns == saved' = FALSE /\ UNCHANGED <<mode, shape>>

\* NCZ_transfer for one chunk, or NCZ_transferscalar, reading.
Read(c) ==
    /\ mode # "closed"
    /\ \E o \in NCZ_read_cache_chunk(World, c) : Becomes(o.w)
    /\ Returns

\* The same, writing.
Write(c, v) ==
    /\ mode \in {"create", "write"}
    /\ \E o \in NCZ_read_cache_chunk(World, c) :
          Becomes(IF o.ok THEN Modify(o.w, c, v) ELSE o.w)
    /\ Returns

\* NCZ_sync; the same happens at nc_enddef.
Sync ==
    /\ mode \in {"create", "write"}
    /\ shape.sync
    /\ \E o \in NCZ_flush_chunk_cache(World) : Becomes(o.w) /\ saved' = o.ok
    /\ UNCHANGED <<mode, shape>>

\* NCZ_close flushes twice, in ncz_sync_netcdf4_file and in zwrite_vars; after an
\* error the file stays open.
Close ==
    /\ mode # "closed"
    /\ \E o \in NCZ_flush_chunk_cache(World) :
       \E p \in IF NoWrite \/ o.ok THEN NCZ_flush_chunk_cache(IF NoWrite THEN World ELSE o.w)
                                   ELSE {o} :
          /\ Becomes(IF p.ok THEN [p.w EXCEPT !.cache = Empty] ELSE p.w)
          /\ mode' = IF p.ok THEN "closed" ELSE mode
          /\ saved' = p.ok
    /\ UNCHANGED shape

\* NCZ_abort: nothing is flushed, and a file that is being created is deleted.
Abort ==
    /\ mode # "closed"
    /\ cache' = Empty
    /\ store' = IF mode = "create" THEN [c \in Chunks |-> Absent] ELSE store
    /\ mode' = "closed"
    /\ saved' = FALSE
    /\ UNCHANGED <<faults, shape>>

\* The process is lost.
Crash ==
    /\ mode # "closed"
    /\ cache' = Empty
    /\ mode' = "closed"
    /\ saved' = FALSE
    /\ UNCHANGED <<store, faults, shape>>

Init ==
    /\ shape \in Shapes
    /\ cache = Empty
    /\ store = [c \in Chunks |-> Absent]
    /\ faults = shape.faults
    /\ mode = "closed"
    /\ saved = FALSE

Next ==
    \/ \E how \in {"create", "write", "read"} : Open(how)
    \/ \E c \in Chunks : Read(c)
    \/ \E c \in Chunks, v \in Values : Write(c, v)
    \/ Sync
    \/ Close
    \/ Abort
    \/ Crash

Spec == Init /\ [][Next]_vars

----------------------------------------------------------------------------
(* Properties *)

Entries == [data : Values \cup {Fill, Garbage}, filtered : BOOLEAN, modified : BOOLEAN]

\* The cache, the store and the mode have the values the code gives them; the
\* chunks in the LRU list, those in mru and those the table finds are the same,
\* each once, as NCZ_free_chunk_cache and constraincache assert.
TypeOK ==
    /\ cache.entry \in [Chunks -> Entries \cup {NoEntry}]
    /\ \A list \in {cache.lru, cache.mru} :
          IsInjective(list) /\ ToSet(list) = {c \in Chunks : cache.entry[c] # NoEntry}
    /\ cache.used \in Nat
    /\ store \in [Chunks -> [filtered : BOOLEAN, data : Values \cup {Fill, Garbage}] \cup {Absent}]
    /\ faults \in 0 .. shape.faults
    /\ mode \in {"closed", "create", "write", "read"}
    /\ saved \in BOOLEAN

\* cache.used is at least the space of the chunks in the cache: the subtraction
\* in constraincache, and the assertion before it, rest on this whatever filters
\* did to the sizes and whatever call failed half-way.
UsedCovers ==
    cache.used >= Space(cache.entry, ToSet(cache.mru))

\* The limits the user set hold up to the chunk that was read last: it is put in
\* after the cache has been verified.
Bounded ==
    /\ Len(cache.mru) <= shape.nelems + 1
    /\ cache.used <= shape.size \/ Len(cache.mru) <= 1

InStore(s) == [c \in Chunks |-> IF s[c] = Absent THEN Fill ELSE Decoded(s[c])]

Content ==
    [c \in Chunks |-> IF cache.entry[c] # NoEntry THEN Real(cache.entry[c]) ELSE InStore(store)[c]]

\* When nc_sync or nc_close returns NC_NOERR, every chunk is in the store as the
\* user saw it before the call, also after earlier calls that failed half-way.
SyncSaves == [][saved' => InStore(store') = Content]_vars

\* While a file is open for reading only, nothing is written to the store, not
\* even the fill chunks made for what is not there.
ReadOnlyStays == [][NoWrite => store' = store]_vars

\* The cache implements a store of chunks: reads return what was written, through
\* eviction, write-back, filters, close and reopen, and only a failed write to the
\* store loses a chunk.
Abstract == INSTANCE ChunkStore WITH
    content <- Content, saved <- InStore(store), faults <- faults,
    MaxFaults <- Max({s.faults : s \in Shapes})

IsStore == Abstract!Spec
=============================================================================
