# A verification project for netCDF-C

netCDF-C stores self-describing arrays. Its oldest and most used part, the
*classic* library (`libsrc/`), writes a file format (CDF-1, CDF-2, CDF-5) by
itself: a header with dimensions, variables and attributes, the data of the
fixed-size variables, and records that grow along one unlimited dimension. The
header and the layout can be changed after data has been written; the data is
then moved in place. All I/O goes through page buffers, and the promises of
`nc_sync`, `nc_enddef`, `nc_abort` and `nc_close` are promises about what is in
the file when the process is gone. That is the first part of the system these
modules are about. The second is the core of *NCZarr* (`libnczarr/`): how a
request for a slice is cut into chunks, the cache the chunks go through, and the
hash table under it. Other parts (HDF5, DAP) rest on libraries or servers
outside the repository, and are inventoried below.

## 1. Inventory

| Component | State | Operations | What makes it correct |
|---|---|---|---|
| **Classic dataset** `libsrc/nc3internal.c`, `dim.c`, `var.c`, `attr.m4` | `NC3_INFO`: dims, vars, attributes, `numrecs`, the copy `old` kept by a redefinition, six flags | create, open, redef, enddef, sync, abort, close; define, rename, put and delete; set_fill | names are unique; dirty flags tell the truth; what was synchronised survives; an abort restores |
| **Layout** `nc3internal.c` (`NC_begins`, `NC_endef`), `v1hpg.c` (`NC_computeshapes`), `putget.m4` | `begin` of each variable, `begin_var`, `begin_rec`, `recsize`, the bytes of the file | nc__enddef, put_vara, close and reopen | no move, fill or write destroys data; a header reads back as it was |
| **Buffered I/O** `posixio.c` behind `ncio.h` | a buffer of two pages, a slave buffer, flags, a reference count | get, rel, move, sync, close | the file behind the buffers is an array of bytes |
| **Name hash table** `libdispatch/nchashmap.c` | an open-addressing table with deleted slots | new, add, remove, get, setdata, deactivate, rehash | it is a map; its size is the first prime; calls return |
| **Header codec** `v1hpg.c` | a window over the header in the file | put and get of each element | what is read is what was written |
| **I/O in memory** `memio.c`, `mmapio.c` | memory that grows, persisted on close | as `ncio.h` | array of bytes; persisted once |
| **Open files** `libdispatch/nclistmgr.c`, `nc.c`, `dfile.c` | a table of 65536 files, indexed by the upper half of an ncid | add, find, delete | an id denotes one open file |
| **Name index** `ncindex.c` | a list and a hash map | add, lookup, delete, rebuild | both agree |
| **Sharing** `putget.m4`, `posixio.c` (`spx`) | two processes, each with its own `numrecs`, and the file | put, get, sync, close, reopen | a reader sees what was put before; no record without content; it is served |
| **Extensible hash** `ncexhash.c` | a directory of leaves, leaves of entries, a chain of leaves | put, get, remove, walk; split, double | it is a map whatever the splits did; a walk is complete; a put ends |
| **Chunk cache** `libnczarr/zxcache.c` over `ncxcache.c` | entries, LRU list, arrival list, space used | read, write, evict, flush, close | a modified chunk is written before it is dropped; limits hold |
| **Slices of NCZarr** `zvar.c`, `zchunking.c`, `zodom.c`, `zwalk.c` | lengths of dimensions, projections, odometers | nc_put_vars, nc_get_vars | exactly the points asked for move, each to its place |
| **Enhanced model** `libsrc4/` | groups, types, variables | definitions | reference counts, name scopes |
| **netCDF-4 on HDF5** `libhdf5/`, **HDF4**, **PnetCDF**, **NcML** | in libraries outside the repository | | |
| **Rest of NCZarr** `libnczarr/`, **DAP clients** `libdap2/`, `libdap4/`, `oc2/` | JSON metadata, remote data | | |
| **Utilities** `ncdump/`, `ncgen/`, `ncgen3/`; **filters** `plugins/` | none that lasts | | |

**How they interact.** A call of the API finds the dataset in the table of open
files and dispatches to the classic library. That finds names through the hash
table, changes the header in memory, and marks it dirty or, in define mode, waits
for `NC_endef`, which computes offsets (`NC_begins`), moves records and variables
through `ncio_move`, writes the header through the codec, and fills. Every byte
passes the buffers of the I/O layer. With `NC_SHARE` the I/O layer has no buffer
that outlives a call, and the header is read again by `nc_redef`; a second
process may then read the file. In NCZarr a call of `nc_put_vars` or
`nc_get_vars` extends unlimited dimensions, projects the slice onto chunks, and
takes each chunk from the cache, which finds it through the extensible hash
table or reads it from the store, evicting others.

**What is hard here.** The library is not thread-safe and does not mean to be;
nothing runs concurrently within a process. Two processes may share a classic
file, without locks. The hard behaviours are:

- *sequences of legal calls*: renames in data mode, in define mode and across
  re-reads; `nc_set_fill`, which synchronises in any mode;
- *failures in the middle*: `NC_endef` has written the header when its fill fails;
  a page-in fails after the buffer has been shifted;
- *crashes* between a write to the buffer and its page-out;
- *order*: moves in place over overlapping regions, by two loops whose order
  depends on which sections move;
- *two copies of one thing*: header, page and disk; main buffer and slave; the
  `numrecs` of two processes and of the file; a chunk filtered and unfiltered;
- *interleaving*: a reader may look at the file between any two writes of a put;
- *limits*: a cache that must evict what it is about to need, a directory for
  which there is no memory;
- *boundaries*: exactly one record variable (records are packed), a section limit,
  the last prime of a table, a stride that steps over a chunk, a reader that asks
  for exactly the next record.

`PROJECT.json` lists each of these as a hazard, at its line.

## 2. Modules

| Module | Models | Lines it stands for |
|---|---|---|
| `NC3File` | life of one dataset in one process | `nc3internal.c`, `dim.c`, `var.c`, `attr.m4`, `NCvnrecs` of `putget.m4` |
| `NC3FileProofs` | theorems about `NC3File` | |
| `NC3Layout` | offsets, moves, fills, records, reopening | `NC_begins` to `NC_endef`, `NC_computeshapes`, `NC_check_voffs`, fills |
| `ByteFile` | what `ncio.h` promises (abstract) | `ncio.h` |
| `PosixIO` | the `px` functions | `posixio.c` |
| `NameMap` | what `nchashmap.h` promises (abstract) | `nchashmap.h` |
| `HashMap` | the hash table | `nchashmap.c` |
| `PrimeTable` | the size of a table, loop by loop | `nchashmap.c` |
| `NC3Share` | a writer and a reader process on one file | `putget.m4`, `nc3internal.c`, `spx` of `posixio.c` |
| `ExHash` | the extensible hash table | `ncexhash.c` |
| `ChunkStore` | what a store of chunks promises (abstract) | `zxcache.c`, as its callers use it |
| `ChunkCache` | the chunk cache and its LRU list | `zxcache.c`, `ncxcache.c`, callers in `zwalk.c`, `zsync.c`, `zfile.c` |
| `ZTransfer` | reading and writing slices | `zvar.c`, `zchunking.c`, `zodom.c`, `zwalk.c` |
| `MC...` | instances of the modules above for TLC | |
| `NC3LayoutProofs`, `NC3ShareProofs`, `HashMapProofs`, `ExHashProofs`, `PosixIOProofs`, `ChunkCacheProofs` | theorems about the modules they are named after, those of `HashMapProofs` about `PrimeTable` too | |
| `Recursion` | induction for those proofs | |

### NC3File

`mem` is the header of `NC3_INFO`, `old` its copy, `state` the flags, `ioflags`
those of the I/O layer. `page` is the header as a read through the I/O layer
would return it, `disk` the one in the file: without `NC_SHARE` they differ until
a flush or a page-out (`px_pgout`, which may come at any time, since any access to
data may need the buffer); with `NC_SHARE` a write goes to the file at once.
`saved` is a history variable: the header at the last call that reported it
synchronised.

Each call is one action, with everything it calls. Errors that are found before
anything changes are stutters and have no disjunct. The header is abstract: a
dimension is a name and whether it is unlimited; a variable a name, whether it is
a record variable, `no_fill`, and its `_FillValue` (none, of the right type, of a
wrong type); global attributes are a set. A name has two lengths, as in the
code: `strlen(cp)` and `nchars`, the room in the header, which a rename in data
mode leaves as it was. `ncx_put_NC` models writing and reading a header: `no_fill`
has no place in the file and comes back as 0.

`IOFails` lets every read and write of the file fail. A failing `NC_endef` may
have written the header or not (`EndefFailPages`). `nc_close` in data mode closes
the file even if `NC_sync` has failed, but returns with the dataset still open when
`ncio_pad_length` fails. The model keeps both.

### NC3Layout

The file is a function from offsets to bytes, and a byte of data is the triple
(variable, record, position), so that a byte in the wrong place is seen. The
header takes `HBase + HVar * nvars + HAtt * natts` bytes. `NC_begins` is translated
with its two passes over the variables, its different use of the old begins in
the two (`raise`), and its exit on an offset beyond `X_OFF_MAX`, which leaves a
changed `begin_rec` behind. `move_recs_r` and `move_vars_r` are recursive
functions that make one `ncio_move` per step, in the order of the loops, with the
lengths the code uses (the rounded ones, also where records are packed);
`MoveRecord` is the inner loop of `move_recs_r`. `InFile` is the bound: a call that
would make the file larger than `FileSize` is not taken.
`Reopened` is a close followed by an open: `NC_computeshapes` computes sections and
record size again, by another algorithm than `NC_begins`. `numrecs` is the number
of records in the file's header, which `nc_abort` does not bring up to date.

### PosixIO and ByteFile

`px` is the buffer (`bf_offset`, `bf_extent`, `bf_cnt`, `bf_base`, flags), `slave` the
second one. `px_get` is an operator on (file, buffer) with the five cases of the
code: hit in the lower half, hit in the upper half, the page below, nothing there,
too large. It is used for the main buffer and, in `px_double_buffer`, for the
slave. Callers keep the discipline of `libsrc`: one region at a time, and moves only
from `NC_endef`, in its order, away from the beginning of the file (`InOrder`: packed
records, of which the rounded length is moved, overlap their neighbours). A move may
fail in any of its chunks, in the main buffer or in the slave; `NC_endef` then makes no
other one.
`ByteFile` is an array of bytes with `Put`, `Move`, `Sync` and `Lose`. The refinement
mapping takes the buffer's bytes over the file's, and a `Hole` for a byte of which
nothing is promised. Two simplifications: the seek position is left out (reads
and writes go to the offset that is meant), and after a leaked reference the
model goes on where an assertion would end the process.

### HashMap, NameMap, PrimeTable

`table` is the array of slots, `Hash` any function from names to keys. `locate`
follows the probe sequence to the first slot that is empty or holds the key, and
takes a deleted slot only if there is no empty one. `rehash` inserts the active
entries, last slot first, into a table of the next prime from twice the size.
`NameMap` is a map with a count; the mapping evaluates `NC_hashmapget` for every
name. `PrimeTable` has one step per iteration of the loops of
`findPrimeGreaterThan` and `nextPrime`, to speak about their termination.

### NC3Share

`file` is what both processes see: `numrecs` in the header, and for each record
of each variable the number of the put that wrote it, `Fill`, or `Hole` (zeros that
nobody wrote). `w` and `r` are the `NC3_INFO` of the two processes, with the call in
progress. With `NC_SHARE` every `ncio_get` reads the file and every `ncio_rel`
writes it, so a step is one such access: the fill of one variable of one record,
`write_numrecs`, one `writeNCv`, one `readNCv` (all records at once when there is only
one record variable, else one). Growing a file is therefore several steps, and
readers and crashes come between them. `Faults` says which accesses of the writer
may fail: `"fill"`, `"numrecs"` and `"data"` are errors the code sees, `"lost"` is a
failure of `ncio_rel`, whose status `putNCvx` and `write_numrecs` discard. The
history `told` is what the writer was told to be written; while an earlier error
has left `numrecs` dirty a put that succeeds adds to it only with the next `nc_sync`
or `nc_close`. There is one reader: readers change nothing and do not see each other.

### ExHash

`directory`, `leaf` and the chain `leaves` are the structures of the code; entries are
kept in the order the binary search needs. `exhashlocate` repeats `exhashsplit` until
the leaf has room; each split is a step, so that its termination is a property. A
split hands the odd slots of a leaf to the new one whatever the local depth, as the
code does. `exhashsplitNoMemory` is the split whose directory cannot be doubled.
The table implements `NameMap`, the abstract map `HashMap` implements too. A walk
(`ncexhashiterate`) goes along the chain, a step per entry; its caller
changes nothing meanwhile.

### ChunkCache and ChunkStore

`cache` holds entries (data, filtered or not, modified or not), the LRU list, `mru`
in order of arrival, and `used`. `store` holds the objects, filtered if the variable
has filters. Functions of the code that may fail half-way are operators from a
*world* (cache, store, faults left) to the set of its outcomes; `constraincache`
evicts the victims in order, and a failed write loses its chunk while the others
go on, as in the code. A shape says whether there are filters, how large a filtered
chunk is, the two limits, how many calls of the store fail, and whether `nc_sync` is
called. `ChunkStore` promises that reads return the last write and that only a
failed write loses a chunk; eviction is invisible in it.

### ZTransfer

The data is left out: what counts is which place of which chunk meets which place of
the memory. A call begins with the checks of `NCZ_put_vars` or `NCZ_get_vars` and the
extension of unlimited dimensions; then the projections of each dimension are
computed, and the walk goes over chunks, and in a chunk over points or rows, a step
each. `moved` is the history of places that have met; `Exact` compares it with the
definition of a slice.

## 3. Runs

Bounds that would multiply are given as *sets of shapes* (`Bounds`, `Shapes`,
`Budgets`): a behaviour stays within one of them, so that one run covers several
instances without their product.

| Run | Instance | Shows |
|---|---|---|
| `dataset` | two names of different length; two dimensions, or two variables, or two attributes, or one record variable with two records; with and without `NC_SHARE`; no I/O errors (636,718 states) | `TypeOK`, `NamesUnique`, `DirtyFlags`, `Durable`, `SyncOnDisk`, `OldWhileRedef`, `CloseOnDisk` |
| `ioerrors` | a record variable with a wrong `_FillValue`; every read and write may fail; no `NC_SHARE` | `Durable`, `SyncOnDisk` |
| `layout` | three variables of one size, or two of two sizes with two records, or a header that grows; `nc_enddef` and `nc__enddef(0, 4, 2, 4)`; alignment 2 stands for 4, everything else in proportion | `TypeOK`, `ContentIntact`, `HeaderReadable`, `ReopenAgrees` |
| `posix` | three pages of two bytes, a buffer of two pages; two writes of one or two bytes with failing page-outs, or one write and two moves with failing page-outs and failing reads of the slave | `TypeOK`, `IsByteFile` |
| `hashmap` | three names, two with one key, the third colliding with them after a rehash; first table of three slots | `NoDuplicates`, `IsMap` |
| `primes` | a table of twelve primes, sizes 2 to 140 and the limit | `FirstPrime`, `TerminatesBelowLast` |
| `posix_varsfirst` | four pages of four bytes, one write, two moves | `IsByteFile` is violated |
| `exhash` | keys of four bits, leaves of two entries: eight keys that crowd in two corners of the directory; or five keys with two data and no memory beyond four slots | `TypeOK`, `IsMap`, `WalkComplete`, `LocateEnds` |
| `zcache` | three chunks of two bytes; without filters, with `nc_sync` and one or two failing calls of the store; with filters that halve a chunk or add half; limits of one to three chunks and of four or five bytes | `TypeOK`, `UsedCovers`, `Bounded`, `SyncSaves`, `ReadOnlyStays`, `IsStore` |
| `ztransfer` | one dimension of length 7 in chunks of 1, 2, 3, 4 and 7, every start, count and stride up to 5; two dimensions; unlimited dimensions that start empty, stride 1 | `TypeOK`, `Exact`, `ReadsNeeded`, `Accepts`, `Ends` |
| `share` | one or two record variables, two records, two puts, one crash, every error the code sees; a reader that calls `nc_sync` when it is refused (451,268 states) | `TypeOK`, `NoHoles`, `Fresh`, `PutsStay`, `Served` |
| `share_poll` | two variables, one record, one put; a reader that just asks again | `Served` is violated |

**Why the bounds are enough.** Names: two objects and two names, one shorter, give
every rename that fits or does not, and every clash. Records: `NC_sync` treats
`numrecs` only as equal to or different from the page's, so two records give
"stale", "current" and "ahead of a stale one". Layout: three variables give a moved
variable between two others and a record section after fixed-size ones; one, two
and three record variables give packed, newly padded and padded records; the
offset limit lies where the first pass and where the second pass can exceed it.
Buffers: three pages and a buffer of two are the smallest file on which all five
cases of `px_get` and a page that is in neither half occur; moves of three bytes
need two chunks, one of them a whole page. Hash table: three slots reach the load limit with two names, so
that a table of deleted slots, a rehash, and a collision in the larger table all
occur. Extensible hash: four bits and leaves of two are the smallest keys for which a
leaf owns slots that are not neighbours, a split moves nothing, and a leaf loses
its last slot. Cache: three chunks and a limit of one or two make every read evict,
and both limits are met first by one of the shapes. Slices: a stride of five over
chunks of two steps over two whole chunks; length 7 leaves a short last chunk for
every chunk but 1 and 7. Sharing: two records and two puts give a put that grows by
two, one that overwrites, a retry after an error and a restart that fills what its
predecessor had filled; more readers or longer gets add nothing a step of the writer
can tell apart. The mutants of the modules (a dropped look-up, records moved in the
other direction, a missing page-out, a removed entry that becomes empty, ...)
are each found within these bounds.

**Fairness.** A call that has begun is carried on until it returns: it waits for
nothing. So `PrimeTable`, `ExHash` and `ZTransfer` have weak fairness of the steps of
a call, and none of the beginning of one; an iteration that changes nothing repeats
its state, so that an endless loop shows as a behaviour that stutters for ever.
`NC3Share` has weak fairness of the reader's steps, and of its application asking
again after a refusal, which is the assumption of `Served`; it has none of the
writer, which may stop or die at any time. In the other modules every call is one
step, and nothing has to happen by itself.

**Deadlock** is not checked in `hashmap`, where a failed assertion ends the process.

## 4. What the runs found

1. **`posix_varsfirst`** - `px_double_buffer` copies the main buffer into the slave
   only when it creates the slave. When `begin_rec` stays, `NC_endef` moves
   variables, then records; the slave that is left from the variables reads from
   the file a page that is modified in the main buffer, and a record that was
   written just before `nc_redef` is replaced by its old bytes.
2. **`share_poll`** - a reader with `NC_SHARE` reads `numrecs` again only if it asks for
   a record *beyond* its copy (`NCcoordck`). Asked for the next record, the one that
   equals its copy, `NCedgeck` refuses; so does `NC3_get_vara` for a slice that begins
   below and ends beyond it. A reader that waits for the next record by asking for
   it is refused for ever, although the documentation says that with `NC_SHARE`
   `nc_sync` is not necessary (`dfile.c:1183-1186`). With `nc_sync` after each refusal
   it is served (`share`).

Further observations, most of them violations of a formula of a module (in
brackets) once the instance admits them, and left out of the passing runs for that
reason. The MC modules keep the constants of the instances.

- `NC3File`, one variable: `nc_abort` closes the file; it never writes `old` back. Once
  `nc_set_fill` back to `NC_FILL`, or an `nc_enddef` that failed in its fill, has
  written the new header, the file keeps it, although the documentation says it is
  restored, `dfile.c:1242-1244` (`AbortRestores`). `nc_close` in define mode, whose
  implicit `nc_enddef` fails in its fill, ends the same way.
- `NC3File`, one variable: a record is written, `nc_redef`, `nc_set_fill(NC_NOFILL)`,
  `nc_set_fill(NC_FILL)`: `NC_sync` calls `write_numrecs`, which asserts that the
  dataset is not in define mode (`AssertionsHold`).
- `NC3File`, one attribute: `NC3_del_att` compares the length of the name with
  `nchars`. An attribute renamed to a shorter name in data mode is found by every
  call but not by `nc_del_att` (`DelAttFindsAll`).
- `NC3Layout` with `MCUnaligned` and `MCOneVar`: `nc__enddef` with a `v_minfree` that is
  not a multiple of four and `r_align` 1 moves packed records by that much, and
  `move_recs_r` moves four bytes for each record of one byte, over records it has
  moved already (`ContentIntact`). The documentation says the alignments are
  rounded up to four, `dfile.c:1107`.
- `PrimeTable`: for a size between the last two primes of the table (180498 to 180503)
  the binary search never ends: the upper bound starts at the index of the answer
  and is never looked at (`Terminates`). `NC_hashmapnew` asks for such a size when a
  file with about 135374 dimensions or variables is opened.
- `ChunkCache` with `SyncShapes`: `put_chunk` filters the entry in place, and
  `NCZ_flush_chunk_cache` keeps it; after `nc_sync` or `nc_enddef` a hit in the cache
  hands out filtered bytes as data (`IsStore`).
- `ChunkCache` with `ScalarShapes`: `NCZ_transferscalar` never calls
  `NCZ_chunk_cache_modify`; a scalar whose chunk is already in the store is changed in
  the cache only, and `nc_close` returns `NC_NOERR` without writing it (`SyncSaves`).
- `ChunkCache` with a filter that makes chunks larger and a store that fails: a flush
  that breaks off has filtered the entries up to the failing one in place and does
  not compute `used` again, which is then less than the space of the entries
  (`UsedCovers`); the assertion in `constraincache` rests on it. With any filter the
  chunk whose write has failed stays in the cache filtered, as after `nc_sync`
  (`IsStore`).
- `ChunkCache`: `constraincache` returns the status of the last victim, since
  `ncxcacheremove` sets it anew: the error of a failed write is lost when another
  victim follows, modified or not. (A call evicts two only where a filter makes the
  chunks larger, and there the store of the run does not fail.) `makeroom` evicts as much as is needed even
  when there is room. When `ncxcacheinsert` fails, the entry is freed and stays in
  `mru` (not modelled: a failing allocation). `nc_set_var_chunk_cache` has no effect on
  a cache that is in use.
- `ZTransfer` with `UnlimitedShapes`: a put with stride greater than 1 on an unlimited
  dimension is refused with `NC_ECONSTRAINT`, or fails the assertion of
  `nczodom_new`: the slice stops at `start + count * stride`, beyond the new length of
  the dimension (`Accepts`).
- `ZTransfer`: a put with a zero count and a start on the boundary of a chunk reaches
  `NCZ_transfer` with an empty array of projections and reads beyond it (`stat` is
  then `"undefined"`).
- `NC3Share` with fault `"lost"`: an error of the write itself is reported to nobody,
  since `putNCvx` and `write_numrecs` ignore the status of `ncio_rel`, which with
  `NC_SHARE` is what writes (`PutsStay`).
- `NC3Share`: after a put that failed once `numrecs` had grown in memory, the retry
  returns `NC_NOERR` without writing `numrecs`; readers see the record only after
  `nc_sync`. `PutsStay` allows for this.
- `read_numrecs` clears `NC_NDIRTY` in `flags`, where the flag is one of `state`. It is
  called for readers only, which never have the flag.
- `NC3File` with `IOFails` and `NC_SHARE`: `read_NC` frees the header before it
  reads it; if the read in `nc_redef` fails and a rename was pending (`NC_HDIRTY`),
  the next `nc_sync` writes the empty header (`Durable`).
- `NC3File` with `IOFails`: `nc_close` ignores the status of `ncio_close`, whose
  flush may fail, and returns `NC_NOERR` (`CloseOnDisk`).
- `NC3Layout` with two `nc__enddef` of which the second has a larger `r_align`:
  `NC_begins` compares `begin_rec` with the old one before it computes it again,
  the new one is smaller, and the assertion at `nc3internal.c:869` fails (`aborted`).
- `NC3Layout`: after `NC_EVARSIZE` in the record pass `begin_rec` stays changed; the
  next attempt starts from it. `ContentIntact` and `HeaderReadable` hold all the same.
- `PosixIO` with failure `"in"`: on a hit in the upper half a failing page-in
  returns with `bf_offset` moved and `bf_extent` still two pages; the next call takes
  the stale upper half for the page that was not read (`IsByteFile`).
- `PosixIO` with failure `"short"`: `px_pgin` takes a read that a signal has cut
  short for the end of the file, and zeros are written over the rest (`IsByteFile`).
- `PosixIO` with failure `"slave"`: `px_double_buffer` returns without releasing the
  destination; `bf_refcount` stays 1.
- `PosixIO`: an `nc_enddef` that fails in a move leaves the slave; called again at once,
  it finds a slave of old pages and meets the flaw of `posix_varsfirst` with records
  first too (`IsByteFile`, when `InOrder` admits any move after a failed one). `InOrder`
  leaves this out, and a move of what has been moved before, which needs the
  alignments of `MCUnaligned` (above).
- `HashMap`: `NC_hashmapsetdata` of an absent name fails an assertion where its
  comment promises 0 (`aborted`).

## 5. What is proved

The theorems hold for every value of the constants that satisfies the named
assumption of the module (`NC3FileAssumption`, `PosixIOAssumption`, ...: the types of
the constants). Where a theorem has a further hypothesis it is written in the
theorem, and is needed or is a fact of the code. Each inductive invariant was checked
by TLC on the instance of a run before it was proved. A proof of a step has one lemma
per call; facts about an operator of the model are lemmas about that operator.

| Module | Theorem | Hypothesis | States |
|---|---|---|---|
| `NC3FileProofs` | `TypeCorrect` | | `[]TypeOK` |
| | `FlagsTellTheTruth` | `Reliable` | `[]DirtyFlags` |
| | `SynchronisedIsDurable` | `Reliable` | `[]Durable` |
| | `OldOnlyInRedef` | | `[]OldWhileRedef` |
| | `NamesStayUnique` | | `[]NamesUnique` |
| | `SyncedIsOnDisk` | `Reliable` | `[]SyncOnDisk` |
| | `ClosedIsOnDisk` | `IOFails = FALSE` | `CloseOnDisk` |
| `NC3ShareProofs` | `ShareTypeCorrect` | | `[]TypeOK` |
| | `ReadersSeeNoHoles` | | `[]NoHoles` |
| | `PutsAreDurable` | `NoLost` | `[]PutsStay` |
| | `GetsAreFresh` | `NoLost` | `[]Fresh` |
| `HashMapProofs` | `NamesInOneSlot` | `Bertrand` | `[]NoDuplicates` |
| | `ImplementsMap` | `Bertrand` | `IsMap`, the refinement of `NameMap` |
| | `ReturnsFirstPrime` | `TrueTable` | `[]FirstPrime` |
| `ExHashProofs` | `TypeCorrect` | | `[]TypeOK` |
| | `ImplementsMap` | | `IsMap`, the refinement of `NameMap` |
| | `WalksAreComplete` | | `WalkComplete` |
| `PosixIOProofs` | `BufferTypeCorrect` | `Buffered` | `[]TypeOK` |
| | `BufferImplementsBytes` | `Buffered` | `IsByteFile`, the refinement of `ByteFile` |
| `NC3LayoutProofs` | `TypeCorrect` | | `[]TypeOK` |
| | `HeaderAccepted` | | `[]HeaderReadable` |
| | `OffsetsAgree` | | `[]ReopenAgrees` |
| | `ContentKept` | `Aligned` | `[]ContentIntact` |
| `ChunkCacheProofs` | `ReadOnlyUntouched` | | `ReadOnlyStays` |
| | `CacheTypeCorrect` | `Shrinks` | `[]TypeOK` |
| | `SpaceCovered` | `Shrinks` | `[]UsedCovers` |
| | `SpaceBounded` | `Shrinks` | `[]Bounded` |
| | `SavesAll` | all shapes `Survives` | `SyncSaves` |
| | `CacheIsStore` | all shapes `Survives`, finitely many | `IsStore`, the refinement of `ChunkStore` |

### NC3File

- **`TypeCorrect`**, with and without I/O errors. `TypeOK` is not inductive:
  `NC_sync` patches `numrecs` into the page, which must then be a header and not
  `Empty`. `PageInv` says that a dataset without a header page is being created and
  has no dirty `numrecs`; `TypeInv = TypeOK /\ PageInv` is inductive.
- **`FlagsTellTheTruth`**. While `NC_HDIRTY` is clear, the page is the header in memory
  up to `numrecs`. The step that needs an argument is re-opening and re-reading: what
  is read is what `ncx_put_NC` once wrote, and writing it again changes nothing.
  `StoredInv` says so of page and file, `OpenInv` what a closed dataset has left;
  `FlagsInv = TypeInv /\ OpenInv /\ StoredInv /\ DirtyFlags` is inductive.
- **`SynchronisedIsDurable`**. Dimensions, variables and records that `nc_sync` or
  `nc_enddef` reported to be on disk are never lost again. The invariant behind it is
  a chain, `Order(mem, page, disk)`: once a dataset is out of creation, memory has at
  least what the page has and the page at least what the file has, so that whatever
  is flushed, whenever, the file only grows. `ChainInv` states it, with the fact that
  during creation nothing has been promised yet.
- **`OldOnlyInRedef`**: the copy of the header exists exactly while an existing dataset
  is redefined. Inductive with the fact that a closed dataset has neither flags nor a
  copy (`ModeInv`), since `NC3_create` leaves `old` as it is.
- **`NamesStayUnique`**: names stay unique in memory and in every copy of the header that
  can come back, page and file (`UniqueInv`).
- **`SyncedIsOnDisk`**, **`ClosedIsOnDisk`**: after a call that reports success the file
  is what is in memory. `SyncedInv` says it of the page too, which may be written out
  at any time; that `nc_sync` misses nothing is `FlagsInv`.

`Reliable` is `IOFails => TRUE \notin ShareModes`: no I/O errors, or no `NC_SHARE`. It is
needed: a read of the header that fails in `nc_redef` under `NC_SHARE` refutes the
theorems without it (section 4). `IOFails = FALSE` is needed for `ClosedIsOnDisk`
because `nc_close` ignores the status of `ncio_close`.

### NC3Layout

The theorems are about any number of variables, sizes, records, attributes and calls;
`FileSize`, `MaxRecs` and `X_OFF_MAX` are any numbers.

- **Where data is.** `Laid(l)` says what the code relies on in a layout that is in use:
  `NC_check_voffs` accepts it, the header ends before the first variable, sections begin
  where their first variables do, and the record size is the one `NC_begins` computes, from
  the last record variable; `RecSizeIs` shows that `NC_computeshapes`, which asks the first
  one, finds the same (`SoleRecord`: a variable is as long as the record exactly if it is
  the only one, for lengths are positive). `Placed`
  is the invariant: in data mode the layout in memory is `Laid`; in define mode the old
  one is, and the new one begins with its variables, of the same shapes, and has as many
  records (`Redefines`). That a layout accepted by `NC_endef` is `Laid` again is
  `EndefLaid`, from lemmas about the passes of `NC_begins` (`PassDef`, `PassGrows`,
  `RecPass`, `FixBegins`: variables of the old layout do not move towards the header,
  and do not move at all while their section stays). `HeaderReadPlaces` says that
  `NC_computeshapes` finds every variable where it was. **`TypeCorrect`**,
  **`HeaderAccepted`** and **`OffsetsAgree`** follow.
- **What moves do.** `Carried(h, f, D, N, O, size)`: file h has the cells D of f, which
  began at O, at N. A move of one more cell keeps it (the order of the loops gives that
  the cells moved so far begin after the new one ends), and induction over the loops
  gives `RecordMoved`, `RecordsMoved` and `VarsMoved`; `AllMoved` puts records and
  variables together in the two orders of `NC_endef`.
- **`ContentKept`**. `Intact`: the header is whole, and every cell written or filled is
  in the file at its place in the layout in use, which during a redefinition is the old
  one. Cells of a `Laid` layout do not overlap, nor does the header (`DataPlace`,
  `BytesApart`); one lemma for each thing that is done to the file: `MoveKeeps`,
  `HeaderKeeps`, `FillKeeps`, `WriteKeeps`, `CutKeeps`.

`Aligned` says that the lengths in the header, the free space and the alignments given to
`nc__enddef` are multiples of `X_ALIGN` (or that no alignment is asked for). It is needed,
for `ContentKept` only: when records are packed `move_recs_r` moves the rounded length of
each, which is harmless if the records stay or move by at least `X_ALIGN`
(`FarMoved`), and otherwise is not (section 4). `AlignedState`, that sections and
fixed-size variables then begin at multiples of `X_ALIGN`, is the invariant from which
`FarMoved` follows (`EndefFar`). The run evaluates `Aligned` on its instance.

### NC3Share

`TypeInv` adds to `TypeOK` what the program counters of writer and reader say of the
call in progress. `FilledInv`: every record that the file or an open writer counts was
filled or written, and so were the variables `NCfillrecord` has passed in the next one,
whatever step of a growing put an error or a crash interrupts; `NoHoles` follows.
`StayInv`: `numrecs` in memory is clean only if the file has it and dirty only after an
error or within a put (`CleanInv`), what was put is in the data, and what was told is
below the `numrecs` of the file (`PutInv`, `DataInv`); no step takes a record from the
file or puts older data in its place, from which `PutsStay` and `Fresh` follow. `NoLost`
excludes the fault `"lost"`, a write whose status the code throws away, which refutes
them (section 4).

### HashMap and PrimeTable

`HashInv = Good(table) /\ active = NActive(table)`. `Good` is the invariant of linear
probing: no slot between the home of a key and its place is empty (deleted slots
count as occupied), and no key is in two slots. `locate` then finds a key exactly
if it is in the table. `rehash` is a recursive function; `Recursion` supplies the
induction for it, stated with sets and functions in place of operators. `Bertrand`
is Bertrand's postulate, a theorem of number theory (a prime between n and 2n): the
model looks for the next prime below that bound.

`SearchInv` keeps the binary search between the flags, and
`nextPrime` at an odd number with no prime between it and `val`. `LeastDivisor` shows
that trial division up to the square root decides. `TrueTable` says that the table
holds exactly the primes up to its last, and that for every size asked for there is a
prime up to the square of the last: the limit the comment on `isPrime` names, which the
code respects since it refuses sizes from 0xFFFFFFFF on.

### ExHash

The theorems are about every number of key bits, every length of a leaf and every limit
of the memory. `TableInv` is the inductive invariant, checked by TLC on the instance of
the run `exhash` first:

- `Structured`: every leaf is a `Chain`, in strictly ascending order of key; the directory
  is typed; and every entry is in the leaf to which the directory leads its key. Without
  the last part the table could hold a key that no lookup finds, and would be no map.
- `Chained`: the list `leaves` holds every leaf that ever was, each of them once, the
  newest first.
- `nactive` is the number of keys stored (`Stored`, a finite set), and the key
  `exhashlocate` is placing is not one of them.
- `WalkInv`: what a walk has returned is what the leaves and the entries it has passed
  hold (`Passed`).

Along the code: `SearchIs` shows that `exbinsearch` halves its way to the first entry that
is not below the key, whatever the length of the leaf, and `HoldsIs` and `GetIs` that
lookups are right on a `Chain`. `Inserted`, `Removed` and `Replaced` say what the shifts of
entries do. `DoubledIs` shows that after `exhashdouble` the one bit more of a key leads to
the same leaf (`LeadingBits`, about `MSB` and powers of two), and `GoesIs` and `SplitIs` that
a split gives every entry to the half its key now leads to. Nothing is assumed of local
depths: a split by the last bit of the directory index is right for any set of slots the
leaf may own, which is why the uneven start of the two first leaves does no harm. A
split, and a split without memory, leave the abstract map as it is; the other calls are
its calls. A leaf that has lost all its slots is empty, so that the chain and the directory
have the same entries: `WalksAreComplete` follows from `NextPlaceIs`.

### PosixIO

`Coherent` is the invariant of a buffer and its file: what the pages hold of the
written bytes is within `bf_cnt`; a buffer that is not modified, and everything
synced, is as the file; and the file reaches over every written byte that a modified
buffer does not hold. The five cases of `px_get` are shown one by one to keep it and
to leave what a read returns as it was (`Keeps`), by lemmas about paging out (`PageOut`,
`FlushKeeps`), paging in (`PageIn`, `LoadKeeps`, `UpperKeeps`) and shifting the halves
(`ShiftKeeps`, `BelowKeeps`). `Placed` adds that a buffer that stands for pages and
holds nothing is at the beginning of the file: else the page below would be read
into a buffer of one page for a region of two. `Buffered` restricts the theorems to
behaviours without `ncio_px_move` in which only writes fail; with a read that fails they
are false (section 4). Moves, and with them the slave buffer, stay with the run.

### ChunkCache

The functions of the cache are operators on worlds, and so are the lemmas. `Evicts`
says what any sequence of evictions does, whichever chunks are its victims and
whichever writes fail, and composes (`EvictsTwice`: `makeroom`, then `verifycache`);
`ReadMiss`, `FlushFinished` and `FlushBroken` are the outcomes of a read and of a
flush. Below them are lemmas about the lists (`OnlyFilters`, `VictimsAre`) and about
sums over the entries (`SpaceSplit`, `SpaceGrows`).

- **`ReadOnlyUntouched`**, for every variable. `StructInv`: table and lists agree, and
  while the file is closed or open for reading no entry is modified.
- **`CacheTypeCorrect`, `SpaceCovered`, `SpaceBounded`**. `CacheInv` adds to `StructInv`
  that `used` is at least the space of the entries, and the limits. A miss counts the
  new chunk before it is in the lists, so that in between `used` is ahead by exactly
  its size. `Shrinks` says that filters make a chunk no larger where calls of the
  store fail; without it `UsedCovers` is false (section 4).
- **`SavesAll`, `CacheIsStore`**. `FaithInv`: objects in the store are filtered exactly
  if the variable has filters, entries are not, and an entry that is not modified
  holds what is in the store. Evicting W and losing D is then `WriteBack(W, D)` of the
  abstract store, and the chunk that is read is in neither. `nc_close` flushes twice,
  the second time with nothing to write. `Survives` leaves out what refutes them:
  scalars, and filters together with `nc_sync` or with a failing store (section 4).
  That the shapes are finitely many gives the bound `MaxFaults` its meaning.

### Only model-checked

`ZTransfer`, whose properties compare recursive computations (projections of slices, an
odometer) with a reference definition, for every input; moves in `PosixIO`. Liveness
(`TerminatesBelowLast`, `LocateEnds`, `Ends`, `Served`) is beyond the prover. Induction over
data is possible only where it can be stated with sets (`Recursion`): the library's
induction theorems have an operator as a parameter, which the provers cannot
instantiate.

## 6. What is not modelled

- A crash in the middle of `NC_endef`: the file is then half moved, and the code
  makes no promise.
- A header that changes while a reader has the file open under `NC_SHARE` (the
  documentation asks for a mechanism outside the library), and two writers.
- NCZarr's metadata, its back ends (`zmap`), filters other than by the size and the
  meaning of what they return, type conversion, strings.
- `NC_check_vlens` and overflow of sizes; offsets are natural numbers with the limit
  `X_OFF_MAX`.
- Conversion of values (`ncx.m4`), strided access inside a classic variable, padding
  bytes of a record that is written.
- Attributes of variables other than `_FillValue` (the code is that of the global
  ones), and the deletion or renaming of a `_FillValue`.
- Failing allocations, except that of a directory in `ExHash`, and the return of
  `rehash` when `findPrimeGreaterThan` gives 0, for tables of 2^31 slots and more.
- The minimal header that `NC3_create` puts into the buffer: it is not released as
  modified and never written, and `NC_endef` puts the whole header in its place.
- The components marked `not_modelled` in `PROJECT.json`, with the reason for each.

## 7. Plan

In the order of importance; the first seven are modelled and, as far as section 5
says, proved.

1. `NC3File` and `NC3FileProofs`: modes, header, durability.
2. `NC3Layout` and `NC3LayoutProofs`: the data under redefinition.
3. `ByteFile`, `PosixIO`: the buffers.
4. `NameMap`, `HashMap`, `PrimeTable`: the names.
5. `ExHash`, `ExHashProofs`; `ChunkStore`, `ChunkCache`: page splits, LRU, write-back.
6. `ZTransfer`: slices, projections, odometers.
7. `NC3Share`: a writer and a reader.
8. `HeaderCodec`: the window `v1hs` over the header, with its refills at the
   boundary of an element, refining "what is read is what was written";
   `NC3File`'s `ncx_put_NC` is what it implements.
9. `MemIO`: growth and persistence, a second implementation of `ByteFile`.
10. `NCList`, `NCIndex`: ids of open files; list and map of names.
11. Pure algorithms against reference definitions: the odometer of `putget.m4`,
    `NC_check_vlens`.

Theorems to prove next: the moves of `PosixIO` within one buffer, and `TypeOK` and
`Accepts` of `ZTransfer`.
