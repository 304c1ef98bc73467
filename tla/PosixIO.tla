------------------------------- MODULE PosixIO -------------------------------
(***************************************************************************)
(* Buffered I/O on one file without NC_SHARE (the px functions of          *)
(* libsrc/posixio.c): a buffer of up to two pages, paged in and out as the *)
(* region asked for moves, and a second buffer, the slave, which           *)
(* px_double_buffer reads from while it moves data.                        *)
(*                                                                         *)
(* The callers are those of libsrc: a region is asked for, read or written *)
(* and released before the next one, and ncio_px_move is called by         *)
(* NC_endef only.  The seek position is left out: every read and write is  *)
(* made at the offset it is meant for.                                     *)
(***************************************************************************)
EXTENDS Integers

CONSTANTS
    BLK,           \* ncio_px.blksz
    Size,          \* bound: the offsets are 0 .. Size - 1
    MaxPuts,       \* bound: number of writes, each with a value of its own
    Lens, MoveLens,   \* lengths that are read or written, and that are moved
    Budgets,       \* bounds: number of writes (puts) and of moves, lengths (lens), and
                   \* what goes wrong (fails): a read ("in"; of the slave, "slave"), a
                   \* write ("out"), or a read is interrupted ("short")
    VarsFirst,     \* NC_endef moves records after variables too
    OFF_NONE, NoSlave, NoMove, Hole

ASSUME PosixIOAssumption ==
    /\ BLK \in Nat \ {0} /\ Size \in Nat /\ Size % BLK = 0
    /\ MaxPuts \in Nat /\ Lens \subseteq 1 .. BLK /\ MoveLens \subseteq Nat \ {0}
    /\ Budgets \subseteq [puts : 0 .. MaxPuts, moves : Nat, lens : SUBSET Lens,
                          fails : SUBSET {"in", "slave", "out", "short"}]
    /\ VarsFirst \in BOOLEAN
    /\ OFF_NONE \notin Nat

VARIABLES
    disk,      \* the file: [len, byte]
    px,        \* nciop->pvt: [offset, extent, cnt, base, write, modified, refcount]
    slave,     \* px.slave
    moves,     \* the moves of the NC_endef under way: [to, from, top, second, ok], or NoMove
    budget,    \* bound: what this behaviour may do, a member of Budgets
    nputs, nmoves,   \* how much of it is spent
    written,   \* history: offsets whose content is what the callers put there
    clean      \* history: those that have not been written since the last sync

vars == <<disk, px, slave, moves, budget, nputs, nmoves, written, clean>>

Larger(a, b)  == IF a > b THEN a ELSE b
Smaller(a, b) == IF a < b THEN a ELSE b

Values == 0 .. MaxPuts

----------------------------------------------------------------------------
(* Pages *)

\* px_pgin: the bytes at offset, zeros after the end of the file, laid at
\* index `at' of the buffer; how many were read.
PgIn(d, base, at, offset, extent) ==
    [i \in DOMAIN base |->
        IF i \in at .. at + extent - 1
        THEN IF i - at + offset \in DOMAIN d.byte THEN d.byte[i - at + offset] ELSE 0
        ELSE base[i]]

NRead(d, offset, extent) == Larger(0, Smaller(extent, d.len - offset))

\* The file as a read at offset sees it: one that a signal interrupts returns
\* the first byte only, and px_pgin takes that for the end of the file.
Seen(d, offset, fail) ==
    IF fail = "short"
    THEN [len  |-> Smaller(d.len, offset + 1),
          byte |-> [a \in DOMAIN d.byte |-> IF a > offset THEN 0 ELSE d.byte[a]]]
    ELSE d

\* px_pgout: extent bytes of the buffer from index `at' are written at offset.
PgOut(d, base, at, offset, extent) ==
    [len  |-> Larger(d.len, Smaller(offset + extent, Size)),
     byte |-> [a \in DOMAIN d.byte |->
                 IF a \in offset .. offset + extent - 1 THEN base[a - offset + at] ELSE d.byte[a]]]

Copied(base, to, from, n) ==
    [i \in DOMAIN base |-> IF i \in to .. to + n - 1 THEN base[i - to + from] ELSE base[i]]

Fresh == [offset |-> OFF_NONE, extent |-> 0, cnt |-> 0, base |-> [i \in 0 .. 2 * BLK - 1 |-> 0],
          write |-> FALSE, modified |-> FALSE, refcount |-> 0]

----------------------------------------------------------------------------
(* px_get: the file and the buffer p after it, the index of the region in   *)
(* the buffer, and whether it succeeded.  `fail' says which read or write   *)
(* goes wrong, if the call makes it.                                        *)

Faulted(d, p) == [disk |-> d, px |-> p, at |-> 0, ok |-> FALSE]

\* Mutant: the flags of the call are not kept.
DoneNoFlags(d, p, at, extent, w) ==
    [disk |-> d, at |-> at, ok |-> TRUE,
     px   |-> [p EXCEPT !.cnt = Larger(@, at + extent), !.refcount = @ + 1]]

\* The common end of px_get.
Done(d, p, at, extent, w) ==
    [disk |-> d, at |-> at, ok |-> TRUE,
     px   |-> [p EXCEPT !.cnt = Larger(@, at + extent), !.write = @ \/ w, !.refcount = @ + 1]]

\* The page after the one at p.offset is read into the upper half.
PageInUpper(d, p, fail) ==
    LET seen == Seen(d, p.offset + BLK, fail)
    IN  [p EXCEPT !.base = PgIn(seen, @, BLK, p.offset + BLK, BLK),
                  !.extent = 2 * BLK,
                  !.cnt = BLK + NRead(seen, p.offset + BLK, BLK)]

\* The page asked for is the one at p.offset.
HitLower(d, p, at, extent, blkextent, w, fail) ==
    CASE blkextent <= p.extent -> Done(d, p, at, extent, w)
      [] blkextent > p.extent /\ fail = "in" -> Faulted(d, p)
      [] OTHER -> Done(d, PageInUpper(d, p, fail), at, extent, w)

\* Mutant: the lower half is not written if the upper half holds no data.
HitUpperNofillBug(d, p, at, extent, blkextent, w, fail) ==
    LET d1 == IF p.modified /\ p.cnt > BLK THEN PgOut(d, p.base, 0, p.offset, BLK) ELSE d
        p1 == IF p.cnt > BLK
              THEN [p EXCEPT !.base = Copied(@, 0, BLK, p.cnt - BLK), !.cnt = @ - BLK]
              ELSE p
        p2 == [p1 EXCEPT !.offset = @ + BLK]
    IN  CASE blkextent = BLK -> Done(d, p, at + BLK, extent, w)
          [] blkextent # BLK /\ p.modified /\ fail = "out" -> Faulted(d, p)
          [] blkextent # BLK /\ ~(p.modified /\ fail = "out") /\ fail = "in" -> Faulted(d1, p2)
          [] OTHER -> Done(d1, PageInUpper(d1, p2, fail), at, extent, w)

\* The page asked for is the upper half.  If the region goes on after it the
\* lower half is paged out, the upper half becomes the lower one, and the
\* next page is read; `extent' stays 2 * BLK if that read fails.
HitUpper(d, p, at, extent, blkextent, w, fail) ==
    LET d1 == IF p.modified THEN PgOut(d, p.base, 0, p.offset, BLK) ELSE d
        p1 == IF p.cnt > BLK
              THEN [p EXCEPT !.base = Copied(@, 0, BLK, p.cnt - BLK), !.cnt = @ - BLK]
              ELSE p
        p2 == [p1 EXCEPT !.offset = @ + BLK]
    IN  CASE blkextent = BLK -> Done(d, p, at + BLK, extent, w)
          [] blkextent # BLK /\ p.modified /\ fail = "out" -> Faulted(d, p)
          [] blkextent # BLK /\ ~(p.modified /\ fail = "out") /\ fail = "in" -> Faulted(d1, p2)
          [] OTHER -> Done(d1, PageInUpper(d1, p2, fail), at, extent, w)

\* The page below is asked for: the lower half becomes the upper one.
WantsBelow(d, p, at, extent, w, fail) ==
    LET out == p.cnt > BLK /\ p.modified
        d1  == IF out THEN PgOut(d, p.base, BLK, p.offset + BLK, p.cnt - BLK) ELSE d
        p1  == IF p.cnt > BLK THEN [p EXCEPT !.cnt = BLK, !.extent = BLK] ELSE p
        p2  == IF p1.cnt > 0 THEN [p1 EXCEPT !.base = Copied(@, BLK, 0, BLK)] ELSE p1
        off == p.offset - BLK
        in  == Seen(d1, off, fail)
        p3  == [p2 EXCEPT !.base = PgIn(in, @, 0, off, BLK),
                          !.offset = off,
                          !.extent = IF p2.cnt # 0 THEN 2 * BLK ELSE BLK,
                          !.cnt = IF p2.cnt # 0 THEN BLK + @ ELSE NRead(in, off, BLK)]
    IN  CASE out /\ fail = "out" -> Faulted(d, p)
          [] ~(out /\ fail = "out") /\ fail = "in" -> Faulted(d1, p2)
          [] OTHER -> Done(d1, p3, at, extent, w)

\* Nothing of it is in the buffer.
Miss(d, p, blkoffset, at, extent, blkextent, w, fail) ==
    LET out == p.offset # OFF_NONE /\ p.modified
        d1  == IF out THEN PgOut(d, p.base, 0, p.offset, p.cnt) ELSE d
        p1  == IF out THEN [p EXCEPT !.write = FALSE, !.modified = FALSE] ELSE p
        in  == Seen(d1, blkoffset, fail)
        p2  == [p1 EXCEPT !.base = PgIn(in, @, 0, blkoffset, blkextent),
                          !.offset = blkoffset, !.extent = blkextent,
                          !.cnt = NRead(in, blkoffset, blkextent)]
    IN  CASE out /\ fail = "out" -> Faulted(d, p)
          [] ~(out /\ fail = "out") /\ fail = "in" -> Faulted(d1, p1)
          [] OTHER -> Done(d1, p2, at, extent, w)

px_get(d, p, offset, extent, w, fail) ==
    LET at        == offset % BLK
        blkoffset == offset - at
        blkextent == ((at + extent + BLK - 1) \div BLK) * BLK
    IN  CASE 2 * BLK < blkextent -> Faulted(d, p)
          [] 2 * BLK >= blkextent /\ p.offset = OFF_NONE ->
                Miss(d, p, blkoffset, at, extent, blkextent, w, fail)
          [] 2 * BLK >= blkextent /\ p.offset # OFF_NONE ->
                IF blkoffset = p.offset
                THEN HitLower(d, p, at, extent, blkextent, w, fail)
                ELSE IF p.extent > BLK /\ blkoffset = p.offset + BLK
                THEN HitUpper(d, p, at, extent, blkextent, w, fail)
                ELSE IF blkoffset = p.offset - BLK
                THEN WantsBelow(d, p, at, extent, w, fail)
                ELSE Miss(d, p, blkoffset, at, extent, blkextent, w, fail)

\* px_rel
px_rel(p, modified) == [p EXCEPT !.modified = @ \/ modified, !.refcount = @ - 1]

----------------------------------------------------------------------------
(* Moves *)

\* px_double_buffer, on the state s = [disk, px, slave, ok] of a move.  An error
\* leaves the regions that have been asked for unreleased.
px_double_buffer(s, to, from, n, fail) ==
    LET g  == px_get(s.disk, s.px, to, n, TRUE, IF fail = "slave" THEN "none" ELSE fail)
        s0 == IF s.slave = NoSlave
              THEN [g.px EXCEPT !.write = FALSE, !.modified = FALSE, !.refcount = 0]
              ELSE s.slave
        h  == px_get(g.disk, s0, from, n, FALSE, IF fail = "slave" THEN "in" ELSE "none")
        copied == [g.px EXCEPT !.base = [i \in DOMAIN @ |->
                      IF i \in g.at .. g.at + n - 1 THEN h.px.base[i - g.at + h.at] ELSE @[i]]]
    IN  CASE ~g.ok -> [disk |-> g.disk, px |-> g.px, slave |-> s.slave, ok |-> FALSE]
          [] g.ok /\ ~h.ok -> [disk |-> g.disk, px |-> g.px, slave |-> h.px, ok |-> FALSE]
          [] OTHER -> [disk |-> g.disk, px |-> px_rel(copied, TRUE),
                       slave |-> px_rel(h.px, FALSE), ok |-> TRUE]

NChunks(n) == (n + BLK - 1) \div BLK

\* The last chunk is moved first (to > from); `fail' strikes in the chunk that is
\* moved as the nth one.
MoveLarge(to, from, n, fail, nth) ==
    LET after[k \in 0 .. NChunks(n)] ==
            IF k = 0 THEN [disk |-> disk, px |-> px, slave |-> slave, ok |-> TRUE]
            ELSE LET s     == after[k - 1]
                     start == Larger(0, n - k * BLK)
                     len   == n - (k - 1) * BLK - start
                 IN  IF s.ok
                     THEN px_double_buffer(s, to + start, from + start, len,
                                           IF k = nth THEN fail ELSE "none")
                     ELSE s
    IN  after[NChunks(n)]

MoveSmall(to, from, n, fail) ==
    LET g == px_get(disk, px, from, to - from + n, TRUE, fail)
        moved == [g.px EXCEPT !.base = Copied(@, g.at + to - from, g.at, n)]
    IN  [disk |-> g.disk, slave |-> slave, ok |-> g.ok,
         px |-> IF g.ok THEN px_rel(moved, TRUE) ELSE g.px]

----------------------------------------------------------------------------
(* The calls *)

Region(offset, n) == offset .. offset + n - 1

\* ncio_px_get (which frees the slave), the caller reads the region, ncio_px_rel.
Get(offset, n, fail) ==
    LET g == px_get(disk, px, offset, n, FALSE, fail)
    IN  /\ disk' = g.disk
        /\ px' = IF g.ok THEN px_rel(g.px, FALSE) ELSE g.px
        /\ slave' = NoSlave
        /\ moves' = NoMove
        /\ UNCHANGED <<nputs, nmoves, written, clean>>

\* ncio_px_get, the caller writes the region, ncio_px_rel with RGN_MODIFIED.
Put(offset, n, fail) ==
    LET g    == px_get(disk, px, offset, n, TRUE, fail)
        v    == nputs + 1
        new  == [g.px EXCEPT !.base = [i \in DOMAIN g.px.base |->
                     IF i \in Region(g.at, n) THEN v ELSE g.px.base[i]]]
    IN  /\ disk' = g.disk
        /\ slave' = NoSlave
        /\ moves' = NoMove
        /\ \/ /\ g.ok
              /\ px' = px_rel(new, TRUE)
              /\ nputs' = v
              /\ written' = written \cup Region(offset, n)
              /\ clean' = clean \ Region(offset, n)
           \/ /\ ~g.ok
              /\ px' = g.px
              /\ UNCHANGED <<nputs, written, clean>>
        /\ UNCHANGED nmoves

\* The order of the moves of an NC_endef: records before variables, the last
\* one first.  Packed records overlap their neighbours, since move_recs_r moves
\* the rounded length, but what is moved is never what has been moved before.
\* If begin_rec stays where it is, the variables are moved first, and after them
\* the records but the first, all above them.  NC_endef gives up at an error; that
\* it is called again with the slave still there is left out.
InOrder(to, from, n) ==
    \/ moves = NoMove
    \/ moves # NoMove /\ moves.ok /\ to < moves.to /\ from < moves.from /\ from + n <= moves.to
    \/ moves # NoMove /\ moves.ok /\ VarsFirst /\ ~moves.second /\ from >= moves.top + n

\* ncio_px_move, away from the beginning of the file.
ncio_px_move(to, from, n, fail, nth) ==
    LET m == IF to - from + n > BLK THEN MoveLarge(to, from, n, fail, nth)
                                    ELSE MoveSmall(to, from, n, fail)
        R == Region(to, n)
    IN  /\ to > from
        /\ InOrder(to, from, n)
        /\ disk' = m.disk
        /\ px' = m.px
        /\ slave' = m.slave
        /\ moves' = [to |-> to, from |-> from,
                     top |-> IF moves = NoMove THEN to + n ELSE Larger(moves.top, to + n),
                     second |-> moves # NoMove /\ (moves.second \/ from >= moves.top),
                     ok |-> m.ok]
        /\ nmoves' = nmoves + 1
        /\ written' = (written \ R) \cup
                         (IF m.ok THEN {a \in R : a - to + from \in written} ELSE {})
        /\ clean' = clean \ R
        /\ UNCHANGED nputs

\* ncio_px_sync.  A buffer that has not been asked for to be written is
\* dropped, so that the next call reads from the file.
Synced(d, p, fail) ==
    CASE p.modified /\ fail = "out" -> Faulted(d, p)
      [] p.modified /\ fail # "out" ->
            [disk |-> PgOut(d, p.base, 0, p.offset, p.cnt), at |-> 0, ok |-> TRUE,
             px   |-> [p EXCEPT !.write = FALSE, !.modified = FALSE]]
      [] OTHER ->
            [disk |-> d, at |-> 0, ok |-> TRUE,
             px   |-> IF p.write THEN p ELSE [p EXCEPT !.offset = OFF_NONE, !.cnt = 0]]

ncio_px_sync(fail) ==
    LET s == Synced(disk, px, fail)
    IN  /\ moves = NoMove
        /\ disk' = s.disk
        /\ px' = s.px
        /\ clean' = IF s.ok THEN written ELSE clean
        /\ UNCHANGED <<slave, moves, nputs, nmoves, written>>

\* ncio_px_close, and the file opened again (ncio_px_init, ncio_px_init2).
ncio_px_close(fail) ==
    LET s == Synced(disk, px, fail)
    IN  /\ disk' = s.disk
        /\ px' = Fresh
        /\ slave' = NoSlave
        /\ moves' = NoMove
        /\ written' = IF s.ok THEN written ELSE clean
        /\ clean' = written'
        /\ UNCHANGED <<nputs, nmoves>>

\* The process is lost with its buffers, and the file opened again.
Crash ==
    /\ px' = Fresh
    /\ slave' = NoSlave
    /\ moves' = NoMove
    /\ written' = clean
    /\ UNCHANGED <<disk, nputs, nmoves, clean>>

\* ncio_px_init2 of a new file: the buffer stands for two pages of zeros.
Init ==
    /\ disk = [len |-> 0, byte |-> [a \in 0 .. Size - 1 |-> 0]]
    /\ px = [Fresh EXCEPT !.offset = 0, !.extent = 2 * BLK]
    /\ slave = NoSlave
    /\ moves = NoMove
    /\ budget \in Budgets
    /\ nputs = 0
    /\ nmoves = 0
    /\ written = {}
    /\ clean = {}

Failures(S) == {"none"} \cup (budget.fails \cap S)

Calls ==
    \/ \E n \in budget.lens : \E offset \in 0 .. Size - n :
          \E fail \in Failures({"in", "out", "short"}) :
             \/ Get(offset, n, fail)
             \/ nputs < budget.puts /\ Put(offset, n, fail)
    \/ /\ nmoves < budget.moves
       /\ \E n \in MoveLens : \E to, from \in 0 .. Size - n :
             \E fail \in Failures({"in", "slave", "out", "short"}), nth \in 1 .. NChunks(n) :
                ncio_px_move(to, from, n, fail, nth)
    \/ \E fail \in Failures({"out"}) : ncio_px_sync(fail) \/ ncio_px_close(fail)
    \/ Crash

Next == Calls /\ UNCHANGED budget

Spec == Init /\ [][Next]_vars

----------------------------------------------------------------------------
(* What is checked *)

\* Type invariant, with what px_get asserts of a buffer.
TypeOK ==
    /\ disk.len \in 0 .. Size
    /\ \A p \in {px, slave} \ {NoSlave} :
          /\ p.offset = OFF_NONE \/ p.offset \in {BLK * k : k \in 0 .. Size}
          /\ p.extent \in {0, BLK, 2 * BLK}
          /\ p.cnt \in 0 .. p.extent
          /\ p.modified => p.write /\ p.offset # OFF_NONE
    /\ written \subseteq 0 .. Size - 1 /\ clean \subseteq written

\* What a read would return: the buffer, where there is one, over the file.
View(a) ==
    IF px.offset # OFF_NONE /\ a \in Region(px.offset, px.cnt)
    THEN px.base[a - px.offset]
    ELSE disk.byte[a]

File == INSTANCE ByteFile WITH
    bytes  <- [a \in 0 .. Size - 1 |-> IF a \in written THEN View(a) ELSE Hole],
    synced <- [a \in 0 .. Size - 1 |-> IF a \in clean THEN disk.byte[a] ELSE Hole]

\* The buffers are not seen: every call is one call on an array of bytes.  A
\* region reads as it was last written or moved, wherever the pages are; a
\* page-out never takes back or overwrites anything; and what a sync has
\* written survives the loss of the process.
IsByteFile == File!Spec
=============================================================================
