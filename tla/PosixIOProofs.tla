--------------------------- MODULE PosixIOProofs ---------------------------
(***************************************************************************)
(* Reads, writes, syncs and closes through the page buffer of posixio.c    *)
(* act on an array of bytes: proofs for every page size, file size and     *)
(* choice of regions.                                                      *)
(*                                                                         *)
(* W stands for the offsets that hold what the callers have written, C for *)
(* those that have not been written since the last sync.                   *)
(***************************************************************************)
EXTENDS PosixIO, TLAPS

\* The hypothesis of the theorems: no call of ncio_px_move, and of what can go
\* wrong only a write.  After a read that fails, HitUpper leaves a buffer that
\* claims a page it does not hold, and the theorems are false.
Buffered == \A b \in Budgets : b.moves = 0 /\ b.fails \subseteq {"out"}

Offsets == 0 .. Size - 1

Disks == [len : 0 .. Size, byte : [Offsets -> Values]]

Buffers == [offset : Nat \cup {OFF_NONE}, extent : Nat, cnt : Nat,
            base : [0 .. 2 * BLK - 1 -> Values],
            write : BOOLEAN, modified : BOOLEAN, refcount : Int]

\* The byte at a is in the buffer; it is in the pages the buffer stands for.
InBuf(p, a)   == p.offset # OFF_NONE /\ a \in Region(p.offset, p.cnt)
InPages(p, a) == p.offset # OFF_NONE /\ a \in Region(p.offset, p.extent)

ViewOf(d, p, a) == IF InBuf(p, a) THEN p.base[a - p.offset] ELSE d.byte[a]

\* The inductive invariant of a buffer and its file.  What the pages hold of the
\* written bytes is in the buffer; a buffer that is not modified is as the file;
\* so is everything that was synced; and the file reaches over every written
\* byte that a modified buffer does not hold.
Coherent(d, p, W, C) ==
    /\ d \in Disks /\ p \in Buffers
    /\ p.extent \in {0, BLK, 2 * BLK} /\ p.cnt <= p.extent
    /\ p.modified => p.write /\ p.offset # OFF_NONE
    /\ p.offset # OFF_NONE => p.extent # 0
    /\ \A a \in W : InPages(p, a) => InBuf(p, a)
    /\ \A a \in W : InBuf(p, a) /\ ~p.modified => p.base[a - p.offset] = d.byte[a]
    /\ \A a \in C : InBuf(p, a) => p.base[a - p.offset] = d.byte[a]
    /\ \A a \in W : a < d.len \/ (p.modified /\ InBuf(p, a))
    /\ \A a \in C : a < d.len

\* The buffer and the file have changed, and nobody sees it.
Keeps(d, p, W, C, e, q) ==
    /\ Coherent(e, q, W, C)
    /\ \A a \in W : ViewOf(e, q, a) = ViewOf(d, p, a)
    /\ \A a \in C : e.byte[a] = d.byte[a]

----------------------------------------------------------------------------
(* Pages in and out *)

\* Part of the buffer is written to the file: it holds that part, and nothing
\* else of it changes.
PagedOut(d, p, W, C, e, at, n) ==
    /\ e \in Disks /\ e.len >= d.len
    /\ \A a \in W : a \in Region(p.offset + at, n) => e.byte[a] = ViewOf(d, p, a) /\ a < e.len
    /\ \A a \in W : a \notin Region(p.offset + at, n) => e.byte[a] = d.byte[a]
    /\ \A a \in C : e.byte[a] = d.byte[a]

\* px_pgout of part of the pages, whether or not data was read into it.
LEMMA PageOut ==
    ASSUME NEW d, NEW p, NEW W \in SUBSET Offsets, NEW C \in SUBSET W, Coherent(d, p, W, C),
           p.offset # OFF_NONE, NEW at \in Nat, NEW n \in Nat, at + n <= p.extent
    PROVE  PagedOut(d, p, W, C, PgOut(d, p.base, at, p.offset + at, n), at, n)
<1> DEFINE o == p.offset + at
           e == PgOut(d, p.base, at, o, n)
<1>1. /\ BLK \in Nat \ {0} /\ Size \in Nat /\ p.offset \in Nat /\ p.extent \in Nat /\ p.extent <= 2 * BLK
      /\ d \in Disks /\ p.base \in [0 .. 2 * BLK - 1 -> Values] /\ d.len \in 0 .. Size
      /\ d.byte \in [Offsets -> Values] /\ p.cnt \in Nat
  BY PosixIOAssumption DEF Coherent, Buffers, Disks
<1>2. /\ e.len = Larger(d.len, Smaller(o + n, Size))
      /\ e.byte = [a \in Offsets |-> IF a \in o .. o + n - 1 THEN p.base[a - o + at] ELSE d.byte[a]]
      /\ e = [len |-> e.len, byte |-> e.byte]
  BY <1>1 DEF PgOut
<1> HIDE DEF e
<1>3. \A a \in Offsets : a \in o .. o + n - 1 => a - o + at = a - p.offset /\ a - p.offset \in 0 .. 2 * BLK - 1
  BY <1>1, SMTT(30) DEF Offsets
<1>4. e.byte \in [Offsets -> Values]
  <2>1. \A a \in Offsets : a \in o .. o + n - 1 => p.base[a - o + at] \in Values
    BY <1>1, <1>3
  <2>2. \A a \in Offsets : d.byte[a] \in Values
    BY <1>1
  <2> HIDE DEF o
  <2> QED
    BY <1>2, <2>1, <2>2
<1>5. e.len \in 0 .. Size /\ e.len >= d.len
      /\ \A a \in Offsets : a \in o .. o + n - 1 => a < e.len
  <2>1. e.len = Larger(d.len, Smaller(o + n, Size))
    BY <1>2
  <2>2. o \in Nat /\ d.len \in Nat /\ d.len <= Size
    BY <1>1
  <2> HIDE DEF o
  <2> QED
    BY <1>1, <2>1, <2>2 DEF Larger, Smaller, Offsets
<1>6. e \in Disks
  BY <1>2, <1>4, <1>5 DEF Disks
<1>7. ASSUME NEW a \in W, a \in Region(o, n)
      PROVE  e.byte[a] = ViewOf(d, p, a) /\ a < e.len
  <2>1. a \in Offsets /\ a \in o .. o + n - 1
    BY <1>7 DEF Region
  <2>2. InPages(p, a)
    BY <1>1, <2>1, SMTT(30) DEF InPages, Region, Offsets
  <2>3. InBuf(p, a)
    BY <2>2 DEF Coherent
  <2> QED
    BY <1>2, <1>3, <1>5, <2>1, <2>3 DEF ViewOf
<1>8. ASSUME NEW a \in W, a \notin Region(o, n)
      PROVE  e.byte[a] = d.byte[a]
  BY <1>2, <1>8 DEF Region
<1>9. ASSUME NEW a \in C
      PROVE  e.byte[a] = d.byte[a]
  <2>1. CASE a \in Region(o, n)
    <3>1. InPages(p, a)
      BY <1>1, <2>1 DEF InPages, Region, Offsets
    <3>2. InBuf(p, a) /\ p.base[a - p.offset] = d.byte[a]
      BY <3>1 DEF Coherent
    <3> QED
      BY <1>7, <2>1, <3>2 DEF ViewOf
  <2>2. CASE a \notin Region(o, n)
    BY <1>8, <2>2
  <2> QED
    BY <2>1, <2>2
<1> QED
  BY <1>5, <1>6, <1>7, <1>8, <1>9 DEF PagedOut, e, o

\* A page of the file is read: b holds its bytes, where there are any, and is
\* otherwise as it was; k bytes were there.
PagedIn(d, base, at, offset, n, b, k) ==
    /\ b \in [0 .. 2 * BLK - 1 -> Values]
    /\ \A a \in Offsets : a \in Region(offset, n) => b[a - offset + at] = d.byte[a]
    /\ \A i \in 0 .. 2 * BLK - 1 : i \notin Region(at, n) => b[i] = base[i]
    /\ k \in 0 .. n
    /\ \A a \in Offsets : a \in Region(offset, n) /\ a < d.len => a < offset + k

\* px_pgin
LEMMA PageIn ==
    ASSUME NEW d \in Disks, NEW base \in [0 .. 2 * BLK - 1 -> Values],
           NEW at \in Nat, NEW offset \in Nat, NEW n \in Nat, at + n <= 2 * BLK
    PROVE  PagedIn(d, base, at, offset, n, PgIn(d, base, at, offset, n), NRead(d, offset, n))
<1> DEFINE b == PgIn(d, base, at, offset, n)
<1>1. /\ BLK \in Nat \ {0} /\ Size \in Nat /\ 0 \in Values
      /\ d.len \in 0 .. Size /\ d.byte \in [Offsets -> Values]
  BY PosixIOAssumption DEF Disks, Values
<1>2. b = [i \in 0 .. 2 * BLK - 1 |->
              IF i \in at .. at + n - 1
              THEN IF i - at + offset \in Offsets THEN d.byte[i - at + offset] ELSE 0
              ELSE base[i]]
  BY <1>1 DEF PgIn
<1> HIDE DEF b
<1>3. b \in [0 .. 2 * BLK - 1 -> Values]
  BY <1>1, <1>2
<1>4. ASSUME NEW a \in Offsets, a \in Region(offset, n)
      PROVE  b[a - offset + at] = d.byte[a]
  <2> DEFINE i == a - offset + at
  <2>1. i \in 0 .. 2 * BLK - 1 /\ i \in at .. at + n - 1 /\ i - at + offset = a
    BY <1>1, <1>4 DEF Offsets, Region
  <2> HIDE DEF i
  <2>2. b[i] = d.byte[a]
    BY <1>2, <2>1
  <2> QED
    BY <2>2 DEF i
<1>5. \A i \in 0 .. 2 * BLK - 1 : i \notin Region(at, n) => b[i] = base[i]
  BY <1>2 DEF Region
<1>6. /\ NRead(d, offset, n) \in 0 .. n
      /\ \A a \in Offsets : a \in Region(offset, n) /\ a < d.len => a < offset + NRead(d, offset, n)
  BY <1>1 DEF NRead, Larger, Smaller, Region, Offsets
<1> QED
  BY <1>3, <1>4, <1>5, <1>6 DEF b, PagedIn

----------------------------------------------------------------------------
(* The ways in which px_get changes the buffer *)

\* The values of a buffer and a file.
LEMMA Parts ==
    ASSUME NEW d, NEW p, NEW W, NEW C, Coherent(d, p, W, C)
    PROVE  /\ BLK \in Nat \ {0} /\ Size \in Nat
           /\ d \in Disks /\ d.len \in 0 .. Size /\ d.byte \in [Offsets -> Values]
           /\ p \in Buffers /\ p.base \in [0 .. 2 * BLK - 1 -> Values]
           /\ p.offset \in Nat \cup {OFF_NONE} /\ OFF_NONE \notin Nat
           /\ p.extent \in Nat /\ p.cnt \in Nat /\ p.cnt <= p.extent /\ p.extent <= 2 * BLK
           /\ p.modified \in BOOLEAN /\ p.write \in BOOLEAN /\ p.refcount \in Int
<1>1. d \in Disks /\ p \in Buffers /\ p.extent \in {0, BLK, 2 * BLK} /\ p.cnt <= p.extent
  BY DEF Coherent
<1>2. BLK \in Nat \ {0} /\ Size \in Nat /\ OFF_NONE \notin Nat
  BY PosixIOAssumption
<1>3. p.extent \in Nat /\ p.extent <= 2 * BLK
  BY <1>1, <1>2 DEF Buffers
<1> QED
  BY <1>1, <1>2, <1>3 DEF Disks, Buffers

\* Nothing has changed; and two changes that nobody sees are one.
LEMMA KeepsOrder ==
    ASSUME NEW W, NEW C, NEW d, NEW p, NEW e, NEW q, NEW f, NEW r
    PROVE  /\ Coherent(d, p, W, C) => Keeps(d, p, W, C, d, p)
           /\ Keeps(d, p, W, C, e, q) /\ Keeps(e, q, W, C, f, r) => Keeps(d, p, W, C, f, r)
  BY DEF Keeps

\* What px_get gives its caller: a region of the buffer, and nobody sees a
\* change; or an error, and nothing has changed.
Got(d, p, W, C, g, offset, n, w) ==
    /\ g.ok \in BOOLEAN
    /\ ~g.ok => g.disk = d /\ g.px = p
    /\ g.ok => /\ Keeps(d, p, W, C, g.disk, g.px)
               /\ g.px.offset \in Nat /\ g.at \in Nat /\ g.px.offset + g.at = offset
               /\ g.px.offset \in {p.offset, offset - (offset % BLK)}
               /\ g.at + n <= g.px.cnt
               /\ w => g.px.write

\* The common end: bytes that the region adds to the buffer are not written ones.
LEMMA DoneKeeps ==
    ASSUME NEW d, NEW p, NEW W \in SUBSET Offsets, NEW C \in SUBSET W,
           NEW e, NEW q, Keeps(d, p, W, C, e, q), NEW at \in Nat, NEW n \in Nat, NEW w \in BOOLEAN,
           q.offset \in Nat, at + n <= q.extent, NEW offset, q.offset + at = offset,
           q.offset \in {p.offset, offset - (offset % BLK)}
    PROVE  Got(d, p, W, C, Done(e, q, at, n, w), offset, n, w)
<1> DEFINE r == [q EXCEPT !.cnt = Larger(@, at + n), !.write = @ \/ w, !.refcount = @ + 1]
           g == Done(e, q, at, n, w)
<1>1. Coherent(e, q, W, C)
  BY DEF Keeps
<1>2. /\ BLK \in Nat \ {0} /\ OFF_NONE \notin Nat /\ q \in Buffers
      /\ q.extent \in Nat /\ q.cnt \in Nat /\ q.cnt <= q.extent
  BY <1>1, Parts
<1>3. g.disk = e /\ g.at = at /\ g.ok = TRUE /\ g.px = r
  BY DEF Done
<1>4. /\ r \in Buffers /\ r.offset = q.offset /\ r.extent = q.extent /\ r.base = q.base
      /\ r.modified = q.modified /\ r.cnt = Larger(q.cnt, at + n)
      /\ (r.write <=> q.write \/ w)
  <2> DEFINE c == Larger(q.cnt, at + n)
             wr == q.write \/ w
             rc == q.refcount + 1
  <2>1. c \in Nat
    BY <1>2 DEF Larger
  <2>2. wr \in BOOLEAN /\ rc \in Int
    BY <1>2 DEF Buffers
  <2>3. r = [q EXCEPT !.cnt = c, !.write = wr, !.refcount = rc]
    OBVIOUS
  <2> HIDE DEF c, wr, rc, r
  <2>4. /\ r \in Buffers /\ r.offset = q.offset /\ r.extent = q.extent /\ r.base = q.base
        /\ r.modified = q.modified /\ r.cnt = c /\ r.write = wr
    BY <1>2, <2>1, <2>2, <2>3 DEF Buffers
  <2> QED
    BY <2>4 DEF c, wr
<1> HIDE DEF r, g
<1>5. r.cnt \in Nat /\ q.cnt <= r.cnt /\ r.cnt <= q.extent /\ at + n <= r.cnt
  BY <1>2, <1>4 DEF Larger
<1>6. \A a \in W : InPages(r, a) <=> InPages(q, a)
  BY <1>4 DEF InPages
<1>7. \A a \in W : InBuf(r, a) <=> InBuf(q, a)
  <2> TAKE a \in W
  <2>1. a \in Offsets
    OBVIOUS
  <2>2. InBuf(q, a) => InBuf(r, a)
    BY <1>2, <1>4, <1>5, <2>1 DEF InBuf, Region, Offsets
  <2>3. InBuf(r, a) => InPages(q, a)
    BY <1>2, <1>4, <1>5, <2>1 DEF InBuf, InPages, Region, Offsets
  <2>4. InPages(q, a) => InBuf(q, a)
    BY <1>1 DEF Coherent
  <2> QED
    BY <2>2, <2>3, <2>4
<1>8. Coherent(e, r, W, C)
  BY <1>1, <1>4, <1>5, <1>6, <1>7 DEF Coherent
<1>9. \A a \in W : ViewOf(e, r, a) = ViewOf(e, q, a)
  BY <1>4, <1>7 DEF ViewOf
<1>10. Keeps(d, p, W, C, e, r)
  BY <1>8, <1>9 DEF Keeps
<1> QED
  BY <1>3, <1>4, <1>5, <1>10 DEF Got, g

\* Nobody sees a change, and the buffer now stands for m bytes from o.
Paged(d, p, W, C, e, q, o, m) == Keeps(d, p, W, C, e, q) /\ q.offset = o /\ q.extent = m

\* The page after a buffer of one page is read.
LEMMA UpperKeeps ==
    ASSUME NEW d, NEW p, NEW W \in SUBSET Offsets, NEW C \in SUBSET W, Coherent(d, p, W, C),
           p.offset # OFF_NONE, p.extent = BLK, NEW fail, fail # "short"
    PROVE  Paged(d, p, W, C, d, PageInUpper(d, p, fail), p.offset, 2 * BLK)
<1> DEFINE o == p.offset + BLK
           b == PgIn(d, p.base, BLK, o, BLK)
           n == NRead(d, o, BLK)
           q == PageInUpper(d, p, fail)
<1>1. /\ BLK \in Nat \ {0} /\ OFF_NONE \notin Nat /\ p \in Buffers /\ d \in Disks /\ d.len \in Nat
      /\ p.offset \in Nat /\ p.cnt \in Nat /\ p.cnt <= BLK
      /\ p.base \in [0 .. 2 * BLK - 1 -> Values]
  BY Parts
<1>2. /\ b \in [0 .. 2 * BLK - 1 -> Values]
      /\ \A a \in Offsets : a \in Region(o, BLK) => b[a - o + BLK] = d.byte[a]
      /\ \A i \in 0 .. 2 * BLK - 1 : i \notin Region(BLK, BLK) => b[i] = p.base[i]
      /\ n \in 0 .. BLK
      /\ \A a \in Offsets : a \in Region(o, BLK) /\ a < d.len => a < o + n
  <2>1. o \in Nat /\ BLK \in Nat /\ BLK + BLK <= 2 * BLK
    BY <1>1
  <2>2. PagedIn(d, p.base, BLK, o, BLK, b, n)
    BY <1>1, <2>1, PageIn, Zenon
  <2> HIDE DEF o, b, n
  <2> QED
    BY <2>2, Zenon DEF PagedIn
<1>3. /\ q.offset = p.offset /\ q.extent = 2 * BLK /\ q.cnt = BLK + n /\ q.base = b
      /\ q.write = p.write /\ q.modified = p.modified /\ q \in Buffers
  <2>1. q = [p EXCEPT !.base = b, !.extent = 2 * BLK, !.cnt = BLK + n]
    BY DEF PageInUpper, Seen
  <2>2. 2 * BLK \in Nat /\ BLK + n \in Nat
    BY <1>1, <1>2
  <2> HIDE DEF b, n, q
  <2> QED
    BY <1>1, <1>2, <2>1, <2>2 DEF Buffers
<1> HIDE DEF b, n, q
<1>4. ASSUME NEW a \in W
      PROVE  /\ InPages(q, a) => InBuf(q, a)
             /\ InBuf(p, a) => InBuf(q, a) /\ q.base[a - q.offset] = p.base[a - p.offset]
             /\ InBuf(q, a) /\ ~InBuf(p, a) => q.base[a - q.offset] = d.byte[a] /\ a < d.len
  <2>1. a \in Nat /\ a \in Offsets
    BY DEF Offsets
  <2>2. InPages(p, a) => InBuf(p, a)
    BY DEF Coherent
  <2>3. ~InBuf(p, a) => a < d.len
    BY DEF Coherent
  <2>4. InBuf(p, a) <=> a \in p.offset .. p.offset + p.cnt - 1
    BY <1>1 DEF InBuf, Region
  <2>5. InPages(p, a) <=> a \in p.offset .. o - 1
    BY <1>1 DEF InPages, Region
  <2>6. InPages(q, a) <=> a \in p.offset .. p.offset + 2 * BLK - 1
    BY <1>1, <1>3 DEF InPages, Region
  <2>7. InBuf(q, a) <=> a \in p.offset .. p.offset + BLK + n - 1
    BY <1>1, <1>2, <1>3 DEF InBuf, Region
  <2>8. a \in Region(o, BLK) <=> a \in o .. p.offset + 2 * BLK - 1
    BY <1>1 DEF Region
  <2>9. InPages(q, a) => InBuf(q, a)
    <3> SUFFICES ASSUME InPages(q, a) PROVE InBuf(q, a)
      OBVIOUS
    <3>1. CASE a < o
      BY <1>1, <1>2, <2>1, <2>6, <2>7, <3>1
    <3>2. CASE a >= o
      <4>1. a \in Region(o, BLK) /\ ~InBuf(p, a)
        BY <1>1, <2>1, <2>4, <2>6, <2>8, <3>2
      <4>2. a < o + n
        BY <1>2, <2>1, <2>3, <4>1
      <4> QED
        BY <1>1, <1>2, <2>1, <2>6, <2>7, <4>2
    <3> QED
      BY <1>1, <2>1, <3>1, <3>2
  <2>10. ASSUME InBuf(p, a)
         PROVE  InBuf(q, a) /\ q.base[a - q.offset] = p.base[a - p.offset]
    <3>1. a - p.offset \in 0 .. 2 * BLK - 1 /\ a - p.offset \notin Region(BLK, BLK) /\ InBuf(q, a)
      BY <1>1, <1>2, <2>1, <2>4, <2>7, <2>10 DEF Region
    <3> QED
      BY <1>2, <1>3, <3>1
  <2>11. ASSUME InBuf(q, a), ~InBuf(p, a)
         PROVE  q.base[a - q.offset] = d.byte[a] /\ a < d.len
    <3>1. ~InPages(p, a)
      BY <2>2, <2>11
    <3>2. a \in Region(o, BLK) /\ a - o + BLK = a - p.offset
      BY <1>1, <1>2, <2>1, <2>5, <2>7, <2>8, <2>11, <3>1
    <3>3. b[a - o + BLK] = d.byte[a]
      BY <1>2, <2>1, <3>2
    <3> QED
      BY <1>3, <2>3, <2>11, <3>2, <3>3
  <2> QED
    BY <2>9, <2>10, <2>11
<1>5. Coherent(d, q, W, C)
  <2>1. d \in Disks /\ q \in Buffers /\ q.extent \in {0, BLK, 2 * BLK} /\ q.cnt <= q.extent
    BY <1>1, <1>2, <1>3
  <2>2. q.modified => q.write /\ q.offset # OFF_NONE
    BY <1>3 DEF Coherent
  <2>3. q.offset # OFF_NONE => q.extent # 0
    BY <1>1, <1>3
  <2>4. \A a \in W : InPages(q, a) => InBuf(q, a)
    BY <1>4
  <2>5. \A a \in W : InBuf(q, a) /\ ~q.modified => q.base[a - q.offset] = d.byte[a]
    BY <1>3, <1>4 DEF Coherent
  <2>6. \A a \in C : InBuf(q, a) => q.base[a - q.offset] = d.byte[a]
    BY <1>4 DEF Coherent
  <2>7. \A a \in W : a < d.len \/ (q.modified /\ InBuf(q, a))
    BY <1>3, <1>4 DEF Coherent
  <2>8. \A a \in C : a < d.len
    BY DEF Coherent
  <2> QED
    BY <2>1, <2>2, <2>3, <2>4, <2>5, <2>6, <2>7, <2>8 DEF Coherent
<1>6. \A a \in W : ViewOf(d, q, a) = ViewOf(d, p, a)
  BY <1>4 DEF ViewOf
<1> QED
  BY <1>3, <1>5, <1>6 DEF Keeps, Paged, q

\* Another buffer for the same file: it holds what is seen of its pages, and the
\* file holds the rest.
Rebuffered(d, p, W, C, e, q) ==
    /\ e \in Disks /\ e.len >= d.len
    /\ q \in Buffers /\ q.offset \in Nat /\ q.extent \in {BLK, 2 * BLK} /\ q.cnt <= q.extent
    /\ q.modified = p.modified /\ q.write = p.write
    /\ \A a \in W : /\ InPages(q, a) => InBuf(q, a)
                    /\ InBuf(q, a) => q.base[a - q.offset] = ViewOf(d, p, a)
                    /\ ~InBuf(q, a) => e.byte[a] = ViewOf(d, p, a) /\ a < e.len
                    /\ e.byte[a] \in {d.byte[a], ViewOf(d, p, a)}
    /\ \A a \in C : e.byte[a] = d.byte[a]

\* Nobody sees it.
LEMMA RebufferedKeeps ==
    ASSUME NEW d, NEW p, NEW W \in SUBSET Offsets, NEW C \in SUBSET W, Coherent(d, p, W, C),
           NEW e, NEW q, Rebuffered(d, p, W, C, e, q)
    PROVE  Keeps(d, p, W, C, e, q)
<1>1. BLK \in Nat \ {0} /\ OFF_NONE \notin Nat /\ d.len \in Nat /\ e.len \in Nat /\ e.len >= d.len
  BY Parts DEF Rebuffered, Disks
<1>2. \A a \in W : ~p.modified => ViewOf(d, p, a) = d.byte[a]
  BY DEF Coherent, ViewOf
<1>3. \A a \in C : ViewOf(d, p, a) = d.byte[a]
  BY DEF Coherent, ViewOf
<1>4. \A a \in W : ~p.modified => a < d.len
  BY DEF Coherent
<1>5. \A a \in Offsets : a < d.len => a < e.len
  BY <1>1 DEF Offsets
<1>6. e \in Disks /\ q \in Buffers /\ q.extent \in {0, BLK, 2 * BLK} /\ q.cnt <= q.extent
  BY DEF Rebuffered
<1>7. /\ q.modified => q.write /\ q.offset # OFF_NONE
      /\ q.offset # OFF_NONE => q.extent # 0
  BY <1>1 DEF Rebuffered, Coherent
<1>8. \A a \in W : InPages(q, a) => InBuf(q, a)
  BY DEF Rebuffered
<1>9. \A a \in W : InBuf(q, a) /\ ~q.modified => q.base[a - q.offset] = e.byte[a]
  BY <1>2 DEF Rebuffered
<1>10. \A a \in C : InBuf(q, a) => q.base[a - q.offset] = e.byte[a]
  BY <1>3 DEF Rebuffered
<1>11. \A a \in W : a < e.len \/ (q.modified /\ InBuf(q, a))
  BY <1>4, <1>5 DEF Rebuffered
<1>12. \A a \in C : a < e.len
  BY <1>5 DEF Coherent
<1>13. Coherent(e, q, W, C)
  BY <1>6, <1>7, <1>8, <1>9, <1>10, <1>11, <1>12 DEF Coherent
<1>14. \A a \in W : ViewOf(e, q, a) = ViewOf(d, p, a)
  BY DEF Rebuffered, ViewOf
<1> QED
  BY <1>13, <1>14 DEF Keeps, Rebuffered

\* The file and the buffer when px_get makes the upper page the lower one.
ShiftDisk(d, p) == IF p.modified THEN PgOut(d, p.base, 0, p.offset, BLK) ELSE d

Shift(p) ==
    LET p1 == IF p.cnt > BLK
              THEN [p EXCEPT !.base = Copied(@, 0, BLK, p.cnt - BLK), !.cnt = @ - BLK]
              ELSE p
    IN  [p1 EXCEPT !.offset = @ + BLK, !.extent = BLK]

\* The fields of the shifted buffer.
LEMMA ShiftIs ==
    ASSUME NEW d, NEW p, NEW W, NEW C, Coherent(d, p, W, C), p.offset # OFF_NONE, p.extent = 2 * BLK
    PROVE  /\ Shift(p) \in Buffers
           /\ Shift(p).offset = p.offset + BLK /\ Shift(p).extent = BLK
           /\ Shift(p).cnt = (IF p.cnt > BLK THEN p.cnt - BLK ELSE p.cnt)
           /\ Shift(p).modified = p.modified /\ Shift(p).write = p.write
           /\ \A i \in 0 .. p.cnt - BLK - 1 : Shift(p).base[i] = p.base[i + BLK]
<1> DEFINE c == Copied(p.base, 0, BLK, p.cnt - BLK)
           k == p.cnt - BLK
           o == p.offset + BLK
<1>1. /\ BLK \in Nat \ {0} /\ p \in Buffers /\ p.offset \in Nat /\ p.cnt \in Nat /\ p.cnt <= 2 * BLK
      /\ p.base \in [0 .. 2 * BLK - 1 -> Values]
  BY Parts
<1>2. ASSUME p.cnt > BLK
      PROVE  c \in [0 .. 2 * BLK - 1 -> Values] /\ \A i \in 0 .. k - 1 : c[i] = p.base[i + BLK]
  <2>1. c = [i \in 0 .. 2 * BLK - 1 |-> IF i \in 0 .. 0 + k - 1 THEN p.base[i - 0 + BLK] ELSE p.base[i]]
    BY <1>1 DEF Copied
  <2>2. \A i \in 0 .. 2 * BLK - 1 : i \in 0 .. 0 + k - 1 =>
            i - 0 + BLK \in 0 .. 2 * BLK - 1 /\ i - 0 + BLK = i + BLK
    BY <1>1
  <2>3. \A i \in 0 .. k - 1 : i \in 0 .. 2 * BLK - 1 /\ i \in 0 .. 0 + k - 1
    BY <1>1
  <2> HIDE DEF c, k
  <2>4. c \in [0 .. 2 * BLK - 1 -> Values]
    BY <1>1, <2>1, <2>2
  <2> QED
    BY <2>1, <2>2, <2>3, <2>4
<1>3. o \in Nat /\ BLK \in Nat /\ (p.cnt > BLK => k \in Nat)
  BY <1>1
<1>4. CASE p.cnt > BLK
  <2>1. Shift(p) = [p EXCEPT !.base = c, !.cnt = k, !.offset = o, !.extent = BLK]
    BY <1>1, <1>4 DEF Shift, Buffers
  <2>2. k \in Nat /\ c \in [0 .. 2 * BLK - 1 -> Values] /\ \A i \in 0 .. k - 1 : c[i] = p.base[i + BLK]
    BY <1>2, <1>3, <1>4
  <2> HIDE DEF c, k, o
  <2>3. /\ Shift(p) \in Buffers /\ Shift(p).offset = o /\ Shift(p).extent = BLK
        /\ Shift(p).cnt = k /\ Shift(p).base = c
        /\ Shift(p).modified = p.modified /\ Shift(p).write = p.write
    BY <1>1, <1>3, <2>1, <2>2 DEF Buffers
  <2> QED
    BY <1>4, <2>2, <2>3 DEF k, o
<1>5. CASE ~(p.cnt > BLK)
  <2>1. Shift(p) = [p EXCEPT !.offset = o, !.extent = BLK]
    BY <1>5 DEF Shift
  <2> HIDE DEF o
  <2>2. /\ Shift(p) \in Buffers /\ Shift(p).offset = o /\ Shift(p).extent = BLK
        /\ Shift(p).cnt = p.cnt
        /\ Shift(p).modified = p.modified /\ Shift(p).write = p.write
    BY <1>1, <1>3, <2>1 DEF Buffers
  <2>3. 0 .. p.cnt - BLK - 1 = {}
    BY <1>1, <1>5
  <2> QED
    BY <1>5, <2>2, <2>3 DEF o
<1> QED
  BY <1>4, <1>5

\* A buffer that is not modified need not be written, nor one of no bytes.
LEMMA NoPageOut ==
    ASSUME NEW d, NEW p, NEW W \in SUBSET Offsets, NEW C \in SUBSET W, Coherent(d, p, W, C),
           NEW at, NEW n, ~p.modified \/ Region(p.offset + at, n) = {}
    PROVE  PagedOut(d, p, W, C, d, at, n)
<1>1. d \in Disks /\ d.len \in Nat
  BY Parts
<1>2. \A a \in W : ~p.modified => ViewOf(d, p, a) = d.byte[a] /\ a < d.len
  BY DEF Coherent, ViewOf
<1> QED
  BY <1>1, <1>2 DEF PagedOut

\* The region goes on after the upper page, which becomes the lower one.
LEMMA ShiftKeeps ==
    ASSUME NEW d, NEW p, NEW W \in SUBSET Offsets, NEW C \in SUBSET W, Coherent(d, p, W, C),
           p.offset # OFF_NONE, p.extent = 2 * BLK
    PROVE  Keeps(d, p, W, C, ShiftDisk(d, p), Shift(p))
<1> DEFINE e == ShiftDisk(d, p)
           q == Shift(p)
<1>1. /\ BLK \in Nat \ {0} /\ OFF_NONE \notin Nat /\ p.offset \in Nat /\ p.cnt \in Nat
      /\ p.cnt <= 2 * BLK /\ d.len \in Nat
  BY Parts
<1>2. PagedOut(d, p, W, C, e, 0, BLK)
  <2>1. CASE p.modified
    <3>1. p.offset + 0 = p.offset /\ 0 \in Nat /\ BLK \in Nat /\ 0 + BLK <= p.extent
      BY <1>1
    <3>2. PagedOut(d, p, W, C, PgOut(d, p.base, 0, p.offset + 0, BLK), 0, BLK)
      BY <3>1, PageOut, Zenon
    <3> QED
      BY <2>1, <3>1, <3>2 DEF ShiftDisk
  <2>2. CASE ~p.modified
    BY <2>2, NoPageOut DEF ShiftDisk
  <2> QED
    BY <2>1, <2>2
<1>3. /\ q \in Buffers /\ q.offset = p.offset + BLK /\ q.extent = BLK
      /\ q.cnt = (IF p.cnt > BLK THEN p.cnt - BLK ELSE p.cnt)
      /\ q.modified = p.modified /\ q.write = p.write
      /\ \A i \in 0 .. p.cnt - BLK - 1 : q.base[i] = p.base[i + BLK]
  BY ShiftIs
<1> HIDE DEF e, q
<1>4. q.offset \in Nat /\ q.extent \in {BLK, 2 * BLK} /\ q.cnt <= q.extent /\ q.cnt \in Nat
  BY <1>1, <1>3
<1>5. e \in Disks /\ e.len >= d.len /\ e.len \in Nat
  BY <1>2 DEF PagedOut, Disks
<1>6. ASSUME NEW a \in W
      PROVE  /\ InPages(q, a) => InBuf(q, a)
             /\ InBuf(q, a) => q.base[a - q.offset] = ViewOf(d, p, a)
             /\ ~InBuf(q, a) => e.byte[a] = ViewOf(d, p, a) /\ a < e.len
             /\ e.byte[a] \in {d.byte[a], ViewOf(d, p, a)}
  <2> DEFINE v == ViewOf(d, p, a)
  <2>1. a \in Nat /\ p.offset + 0 = p.offset
    BY <1>1 DEF Offsets
  <2>2. InPages(p, a) => InBuf(p, a)
    BY DEF Coherent
  <2>3. ~InBuf(p, a) => a < d.len /\ v = d.byte[a]
    BY DEF Coherent, ViewOf
  <2>4. InBuf(p, a) => v = p.base[a - p.offset]
    BY DEF ViewOf
  <2>5. /\ a \in p.offset .. p.offset + BLK - 1 => e.byte[a] = v /\ a < e.len
        /\ a \notin p.offset .. p.offset + BLK - 1 => e.byte[a] = d.byte[a]
    BY <1>2, <2>1 DEF PagedOut, Region
  <2> HIDE DEF v
  <2>6. /\ InPages(p, a) <=> a \in p.offset .. p.offset + 2 * BLK - 1
        /\ InBuf(p, a) <=> a \in p.offset .. p.offset + p.cnt - 1
        /\ InPages(q, a) <=> a \in p.offset + BLK .. p.offset + 2 * BLK - 1
        /\ InBuf(q, a) <=> a \in p.offset + BLK .. p.offset + BLK + q.cnt - 1
    BY <1>1, <1>3, <1>4 DEF InPages, InBuf, Region
  <2>7. InPages(q, a) => InPages(p, a) /\ InBuf(p, a)
    BY <1>1, <2>1, <2>2, <2>6
  <2>8. InPages(q, a) => InBuf(q, a)
    BY <1>1, <1>3, <2>1, <2>6, <2>7
  <2>9. InBuf(q, a) => InPages(q, a)
    BY <1>1, <1>3, <1>4, <2>1, <2>6
  <2>10. ASSUME InBuf(q, a)
         PROVE  q.base[a - q.offset] = v
    <3>1. InBuf(p, a)
      BY <2>7, <2>9, <2>10
    <3>2. a - q.offset \in 0 .. p.cnt - BLK - 1 /\ a - q.offset + BLK = a - p.offset
      BY <1>1, <1>3, <2>1, <2>6, <2>10, <3>1
    <3> QED
      BY <1>3, <2>4, <3>1, <3>2
  <2>11. ASSUME ~InBuf(q, a)
         PROVE  e.byte[a] = v /\ a < e.len
    <3>1. CASE InBuf(p, a)
      <4>1. a \in p.offset .. p.offset + BLK - 1
        BY <1>1, <2>1, <2>6, <2>8, <2>11, <3>1
      <4> QED
        BY <2>5, <4>1
    <3>2. CASE ~InBuf(p, a)
      BY <1>1, <1>5, <2>1, <2>3, <2>5, <3>2
    <3> QED
      BY <3>1, <3>2
  <2>12. e.byte[a] \in {d.byte[a], v}
    BY <2>5
  <2> QED
    BY <2>8, <2>10, <2>11, <2>12 DEF v
<1>7. \A a \in C : e.byte[a] = d.byte[a]
  BY <1>2 DEF PagedOut
<1>8. Rebuffered(d, p, W, C, e, q)
  BY <1>3, <1>4, <1>5, <1>6, <1>7 DEF Rebuffered
<1>9. Keeps(d, p, W, C, e, q)
  BY <1>8, RebufferedKeeps
<1> QED
  BY <1>9 DEF e, q

\* The file and the buffer when px_get makes the lower page the upper one.
BelowDisk(d, p) ==
    IF p.cnt > BLK /\ p.modified THEN PgOut(d, p.base, BLK, p.offset + BLK, p.cnt - BLK) ELSE d

Below(e, p) ==
    LET p1  == IF p.cnt > BLK THEN [p EXCEPT !.cnt = BLK, !.extent = BLK] ELSE p
        p2  == IF p1.cnt > 0 THEN [p1 EXCEPT !.base = Copied(@, BLK, 0, BLK)] ELSE p1
        off == p.offset - BLK
    IN  [p2 EXCEPT !.base = PgIn(e, @, 0, off, BLK),
                   !.offset = off,
                   !.extent = IF p2.cnt # 0 THEN 2 * BLK ELSE BLK,
                   !.cnt = IF p2.cnt # 0 THEN BLK + @ ELSE NRead(e, off, BLK)]

\* The fields of that buffer.
LEMMA BelowIs ==
    ASSUME NEW d, NEW p, NEW W, NEW C, Coherent(d, p, W, C), p.offset # OFF_NONE,
           p.offset >= BLK, NEW e \in Disks, NEW m, m = (IF p.cnt > BLK THEN BLK ELSE p.cnt),
           NEW n, n = NRead(e, p.offset - BLK, BLK)
    PROVE  /\ Below(e, p) \in Buffers /\ n \in 0 .. BLK
           /\ Below(e, p).offset = p.offset - BLK
           /\ Below(e, p).extent = (IF m # 0 THEN 2 * BLK ELSE BLK)
           /\ Below(e, p).cnt = (IF m # 0 THEN BLK + m ELSE n)
           /\ Below(e, p).modified = p.modified /\ Below(e, p).write = p.write
           /\ \A a \in Offsets : a \in Region(p.offset - BLK, BLK) =>
                 Below(e, p).base[a - (p.offset - BLK)] = e.byte[a]
           /\ m # 0 => \A i \in 0 .. BLK - 1 : Below(e, p).base[i + BLK] = p.base[i]
           /\ \A a \in Offsets : a \in Region(p.offset - BLK, BLK) /\ a < e.len => a < p.offset - BLK + n
<1> DEFINE off == p.offset - BLK
           c == IF m # 0 THEN Copied(p.base, BLK, 0, BLK) ELSE p.base
           b == PgIn(e, c, 0, off, BLK)
           ext == IF m # 0 THEN 2 * BLK ELSE BLK
           k == IF m # 0 THEN BLK + m ELSE n
           q == Below(e, p)
<1>1. /\ BLK \in Nat \ {0} /\ p \in Buffers /\ p.offset \in Nat /\ p.cnt \in Nat
      /\ p.base \in [0 .. 2 * BLK - 1 -> Values]
  BY Parts
<1>2. off \in Nat /\ m \in 0 .. BLK /\ BLK \in Nat /\ 0 \in Nat /\ 0 + BLK <= 2 * BLK /\ 2 * BLK \in Nat
  BY <1>1
<1>3. /\ c \in [0 .. 2 * BLK - 1 -> Values]
      /\ m # 0 => \A i \in 0 .. BLK - 1 : c[i + BLK] = p.base[i]
  <2>1. CASE m = 0
    BY <1>1, <2>1
  <2>2. CASE m # 0
    <3>1. c = [i \in 0 .. 2 * BLK - 1 |->
                  IF i \in BLK .. BLK + BLK - 1 THEN p.base[i - BLK + 0] ELSE p.base[i]]
      BY <1>1, <2>2 DEF Copied
    <3>2. \A i \in 0 .. 2 * BLK - 1 : i \in BLK .. BLK + BLK - 1 => i - BLK + 0 \in 0 .. 2 * BLK - 1
      BY <1>1
    <3> HIDE DEF c
    <3>4. c \in [0 .. 2 * BLK - 1 -> Values]
      BY <1>1, <3>1, <3>2
    <3>5. ASSUME NEW i \in 0 .. BLK - 1
          PROVE  c[i + BLK] = p.base[i]
      <4> DEFINE j == i + BLK
      <4>1. j \in 0 .. 2 * BLK - 1 /\ j \in BLK .. BLK + BLK - 1 /\ j - BLK + 0 = i
        BY <1>1
      <4> HIDE DEF j
      <4>2. c[j] = p.base[i]
        BY <3>1, <4>1
      <4> QED
        BY <4>2 DEF j
    <3> QED
      BY <3>4, <3>5
  <2> QED
    BY <2>1, <2>2
<1> HIDE DEF c
<1>4. PagedIn(e, c, 0, off, BLK, b, n)
  <2> HIDE DEF off, b
  <2> QED
    BY <1>2, <1>3, PageIn, Zenon DEF b, off
<1>5. q = [p EXCEPT !.base = b, !.offset = off, !.extent = ext, !.cnt = k]
  <2>1. CASE p.cnt > BLK
    <3>1. m = BLK /\ m # 0 /\ m > 0 /\ BLK > 0 /\ BLK # 0
      BY <1>1, <2>1
    <3> QED
      BY <1>1, <2>1, <3>1 DEF Below, Buffers, c
  <2>2. CASE ~(p.cnt > BLK)
    <3>1. m = p.cnt /\ (p.cnt > 0 <=> m # 0)
      BY <1>1, <2>2
    <3> QED
      BY <1>1, <2>2, <3>1 DEF Below, Buffers, c
  <2> QED
    BY <2>1, <2>2
<1> HIDE DEF b
<1>6. /\ b \in [0 .. 2 * BLK - 1 -> Values]
      /\ \A a \in Offsets : a \in Region(off, BLK) => b[a - off + 0] = e.byte[a]
      /\ \A i \in 0 .. 2 * BLK - 1 : i \notin Region(0, BLK) => b[i] = c[i]
      /\ n \in 0 .. BLK
      /\ \A a \in Offsets : a \in Region(off, BLK) /\ a < e.len => a < off + n
  <2> HIDE DEF off
  <2> QED
    BY <1>4, Zenon DEF PagedIn
<1>7. k \in Nat /\ ext \in Nat
  BY <1>1, <1>2, <1>6
<1> HIDE DEF off, ext, k, q
<1>8. /\ q \in Buffers /\ q.offset = off /\ q.extent = ext /\ q.cnt = k /\ q.base = b
      /\ q.modified = p.modified /\ q.write = p.write
  BY <1>1, <1>2, <1>5, <1>6, <1>7 DEF Buffers
<1>9. \A a \in Offsets : a \in Region(off, BLK) => q.base[a - off] = e.byte[a]
  <2> TAKE a \in Offsets
  <2>1. a - off + 0 = a - off
    BY <1>2 DEF Offsets
  <2> QED
    BY <1>6, <1>8, <2>1
<1>10. m # 0 => \A i \in 0 .. BLK - 1 : q.base[i + BLK] = p.base[i]
  <2>1. \A i \in 0 .. BLK - 1 : i + BLK \in 0 .. 2 * BLK - 1 /\ i + BLK \notin Region(0, BLK)
    BY <1>1 DEF Region
  <2> QED
    BY <1>3, <1>6, <1>8, <2>1
<1> QED
  BY <1>6, <1>8, <1>9, <1>10 DEF off, ext, k, q

\* The page below the buffer is asked for.
LEMMA BelowKeeps ==
    ASSUME NEW d, NEW p, NEW W \in SUBSET Offsets, NEW C \in SUBSET W, Coherent(d, p, W, C),
           p.offset # OFF_NONE, p.offset >= BLK
    PROVE  Keeps(d, p, W, C, BelowDisk(d, p), Below(BelowDisk(d, p), p))
<1> DEFINE e == BelowDisk(d, p)
           q == Below(e, p)
           m == IF p.cnt > BLK THEN BLK ELSE p.cnt
           off == p.offset - BLK
           n == NRead(e, p.offset - BLK, BLK)
<1>1. /\ BLK \in Nat \ {0} /\ OFF_NONE \notin Nat /\ p.offset \in Nat /\ p.cnt \in Nat
      /\ p.cnt <= p.extent /\ p.extent \in {BLK, 2 * BLK} /\ d.len \in Nat
  <2>1. p.extent \in {BLK, 2 * BLK}
    BY DEF Coherent
  <2> QED
    BY <2>1, Parts
<1>2. PagedOut(d, p, W, C, e, BLK, p.cnt - BLK)
  <2>1. CASE p.cnt > BLK /\ p.modified
    <3>1. BLK \in Nat /\ p.cnt - BLK \in Nat /\ BLK + (p.cnt - BLK) <= p.extent
      BY <1>1, <2>1
    <3>2. PagedOut(d, p, W, C, PgOut(d, p.base, BLK, p.offset + BLK, p.cnt - BLK), BLK, p.cnt - BLK)
      BY <3>1, PageOut, Zenon
    <3> QED
      BY <2>1, <3>2 DEF BelowDisk
  <2>2. CASE ~(p.cnt > BLK /\ p.modified)
    <3>1. ~(p.cnt > BLK) => Region(p.offset + BLK, p.cnt - BLK) = {}
      BY <1>1 DEF Region
    <3>2. PagedOut(d, p, W, C, d, BLK, p.cnt - BLK)
      BY <2>2, <3>1, NoPageOut
    <3> QED
      BY <2>2, <3>2 DEF BelowDisk
  <2> QED
    BY <2>1, <2>2
<1>3. e \in Disks /\ e.len >= d.len /\ e.len \in Nat
  BY <1>2 DEF PagedOut, Disks
<1> HIDE DEF e
<1>4. /\ q \in Buffers /\ n \in 0 .. BLK
      /\ q.offset = off /\ q.extent = (IF m # 0 THEN 2 * BLK ELSE BLK)
      /\ q.cnt = (IF m # 0 THEN BLK + m ELSE n)
      /\ q.modified = p.modified /\ q.write = p.write
      /\ \A a \in Offsets : a \in Region(off, BLK) => q.base[a - off] = e.byte[a]
      /\ m # 0 => \A i \in 0 .. BLK - 1 : q.base[i + BLK] = p.base[i]
      /\ \A a \in Offsets : a \in Region(off, BLK) /\ a < e.len => a < off + n
  BY <1>3, BelowIs
<1>5. m \in 0 .. BLK /\ m <= p.cnt /\ off \in Nat /\ p.offset = off + BLK
      /\ (m < BLK => m = p.cnt)
  BY <1>1
<1> HIDE DEF q, m, n, off
<1>6. q.offset \in Nat /\ q.extent \in {BLK, 2 * BLK} /\ q.cnt <= q.extent /\ q.cnt \in Nat
  BY <1>1, <1>4, <1>5
<1>7. ASSUME NEW a \in W
      PROVE  /\ InPages(q, a) => InBuf(q, a)
             /\ InBuf(q, a) => q.base[a - q.offset] = ViewOf(d, p, a)
             /\ ~InBuf(q, a) => e.byte[a] = ViewOf(d, p, a) /\ a < e.len
             /\ e.byte[a] \in {d.byte[a], ViewOf(d, p, a)}
  <2> DEFINE v == ViewOf(d, p, a)
  <2>1. a \in Nat /\ a \in Offsets
    BY DEF Offsets
  <2>2. InPages(p, a) => InBuf(p, a)
    BY DEF Coherent
  <2>3. ~InBuf(p, a) => a < d.len /\ v = d.byte[a]
    BY DEF Coherent, ViewOf
  <2>4. InBuf(p, a) => v = p.base[a - p.offset]
    BY DEF ViewOf
  <2>5. /\ a \in p.offset + BLK .. p.offset + BLK + (p.cnt - BLK) - 1 => e.byte[a] = v /\ a < e.len
        /\ a \notin p.offset + BLK .. p.offset + BLK + (p.cnt - BLK) - 1 => e.byte[a] = d.byte[a]
    BY <1>2 DEF PagedOut, Region
  <2> HIDE DEF v
  <2>6. /\ InPages(p, a) <=> a \in p.offset .. p.offset + p.extent - 1
        /\ InBuf(p, a) <=> a \in p.offset .. p.offset + p.cnt - 1
        /\ InPages(q, a) <=> a \in off .. off + q.extent - 1
        /\ InBuf(q, a) <=> a \in off .. off + q.cnt - 1
    BY <1>1, <1>4, <1>5, <1>6 DEF InPages, InBuf, Region
  <2>7. ~InBuf(p, a) => e.byte[a] = v /\ a < e.len
    BY <1>1, <1>3, <2>1, <2>3, <2>5, <2>6
  <2>8. a \in Region(off, BLK) <=> a >= off /\ a < p.offset
    BY <1>1, <1>5, <2>1 DEF Region
  <2>9. a \in Region(off, BLK) => ~InBuf(p, a) /\ q.base[a - off] = v
    BY <1>1, <1>4, <2>1, <2>6, <2>7, <2>8
  <2>10. CASE m # 0
    <3>1. InPages(q, a) => InBuf(q, a)
      <4> SUFFICES ASSUME InPages(q, a), a >= p.offset PROVE InBuf(q, a)
        BY <1>1, <1>4, <1>5, <2>1, <2>6, <2>10
      <4>1. InBuf(p, a)
        BY <1>1, <1>4, <1>5, <2>1, <2>2, <2>6, <2>10
      <4> QED
        BY <1>1, <1>4, <1>5, <2>1, <2>6, <2>10, <4>1
    <3>2. ASSUME InBuf(q, a)
          PROVE  q.base[a - q.offset] = v
      <4>1. CASE a < p.offset
        <5>1. a \in Region(off, BLK)
          BY <1>1, <1>5, <1>6, <2>1, <2>6, <2>8, <3>2, <4>1
        <5> QED
          BY <1>4, <2>9, <5>1
      <4>2. CASE a >= p.offset
        <5> DEFINE i == a - p.offset
        <5>1. i \in 0 .. BLK - 1 /\ i + BLK = a - off /\ InBuf(p, a)
          BY <1>1, <1>4, <1>5, <2>1, <2>6, <2>10, <3>2, <4>2
        <5>2. q.base[i + BLK] = p.base[i]
          <6> HIDE DEF i
          <6> QED
            BY <1>4, <2>10, <5>1
        <5> QED
          BY <1>4, <2>4, <5>1, <5>2
      <4> QED
        BY <1>1, <2>1, <4>1, <4>2
    <3>3. ASSUME ~InBuf(q, a)
          PROVE  e.byte[a] = v /\ a < e.len
      <4> SUFFICES ASSUME InBuf(p, a) PROVE e.byte[a] = v /\ a < e.len
        BY <2>7
      <4>1. a \in p.offset + BLK .. p.offset + BLK + (p.cnt - BLK) - 1
        BY <1>1, <1>4, <1>5, <2>1, <2>6, <2>10, <3>3
      <4> QED
        BY <2>5, <4>1
    <3> QED
      BY <2>5, <3>1, <3>2, <3>3 DEF v
  <2>11. CASE m = 0
    <3>1. ~InBuf(p, a)
      BY <1>1, <1>5, <2>1, <2>6, <2>11
    <3>2. e.byte[a] = v /\ a < e.len
      BY <2>7, <3>1
    <3>3. InPages(q, a) => a \in Region(off, BLK)
      BY <1>1, <1>4, <1>5, <2>1, <2>6, <2>8, <2>11
    <3>4. InPages(q, a) => InBuf(q, a)
      BY <1>1, <1>4, <1>5, <2>1, <2>6, <2>11, <3>2, <3>3
    <3>5. InBuf(q, a) => InPages(q, a)
      BY <1>1, <1>5, <1>6, <2>1, <2>6
    <3>6. InBuf(q, a) => q.base[a - q.offset] = v
      BY <1>4, <2>9, <3>3, <3>5
    <3> QED
      BY <3>2, <3>4, <3>6 DEF v
  <2> QED
    BY <2>10, <2>11
<1>8. \A a \in C : e.byte[a] = d.byte[a]
  BY <1>2 DEF PagedOut
<1>9. Rebuffered(d, p, W, C, e, q)
  BY <1>3, <1>4, <1>6, <1>7, <1>8 DEF Rebuffered
<1>10. Keeps(d, p, W, C, e, q)
  BY <1>9, RebufferedKeeps
<1> QED
  BY <1>10 DEF e, q

\* The file and the buffer when all of the buffer is written.
FlushDisk(d, p) == IF p.modified THEN PgOut(d, p.base, 0, p.offset, p.cnt) ELSE d

FlushBuf(p) == IF p.modified THEN [p EXCEPT !.write = FALSE, !.modified = FALSE] ELSE p

\* After that the file holds everything that was written.
LEMMA FlushKeeps ==
    ASSUME NEW d, NEW p, NEW W \in SUBSET Offsets, NEW C \in SUBSET W, Coherent(d, p, W, C)
    PROVE  /\ Keeps(d, p, W, C, FlushDisk(d, p), FlushBuf(p))
           /\ ~FlushBuf(p).modified /\ FlushBuf(p).offset = p.offset
           /\ \A a \in W : /\ FlushDisk(d, p).byte[a] = ViewOf(d, p, a)
                           /\ a < FlushDisk(d, p).len
<1> DEFINE e == FlushDisk(d, p)
           q == FlushBuf(p)
<1>1. /\ BLK \in Nat \ {0} /\ OFF_NONE \notin Nat /\ p \in Buffers /\ p.cnt \in Nat
      /\ p.cnt <= p.extent /\ d.len \in Nat /\ p.extent \in {0, BLK, 2 * BLK}
      /\ p.modified => p.offset \in Nat /\ p.offset # OFF_NONE
  <2>1. p.extent \in {0, BLK, 2 * BLK} /\ (p.modified => p.offset # OFF_NONE)
    BY DEF Coherent
  <2> QED
    BY <2>1, Parts
<1>2. PagedOut(d, p, W, C, e, 0, p.cnt)
  <2>1. CASE p.modified
    <3>1. p.offset + 0 = p.offset /\ 0 \in Nat /\ 0 + p.cnt <= p.extent
      BY <1>1, <2>1 DEF Buffers
    <3>2. PagedOut(d, p, W, C, PgOut(d, p.base, 0, p.offset + 0, p.cnt), 0, p.cnt)
      BY <1>1, <2>1, <3>1, PageOut, Zenon
    <3> QED
      BY <2>1, <3>1, <3>2 DEF FlushDisk
  <2>2. CASE ~p.modified
    BY <2>2, NoPageOut DEF FlushDisk
  <2> QED
    BY <2>1, <2>2
<1>3. e \in Disks /\ e.len >= d.len /\ e.len \in Nat
  BY <1>2 DEF PagedOut, Disks
<1>4. /\ q \in Buffers /\ q.offset = p.offset /\ q.extent = p.extent /\ q.cnt = p.cnt
      /\ q.base = p.base /\ ~q.modified
  BY <1>1 DEF FlushBuf, Buffers
<1> HIDE DEF e, q
<1>5. ASSUME NEW a \in W
      PROVE  e.byte[a] = ViewOf(d, p, a) /\ a < e.len
  <2>1. CASE p.modified /\ InBuf(p, a)
    <3>1. p.offset + 0 = p.offset
      BY <1>1, <2>1
    <3> QED
      BY <1>2, <2>1, <3>1 DEF PagedOut, InBuf
  <2>2. CASE ~(p.modified /\ InBuf(p, a))
    <3>1. a < d.len /\ ViewOf(d, p, a) = d.byte[a] /\ a \in Nat
      BY <2>2 DEF Coherent, ViewOf, Offsets
    <3>2. a < e.len
      BY <1>1, <1>3, <3>1
    <3> QED
      BY <1>2, <3>1, <3>2 DEF PagedOut
  <2> QED
    BY <2>1, <2>2
<1>6. \A a : InBuf(q, a) <=> InBuf(p, a)
  BY <1>4 DEF InBuf
<1>7. \A a : InPages(q, a) <=> InPages(p, a)
  BY <1>4 DEF InPages
<1>8. \A a \in C : e.byte[a] = d.byte[a]
  BY <1>2 DEF PagedOut
<1>9. Coherent(e, q, W, C)
  <2>1. \A a \in W : InBuf(q, a) => q.base[a - q.offset] = e.byte[a]
    BY <1>4, <1>5, <1>6 DEF ViewOf
  <2>2. \A a \in W : InPages(q, a) => InBuf(q, a)
    BY <1>6, <1>7 DEF Coherent
  <2>3. q.offset # OFF_NONE => q.extent # 0
    BY <1>4 DEF Coherent
  <2> QED
    BY <1>1, <1>3, <1>4, <1>5, <2>1, <2>2, <2>3 DEF Coherent
<1>10. \A a \in W : ViewOf(e, q, a) = ViewOf(d, p, a)
  BY <1>4, <1>5, <1>6 DEF ViewOf
<1>11. Keeps(d, p, W, C, e, q)
  BY <1>8, <1>9, <1>10 DEF Keeps
<1> QED
  BY <1>4, <1>5, <1>11 DEF e, q

\* The buffer when pages of the file are read into it.
Load(e, p, o, n) ==
    [p EXCEPT !.base = PgIn(e, @, 0, o, n), !.offset = o, !.extent = n, !.cnt = NRead(e, o, n)]

\* A buffer that is not modified can be dropped for other pages.
LEMMA LoadKeeps ==
    ASSUME NEW d, NEW p, NEW W \in SUBSET Offsets, NEW C \in SUBSET W, Coherent(d, p, W, C),
           ~p.modified, NEW o \in Nat, NEW n \in {BLK, 2 * BLK}
    PROVE  Paged(d, p, W, C, d, Load(d, p, o, n), o, n)
<1> DEFINE q == Load(d, p, o, n)
           b == PgIn(d, p.base, 0, o, n)
           k == NRead(d, o, n)
<1>1. /\ BLK \in Nat \ {0} /\ OFF_NONE \notin Nat /\ p \in Buffers /\ d \in Disks /\ d.len \in Nat
      /\ p.base \in [0 .. 2 * BLK - 1 -> Values]
  BY Parts
<1>2. n \in Nat /\ 0 \in Nat /\ 0 + n <= 2 * BLK
  BY <1>1
<1>3. PagedIn(d, p.base, 0, o, n, b, k)
  BY <1>1, <1>2, PageIn, Zenon
<1> HIDE DEF b, k
<1>4. /\ b \in [0 .. 2 * BLK - 1 -> Values] /\ k \in 0 .. n
      /\ \A a \in Offsets : a \in Region(o, n) => b[a - o + 0] = d.byte[a]
      /\ \A a \in Offsets : a \in Region(o, n) /\ a < d.len => a < o + k
  BY <1>3, Zenon DEF PagedIn
<1>5. k \in Nat /\ k <= n
  BY <1>2, <1>4
<1>6. /\ q \in Buffers /\ q.offset = o /\ q.extent = n /\ q.cnt = k /\ q.base = b
      /\ q.modified = p.modified /\ q.write = p.write
  <2>1. q = [p EXCEPT !.base = b, !.offset = o, !.extent = n, !.cnt = k]
    BY DEF Load, b, k
  <2> HIDE DEF q
  <2> QED
    BY <1>1, <1>2, <1>4, <1>5, <2>1 DEF Buffers
<1> HIDE DEF q
<1>7. ASSUME NEW a \in W
      PROVE  /\ InPages(q, a) => InBuf(q, a)
             /\ InBuf(q, a) => q.base[a - q.offset] = ViewOf(d, p, a)
             /\ ~InBuf(q, a) => d.byte[a] = ViewOf(d, p, a) /\ a < d.len
             /\ d.byte[a] \in {d.byte[a], ViewOf(d, p, a)}
  <2>1. a \in Offsets /\ a \in Nat
    BY DEF Offsets
  <2>2. ViewOf(d, p, a) = d.byte[a] /\ a < d.len
    BY DEF Coherent, ViewOf
  <2>3. InPages(q, a) => InBuf(q, a)
    BY <1>1, <1>2, <1>4, <1>5, <1>6, <2>1, <2>2 DEF InPages, InBuf, Region
  <2>4. InBuf(q, a) => a \in Region(o, n) /\ a - o + 0 = a - q.offset
    BY <1>1, <1>2, <1>5, <1>6, <2>1 DEF InBuf, Region
  <2>5. InBuf(q, a) => q.base[a - q.offset] = d.byte[a]
    BY <1>4, <1>6, <2>1, <2>4
  <2> QED
    BY <2>2, <2>3, <2>5
<1>8. Rebuffered(d, p, W, C, d, q)
  BY <1>1, <1>5, <1>6, <1>7 DEF Rebuffered
<1> QED
  BY <1>6, <1>8, RebufferedKeeps DEF q, Paged

----------------------------------------------------------------------------
(* px_get *)

\* Division.
LEMMA DivMod ==
    ASSUME NEW a \in Nat, NEW b \in Nat \ {0}
    PROVE  a % b \in 0 .. b - 1 /\ a \div b \in Nat /\ a = b * (a \div b) + (a % b)
<1> DEFINE q == a \div b
           r == a % b
<1>1. q \in Int /\ r \in 0 .. b - 1 /\ a = b * q + r
  OBVIOUS
<1> HIDE DEF q, r
<1>2. q \in Nat
  BY <1>1
<1> QED
  BY <1>1, <1>2, Zenon DEF q, r

\* Multiples grow with the factor.
LEMMA Multiples ==
    ASSUME NEW b \in Nat \ {0}, NEW k \in Nat
    PROVE  k <= b * k /\ (k >= 3 => b * k >= 3 * b)
<1>1. k <= b * k
  OBVIOUS
<1>2. ASSUME k >= 3
      PROVE  b * k >= 3 * b
  <2> DEFINE j == k - 3
  <2>1. j \in Nat /\ k = 3 + j
    BY <1>2
  <2> HIDE DEF j
  <2>2. b * k = 3 * b + b * j
    BY <2>1
  <2>3. b * j \in Nat
    BY <2>1
  <2> QED
    BY <2>2, <2>3
<1> QED
  BY <1>1, <1>2

\* The pages of a region: one, or two if the region crosses the end of one.
LEMMA Pages ==
    ASSUME NEW offset \in Nat, NEW n \in 1 .. BLK
    PROVE  /\ offset % BLK \in 0 .. BLK - 1
           /\ offset - (offset % BLK) = BLK * (offset \div BLK)
           /\ offset - (offset % BLK) \in Nat /\ offset \div BLK \in 0 .. offset
           /\ (((offset % BLK) + n + BLK - 1) \div BLK) * BLK \in {BLK, 2 * BLK}
           /\ (offset % BLK) + n <= (((offset % BLK) + n + BLK - 1) \div BLK) * BLK
<1> DEFINE at == offset % BLK
           q == offset \div BLK
           m == at + n + BLK - 1
           k == m \div BLK
           r == m % BLK
<1>1. BLK \in Nat \ {0} /\ n \in Nat /\ 1 <= n /\ n <= BLK
  BY PosixIOAssumption
<1>2. at \in 0 .. BLK - 1 /\ q \in Nat /\ offset = BLK * q + at
  BY <1>1, DivMod
<1> HIDE DEF at, q
<1>3. q <= BLK * q
  BY <1>1, <1>2, Multiples
<1>4. m \in Nat /\ BLK <= m /\ m < 3 * BLK /\ m = at + n + BLK - 1
  BY <1>1, <1>2
<1> HIDE DEF m
<1>5. r \in 0 .. BLK - 1 /\ k \in Nat /\ m = BLK * k + r
  BY <1>1, <1>4, DivMod
<1> HIDE DEF k, r
<1>6. k # 0
  BY <1>1, <1>4, <1>5
<1>7. k < 3
  <2> SUFFICES ASSUME k >= 3 PROVE FALSE
    BY <1>5
  <2>1. BLK * k >= 3 * BLK /\ BLK * k \in Nat
    BY <1>1, <1>5, Multiples
  <2> DEFINE x == BLK * k
  <2> HIDE DEF x
  <2>2. x >= 3 * BLK /\ x \in Nat /\ m = x + r
    BY <1>5, <2>1 DEF x
  <2> QED
    BY <1>1, <1>4, <1>5, <2>2
<1>8. k \in {1, 2}
  BY <1>5, <1>6, <1>7
<1>9. k * BLK \in {BLK, 2 * BLK} /\ k * BLK = BLK * k
  BY <1>1, <1>8
<1>10. at + n <= k * BLK
  BY <1>1, <1>2, <1>4, <1>5, <1>8
<1>11. offset - at = BLK * q /\ offset - at \in Nat /\ q \in 0 .. offset
  <2> DEFINE x == BLK * q
  <2>1. x \in Nat /\ q <= x /\ offset = x + at
    BY <1>1, <1>2, <1>3
  <2> HIDE DEF x
  <2>2. offset - at = x /\ offset - at \in Nat /\ q <= offset
    BY <1>2, <2>1
  <2> QED
    BY <1>2, <2>2 DEF x
<1>12. at + n + BLK - 1 = m
  BY <1>4
<1> HIDE DEF m
<1>13. /\ ((at + n + BLK - 1) \div BLK) * BLK \in {BLK, 2 * BLK}
       /\ at + n <= ((at + n + BLK - 1) \div BLK) * BLK
  BY <1>9, <1>10, <1>12 DEF k
<1> QED
  BY <1>2, <1>11, <1>13, Zenon DEF at, q

\* An error of a write leaves everything as it was.
LEMMA FaultedGot ==
    ASSUME NEW d, NEW p, NEW W, NEW C, NEW offset, NEW n, NEW w
    PROVE  Got(d, p, W, C, Faulted(d, p), offset, n, w)
  BY DEF Got, Faulted

\* The n bytes at offset begin `at' bytes into the page at o, and end before o + m.
Spans(offset, n, o, m, at) ==
    /\ o \in Nat /\ m \in {BLK, 2 * BLK} /\ at \in Nat /\ n \in Nat /\ at + n <= m
    /\ o + at = offset /\ o = offset - (offset % BLK)

\* A region none of whose pages is in the buffer.
LEMMA MissGot ==
    ASSUME NEW d, NEW p, NEW W \in SUBSET Offsets, NEW C \in SUBSET W, Coherent(d, p, W, C),
           NEW offset, NEW n, NEW o, NEW m, NEW at, Spans(offset, n, o, m, at),
           NEW w \in BOOLEAN, NEW fail \in {"none", "out"}
    PROVE  Got(d, p, W, C, Miss(d, p, o, at, n, m, w, fail), offset, n, w)
<1> DEFINE e == FlushDisk(d, p)
           q == FlushBuf(p)
           r == Load(e, q, o, m)
<1>0. o \in Nat /\ m \in {BLK, 2 * BLK} /\ at \in Nat /\ n \in Nat
  BY DEF Spans
<1>1. (p.offset # OFF_NONE /\ p.modified) <=> p.modified
  BY DEF Coherent
<1>2. p.modified \in BOOLEAN
  BY Parts
<1>3. CASE p.modified /\ fail = "out"
  <2>1. Miss(d, p, o, at, n, m, w, fail) = Faulted(d, p)
    BY <1>1, <1>3 DEF Miss
  <2> QED
    BY <2>1, FaultedGot
<1>4. CASE ~(p.modified /\ fail = "out")
  <2>1. Miss(d, p, o, at, n, m, w, fail) = Done(e, r, at, n, w)
    BY <1>1, <1>2, <1>4 DEF Miss, Seen, FlushDisk, FlushBuf, Load
  <2>2. Keeps(d, p, W, C, e, q) /\ ~q.modified
    BY FlushKeeps
  <2> HIDE DEF e, q
  <2>3. Coherent(e, q, W, C)
    BY <2>2 DEF Keeps
  <2>4. Keeps(e, q, W, C, e, r) /\ r.offset = o /\ r.extent = m
    <3>1. Paged(e, q, W, C, e, r, o, m)
      BY <1>0, <2>2, <2>3, LoadKeeps, Zenon
    <3> HIDE DEF r
    <3> QED
      BY <3>1 DEF Paged
  <2> HIDE DEF r
  <2>5. Keeps(d, p, W, C, e, r)
    BY <2>2, <2>4, KeepsOrder
  <2>6. r.offset \in Nat /\ at + n <= r.extent /\ r.offset + at = offset
        /\ r.offset \in {p.offset, offset - (offset % BLK)}
    BY <2>4 DEF Spans
  <2>7. Got(d, p, W, C, Done(e, r, at, n, w), offset, n, w)
    BY <1>0, <2>5, <2>6, DoneKeeps, Zenon
  <2> QED
    BY <2>1, <2>7
<1> QED
  BY <1>3, <1>4

\* A region that begins in the lower page.
LEMMA HitLowerGot ==
    ASSUME NEW d, NEW p, NEW W \in SUBSET Offsets, NEW C \in SUBSET W, Coherent(d, p, W, C),
           p.offset \in Nat, NEW m \in {BLK, 2 * BLK}, NEW at \in Nat, NEW n \in Nat, at + n <= m,
           NEW offset, p.offset + at = offset,
           NEW w \in BOOLEAN, NEW fail \in {"none", "out"}
    PROVE  Got(d, p, W, C, HitLower(d, p, at, n, m, w, fail), offset, n, w)
<1>1. /\ BLK \in Nat \ {0} /\ OFF_NONE \notin Nat /\ p.extent \in {BLK, 2 * BLK}
  <2>1. p.offset # OFF_NONE /\ BLK \in Nat \ {0} /\ OFF_NONE \notin Nat
    BY Parts
  <2> QED
    BY <2>1 DEF Coherent
<1>2. CASE m <= p.extent
  <2>1. HitLower(d, p, at, n, m, w, fail) = Done(d, p, at, n, w)
    BY <1>2 DEF HitLower
  <2>2. Keeps(d, p, W, C, d, p)
    BY KeepsOrder
  <2>3. at + n <= p.extent /\ p.offset \in {p.offset, offset - (offset % BLK)}
    BY <1>1, <1>2
  <2>4. Got(d, p, W, C, Done(d, p, at, n, w), offset, n, w)
    BY <2>2, <2>3, DoneKeeps, Zenon
  <2> QED
    BY <2>1, <2>4
<1>3. CASE ~(m <= p.extent)
  <2> DEFINE r == PageInUpper(d, p, fail)
  <2>1. p.extent = BLK /\ m > p.extent /\ m = 2 * BLK
    BY <1>1, <1>3
  <2>2. HitLower(d, p, at, n, m, w, fail) = Done(d, r, at, n, w)
    BY <1>3, <2>1 DEF HitLower
  <2>3. Keeps(d, p, W, C, d, r) /\ r.offset = p.offset /\ r.extent = 2 * BLK
    <3>1. fail # "short" /\ p.offset # OFF_NONE
      BY <1>1
    <3>2. Paged(d, p, W, C, d, r, p.offset, 2 * BLK)
      BY <2>1, <3>1, UpperKeeps, Zenon
    <3> HIDE DEF r
    <3> QED
      BY <3>2 DEF Paged
  <2> HIDE DEF r
  <2>4. r.offset \in Nat /\ at + n <= r.extent /\ r.offset + at = offset
        /\ r.offset \in {p.offset, offset - (offset % BLK)}
    BY <2>1, <2>3
  <2>5. Got(d, p, W, C, Done(d, r, at, n, w), offset, n, w)
    BY <2>3, <2>4, DoneKeeps, Zenon
  <2> QED
    BY <2>2, <2>5
<1> QED
  BY <1>2, <1>3

\* A region that begins in the upper page.
LEMMA HitUpperGot ==
    ASSUME NEW d, NEW p, NEW W \in SUBSET Offsets, NEW C \in SUBSET W, Coherent(d, p, W, C),
           p.offset \in Nat, p.extent = 2 * BLK,
           NEW m \in {BLK, 2 * BLK}, NEW at \in Nat, NEW n \in Nat, at + n <= m,
           NEW offset, p.offset + BLK + at = offset, p.offset + BLK = offset - (offset % BLK),
           NEW w \in BOOLEAN, NEW fail \in {"none", "out"}
    PROVE  Got(d, p, W, C, HitUpper(d, p, at, n, m, w, fail), offset, n, w)
<1> DEFINE g == HitUpper(d, p, at, n, m, w, fail)
           e == ShiftDisk(d, p)
           q == Shift(p)
           r == PageInUpper(e, q, fail)
<1>1. /\ BLK \in Nat \ {0} /\ OFF_NONE \notin Nat /\ p.modified \in BOOLEAN /\ p \in Buffers
  BY Parts
<1>2. CASE m = BLK
  <2> DEFINE up == at + BLK
  <2>1. g = Done(d, p, up, n, w)
    BY <1>2 DEF HitUpper
  <2>2. Keeps(d, p, W, C, d, p)
    BY KeepsOrder
  <2>3. up \in Nat /\ up + n <= p.extent /\ p.offset + up = offset
        /\ p.offset \in {p.offset, offset - (offset % BLK)}
    BY <1>1, <1>2
  <2> HIDE DEF up
  <2>4. Got(d, p, W, C, Done(d, p, up, n, w), offset, n, w)
    BY <2>2, <2>3, DoneKeeps, Zenon
  <2> QED
    BY <2>1, <2>4
<1>3. CASE m # BLK /\ p.modified /\ fail = "out"
  <2>1. g = Faulted(d, p)
    BY <1>3 DEF HitUpper
  <2> QED
    BY <2>1, FaultedGot
<1>4. CASE m # BLK /\ ~(p.modified /\ fail = "out")
  <2> DEFINE p1 == IF p.cnt > BLK
                   THEN [p EXCEPT !.base = Copied(@, 0, BLK, p.cnt - BLK), !.cnt = @ - BLK]
                   ELSE p
             p2 == [p1 EXCEPT !.offset = @ + BLK]
  <2>1. g = Done(e, PageInUpper(e, p2, fail), at, n, w)
    BY <1>1, <1>4 DEF HitUpper, ShiftDisk
  <2>2. PageInUpper(e, p2, fail) = r
    <3>1. p1 \in Buffers
      <4> DEFINE c == Copied(p.base, 0, BLK, p.cnt - BLK)
                 k == p.cnt - BLK
      <4>1. CASE p.cnt > BLK
        <5>1. Shift(p) \in Buffers /\ p.cnt \in Nat
          BY <1>1, ShiftIs, Parts
        <5>2. p1 = [p EXCEPT !.base = c, !.cnt = k] /\ Shift(p) = [p EXCEPT !.base = c, !.cnt = k, !.offset = @ + BLK, !.extent = BLK]
          BY <4>1, <1>1 DEF Shift, Buffers
        <5> HIDE DEF p1, c, k
        <5>3. c \in [0 .. 2 * BLK - 1 -> Values] /\ k \in Nat
          <6>1. Shift(p).base = c /\ Shift(p).cnt = k
            BY <1>1, <5>2 DEF Buffers
          <6> QED
            BY <5>1, <6>1 DEF Buffers
        <5> QED
          BY <1>1, <5>2, <5>3 DEF Buffers
      <4>2. CASE ~(p.cnt > BLK)
        BY <1>1, <4>2
      <4> QED
        BY <4>1, <4>2
    <3>2. p2 = [p1 EXCEPT !.offset = @ + BLK] /\ q = [p1 EXCEPT !.offset = @ + BLK, !.extent = BLK]
      BY DEF Shift
    <3> HIDE DEF p1, p2, q, e
    <3>3. p2.offset = q.offset /\ p2.base = q.base /\ [p2 EXCEPT !.extent = BLK] = q
      BY <3>1, <3>2 DEF Buffers
    <3> QED
      BY <3>1, <3>2, <3>3 DEF PageInUpper, Seen, Buffers
  <2>3. Keeps(d, p, W, C, e, q)
    BY <1>1, ShiftKeeps
  <2>4. q.offset = p.offset + BLK /\ q.extent = BLK
    BY <1>1, ShiftIs
  <2> HIDE DEF e, q, p1, p2
  <2>5. Coherent(e, q, W, C)
    BY <2>3 DEF Keeps
  <2>6. q.offset # OFF_NONE
    BY <1>1, <2>4
  <2>7. Keeps(e, q, W, C, e, r) /\ r.offset = q.offset /\ r.extent = 2 * BLK
    <3>1. fail # "short"
      OBVIOUS
    <3>2. Paged(e, q, W, C, e, r, q.offset, 2 * BLK)
      BY <2>4, <2>5, <2>6, <3>1, UpperKeeps, Zenon
    <3> HIDE DEF r
    <3> QED
      BY <3>2 DEF Paged
  <2> HIDE DEF r
  <2>8. Keeps(d, p, W, C, e, r)
    BY <2>3, <2>7, KeepsOrder
  <2>9. r.offset \in Nat /\ at + n <= r.extent /\ r.offset + at = offset
        /\ r.offset \in {p.offset, offset - (offset % BLK)}
    BY <1>1, <1>4, <2>4, <2>7
  <2>10. Got(d, p, W, C, Done(e, r, at, n, w), offset, n, w)
    BY <2>8, <2>9, DoneKeeps, Zenon
  <2> QED
    BY <2>1, <2>2, <2>10
<1> QED
  BY <1>2, <1>3, <1>4 DEF g

\* A region that begins in the page below.
LEMMA WantsBelowGot ==
    ASSUME NEW d, NEW p, NEW W \in SUBSET Offsets, NEW C \in SUBSET W, Coherent(d, p, W, C),
           p.offset \in Nat, p.offset >= BLK, p.cnt # 0,
           NEW at \in Nat, NEW n \in Nat, at + n <= 2 * BLK,
           NEW offset, p.offset - BLK + at = offset, p.offset - BLK = offset - (offset % BLK),
           NEW w \in BOOLEAN, NEW fail \in {"none", "out"}
    PROVE  Got(d, p, W, C, WantsBelow(d, p, at, n, w, fail), offset, n, w)
<1> DEFINE g == WantsBelow(d, p, at, n, w, fail)
           e == BelowDisk(d, p)
           r == Below(e, p)
<1>1. /\ BLK \in Nat \ {0} /\ OFF_NONE \notin Nat /\ p.modified \in BOOLEAN /\ p \in Buffers
      /\ p.offset # OFF_NONE /\ p.cnt \in Nat
  BY Parts
<1>2. CASE p.cnt > BLK /\ p.modified /\ fail = "out"
  <2>1. g = Faulted(d, p)
    BY <1>2 DEF WantsBelow
  <2> QED
    BY <2>1, FaultedGot
<1>3. CASE ~(p.cnt > BLK /\ p.modified /\ fail = "out")
  <2>1. g = Done(e, r, at, n, w)
    BY <1>1, <1>3, ZenonT(40) DEF WantsBelow, BelowDisk, Below, Seen
  <2>2. Keeps(d, p, W, C, e, r)
    BY <1>1, BelowKeeps
  <2>3. e \in Disks
    BY <2>2 DEF Keeps, Coherent
  <2> DEFINE m == IF p.cnt > BLK THEN BLK ELSE p.cnt
             k == NRead(e, p.offset - BLK, BLK)
  <2> HIDE DEF e
  <2>4. r.offset = p.offset - BLK /\ r.extent = (IF m # 0 THEN 2 * BLK ELSE BLK)
    <3>1. m = (IF p.cnt > BLK THEN BLK ELSE p.cnt) /\ k = NRead(e, p.offset - BLK, BLK)
      OBVIOUS
    <3> HIDE DEF m, k
    <3> QED
      BY <1>1, <2>3, <3>1, BelowIs
  <2>5. m # 0
    BY <1>1
  <2> HIDE DEF r, m
  <2>6. r.offset \in Nat /\ at + n <= r.extent /\ r.offset + at = offset
        /\ r.offset \in {p.offset, offset - (offset % BLK)}
    BY <1>1, <2>4, <2>5
  <2>7. Got(d, p, W, C, Done(e, r, at, n, w), offset, n, w)
    BY <2>2, <2>6, DoneKeeps, Zenon
  <2> QED
    BY <2>1, <2>7
<1> QED
  BY <1>2, <1>3 DEF g

\* A buffer in which nothing has been put or asked for yet is at the beginning
\* of the file.
Placed(p) ==
    p.offset # OFF_NONE => p.offset \in {BLK * k : k \in 0 .. Size} /\ (p.cnt = 0 => p.offset = 0)

\* px_get, for a region of at most a page: the caller gets it, whatever pages are
\* in the buffer, and nobody sees pages written and read.
LEMMA GetGot ==
    ASSUME NEW d, NEW p, NEW W \in SUBSET Offsets, NEW C \in SUBSET W, Coherent(d, p, W, C), Placed(p),
           NEW offset \in Nat, NEW n \in 1 .. BLK, NEW w \in BOOLEAN, NEW fail \in {"none", "out"}
    PROVE  Got(d, p, W, C, px_get(d, p, offset, n, w, fail), offset, n, w)
<1> DEFINE at == offset % BLK
           o == offset - at
           m == ((at + n + BLK - 1) \div BLK) * BLK
           g == px_get(d, p, offset, n, w, fail)
<1>1. /\ BLK \in Nat \ {0} /\ OFF_NONE \notin Nat /\ p.offset \in Nat \cup {OFF_NONE}
      /\ n \in Nat /\ p.extent \in {0, BLK, 2 * BLK}
  <2>1. p.extent \in {0, BLK, 2 * BLK}
    BY DEF Coherent
  <2> QED
    BY <2>1, Parts
<1>2. /\ at \in 0 .. BLK - 1 /\ o \in Nat /\ m \in {BLK, 2 * BLK} /\ at + n <= m
  BY Pages
<1>3. o = offset - (offset % BLK)
  OBVIOUS
<1>4. g = (IF p.offset = OFF_NONE THEN Miss(d, p, o, at, n, m, w, fail)
           ELSE IF o = p.offset THEN HitLower(d, p, at, n, m, w, fail)
           ELSE IF p.extent > BLK /\ o = p.offset + BLK THEN HitUpper(d, p, at, n, m, w, fail)
           ELSE IF o = p.offset - BLK THEN WantsBelow(d, p, at, n, w, fail)
           ELSE Miss(d, p, o, at, n, m, w, fail))
  <2>1. ~(2 * BLK < m) /\ 2 * BLK >= m
    BY <1>1, <1>2
  <2> HIDE DEF o, m
  <2>2. g = CASE 2 * BLK < m -> Faulted(d, p)
              [] 2 * BLK >= m /\ p.offset = OFF_NONE -> Miss(d, p, o, at, n, m, w, fail)
              [] 2 * BLK >= m /\ p.offset # OFF_NONE ->
                    IF o = p.offset THEN HitLower(d, p, at, n, m, w, fail)
                    ELSE IF p.extent > BLK /\ o = p.offset + BLK THEN HitUpper(d, p, at, n, m, w, fail)
                    ELSE IF o = p.offset - BLK THEN WantsBelow(d, p, at, n, w, fail)
                    ELSE Miss(d, p, o, at, n, m, w, fail)
    BY Zenon DEF px_get, o, m
  <2> HIDE DEF g, at
  <2> QED
    BY <2>1, <2>2
<1> HIDE DEF g, m
<1>5. o + at = offset /\ at \in Nat
  BY <1>1, <1>2
<1> HIDE DEF o, at
<1>6. n \in Nat
  BY <1>1
<1>7. o \in Nat
  BY <1>2
<1>8. m \in {BLK, 2 * BLK} /\ at + n <= m
  BY <1>2
<1>9. Got(d, p, W, C, Miss(d, p, o, at, n, m, w, fail), offset, n, w)
  <2>1. Spans(offset, n, o, m, at)
    BY <1>3, <1>5, <1>6, <1>7, <1>8 DEF Spans
  <2> QED
    BY <2>1, MissGot, Zenon
<1>10. ASSUME o = p.offset
      PROVE  Got(d, p, W, C, HitLower(d, p, at, n, m, w, fail), offset, n, w)
  <2>1. p.offset \in Nat /\ p.offset + at = offset
    BY <1>2, <1>5, <1>10
  <2> QED
    BY <1>6, <1>8, <1>5, <2>1, HitLowerGot, ZenonT(40)
<1>11. ASSUME p.offset # OFF_NONE, p.extent > BLK, o = p.offset + BLK
      PROVE  Got(d, p, W, C, HitUpper(d, p, at, n, m, w, fail), offset, n, w)
  <2>1. p.offset \in Nat /\ p.extent = 2 * BLK /\ p.offset + BLK + at = offset
        /\ p.offset + BLK = offset - (offset % BLK)
    BY <1>1, <1>3, <1>5, <1>11
  <2> QED
    BY <1>6, <1>8, <1>5, <2>1, HitUpperGot, ZenonT(40)
<1>12. ASSUME p.offset # OFF_NONE, o = p.offset - BLK
      PROVE  Got(d, p, W, C, WantsBelow(d, p, at, n, w, fail), offset, n, w)
  <2>1. p.offset \in Nat
    BY <1>1, <1>12
  <2>2. p.offset >= BLK /\ p.offset # 0 /\ p.offset - BLK + at = offset
        /\ p.offset - BLK = offset - (offset % BLK)
    BY <1>1, <1>2, <1>3, <1>5, <1>12, <2>1
  <2>3. p.cnt # 0
    BY <1>12, <2>2 DEF Placed
  <2>4. at + n <= 2 * BLK
    BY <1>1, <1>2, <1>5
  <2> QED
    BY <1>6, <1>5, <2>1, <2>2, <2>3, <2>4, WantsBelowGot, Zenon
<1> QED
  BY <1>4, <1>9, <1>10, <1>11, <1>12 DEF g

----------------------------------------------------------------------------
(* The calls *)

\* px_rel of a region that was only read.
LEMMA RelKeeps ==
    ASSUME NEW d, NEW p, NEW W \in SUBSET Offsets, NEW C \in SUBSET W, Coherent(d, p, W, C)
    PROVE  /\ Keeps(d, p, W, C, d, px_rel(p, FALSE))
           /\ px_rel(p, FALSE).offset = p.offset /\ px_rel(p, FALSE).cnt = p.cnt
<1> DEFINE q == px_rel(p, FALSE)
           k == p.refcount - 1
           md == p.modified \/ FALSE
<1>1. p \in Buffers /\ k \in Int /\ md = p.modified /\ md \in BOOLEAN
  BY Parts
<1>2. q = [p EXCEPT !.modified = md, !.refcount = k]
  BY DEF px_rel
<1> HIDE DEF q, k, md
<1>3. /\ q \in Buffers /\ q.offset = p.offset /\ q.extent = p.extent /\ q.cnt = p.cnt
      /\ q.base = p.base /\ q.write = p.write /\ q.modified = p.modified
  BY <1>1, <1>2 DEF Buffers
<1>4. \A a : (InBuf(q, a) <=> InBuf(p, a)) /\ (InPages(q, a) <=> InPages(p, a))
  BY <1>3 DEF InBuf, InPages
<1>5. Coherent(d, q, W, C)
  BY <1>3, <1>4 DEF Coherent
<1>6. \A a \in W : ViewOf(d, q, a) = ViewOf(d, p, a)
  BY <1>3, <1>4 DEF ViewOf
<1> QED
  BY <1>3, <1>5, <1>6 DEF Keeps, q

\* The caller writes v to a region it has got, and releases it as modified.
Filled(p, at, n, v) ==
    px_rel([p EXCEPT !.base = [i \in DOMAIN p.base |-> IF i \in Region(at, n) THEN v ELSE p.base[i]]],
           TRUE)

\* The fields of that buffer.
IsFilled(p, q, at, n, v) ==
    /\ q \in Buffers /\ q.offset = p.offset /\ q.extent = p.extent /\ q.cnt = p.cnt
    /\ q.write = p.write /\ q.modified = TRUE
    /\ \A i \in 0 .. 2 * BLK - 1 : q.base[i] = IF i \in Region(at, n) THEN v ELSE p.base[i]

\* Writing to the buffer changes those bytes and marks it as modified.
LEMMA FilledIs ==
    ASSUME NEW p \in Buffers, NEW at \in Nat, NEW n \in Nat, NEW v \in Values
    PROVE  IsFilled(p, Filled(p, at, n, v), at, n, v)
<1> DEFINE b == [i \in DOMAIN p.base |-> IF i \in Region(at, n) THEN v ELSE p.base[i]]
           r == [p EXCEPT !.base = b]
           k == r.refcount - 1
           md == r.modified \/ TRUE
           q == Filled(p, at, n, v)
<1>1. p.base \in [0 .. 2 * BLK - 1 -> Values] /\ p.refcount \in Int
  BY DEF Buffers
<1>2. /\ b \in [0 .. 2 * BLK - 1 -> Values]
      /\ \A i \in 0 .. 2 * BLK - 1 : b[i] = IF i \in Region(at, n) THEN v ELSE p.base[i]
  BY <1>1
<1> HIDE DEF b
<1>3. r \in Buffers /\ r.base = b /\ r.offset = p.offset /\ r.extent = p.extent
      /\ r.cnt = p.cnt /\ r.write = p.write
  BY <1>2 DEF Buffers
<1>4. q = px_rel(r, TRUE)
  BY DEF Filled, b
<1> HIDE DEF r, q
<1>5. k \in Int /\ md = TRUE /\ q = [r EXCEPT !.modified = md, !.refcount = k]
  BY <1>3, <1>4 DEF px_rel, Buffers
<1> HIDE DEF k, md
<1>6. /\ q \in Buffers /\ q.offset = r.offset /\ q.extent = r.extent /\ q.cnt = r.cnt
      /\ q.base = r.base /\ q.write = r.write /\ q.modified = TRUE
  BY <1>3, <1>5 DEF Buffers
<1> QED
  BY <1>2, <1>3, <1>6 DEF q, IsFilled

\* The region reads as v and is no longer synced; the rest is as before.
FilledIn(d, p, W, C, q, R, v) ==
    /\ Coherent(d, q, W \cup R, C \ R)
    /\ \A a \in R : ViewOf(d, q, a) = v
    /\ \A a \in W \ R : ViewOf(d, q, a) = ViewOf(d, p, a)

\* A write to the buffer.
LEMMA FilledKeeps ==
    ASSUME NEW d, NEW p, NEW W \in SUBSET Offsets, NEW C \in SUBSET W, Coherent(d, p, W, C),
           p.offset \in Nat, p.write, NEW at \in Nat, NEW n \in Nat, at + n <= p.cnt,
           NEW v \in Values, NEW R \in SUBSET Offsets, R = Region(p.offset + at, n)
    PROVE  FilledIn(d, p, W, C, Filled(p, at, n, v), R, v)
<1> DEFINE q == Filled(p, at, n, v)
<1>1. /\ BLK \in Nat \ {0} /\ OFF_NONE \notin Nat /\ p \in Buffers /\ p.cnt \in Nat /\ p.extent \in Nat
      /\ p.cnt <= p.extent /\ p.extent <= 2 * BLK /\ d.len \in Nat /\ d \in Disks
  BY Parts
<1>2. /\ q \in Buffers /\ q.offset = p.offset /\ q.extent = p.extent /\ q.cnt = p.cnt
      /\ q.write = p.write /\ q.modified = TRUE
      /\ \A i \in 0 .. 2 * BLK - 1 : q.base[i] = IF i \in Region(at, n) THEN v ELSE p.base[i]
  <2>1. IsFilled(p, q, at, n, v)
    BY <1>1, FilledIs, Zenon
  <2> HIDE DEF q
  <2> QED
    BY <2>1 DEF IsFilled
<1> HIDE DEF q
<1>3. \A a : (InBuf(q, a) <=> InBuf(p, a)) /\ (InPages(q, a) <=> InPages(p, a))
  BY <1>2 DEF InBuf, InPages
<1>4. \A a \in R : InBuf(p, a) /\ q.base[a - q.offset] = v
  <2> TAKE a \in R
  <2>1. a \in p.offset + at .. p.offset + at + n - 1
    BY DEF Region
  <2>2. a - p.offset \in at .. at + n - 1 /\ a - p.offset \in 0 .. 2 * BLK - 1
        /\ a \in p.offset .. p.offset + p.cnt - 1
    BY <1>1, <2>1
  <2> QED
    BY <1>1, <1>2, <2>2 DEF InBuf, Region
<1>5. \A a \in Offsets \ R : InBuf(p, a) => q.base[a - q.offset] = p.base[a - p.offset]
  <2> TAKE a \in Offsets \ R
  <2> SUFFICES ASSUME InBuf(p, a) PROVE q.base[a - q.offset] = p.base[a - p.offset]
    OBVIOUS
  <2>1. a \in p.offset .. p.offset + p.cnt - 1 /\ a \notin p.offset + at .. p.offset + at + n - 1
    BY DEF InBuf, Region
  <2>2. a - p.offset \notin at .. at + n - 1 /\ a - p.offset \in 0 .. 2 * BLK - 1
    BY <1>1, <2>1 DEF Offsets
  <2> QED
    BY <1>2, <2>2 DEF Region
<1>6. \A a \in R : ViewOf(d, q, a) = v
  BY <1>3, <1>4 DEF ViewOf
<1>7. \A a \in W \ R : ViewOf(d, q, a) = ViewOf(d, p, a)
  <2>1. W \ R \subseteq Offsets \ R
    OBVIOUS
  <2> QED
    BY <1>3, <1>5, <2>1 DEF ViewOf
<1>8. Coherent(d, q, W \cup R, C \ R)
  <2>1. d \in Disks /\ q \in Buffers /\ q.extent \in {0, BLK, 2 * BLK} /\ q.cnt <= q.extent
        /\ (q.offset # OFF_NONE => q.extent # 0)
    BY <1>1, <1>2 DEF Coherent
  <2>2. q.modified => q.write /\ q.offset # OFF_NONE
    BY <1>1, <1>2
  <2>3. \A a \in W \cup R : InPages(q, a) => InBuf(q, a)
    BY <1>3, <1>4 DEF Coherent
  <2>4. \A a \in W \cup R : InBuf(q, a) /\ ~q.modified => q.base[a - q.offset] = d.byte[a]
    BY <1>2
  <2>5. \A a \in C \ R : InBuf(q, a) => q.base[a - q.offset] = d.byte[a]
    <3> TAKE a \in C \ R
    <3>1. a \in Offsets \ R /\ (InBuf(p, a) => p.base[a - p.offset] = d.byte[a])
      BY DEF Coherent
    <3> QED
      BY <1>3, <1>5, <3>1
  <2>6. \A a \in W \cup R : a < d.len \/ (q.modified /\ InBuf(q, a))
    BY <1>2, <1>3, <1>4 DEF Coherent
  <2>7. \A a \in C \ R : a < d.len
    BY DEF Coherent
  <2> HIDE DEF q
  <2> QED
    BY <2>1, <2>2, <2>3, <2>4, <2>5, <2>6, <2>7 DEF Coherent
<1> QED
  BY <1>6, <1>7, <1>8 DEF FilledIn, q

\* What ncio_px_sync makes of file and buffer: an error, and nothing has changed;
\* or the file holds everything that was written, and nobody sees a change.
IsSynced(d, p, W, C, s) ==
    /\ s.ok \in BOOLEAN
    /\ ~s.ok => s.disk = d /\ s.px = p
    /\ s.ok => /\ Keeps(d, p, W, C, s.disk, s.px) /\ Coherent(s.disk, s.px, W, W)
               /\ \A a \in W : s.disk.byte[a] = ViewOf(d, p, a)
               /\ s.px.offset # OFF_NONE => s.px.offset = p.offset /\ s.px.cnt = p.cnt

\* ncio_px_sync, of a buffer that is written, kept or dropped.
LEMMA SyncedKeeps ==
    ASSUME NEW d, NEW p, NEW W \in SUBSET Offsets, NEW C \in SUBSET W, Coherent(d, p, W, C), NEW fail
    PROVE  IsSynced(d, p, W, C, Synced(d, p, fail))
<1> DEFINE s == Synced(d, p, fail)
           e == FlushDisk(d, p)
           q == FlushBuf(p)
           r == [q EXCEPT !.offset = OFF_NONE, !.cnt = 0]
<1>1. /\ BLK \in Nat \ {0} /\ OFF_NONE \notin Nat /\ p \in Buffers
      /\ p.modified \in BOOLEAN /\ p.write \in BOOLEAN
  BY Parts
<1>2. CASE p.modified /\ fail = "out"
  <2>1. s.ok = FALSE /\ s.disk = d /\ s.px = p
    BY <1>2 DEF Synced, Faulted
  <2> HIDE DEF s
  <2>2. IsSynced(d, p, W, C, s)
    BY <2>1 DEF IsSynced
  <2> QED
    BY <2>2 DEF s
<1>3. CASE ~(p.modified /\ fail = "out")
  <2>1. /\ Keeps(d, p, W, C, e, q) /\ ~q.modified /\ q.offset = p.offset
        /\ \A a \in W : e.byte[a] = ViewOf(d, p, a) /\ a < e.len
    BY FlushKeeps
  <2>2. q.cnt = p.cnt
    BY <1>1 DEF FlushBuf, Buffers
  <2>3. s.ok = TRUE /\ s.disk = e /\ s.px = (IF p.modified \/ p.write THEN q ELSE r)
    BY <1>1, <1>3 DEF Synced, FlushDisk, FlushBuf
  <2> HIDE DEF s, e, q
  <2>4. Coherent(e, q, W, C)
    BY <2>1 DEF Keeps
  <2>5. Coherent(e, q, W, W)
    BY <2>1, <2>4 DEF Coherent
  <2>6. e \in Disks /\ q \in Buffers /\ q.extent \in {0, BLK, 2 * BLK} /\ q.extent \in Nat
        /\ q.modified \in BOOLEAN
    BY <1>1, <2>4 DEF Coherent, Buffers
  <2>7. r \in Buffers /\ r.offset = OFF_NONE /\ r.cnt = 0 /\ r.extent = q.extent /\ r.modified = q.modified
    BY <2>6 DEF Buffers
  <2> HIDE DEF r
  <2>8. \A a : ~InBuf(r, a) /\ ~InPages(r, a)
    BY <2>7 DEF InBuf, InPages
  <2>9. \A a \in W : ViewOf(e, r, a) = ViewOf(d, p, a)
    BY <2>1, <2>8 DEF ViewOf
  <2>10. r.cnt <= r.extent
    BY <2>6, <2>7
  <2>11. Coherent(e, r, W, W)
    BY <2>1, <2>6, <2>7, <2>8, <2>10 DEF Coherent
  <2>12. Coherent(e, r, W, C)
    BY <2>1, <2>6, <2>7, <2>8, <2>10 DEF Coherent
  <2>13. Keeps(d, p, W, C, e, r)
    BY <2>1, <2>9, <2>12 DEF Keeps
  <2>14. CASE p.modified \/ p.write
    BY <2>1, <2>2, <2>3, <2>5, <2>14 DEF IsSynced, s
  <2>15. CASE ~(p.modified \/ p.write)
    BY <2>1, <2>3, <2>7, <2>11, <2>13, <2>15 DEF IsSynced, s
  <2> QED
    BY <2>14, <2>15
<1> QED
  BY <1>2, <1>3

\* The buffer of a file that has just been opened.
LEMMA FreshIs ==
    /\ Fresh \in Buffers /\ Fresh.offset = OFF_NONE /\ Fresh.cnt = 0 /\ Fresh.extent = 0
    /\ Fresh.modified = FALSE
    /\ \A a : ~InBuf(Fresh, a) /\ ~InPages(Fresh, a)
<1>1. BLK \in Nat \ {0} /\ 0 \in Values
  BY PosixIOAssumption DEF Values
<1> DEFINE b == [i \in 0 .. 2 * BLK - 1 |-> 0]
<1>2. b \in [0 .. 2 * BLK - 1 -> Values]
  BY <1>1
<1>3. Fresh = [offset |-> OFF_NONE, extent |-> 0, cnt |-> 0, base |-> b,
               write |-> FALSE, modified |-> FALSE, refcount |-> 0]
  BY DEF Fresh
<1> HIDE DEF b
<1>4. /\ Fresh \in Buffers /\ Fresh.offset = OFF_NONE /\ Fresh.cnt = 0 /\ Fresh.extent = 0
      /\ Fresh.modified = FALSE
  BY <1>2, <1>3 DEF Buffers
<1> QED
  BY <1>4 DEF InBuf, InPages

\* A buffer may be lost: the file alone is what was synced.
LEMMA LostKeeps ==
    ASSUME NEW d, NEW p, NEW W \in SUBSET Offsets, NEW C \in SUBSET W, Coherent(d, p, W, C)
    PROVE  Coherent(d, Fresh, C, C) /\ \A a : ViewOf(d, Fresh, a) = d.byte[a]
<1>1. d \in Disks /\ \A a \in C : a < d.len
  BY DEF Coherent
<1>2. Coherent(d, Fresh, C, C)
  BY <1>1, FreshIs DEF Coherent
<1> QED
  BY <1>2, FreshIs DEF ViewOf

----------------------------------------------------------------------------
(* The specification *)

\* The inductive invariant.
BufferInv ==
    /\ written \in SUBSET Offsets /\ clean \in SUBSET written
    /\ Coherent(disk, px, written, clean)
    /\ Placed(px)
    /\ slave = NoSlave /\ moves = NoMove /\ nmoves = 0
    /\ budget \in Budgets /\ nputs \in 0 .. budget.puts

\* It holds of a new file.
LEMMA BufferInit == Init => BufferInv
<1> SUFFICES ASSUME Init PROVE BufferInv
  OBVIOUS
<1>1. /\ BLK \in Nat \ {0} /\ Size \in Nat /\ 0 \in Values /\ OFF_NONE \notin Nat
      /\ budget \in Budgets /\ budget.puts \in Nat
  BY PosixIOAssumption DEF Init, Values
<1>2. px = [Fresh EXCEPT !.offset = 0, !.extent = 2 * BLK] /\ written = {} /\ clean = {}
  BY DEF Init
<1>3. /\ px \in Buffers /\ px.offset = 0 /\ px.extent = 2 * BLK /\ px.cnt = 0 /\ px.modified = FALSE
  <2> DEFINE x == 2 * BLK
  <2>1. x \in Nat /\ px = [Fresh EXCEPT !.offset = 0, !.extent = x]
    BY <1>1, <1>2
  <2> HIDE DEF x
  <2>2. px \in Buffers /\ px.offset = 0 /\ px.extent = x /\ px.cnt = 0 /\ px.modified = FALSE
    BY <2>1, FreshIs DEF Buffers
  <2> QED
    BY <2>2 DEF x
<1>4. disk \in Disks
  <2> DEFINE b == [a \in 0 .. Size - 1 |-> 0]
  <2>1. b \in [Offsets -> Values] /\ disk = [len |-> 0, byte |-> b] /\ 0 \in 0 .. Size
    BY <1>1 DEF Init, Offsets
  <2> HIDE DEF b
  <2> QED
    BY <2>1 DEF Disks
<1>5. Coherent(disk, px, written, clean)
  <2>1. px.cnt <= px.extent
    BY <1>1, <1>3
  <2>2. px.extent \in {0, BLK, 2 * BLK} /\ px.extent # 0
    BY <1>1, <1>3
  <2> QED
    BY <1>2, <1>3, <1>4, <2>1, <2>2 DEF Coherent
<1>6. Placed(px)
  <2>1. 0 \in 0 .. Size /\ 0 = BLK * 0
    BY <1>1
  <2> QED
    BY <1>3, <2>1 DEF Placed
<1>7. written \in SUBSET Offsets /\ clean \in SUBSET written
  BY <1>2
<1>8. slave = NoSlave /\ moves = NoMove /\ nmoves = 0 /\ nputs \in 0 .. budget.puts
  BY <1>1 DEF Init
<1> QED
  BY <1>1, <1>5, <1>6, <1>7, <1>8 DEF BufferInv

\* The regions that are asked for, and what can go wrong.
LEMMA Regions ==
    ASSUME Buffered, BufferInv, NEW n \in budget.lens, NEW offset \in 0 .. Size - n
    PROVE  /\ n \in Lens /\ n \in 1 .. BLK /\ n \in Nat /\ offset \in Nat /\ offset <= Size
           /\ Region(offset, n) \in SUBSET Offsets
           /\ \A S : Failures(S) \subseteq {"none", "out"}
<1>1. budget \in Budgets /\ budget.lens \subseteq Lens /\ budget.fails \subseteq {"out"}
      /\ Lens \subseteq 1 .. BLK /\ BLK \in Nat /\ Size \in Nat
  BY PosixIOAssumption DEF BufferInv, Buffered
<1>2. n \in Lens /\ n \in 1 .. BLK
  BY <1>1
<1>3. n \in Nat /\ n >= 1 /\ offset \in Nat /\ offset + n <= Size
  BY <1>1, <1>2
<1>4. Region(offset, n) \in SUBSET Offsets
  BY <1>1, <1>3 DEF Region, Offsets
<1>5. \A S : Failures(S) \subseteq {"none", "out"}
  BY <1>1 DEF Failures
<1> QED
  BY <1>1, <1>2, <1>3, <1>4, <1>5

\* The pages stay where pages are.
LEMMA GotPlaced ==
    ASSUME NEW d, NEW p, NEW W, NEW C, NEW g, NEW offset \in Nat, offset <= Size, NEW n \in 1 .. BLK,
           NEW w, Placed(p), Got(d, p, W, C, g, offset, n, w), g.ok,
           NEW q, q.offset = g.px.offset, q.cnt = g.px.cnt
    PROVE  Placed(q)
<1>1. /\ q.offset \in Nat /\ g.at \in Nat /\ g.at + n <= q.cnt /\ q.cnt \in Nat
      /\ q.offset \in {p.offset, offset - (offset % BLK)}
  <2>1. Coherent(g.disk, g.px, W, C)
    BY DEF Got, Keeps
  <2>2. g.px.cnt \in Nat
    BY <2>1, Parts
  <2> QED
    BY <2>2 DEF Got
<1>2. BLK \in Nat \ {0} /\ Size \in Nat /\ OFF_NONE \notin Nat /\ n \in Nat /\ n >= 1
  BY PosixIOAssumption
<1>3. q.cnt # 0
  BY <1>1, <1>2
<1>4. ASSUME q.offset = p.offset
      PROVE  q.offset \in {BLK * k : k \in 0 .. Size}
  <2>1. p.offset # OFF_NONE
    BY <1>1, <1>2, <1>4
  <2> QED
    BY <1>4, <2>1 DEF Placed
<1>5. ASSUME q.offset = offset - (offset % BLK)
      PROVE  q.offset \in {BLK * k : k \in 0 .. Size}
  <2> DEFINE k == offset \div BLK
  <2>1. q.offset = BLK * k /\ k \in 0 .. offset
    BY <1>5, Pages
  <2> HIDE DEF k
  <2>2. k \in 0 .. Size
    BY <1>2, <2>1
  <2> QED
    BY <2>1, <2>2
<1> QED
  BY <1>1, <1>3, <1>4, <1>5 DEF Placed

\* What a step does to the array of bytes: nothing,
Quiet ==
    /\ written' = written /\ clean' = clean
    /\ \A a \in written : ViewOf(disk', px', a) = ViewOf(disk, px, a)
    /\ \A a \in clean : disk'.byte[a] = disk.byte[a]

\* a write of v to a region,
Writes(offset, n, v) ==
    /\ written' = written \cup Region(offset, n) /\ clean' = clean \ Region(offset, n)
    /\ \A a \in Region(offset, n) : ViewOf(disk', px', a) = v
    /\ \A a \in written \ Region(offset, n) : ViewOf(disk', px', a) = ViewOf(disk, px, a)
    /\ \A a \in clean : disk'.byte[a] = disk.byte[a]

\* a sync,
Syncs ==
    /\ written' = written /\ clean' = written
    /\ \A a \in written : /\ ViewOf(disk', px', a) = ViewOf(disk, px, a)
                          /\ disk'.byte[a] = ViewOf(disk, px, a)

\* or the loss of what was not synced.
Loses ==
    /\ written' = clean /\ clean' = clean
    /\ \A a \in clean : ViewOf(disk', px', a) = disk.byte[a] /\ disk'.byte[a] = disk.byte[a]

\* The invariant after a step, part by part.
LEMMA InvAfter ==
    ASSUME BufferInv, written' \in SUBSET Offsets, clean' \in SUBSET written',
           Coherent(disk', px', written', clean'), Placed(px'),
           slave' = NoSlave, moves' = NoMove, nmoves' = nmoves, budget' = budget,
           nputs' \in 0 .. budget.puts
    PROVE  BufferInv'
<1>1. Placed(px)' /\ Coherent(disk, px, written, clean)'
  BY DEF Placed, Coherent, InBuf, InPages, Region, Disks, Buffers, Offsets, Values
<1> QED
  BY <1>1 DEF BufferInv, Offsets

\* ncio_px_get and ncio_px_rel: nobody sees a read.
LEMMA GetStep ==
    ASSUME Buffered, BufferInv, NEW n \in budget.lens, NEW offset \in 0 .. Size - n,
           NEW fail \in Failures({"in", "out", "short"}), Get(offset, n, fail), budget' = budget
    PROVE  BufferInv' /\ Quiet
<1> DEFINE g == px_get(disk, px, offset, n, FALSE, fail)
<1>1. /\ written \in SUBSET Offsets /\ clean \in SUBSET written /\ Coherent(disk, px, written, clean)
      /\ Placed(px) /\ nputs \in 0 .. budget.puts
  BY DEF BufferInv
<1>2. n \in 1 .. BLK /\ offset \in Nat /\ offset <= Size /\ fail \in {"none", "out"}
  BY Regions
<1>3. FALSE \in BOOLEAN
  OBVIOUS
<1>4. Got(disk, px, written, clean, g, offset, n, FALSE)
  BY <1>1, <1>2, <1>3, GetGot, Zenon
<1>5. /\ disk' = g.disk /\ px' = (IF g.ok THEN px_rel(g.px, FALSE) ELSE g.px)
      /\ slave' = NoSlave /\ moves' = NoMove
      /\ nputs' = nputs /\ nmoves' = nmoves /\ written' = written /\ clean' = clean
  BY DEF Get
<1> HIDE DEF g
<1>6. Keeps(disk, px, written, clean, disk', px') /\ Placed(px')
  <2>1. CASE g.ok
    <3> DEFINE q == px_rel(g.px, FALSE)
    <3>1. Keeps(disk, px, written, clean, g.disk, g.px)
      BY <1>4, <2>1 DEF Got
    <3>2. Coherent(g.disk, g.px, written, clean)
      BY <3>1 DEF Keeps
    <3>3. Keeps(g.disk, g.px, written, clean, g.disk, q) /\ q.offset = g.px.offset /\ q.cnt = g.px.cnt
      BY <1>1, <3>2, RelKeeps
    <3> HIDE DEF q
    <3>4. Keeps(disk, px, written, clean, g.disk, q)
      BY <3>1, <3>3, KeepsOrder
    <3>5. Placed(q)
      BY <1>1, <1>2, <1>4, <2>1, <3>3, GotPlaced
    <3> QED
      BY <1>5, <2>1, <3>4, <3>5 DEF q
  <2>2. CASE ~g.ok
    <3>1. disk' = disk /\ px' = px
      BY <1>4, <1>5, <2>2 DEF Got
    <3> QED
      BY <1>1, <3>1, KeepsOrder
  <2> QED
    BY <2>1, <2>2
<1>7. Coherent(disk', px', written', clean')
  BY <1>5, <1>6 DEF Keeps
<1>8. BufferInv'
  BY <1>1, <1>5, <1>6, <1>7, InvAfter
<1>9. Quiet
  BY <1>5, <1>6 DEF Keeps, Quiet
<1> QED
  BY <1>8, <1>9

\* ncio_px_get, a write and ncio_px_rel: a write to the array, unless it fails.
LEMMA PutStep ==
    ASSUME Buffered, BufferInv, NEW n \in budget.lens, NEW offset \in 0 .. Size - n,
           NEW fail \in Failures({"in", "out", "short"}), nputs < budget.puts,
           Put(offset, n, fail), budget' = budget
    PROVE  BufferInv' /\ (Quiet \/ (nputs + 1 \in Values /\ Writes(offset, n, nputs + 1)))
<1> DEFINE g == px_get(disk, px, offset, n, TRUE, fail)
           v == nputs + 1
           R == Region(offset, n)
           q == Filled(g.px, g.at, n, v)
<1>1. /\ written \in SUBSET Offsets /\ clean \in SUBSET written /\ Coherent(disk, px, written, clean)
      /\ Placed(px) /\ nputs \in 0 .. budget.puts /\ budget \in Budgets
  BY DEF BufferInv
<1>2. n \in 1 .. BLK /\ n \in Nat /\ offset \in Nat /\ offset <= Size /\ fail \in {"none", "out"}
      /\ R \in SUBSET Offsets
  BY Regions
<1>3. budget.puts \in 0 .. MaxPuts /\ MaxPuts \in Nat
  BY <1>1, PosixIOAssumption
<1>4. v \in 0 .. budget.puts /\ v \in Values
  BY <1>1, <1>3 DEF Values
<1>5. TRUE \in BOOLEAN
  OBVIOUS
<1>6. Got(disk, px, written, clean, g, offset, n, TRUE)
  BY <1>1, <1>2, <1>5, GetGot, Zenon
<1>7. /\ disk' = g.disk /\ slave' = NoSlave /\ moves' = NoMove /\ nmoves' = nmoves
      /\ \/ /\ g.ok /\ px' = q /\ nputs' = v
            /\ written' = written \cup R /\ clean' = clean \ R
         \/ /\ ~g.ok /\ px' = g.px /\ nputs' = nputs /\ written' = written /\ clean' = clean
  BY DEF Put, Filled
<1> HIDE DEF g, v, R
<1>8. CASE ~g.ok
  <2>1. disk' = disk /\ px' = px
    BY <1>6, <1>7, <1>8 DEF Got
  <2>2. nputs' = nputs /\ written' = written /\ clean' = clean
    BY <1>7, <1>8
  <2>3. Coherent(disk', px', written', clean') /\ Placed(px')
    BY <1>1, <2>1, <2>2
  <2>4. BufferInv'
    BY <1>1, <1>7, <2>2, <2>3, InvAfter
  <2>5. Quiet
    BY <2>1, <2>2 DEF Quiet
  <2> QED
    BY <2>4, <2>5
<1>9. CASE g.ok
  <2>1. px' = q /\ nputs' = v /\ written' = written \cup R /\ clean' = clean \ R
    BY <1>7, <1>9
  <2>2. /\ Keeps(disk, px, written, clean, g.disk, g.px) /\ g.px.offset \in Nat /\ g.at \in Nat
        /\ g.px.offset + g.at = offset /\ g.at + n <= g.px.cnt /\ g.px.write
    BY <1>6, <1>9 DEF Got
  <2>3. Coherent(g.disk, g.px, written, clean)
    BY <2>2 DEF Keeps
  <2>4. R = Region(g.px.offset + g.at, n)
    BY <2>2 DEF R
  <2>5. FilledIn(g.disk, g.px, written, clean, q, R, v)
    BY <1>1, <1>2, <1>4, <2>2, <2>3, <2>4, FilledKeeps, Zenon
  <2>6. q.offset = g.px.offset /\ q.cnt = g.px.cnt
    <3>1. g.px \in Buffers
      BY <2>3 DEF Coherent
    <3>2. IsFilled(g.px, q, g.at, n, v)
      BY <1>2, <1>4, <2>2, <3>1, FilledIs, Zenon
    <3> HIDE DEF q
    <3> QED
      BY <3>2 DEF IsFilled
  <2> HIDE DEF q
  <2>7. Placed(px')
    BY <1>1, <1>2, <1>6, <1>9, <2>1, <2>6, GotPlaced
  <2>8. Coherent(disk', px', written', clean')
    BY <1>7, <2>1, <2>5 DEF FilledIn
  <2>9. written' \in SUBSET Offsets /\ clean' \in SUBSET written'
    BY <1>1, <1>2, <2>1
  <2>10. nputs' \in 0 .. budget.puts
    BY <1>4, <2>1
  <2>11. BufferInv'
    BY <1>7, <2>7, <2>8, <2>9, <2>10, InvAfter
  <2>12. /\ \A a \in R : ViewOf(disk', px', a) = v
         /\ \A a \in written \ R : ViewOf(disk', px', a) = ViewOf(disk, px, a)
         /\ \A a \in clean : disk'.byte[a] = disk.byte[a]
    BY <1>7, <2>1, <2>2, <2>5 DEF FilledIn, Keeps
  <2>13. Writes(offset, n, v)
    BY <2>1, <2>12 DEF Writes, R
  <2> QED
    BY <1>4, <2>11, <2>13 DEF v
<1> QED
  BY <1>8, <1>9

\* ncio_px_sync: a sync of the array, unless it fails.
LEMMA SyncStep ==
    ASSUME BufferInv, NEW fail, ncio_px_sync(fail), budget' = budget
    PROVE  BufferInv' /\ (Quiet \/ Syncs)
<1> DEFINE s == Synced(disk, px, fail)
<1>1. /\ written \in SUBSET Offsets /\ clean \in SUBSET written /\ Coherent(disk, px, written, clean)
      /\ Placed(px) /\ nputs \in 0 .. budget.puts /\ slave = NoSlave
  BY DEF BufferInv
<1>2. IsSynced(disk, px, written, clean, s)
  BY <1>1, SyncedKeeps, Zenon
<1>3. /\ moves = NoMove /\ disk' = s.disk /\ px' = s.px /\ clean' = (IF s.ok THEN written ELSE clean)
      /\ slave' = slave /\ moves' = moves /\ nputs' = nputs /\ nmoves' = nmoves /\ written' = written
  BY DEF ncio_px_sync
<1> HIDE DEF s
<1>4. CASE s.ok
  <2>1. /\ Coherent(disk', px', written', clean')
        /\ \A a \in written : /\ ViewOf(disk', px', a) = ViewOf(disk, px, a)
                              /\ disk'.byte[a] = ViewOf(disk, px, a)
        /\ px'.offset # OFF_NONE => px'.offset = px.offset /\ px'.cnt = px.cnt
    BY <1>2, <1>3, <1>4 DEF IsSynced, Keeps
  <2>2. Placed(px')
    BY <1>1, <2>1 DEF Placed
  <2>3. written' \in SUBSET Offsets /\ clean' \in SUBSET written'
    BY <1>1, <1>3, <1>4
  <2>4. BufferInv'
    BY <1>1, <1>3, <2>1, <2>2, <2>3, InvAfter
  <2>5. Syncs
    BY <1>3, <1>4, <2>1 DEF Syncs
  <2> QED
    BY <2>4, <2>5
<1>5. CASE ~s.ok
  <2>1. disk' = disk /\ px' = px /\ clean' = clean
    BY <1>2, <1>3, <1>5 DEF IsSynced
  <2>2. Coherent(disk', px', written', clean') /\ Placed(px')
    BY <1>1, <1>3, <2>1
  <2>3. BufferInv'
    BY <1>1, <1>3, <2>1, <2>2, InvAfter
  <2>4. Quiet
    BY <1>3, <2>1 DEF Quiet
  <2> QED
    BY <2>3, <2>4
<1> QED
  BY <1>2, <1>4, <1>5

\* The process is lost with its buffers.
LEMMA LoseStep ==
    ASSUME BufferInv, disk' = disk, px' = Fresh, written' = clean, clean' = clean,
           slave' = NoSlave, moves' = NoMove, nputs' = nputs, nmoves' = nmoves, budget' = budget
    PROVE  BufferInv' /\ Loses
<1>1. /\ written \in SUBSET Offsets /\ clean \in SUBSET written /\ Coherent(disk, px, written, clean)
      /\ nputs \in 0 .. budget.puts
  BY DEF BufferInv
<1>2. Coherent(disk, Fresh, clean, clean) /\ \A a : ViewOf(disk, Fresh, a) = disk.byte[a]
  BY <1>1, LostKeeps
<1>3. Placed(px')
  BY FreshIs DEF Placed
<1>4. Coherent(disk', px', written', clean')
  BY <1>2
<1>5. written' \in SUBSET Offsets /\ clean' \in SUBSET written'
  BY <1>1
<1>6. BufferInv'
  BY <1>1, <1>3, <1>4, <1>5, InvAfter
<1>7. Loses
  BY <1>2 DEF Loses
<1> QED
  BY <1>6, <1>7

\* ncio_px_close and opening the file again: a sync, or if it fails the loss of
\* what was not synced.
LEMMA CloseStep ==
    ASSUME BufferInv, NEW fail, ncio_px_close(fail), budget' = budget
    PROVE  BufferInv' /\ (Syncs \/ Loses)
<1> DEFINE s == Synced(disk, px, fail)
<1>1. /\ written \in SUBSET Offsets /\ clean \in SUBSET written /\ Coherent(disk, px, written, clean)
      /\ nputs \in 0 .. budget.puts
  BY DEF BufferInv
<1>2. IsSynced(disk, px, written, clean, s)
  BY <1>1, SyncedKeeps, Zenon
<1>3. /\ disk' = s.disk /\ px' = Fresh /\ slave' = NoSlave /\ moves' = NoMove
      /\ written' = (IF s.ok THEN written ELSE clean) /\ clean' = written'
      /\ nputs' = nputs /\ nmoves' = nmoves
  BY DEF ncio_px_close
<1> HIDE DEF s
<1>4. CASE s.ok
  <2>1. /\ Coherent(s.disk, s.px, written, written)
        /\ \A a \in written : s.disk.byte[a] = ViewOf(disk, px, a)
    BY <1>2, <1>4 DEF IsSynced
  <2>2. written \in SUBSET written
    OBVIOUS
  <2>3. Coherent(s.disk, Fresh, written, written) /\ \A a : ViewOf(s.disk, Fresh, a) = s.disk.byte[a]
    BY <1>1, <2>1, <2>2, LostKeeps
  <2>4. written' = written /\ clean' = written
    BY <1>3, <1>4
  <2>5. Coherent(disk', px', written', clean')
    BY <1>3, <2>3, <2>4
  <2>6. Placed(px')
    BY <1>3, FreshIs DEF Placed
  <2>7. BufferInv'
    BY <1>1, <1>3, <2>4, <2>5, <2>6, InvAfter
  <2>8. Syncs
    BY <1>3, <2>1, <2>3, <2>4 DEF Syncs
  <2> QED
    BY <2>7, <2>8
<1>5. CASE ~s.ok
  <2>1. disk' = disk /\ written' = clean /\ clean' = clean
    BY <1>2, <1>3, <1>5 DEF IsSynced
  <2> QED
    BY <1>3, <2>1, LoseStep
<1> QED
  BY <1>2, <1>4, <1>5

\* A step of the array of bytes.
ByteStep ==
    \/ Quiet
    \/ \E n \in Lens : \E offset \in 0 .. Size - n, v \in Values : Writes(offset, n, v)
    \/ Syncs
    \/ Loses

\* Every call keeps the invariant, and does to the bytes what the array does.
LEMMA BufferStep ==
    ASSUME Buffered, BufferInv, [Next]_vars
    PROVE  BufferInv' /\ ByteStep
<1>1. CASE UNCHANGED vars
  <2>1. BufferInv'
    BY <1>1 DEF BufferInv, vars, Coherent, Placed, InBuf, InPages, Region
  <2>2. Quiet
    BY <1>1 DEF Quiet, vars
  <2> QED
    BY <2>1, <2>2 DEF ByteStep
<1>2. ASSUME budget' = budget, NEW n \in budget.lens, NEW offset \in 0 .. Size - n,
             NEW fail \in Failures({"in", "out", "short"}), Get(offset, n, fail)
      PROVE  BufferInv' /\ ByteStep
  BY <1>2, GetStep DEF ByteStep
<1>3. ASSUME budget' = budget, NEW n \in budget.lens, NEW offset \in 0 .. Size - n,
             NEW fail \in Failures({"in", "out", "short"}), nputs < budget.puts, Put(offset, n, fail)
      PROVE  BufferInv' /\ ByteStep
  <2>1. BufferInv' /\ (Quiet \/ (nputs + 1 \in Values /\ Writes(offset, n, nputs + 1)))
    BY <1>3, PutStep
  <2>2. n \in Lens
    BY Regions
  <2> QED
    BY <2>1, <2>2 DEF ByteStep
<1>4. ASSUME budget' = budget, NEW fail, ncio_px_sync(fail)
      PROVE  BufferInv' /\ ByteStep
  BY <1>4, SyncStep DEF ByteStep
<1>5. ASSUME budget' = budget, NEW fail, ncio_px_close(fail)
      PROVE  BufferInv' /\ ByteStep
  BY <1>5, CloseStep DEF ByteStep
<1>6. ASSUME budget' = budget, Crash
      PROVE  BufferInv' /\ ByteStep
  <2>1. /\ disk' = disk /\ px' = Fresh /\ written' = clean /\ clean' = clean /\ slave' = NoSlave
        /\ moves' = NoMove /\ nputs' = nputs /\ nmoves' = nmoves
    BY <1>6 DEF Crash
  <2> QED
    BY <1>6, <2>1, LoseStep DEF ByteStep
<1>7. ~(nmoves < budget.moves)
  BY DEF BufferInv, Buffered
<1>8. CASE Next
  BY <1>2, <1>3, <1>4, <1>5, <1>6, <1>7, <1>8 DEF Next, Calls
<1> QED
  BY <1>1, <1>8

\* As long as only writes fail and nothing is moved, the buffer is as px_get
\* asserts: it stands for one or two whole pages, it holds no more than they have
\* room for, and it is modified only if it was asked for to be written.
THEOREM BufferTypeCorrect == Buffered => (Spec => []TypeOK)
<1> SUFFICES ASSUME Buffered PROVE Spec => []TypeOK
  OBVIOUS
<1>1. Init => BufferInv
  BY BufferInit
<1>2. BufferInv /\ [Next]_vars => BufferInv'
  BY BufferStep
<1>3. BufferInv => TypeOK
  <2> SUFFICES ASSUME BufferInv PROVE TypeOK
    OBVIOUS
  <2>1. /\ written \in SUBSET Offsets /\ clean \in SUBSET written /\ Coherent(disk, px, written, clean)
        /\ Placed(px) /\ slave = NoSlave
    BY DEF BufferInv
  <2>2. /\ disk.len \in 0 .. Size /\ px.cnt \in Nat /\ px.extent \in Nat
    BY <2>1, Parts
  <2>3. /\ px.extent \in {0, BLK, 2 * BLK} /\ px.cnt <= px.extent
        /\ px.modified => px.write /\ px.offset # OFF_NONE
    BY <2>1 DEF Coherent
  <2>4. px.cnt \in 0 .. px.extent
    BY <2>2, <2>3
  <2>5. px.offset = OFF_NONE \/ px.offset \in {BLK * k : k \in 0 .. Size}
    BY <2>1 DEF Placed
  <2> QED
    BY <2>1, <2>2, <2>3, <2>4, <2>5 DEF TypeOK, Offsets
<1> QED
  BY <1>1, <1>2, <1>3, PTL DEF Spec

\* Reads, writes, syncs and closes through the buffer are reads, writes, syncs and
\* closes of an array of bytes, for all page sizes, files and regions: a region
\* reads as it was last written wherever its pages are, no page-out takes anything
\* back, and what a sync has written survives the loss of the process.
THEOREM BufferImplementsBytes == Buffered => (Spec => IsByteFile)
<1> SUFFICES ASSUME Buffered PROVE Spec => File!Spec
  BY DEF IsByteFile
<1>1. Init => BufferInv
  BY BufferInit
<1>2. BufferInv /\ [Next]_vars => BufferInv' /\ ByteStep
  BY BufferStep
<1> DEFINE bytes == [a \in 0 .. Size - 1 |-> IF a \in written THEN View(a) ELSE Hole]
           synced == [a \in 0 .. Size - 1 |-> IF a \in clean THEN disk.byte[a] ELSE Hole]
<1>3. \A a : View(a) = ViewOf(disk, px, a)
  BY DEF View, ViewOf, InBuf
<1>4. \A a : View(a)' = ViewOf(disk', px', a)
  BY DEF View, ViewOf, InBuf, Region
<1>5. /\ bytes = [a \in Offsets |-> IF a \in written THEN ViewOf(disk, px, a) ELSE Hole]
      /\ bytes' = [a \in Offsets |-> IF a \in written' THEN ViewOf(disk', px', a) ELSE Hole]
      /\ synced = [a \in Offsets |-> IF a \in clean THEN disk.byte[a] ELSE Hole]
      /\ synced' = [a \in Offsets |-> IF a \in clean' THEN disk'.byte[a] ELSE Hole]
  BY <1>3, <1>4 DEF Offsets
<1>6. Init => File!Init
  BY DEF Init, File!Init
<1>7. BufferInv /\ ByteStep => [File!Next]_(File!vars)
  <2> SUFFICES ASSUME BufferInv, ByteStep PROVE [File!Next]_(File!vars)
    OBVIOUS
  <2>1. written \in SUBSET Offsets /\ clean \in SUBSET written
    BY DEF BufferInv
  <2> HIDE DEF bytes, synced
  <2>2. CASE Quiet
    <3>1. bytes' = bytes /\ synced' = synced
      BY <1>5, <2>1, <2>2 DEF Quiet
    <3> QED
      BY <3>1 DEF File!vars, bytes, synced
  <2>3. ASSUME NEW n \in Lens, NEW offset \in 0 .. Size - n, NEW v \in Values, Writes(offset, n, v)
        PROVE  File!Next
    <3> DEFINE R == Region(offset, n)
               new == [a \in R |-> v]
    <3>1. R = File!Region(offset, n)
      BY DEF Region, File!Region
    <3>2. /\ written' = written \cup R /\ clean' = clean \ R
          /\ \A a \in R : ViewOf(disk', px', a) = v
          /\ \A a \in written \ R : ViewOf(disk', px', a) = ViewOf(disk, px, a)
          /\ \A a \in clean : disk'.byte[a] = disk.byte[a]
      BY <2>3 DEF Writes
    <3> HIDE DEF R
    <3>3. bytes' = [a \in Offsets |-> IF a \in R THEN new[a] ELSE bytes[a]]
      BY <1>5, <3>2
    <3>4. synced' = [a \in Offsets |-> IF a \in R THEN Hole ELSE synced[a]]
      BY <1>5, <3>2
    <3>5. File!Write(R, new)
      BY <3>3, <3>4 DEF File!Write, Offsets, bytes, synced
    <3>6. File!Put(offset, n, v)
      BY <3>1, <3>5 DEF File!Put
    <3> QED
      BY <3>6 DEF File!Next
  <2>4. CASE Syncs
    <3>1. bytes' = bytes /\ synced' = bytes
      BY <1>5, <2>1, <2>4 DEF Syncs
    <3>2. File!Sync
      BY <3>1 DEF File!Sync, bytes, synced
    <3> QED
      BY <3>2 DEF File!Next
  <2>5. CASE Loses
    <3>1. bytes' = synced /\ synced' = synced
      BY <1>5, <2>1, <2>5 DEF Loses
    <3>2. File!Lose
      BY <3>1 DEF File!Lose, bytes, synced
    <3> QED
      BY <3>2 DEF File!Next
  <2> QED
    BY <2>2, <2>3, <2>4, <2>5 DEF ByteStep
<1> QED
  BY <1>1, <1>2, <1>6, <1>7, PTL DEF Spec, File!Spec
=============================================================================
