----------------------------- MODULE NC3Layout -----------------------------
(***************************************************************************)
(* Where a classic dataset keeps its data: the offsets that NC_begins      *)
(* computes when define mode ends, the moves that make room for a larger   *)
(* header or for new variables (move_vars_r, move_recs_r), the fills, and  *)
(* the growth of the record section (libsrc/nc3internal.c, putget.m4).     *)
(*                                                                         *)
(* The file is a function from offsets to bytes; a byte of data is the     *)
(* triple <<variable, record, position>>, so that a byte in the wrong      *)
(* place is seen.  One dataset, one process, no I/O errors.                *)
(***************************************************************************)
EXTENDS Integers, Sequences, FiniteSets

CONSTANTS
    X_ALIGN,               \* 4 in the file format
    HBase, HVar, HAtt,     \* size of the header: alone, per variable, per attribute
    Sizes,                 \* sizes in bytes of a variable (or of one record of it)
    EndefArgs,             \* arguments of nc__enddef: h_minfree, v_align, v_minfree, r_align
    X_OFF_MAX,             \* largest `begin' the header can hold
    FileSize,              \* bound: no offset is beyond it
    MaxRecs,               \* bound on the number of records
    Shapes,                \* bounds on the dataset: vars, atts, recs, sizes
    NoLayout

VARIABLES
    indef,      \* NC_indef
    lay,        \* NC3_INFO: vars, natts, xsz, begin_var, begin_rec, recsize, numrecs
    old,        \* NC3_INFO.old, or NoLayout
    dofill,     \* NC_dofill
    file,       \* the bytes of the file
    numrecs,    \* the number of records in the file's header
    written,    \* history: <<var, rec>> that hold what the user wrote
    filled,     \* history: <<var, rec>> that hold the fill value
    aborted     \* an assertion has failed: the process is gone

vars == <<indef, lay, old, dofill, file, numrecs, written, filled, aborted>>

\* NC_var: what matters of its shape is whether it has records and its size.
Var == [rec : BOOLEAN, size : Sizes, begin : Nat, no_fill : BOOLEAN]

\* NC3_INFO
Layout ==
    [vars : Seq(Var), natts : Nat, xsz : Nat, begin_var : Nat, begin_rec : Nat,
     recsize : Nat, numrecs : 0 .. MaxRecs]

ASSUME NC3LayoutAssumption ==
    /\ X_ALIGN \in Nat \ {0} /\ HBase \in Nat \ {0} /\ HVar \in Nat /\ HAtt \in Nat
    /\ Sizes \subseteq Nat \ {0} /\ X_OFF_MAX \in Nat /\ MaxRecs \in Nat
    /\ FileSize \in Nat /\ HBase <= FileSize
    /\ EndefArgs \subseteq [h_minfree : Nat, v_align : Nat \ {0},
                            v_minfree : Nat, r_align : Nat \ {0}]
    /\ Shapes \subseteq [vars : Nat, atts : Nat, recs : 0 .. MaxRecs, sizes : SUBSET Sizes]
    /\ NoLayout \notin Layout

\* Bytes of the file that are not data.
Hole == <<"hole">>
Hdr  == <<"hdr">>
Fill == <<"fill">>

\* Bound: the dataset l is no larger than one of the shapes.
Bounded(l) ==
    \E b \in Shapes :
        /\ Len(l.vars) <= b.vars /\ l.natts <= b.atts /\ l.numrecs <= b.recs
        /\ \A i \in DOMAIN l.vars : l.vars[i].size \in b.sizes

\* Bound: no offset of the dataset l, and no record, is beyond FileSize.
InFile(l) ==
    /\ {l.xsz, l.begin_var, l.begin_rec, l.recsize} \subseteq 0 .. FileSize
    /\ \A i \in DOMAIN l.vars : l.vars[i].begin <= FileSize
    /\ l.begin_rec + l.recsize * l.numrecs <= FileSize

----------------------------------------------------------------------------
(* Lengths and offsets *)

Larger(a, b) == IF a > b THEN a ELSE b

D_RNDUP(x, align) == ((x + align - 1) \div align) * align

\* NC_var_shape: varp->len, the size rounded up.
VarLen(v) == D_RNDUP(v.size, X_ALIGN)

RecVars(l) == {i \in DOMAIN l.vars : l.vars[i].rec}
FixVars(l) == DOMAIN l.vars \ RecVars(l)

First(S)  == CHOOSE i \in S : \A j \in S : i <= j
LastOf(S) == CHOOSE i \in S : \A j \in S : j <= i

ncx_len_NC(l) == HBase + HVar * Len(l.vars) + HAtt * l.natts

\* Where record r of variable i begins (fixed-size variables: r = 0).
Offset(l, i, r) == l.vars[i].begin + (IF l.vars[i].rec THEN l.recsize * r ELSE 0)

\* The lengths of one record of the record variables up to i.
RecSums(l) ==
    LET sum[i \in 0 .. Len(l.vars)] ==
            IF i = 0 THEN 0
            ELSE sum[i - 1] + (IF l.vars[i].rec THEN VarLen(l.vars[i]) ELSE 0)
    IN  sum

\* recsize of NC_begins.  The records are packed when there is exactly one record
\* variable; the test is that the last one is as long as all of them.
RecSize(l) ==
    LET total == RecSums(l)[Len(l.vars)]
        last  == l.vars[LastOf(RecVars(l))]
    IN  IF RecVars(l) # {} /\ total = VarLen(last) THEN last.size ELSE total

\* recsize of NC_computeshapes, which asks the first one.
ShapesRecSize(l) ==
    LET total == RecSums(l)[Len(l.vars)]
        first == l.vars[First(RecVars(l))]
    IN  IF RecVars(l) # {} /\ total = VarLen(first) THEN first.size ELSE total

\* The end of the fixed-size variables.
FixEnd(l) ==
    LET last == LastOf(FixVars(l))
    IN  IF FixVars(l) = {} THEN l.xsz ELSE l.vars[last].begin + VarLen(l.vars[last])

\* Mutant: records are taken to be padded even if there is one record variable.
NC_computeshapesPadded(l) ==
    LET begin_rec == IF RecVars(l) = {} THEN FixEnd(l) ELSE l.vars[First(RecVars(l))].begin
    IN  [l EXCEPT !.begin_rec = begin_rec,
                  !.begin_var = IF FixVars(l) = {} THEN begin_rec
                                ELSE l.vars[First(FixVars(l))].begin,
                  !.recsize = D_RNDUP(ShapesRecSize(l), X_ALIGN)]

\* NC_computeshapes, run when the header is read.
NC_computeshapes(l) ==
    LET begin_rec == IF RecVars(l) = {} THEN FixEnd(l) ELSE l.vars[First(RecVars(l))].begin
    IN  [l EXCEPT !.begin_rec = begin_rec,
                  !.begin_var = IF FixVars(l) = {} THEN begin_rec
                                ELSE l.vars[First(FixVars(l))].begin,
                  !.recsize = ShapesRecSize(l)]

\* Variables follow one another in the order of their definition, first the
\* fixed-size ones, then the first record.
NC_check_voffs(l) ==
    /\ \A i \in FixVars(l) : l.begin_var <= l.vars[i].begin
    /\ \A i, j \in FixVars(l) : i < j => l.vars[i].begin + VarLen(l.vars[i]) <= l.vars[j].begin
    /\ \A i \in FixVars(l) : l.vars[i].begin + VarLen(l.vars[i]) <= l.begin_rec
    /\ \A i \in RecVars(l) : l.begin_rec <= l.vars[i].begin
    /\ \A i, j \in RecVars(l) : i < j => l.vars[i].begin + VarLen(l.vars[i]) <= l.vars[j].begin

\* nc_get_NC accepts the header (it returns NC_ENOTNC otherwise).
Readable(l) ==
    LET c == NC_computeshapes(l)
    IN  /\ RecVars(l) # {} => FixEnd(l) <= l.vars[First(RecVars(l))].begin
        /\ c.xsz <= c.begin_var /\ c.begin_var <= c.begin_rec
        /\ NC_check_voffs(c)

----------------------------------------------------------------------------
(* NC_begins *)

\* Mutant: a section that has a beginning keeps it.
SectionBeginKeeps(begin, index, minfree, align) ==
    IF begin = 0 THEN D_RNDUP(index + minfree, align) ELSE begin

\* The beginning of a section: kept when there is room and the alignment is
\* right, computed again otherwise.
SectionBegin(begin, index, minfree, align) ==
    IF begin < index + minfree \/ begin # D_RNDUP(begin, align)
    THEN D_RNDUP(index + minfree, align)
    ELSE begin

\* Where variable i began before the redefinition.
OldBegin(i) == IF old # NoLayout /\ i <= Len(old.vars) THEN old.vars[i].begin ELSE 0

\* A pass of NC_begins over the variables S of the layout: at[i] is the
\* index before variable i + 1, begin of a variable never falls below its
\* old one.  `raise': the index follows a begin that was kept (first pass).
BeginsPass(l, S, start, raise) ==
    LET at[i \in 0 .. Len(l.vars)] ==
            CASE i = 0 -> start
              [] i \in S -> VarLen(l.vars[i]) +
                    (IF raise THEN Larger(at[i - 1], OldBegin(i)) ELSE at[i - 1])
              [] OTHER -> at[i - 1]
    IN  [index |-> at,
         begin |-> [i \in S |-> Larger(at[i - 1], OldBegin(i))],
         fits  |-> \A i \in S : at[i - 1] <= X_OFF_MAX]

\* The layout after NC_begins, and its status.  On NC_EVARSIZE begin_var is
\* restored and begin_rec is not; the begins set so far are set again by the
\* next attempt.
NC_begins(l, h_minfree, v_align, v_minfree, r_align) ==
    LET xsz       == ncx_len_NC(l)
        oldVar    == IF old = NoLayout THEN 0 ELSE old.begin_var
        oldRec    == IF old = NoLayout THEN 0 ELSE old.begin_rec
        begin_var == Larger(SectionBegin(l.begin_var, xsz, h_minfree, v_align), oldVar)
        fix       == BeginsPass(l, FixVars(l), begin_var, TRUE)
        begin_rec == SectionBegin(Larger(l.begin_rec, oldRec), fix.index[Len(l.vars)],
                                  v_minfree, r_align)
        rec       == BeginsPass(l, RecVars(l), begin_rec, FALSE)
        done      == [l EXCEPT
                        !.xsz = xsz,
                        !.vars = [i \in DOMAIN l.vars |->
                                    [l.vars[i] EXCEPT !.begin = IF l.vars[i].rec
                                                                THEN rec.begin[i]
                                                                ELSE fix.begin[i]]],
                        !.begin_var = IF FixVars(l) = {} THEN begin_rec
                                      ELSE fix.begin[First(FixVars(l))],
                        !.begin_rec = begin_rec,
                        !.recsize = RecSize(l)]
    IN  CASE Len(l.vars) = 0 -> [status |-> "NOERR", lay |-> [l EXCEPT !.xsz = xsz]]
          [] Len(l.vars) > 0 /\ ~fix.fits -> [status |-> "EVARSIZE", lay |-> [l EXCEPT !.xsz = xsz]]
          [] Len(l.vars) > 0 /\ fix.fits /\ ~rec.fits ->
                [status |-> "EVARSIZE", lay |-> [l EXCEPT !.xsz = xsz, !.begin_rec = begin_rec]]
          [] OTHER -> [status |-> "NOERR", lay |-> done]

----------------------------------------------------------------------------
(* Moves and fills *)

\* ncio_move, external to this module: n bytes, which may overlap.
ncio_move(f, to, from, n) ==
    [a \in DOMAIN f |-> IF a \in to .. to + n - 1 THEN f[a - to + from] ELSE f[a]]

\* Record r is moved, its last variable first.
MoveRecord(f, gnu, r) ==
    LET nv == Len(old.vars)
        moved[k \in 0 .. nv] ==
            LET i == nv + 1 - k
            IN  IF k = 0 THEN f
                ELSE IF ~gnu.vars[i].rec THEN moved[k - 1]
                ELSE ncio_move(moved[k - 1], Offset(gnu, i, r), Offset(old, i, r),
                               VarLen(old.vars[i]))
    IN  moved[nv]

\* Mutant: the first record is moved first.
move_recs_rForward(f, gnu) ==
    LET moved[k \in 0 .. old.numrecs] ==
            IF k = 0 THEN f ELSE MoveRecord(moved[k - 1], gnu, k - 1)
    IN  moved[old.numrecs]

\* The last record is moved first.
move_recs_r(f, gnu) ==
    LET moved[k \in 0 .. old.numrecs] ==
            IF k = 0 THEN f ELSE MoveRecord(moved[k - 1], gnu, old.numrecs - k)
    IN  moved[old.numrecs]

\* The last variable is moved first.
move_vars_r(f, gnu) ==
    LET nv == Len(old.vars)
        moved[k \in 0 .. nv] ==
            LET i == nv + 1 - k
            IN  IF k = 0 THEN f
                ELSE IF gnu.vars[i].rec \/ gnu.vars[i].begin <= old.vars[i].begin THEN moved[k - 1]
                ELSE ncio_move(moved[k - 1], gnu.vars[i].begin, old.vars[i].begin,
                               VarLen(old.vars[i]))
    IN  moved[nv]

\* What NC_endef moves, in which order.
Moved(f, gnu) ==
    LET recsOut == gnu.begin_rec > old.begin_rec
        varsOut == gnu.begin_var > old.begin_var
        vs(g)   == IF varsOut THEN move_vars_r(g, gnu) ELSE g
    IN  CASE old = NoLayout \/ Len(gnu.vars) = 0 -> f
          [] old # NoLayout /\ Len(gnu.vars) > 0 /\ recsOut -> vs(move_recs_r(f, gnu))
          [] OTHER -> IF gnu.recsize > old.recsize THEN move_recs_r(vs(f), gnu) ELSE vs(f)

\* write_NC
HeaderWritten(f, l) == [a \in DOMAIN f |-> IF a < l.xsz THEN Hdr ELSE f[a]]

\* How much of variable i, or of a record of it, is filled: all of it and the
\* padding, but no padding when the records are packed.
FillLen(l, i) ==
    IF l.vars[i].rec /\ Cardinality(RecVars(l)) = 1 THEN l.recsize ELSE VarLen(l.vars[i])

\* fill_NC_var for each <<variable, record>> of S.
Filled(f, l, S) ==
    LET cells(s) == Offset(l, s[1], s[2]) .. Offset(l, s[1], s[2]) + FillLen(l, s[1]) - 1
    IN  [a \in DOMAIN f |-> IF \E s \in S : a \in cells(s) THEN Fill ELSE f[a]]

\* fillerup, or fill_added and fill_added_recs: the variables that are new.
FilledByEndef(l) ==
    LET first == IF old = NoLayout THEN 1 ELSE Len(old.vars) + 1
        gnu   == {i \in first .. Len(l.vars) : ~l.vars[i].no_fill}
        nrecs == IF old = NoLayout THEN 0 ELSE old.numrecs
    IN  {<<i, 0>> : i \in gnu \cap FixVars(l)}
          \cup ((gnu \cap RecVars(l)) \X (0 .. nrecs - 1))

----------------------------------------------------------------------------
(* The calls *)

\* The assertions of NC_endef and of move_recs_r.
EndefAsserts(l) ==
    old # NoLayout =>
        /\ l.begin_rec >= old.begin_rec /\ l.begin_var >= old.begin_var
        /\ \A i \in RecVars(old), r \in 0 .. old.numrecs - 1 :
              Offset(l, i, r) >= Offset(old, i, r)

\* The dataset is closed and opened again: nc_get_NC reads layout l with n
\* records.  What was written to later records is not in the dataset any more
\* (bytes after its end are abstracted to holes).
Reopened(l, n) ==
    LET new     == NC_computeshapes([l EXCEPT
                      !.numrecs = n,
                      !.vars = [i \in DOMAIN l.vars |-> [l.vars[i] EXCEPT !.no_fill = FALSE]]])
        kept(S) == {s \in S : l.vars[s[1]].rec => s[2] < n}
    IN  /\ indef' = FALSE
        /\ lay' = new
        /\ old' = NoLayout
        /\ dofill' = TRUE
        /\ file' = [a \in DOMAIN file |->
                      IF a < new.begin_rec + n * new.recsize THEN file[a] ELSE Hole]
        /\ numrecs' = n
        /\ written' = kept(written)
        /\ filled' = kept(filled)

\* On a failed assertion the process is gone, and no step follows.
NC3__enddef(h_minfree, v_align, v_minfree, r_align) ==
    LET b == NC_begins(lay, h_minfree, v_align, v_minfree, r_align)
        l == b.lay
    IN  /\ indef
        /\ InFile(l)
        /\ \/ /\ b.status = "NOERR" /\ NC_check_voffs(l) /\ EndefAsserts(l)
              /\ lay' = l
              /\ file' = Filled(HeaderWritten(Moved(file, l), l), l, FilledByEndef(l))
              /\ numrecs' = l.numrecs
              /\ filled' = filled \cup FilledByEndef(l)
              /\ indef' = FALSE
              /\ old' = NoLayout
              /\ UNCHANGED <<dofill, written, aborted>>
           \/ /\ b.status = "EVARSIZE" \/ ~NC_check_voffs(l)
              /\ lay' = l
              /\ UNCHANGED <<indef, old, dofill, file, numrecs, written, filled, aborted>>
           \/ /\ b.status = "NOERR" /\ NC_check_voffs(l) /\ ~EndefAsserts(l)
              /\ aborted' = TRUE
              /\ UNCHANGED <<indef, lay, old, dofill, file, numrecs, written, filled>>

NC3_redef ==
    /\ ~indef
    /\ indef' = TRUE
    /\ old' = lay
    /\ UNCHANGED <<lay, dofill, file, numrecs, written, filled, aborted>>

\* NC3_abort of a redefinition, which does not write numrecs, and the dataset
\* opened again.  (Aborting a creation removes the file.)
NC3_abort ==
    /\ indef /\ old # NoLayout
    /\ Reopened(old, numrecs)
    /\ UNCHANGED aborted

\* NC3_close, which writes numrecs, and the dataset opened again.  In define
\* mode it runs NC_endef(0, 1, 0, 1) first, the step NC3__enddef(0, 1, 0, 1),
\* and NC3_abort if that fails.
NC3_close ==
    /\ ~indef
    /\ Reopened(lay, lay.numrecs)
    /\ UNCHANGED aborted

NC3_def_var(rec, size) ==
    /\ indef
    /\ lay' = [lay EXCEPT !.vars =
                  Append(@, [rec |-> rec, size |-> size, begin |-> 0, no_fill |-> ~dofill])]
    /\ Bounded(lay')
    /\ UNCHANGED <<indef, old, dofill, file, numrecs, written, filled, aborted>>

\* Any call that makes the header longer.
NC3_put_att ==
    /\ indef
    /\ lay' = [lay EXCEPT !.natts = @ + 1]
    /\ Bounded(lay')
    /\ UNCHANGED <<indef, old, dofill, file, numrecs, written, filled, aborted>>

\* NC3_set_fill: turning fill mode on again runs NC_sync, which writes numrecs.
NC3_set_fill(b) ==
    /\ dofill' = b
    /\ lay' = [lay EXCEPT !.vars =
                  [i \in DOMAIN lay.vars |-> [lay.vars[i] EXCEPT !.no_fill = ~b]]]
    /\ numrecs' = IF b /\ ~dofill THEN lay.numrecs ELSE numrecs
    /\ UNCHANGED <<indef, old, file, written, filled, aborted>>

\* NCvnrecs: the records that are added and filled, for a write to record r.
Added(r) == IF dofill THEN RecVars(lay) \X (lay.numrecs .. r) ELSE {}

\* Mutant: numrecs is one too large.
NC3_put_varaOneTooMany(i, r) ==
    /\ ~indef
    /\ lay.vars[i].rec
    /\ lay' = [lay EXCEPT !.numrecs = r + 2]
    /\ UNCHANGED <<indef, old, dofill, file, numrecs, written, filled, aborted>>

\* The whole of record r of variable i is written.
NC3_put_vara(i, r) ==
    LET rec   == lay.vars[i].rec
        fills == IF rec THEN Added(r) ELSE {}
        f     == Filled(file, lay, fills)
        at    == Offset(lay, i, r)
    IN  /\ ~indef
        /\ rec \/ r = 0
        /\ file' = [a \in DOMAIN f |-> IF a \in at .. at + lay.vars[i].size - 1
                                       THEN <<i, r, a - at>> ELSE f[a]]
        /\ lay' = [lay EXCEPT !.numrecs = IF rec THEN Larger(@, r + 1) ELSE @]
        /\ Bounded(lay') /\ InFile(lay')
        /\ written' = written \cup {<<i, r>>}
        /\ filled' = (filled \cup fills) \ {<<i, r>>}
        /\ UNCHANGED <<indef, old, dofill, numrecs, aborted>>

Init ==
    /\ indef = TRUE
    /\ lay = [vars |-> <<>>, natts |-> 0, xsz |-> HBase, begin_var |-> 0, begin_rec |-> 0,
              recsize |-> 0, numrecs |-> 0]
    /\ old = NoLayout
    /\ dofill = TRUE
    /\ file = [a \in 0 .. FileSize - 1 |-> Hole]
    /\ numrecs = 0
    /\ written = {}
    /\ filled = {}
    /\ aborted = FALSE

Next ==
    /\ ~aborted
    /\ \/ \E a \in EndefArgs : NC3__enddef(a.h_minfree, a.v_align, a.v_minfree, a.r_align)
       \/ NC3_redef
       \/ NC3_abort
       \/ NC3_close
       \/ \E rec \in BOOLEAN, size \in Sizes : NC3_def_var(rec, size)
       \/ NC3_put_att
       \/ \E b \in BOOLEAN : NC3_set_fill(b)
       \/ \E i \in DOMAIN lay.vars, r \in 0 .. MaxRecs - 1 : NC3_put_vara(i, r)

Spec == Init /\ [][Next]_vars

----------------------------------------------------------------------------
(* What is checked *)

\* Lengths in the header are multiples of X_ALIGN, as in the file format, and
\* so are the free space and the alignments that callers of nc__enddef ask for
\* (or they ask for no alignment).
Aligned ==
    /\ \A n \in {HBase, HVar, HAtt} : n % X_ALIGN = 0
    /\ \A a \in EndefArgs :
          /\ \A n \in {a.h_minfree, a.v_minfree} : n % X_ALIGN = 0
          /\ \A n \in {a.v_align, a.r_align} : n = 1 \/ n % X_ALIGN = 0

\* Type invariant: offsets are within the file.
TypeOK ==
    /\ {indef, dofill, aborted} \subseteq BOOLEAN
    /\ \A l \in {lay, old} \ {NoLayout} : l \in Layout /\ InFile(l)
    /\ DOMAIN file = 0 .. FileSize - 1 /\ numrecs \in 0 .. MaxRecs

\* In data mode every record reads as it was last written or filled, and the
\* header is whole: through any number of redefinitions that move variables
\* and records, of fills and of new records, nothing overwrites anything.
ContentIntact ==
    ~indef =>
        /\ \A a \in 0 .. lay.xsz - 1 : file[a] = Hdr
        /\ \A s \in written : \A k \in 0 .. lay.vars[s[1]].size - 1 :
              file[Offset(lay, s[1], s[2]) + k] = <<s[1], s[2], k>>
        /\ \A s \in filled : \A k \in 0 .. lay.vars[s[1]].size - 1 :
              file[Offset(lay, s[1], s[2]) + k] = Fill

\* A header that nc_enddef has written is accepted when it is read again.
HeaderReadable == ~indef => Readable(lay)

\* Reading the header again gives the offsets that are in memory.
ReopenAgrees ==
    ~indef /\ RecVars(lay) # {} => NC_computeshapes(lay) = lay
=============================================================================
