------------------------------ MODULE NC3File ------------------------------
(***************************************************************************)
(* The life of one classic (CDF-1/2/5) dataset inside one process: the     *)
(* header in memory (NC3_INFO), the copy `old' that nc_redef keeps, the    *)
(* state flags, the header page held by the I/O layer, and the header that *)
(* is on disk.  One action per library call of libsrc/nc3internal.c,       *)
(* dim.c, var.c, attr.m4, putget.m4 that changes any of them.              *)
(*                                                                         *)
(* Variable data is left out (NC3Layout models it), and so are the calls   *)
(* that are refused before they touch anything: they would be stutters.    *)
(***************************************************************************)
EXTENDS Integers, Sequences, FiniteSets

CONSTANTS
    Name,          \* names of dimensions, variables and attributes
    NameLen,       \* strlen of each name
    Value,         \* values of (global) attributes
    Xlen,          \* external size of each attribute value
    FillAtts,      \* subset of {"good", "bad"}: _FillValue attributes put
    ShareModes,    \* subset of BOOLEAN: is NC_SHARE used?
    IOFails,       \* may a read or a write of the file fail?
    MaxRecs,       \* bound on the number of records
    Bounds,        \* bounds on the header: dims, vars, atts, recs, names, fvs
    NoFile,        \* disk: there is no such file
    Empty,         \* disk, page: a file without a header
    NoHeader       \* old, saved: NULL

VARIABLES
    open,          \* is NC3_INFO allocated (between open and close)?
    ioflags,       \* nciop->ioflags, a subset of {"WRITE", "SHARE"}
    state,         \* NC3_INFO.state, a set of flags
    mem,           \* NC3_INFO dims, vars, attrs, numrecs
    old,           \* NC3_INFO.old, or NoHeader
    page,          \* the header as the I/O layer would read it back
    disk,          \* the header in the file
    ret,           \* what the last call reported
    saved,         \* history: the header last reported to be on disk
    asserted       \* history: an assert() of the library has failed

vars == <<open, ioflags, state, mem, old, page, disk, ret, saved, asserted>>

----------------------------------------------------------------------------
(* The header *)

Flag == {"CREAT", "INDEF", "NSYNC", "NDIRTY", "HDIRTY", "NOFILL"}

\* NC_string: nchars is the room the header has for the name, which a
\* rename in data mode leaves as it is.
NCString == [cp : Name, nchars : Nat]
Dim      == [name : NCString, unlim : BOOLEAN]
Var      == [name : NCString, rec : BOOLEAN, no_fill : BOOLEAN,
             fv : {"none", "good", "bad"}]
Att      == [name : NCString, val : Value]
Header   == [dims : Seq(Dim), vars : Seq(Var), atts : SUBSET Att, numrecs : Nat]

ASSUME NC3FileAssumption ==
    /\ NameLen \in [Name -> Nat \ {0}]
    /\ Xlen \in [Value -> Nat]
    /\ FillAtts \subseteq {"good", "bad"}
    /\ ShareModes \subseteq BOOLEAN
    /\ IOFails \in BOOLEAN
    /\ MaxRecs \in Nat
    /\ {NoFile, Empty, NoHeader} \cap Header = {}
    /\ NoFile # Empty

new_NC_string(n) == [cp |-> n, nchars |-> NameLen[n]]

set_NC_string(s, n) == [s EXCEPT !.cp = n]

EmptyHeader == [dims |-> <<>>, vars |-> <<>>, atts |-> {}, numrecs |-> 0]

\* Writing the header drops no_fill, which has no place in the file;
\* reading it back leaves every variable with no_fill = 0.
ncx_put_NC(h) ==
    [h EXCEPT !.vars = [i \in DOMAIN h.vars |-> [h.vars[i] EXCEPT !.no_fill = FALSE]]]

\* What is left when the arrays have been freed and the read has failed.
FreedHeader(h) == [EmptyHeader EXCEPT !.numrecs = h.numrecs]

NC_readonly == "WRITE" \notin ioflags
NC_share    == "SHARE" \in ioflags
NC_IsNew    == "CREAT" \in state
NC_indef    == NC_IsNew \/ "INDEF" \in state
NC_hdirty   == "HDIRTY" \in state
NC_ndirty   == "NDIRTY" \in state
NC_dofill   == "NOFILL" \notin state

\* The outcomes of a request to the operating system.
IOStatus == IF IOFails THEN BOOLEAN ELSE {TRUE}

DataMode   == open /\ ~NC_indef
DefineMode == open /\ NC_indef

\* The header h is no larger than bound b, with names and fill values of b only.
Fits(h, b) ==
    /\ Len(h.dims) <= b.dims /\ Len(h.vars) <= b.vars /\ Cardinality(h.atts) <= b.atts
    /\ h.numrecs <= b.recs
    /\ \A i \in DOMAIN h.dims : h.dims[i].name.cp \in b.names
    /\ \A i \in DOMAIN h.vars : h.vars[i].name.cp \in b.names /\ h.vars[i].fv \in b.fvs

\* Bound: the header to be and the one of the page are of one shape.
Bounded(h) == \E b \in Bounds : Fits(h, b) /\ (page \in Header => Fits(page, b))

----------------------------------------------------------------------------
(* write_NC, write_numrecs, NC_sync *)

\* The I/O layer: a page that was written stays in the buffer until it is
\* flushed (px), or goes to the file at once under NC_SHARE (spx).
Written(p) == IF NC_share THEN p ELSE disk

\* Mutant: numrecs alone is written when both flags are set.
NC_syncPageNumrecsFirst ==
    CASE NC_ndirty -> [page EXCEPT !.numrecs = mem.numrecs]
      [] ~NC_ndirty /\ NC_hdirty -> ncx_put_NC(mem)
      [] OTHER -> page

\* The header page after NC_sync: the whole header, or only numrecs.
NC_syncPage ==
    CASE NC_hdirty -> ncx_put_NC(mem)
      [] ~NC_hdirty /\ NC_ndirty -> [page EXCEPT !.numrecs = mem.numrecs]
      [] OTHER -> page

NC_syncState == state \ {"NDIRTY", "HDIRTY"}

\* NC_sync has something to write, and the write fails.
NC_syncCanFail == IOFails /\ (NC_hdirty \/ NC_ndirty)

\* NC_sync reaches write_numrecs, whose assert(!NC_indef(ncp)) does not hold.
NC_syncAsserts == ~NC_hdirty /\ NC_ndirty /\ NC_indef

\* The process is gone; only the file remains.
Released ==
    /\ open' = FALSE
    /\ ioflags' = {}
    /\ state' = {}
    /\ mem' = EmptyHeader
    /\ old' = NoHeader
    /\ page' = Empty

AssertFailure ==
    /\ Released
    /\ asserted' = TRUE
    /\ ret' = "abort"
    /\ UNCHANGED <<disk, saved>>

----------------------------------------------------------------------------
(* Opening, and the two modes *)

\* The minimal header that ncx_put_NC puts into the first page of the buffer is
\* left out: the region is never released as modified, and NC_endef puts the
\* whole header there before anything reads it.
NC3_create(share, clobber) ==
    /\ ~open
    /\ clobber \/ disk = NoFile
    /\ \/ /\ open' = TRUE
          /\ ioflags' = {"WRITE"} \cup (IF share THEN {"SHARE"} ELSE {})
          /\ state' = {"CREAT"} \cup (IF share THEN {"NSYNC"} ELSE {})
          /\ disk' = Empty
          /\ ret' = "NOERR"
       \/ /\ IOFails                      \* unwind_open: unlink what was made
          /\ disk' = IF clobber THEN NoFile ELSE Empty
          /\ ret' = "ERR"
          /\ UNCHANGED <<open, ioflags, state>>
    /\ mem' = EmptyHeader
    /\ page' = Empty
    /\ saved' = NoHeader
    /\ UNCHANGED <<old, asserted>>

NC3_open(write, share) ==
    /\ ~open
    /\ disk \in Header
    /\ open' = TRUE
    /\ ioflags' = (IF write THEN {"WRITE"} ELSE {}) \cup (IF share THEN {"SHARE"} ELSE {})
    /\ state' = IF share THEN {"NSYNC"} ELSE {}
    /\ mem' = disk
    /\ page' = disk
    /\ ret' = "NOERR"
    /\ UNCHANGED <<old, disk, saved, asserted>>

\* read_NC: the arrays are freed first, then the header is read again.
read_NC(ok) ==
    /\ mem' = IF ok THEN page ELSE FreedHeader(mem)
    /\ state' = IF ok THEN state \ {"NDIRTY", "HDIRTY"} ELSE state

NC3_redef ==
    /\ DataMode
    /\ ~NC_readonly
    /\ \/ /\ ~NC_share
          /\ old' = ncx_put_NC(mem)       \* dup_NC_var does not copy no_fill
          /\ state' = state \cup {"INDEF"}
          /\ ret' = "NOERR"
          /\ UNCHANGED mem
       \/ /\ NC_share
          /\ mem' = page
          /\ old' = page
          /\ state' = (state \ {"NDIRTY", "HDIRTY"}) \cup {"INDEF"}
          /\ ret' = "NOERR"
       \/ /\ NC_share /\ IOFails
          /\ read_NC(FALSE)
          /\ ret' = "ERR"
          /\ UNCHANGED old
    /\ UNCHANGED <<open, ioflags, page, disk, saved, asserted>>

----------------------------------------------------------------------------
(* NC_endef *)

\* Variables numbered from `first' on are filled by enddef: fixed-size ones
\* always, record variables once per existing record.  A _FillValue of the
\* wrong type makes fill_NC_var return NC_EBADTYPE.
FillFails(first, nrecs) ==
    \E i \in first .. Len(mem.vars) :
        /\ ~mem.vars[i].no_fill
        /\ mem.vars[i].fv = "bad"
        /\ ~mem.vars[i].rec \/ nrecs > 0

EndefFillFails ==
    IF NC_IsNew THEN FillFails(1, 0) ELSE FillFails(Len(old.vars) + 1, old.numrecs)

\* A failing NC_endef returns in define mode: before write_NC (a size check
\* or a failing move: page as it was), or after it (a failing fill).
EndefFailPages ==
    (IF IOFails THEN {page} ELSE {})
        \cup (IF IOFails \/ EndefFillFails THEN {ncx_put_NC(mem)} ELSE {})

\* Mutant: define mode is left although NC_endef failed.
EndefFailStateLeaves(p) == NC_syncState \ {"INDEF"}

\* write_NC has run when the page is the header in memory.
EndefFailState(p) == IF p = ncx_put_NC(mem) THEN NC_syncState ELSE state

NC3__enddef ==
    /\ DefineMode
    /\ \/ \E ok \in IOStatus :            \* ok: does the final ncio_sync work?
            /\ ~EndefFillFails
            /\ page' = ncx_put_NC(mem)
            /\ disk' = IF ok THEN page' ELSE Written(page')
            /\ state' = NC_syncState \ {"CREAT", "INDEF"}
            /\ old' = NoHeader
            /\ saved' = IF ok THEN page' ELSE saved
            /\ ret' = IF ok THEN "synced" ELSE "ERR"
       \/ \E p \in EndefFailPages :
            /\ page' = p
            /\ disk' = Written(p)
            /\ state' = EndefFailState(p)
            /\ ret' = "ERR"
            /\ UNCHANGED <<old, saved>>
    /\ UNCHANGED <<open, ioflags, mem, asserted>>

----------------------------------------------------------------------------
(* sync, abort, close, and the end of the process *)

NC3_sync ==
    /\ DataMode
    /\ \/ /\ NC_readonly
          /\ \E ok \in IOStatus :
                /\ read_NC(ok)
                /\ ret' = IF ok THEN "NOERR" ELSE "ERR"
          /\ UNCHANGED <<page, disk, saved>>
       \/ /\ ~NC_readonly
          /\ page' = NC_syncPage
          /\ state' = NC_syncState
          /\ \E ok \in IOStatus :         \* the write works, ncio_sync may not
                /\ disk' = IF ok THEN page' ELSE Written(page')
                /\ saved' = IF ok THEN ncx_put_NC(mem) ELSE saved
                /\ ret' = IF ok THEN "synced" ELSE "ERR"
          /\ UNCHANGED mem
       \/ /\ ~NC_readonly /\ NC_syncCanFail
          /\ ret' = "ERR"
          /\ UNCHANGED <<mem, state, page, disk, saved>>
    /\ UNCHANGED <<open, ioflags, old, asserted>>

\* Mutant: the buffer is dropped, not flushed.
ClosedDisksUnflushed(p) == {Written(p)}

\* ncio_close flushes the page; its status is ignored by the callers.
ClosedDisks(p) == {p} \cup (IF IOFails THEN {Written(p)} ELSE {})

\* Mutant: the old header is written back without a look whether there is one.
NC3_abortWritesOld ==
    /\ open
    /\ Released
    /\ disk' = old
    /\ ret' = "NOERR"
    /\ UNCHANGED <<saved, asserted>>

\* Mutant: the file is unlinked in any define mode, not in create only.
NC3_abortUnlinks ==
    /\ open
    /\ Released
    /\ disk' = IF NC_indef THEN NoFile ELSE NC_syncPage
    /\ ret' = "NOERR"
    /\ UNCHANGED <<saved, asserted>>

\* NC_sync runs in abort only when there is no old header.
NC3_abort ==
    /\ open
    /\ \/ /\ Released                     \* a plain redef, not a create
          /\ old # NoHeader
          /\ disk' \in ClosedDisks(page)
          /\ ret' = "NOERR"
       \/ /\ Released
          /\ old = NoHeader
          /\ IF NC_IsNew THEN disk' = NoFile
             ELSE disk' \in ClosedDisks(IF NC_readonly THEN page ELSE NC_syncPage)
          /\ ret' = "NOERR"
       \/ /\ old = NoHeader /\ ~NC_readonly /\ NC_syncCanFail
          /\ ret' = "ERR"
          /\ UNCHANGED <<open, ioflags, state, mem, old, page, disk>>
    /\ UNCHANGED <<saved, asserted>>

\* In data mode.
CloseData ==
    /\ DataMode
    /\ \/ /\ Released
          /\ disk' \in ClosedDisks(IF NC_readonly THEN page ELSE NC_syncPage)
          /\ ret' = "closed"
          /\ UNCHANGED saved
       \/ /\ Released                     \* NC_sync failed: closed all the same
          /\ ~NC_readonly /\ NC_syncCanFail
          /\ disk' \in ClosedDisks(page)
          /\ ret' = "ERR"
          /\ UNCHANGED saved
       \/ /\ ~NC_readonly /\ IOFails      \* ncio_pad_length failed: still open
          /\ page' = NC_syncPage
          /\ disk' \in ClosedDisks(page')
          /\ state' = NC_syncState
          /\ ret' = "ERR"
          /\ UNCHANGED <<open, ioflags, mem, old, saved>>

\* In define mode: NC_endef, and NC3_abort when that fails.
CloseDefine ==
    /\ DefineMode
    /\ \/ /\ Released
          /\ ~EndefFillFails
          /\ disk' = ncx_put_NC(mem)
          /\ saved' = disk'
          /\ ret' = "closed"
       \/ /\ Released                     \* only the final ncio_sync failed
          /\ ~EndefFillFails /\ IOFails
          /\ disk' \in ClosedDisks(ncx_put_NC(mem))
          /\ ret' = "ERR"
          /\ UNCHANGED saved
       \/ /\ Released
          /\ \E p \in EndefFailPages :
                IF NC_IsNew THEN disk' = NoFile ELSE disk' \in ClosedDisks(p)
          /\ ret' = "ERR"
          /\ UNCHANGED saved
       \/ /\ ~EndefFillFails /\ IOFails    \* ncio_pad_length failed: still open
          /\ page' = ncx_put_NC(mem)
          /\ disk' = page'
          /\ state' = NC_syncState \ {"CREAT", "INDEF"}
          /\ old' = NoHeader
          /\ ret' = "ERR"
          /\ UNCHANGED <<open, ioflags, mem, saved>>

NC3_close == (CloseData \/ CloseDefine) /\ UNCHANGED asserted

\* The process dies: what the I/O layer had not written is lost.
Crash ==
    /\ open
    /\ Released
    /\ ret' = "crash"
    /\ UNCHANGED <<disk, saved, asserted>>

\* px_get needs the buffer for another part of the file and pages it out.
px_pgout ==
    /\ open /\ ~NC_share /\ page \in Header
    /\ disk' = page
    /\ UNCHANGED <<open, ioflags, state, mem, old, page, ret, saved, asserted>>

----------------------------------------------------------------------------
(* Definitions *)

\* A change of the header in memory: in define mode it waits for enddef, in
\* data mode the header is marked dirty.
ChangeHeader(h) ==
    /\ Bounded(h)
    /\ mem' = h
    /\ state' = IF NC_indef THEN state ELSE state \cup {"HDIRTY"}
    /\ ret' = "NOERR"
    /\ UNCHANGED <<open, ioflags, old, page, disk, saved, asserted>>

InUse(s, n) == \E i \in DOMAIN s : s[i].name.cp = n

\* In define mode the string is replaced, in data mode it is overwritten,
\* provided that the new name is no longer than the room there is.
Renamable(s, n) == NC_indef \/ NameLen[n] <= s.nchars
Renamed(s, n)   == IF NC_indef THEN new_NC_string(n) ELSE set_NC_string(s, n)

NC3_def_dim(n, unlim) ==
    /\ DefineMode
    /\ unlim => \A i \in DOMAIN mem.dims : ~mem.dims[i].unlim    \* NC_EUNLIMIT
    /\ ~InUse(mem.dims, n)
    /\ ChangeHeader([mem EXCEPT !.dims =
                        Append(@, [name |-> new_NC_string(n), unlim |-> unlim])])

NC3_rename_dim(i, n) ==
    /\ open /\ ~NC_readonly
    /\ ~InUse(mem.dims, n)
    /\ Renamable(mem.dims[i].name, n)
    /\ ChangeHeader([mem EXCEPT !.dims[i].name = Renamed(@, n)])

NC3_def_var(n, rec) ==
    /\ DefineMode
    /\ rec => \E i \in DOMAIN mem.dims : mem.dims[i].unlim
    /\ ~InUse(mem.vars, n)
    /\ ChangeHeader([mem EXCEPT !.vars =
                        Append(@, [name |-> new_NC_string(n), rec |-> rec,
                                   no_fill |-> ~NC_dofill, fv |-> "none"])])

\* Mutant: the new name is looked up in define mode only.
NC3_rename_varUnchecked(i, n) ==
    /\ open /\ ~NC_readonly
    /\ ~NC_indef \/ ~InUse(mem.vars, n)
    /\ Renamable(mem.vars[i].name, n)
    /\ ChangeHeader([mem EXCEPT !.vars[i].name = Renamed(@, n)])

NC3_rename_var(i, n) ==
    /\ open /\ ~NC_readonly
    /\ ~InUse(mem.vars, n)
    /\ Renamable(mem.vars[i].name, n)
    /\ ChangeHeader([mem EXCEPT !.vars[i].name = Renamed(@, n)])

\* With a fill value the _FillValue attribute is replaced by a correct one.
NC3_def_var_fill(i, no_fill, value) ==
    /\ DefineMode
    /\ ChangeHeader([mem EXCEPT
            !.vars[i].no_fill = no_fill,
            !.vars[i].fv = IF value /\ ~no_fill THEN "good" ELSE @])

\* NC3_put_att of a variable's _FillValue, whose type is not checked.
NC3_put_FillValue(i, fv) ==
    /\ open /\ ~NC_readonly
    /\ NC_indef \/ mem.vars[i].fv # "none"
    /\ ChangeHeader([mem EXCEPT !.vars[i].fv = fv])

NC_findattr(n) == {a \in mem.atts : a.name.cp = n}

\* A global attribute; in data mode only over one at least as large.
NC3_put_att(n, v) ==
    /\ open /\ ~NC_readonly
    /\ \/ /\ NC_indef
          /\ ChangeHeader([mem EXCEPT !.atts =
                 (@ \ NC_findattr(n)) \cup {[name |-> new_NC_string(n), val |-> v]}])
       \/ /\ ~NC_indef
          /\ \E a \in NC_findattr(n) :
                /\ Xlen[v] <= Xlen[a.val]
                /\ ChangeHeader([mem EXCEPT !.atts =
                       (@ \ {a}) \cup {[a EXCEPT !.val = v]}])

NC3_rename_att(n, m) ==
    /\ open /\ ~NC_readonly
    /\ NC_findattr(m) = {}
    /\ \E a \in NC_findattr(n) :
          /\ Renamable(a.name, m)
          /\ ChangeHeader([mem EXCEPT !.atts =
                 (@ \ {a}) \cup {[a EXCEPT !.name = Renamed(@, m)]}])

\* The search of NC3_del_att is its own: it compares nchars, not strlen.
DelAttFinds(n) == {a \in mem.atts : a.name.cp = n /\ a.name.nchars = NameLen[n]}

NC3_del_att(n) ==
    /\ DefineMode
    /\ DelAttFinds(n) # {}
    /\ ChangeHeader([mem EXCEPT !.atts = @ \ DelAttFinds(n)])

----------------------------------------------------------------------------
(* Fill mode and records *)

SetNoFill(h, b) ==
    [h EXCEPT !.vars = [i \in DOMAIN h.vars |-> [h.vars[i] EXCEPT !.no_fill = b]]]

\* Going back to fill mode calls NC_sync, in define mode too.
NC3_set_fill(fillmode) ==
    /\ open /\ ~NC_readonly
    /\ \/ /\ fillmode = "NOFILL"
          /\ state' = state \cup {"NOFILL"}
          /\ mem' = SetNoFill(mem, TRUE)
          /\ ret' = "NOERR"
          /\ UNCHANGED <<open, ioflags, old, page, disk, saved, asserted>>
       \/ /\ fillmode = "FILL" /\ NC_dofill
          /\ mem' = SetNoFill(mem, FALSE)
          /\ ret' = "NOERR"
          /\ UNCHANGED <<open, ioflags, state, old, page, disk, saved, asserted>>
       \/ /\ fillmode = "FILL" /\ ~NC_dofill /\ ~NC_syncAsserts
          /\ page' = NC_syncPage
          /\ disk' = Written(page')
          /\ state' = NC_syncState \ {"NOFILL"}
          /\ mem' = SetNoFill(mem, FALSE)
          /\ ret' = "NOERR"
          /\ UNCHANGED <<open, ioflags, old, saved, asserted>>
       \/ /\ fillmode = "FILL" /\ ~NC_dofill /\ NC_syncAsserts
          /\ AssertFailure
       \/ /\ fillmode = "FILL" /\ ~NC_dofill /\ NC_syncCanFail /\ ~NC_syncAsserts
          /\ ret' = "ERR"
          /\ UNCHANGED <<open, ioflags, state, mem, old, page, disk, saved, asserted>>

\* Does the fill of a new record fail, because of some record variable?
RecordFillFails ==
    NC_dofill /\ \E i \in DOMAIN mem.vars : mem.vars[i].rec /\ mem.vars[i].fv = "bad"

\* Mutant: NCvnrecs marks numrecs dirty only when it has filled a record.
NC3_put_varaUnmarked(i, n) ==
    /\ DataMode /\ ~NC_readonly
    /\ mem.vars[i].rec
    /\ n > mem.numrecs /\ Bounded([mem EXCEPT !.numrecs = n])
    /\ mem' = [mem EXCEPT !.numrecs = n]
    /\ state' = IF NC_dofill THEN state \cup {"NDIRTY"} ELSE state
    /\ ret' = "NOERR"
    /\ UNCHANGED <<open, ioflags, old, page, disk, saved, asserted>>

\* NC3_put_vara of record variable i that ends with record n - 1: NCvnrecs.
NC3_put_vara(i, n) ==
    /\ DataMode /\ ~NC_readonly
    /\ mem.vars[i].rec
    /\ n > mem.numrecs /\ Bounded([mem EXCEPT !.numrecs = n])
    /\ \/ /\ ~RecordFillFails
          /\ mem' = [mem EXCEPT !.numrecs = n]
          /\ IF "NSYNC" \in state         \* write_numrecs
             THEN /\ page' = [page EXCEPT !.numrecs = n]
                  /\ disk' = Written(page')
                  /\ state' = state \ {"NDIRTY"}
             ELSE /\ state' = state \cup {"NDIRTY"}
                  /\ UNCHANGED <<page, disk>>
          /\ ret' = "NOERR"
       \/ /\ RecordFillFails              \* NC_EBADTYPE from the first record
          /\ state' = state \cup {"NDIRTY"}
          /\ ret' = "ERR"
          /\ UNCHANGED <<mem, page, disk>>
       \/ /\ IOFails                      \* some record could not be filled,
          /\ state' = state \cup {"NDIRTY"}     \* or numrecs not be written
          /\ \E k \in (IF NC_dofill THEN mem.numrecs ELSE n) .. n :
                mem' = [mem EXCEPT !.numrecs = k]
          /\ ret' = "ERR"
          /\ UNCHANGED <<page, disk>>
    /\ UNCHANGED <<open, ioflags, old, saved, asserted>>

----------------------------------------------------------------------------
Init ==
    /\ open = FALSE
    /\ ioflags = {}
    /\ state = {}
    /\ mem = EmptyHeader
    /\ old = NoHeader
    /\ page = Empty
    /\ disk = NoFile
    /\ ret = "NOERR"
    /\ saved = NoHeader
    /\ asserted = FALSE

Definitions ==
    \E n \in Name :
        \/ \E b \in BOOLEAN : NC3_def_dim(n, b) \/ NC3_def_var(n, b)
        \/ \E i \in DOMAIN mem.dims : NC3_rename_dim(i, n)
        \/ \E i \in DOMAIN mem.vars : NC3_rename_var(i, n)
        \/ \E v \in Value : NC3_put_att(n, v)
        \/ \E m \in Name : NC3_rename_att(n, m)
        \/ NC3_del_att(n)

Filling ==
    \/ \E m \in {"FILL", "NOFILL"} : NC3_set_fill(m)
    \/ \E i \in DOMAIN mem.vars :
          \/ \E nf, value \in BOOLEAN : NC3_def_var_fill(i, nf, value)
          \/ \E fv \in FillAtts : NC3_put_FillValue(i, fv)
          \/ \E n \in 1 .. MaxRecs : NC3_put_vara(i, n)

Lifecycle ==
    \/ \E share \in ShareModes, b \in BOOLEAN : NC3_create(share, b) \/ NC3_open(b, share)
    \/ NC3_redef
    \/ NC3__enddef
    \/ NC3_sync
    \/ NC3_abort
    \/ NC3_close
    \/ px_pgout
    \/ Crash

Next == Lifecycle \/ Definitions \/ Filling

Spec == Init /\ [][Next]_vars

----------------------------------------------------------------------------
(* What is checked *)

\* Type invariant of the variables that model NC3_INFO, the page and the file.
TypeOK ==
    /\ open \in BOOLEAN
    /\ ioflags \in SUBSET {"WRITE", "SHARE"}
    /\ state \in SUBSET Flag
    /\ mem \in Header
    /\ old \in Header \cup {NoHeader}
    /\ page \in Header \cup {Empty}
    /\ disk \in Header \cup {Empty, NoFile}
    /\ ret \in {"NOERR", "ERR", "synced", "closed", "crash", "abort"}
    /\ saved \in Header \cup {NoHeader}
    /\ asserted \in BOOLEAN

\* The dirty flags of a writable dataset in data mode tell the truth: while
\* NC_HDIRTY is clear the header in memory is the one a flush would store,
\* and while NC_NDIRTY is clear so is its number of records.  NC_sync relies
\* on it to write nothing, or numrecs alone.
DirtyFlags ==
    DataMode /\ ~NC_readonly =>
        /\ page \in Header
        /\ ~NC_hdirty => ncx_put_NC(mem) = [page EXCEPT !.numrecs = mem.numrecs]
        /\ ~NC_ndirty => page.numrecs = mem.numrecs

\* The header g has at least the dimensions, variables and records of h
\* (none of them can ever be deleted).
AtLeast(g, h) ==
    /\ Len(g.dims) >= Len(h.dims)
    /\ Len(g.vars) >= Len(h.vars)
    /\ g.numrecs >= h.numrecs

\* What a successful nc_sync or nc_enddef has put on disk is never
\* taken away again: not by a crash, by nc_abort, by a failing nc_enddef
\* or by a failing nc_close, in whatever order they come.
Durable == saved # NoHeader => disk \in Header /\ AtLeast(disk, saved)

\* After an nc_sync or nc_enddef that reported success the file holds the
\* header in memory, numrecs included.
SyncOnDisk == ret = "synced" => disk = ncx_put_NC(mem)

\* After an nc_close that returned NC_NOERR the file holds the header as it
\* was in memory.
CloseOnDisk ==
    [][(NC3_close /\ ret' = "closed" /\ ~NC_readonly) => disk' = ncx_put_NC(mem)]_vars

\* The header to fall back on exists exactly between a successful nc_redef
\* and the end of that define mode: the assertions of NC_endef and NC3_abort
\* on `old', NC_CREAT and NC_INDEF.
OldWhileRedef ==
    /\ old # NoHeader <=> "INDEF" \in state
    /\ ~({"CREAT", "INDEF"} \subseteq state)

\* No two dimensions, variables or attributes have one name, whatever renames
\* in define and in data mode, syncs and re-reads went before.
NamesUnique ==
    /\ \A i, j \in DOMAIN mem.dims : mem.dims[i].name.cp = mem.dims[j].name.cp => i = j
    /\ \A i, j \in DOMAIN mem.vars : mem.vars[i].name.cp = mem.vars[j].name.cp => i = j
    /\ \A a, b \in mem.atts : a.name.cp = b.name.cp => a = b

\* nc_abort of a dataset in define mode entered by nc_redef leaves the file
\* with the header the dataset had when nc_redef was called.
AbortRestores == [][(NC3_abort /\ open /\ old # NoHeader) => disk' = old]_vars

\* No assert() of NC_sync and its callees fails.
AssertionsHold == ~asserted

\* In define mode NC3_del_att finds every attribute that NC_findattr finds.
DelAttFindsAll == DefineMode => \A a \in mem.atts : a \in DelAttFinds(a.name.cp)

=============================================================================
