--------------------------- MODULE NC3FileProofs ---------------------------
(***************************************************************************)
(* Proofs about NC3File for every set of names and values, every bound and *)
(* both I/O layers.                                                        *)
(***************************************************************************)
EXTENDS NC3File, TLAPS

----------------------------------------------------------------------------
(* The operators on headers *)

\* The fill mode of a variable is the only field that SetNoFill changes.
LEMMA VarFill ==
    ASSUME NEW v \in Var, NEW b \in BOOLEAN
    PROVE  /\ [v EXCEPT !.no_fill = b] \in Var
           /\ [[v EXCEPT !.no_fill = b] EXCEPT !.no_fill = FALSE]
                = [v EXCEPT !.no_fill = FALSE]
  BY DEF Var

\* Writing the header keeps its type, its dimensions, the number of its
\* variables and its number of records.
LEMMA PutHeader ==
    ASSUME NEW h \in Header
    PROVE  /\ ncx_put_NC(h) \in Header
           /\ ncx_put_NC(h).dims = h.dims
           /\ Len(ncx_put_NC(h).vars) = Len(h.vars)
           /\ ncx_put_NC(h).numrecs = h.numrecs
<1> DEFINE vs == [i \in DOMAIN h.vars |-> [h.vars[i] EXCEPT !.no_fill = FALSE]]
<1>1. h.vars \in Seq(Var)
  BY DEF Header
<1>2. DOMAIN h.vars = 1 .. Len(h.vars) /\ Len(h.vars) \in Nat
  BY <1>1
<1>3. \A i \in DOMAIN h.vars : [h.vars[i] EXCEPT !.no_fill = FALSE] \in Var
  <2> TAKE i \in DOMAIN h.vars
  <2>1. h.vars[i] \in Var
    BY <1>1, <1>2
  <2> QED
    BY <2>1, VarFill
<1>4. vs \in Seq(Var) /\ Len(vs) = Len(h.vars)
  BY <1>2, <1>3
<1>5. ncx_put_NC(h) = [h EXCEPT !.vars = vs]
  BY DEF ncx_put_NC
<1> QED
  BY <1>4, <1>5 DEF Header

\* nc_set_fill changes no_fill of every variable and nothing else.
LEMMA FillHeader ==
    ASSUME NEW h \in Header, NEW b \in BOOLEAN
    PROVE  /\ SetNoFill(h, b) \in Header
           /\ SetNoFill(h, b).dims = h.dims
           /\ Len(SetNoFill(h, b).vars) = Len(h.vars)
           /\ SetNoFill(h, b).numrecs = h.numrecs
           /\ ncx_put_NC(SetNoFill(h, b)) = ncx_put_NC(h)
<1> DEFINE vs == [i \in DOMAIN h.vars |-> [h.vars[i] EXCEPT !.no_fill = b]]
<1>1. h.vars \in Seq(Var)
  BY DEF Header
<1>2. DOMAIN h.vars = 1 .. Len(h.vars) /\ Len(h.vars) \in Nat
  BY <1>1
<1>3. \A i \in DOMAIN h.vars : [h.vars[i] EXCEPT !.no_fill = b] \in Var
  <2> TAKE i \in DOMAIN h.vars
  <2>1. h.vars[i] \in Var
    BY <1>1, <1>2
  <2> QED
    BY <2>1, VarFill
<1>4. vs \in Seq(Var) /\ Len(vs) = Len(h.vars)
  BY <1>2, <1>3
<1>5. SetNoFill(h, b) = [h EXCEPT !.vars = vs]
  BY DEF SetNoFill
<1>6. [h EXCEPT !.vars = vs].vars = vs
  BY DEF Header
<1>7. \A i \in DOMAIN h.vars :
        [vs[i] EXCEPT !.no_fill = FALSE] = [h.vars[i] EXCEPT !.no_fill = FALSE]
  <2> TAKE i \in DOMAIN h.vars
  <2>1. h.vars[i] \in Var
    BY <1>1, <1>2
  <2> QED
    BY <2>1, VarFill
<1>8. [i \in DOMAIN vs |-> [vs[i] EXCEPT !.no_fill = FALSE]]
        = [i \in DOMAIN h.vars |-> [h.vars[i] EXCEPT !.no_fill = FALSE]]
  BY <1>7
<1>9. ncx_put_NC(SetNoFill(h, b)) = ncx_put_NC(h)
  BY <1>5, <1>6, <1>8 DEF ncx_put_NC, Header
<1> QED
  BY <1>4, <1>5, <1>9 DEF Header

\* What has been written once is written again without a change.
LEMMA PutAgain ==
    ASSUME NEW h \in Header
    PROVE  /\ ncx_put_NC(ncx_put_NC(h)) = ncx_put_NC(h)
           /\ \A k \in Nat :
                /\ [h EXCEPT !.numrecs = k] \in Header
                /\ ncx_put_NC([h EXCEPT !.numrecs = k]) = [ncx_put_NC(h) EXCEPT !.numrecs = k]
<1>1. ncx_put_NC(h) = SetNoFill(h, FALSE)
  BY DEF ncx_put_NC, SetNoFill
<1>2. ncx_put_NC(ncx_put_NC(h)) = ncx_put_NC(h)
  BY <1>1, FillHeader
<1>3. ASSUME NEW k \in Nat
      PROVE  /\ [h EXCEPT !.numrecs = k] \in Header
             /\ ncx_put_NC([h EXCEPT !.numrecs = k]) = [ncx_put_NC(h) EXCEPT !.numrecs = k]
  <2>1. [h EXCEPT !.numrecs = k].vars = h.vars
    BY DEF Header
  <2> QED
    BY <2>1 DEF ncx_put_NC, Header
<1> QED
  BY <1>2, <1>3

\* The header of a new dataset is a header.
LEMMA EmptyIsHeader == EmptyHeader \in Header
  BY DEF EmptyHeader, Header

\* So is what is left of one whose lists have been freed.
LEMMA FreedIsHeader ==
    ASSUME NEW h \in Header
    PROVE  FreedHeader(h) \in Header
<1>1. h.numrecs \in Nat
  BY DEF Header
<1> QED
  BY <1>1, EmptyIsHeader DEF FreedHeader, Header

\* A new string, and a string renamed in either mode, is a string.
LEMMA Strings ==
    ASSUME NEW n \in Name
    PROVE  /\ new_NC_string(n) \in NCString
           /\ \A s \in NCString : Renamed(s, n) \in NCString
  BY NC3FileAssumption DEF new_NC_string, set_NC_string, Renamed, NCString

----------------------------------------------------------------------------
(* What the definition calls have in common *)

\* A header made from the one in memory: nothing is lost, numrecs stays.
Extension(h) ==
    /\ h \in Header
    /\ AtLeast(h, mem)
    /\ h.numrecs = mem.numrecs

Changing ==
    \/ Definitions
    \/ \E i \in DOMAIN mem.vars :
          \/ \E nf, value \in BOOLEAN : NC3_def_var_fill(i, nf, value)
          \/ \E fv \in FillAtts : NC3_put_FillValue(i, fv)

\* The lists of the header in memory.
LEMMA HeaderFields ==
    ASSUME TypeOK
    PROVE  /\ mem.dims \in Seq(Dim) /\ mem.vars \in Seq(Var)
           /\ mem.atts \in SUBSET Att /\ mem.numrecs \in Nat
           /\ Len(mem.dims) \in Nat /\ Len(mem.vars) \in Nat
           /\ DOMAIN mem.dims = 1 .. Len(mem.dims)
           /\ DOMAIN mem.vars = 1 .. Len(mem.vars)
  BY DEF TypeOK, Header

\* A longer list of dimensions extends the header.
LEMMA NewDims ==
    ASSUME TypeOK, NEW ds \in Seq(Dim), Len(ds) >= Len(mem.dims)
    PROVE  Extension([mem EXCEPT !.dims = ds])
<1> DEFINE h == [mem EXCEPT !.dims = ds]
<1>1. h \in Header
  BY DEF TypeOK, Header
<1>2. h.dims = ds /\ h.vars = mem.vars /\ h.numrecs = mem.numrecs
  BY DEF TypeOK, Header
<1>3. AtLeast(h, mem)
  BY <1>2, HeaderFields DEF AtLeast
<1> QED
  BY <1>1, <1>2, <1>3 DEF Extension

\* A longer list of variables extends the header.
LEMMA NewVars ==
    ASSUME TypeOK, NEW vs \in Seq(Var), Len(vs) >= Len(mem.vars)
    PROVE  Extension([mem EXCEPT !.vars = vs])
<1> DEFINE h == [mem EXCEPT !.vars = vs]
<1>1. h \in Header
  BY DEF TypeOK, Header
<1>2. h.vars = vs /\ h.dims = mem.dims /\ h.numrecs = mem.numrecs
  BY DEF TypeOK, Header
<1>3. AtLeast(h, mem)
  BY <1>2, HeaderFields DEF AtLeast
<1> QED
  BY <1>1, <1>2, <1>3 DEF Extension

\* Any set of attributes extends the header.
LEMMA NewAtts ==
    ASSUME TypeOK, NEW as \in SUBSET Att
    PROVE  Extension([mem EXCEPT !.atts = as])
<1> DEFINE h == [mem EXCEPT !.atts = as]
<1>1. h \in Header
  BY DEF TypeOK, Header
<1>2. h.atts = as /\ h.dims = mem.dims /\ h.vars = mem.vars /\ h.numrecs = mem.numrecs
  BY DEF TypeOK, Header
<1>3. AtLeast(h, mem)
  BY <1>2, HeaderFields DEF AtLeast
<1> QED
  BY <1>1, <1>2, <1>3 DEF Extension

\* NC3_def_dim extends the header: it appends a dimension.
LEMMA DefDim ==
    ASSUME TypeOK, NEW n \in Name, NEW b \in BOOLEAN, NC3_def_dim(n, b)
    PROVE  \E h : Extension(h) /\ ChangeHeader(h)
<1> DEFINE d  == [name |-> new_NC_string(n), unlim |-> b]
           ds == Append(mem.dims, d)
<1>1. d \in Dim
  BY Strings DEF Dim
<1>2. ds \in Seq(Dim) /\ Len(ds) >= Len(mem.dims)
  BY <1>1, HeaderFields
<1>3. ChangeHeader([mem EXCEPT !.dims = ds])
  BY DEF NC3_def_dim
<1> QED
  BY <1>2, <1>3, NewDims

\* NC3_def_var extends the header: it appends a variable.
LEMMA DefVar ==
    ASSUME TypeOK, NEW n \in Name, NEW b \in BOOLEAN, NC3_def_var(n, b)
    PROVE  \E h : Extension(h) /\ ChangeHeader(h)
<1> DEFINE v  == [name |-> new_NC_string(n), rec |-> b,
                  no_fill |-> ~NC_dofill, fv |-> "none"]
           vs == Append(mem.vars, v)
<1>1. v \in Var
  BY Strings DEF Var, NC_dofill
<1>2. vs \in Seq(Var) /\ Len(vs) >= Len(mem.vars)
  BY <1>1, HeaderFields
<1>3. ChangeHeader([mem EXCEPT !.vars = vs])
  BY DEF NC3_def_var
<1> QED
  BY <1>2, <1>3, NewVars

\* NC3_rename_dim keeps the number of dimensions.
LEMMA RenameDim ==
    ASSUME TypeOK, NEW n \in Name, NEW i \in DOMAIN mem.dims, NC3_rename_dim(i, n)
    PROVE  \E h : Extension(h) /\ ChangeHeader(h)
<1> DEFINE d  == [mem.dims[i] EXCEPT !.name = Renamed(@, n)]
           ds == [mem.dims EXCEPT ![i] = d]
<1>1. mem.dims[i] \in Dim /\ mem.dims[i].name \in NCString
  <2>1. mem.dims[i] \in Dim
    BY HeaderFields
  <2> QED
    BY <2>1 DEF Dim
<1>2. d \in Dim
  BY <1>1, Strings DEF Dim
<1>3. ds \in Seq(Dim) /\ Len(ds) >= Len(mem.dims)
  BY <1>2, HeaderFields
<1>4. ChangeHeader([mem EXCEPT !.dims = ds])
  BY DEF NC3_rename_dim
<1> QED
  BY <1>3, <1>4, NewDims

\* Replacing one variable by another one extends the header.
LEMMA ChangeVar ==
    ASSUME TypeOK, NEW i \in DOMAIN mem.vars, NEW v \in Var
    PROVE  Extension([mem EXCEPT !.vars = [mem.vars EXCEPT ![i] = v]])
<1>1. [mem.vars EXCEPT ![i] = v] \in Seq(Var)
        /\ Len([mem.vars EXCEPT ![i] = v]) >= Len(mem.vars)
  BY HeaderFields
<1> QED
  BY <1>1, NewVars

\* NC3_rename_var keeps the number of variables.
LEMMA RenameVar ==
    ASSUME TypeOK, NEW n \in Name, NEW i \in DOMAIN mem.vars, NC3_rename_var(i, n)
    PROVE  \E h : Extension(h) /\ ChangeHeader(h)
<1> DEFINE v == [mem.vars[i] EXCEPT !.name = Renamed(@, n)]
<1>1. mem.vars[i] \in Var /\ mem.vars[i].name \in NCString
  <2>1. mem.vars[i] \in Var
    BY HeaderFields
  <2> QED
    BY <2>1 DEF Var
<1>2. v \in Var
  BY <1>1, Strings DEF Var
<1>3. ChangeHeader([mem EXCEPT !.vars = [mem.vars EXCEPT ![i] = v]])
  BY DEF NC3_rename_var
<1> QED
  BY <1>2, <1>3, ChangeVar

\* NC3_def_var_fill changes one variable.
LEMMA DefVarFill ==
    ASSUME TypeOK, NEW i \in DOMAIN mem.vars, NEW nf \in BOOLEAN, NEW value \in BOOLEAN,
           NC3_def_var_fill(i, nf, value)
    PROVE  \E h : Extension(h) /\ ChangeHeader(h)
<1> DEFINE v == [mem.vars[i] EXCEPT
                    !.no_fill = nf, !.fv = IF value /\ ~nf THEN "good" ELSE @]
<1>1. mem.vars[i] \in Var
  BY HeaderFields
<1>2. v \in Var
  BY <1>1 DEF Var
<1>3. ChangeHeader([mem EXCEPT !.vars = [mem.vars EXCEPT ![i] = v]])
  BY <1>1, HeaderFields DEF NC3_def_var_fill, Var, TypeOK, Header
<1> QED
  BY <1>2, <1>3, ChangeVar

\* The _FillValue of a variable changes that variable only.
LEMMA PutFillValue ==
    ASSUME TypeOK, NEW i \in DOMAIN mem.vars, NEW fv \in FillAtts, NC3_put_FillValue(i, fv)
    PROVE  \E h : Extension(h) /\ ChangeHeader(h)
<1> DEFINE v == [mem.vars[i] EXCEPT !.fv = fv]
<1>1. mem.vars[i] \in Var
  BY HeaderFields
<1>2. v \in Var
  BY <1>1, NC3FileAssumption DEF Var
<1>3. ChangeHeader([mem EXCEPT !.vars = [mem.vars EXCEPT ![i] = v]])
  BY DEF NC3_put_FillValue
<1> QED
  BY <1>2, <1>3, ChangeVar

\* NC3_put_att replaces or adds an attribute.
LEMMA PutAtt ==
    ASSUME TypeOK, NEW n \in Name, NEW v \in Value, NC3_put_att(n, v)
    PROVE  \E h : Extension(h) /\ ChangeHeader(h)
<1>1. CASE NC_indef
  <2> DEFINE as == (mem.atts \ NC_findattr(n)) \cup {[name |-> new_NC_string(n), val |-> v]}
  <2>1. as \in SUBSET Att
    BY Strings, HeaderFields DEF Att
  <2>2. ChangeHeader([mem EXCEPT !.atts = as])
    BY <1>1 DEF NC3_put_att
  <2> QED
    BY <2>1, <2>2, NewAtts
<1>2. CASE ~NC_indef
  <2>1. PICK a \in NC_findattr(n) :
          ChangeHeader([mem EXCEPT !.atts = (@ \ {a}) \cup {[a EXCEPT !.val = v]}])
    BY <1>2 DEF NC3_put_att
  <2>2. a \in Att
    BY HeaderFields DEF NC_findattr
  <2>3. (mem.atts \ {a}) \cup {[a EXCEPT !.val = v]} \in SUBSET Att
    BY <2>2, HeaderFields DEF Att
  <2> QED
    BY <2>1, <2>3, NewAtts
<1> QED
  BY <1>1, <1>2

\* NC3_rename_att replaces an attribute.
LEMMA RenameAtt ==
    ASSUME TypeOK, NEW n \in Name, NEW m \in Name, NC3_rename_att(n, m)
    PROVE  \E h : Extension(h) /\ ChangeHeader(h)
<1>1. PICK a \in NC_findattr(n) :
        ChangeHeader([mem EXCEPT !.atts =
                         (@ \ {a}) \cup {[a EXCEPT !.name = Renamed(@, m)]}])
  BY DEF NC3_rename_att
<1>2. a \in Att /\ a.name \in NCString
  BY HeaderFields DEF NC_findattr, Att
<1>3. [a EXCEPT !.name = Renamed(@, m)] \in Att
  BY <1>2, Strings DEF Att
<1>4. (mem.atts \ {a}) \cup {[a EXCEPT !.name = Renamed(@, m)]} \in SUBSET Att
  BY <1>3, HeaderFields
<1> QED
  BY <1>1, <1>4, NewAtts

\* NC3_del_att removes attributes.
LEMMA DelAtt ==
    ASSUME TypeOK, NEW n \in Name, NC3_del_att(n)
    PROVE  \E h : Extension(h) /\ ChangeHeader(h)
<1>1. mem.atts \ DelAttFinds(n) \in SUBSET Att
  BY HeaderFields
<1>2. ChangeHeader([mem EXCEPT !.atts = mem.atts \ DelAttFinds(n)])
  BY DEF NC3_del_att
<1> QED
  BY <1>1, <1>2, NewAtts

\* Every definition call, in define or in data mode, puts an extension of
\* the header in memory and does nothing else.
LEMMA ChangingExtends ==
    ASSUME TypeOK, Changing
    PROVE  \E h : Extension(h) /\ ChangeHeader(h)
<1>1. ASSUME Definitions
      PROVE  \E h : Extension(h) /\ ChangeHeader(h)
  BY <1>1, DefDim, DefVar, RenameDim, RenameVar, PutAtt, RenameAtt, DelAtt DEF Definitions
<1> QED
  BY <1>1, DefVarFill, PutFillValue DEF Changing

----------------------------------------------------------------------------
(* The inductive invariant *)

\* A dataset is without a header page only while it is being created, and
\* then it has no records to write.
PageInv ==
    open /\ page = Empty => "CREAT" \in state /\ "NDIRTY" \notin state

----------------------------------------------------------------------------
(* Type correctness *)

\* The page NC_sync leaves is a header whenever there was one, or the whole
\* header is written.
LEMMA SyncPageType ==
    ASSUME TypeOK
    PROVE  /\ page \in Header => NC_syncPage \in Header
           /\ NC_syncPage \in Header \cup {Empty} \/ (page = Empty /\ ~NC_hdirty /\ NC_ndirty)
<1>1. ncx_put_NC(mem) \in Header
  BY PutHeader DEF TypeOK
<1>2. page \in Header => [page EXCEPT !.numrecs = mem.numrecs] \in Header
  BY HeaderFields DEF Header
<1> QED
  BY <1>1, <1>2 DEF NC_syncPage, TypeOK

TypeInv == TypeOK /\ PageInv

\* The state after the dataset has been freed has its types.
LEMMA ReleasedType ==
    ASSUME TypeInv, Released, disk' \in Header \cup {Empty, NoFile},
           ret' \in {"NOERR", "ERR", "synced", "closed", "crash", "abort"},
           saved' \in Header \cup {NoHeader}, asserted' \in BOOLEAN
    PROVE  TypeInv'
  BY EmptyIsHeader DEF TypeInv, TypeOK, PageInv, Released

\* The pages and the files the calls leave behind are headers.
LEMMA PageTypes ==
    ASSUME TypeInv, open
    PROVE  /\ ncx_put_NC(mem) \in Header
           /\ EndefFailPages \subseteq Header \cup {Empty}
           /\ NC_syncPage \in Header \cup {Empty}
           /\ ~NC_IsNew => page \in Header /\ NC_syncPage \in Header
           /\ \A p \in Header \cup {Empty} : ClosedDisks(p) \subseteq Header \cup {Empty, NoFile}
<1>1. ncx_put_NC(mem) \in Header
  BY PutHeader DEF TypeInv, TypeOK
<1>2. NC_syncPage \in Header \cup {Empty}
  BY SyncPageType DEF TypeInv, PageInv, NC_ndirty
<1>3. ~NC_IsNew => page \in Header /\ NC_syncPage \in Header
  BY SyncPageType DEF TypeInv, TypeOK, PageInv, NC_IsNew
<1> QED
  BY <1>1, <1>2, <1>3 DEF TypeInv, TypeOK, EndefFailPages, ClosedDisks, Written

\* Creating, opening, redef, enddef, sync, abort and close keep the types.
LEMMA TypeLifecycle ==
    ASSUME TypeInv, Lifecycle
    PROVE  TypeInv'
<1> USE DEF TypeInv
<1>1. ASSUME NEW share \in ShareModes, NEW b \in BOOLEAN, NC3_create(share, b)
      PROVE  TypeInv'
  <2>1. /\ mem' \in Header /\ page' = Empty /\ saved' = NoHeader
        /\ old' = old /\ asserted' = asserted
        /\ disk' \in {Empty, NoFile} /\ ret' \in {"NOERR", "ERR"}
    BY <1>1, EmptyIsHeader DEF NC3_create
  <2>2. \/ open' = TRUE /\ ioflags' \in SUBSET {"WRITE", "SHARE"}
           /\ state' \in SUBSET {"CREAT", "NSYNC"} /\ "CREAT" \in state'
        \/ open' = FALSE /\ ioflags' = ioflags /\ state' = state
    BY <1>1 DEF NC3_create, TypeOK
  <2> QED
    BY <2>1, <2>2 DEF TypeOK, PageInv, Flag
<1>2. ASSUME NEW share \in ShareModes, NEW b \in BOOLEAN, NC3_open(b, share)
      PROVE  TypeInv'
  BY <1>2, NC3FileAssumption DEF NC3_open, TypeOK, PageInv, Flag
<1>3. CASE NC3_redef
  <2>1. page \in Header /\ ncx_put_NC(mem) \in Header
    BY <1>3, PageTypes DEF NC3_redef, DataMode, NC_indef
  <2>2. FreedHeader(mem) \in Header
    BY FreedIsHeader DEF TypeOK
  <2> QED
    BY <1>3, <2>1, <2>2, NC3FileAssumption
       DEF NC3_redef, DataMode, NC_indef, NC_IsNew, TypeOK, PageInv, Flag, read_NC
<1>4. CASE NC3__enddef
  <2>1. ncx_put_NC(mem) \in Header /\ EndefFailPages \subseteq Header \cup {Empty}
    BY <1>4, PageTypes DEF NC3__enddef, DefineMode
  <2>2. \A p : Written(p) \in {p, disk}
    BY DEF Written
  <2>3. ASSUME NEW p \in EndefFailPages, page' = p, disk' = Written(p),
               state' = EndefFailState(p), ret' = "ERR",
               UNCHANGED <<old, saved, open, ioflags, mem, asserted>>
        PROVE  TypeInv'
    <3>1. state' \subseteq state /\ ("CREAT" \in state => "CREAT" \in state')
      BY <2>3 DEF EndefFailState, NC_syncState
    <3>2. p \in {page, ncx_put_NC(mem)}
      BY DEF EndefFailPages
    <3> QED
      BY <2>1, <2>2, <2>3, <3>1, <3>2, NC3FileAssumption DEF TypeOK, PageInv, Flag
  <2>4. ASSUME NEW ok \in IOStatus,
               page' = ncx_put_NC(mem),
               disk' = IF ok THEN page' ELSE Written(page'),
               state' = NC_syncState \ {"CREAT", "INDEF"},
               old' = NoHeader,
               saved' = IF ok THEN page' ELSE saved,
               ret' = IF ok THEN "synced" ELSE "ERR",
               UNCHANGED <<open, ioflags, mem, asserted>>
        PROVE  TypeInv'
    BY <2>1, <2>2, <2>4, NC3FileAssumption DEF TypeOK, PageInv, NC_syncState, Flag
  <2> QED
    BY <1>4, <2>3, <2>4 DEF NC3__enddef
<1>5. CASE NC3_sync
  <2>1. page \in Header /\ NC_syncPage \in Header /\ ncx_put_NC(mem) \in Header
    BY <1>5, PageTypes DEF NC3_sync, DataMode, NC_indef
  <2>2. \A p : Written(p) \in {p, disk}
    BY DEF Written
  <2>3. FreedHeader(mem) \in Header
    BY FreedIsHeader DEF TypeOK
  <2>4. state' \subseteq state
    BY <1>5 DEF NC3_sync, read_NC, NC_syncState
  <2> QED
    BY <1>5, <2>1, <2>2, <2>3, <2>4, NC3FileAssumption
       DEF NC3_sync, read_NC, TypeOK, PageInv, DataMode
<1>6. CASE NC3_abort
  BY <1>6, PageTypes, ReleasedType DEF NC3_abort, TypeOK, PageInv
<1>7. CASE NC3_close
  <2>1. CASE CloseData
    <3>1. page \in Header /\ NC_syncPage \in Header
      BY <2>1, PageTypes DEF CloseData, DataMode, NC_indef
    <3>2. \A p \in Header : ClosedDisks(p) \subseteq Header \cup {Empty, NoFile}
      BY <2>1, PageTypes DEF CloseData, DataMode
    <3>3. CASE Released
      BY <1>7, <2>1, <3>1, <3>2, <3>3, ReleasedType DEF NC3_close, CloseData, TypeOK
    <3>4. CASE ~Released
      BY <1>7, <2>1, <3>1, <3>2, <3>4, NC3FileAssumption
         DEF NC3_close, CloseData, TypeOK, PageInv, NC_syncState
    <3> QED
      BY <3>3, <3>4
  <2>2. CASE CloseDefine
    <3>1. ncx_put_NC(mem) \in Header /\ EndefFailPages \subseteq Header \cup {Empty}
      BY <2>2, PageTypes DEF CloseDefine, DefineMode
    <3>2. \A p \in Header \cup {Empty} : ClosedDisks(p) \subseteq Header \cup {Empty, NoFile}
      BY <2>2, PageTypes DEF CloseDefine, DefineMode
    <3>3. CASE Released
      BY <1>7, <2>2, <3>1, <3>2, <3>3, ReleasedType DEF NC3_close, CloseDefine, TypeOK
    <3>4. CASE ~Released
      BY <1>7, <2>2, <3>1, <3>4, NC3FileAssumption
         DEF NC3_close, CloseDefine, TypeOK, PageInv, NC_syncState
    <3> QED
      BY <3>3, <3>4
  <2> QED
    BY <1>7, <2>1, <2>2 DEF NC3_close
<1>8. CASE px_pgout
  BY <1>8 DEF px_pgout, TypeOK, PageInv
<1>9. CASE Crash
  BY <1>9, ReleasedType DEF Crash, TypeOK
<1> QED
  BY <1>1, <1>2, <1>3, <1>4, <1>5, <1>6, <1>7, <1>8, <1>9 DEF Lifecycle

\* The calls that change the header keep the types.
LEMMA TypeChanging ==
    ASSUME TypeInv, Changing
    PROVE  TypeInv'
<1>1. PICK h : Extension(h) /\ ChangeHeader(h)
  BY ChangingExtends DEF TypeInv
<1> QED
  BY <1>1 DEF TypeInv, TypeOK, PageInv, Extension, ChangeHeader, Flag

\* NC3_set_fill keeps the types.
LEMMA TypeSetFill ==
    ASSUME TypeInv, NEW m \in {"FILL", "NOFILL"}, NC3_set_fill(m)
    PROVE  TypeInv'
<1>1. open /\ SetNoFill(mem, TRUE) \in Header /\ SetNoFill(mem, FALSE) \in Header
  BY FillHeader DEF NC3_set_fill, TypeInv, TypeOK
<1>2. NC_syncPage \in Header \cup {Empty} /\ (page # Empty => NC_syncPage \in Header)
  BY <1>1, PageTypes, SyncPageType DEF TypeInv, TypeOK
<1>3. Written(NC_syncPage) \in {NC_syncPage, disk}
  BY DEF Written
<1>4. CASE AssertFailure
  BY <1>4, ReleasedType DEF AssertFailure, TypeInv, TypeOK
<1>5. CASE ~AssertFailure
  <2>1. state' \in SUBSET Flag /\ ("CREAT" \in state => "CREAT" \in state')
          /\ ("NDIRTY" \in state' => "NDIRTY" \in state)
    BY <1>5 DEF NC3_set_fill, NC_syncState, TypeInv, TypeOK, Flag
  <2> QED
    BY <1>1, <1>2, <1>3, <1>5, <2>1, NC3FileAssumption
       DEF NC3_set_fill, TypeInv, TypeOK, PageInv
<1> QED
  BY <1>4, <1>5

\* Writing data, which may add records, keeps the types.
LEMMA TypePutVara ==
    ASSUME TypeInv, NEW i \in DOMAIN mem.vars, NEW n \in 1 .. MaxRecs, NC3_put_vara(i, n)
    PROVE  TypeInv'
<1>1. n \in Nat /\ page \in Header /\ mem \in Header /\ mem.numrecs \in Nat
  BY PageTypes, HeaderFields, NC3FileAssumption
     DEF NC3_put_vara, DataMode, NC_indef, TypeInv, TypeOK
<1>2. \A k \in Nat : /\ [mem EXCEPT !.numrecs = k] \in Header
                      /\ [page EXCEPT !.numrecs = k] \in Header
  BY <1>1 DEF Header
<1>3. mem' \in Header
  <2>1. \A k \in (IF NC_dofill THEN mem.numrecs ELSE n) .. n : k \in Nat
    BY <1>1
  <2>2. \E k \in Nat : mem' = [mem EXCEPT !.numrecs = k] \/ mem' = mem
    BY <1>1, <2>1 DEF NC3_put_vara
  <2> QED
    BY <1>1, <1>2, <2>2
<1>4. page' \in Header /\ disk' \in Header \cup {Empty, NoFile}
  BY <1>1, <1>2 DEF NC3_put_vara, TypeInv, TypeOK, Written
<1>5. state' \in SUBSET Flag /\ ret' \in {"NOERR", "ERR"}
  BY DEF NC3_put_vara, TypeInv, TypeOK, Flag
<1> QED
  BY <1>1, <1>3, <1>4, <1>5, NC3FileAssumption DEF NC3_put_vara, TypeInv, TypeOK, PageInv

\* The steps, regrouped: the definition calls have one common effect.
LEMMA NextCases ==
    ASSUME Next
    PROVE  \/ Lifecycle
           \/ Changing
           \/ \E m \in {"FILL", "NOFILL"} : NC3_set_fill(m)
           \/ \E i \in DOMAIN mem.vars, n \in 1 .. MaxRecs : NC3_put_vara(i, n)
  BY DEF Next, Filling, Changing

\* The type invariant is inductive.
LEMMA TypeNext ==
    ASSUME TypeInv, [Next]_vars
    PROVE  TypeInv'
<1>1. CASE UNCHANGED vars
  BY <1>1 DEF vars, TypeInv, TypeOK, PageInv
<1>2. CASE Next
  BY <1>2, NextCases, TypeLifecycle, TypeChanging, TypeSetFill, TypePutVara
<1> QED
  BY <1>1, <1>2

\* The variables have their types in every reachable state, with and without
\* I/O errors: in particular the header that nc_sync, nc_set_fill and
\* nc_put_vara patch in place exists.
THEOREM TypeCorrect == Spec => []TypeOK
<1>1. Init => TypeInv
  BY EmptyIsHeader, NC3FileAssumption DEF Init, TypeInv, TypeOK, PageInv
<1>2. TypeInv /\ [Next]_vars => TypeInv'
  BY TypeNext
<1>3. TypeInv => TypeOK
  BY DEF TypeInv
<1> QED
  BY <1>1, <1>2, <1>3, PTL DEF Spec

----------------------------------------------------------------------------
(* The dirty flags tell the truth, and nothing synchronised is lost.  Both  *)
(* survive every error of the file system but one: nc_redef of a shared     *)
(* dataset frees the header and reads it again, and when that read fails    *)
(* what is left in memory is marked clean.                                  *)

\* Reads and writes may fail, provided that NC_SHARE is not used.
Reliable == IOFails => TRUE \notin ShareModes

\* What nciop->ioflags says of an open dataset: NC_SHARE is not used where
\* the file may fail, and define mode is only for writers.
OpenInv ==
    /\ IOFails => "SHARE" \notin ioflags
    /\ open /\ ("CREAT" \in state \/ "INDEF" \in state) => "WRITE" \in ioflags

\* A step that opens nothing and enters no define mode.
LEMMA OpenKept ==
    ASSUME OpenInv, ioflags' = ioflags, open,
           "CREAT" \in state' => "CREAT" \in state, "INDEF" \in state' => "INDEF" \in state
    PROVE  OpenInv'
  BY DEF OpenInv

\* A dataset that has been released has no ioflags.
LEMMA OpenReleased ==
    ASSUME Released
    PROVE  OpenInv'
  BY DEF Released, OpenInv

\* Only NC3_create and NC3_open set ioflags, and only writers call NC3_redef.
LEMMA OpenNext ==
    ASSUME Reliable, TypeInv, OpenInv, [Next]_vars
    PROVE  OpenInv'
<1>1. CASE UNCHANGED vars
  BY <1>1 DEF vars, OpenInv
<1>2. CASE Changing
  <2>1. PICK h : Extension(h) /\ ChangeHeader(h)
    BY <1>2, ChangingExtends DEF TypeInv
  <2> QED
    BY <2>1 DEF ChangeHeader, OpenInv
<1>3. ASSUME NEW m \in {"FILL", "NOFILL"}, NC3_set_fill(m)
      PROVE  OpenInv'
  BY <1>3, OpenReleased, OpenKept DEF NC3_set_fill, AssertFailure, NC_syncState
<1>4. ASSUME NEW i \in DOMAIN mem.vars, NEW n \in 1 .. MaxRecs, NC3_put_vara(i, n)
      PROVE  OpenInv'
  BY <1>4, OpenKept DEF NC3_put_vara, DataMode
<1>5. CASE Lifecycle
  <2>1. ASSUME NEW share \in ShareModes, NEW b \in BOOLEAN, NC3_create(share, b)
        PROVE  OpenInv'
    <3>1. \/ "WRITE" \in ioflags' /\ ("SHARE" \in ioflags' => share)
          \/ open' = FALSE /\ ioflags' = ioflags
      BY <2>1 DEF NC3_create
    <3> QED
      BY <3>1, NC3FileAssumption DEF OpenInv, Reliable
  <2>2. ASSUME NEW share \in ShareModes, NEW b \in BOOLEAN, NC3_open(b, share)
        PROVE  OpenInv'
    <3>1. ("SHARE" \in ioflags' => share) /\ "CREAT" \notin state' /\ "INDEF" \notin state'
      BY <2>2 DEF NC3_open
    <3> QED
      BY <3>1, NC3FileAssumption DEF OpenInv, Reliable
  <2>3. CASE NC3_redef
    BY <2>3 DEF NC3_redef, NC_readonly, OpenInv
  <2>4. CASE NC3__enddef
    BY <2>4, OpenKept DEF NC3__enddef, DefineMode, EndefFailState, NC_syncState
  <2>5. CASE NC3_sync
    BY <2>5, OpenKept DEF NC3_sync, DataMode, read_NC, NC_syncState
  <2>6. CASE NC3_abort
    BY <2>6, OpenKept, OpenReleased DEF NC3_abort
  <2>7. CASE NC3_close
    BY <2>7, OpenKept, OpenReleased
       DEF NC3_close, CloseData, CloseDefine, DataMode, DefineMode, NC_syncState
  <2>8. CASE px_pgout
    BY <2>8, OpenKept DEF px_pgout
  <2>9. CASE Crash
    BY <2>9, OpenReleased DEF Crash
  <2> QED
    BY <1>5, <2>1, <2>2, <2>3, <2>4, <2>5, <2>6, <2>7, <2>8, <2>9 DEF Lifecycle
<1> QED
  BY <1>1, <1>2, <1>3, <1>4, <1>5, NextCases

\* AtLeast is reflexive and transitive on headers.
LEMMA AtLeastOrder ==
    ASSUME NEW f \in Header, NEW g \in Header, NEW h \in Header
    PROVE  /\ AtLeast(f, f)
           /\ AtLeast(f, g) /\ AtLeast(g, h) => AtLeast(f, h)
<1>1. \A x \in Header : Len(x.dims) \in Nat /\ Len(x.vars) \in Nat /\ x.numrecs \in Nat
  BY DEF Header
<1> QED
  BY <1>1 DEF AtLeast

\* Under DirtyFlags, NC_sync leaves exactly the header in memory.
LEMMA SyncPageIsMem ==
    ASSUME TypeInv, DirtyFlags, DataMode, ~NC_readonly
    PROVE  NC_syncPage = ncx_put_NC(mem)
<1>1. page \in Header /\ mem \in Header
  BY DEF DirtyFlags, TypeInv, TypeOK
<1>2. [page EXCEPT !.numrecs = page.numrecs] = page
  BY <1>1 DEF Header
<1> QED
  BY <1>1, <1>2 DEF NC_syncPage, DirtyFlags

\* What the page and the file hold has been through ncx_put_NC.
Stored(h) == h \in Header => ncx_put_NC(h) = h

StoredInv == Stored(page) /\ Stored(disk)

\* Whatever the calls write, they write stored headers.
LEMMA StoredPages ==
    ASSUME TypeInv, StoredInv, open
    PROVE  /\ Stored(ncx_put_NC(mem))
           /\ Stored(NC_syncPage)
           /\ \A p : Stored(p) => Stored(Written(p))
           /\ \A p, d : Stored(p) /\ d \in ClosedDisks(p) => Stored(d)
           /\ \A p \in EndefFailPages : Stored(p)
<1>1. mem \in Header /\ mem.numrecs \in Nat
  BY HeaderFields DEF TypeInv, TypeOK
<1>2. Stored(ncx_put_NC(mem))
  BY <1>1, PutAgain DEF Stored
<1>3. page \in Header => Stored([page EXCEPT !.numrecs = mem.numrecs])
  BY <1>1, PutAgain DEF StoredInv, Stored
<1>4. page = Empty => ~NC_ndirty
  BY DEF TypeInv, PageInv, NC_ndirty
<1>5. page \in Header \cup {Empty}
  BY DEF TypeInv, TypeOK
<1>6. Stored(NC_syncPage)
  BY <1>2, <1>3, <1>4, <1>5 DEF NC_syncPage, StoredInv
<1>7. \A p : Stored(p) => Stored(Written(p))
  BY DEF StoredInv, Written
<1>8. \A p, d : Stored(p) /\ d \in ClosedDisks(p) => Stored(d)
  BY <1>7 DEF ClosedDisks
<1>9. \A p \in EndefFailPages : Stored(p)
  BY <1>2 DEF EndefFailPages, StoredInv
<1> QED
  BY <1>2, <1>6, <1>7, <1>8, <1>9

\* Every step keeps the stored headers as they would be encoded again.
LEMMA StoredNext ==
    ASSUME TypeInv, StoredInv, [Next]_vars
    PROVE  StoredInv'
<1>0. Stored(Empty) /\ Stored(NoFile)
  BY NC3FileAssumption DEF Stored
<1>1. CASE UNCHANGED vars
  BY <1>1 DEF vars, StoredInv, Stored
<1>2. CASE Changing
  <2>1. PICK h : Extension(h) /\ ChangeHeader(h)
    BY <1>2, ChangingExtends DEF TypeInv
  <2> QED
    BY <2>1 DEF ChangeHeader, StoredInv
<1>3. ASSUME NEW m \in {"FILL", "NOFILL"}, NC3_set_fill(m)
      PROVE  StoredInv'
  BY <1>0, <1>3, StoredPages DEF NC3_set_fill, AssertFailure, Released, StoredInv
<1>4. ASSUME NEW i \in DOMAIN mem.vars, NEW n \in 1 .. MaxRecs, NC3_put_vara(i, n)
      PROVE  StoredInv'
  <2>1. n \in Nat /\ open /\ page \in Header
    BY <1>4, PageTypes, NC3FileAssumption DEF NC3_put_vara, DataMode, NC_indef
  <2>2. Stored([page EXCEPT !.numrecs = n])
    BY <2>1, PutAgain DEF StoredInv, Stored
  <2> QED
    BY <1>4, <2>1, <2>2, StoredPages DEF NC3_put_vara, StoredInv
<1>5. CASE Lifecycle
  <2>1. ASSUME NEW share \in ShareModes, NEW b \in BOOLEAN, NC3_create(share, b)
        PROVE  StoredInv'
    BY <1>0, <2>1 DEF NC3_create, StoredInv
  <2>2. ASSUME NEW share \in ShareModes, NEW b \in BOOLEAN, NC3_open(b, share)
        PROVE  StoredInv'
    BY <2>2 DEF NC3_open, StoredInv
  <2>3. CASE NC3_redef
    BY <2>3 DEF NC3_redef, StoredInv
  <2>4. CASE NC3__enddef
    BY <2>4, StoredPages DEF NC3__enddef, DefineMode, StoredInv
  <2>5. CASE NC3_sync
    BY <2>5, StoredPages DEF NC3_sync, DataMode, StoredInv
  <2>6. CASE NC3_abort
    BY <1>0, <2>6, StoredPages DEF NC3_abort, Released, StoredInv
  <2>7. CASE NC3_close
    BY <1>0, <2>7, StoredPages
       DEF NC3_close, CloseData, CloseDefine, DataMode, DefineMode, Released, StoredInv
  <2>8. CASE px_pgout
    BY <2>8 DEF px_pgout, StoredInv
  <2>9. CASE Crash
    BY <1>0, <2>9 DEF Crash, Released, StoredInv
  <2> QED
    BY <1>5, <2>1, <2>2, <2>3, <2>4, <2>5, <2>6, <2>7, <2>8, <2>9 DEF Lifecycle
<1> QED
  BY <1>1, <1>2, <1>3, <1>4, <1>5, NextCases

----------------------------------------------------------------------------
(* The dirty flags *)

\* DirtyFlags, as a relation between the flags, the header and the page.
FlagsTrue(st, m, p) ==
    /\ p \in Header
    /\ "HDIRTY" \notin st => ncx_put_NC(m) = [p EXCEPT !.numrecs = m.numrecs]
    /\ "NDIRTY" \notin st => p.numrecs = m.numrecs

Writable(o, io, st) == o /\ "CREAT" \notin st /\ "INDEF" \notin st /\ "WRITE" \in io

\* DirtyFlags, in terms of the values of the variables before and after a step.
LEMMA DirtyForm ==
    /\ DirtyFlags <=> (Writable(open, ioflags, state) => FlagsTrue(state, mem, page))
    /\ DirtyFlags' <=> (Writable(open', ioflags', state') => FlagsTrue(state', mem', page'))
  BY DEF DirtyFlags, FlagsTrue, Writable, DataMode, NC_indef, NC_IsNew, NC_readonly,
         NC_hdirty, NC_ndirty

\* A header and a page that agree make the flags true, whatever they are.
LEMMA FreshPage ==
    ASSUME NEW st, NEW m \in Header, NEW p, p = ncx_put_NC(m)
    PROVE  FlagsTrue(st, m, p)
<1>1. p \in Header /\ p.numrecs = m.numrecs
  BY PutHeader
<1>2. [p EXCEPT !.numrecs = m.numrecs] = p
  BY <1>1 DEF Header
<1> QED
  BY <1>1, <1>2 DEF FlagsTrue

\* Every step keeps the dirty flags truthful.
LEMMA DirtyNext ==
    ASSUME TypeInv, OpenInv, StoredInv, DirtyFlags, [Next]_vars
    PROVE  DirtyFlags'
<1> SUFFICES ASSUME Writable(open', ioflags', state')
             PROVE  FlagsTrue(state', mem', page')
  BY DirtyForm
<1>0. mem \in Header
  BY DEF TypeInv, TypeOK
<1>1. CASE UNCHANGED vars
  BY <1>1, DirtyForm DEF vars
<1>2. CASE Changing
  <2>1. PICK h : Extension(h) /\ ChangeHeader(h)
    BY <1>2, ChangingExtends DEF TypeInv
  <2>2. state' = state \cup {"HDIRTY"} /\ mem' = h /\ page' = page
          /\ Writable(open, ioflags, state) /\ mem'.numrecs = mem.numrecs
    BY <2>1 DEF ChangeHeader, Extension, Writable, NC_indef, NC_IsNew
  <2> QED
    BY <2>2, DirtyForm DEF FlagsTrue
<1>3. ASSUME NEW m \in {"FILL", "NOFILL"}, NC3_set_fill(m)
      PROVE  FlagsTrue(state', mem', page')
  <2>1. ~AssertFailure
    BY DEF AssertFailure, Released, Writable
  <2>2. Writable(open, ioflags, state)
    BY <1>3, <2>1 DEF NC3_set_fill, Writable, NC_syncState
  <2>3. PICK b \in BOOLEAN : mem' = SetNoFill(mem, b) \/ mem' = mem
    BY <1>3, <2>1 DEF NC3_set_fill
  <2>4. mem' \in Header /\ mem'.numrecs = mem.numrecs /\ ncx_put_NC(mem') = ncx_put_NC(mem)
    BY <1>0, <2>3, FillHeader
  <2>5. CASE page' = NC_syncPage
    <3>1. NC_syncPage = ncx_put_NC(mem)
      BY <2>2, SyncPageIsMem DEF Writable, DataMode, NC_indef, NC_IsNew, NC_readonly
    <3> QED
      BY <2>4, <2>5, <3>1, FreshPage
  <2>6. CASE page' = page /\ ("HDIRTY" \in state => "HDIRTY" \in state')
               /\ ("NDIRTY" \in state => "NDIRTY" \in state')
    BY <2>2, <2>4, <2>6, DirtyForm DEF FlagsTrue
  <2> QED
    BY <1>3, <2>1, <2>5, <2>6 DEF NC3_set_fill
<1>4. ASSUME NEW i \in DOMAIN mem.vars, NEW n \in 1 .. MaxRecs, NC3_put_vara(i, n)
      PROVE  FlagsTrue(state', mem', page')
  <2>1. n \in Nat
    BY NC3FileAssumption
  <2>2. FlagsTrue(state, mem, page)
    BY <1>4, DirtyForm
       DEF NC3_put_vara, DataMode, NC_indef, NC_IsNew, NC_readonly, Writable
  <2>3. page \in Header
    BY <2>2 DEF FlagsTrue
  <2>4. CASE UNCHANGED <<mem, page>> /\ state' = state \cup {"NDIRTY"}
    BY <2>2, <2>4 DEF FlagsTrue
  <2>5. ASSUME NEW k \in Nat, mem' = [mem EXCEPT !.numrecs = k], page' = page,
               state' = state \cup {"NDIRTY"}
        PROVE  FlagsTrue(state', mem', page')
    <3>1. ncx_put_NC(mem') = [ncx_put_NC(mem) EXCEPT !.numrecs = k] /\ mem'.numrecs = k
      BY <1>0, <2>5, PutAgain DEF Header
    <3>2. "HDIRTY" \notin state => [ncx_put_NC(mem) EXCEPT !.numrecs = k] = [page EXCEPT !.numrecs = k]
      BY <2>2, <2>3 DEF FlagsTrue, Header
    <3> QED
      BY <2>3, <2>5, <3>1, <3>2 DEF FlagsTrue
  <2>6. CASE mem' = [mem EXCEPT !.numrecs = n] /\ page' = [page EXCEPT !.numrecs = n]
               /\ state' = state \ {"NDIRTY"}
    <3>1. ncx_put_NC(mem') = [ncx_put_NC(mem) EXCEPT !.numrecs = n] /\ mem'.numrecs = n
      BY <1>0, <2>1, <2>6, PutAgain DEF Header
    <3>2. "HDIRTY" \notin state => [ncx_put_NC(mem) EXCEPT !.numrecs = n] = [page EXCEPT !.numrecs = n]
      BY <2>2, <2>3 DEF FlagsTrue, Header
    <3>3. page' \in Header /\ page'.numrecs = n /\ [page' EXCEPT !.numrecs = n] = page'
      BY <2>1, <2>3, <2>6 DEF Header
    <3> QED
      BY <2>6, <3>1, <3>2, <3>3 DEF FlagsTrue
  <2>7. \A k \in (IF NC_dofill THEN mem.numrecs ELSE n) .. n : k \in Nat
    BY <1>0, <2>1 DEF Header
  <2> QED
    BY <1>4, <2>1, <2>4, <2>5, <2>6, <2>7 DEF NC3_put_vara
<1>5. CASE Lifecycle
  <2>1. ASSUME NEW share \in ShareModes, NEW b \in BOOLEAN, NC3_create(share, b)
        PROVE  FALSE
    BY <2>1 DEF NC3_create, Writable
  <2>2. ASSUME NEW share \in ShareModes, NEW b \in BOOLEAN, NC3_open(b, share)
        PROVE  FlagsTrue(state', mem', page')
    BY <2>2, FreshPage DEF NC3_open, StoredInv, Stored
  <2>3. CASE NC3_redef
    BY <2>3, DirtyForm DEF NC3_redef, NC_share, OpenInv, Writable
  <2>4. CASE NC3__enddef
    <3>1. CASE page' = ncx_put_NC(mem) /\ mem' = mem
      BY <1>0, <3>1, FreshPage
    <3>2. ASSUME NEW p \in EndefFailPages, state' = EndefFailState(p)
          PROVE  FALSE
      BY <2>4, <3>2 DEF NC3__enddef, DefineMode, NC_indef, NC_IsNew, EndefFailState,
                        NC_syncState, Writable
    <3> QED
      BY <2>4, <3>1, <3>2 DEF NC3__enddef
  <2>5. CASE NC3_sync
    <3>1. ~NC_readonly /\ DataMode
      BY <2>5 DEF NC3_sync, Writable, NC_readonly
    <3>2. mem' = mem /\ (page' = NC_syncPage \/ (page' = page /\ state' = state))
      BY <2>5, <3>1 DEF NC3_sync
    <3>3. CASE page' = NC_syncPage
      BY <1>0, <3>1, <3>2, <3>3, SyncPageIsMem, FreshPage
    <3>4. CASE page' = page /\ state' = state
      BY <2>5, <3>2, <3>4, DirtyForm DEF NC3_sync
    <3> QED
      BY <3>2, <3>3, <3>4
  <2>6. CASE NC3_abort
    BY <2>6, DirtyForm DEF NC3_abort, Released, Writable
  <2>7. CASE NC3_close
    <3>1. mem' = mem /\ page' = ncx_put_NC(mem)
      BY <2>7, SyncPageIsMem DEF NC3_close, CloseData, CloseDefine, Released, Writable
    <3> QED
      BY <1>0, <3>1, FreshPage
  <2>8. CASE px_pgout
    BY <2>8, DirtyForm DEF px_pgout
  <2>9. CASE Crash
    BY <2>9 DEF Crash, Released, Writable
  <2> QED
    BY <1>5, <2>1, <2>2, <2>3, <2>4, <2>5, <2>6, <2>7, <2>8, <2>9 DEF Lifecycle
<1> QED
  BY <1>1, <1>2, <1>3, <1>4, <1>5, NextCases

FlagsInv == TypeInv /\ OpenInv /\ StoredInv /\ DirtyFlags

\* The invariant holds before the first call.
LEMMA FlagsInit ==
    ASSUME Init
    PROVE  FlagsInv
<1>1. TypeInv
  BY EmptyIsHeader, NC3FileAssumption DEF Init, TypeInv, TypeOK, PageInv
<1>2. StoredInv
  BY NC3FileAssumption DEF Init, StoredInv, Stored
<1>3. DirtyFlags
  BY DEF Init, DirtyFlags, DataMode
<1>4. OpenInv
  BY DEF Init, OpenInv
<1> QED
  BY <1>1, <1>2, <1>3, <1>4 DEF FlagsInv

\* A header or a number of records that differs from the page is marked by
\* NC_HDIRTY or NC_NDIRTY, for every sequence of calls and, without
\* NC_SHARE, whichever reads and writes fail: NC_sync, which writes only what
\* the flags say, misses nothing.
THEOREM FlagsTellTheTruth == Reliable => (Spec => []DirtyFlags)
<1> SUFFICES ASSUME Reliable PROVE Spec => []DirtyFlags
  OBVIOUS
<1>1. Init => FlagsInv
  BY FlagsInit
<1>2. FlagsInv /\ [Next]_vars => FlagsInv'
  BY TypeNext, OpenNext, StoredNext, DirtyNext DEF FlagsInv
<1>3. FlagsInv => DirtyFlags
  BY DEF FlagsInv
<1> QED
  BY <1>1, <1>2, <1>3, PTL DEF Spec

----------------------------------------------------------------------------
(* Durability *)

\* Storing a header, or a larger number of records, takes nothing away.
LEMMA AtLeastStored ==
    ASSUME NEW h \in Header, NEW k \in Nat, k >= h.numrecs
    PROVE  /\ AtLeast(ncx_put_NC(h), h) /\ AtLeast(h, ncx_put_NC(h))
           /\ [h EXCEPT !.numrecs = k] \in Header
           /\ AtLeast([h EXCEPT !.numrecs = k], h)
<1>1. Len(h.dims) \in Nat /\ Len(h.vars) \in Nat /\ h.numrecs \in Nat
  BY DEF Header
<1>2. /\ [h EXCEPT !.numrecs = k] \in Header
      /\ [h EXCEPT !.numrecs = k].dims = h.dims
      /\ [h EXCEPT !.numrecs = k].vars = h.vars
      /\ [h EXCEPT !.numrecs = k].numrecs = k
  BY DEF Header
<1> QED
  BY <1>1, <1>2, PutHeader DEF AtLeast

\* The header y has everything that x has, if x is a header at all.
Grown(x, y) == x \in Header => y \in Header /\ AtLeast(y, x)

\* Grown is reflexive and transitive.
LEMMA GrownOrder ==
    /\ \A x : Grown(x, x)
    /\ \A x, y, z : Grown(x, y) /\ Grown(y, z) => Grown(x, z)
  BY AtLeastOrder DEF Grown

\* Neither storing a header nor more records takes anything away.
LEMMA GrownStored ==
    ASSUME NEW h \in Header
    PROVE  /\ Grown(h, ncx_put_NC(h)) /\ Grown(ncx_put_NC(h), h)
           /\ \A k \in Nat : k >= h.numrecs => Grown(h, [h EXCEPT !.numrecs = k])
<1>1. h.numrecs \in Nat /\ h.numrecs >= h.numrecs
  BY DEF Header
<1> QED
  BY <1>1, AtLeastStored, PutHeader DEF Grown

\* What NC_sync leaves lies between the page it finds and the memory.
LEMMA GrownSync ==
    ASSUME TypeInv, open, Grown(page, mem)
    PROVE  Grown(page, NC_syncPage) /\ Grown(NC_syncPage, mem)
<1>1. mem \in Header /\ page \in Header \cup {Empty}
  BY DEF TypeInv, TypeOK
<1>2. CASE NC_syncPage = ncx_put_NC(mem)
  BY <1>1, <1>2, GrownStored, GrownOrder
<1>3. CASE NC_syncPage = page
  BY <1>3, GrownOrder
<1>4. CASE NC_syncPage = [page EXCEPT !.numrecs = mem.numrecs] /\ NC_ndirty
  <2>1. page \in Header
    BY <1>1, <1>4 DEF TypeInv, PageInv, NC_ndirty
  <2>2. mem.numrecs \in Nat /\ mem.numrecs >= page.numrecs /\ AtLeast(mem, page)
    BY <1>1, <2>1 DEF Grown, AtLeast, Header
  <2>3. NC_syncPage \in Header /\ NC_syncPage.dims = page.dims
          /\ NC_syncPage.vars = page.vars /\ NC_syncPage.numrecs = mem.numrecs
    BY <1>4, <2>1, <2>2 DEF Header
  <2>4. AtLeast(mem, NC_syncPage)
    BY <2>2, <2>3 DEF AtLeast
  <2> QED
    BY <1>1, <1>4, <2>1, <2>2, <2>4, GrownStored DEF Grown
<1> QED
  BY <1>2, <1>3, <1>4 DEF NC_syncPage

\* The inductive invariant behind Durable.  While a dataset is created
\* nothing has been promised.  Otherwise what was promised, the file, the page
\* and the header of a writer are each no smaller than the one before; a
\* reader whose nc_sync failed has lost the header in memory.
ChainInv ==
    /\ "CREAT" \in state => saved = NoHeader
    /\ open => Grown(disk, page)
    /\ open /\ "WRITE" \in ioflags => Grown(page, mem)

DurableInv == FlagsInv /\ ChainInv /\ Durable

\* A file that only grows keeps the promise.
LEMMA Kept ==
    ASSUME TypeInv, Durable, saved' = saved, saved = NoHeader \/ Grown(disk, disk')
    PROVE  Durable'
<1> SUFFICES ASSUME saved # NoHeader PROVE disk' \in Header /\ AtLeast(disk', saved)
  BY DEF Durable
<1>1. saved \in Header /\ disk \in Header /\ AtLeast(disk, saved)
  BY DEF TypeInv, TypeOK, Durable
<1> QED
  BY <1>1, AtLeastOrder DEF Grown

\* The dataset is closed and the file has not shrunk.
LEMMA ClosedKeeps ==
    ASSUME TypeInv, ChainInv, Durable, Released, saved' = saved,
           "CREAT" \notin state => Grown(disk, disk')
    PROVE  ChainInv' /\ Durable'
<1>1. saved = NoHeader \/ Grown(disk, disk')
  BY DEF ChainInv
<1> QED
  BY <1>1, Kept DEF Released, ChainInv

\* The dataset stays open, and file, page and memory stay in order.
LEMMA OpenKeeps ==
    ASSUME TypeInv, ChainInv, Durable, saved' = saved,
           "CREAT" \in state' => "CREAT" \in state,
           Grown(disk, disk'), Grown(disk', page'), "WRITE" \in ioflags' => Grown(page', mem')
    PROVE  ChainInv' /\ Durable'
  BY Kept DEF ChainInv

\* A call that reports success has stored the header in memory.
LEMMA SyncedKeeps ==
    ASSUME mem \in Header, "CREAT" \notin state', mem' = mem,
           page' = ncx_put_NC(mem), disk' = ncx_put_NC(mem), saved' = ncx_put_NC(mem)
    PROVE  ChainInv' /\ Durable'
<1>1. ncx_put_NC(mem) \in Header /\ Grown(ncx_put_NC(mem), mem)
        /\ Grown(ncx_put_NC(mem), ncx_put_NC(mem))
  BY PutHeader, GrownStored, GrownOrder
<1> QED
  BY <1>1 DEF ChainInv, Durable, Grown

\* The definition calls and the fill mode.
LEMMA ChainChanging ==
    ASSUME FlagsInv, ChainInv, Durable,
           Changing \/ \E m \in {"FILL", "NOFILL"} : NC3_set_fill(m)
    PROVE  ChainInv' /\ Durable'
<1> USE DEF FlagsInv
<1>0. mem \in Header
  BY DEF TypeInv, TypeOK
<1>1. CASE Changing
  <2>1. PICK h : Extension(h) /\ ChangeHeader(h)
    BY <1>1, ChangingExtends DEF TypeInv
  <2>2. UNCHANGED <<open, ioflags, page, disk, saved>> /\ mem' = h
          /\ ("CREAT" \in state' <=> "CREAT" \in state)
    BY <2>1 DEF ChangeHeader
  <2>3. Grown(mem, h)
    BY <2>1 DEF Extension, Grown
  <2>4. Grown(page, mem) => Grown(page, h)
    BY <2>3, GrownOrder
  <2> QED
    BY <2>2, <2>4 DEF ChainInv, Durable
<1>2. ASSUME NEW m \in {"FILL", "NOFILL"}, NC3_set_fill(m)
      PROVE  ChainInv' /\ Durable'
  <2>1. open /\ "WRITE" \in ioflags
    BY <1>2 DEF NC3_set_fill, NC_readonly
  <2>2. Grown(disk, page) /\ Grown(page, mem)
    BY <2>1 DEF ChainInv
  <2>3. CASE AssertFailure
    BY <2>3, GrownOrder, ClosedKeeps DEF AssertFailure
  <2>4. CASE ~AssertFailure
    <3>1. saved' = saved /\ ("CREAT" \in state' => "CREAT" \in state)
      BY <1>2, <2>4 DEF NC3_set_fill, NC_syncState
    <3>2. PICK b \in BOOLEAN : mem' = SetNoFill(mem, b) \/ mem' = mem
      BY <1>2, <2>4 DEF NC3_set_fill
    <3>3. mem' \in Header /\ mem'.dims = mem.dims /\ Len(mem'.vars) = Len(mem.vars)
            /\ mem'.numrecs = mem.numrecs
      BY <1>0, <3>2, FillHeader
    <3>4. \A p : Grown(p, mem) => Grown(p, mem')
      BY <3>3 DEF Grown, AtLeast
    <3>5. UNCHANGED <<page, disk>> \/ (page' = NC_syncPage /\ disk' \in {NC_syncPage, disk})
      BY <1>2, <2>4 DEF NC3_set_fill, Written
    <3>6. Grown(page, NC_syncPage) /\ Grown(NC_syncPage, mem)
      BY <2>1, <2>2, GrownSync
    <3>7. Grown(disk, disk') /\ Grown(disk', page') /\ Grown(page', mem')
      BY <2>2, <3>4, <3>5, <3>6, GrownOrder
    <3> QED
      BY <3>1, <3>7, OpenKeeps
  <2> QED
    BY <2>3, <2>4
<1> QED
  BY <1>1, <1>2

\* Writing records: numrecs only grows, in memory and in the page, also when
\* some records could not be filled.
LEMMA ChainPutVara ==
    ASSUME FlagsInv, ChainInv, Durable,
           NEW i \in DOMAIN mem.vars, NEW n \in 1 .. MaxRecs, NC3_put_vara(i, n)
    PROVE  ChainInv' /\ Durable'
<1> USE DEF FlagsInv
<1>1. n \in Nat /\ n > mem.numrecs /\ open /\ "WRITE" \in ioflags /\ saved' = saved
        /\ page \in Header /\ mem \in Header /\ mem.numrecs \in Nat
  BY PageTypes, HeaderFields, NC3FileAssumption
     DEF NC3_put_vara, DataMode, NC_indef, NC_readonly, TypeInv, TypeOK
<1>2. Grown(disk, page) /\ Grown(page, mem)
  BY <1>1 DEF ChainInv
<1>3. "CREAT" \in state' => "CREAT" \in state
  BY DEF NC3_put_vara
<1> DEFINE p == [page EXCEPT !.numrecs = n]
           m(k) == [mem EXCEPT !.numrecs = k]
<1>4. page.numrecs \in Nat /\ mem.numrecs >= page.numrecs
  BY <1>1, <1>2 DEF Grown, AtLeast, Header
<1>5. Grown(page, p)
  BY <1>1, <1>4, GrownStored
<1>6. \A k \in Nat : k >= mem.numrecs => Grown(mem, m(k))
  BY <1>1, GrownStored
<1>7. Grown(p, m(n))
  <2>1. p \in Header /\ p.dims = page.dims /\ p.vars = page.vars /\ p.numrecs = n
    BY <1>1 DEF Header
  <2>2. m(n) \in Header /\ m(n).dims = mem.dims /\ m(n).vars = mem.vars /\ m(n).numrecs = n
    BY <1>1 DEF Header
  <2> QED
    BY <1>1, <1>2, <2>1, <2>2 DEF Grown, AtLeast
<1>8. \/ UNCHANGED <<page, disk>> /\ \E k \in Nat : k >= mem.numrecs /\ mem' = m(k)
      \/ UNCHANGED <<page, disk, mem>>
      \/ page' = p /\ disk' \in {p, disk} /\ mem' = m(n)
  <2>1. \A k \in (IF NC_dofill THEN mem.numrecs ELSE n) .. n : k \in Nat /\ k >= mem.numrecs
    BY <1>1
  <2> QED
    BY <1>1, <2>1 DEF NC3_put_vara, Written
<1> HIDE DEF p, m
<1>9. Grown(disk, disk') /\ Grown(disk', page') /\ Grown(page', mem')
  BY <1>2, <1>5, <1>6, <1>7, <1>8, GrownOrder
<1> QED
  BY <1>1, <1>3, <1>9, OpenKeeps

\* The calls that open, synchronise and close.
LEMMA ChainLifecycle ==
    ASSUME FlagsInv, ChainInv, Durable, Lifecycle
    PROVE  ChainInv' /\ Durable'
<1> USE DEF FlagsInv
<1>0. mem \in Header
  BY DEF TypeInv, TypeOK
<1> DEFINE s == ncx_put_NC(mem)
<1>a. Grown(mem, s) /\ Grown(s, mem)
  BY <1>0, GrownStored
<1> HIDE DEF s
<1>b. \A p : Written(p) \in {p, disk} /\ ClosedDisks(p) \subseteq {p, disk}
  BY DEF Written, ClosedDisks
<1>1. ASSUME NEW share \in ShareModes, NEW b \in BOOLEAN, NC3_create(share, b)
      PROVE  ChainInv' /\ Durable'
  <2>1. page' = Empty /\ disk' \in {Empty, NoFile} /\ saved' = NoHeader
    BY <1>1 DEF NC3_create
  <2> QED
    BY <2>1, NC3FileAssumption DEF ChainInv, Durable, Grown
<1>2. ASSUME NEW share \in ShareModes, NEW b \in BOOLEAN, NC3_open(b, share)
      PROVE  ChainInv' /\ Durable'
  <2>1. mem' = disk /\ page' = disk /\ UNCHANGED <<disk, saved>> /\ "CREAT" \notin state'
    BY <1>2 DEF NC3_open
  <2> QED
    BY <2>1, GrownOrder DEF ChainInv, Durable
<1>3. CASE NC3_redef
  <2>1. open /\ saved' = saved /\ UNCHANGED <<page, disk>> /\ "WRITE" \in ioflags
          /\ ("CREAT" \in state' => "CREAT" \in state)
    BY <1>3 DEF NC3_redef, DataMode, NC_readonly, read_NC
  <2>2. mem' \in {mem, page}
    BY <1>3 DEF NC3_redef, OpenInv, NC_share
  <2>3. Grown(disk, page) /\ Grown(page, mem')
    BY <2>1, <2>2, GrownOrder DEF ChainInv
  <2> QED
    BY <2>1, <2>3, GrownOrder, OpenKeeps
<1>4. CASE NC3__enddef
  <2>1. mem' = mem /\ open /\ "WRITE" \in ioflags
    BY <1>4 DEF NC3__enddef, DefineMode, OpenInv, NC_indef, NC_IsNew
  <2>2. Grown(disk, page) /\ Grown(page, mem)
    BY <2>1 DEF ChainInv
  <2>3. \/ page' = s /\ disk' = s /\ saved' = s /\ "CREAT" \notin state'
        \/ /\ saved' = saved /\ ("CREAT" \in state' => "CREAT" \in state)
           /\ page' \in {page, s} /\ disk' \in {page', disk}
    BY <1>4, <1>b DEF NC3__enddef, EndefFailPages, EndefFailState, NC_syncState, s
  <2>4. CASE page' = s /\ disk' = s /\ saved' = s /\ "CREAT" \notin state'
    BY <1>0, <2>1, <2>4, SyncedKeeps DEF s
  <2>5. CASE /\ saved' = saved /\ ("CREAT" \in state' => "CREAT" \in state)
             /\ page' \in {page, s} /\ disk' \in {page', disk}
    <3>1. Grown(disk, disk') /\ Grown(disk', page') /\ Grown(page', mem')
      BY <1>a, <2>1, <2>2, <2>5, GrownOrder
    <3> QED
      BY <2>5, <3>1, OpenKeeps
  <2> QED
    BY <2>3, <2>4, <2>5
<1>5. CASE NC3_sync
  <2>1. open /\ DataMode /\ ioflags' = ioflags /\ "CREAT" \notin state'
          /\ ("CREAT" \in state' => "CREAT" \in state)
    BY <1>5 DEF NC3_sync, DataMode, NC_indef, NC_IsNew, read_NC, NC_syncState
  <2>2. Grown(disk, page)
    BY <2>1 DEF ChainInv
  <2>3. CASE NC_readonly
    <3>1. UNCHANGED <<page, disk, saved>> /\ "WRITE" \notin ioflags'
      BY <1>5, <2>1, <2>3 DEF NC3_sync, NC_readonly
    <3> QED
      BY <2>1, <2>2, <3>1, GrownOrder, OpenKeeps
  <2>4. CASE ~NC_readonly
    <3>1. NC_syncPage = s /\ Grown(page, mem)
      BY <2>1, <2>4, SyncPageIsMem DEF s, ChainInv, NC_readonly
    <3>2. /\ mem' = mem
          /\ \/ page' = s /\ disk' = s /\ saved' = s
             \/ /\ saved' = saved
                /\ page' \in {page, s} /\ disk' \in {page', disk}
      BY <1>5, <1>b, <2>4, <3>1 DEF NC3_sync, s
    <3>3. CASE page' = s /\ disk' = s /\ saved' = s
      BY <1>0, <2>1, <3>2, <3>3, SyncedKeeps DEF s
    <3>4. CASE saved' = saved /\ page' \in {page, s} /\ disk' \in {page', disk}
      <4>1. Grown(disk, disk') /\ Grown(disk', page') /\ Grown(page', mem')
        BY <1>a, <2>2, <3>1, <3>2, <3>4, GrownOrder
      <4> QED
        BY <2>1, <3>4, <4>1, OpenKeeps
    <3> QED
      BY <3>2, <3>3, <3>4
  <2> QED
    BY <2>3, <2>4
<1>6. CASE NC3_abort
  <2>1. open /\ Grown(disk, page)
    BY <1>6 DEF NC3_abort, ChainInv
  <2>2. \/ /\ Released /\ saved' = saved
           /\ "CREAT" \notin state =>
                 disk' \in {page, disk} \/ (~NC_readonly /\ disk' = NC_syncPage)
        \/ UNCHANGED <<open, ioflags, state, mem, page, disk, saved>>
    <3>1. CASE Released /\ disk' \in ClosedDisks(page)
      BY <1>6, <1>b, <3>1 DEF NC3_abort
    <3>2. CASE /\ Released
               /\ IF NC_IsNew THEN disk' = NoFile
                  ELSE disk' \in ClosedDisks(IF NC_readonly THEN page ELSE NC_syncPage)
      <4>1. "CREAT" \notin state =>
               disk' \in ClosedDisks(IF NC_readonly THEN page ELSE NC_syncPage)
        BY <3>2 DEF NC_IsNew
      <4>2. "CREAT" \notin state =>
               disk' \in {page, disk} \/ (~NC_readonly /\ disk' = NC_syncPage)
        BY <1>b, <4>1
      <4>3. saved' = saved
        BY <1>6 DEF NC3_abort
      <4> QED
        BY <3>2, <4>2, <4>3
    <3>3. CASE UNCHANGED <<open, ioflags, state, mem, old, page, disk>>
      BY <1>6, <3>3 DEF NC3_abort
    <3> QED
      BY <1>6, <3>1, <3>2, <3>3 DEF NC3_abort
  <2>3. ~NC_readonly => Grown(disk, NC_syncPage)
    BY <2>1, GrownSync, GrownOrder DEF ChainInv, NC_readonly
  <2>4. CASE Released /\ saved' = saved /\ ("CREAT" \notin state =>
                disk' \in {page, disk} \/ (~NC_readonly /\ disk' = NC_syncPage))
    BY <2>1, <2>3, <2>4, GrownOrder, ClosedKeeps
  <2>5. CASE UNCHANGED <<open, ioflags, state, mem, page, disk, saved>>
    BY <2>5 DEF ChainInv, Durable
  <2> QED
    BY <2>2, <2>4, <2>5
<1>7. CASE NC3_close
  <2>1. CASE CloseData
    <3>1. open /\ Grown(disk, page) /\ saved' = saved
      BY <2>1 DEF CloseData, DataMode, ChainInv
    <3>2. \/ /\ Released
             /\ disk' \in {page, disk} \/ (~NC_readonly /\ disk' = NC_syncPage)
          \/ /\ ~NC_readonly /\ page' = NC_syncPage /\ disk' \in {page', disk} /\ mem' = mem
             /\ ("CREAT" \in state' => "CREAT" \in state)
      BY <2>1, <1>b DEF CloseData, NC_syncState
    <3>3. ~NC_readonly => /\ Grown(page, NC_syncPage) /\ Grown(NC_syncPage, mem)
                          /\ Grown(disk, NC_syncPage)
      BY <3>1, GrownSync, GrownOrder DEF ChainInv, NC_readonly
    <3>4. CASE /\ Released
               /\ disk' \in {page, disk} \/ (~NC_readonly /\ disk' = NC_syncPage)
      BY <3>1, <3>3, <3>4, GrownOrder, ClosedKeeps
    <3>5. CASE /\ ~NC_readonly /\ page' = NC_syncPage /\ disk' \in {page', disk} /\ mem' = mem
               /\ ("CREAT" \in state' => "CREAT" \in state)
      BY <3>1, <3>3, <3>5, GrownOrder, OpenKeeps
    <3> QED
      BY <3>2, <3>4, <3>5
  <2>2. CASE CloseDefine
    <3>1. open /\ "WRITE" \in ioflags
      BY <2>2 DEF CloseDefine, DefineMode, OpenInv, NC_indef, NC_IsNew
    <3>2. Grown(disk, page) /\ Grown(disk, s)
      BY <1>a, <3>1, GrownOrder DEF ChainInv
    <3>3. \/ Released /\ disk' = s /\ saved' = s
          \/ Released /\ saved' = saved /\ ("CREAT" \notin state => disk' \in {page, s, disk})
          \/ /\ mem' = mem /\ page' = s /\ disk' = s /\ saved' = saved
             /\ "CREAT" \notin state'
      BY <1>b, <2>2 DEF CloseDefine, EndefFailPages, NC_IsNew, s
    <3>4. CASE Released /\ disk' = s /\ saved' = s
      <4>1. s \in Header /\ AtLeast(s, s)
        BY <1>0, PutHeader, AtLeastOrder DEF s
      <4> QED
        BY <3>4, <4>1 DEF ChainInv, Durable, Released
    <3>5. CASE Released /\ saved' = saved /\ ("CREAT" \notin state => disk' \in {page, s, disk})
      BY <3>2, <3>5, GrownOrder, ClosedKeeps
    <3>6. CASE /\ mem' = mem /\ page' = s /\ disk' = s /\ saved' = saved
               /\ "CREAT" \notin state'
      BY <1>a, <3>2, <3>6, GrownOrder, OpenKeeps
    <3> QED
      BY <3>3, <3>4, <3>5, <3>6
  <2> QED
    BY <1>7, <2>1, <2>2 DEF NC3_close
<1>8. CASE px_pgout
  <2>1. UNCHANGED <<open, ioflags, state, mem, page, saved>> /\ open /\ disk' = page
    BY <1>8 DEF px_pgout
  <2> QED
    BY <2>1, GrownOrder, OpenKeeps DEF ChainInv
<1>9. CASE Crash
  BY <1>9, GrownOrder, ClosedKeeps DEF Crash
<1> QED
  BY <1>1, <1>2, <1>3, <1>4, <1>5, <1>6, <1>7, <1>8, <1>9 DEF Lifecycle

\* Every step keeps the chain and the promise.
LEMMA ChainNext ==
    ASSUME FlagsInv, ChainInv, Durable, [Next]_vars
    PROVE  ChainInv' /\ Durable'
<1>1. CASE UNCHANGED vars
  BY <1>1 DEF vars, ChainInv, Durable
<1>2. CASE Next
  BY <1>2, NextCases, ChainChanging, ChainPutVara, ChainLifecycle
<1> QED
  BY <1>1, <1>2

\* Whatever nc_sync or nc_enddef reported to be on disk stays there: no later
\* nc_abort, failing nc_enddef, nc_close, page-out or death of the process
\* removes a dimension, a variable or a record, for every sequence of calls
\* and, without NC_SHARE, whichever reads and writes fail.
THEOREM SynchronisedIsDurable == Reliable => (Spec => []Durable)
<1> SUFFICES ASSUME Reliable PROVE Spec => []Durable
  OBVIOUS
<1>1. Init => DurableInv
  BY FlagsInit DEF Init, DurableInv, ChainInv, Durable
<1>2. DurableInv /\ [Next]_vars => DurableInv'
  BY TypeNext, OpenNext, StoredNext, DirtyNext, ChainNext DEF DurableInv, FlagsInv
<1>3. DurableInv => Durable
  BY DEF DurableInv
<1> QED
  BY <1>1, <1>2, <1>3, PTL DEF Spec

----------------------------------------------------------------------------
(* The define modes and the old header *)

\* OldWhileRedef is inductive once it is known that a dataset that is not
\* open has no flags and no old header: NC3_create sets NC_CREAT and leaves
\* `old' as it is.
ModeInv ==
    /\ OldWhileRedef
    /\ ~open => state = {} /\ old = NoHeader

\* A closed dataset is in no mode.
LEMMA ReleasedMode ==
    ASSUME Released
    PROVE  ModeInv'
  BY DEF Released, ModeInv, OldWhileRedef

\* A step that leaves `old' and both modes alone.
LEMMA SameMode ==
    ASSUME ModeInv, old' = old, open, open',
           "INDEF" \in state' <=> "INDEF" \in state,
           "CREAT" \in state' <=> "CREAT" \in state
    PROVE  ModeInv'
  BY DEF ModeInv, OldWhileRedef

\* The calls that enter and leave the modes.
LEMMA ModeLifecycle ==
    ASSUME TypeInv, ModeInv, Lifecycle
    PROVE  ModeInv'
<1>1. ASSUME NEW share \in ShareModes, NEW b \in BOOLEAN, NC3_create(share, b)
      PROVE  ModeInv'
  <2>1. ~open /\ state = {} /\ old = NoHeader /\ old' = old
    BY <1>1 DEF NC3_create, ModeInv
  <2>2. \/ open' = TRUE /\ "INDEF" \notin state'
        \/ open' = open /\ state' = state
    BY <1>1 DEF NC3_create
  <2> QED
    BY <2>1, <2>2 DEF ModeInv, OldWhileRedef
<1>2. ASSUME NEW share \in ShareModes, NEW b \in BOOLEAN, NC3_open(b, share)
      PROVE  ModeInv'
  <2>1. old' = NoHeader /\ open' = TRUE /\ "INDEF" \notin state'
    BY <1>2 DEF NC3_open, ModeInv
  <2> QED
    BY <2>1 DEF ModeInv, OldWhileRedef
<1>3. CASE NC3_redef
  <2>1. open /\ open' = open /\ "CREAT" \notin state /\ "INDEF" \notin state /\ DataMode
    BY <1>3 DEF NC3_redef, DataMode, NC_indef, NC_IsNew
  <2>2. ncx_put_NC(mem) # NoHeader /\ page # NoHeader
    BY <2>1, PageTypes, NC3FileAssumption DEF NC_IsNew
  <2>3. \/ old' # NoHeader /\ "INDEF" \in state' /\ "CREAT" \notin state'
        \/ old' = old /\ state' = state
    BY <1>3, <2>1, <2>2 DEF NC3_redef, read_NC
  <2> QED
    BY <2>1, <2>3 DEF ModeInv, OldWhileRedef
<1>4. CASE NC3__enddef
  <2>1. open /\ open' = open
    BY <1>4 DEF NC3__enddef, DefineMode
  <2>2. \/ old' = NoHeader /\ "INDEF" \notin state'
        \/ \E p : state' = EndefFailState(p) /\ old' = old
    BY <1>4 DEF NC3__enddef
  <2>3. \A p : /\ "INDEF" \in EndefFailState(p) <=> "INDEF" \in state
               /\ "CREAT" \in EndefFailState(p) <=> "CREAT" \in state
    BY DEF EndefFailState, NC_syncState
  <2> QED
    BY <2>1, <2>2, <2>3 DEF ModeInv, OldWhileRedef
<1>5. CASE NC3_sync
  <2>1. open /\ open' = open /\ old' = old
    BY <1>5 DEF NC3_sync, DataMode
  <2>2. state' \in {state, state \ {"NDIRTY", "HDIRTY"}}
    BY <1>5 DEF NC3_sync, read_NC, NC_syncState
  <2> QED
    BY <2>1, <2>2, SameMode
<1>6. CASE NC3_abort
  <2>1. Released \/ UNCHANGED <<open, state, old>>
    BY <1>6 DEF NC3_abort
  <2> QED
    BY <2>1, ReleasedMode DEF ModeInv, OldWhileRedef
<1>7. CASE NC3_close
  <2>1. \/ Released
        \/ open /\ open' = open /\ old' = old /\ state' = NC_syncState
        \/ /\ open /\ open' = open /\ old' = NoHeader
           /\ state' = NC_syncState \ {"CREAT", "INDEF"}
    BY <1>7 DEF NC3_close, CloseData, CloseDefine, DataMode, DefineMode
  <2> QED
    BY <2>1, ReleasedMode, SameMode DEF NC_syncState, ModeInv, OldWhileRedef
<1>8. CASE px_pgout
  BY <1>8 DEF px_pgout, ModeInv, OldWhileRedef
<1>9. CASE Crash
  BY <1>9, ReleasedMode DEF Crash
<1> QED
  BY <1>1, <1>2, <1>3, <1>4, <1>5, <1>6, <1>7, <1>8, <1>9 DEF Lifecycle

\* The definition calls are calls on an open dataset.
LEMMA ChangingIsOpen ==
    ASSUME Changing
    PROVE  open
  BY DEF Changing, Definitions, NC3_def_dim, NC3_def_var, NC3_rename_dim, NC3_rename_var,
         NC3_put_att, NC3_rename_att, NC3_del_att, NC3_def_var_fill, NC3_put_FillValue,
         DefineMode

\* Every step keeps the modes and `old' together.
LEMMA ModeNext ==
    ASSUME TypeInv, ModeInv, [Next]_vars
    PROVE  ModeInv'
<1>1. CASE UNCHANGED vars
  BY <1>1 DEF vars, ModeInv, OldWhileRedef
<1>2. CASE Changing
  <2>1. PICK h : ChangeHeader(h)
    BY <1>2, ChangingExtends DEF TypeInv
  <2>2. open
    BY <1>2, ChangingIsOpen
  <2> QED
    BY <2>1, <2>2, SameMode DEF ChangeHeader
<1>3. ASSUME NEW m \in {"FILL", "NOFILL"}, NC3_set_fill(m)
      PROVE  ModeInv'
  <2>1. CASE AssertFailure
    BY <2>1, ReleasedMode DEF AssertFailure
  <2>2. CASE ~AssertFailure
    <3>1. open /\ open' = open /\ old' = old
      BY <1>3, <2>2 DEF NC3_set_fill
    <3>2. state' \in {state, state \cup {"NOFILL"}, NC_syncState \ {"NOFILL"}}
      BY <1>3, <2>2 DEF NC3_set_fill
    <3> QED
      BY <3>1, <3>2, SameMode DEF NC_syncState
  <2> QED
    BY <2>1, <2>2
<1>4. ASSUME NEW i \in DOMAIN mem.vars, NEW n \in 1 .. MaxRecs, NC3_put_vara(i, n)
      PROVE  ModeInv'
  <2>1. open /\ open' = open /\ old' = old
    BY <1>4 DEF NC3_put_vara, DataMode
  <2>2. state' \in {state \ {"NDIRTY"}, state \cup {"NDIRTY"}}
    BY <1>4 DEF NC3_put_vara
  <2> QED
    BY <2>1, <2>2, SameMode
<1>5. CASE Lifecycle
  BY <1>5, ModeLifecycle
<1> QED
  BY <1>1, <1>2, <1>3, <1>4, <1>5, NextCases

\* NC3_INFO.old is there exactly between a successful nc_redef and the end of
\* that define mode, and NC_CREAT and NC_INDEF exclude each other: what
\* NC_endef and NC3_abort assert, whichever reads and writes fail.
THEOREM OldOnlyInRedef == Spec => []OldWhileRedef
<1>1. Init => TypeInv /\ ModeInv
  BY EmptyIsHeader, NC3FileAssumption
     DEF Init, TypeInv, TypeOK, PageInv, ModeInv, OldWhileRedef
<1>2. TypeInv /\ ModeInv /\ [Next]_vars => TypeInv' /\ ModeInv'
  BY TypeNext, ModeNext
<1>3. ModeInv => OldWhileRedef
  BY DEF ModeInv
<1> QED
  BY <1>1, <1>2, <1>3, PTL DEF Spec
----------------------------------------------------------------------------
(* Names *)

\* The elements of a sequence, and of a set, have different names.
UniqueIn(s) == \A i, j \in DOMAIN s : s[i].name.cp = s[j].name.cp => i = j
UniqueAmong(A) == \A a, b \in A : a.name.cp = b.name.cp => a = b

Unique(h) == UniqueIn(h.dims) /\ UniqueIn(h.vars) /\ UniqueAmong(h.atts)

\* NamesUnique is not inductive by itself: nc_sync of a reader, nc_redef of a
\* shared dataset and nc_open take the header from the page and the file.
UniqueInv ==
    /\ Unique(mem)
    /\ page \in Header => Unique(page)
    /\ disk \in Header => Unique(disk)

\* A dimension or a variable with a name that is not in use may be added.
LEMMA UniqueAppend ==
    ASSUME NEW S, NEW s \in Seq(S), NEW x, UniqueIn(s), ~InUse(s, x.name.cp)
    PROVE  UniqueIn(Append(s, x))
<1>1. /\ Len(s) \in Nat /\ DOMAIN s = 1 .. Len(s)
      /\ DOMAIN Append(s, x) = 1 .. (Len(s) + 1)
      /\ \A i \in 1 .. Len(s) : Append(s, x)[i] = s[i]
      /\ Append(s, x)[Len(s) + 1] = x
  OBVIOUS
<1> DEFINE t == Append(s, x)
           k == Len(s) + 1
<1>2. \A i \in 1 .. k : i \in 1 .. Len(s) \/ i = k
  BY <1>1
<1>3. \A i \in 1 .. Len(s) : s[i].name.cp # x.name.cp
  BY <1>1 DEF InUse
<1> HIDE DEF t, k
<1>4. /\ DOMAIN t = 1 .. k /\ t[k] = x
      /\ \A i \in 1 .. Len(s) : t[i] = s[i]
  BY <1>1 DEF t, k
<1>5. ASSUME NEW i \in DOMAIN t, NEW j \in DOMAIN t, t[i].name.cp = t[j].name.cp
      PROVE  i = j
  BY <1>1, <1>2, <1>3, <1>4, <1>5 DEF UniqueIn
<1> QED
  BY <1>5 DEF UniqueIn, t

\* One of them may be replaced by one of the same name or of a name that is
\* not in use.
LEMMA UniqueReplace ==
    ASSUME NEW s, NEW i \in DOMAIN s, NEW x, UniqueIn(s),
           x.name.cp = s[i].name.cp \/ ~InUse(s, x.name.cp)
    PROVE  UniqueIn([s EXCEPT ![i] = x])
<1> DEFINE t == [s EXCEPT ![i] = x]
<1>1. DOMAIN t = DOMAIN s /\ t[i] = x /\ \A j \in DOMAIN s : j # i => t[j] = s[j]
  OBVIOUS
<1>2. \A j \in DOMAIN s : j # i => s[j].name.cp # x.name.cp
  BY DEF UniqueIn, InUse
<1> HIDE DEF t
<1>3. UniqueIn(t)
  BY <1>1, <1>2 DEF UniqueIn
<1> QED
  BY <1>3 DEF t

\* A header with the names of a unique one is unique.
LEMMA UniqueSame ==
    ASSUME NEW h, NEW g, Unique(h), g.dims = h.dims, g.atts = h.atts,
           DOMAIN g.vars = DOMAIN h.vars,
           \A i \in DOMAIN h.vars : g.vars[i].name = h.vars[i].name
    PROVE  Unique(g)
  BY DEF Unique, UniqueIn

\* Writing the header, the fill mode and the number of records leave the
\* names alone.
LEMMA UniqueWritten ==
    ASSUME NEW h \in Header, Unique(h)
    PROVE  /\ Unique(ncx_put_NC(h))
           /\ \A b \in BOOLEAN : Unique(SetNoFill(h, b))
           /\ \A k \in Nat : Unique([h EXCEPT !.numrecs = k])
           /\ Unique(FreedHeader(h))
<1>1. h.vars \in Seq(Var) /\ DOMAIN h.vars = 1 .. Len(h.vars)
  BY DEF Header
<1>2. \A i \in DOMAIN h.vars : h.vars[i] \in Var
  BY <1>1
<1>3. ASSUME NEW b \in BOOLEAN
      PROVE  Unique(SetNoFill(h, b))
  <2> DEFINE vs == [i \in DOMAIN h.vars |-> [h.vars[i] EXCEPT !.no_fill = b]]
             g  == [h EXCEPT !.vars = vs]
  <2>1. \A i \in DOMAIN h.vars : vs[i].name = h.vars[i].name
    BY <1>2 DEF Var
  <2>2. g.dims = h.dims /\ g.atts = h.atts /\ g.vars = vs
    BY DEF Header
  <2>3. DOMAIN vs = DOMAIN h.vars
    OBVIOUS
  <2>4. SetNoFill(h, b) = g
    BY DEF SetNoFill
  <2> HIDE DEF vs, g
  <2>5. Unique(g)
    BY <2>1, <2>2, <2>3, UniqueSame
  <2> QED
    BY <2>4, <2>5
<1>4. ncx_put_NC(h) = SetNoFill(h, FALSE)
  BY DEF ncx_put_NC, SetNoFill
<1>5. \A k \in Nat : Unique([h EXCEPT !.numrecs = k])
  BY DEF Header, Unique
<1>6. Unique(FreedHeader(h))
  BY DEF FreedHeader, EmptyHeader, Unique, UniqueIn, UniqueAmong
<1> QED
  BY <1>3, <1>4, <1>5, <1>6

\* The fields of a changed header.
LEMMA UniqueField ==
    ASSUME TypeOK, Unique(mem)
    PROVE  /\ \A s : UniqueIn(s) => Unique([mem EXCEPT !.dims = s])
           /\ \A s : UniqueIn(s) => Unique([mem EXCEPT !.vars = s])
           /\ \A A : UniqueAmong(A) => Unique([mem EXCEPT !.atts = A])
<1>1. mem \in [dims : Seq(Dim), vars : Seq(Var), atts : SUBSET Att, numrecs : Nat]
  BY DEF TypeOK, Header
<1> QED
  BY <1>1 DEF Unique

\* The calls on dimensions and variables look the new name up first.
LEMMA UniqueDefine ==
    ASSUME TypeOK, Unique(mem), NEW n \in Name, NEW b \in BOOLEAN,
           NC3_def_dim(n, b) \/ NC3_def_var(n, b)
    PROVE  \E h : Unique(h) /\ ChangeHeader(h)
<1> DEFINE d == [name |-> new_NC_string(n), unlim |-> b]
           v == [name |-> new_NC_string(n), rec |-> b,
                 no_fill |-> ~NC_dofill, fv |-> "none"]
<1>1. d.name.cp = n /\ v.name.cp = n
  BY DEF new_NC_string
<1>2. UniqueIn(mem.dims) /\ UniqueIn(mem.vars)
  BY DEF Unique
<1>3. CASE NC3_def_dim(n, b)
  <2>1. ~InUse(mem.dims, d.name.cp) /\ ChangeHeader([mem EXCEPT !.dims = Append(mem.dims, d)])
    BY <1>1, <1>3 DEF NC3_def_dim
  <2> HIDE DEF d
  <2>2. UniqueIn(Append(mem.dims, d))
    BY <1>2, <2>1, HeaderFields, UniqueAppend
  <2> QED
    BY <2>1, <2>2, UniqueField
<1>4. CASE NC3_def_var(n, b)
  <2>1. ~InUse(mem.vars, v.name.cp) /\ ChangeHeader([mem EXCEPT !.vars = Append(mem.vars, v)])
    BY <1>1, <1>4 DEF NC3_def_var
  <2> HIDE DEF v
  <2>2. UniqueIn(Append(mem.vars, v))
    BY <1>2, <2>1, HeaderFields, UniqueAppend
  <2> QED
    BY <2>1, <2>2, UniqueField
<1> QED
  BY <1>3, <1>4

\* A string takes the new name in either mode.
LEMMA RenamedName ==
    ASSUME NEW s \in NCString, NEW n \in Name
    PROVE  Renamed(s, n).cp = n
  BY DEF Renamed, new_NC_string, set_NC_string, NCString

\* A rename in define or in data mode.
LEMMA UniqueRename ==
    ASSUME TypeOK, Unique(mem), NEW n \in Name,
           \/ \E i \in DOMAIN mem.dims : NC3_rename_dim(i, n)
           \/ \E i \in DOMAIN mem.vars : NC3_rename_var(i, n)
    PROVE  \E h : Unique(h) /\ ChangeHeader(h)
<1>2. UniqueIn(mem.dims) /\ UniqueIn(mem.vars)
  BY DEF Unique
<1>3. ASSUME NEW i \in DOMAIN mem.dims, NC3_rename_dim(i, n)
      PROVE  \E h : Unique(h) /\ ChangeHeader(h)
  <2> DEFINE d == [mem.dims[i] EXCEPT !.name = Renamed(@, n)]
  <2>1. mem.dims[i] \in Dim
    BY HeaderFields
  <2>2. d.name.cp = n
    BY <2>1, RenamedName DEF Dim
  <2>3. ~InUse(mem.dims, d.name.cp) /\ ChangeHeader([mem EXCEPT !.dims = [mem.dims EXCEPT ![i] = d]])
    BY <1>3, <2>2 DEF NC3_rename_dim
  <2> HIDE DEF d
  <2>4. UniqueIn([mem.dims EXCEPT ![i] = d])
    BY <1>2, <2>3, UniqueReplace
  <2> QED
    BY <2>3, <2>4, UniqueField
<1>4. ASSUME NEW i \in DOMAIN mem.vars, NC3_rename_var(i, n)
      PROVE  \E h : Unique(h) /\ ChangeHeader(h)
  <2> DEFINE v == [mem.vars[i] EXCEPT !.name = Renamed(@, n)]
  <2>1. mem.vars[i] \in Var
    BY HeaderFields
  <2>2. v.name.cp = n
    BY <2>1, RenamedName DEF Var
  <2>3. ~InUse(mem.vars, v.name.cp) /\ ChangeHeader([mem EXCEPT !.vars = [mem.vars EXCEPT ![i] = v]])
    BY <1>4, <2>2 DEF NC3_rename_var
  <2> HIDE DEF v
  <2>4. UniqueIn([mem.vars EXCEPT ![i] = v])
    BY <1>2, <2>3, UniqueReplace
  <2> QED
    BY <2>3, <2>4, UniqueField
<1> QED
  BY <1>3, <1>4

\* The fill value of a variable is not its name.
LEMMA UniqueFillValue ==
    ASSUME TypeOK, Unique(mem), NEW i \in DOMAIN mem.vars,
           \/ \E nf, value \in BOOLEAN : NC3_def_var_fill(i, nf, value)
           \/ \E fv \in FillAtts : NC3_put_FillValue(i, fv)
    PROVE  \E h : Unique(h) /\ ChangeHeader(h)
<1>1. mem.vars[i] \in Var
  BY HeaderFields
<1>2. ASSUME NEW v, v.name.cp = mem.vars[i].name.cp
      PROVE  Unique([mem EXCEPT !.vars = [mem.vars EXCEPT ![i] = v]])
  <2>1. UniqueIn([mem.vars EXCEPT ![i] = v])
    BY <1>2, UniqueReplace DEF Unique
  <2> QED
    BY <2>1, UniqueField
<1>3. ASSUME NEW nf \in BOOLEAN, NEW value \in BOOLEAN, NC3_def_var_fill(i, nf, value)
      PROVE  \E h : Unique(h) /\ ChangeHeader(h)
  <2> DEFINE v == [mem.vars[i] EXCEPT
                      !.no_fill = nf, !.fv = IF value /\ ~nf THEN "good" ELSE @]
  <2>1. v.name = mem.vars[i].name
    BY <1>1 DEF Var
  <2>2. ChangeHeader([mem EXCEPT !.vars = [mem.vars EXCEPT ![i] = v]])
    BY <1>1, <1>3, HeaderFields DEF NC3_def_var_fill, Var, TypeOK, Header
  <2> HIDE DEF v
  <2> QED
    BY <1>2, <2>1, <2>2
<1>4. ASSUME NEW fv \in FillAtts, NC3_put_FillValue(i, fv)
      PROVE  \E h : Unique(h) /\ ChangeHeader(h)
  <2> DEFINE v == [mem.vars[i] EXCEPT !.fv = fv]
  <2>1. v.name = mem.vars[i].name
    BY <1>1 DEF Var
  <2>2. ChangeHeader([mem EXCEPT !.vars = [mem.vars EXCEPT ![i] = v]])
    BY <1>4 DEF NC3_put_FillValue
  <2> HIDE DEF v
  <2> QED
    BY <1>2, <2>1, <2>2
<1> QED
  BY <1>3, <1>4

\* An attribute is put over the one of its name, renamed to a name that is
\* not in use, or deleted.
LEMMA UniqueAtt ==
    ASSUME TypeOK, Unique(mem), NEW n \in Name,
           \/ \E v \in Value : NC3_put_att(n, v)
           \/ \E m \in Name : NC3_rename_att(n, m)
           \/ NC3_del_att(n)
    PROVE  \E h : Unique(h) /\ ChangeHeader(h)
<1>1. UniqueAmong(mem.atts) /\ \A a \in mem.atts : a \in Att /\ a.name \in NCString
  BY HeaderFields DEF Unique, Att
<1>2. ASSUME NEW A \in SUBSET mem.atts, NEW x, \A a \in A : a.name.cp # x.name.cp
      PROVE  UniqueAmong(A \cup {x})
  BY <1>1, <1>2 DEF UniqueAmong
<1>3. ASSUME NEW A, UniqueAmong(A), ChangeHeader([mem EXCEPT !.atts = A])
      PROVE  \E h : Unique(h) /\ ChangeHeader(h)
  BY <1>3, UniqueField
<1>4. ASSUME NEW v \in Value, NC3_put_att(n, v), NC_indef
      PROVE  \E h : Unique(h) /\ ChangeHeader(h)
  <2> DEFINE x == [name |-> new_NC_string(n), val |-> v]
  <2>1. x.name.cp = n
    BY DEF new_NC_string
  <2>2. ChangeHeader([mem EXCEPT !.atts = (mem.atts \ NC_findattr(n)) \cup {x}])
    BY <1>4 DEF NC3_put_att
  <2> HIDE DEF x
  <2>3. UniqueAmong((mem.atts \ NC_findattr(n)) \cup {x})
    BY <1>2, <2>1 DEF NC_findattr
  <2> QED
    BY <1>3, <2>2, <2>3
<1>5. ASSUME NEW v \in Value, NC3_put_att(n, v), ~NC_indef
      PROVE  \E h : Unique(h) /\ ChangeHeader(h)
  <2>1. PICK a \in NC_findattr(n) :
          ChangeHeader([mem EXCEPT !.atts = (@ \ {a}) \cup {[a EXCEPT !.val = v]}])
    BY <1>5 DEF NC3_put_att
  <2>2. a \in mem.atts /\ a.name.cp = n
    BY DEF NC_findattr
  <2> DEFINE x == [a EXCEPT !.val = v]
  <2>3. x.name = a.name
    BY <1>1, <2>2 DEF Att
  <2>4. ChangeHeader([mem EXCEPT !.atts = (mem.atts \ {a}) \cup {x}])
    BY <2>1
  <2> HIDE DEF x
  <2>5. \A c \in mem.atts \ {a} : c.name.cp # x.name.cp
    BY <1>1, <2>2, <2>3 DEF UniqueAmong
  <2>6. UniqueAmong((mem.atts \ {a}) \cup {x})
    BY <1>2, <2>5
  <2> QED
    BY <1>3, <2>4, <2>6
<1>6. ASSUME NEW m \in Name, NC3_rename_att(n, m)
      PROVE  \E h : Unique(h) /\ ChangeHeader(h)
  <2>1. PICK a \in NC_findattr(n) :
          ChangeHeader([mem EXCEPT !.atts =
                           (@ \ {a}) \cup {[a EXCEPT !.name = Renamed(@, m)]}])
    BY <1>6 DEF NC3_rename_att
  <2>2. a \in mem.atts
    BY DEF NC_findattr
  <2> DEFINE x == [a EXCEPT !.name = Renamed(@, m)]
  <2>3. x.name.cp = m
    BY <1>1, <2>2, RenamedName DEF Att
  <2>4. ChangeHeader([mem EXCEPT !.atts = (mem.atts \ {a}) \cup {x}])
    BY <2>1
  <2> HIDE DEF x
  <2>5. \A c \in mem.atts : c.name.cp # m
    BY <1>6 DEF NC3_rename_att, NC_findattr
  <2>6. UniqueAmong((mem.atts \ {a}) \cup {x})
    BY <1>2, <2>3, <2>5
  <2> QED
    BY <1>3, <2>4, <2>6
<1>7. ASSUME NC3_del_att(n)
      PROVE  \E h : Unique(h) /\ ChangeHeader(h)
  <2>1. ChangeHeader([mem EXCEPT !.atts = mem.atts \ DelAttFinds(n)])
    BY <1>7 DEF NC3_del_att
  <2>2. UniqueAmong(mem.atts \ DelAttFinds(n))
    BY <1>1 DEF UniqueAmong
  <2> QED
    BY <1>3, <2>1, <2>2
<1> QED
  BY <1>4, <1>5, <1>6, <1>7

\* Every definition call leaves unique names.
LEMMA UniqueChanging ==
    ASSUME TypeOK, Unique(mem), Changing
    PROVE  \E h : Unique(h) /\ ChangeHeader(h)
  BY UniqueDefine, UniqueRename, UniqueFillValue, UniqueAtt DEF Changing, Definitions
\* A step whose headers come from the memory, the page and the file.
LEMMA UniquePages ==
    ASSUME TypeInv, UniqueInv, open
    PROVE  /\ Unique(ncx_put_NC(mem))
           /\ NC_syncPage \in Header => Unique(NC_syncPage)
           /\ \A p : (p \in Header => Unique(p)) =>
                 /\ Written(p) \in Header => Unique(Written(p))
                 /\ \A d \in ClosedDisks(p) : d \in Header => Unique(d)
           /\ \A p \in EndefFailPages : p \in Header => Unique(p)
<1>1. mem \in Header /\ mem.numrecs \in Nat /\ Unique(mem)
  BY HeaderFields DEF TypeInv, TypeOK, UniqueInv
<1>2. Unique(ncx_put_NC(mem))
  BY <1>1, UniqueWritten
<1>3. page \in Header => Unique([page EXCEPT !.numrecs = mem.numrecs])
  BY <1>1, UniqueWritten DEF UniqueInv
<1>4. page = Empty => ~NC_ndirty
  BY DEF TypeInv, PageInv, NC_ndirty
<1>5. page \in Header \cup {Empty}
  BY DEF TypeInv, TypeOK
<1>6. NC_syncPage \in Header => Unique(NC_syncPage)
  BY <1>2, <1>3, <1>4, <1>5 DEF NC_syncPage, UniqueInv
<1>7. \A p : (p \in Header => Unique(p)) => (Written(p) \in Header => Unique(Written(p)))
  BY DEF Written, UniqueInv
<1>8. \A p : (p \in Header => Unique(p)) => \A d \in ClosedDisks(p) : d \in Header => Unique(d)
  BY <1>7 DEF ClosedDisks
<1>9. \A p \in EndefFailPages : p \in Header => Unique(p)
  BY <1>2 DEF EndefFailPages, UniqueInv
<1> QED
  BY <1>2, <1>6, <1>7, <1>8, <1>9

\* Closing leaves no header but the one in the file.
LEMMA UniqueReleased ==
    ASSUME Released, disk' \in Header => Unique(disk')
    PROVE  UniqueInv'
  BY NC3FileAssumption
     DEF Released, UniqueInv, Unique, UniqueIn, UniqueAmong, EmptyHeader

\* Every step keeps the names of all three headers unique.
LEMMA UniqueNext ==
    ASSUME TypeInv, UniqueInv, [Next]_vars
    PROVE  UniqueInv'
<1>0. mem \in Header /\ Unique(mem) /\ Unique(FreedHeader(mem))
  BY UniqueWritten DEF TypeInv, TypeOK, UniqueInv
<1>1. CASE UNCHANGED vars
  BY <1>1 DEF vars, UniqueInv
<1>2. CASE Changing
  <2>1. PICK h : Unique(h) /\ ChangeHeader(h)
    BY <1>0, <1>2, UniqueChanging DEF TypeInv
  <2> QED
    BY <2>1 DEF ChangeHeader, UniqueInv
<1>3. ASSUME NEW m \in {"FILL", "NOFILL"}, NC3_set_fill(m)
      PROVE  UniqueInv'
  <2>1. CASE AssertFailure
    BY <2>1, UniqueReleased DEF AssertFailure, UniqueInv
  <2>2. CASE ~AssertFailure
    <3>1. open /\ mem' \in {mem, SetNoFill(mem, TRUE), SetNoFill(mem, FALSE)}
      BY <1>3, <2>2 DEF NC3_set_fill
    <3>2. UNCHANGED <<page, disk>> \/ (page' = NC_syncPage /\ disk' = Written(NC_syncPage))
      BY <1>3, <2>2 DEF NC3_set_fill
    <3>3. Unique(mem')
      BY <1>0, <3>1, UniqueWritten
    <3> QED
      BY <3>1, <3>2, <3>3, UniquePages DEF UniqueInv
  <2> QED
    BY <2>1, <2>2
<1>4. ASSUME NEW i \in DOMAIN mem.vars, NEW n \in 1 .. MaxRecs, NC3_put_vara(i, n)
      PROVE  UniqueInv'
  <2>1. n \in Nat /\ open /\ page \in Header /\ mem.numrecs \in Nat
    BY <1>4, PageTypes, HeaderFields, NC3FileAssumption
       DEF NC3_put_vara, DataMode, NC_indef, TypeInv
  <2>2. \A k \in (IF NC_dofill THEN mem.numrecs ELSE n) .. n : k \in Nat
    BY <2>1
  <2>3. \E k \in Nat : mem' = [mem EXCEPT !.numrecs = k] \/ mem' = mem
    BY <1>4, <2>1, <2>2 DEF NC3_put_vara
  <2>4. Unique(mem')
    BY <1>0, <2>3, UniqueWritten
  <2>5. Unique([page EXCEPT !.numrecs = n])
    BY <2>1, UniqueWritten DEF UniqueInv
  <2>6. \/ UNCHANGED <<page, disk>>
        \/ page' = [page EXCEPT !.numrecs = n] /\ disk' = Written(page')
    BY <1>4 DEF NC3_put_vara
  <2> QED
    BY <2>1, <2>4, <2>5, <2>6, UniquePages DEF UniqueInv
<1>5. CASE Lifecycle
  <2>1. ASSUME NEW share \in ShareModes, NEW b \in BOOLEAN, NC3_create(share, b)
        PROVE  UniqueInv'
    <3>1. mem' = EmptyHeader /\ page' = Empty /\ disk' \in {Empty, NoFile}
      BY <2>1 DEF NC3_create
    <3> QED
      BY <3>1, NC3FileAssumption DEF UniqueInv, Unique, UniqueIn, UniqueAmong, EmptyHeader
  <2>2. ASSUME NEW share \in ShareModes, NEW b \in BOOLEAN, NC3_open(b, share)
        PROVE  UniqueInv'
    BY <2>2 DEF NC3_open, UniqueInv
  <2>3. CASE NC3_redef
    <3>1. page \in Header
      BY <2>3, PageTypes DEF NC3_redef, DataMode, NC_indef
    <3>2. mem' \in {mem, page, FreedHeader(mem)} /\ UNCHANGED <<page, disk>>
      BY <2>3 DEF NC3_redef, read_NC
    <3> QED
      BY <1>0, <3>1, <3>2 DEF UniqueInv
  <2>4. CASE NC3__enddef
    <3>1. open /\ mem' = mem
      BY <2>4 DEF NC3__enddef, DefineMode
    <3>2. page' = ncx_put_NC(mem) \/ page' \in EndefFailPages
      BY <2>4 DEF NC3__enddef
    <3>3. disk' \in {page', Written(page')}
      BY <2>4 DEF NC3__enddef
    <3> QED
      BY <3>1, <3>2, <3>3, UniquePages DEF UniqueInv
  <2>5. CASE NC3_sync
    <3>1. open /\ page \in Header
      BY <2>5, PageTypes DEF NC3_sync, DataMode, NC_indef
    <3>2. mem' \in {mem, page, FreedHeader(mem)}
      BY <2>5 DEF NC3_sync, read_NC
    <3>3. \/ UNCHANGED <<page, disk>>
          \/ page' = NC_syncPage /\ disk' \in {NC_syncPage, Written(NC_syncPage)}
      BY <2>5 DEF NC3_sync
    <3> QED
      BY <1>0, <3>1, <3>2, <3>3, UniquePages DEF UniqueInv
  <2>6. CASE NC3_abort
    <3>1. open
      BY <2>6 DEF NC3_abort
    <3>2. \/ Released /\ disk' \in ClosedDisks(page) \cup ClosedDisks(NC_syncPage) \cup {NoFile}
          \/ UNCHANGED <<mem, page, disk>>
      BY <2>6 DEF NC3_abort
    <3> QED
      BY <3>1, <3>2, UniquePages, UniqueReleased, NC3FileAssumption DEF UniqueInv
  <2>7. CASE NC3_close
    <3>1. open
      BY <2>7 DEF NC3_close, CloseData, CloseDefine, DataMode, DefineMode
    <3>2. CASE CloseData
      <4>1. \/ Released /\ disk' \in ClosedDisks(page) \cup ClosedDisks(NC_syncPage)
            \/ mem' = mem /\ page' = NC_syncPage /\ disk' \in ClosedDisks(page')
        BY <3>2 DEF CloseData
      <4> QED
        BY <3>1, <4>1, UniquePages, UniqueReleased DEF UniqueInv
    <3>3. CASE CloseDefine
      <4>1. \/ /\ Released
               /\ \/ disk' \in {NoFile, ncx_put_NC(mem)} \cup ClosedDisks(ncx_put_NC(mem))
                  \/ \E p \in EndefFailPages : disk' \in ClosedDisks(p)
            \/ mem' = mem /\ page' = ncx_put_NC(mem) /\ disk' = page'
        BY <3>3 DEF CloseDefine
      <4> QED
        BY <3>1, <4>1, UniquePages, UniqueReleased, NC3FileAssumption DEF UniqueInv
    <3> QED
      BY <2>7, <3>2, <3>3 DEF NC3_close
  <2>8. CASE px_pgout
    BY <2>8 DEF px_pgout, UniqueInv
  <2>9. CASE Crash
    BY <2>9, UniqueReleased DEF Crash, UniqueInv
  <2> QED
    BY <1>5, <2>1, <2>2, <2>3, <2>4, <2>5, <2>6, <2>7, <2>8, <2>9 DEF Lifecycle
<1> QED
  BY <1>1, <1>2, <1>3, <1>4, <1>5, NextCases

\* No sequence of definitions, renames in either mode, syncs, re-reads,
\* failing calls and re-opens gives two dimensions, two variables or two
\* attributes one name.
THEOREM NamesStayUnique == Spec => []NamesUnique
<1>1. Init => TypeInv /\ UniqueInv
  <2>1. Unique(EmptyHeader)
    BY DEF Unique, UniqueIn, UniqueAmong, EmptyHeader
  <2> QED
    BY <2>1, EmptyIsHeader, NC3FileAssumption
       DEF Init, TypeInv, TypeOK, PageInv, UniqueInv
<1>2. TypeInv /\ UniqueInv /\ [Next]_vars => TypeInv' /\ UniqueInv'
  BY TypeNext, UniqueNext
<1>3. UniqueInv => NamesUnique
  BY DEF UniqueInv, Unique, UniqueIn, UniqueAmong, NamesUnique
<1> QED
  BY <1>1, <1>2, <1>3, PTL DEF Spec
----------------------------------------------------------------------------
(* What a call that reported success has left in the file *)

\* SyncOnDisk is not inductive by itself: the I/O layer may write the page out
\* at any time, and only the page tells what the file then holds.
SyncedInv == ret = "synced" => page = ncx_put_NC(mem) /\ disk = ncx_put_NC(mem)

\* Every call but nc_sync and nc_enddef reports something else, and those two
\* have written the header in memory: nc_sync because the flags that say what
\* to write tell the truth.
LEMMA SyncedNext ==
    ASSUME FlagsInv, SyncedInv, [Next]_vars
    PROVE  SyncedInv'
<1> SUFFICES ASSUME ret' = "synced"
             PROVE  page' = ncx_put_NC(mem') /\ disk' = ncx_put_NC(mem')
  BY DEF SyncedInv
<1>1. CASE UNCHANGED vars
  BY <1>1 DEF vars, SyncedInv
<1>2. CASE Changing
  <2>1. PICK h : ChangeHeader(h)
    BY <1>2, ChangingExtends DEF FlagsInv, TypeInv
  <2> QED
    BY <2>1 DEF ChangeHeader
<1>3. ASSUME NEW m \in {"FILL", "NOFILL"}, NC3_set_fill(m)
      PROVE  FALSE
  BY <1>3 DEF NC3_set_fill, AssertFailure
<1>4. ASSUME NEW i \in DOMAIN mem.vars, NEW n \in 1 .. MaxRecs, NC3_put_vara(i, n)
      PROVE  FALSE
  BY <1>4 DEF NC3_put_vara
<1>5. CASE Lifecycle
  <2>1. CASE NC3__enddef
    BY <2>1 DEF NC3__enddef
  <2>2. CASE NC3_sync
    <3>1. ~NC_readonly /\ DataMode /\ mem' = mem /\ page' = NC_syncPage /\ disk' = page'
      BY <2>2 DEF NC3_sync
    <3> QED
      BY <3>1, SyncPageIsMem DEF FlagsInv
  <2>3. CASE px_pgout
    BY <2>3 DEF px_pgout, SyncedInv
  <2>4. CASE ~(NC3__enddef \/ NC3_sync \/ px_pgout)
    BY <1>5, <2>4
       DEF Lifecycle, NC3_create, NC3_open, NC3_redef, NC3_abort, NC3_close, CloseData,
           CloseDefine, Crash
  <2> QED
    BY <2>1, <2>2, <2>3, <2>4
<1> QED
  BY <1>1, <1>2, <1>3, <1>4, <1>5, NextCases

\* After an nc_sync or nc_enddef that reported success the file holds the
\* whole header in memory, numrecs included, for every sequence of calls
\* before it and, without NC_SHARE, whichever reads and writes failed.
THEOREM SyncedIsOnDisk == Reliable => (Spec => []SyncOnDisk)
<1> SUFFICES ASSUME Reliable PROVE Spec => []SyncOnDisk
  OBVIOUS
<1>1. Init => FlagsInv /\ SyncedInv
  BY FlagsInit DEF Init, SyncedInv
<1>2. FlagsInv /\ SyncedInv /\ [Next]_vars => FlagsInv' /\ SyncedInv'
  BY TypeNext, OpenNext, StoredNext, DirtyNext, SyncedNext DEF FlagsInv
<1>3. SyncedInv => SyncOnDisk
  BY DEF SyncedInv, SyncOnDisk
<1> QED
  BY <1>1, <1>2, <1>3, PTL DEF Spec

\* When no read or write fails, an nc_close of a writer that returned
\* NC_NOERR has left the header in memory in the file, in data mode (where
\* only what is marked dirty is written) and in define mode.  NC3_close drops
\* the status of ncio_close, so that a failing flush refutes it.
THEOREM ClosedIsOnDisk == IOFails = FALSE => (Spec => CloseOnDisk)
<1> SUFFICES ASSUME IOFails = FALSE PROVE Spec => CloseOnDisk
  OBVIOUS
<1>1. Init => FlagsInv
  BY FlagsInit
<1>2. FlagsInv /\ [Next]_vars => FlagsInv'
  BY TypeNext, OpenNext, StoredNext, DirtyNext DEF FlagsInv, Reliable
<1>3. FlagsInv =>
        [(NC3_close /\ ret' = "closed" /\ ~NC_readonly) => disk' = ncx_put_NC(mem)]_vars
  <2> SUFFICES ASSUME FlagsInv, NC3_close, ret' = "closed", ~NC_readonly
               PROVE  disk' = ncx_put_NC(mem)
    OBVIOUS
  <2>1. CASE CloseData
    <3>1. DataMode /\ disk' = NC_syncPage
      BY <2>1 DEF CloseData, ClosedDisks
    <3> QED
      BY <3>1, SyncPageIsMem DEF FlagsInv
  <2>2. CASE CloseDefine
    BY <2>2 DEF CloseDefine
  <2> QED
    BY <2>1, <2>2 DEF NC3_close
<1> QED
  BY <1>1, <1>2, <1>3, PTL DEF Spec, CloseOnDisk
=============================================================================
