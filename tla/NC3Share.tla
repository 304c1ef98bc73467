------------------------------ MODULE NC3Share ------------------------------
(***************************************************************************)
(* One process writes the records of a classic dataset while another reads *)
(* them, both with NC_SHARE: libsrc/putget.m4 over the spx functions of    *)
(* libsrc/posixio.c, which read a region at every ncio_get and write it at *)
(* every ncio_rel.  There are no locks.  The processes meet in the file,   *)
(* and in one number of it: numrecs, of which each keeps a copy.           *)
(*                                                                         *)
(* A step is one read or one write of the file; what a call does in memory *)
(* between two of them belongs to one of the two.  The header is fixed:    *)
(* nvars record variables, all defined before the processes start.         *)
(***************************************************************************)
EXTENDS Integers, FiniteSets

CONSTANTS
    VarCounts,    \* how many record variables there may be
    MaxRec,       \* bound: the number of records
    MaxPuts,      \* bound: how many times nc_put_vara is called
    MaxCrashes,   \* bound: how many times the writer dies
    Faults,       \* which I/O of the writer may fail
    Retries       \* what a reader does after an error: "sync" or "again"

FaultKinds == {"fill", "numrecs", "data", "lost"}

ASSUME NC3ShareAssumption ==
    /\ VarCounts \subseteq Nat \ {0}
    /\ MaxRec \in Nat \ {0} /\ MaxPuts \in Nat /\ MaxCrashes \in Nat
    /\ Faults \subseteq FaultKinds
    /\ Retries \subseteq {"sync", "again"}

VARIABLES
    nvars,   \* number of record variables
    retry,   \* the habit of the reader
    file,    \* numrecs in the header, and the data
    w,       \* the writer: NC3_INFO and the call in progress
    r,       \* the reader, likewise
    hist     \* history: what the writer was told, and what the reader may expect

vars == <<nvars, retry, file, w, r, hist>>

Recs == 0 .. MaxRec - 1
Cells == (1 .. nvars) \X Recs

\* The value of a record of a variable: the number of the put that wrote it,
\* the fill value, or the zeros of a part of the file nobody wrote.
Fill == 0
Hole == -1
Values == Hole .. MaxPuts

\* nc_get_var: as many records as there are.
All == -1

Puts == {[var |-> v, start |-> s, count |-> c] :
            v \in 1 .. nvars, s \in Recs, c \in 0 .. MaxRec}
Gets == [var : 1 .. nvars, start : Recs, count : 0 .. MaxRec]
            \cup [var : 1 .. nvars, start : {0}, count : {All}]

NoCall == [var |-> 1, start |-> 0, count |-> 0]

-----------------------------------------------------------------------------
(* The writer *)

\* nc_get_NC reads the header, and with it numrecs, whatever was known of it.
\* Mutant: numrecs is kept.
nc_get_NCKeeps(known) == known

nc_get_NC(known) == file.nr

\* nc_open for writing, with NC_SHARE.
WriterOpen ==
    /\ w.pc = "closed"
    /\ w' = [w EXCEPT !.pc = "idle", !.nr = nc_get_NC(@)]
    /\ UNCHANGED <<nvars, retry, file, r, hist>>

\* NCvnrecs up to its first write.  numrecs becomes dirty if there are to be
\* more records.  In fill mode they are filled one by one, from numrecs on; in
\* NOFILL mode numrecs is simply set.  Mutant: every record is filled.
NCvnrecsRefills(upto) ==
    IF upto <= w.nr THEN [w EXCEPT !.pc = "data"]
    ELSE IF w.nofill THEN [w EXCEPT !.pc = "numrecs", !.ndirty = TRUE, !.nr = upto]
    ELSE [w EXCEPT !.pc = "fill", !.ndirty = TRUE, !.nr = 0]

NCvnrecs(upto) ==
    IF upto <= w.nr THEN [w EXCEPT !.pc = "data"]
    ELSE IF w.nofill THEN [w EXCEPT !.pc = "numrecs", !.ndirty = TRUE, !.nr = upto]
    ELSE [w EXCEPT !.pc = "fill", !.ndirty = TRUE]

\* NC3_put_vara up to its first write.
NC3_put_vara ==
    /\ w.pc = "idle" /\ w.ver < MaxPuts
    /\ \E q \in Puts :
        LET upto == q.start + q.count
        IN  /\ upto <= MaxRec
            /\ w' = [NCvnrecs(upto) EXCEPT !.call = q, !.ver = @ + 1, !.at = q.start]
            /\ hist' = [hist EXCEPT !.nofilled =
                          IF w.nofill THEN @ \cup w.nr .. upto - 1 ELSE @]
    /\ UNCHANGED <<nvars, retry, file, r>>

\* The call returns: its local variables are gone.
Returned(x) == [x EXCEPT !.pc = "idle", !.call = NoCall, !.at = 0, !.fvar = 1]

\* The call returns an error; the application carries on.
Fails ==
    /\ w' = Returned(w)
    /\ hist' = [hist EXCEPT !.faulted = TRUE]
    /\ UNCHANGED file

\* The last variable NCfillrecord fills.  Mutant: the special case of one record
\* variable is taken for any number of them.
LastVarSpecial == TRUE

LastVar == w.fvar = nvars

\* NCfillrecord: the fill values of one variable in the first record that is
\* not there yet; numrecs grows in memory with the last variable.
fill_NC_var ==
    /\ w.pc = "fill"
    /\ \/ LET upto == w.call.start + w.call.count
          IN  /\ file' = [file EXCEPT !.dat[<<w.fvar, w.nr>>] = Fill]
              /\ w' = [w EXCEPT !.fvar = IF LastVar THEN 1 ELSE @ + 1,
                                !.nr = IF LastVar THEN @ + 1 ELSE @,
                                !.pc = IF LastVar /\ w.nr + 1 = upto THEN "numrecs"
                                       ELSE @]
              /\ UNCHANGED hist
       \/ "fill" \in Faults /\ Fails
    /\ UNCHANGED <<nvars, retry, r>>

\* write_numrecs: ncio_get may fail, and then numrecs stays dirty; the status of
\* ncio_rel, which does the writing, is not looked at.
NumrecsWritten ==
    {[file EXCEPT !.nr = w.nr]} \cup (IF "lost" \in Faults THEN {file} ELSE {})

\* Mutant: the flag is cleared although ncio_get failed.
write_numrecsForgets(then, nofill) ==
    \/ /\ file' \in NumrecsWritten
       /\ w' = [w EXCEPT !.ndirty = FALSE, !.pc = then, !.nofill = nofill]
       /\ hist' = [hist EXCEPT !.faulted = FALSE, !.told = hist.put]
    \/ /\ "numrecs" \in Faults
       /\ w' = [Returned(w) EXCEPT !.ndirty = FALSE]
       /\ hist' = [hist EXCEPT !.faulted = TRUE]
       /\ UNCHANGED file

write_numrecs(then, nofill) ==
    \/ /\ file' \in NumrecsWritten
       /\ w' = [w EXCEPT !.ndirty = FALSE, !.pc = then, !.nofill = nofill]
       /\ hist' = [hist EXCEPT !.faulted = FALSE, !.told = hist.put]
    \/ "numrecs" \in Faults /\ Fails

\* The end of NCvnrecs: with NC_SHARE numrecs is written before the data.
NumrecsOfPut ==
    /\ w.pc = "numrecs"
    /\ write_numrecs("data", w.nofill)
    /\ UNCHANGED <<nvars, retry, r>>

\* What one writeNCv or readNCv transfers: one record, or, if there is only
\* one record variable, all that remain.
Batch(at, upto) == IF nvars = 1 THEN at .. upto - 1 ELSE {at} \cap at .. upto - 1

After(at, upto) == IF nvars = 1 \/ at >= upto THEN upto ELSE at + 1

\* The ripple counter of NC3_put_vara.  When it is done the caller is told
\* NC_NOERR.  The history counts that as a promise, except while an earlier
\* error leaves numrecs dirty: then the promise is that of the next nc_sync.
writeNCv ==
    /\ w.pc = "data"
    /\ \/ LET upto == w.call.start + w.call.count
              batch == {w.call.var} \X Batch(w.at, upto)
              written == {w.call.var} \X (w.call.start .. upto - 1)
              put == [c \in Cells |-> IF c \in written THEN w.ver ELSE hist.put[c]]
              done == After(w.at, upto) = upto
          IN  /\ \E lost \in {FALSE} \cup {"lost" \in Faults} :
                    file' = [file EXCEPT !.dat = [c \in Cells |->
                                IF c \in batch /\ ~lost THEN w.ver ELSE @[c]]]
              /\ w' = IF done THEN Returned(w) ELSE [w EXCEPT !.at = After(@, upto)]
              /\ hist' = [hist EXCEPT
                            !.put = IF done THEN put ELSE @,
                            !.told = IF done /\ ~(w.ndirty /\ hist.faulted)
                                     THEN put ELSE @]
       \/ "data" \in Faults /\ Fails
    /\ UNCHANGED <<nvars, retry, r>>

\* NC_sync: only numrecs can be dirty here.  ncio_spx_sync does nothing.
NC_sync(nofill) ==
    \/ w.ndirty /\ write_numrecs("idle", nofill)
    \/ ~w.ndirty /\ w' = [w EXCEPT !.nofill = nofill] /\ UNCHANGED <<file, hist>>

NC3_sync ==
    /\ w.pc = "idle" /\ NC_sync(w.nofill)
    /\ UNCHANGED <<nvars, retry, r>>

\* nc_set_fill: the way back to NC_FILL synchronises first, and stops if it fails.
NC3_set_fill ==
    /\ w.pc = "idle"
    /\ \/ w.nofill /\ NC_sync(FALSE)
       \/ ~w.nofill /\ w' = [w EXCEPT !.nofill = TRUE] /\ UNCHANGED <<file, hist>>
    /\ UNCHANGED <<nvars, retry, r>>

\* The writer is gone: what it knew, and what it was not told, goes with it.
Gone(f, h) ==
    /\ w' = [Returned(w) EXCEPT !.pc = "closed", !.ndirty = FALSE,
                                !.nofill = FALSE, !.nr = 0]
    /\ hist' = [h EXCEPT !.faulted = FALSE, !.put = h.told,
                         !.nofilled = {k \in @ : k < f.nr}]

\* nc_close: NC_sync, and the file is closed whatever that returned.
NC3_close ==
    /\ w.pc = "idle"
    /\ \/ /\ file' \in IF w.ndirty THEN NumrecsWritten ELSE {file}
          /\ Gone(file', [hist EXCEPT !.told = hist.put])
       \/ /\ w.ndirty /\ "numrecs" \in Faults
          /\ Gone(file, hist) /\ UNCHANGED file
    /\ UNCHANGED <<nvars, retry, r>>

\* The writer dies between two writes.
Crash ==
    /\ w.pc # "closed" /\ hist.crashes < MaxCrashes
    /\ Gone(file, [hist EXCEPT !.crashes = @ + 1])
    /\ UNCHANGED <<nvars, retry, file, r>>

Writer == \/ WriterOpen \/ NC3_put_vara \/ fill_NC_var \/ NumrecsOfPut
          \/ writeNCv \/ NC3_sync \/ NC3_set_fill \/ NC3_close \/ Crash

-----------------------------------------------------------------------------
(* The reader *)

ReaderOpen ==
    /\ r.pc = "closed"
    /\ r' = [r EXCEPT !.pc = "idle", !.nr = nc_get_NC(@)]
    /\ UNCHANGED <<nvars, retry, file, w, hist>>

\* The application decides what it wants.
Ask ==
    /\ r.pc = "idle"
    /\ \E q \in Gets :
        /\ q.start + q.count <= MaxRec
        /\ r' = [r EXCEPT !.pc = "asked", !.call = q, !.got = [k \in {} |-> Fill]]
    /\ UNCHANGED <<nvars, retry, file, w, hist>>

\* NCcoordck: numrecs is read again if the first record asked for lies beyond
\* the copy of it.
NCcoordck(start) == IF start > r.nr THEN file.nr ELSE r.nr

\* NCedgeck, and the check of the last record in NC3_get_vara.
InBounds(start, count, nr) ==
    /\ start <= nr
    /\ ~(start = nr /\ count > 0)
    /\ start + count <= nr

\* NC3_get_vara up to its first read of data.
NC3_get_vara ==
    /\ r.pc = "asked"
    /\ LET q == r.call
           count == IF q.count = All THEN r.nr ELSE q.count
           nr == NCcoordck(q.start)
       IN  r' = IF InBounds(q.start, count, nr)
                THEN [r EXCEPT !.nr = nr, !.pc = "reading",
                               !.at = q.start, !.upto = q.start + count]
                ELSE [r EXCEPT !.nr = nr, !.pc = "refused"]
    /\ hist' = [hist EXCEPT !.floor = [k \in Recs |-> hist.told[<<r.call.var, k>>]]]
    /\ UNCHANGED <<nvars, retry, file, w>>

\* ncio_get: the region is read from the file every time.
spx_get(c) == file.dat[c]

\* The ripple counter of NC3_get_vara.
readNCv ==
    /\ r.pc = "reading"
    /\ LET batch == Batch(r.at, r.upto)
           done == After(r.at, r.upto) = r.upto
       IN  r' = [r EXCEPT
                   !.got = [k \in DOMAIN @ \cup batch |->
                              IF k \in batch THEN spx_get(<<r.call.var, k>>) ELSE @[k]],
                   !.at = IF done THEN 0 ELSE After(@, r.upto),
                   !.upto = IF done THEN 0 ELSE @,
                   !.call = IF done THEN NoCall ELSE @,
                   !.pc = IF done THEN "idle" ELSE @]
    /\ UNCHANGED <<nvars, retry, file, w, hist>>

\* After NC_EINVALCOORDS or NC_EEDGE the application asks again, calling
\* nc_sync first if that is its habit.  For a reader nc_sync is read_NC.
TryAgain ==
    /\ r.pc = "refused"
    /\ r' = [r EXCEPT !.pc = "asked", !.nr = IF retry = "sync" THEN nc_get_NC(@) ELSE @]
    /\ UNCHANGED <<nvars, retry, file, w, hist>>

Reader == ReaderOpen \/ Ask \/ NC3_get_vara \/ readNCv \/ TryAgain

-----------------------------------------------------------------------------
Init ==
    /\ nvars \in VarCounts
    /\ retry \in Retries
    /\ file = [nr |-> 0, dat |-> [c \in Cells |-> Hole]]
    /\ w = [pc |-> "closed", nr |-> 0, ndirty |-> FALSE, nofill |-> FALSE,
            call |-> NoCall, ver |-> 0, at |-> 0, fvar |-> 1]
    /\ r = [pc |-> "closed", nr |-> 0, call |-> NoCall, at |-> 0, upto |-> 0,
            got |-> [k \in {} |-> Fill]]
    /\ hist = [put |-> [c \in Cells |-> Hole], told |-> [c \in Cells |-> Hole],
               floor |-> [k \in Recs |-> Hole], nofilled |-> {},
               faulted |-> FALSE, crashes |-> 0]

Next == Writer \/ Reader

\* A call that has begun is carried on: its process is scheduled, and it does
\* not wait for anything.  An application that was refused asks again.
Fairness == WF_vars(NC3_get_vara) /\ WF_vars(readNCv) /\ WF_vars(TryAgain)

Spec == Init /\ [][Next]_vars /\ Fairness

-----------------------------------------------------------------------------
(* Properties *)

\* The reader's copy of numrecs never exceeds the number in the file, nor the
\* file's that of an open writer.
TypeOK ==
    /\ nvars \in VarCounts /\ retry \in Retries
    /\ file \in [nr : 0 .. MaxRec, dat : [Cells -> Values]]
    /\ w \in [pc : {"closed", "idle", "fill", "numrecs", "data"}, nr : 0 .. MaxRec,
              ndirty : BOOLEAN, nofill : BOOLEAN, call : Puts, ver : 0 .. MaxPuts,
              at : 0 .. MaxRec, fvar : 1 .. nvars]
    /\ r \in [pc : {"closed", "idle", "asked", "reading", "refused"}, nr : 0 .. MaxRec,
              call : Gets, at : 0 .. MaxRec, upto : 0 .. MaxRec,
              got : UNION {[S -> Values] : S \in SUBSET Recs}]
    /\ hist \in [put : [Cells -> Values], told : [Cells -> Values],
                 floor : [Recs -> Values], nofilled : SUBSET Recs,
                 faulted : BOOLEAN, crashes : 0 .. MaxCrashes]
    /\ r.nr <= file.nr
    /\ w.pc # "closed" => file.nr <= w.nr

\* A reader never gets the zeros of a record that nobody wrote, unless the
\* record was made in NOFILL mode: numrecs goes to the file after the fill values
\* of every variable, also when the put that made the record was cut short.
NoHoles == \A k \in DOMAIN r.got : r.got[k] = Hole => k \in hist.nofilled

\* What NC_SHARE is for: a get returns, for each record, what the last put that
\* had returned before the get was called has written, or something newer (puts
\* count from when PutsStay counts them).
\* Neither a buffer of the reader nor a refill by the writer shows older data.
Fresh == \A k \in DOMAIN r.got : r.got[k] >= hist.floor[k]

\* A put that has returned NC_NOERR is in the file, within numrecs, whatever
\* happens to the writer then: a crash, a put that fails, a restart that
\* fills records it takes to be new.  A put that returns NC_NOERR while an
\* earlier error has left numrecs dirty counts only once numrecs is written,
\* by nc_sync, nc_set_fill, nc_close or a put that adds records (hist.told).
PutsStay ==
    \A c \in Cells : hist.told[c] > Fill =>
        c[2] < file.nr /\ file.dat[c] >= hist.told[c]

\* A reader that asks for records the file has is given them at last, if it
\* asks again after a refusal.
Served ==
    (r.pc = "asked" /\ r.call.start + r.call.count <= file.nr) ~> (r.pc = "idle")

=============================================================================
