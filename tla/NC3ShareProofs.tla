--------------------------- MODULE NC3ShareProofs ---------------------------
(***************************************************************************)
(* Theorems about NC3Share for any number of record variables, records,    *)
(* puts and crashes, and any order of the steps of the two processes.      *)
(***************************************************************************)
EXTENDS NC3Share, TLAPS

\* No status of a write is thrown away: see NumrecsWritten.
NoLost == "lost" \notin Faults

\* One past the last record of the put in progress.
Upto == w.call.start + w.call.count

\* What the program counter says of the put in progress.
WriterInv ==
    /\ Upto <= MaxRec
    /\ w.pc = "fill" => w.nr < Upto
    /\ w.pc \in {"numrecs", "data"} => Upto <= w.nr
    /\ w.pc \in {"fill", "numrecs"} => w.at = w.call.start
    /\ w.pc \in {"fill", "numrecs", "data"} =>
          w.call.start <= w.at /\ w.at <= Upto /\ w.ver > Fill
    /\ w.pc # "fill" => w.fvar = 1
    /\ w.pc = "closed" => ~w.ndirty

\* A get reads no record beyond the copy of numrecs it was checked against.
ReaderInv ==
    /\ r.pc = "reading" => r.at <= r.upto /\ r.upto <= r.nr
    /\ \A k \in DOMAIN r.got : k < r.nr
    /\ r.pc \in {"asked", "refused"} => DOMAIN r.got = {}

TypeInv == TypeOK /\ WriterInv /\ ReaderInv

-----------------------------------------------------------------------------
(* The values of r.got and of the calls *)

\* What TypeOK says of r.got, field by field.
LEMMA GotType ==
    ASSUME NEW g
    PROVE  g \in UNION {[S -> Values] : S \in SUBSET Recs} <=>
              /\ g = [k \in DOMAIN g |-> g[k]]
              /\ DOMAIN g \subseteq Recs
              /\ \A k \in DOMAIN g : g[k] \in Values
<1>1. ASSUME NEW S \in SUBSET Recs, g \in [S -> Values]
      PROVE  /\ g = [k \in DOMAIN g |-> g[k]]
             /\ DOMAIN g \subseteq Recs
             /\ \A k \in DOMAIN g : g[k] \in Values
  BY <1>1
<1>2. ASSUME g = [k \in DOMAIN g |-> g[k]], DOMAIN g \subseteq Recs,
             \A k \in DOMAIN g : g[k] \in Values
      PROVE  DOMAIN g \in SUBSET Recs /\ g \in [DOMAIN g -> Values]
  BY <1>2
<1> QED
  BY <1>1, <1>2

\* Nothing has been got before the first read of a get.
LEMMA NothingGot ==
    /\ [k \in {} |-> Fill] \in UNION {[S -> Values] : S \in SUBSET Recs}
    /\ DOMAIN [k \in {} |-> Fill] = {}
<1> DEFINE g == [k \in {} |-> Fill]
<1>1. DOMAIN g = {} /\ g = [k \in DOMAIN g |-> g[k]]
  OBVIOUS
<1> HIDE DEF g
<1>2. g \in UNION {[S -> Values] : S \in SUBSET Recs}
  BY <1>1, GotType
<1> QED
  BY <1>1, <1>2 DEF g

\* A put, field by field.
LEMMA PutType ==
    ASSUME NEW q \in Puts
    PROVE  /\ q.var \in 1 .. nvars /\ q.start \in Recs /\ q.count \in 0 .. MaxRec
           /\ q = [var |-> q.var, start |-> q.start, count |-> q.count]
BY DEF Puts

\* A get, field by field.
LEMMA GetType ==
    ASSUME NEW q \in Gets
    PROVE  /\ q.var \in 1 .. nvars /\ q.start \in Recs
           /\ q.count \in 0 .. MaxRec \cup {All}
           /\ q.count = All => q.start = 0
BY NC3ShareAssumption DEF Gets, Recs, All

\* The call of a process that is in none.
LEMMA NoCallType == nvars \in VarCounts => NoCall \in Puts /\ NoCall \in Gets
<1> SUFFICES ASSUME nvars \in VarCounts PROVE NoCall \in Puts /\ NoCall \in Gets
  OBVIOUS
<1>1. 1 \in 1 .. nvars /\ 0 \in Recs /\ 0 \in 0 .. MaxRec
  BY NC3ShareAssumption DEF Recs
<1> QED
  BY <1>1 DEF NoCall, Puts, Gets

\* The sets of cells and calls depend on nvars alone, which no step changes.
LEMMA SameSets ==
    ASSUME nvars' = nvars
    PROVE  Cells' = Cells /\ Puts' = Puts /\ Gets' = Gets
BY DEF Cells, Puts, Gets

-----------------------------------------------------------------------------
(* TypeInv, one lemma per action *)

FileType == [nr : 0 .. MaxRec, dat : [Cells -> Values]]

WriterType ==
    [pc : {"closed", "idle", "fill", "numrecs", "data"}, nr : 0 .. MaxRec,
     ndirty : BOOLEAN, nofill : BOOLEAN, call : Puts, ver : 0 .. MaxPuts,
     at : 0 .. MaxRec, fvar : 1 .. nvars]

ReaderType ==
    [pc : {"closed", "idle", "asked", "reading", "refused"}, nr : 0 .. MaxRec,
     call : Gets, at : 0 .. MaxRec, upto : 0 .. MaxRec,
     got : UNION {[S -> Values] : S \in SUBSET Recs}]

HistType ==
    [put : [Cells -> Values], told : [Cells -> Values],
     floor : [Recs -> Values], nofilled : SUBSET Recs,
     faulted : BOOLEAN, crashes : 0 .. MaxCrashes]

\* TypeOK in terms of the types of the four records.
LEMMA TypeParts ==
    TypeOK <=> /\ nvars \in VarCounts /\ retry \in Retries
               /\ file \in FileType /\ w \in WriterType
               /\ r \in ReaderType /\ hist \in HistType
               /\ r.nr <= file.nr
               /\ w.pc # "closed" => file.nr <= w.nr
BY DEF TypeOK, FileType, WriterType, ReaderType, HistType

\* The same of the next state, for a step that leaves nvars alone.
LEMMA TypePartsNext ==
    ASSUME nvars' = nvars
    PROVE  TypeOK' <=> /\ nvars' \in VarCounts /\ retry' \in Retries
                       /\ file' \in FileType /\ w' \in WriterType
                       /\ r' \in ReaderType /\ hist' \in HistType
                       /\ r'.nr <= file'.nr
                       /\ w'.pc # "closed" => file'.nr <= w'.nr
<1>1. Cells' = Cells /\ Puts' = Puts /\ Gets' = Gets
  BY SameSets
<1>2. Recs' = Recs /\ Values' = Values
  BY DEF Recs, Values
<1> QED
  BY <1>1, <1>2 DEF TypeOK, FileType, WriterType, ReaderType, HistType

\* A call that returns leaves the writer idle with what it knew.
LEMMA ReturnedType ==
    ASSUME TypeInv
    PROVE  /\ Returned(w) \in WriterType
           /\ Returned(w).pc = "idle" /\ Returned(w).fvar = 1
           /\ Returned(w).call = NoCall /\ Returned(w).nr = w.nr
           /\ Returned(w).ver = w.ver /\ Returned(w).ndirty = w.ndirty
           /\ Returned(w).nofill = w.nofill
<1>1. w \in WriterType /\ nvars \in VarCounts
  BY TypeParts DEF TypeInv
<1>2. NoCall \in Puts /\ 1 \in 1 .. nvars /\ 0 \in 0 .. MaxRec
  BY <1>1, NoCallType, NC3ShareAssumption
<1> QED
  BY <1>1, <1>2 DEF Returned, WriterType

\* A writer that is idle, with no put in progress.
LEMMA IdleInv ==
    ASSUME TypeInv, w'.pc = "idle", w'.call = NoCall \/ w'.call = w.call, w'.fvar = 1
    PROVE  WriterInv'
BY NC3ShareAssumption DEF TypeInv, WriterInv, NoCall, Upto

\* The reader's part is kept by a step of the writer.
LEMMA ReaderKept ==
    ASSUME TypeInv, UNCHANGED r
    PROVE  ReaderInv'
BY DEF TypeInv, ReaderInv

\* A call that fails keeps the types.
LEMMA FailsType ==
    ASSUME TypeInv, Fails, w.pc # "closed", UNCHANGED <<nvars, retry, r>>
    PROVE  TypeInv'
<1>1. w' \in WriterType /\ w'.pc = "idle" /\ w'.fvar = 1 /\ w'.call = NoCall /\ w'.nr = w.nr
  BY ReturnedType DEF Fails
<1>2. hist' \in HistType
  BY TypeParts DEF Fails, HistType, TypeInv
<1>3. TypeOK'
  BY <1>1, <1>2, TypeParts, TypePartsNext DEF TypeInv, Fails
<1> QED
  BY <1>1, <1>3, IdleInv, ReaderKept DEF TypeInv

\* nc_open of the writer.
LEMMA WriterOpenType == ASSUME TypeInv, WriterOpen PROVE TypeInv'
<1>1. w' \in WriterType /\ w'.pc = "idle" /\ w'.fvar = 1 /\ w'.call = w.call /\ w'.nr = file.nr
  BY TypeParts DEF WriterOpen, WriterType, FileType, nc_get_NC, TypeInv, WriterInv
<1>2. TypeOK'
  BY <1>1, TypeParts, TypePartsNext DEF TypeInv, WriterOpen, FileType
<1> QED
  BY <1>1, <1>2, IdleInv, ReaderKept DEF TypeInv, WriterOpen

\* What nc_put_vara does up to its first write, field by field.
LEMMA PutVaraDoes ==
    ASSUME TypeInv, NC3_put_vara
    PROVE  /\ w' \in WriterType /\ hist' \in HistType
           /\ w'.pc \in {"data", "numrecs", "fill"}
           /\ w'.call \in Puts /\ w'.call.start \in Nat /\ w'.call.count \in Nat
           /\ Upto' \in Nat /\ Upto' <= MaxRec
           /\ w'.ver = w.ver + 1 /\ w'.at = w'.call.start /\ w'.fvar = w.fvar
           /\ w'.pc = "fill" => w'.nr = w.nr /\ w.nr < Upto' /\ ~w.nofill
           /\ w'.pc = "data" => w'.nr = w.nr /\ Upto' <= w.nr /\ w'.ndirty = w.ndirty
           /\ w'.pc = "numrecs" => w'.nr = Upto' /\ w.nr < Upto' /\ w.nofill
           /\ w'.pc # "data" => w'.ndirty
           /\ hist' = [hist EXCEPT !.nofilled =
                         IF w.nofill THEN @ \cup w.nr .. Upto' - 1 ELSE @]
<1>1. PICK q \in Puts :
        LET upto == q.start + q.count
        IN  /\ upto <= MaxRec
            /\ w' = [NCvnrecs(upto) EXCEPT !.call = q, !.ver = @ + 1, !.at = q.start]
            /\ hist' = [hist EXCEPT !.nofilled =
                          IF w.nofill THEN @ \cup w.nr .. upto - 1 ELSE @]
  BY Zenon DEF NC3_put_vara
<1>2. q.start \in 0 .. MaxRec /\ q.count \in 0 .. MaxRec
  BY PutType, NC3ShareAssumption DEF Recs
<1>3. w \in WriterType /\ w.pc = "idle" /\ w.ver < MaxPuts /\ hist \in HistType
  BY TypeParts DEF TypeInv, NC3_put_vara
<1> DEFINE upto == q.start + q.count
           n == NCvnrecs(upto)
<1>4. upto \in 0 .. MaxRec
  BY <1>1, <1>2, NC3ShareAssumption
<1>5. /\ n \in WriterType /\ n.pc \in {"data", "numrecs", "fill"}
      /\ n.fvar = w.fvar /\ n.ver = w.ver
      /\ n.pc = "fill" => n.nr = w.nr /\ w.nr < upto /\ ~w.nofill /\ n.ndirty
      /\ n.pc = "data" => n.nr = w.nr /\ upto <= w.nr /\ n.ndirty = w.ndirty
      /\ n.pc = "numrecs" => n.nr = upto /\ w.nr < upto /\ w.nofill /\ n.ndirty
  <2> HIDE DEF upto
  <2>1. CASE upto <= w.nr
    BY <1>3, <1>4, <2>1 DEF NCvnrecs, WriterType
  <2>2. CASE upto > w.nr /\ w.nofill
    BY <1>3, <1>4, <2>2 DEF NCvnrecs, WriterType
  <2>3. CASE upto > w.nr /\ ~w.nofill
    BY <1>3, <1>4, <2>3 DEF NCvnrecs, WriterType
  <2> QED
    BY <1>3, <1>4, <2>1, <2>2, <2>3 DEF WriterType
<1>6. /\ w' = [n EXCEPT !.call = q, !.ver = @ + 1, !.at = q.start]
      /\ hist' = [hist EXCEPT !.nofilled =
                    IF w.nofill THEN @ \cup w.nr .. upto - 1 ELSE @]
  BY <1>1
<1> HIDE DEF n
<1>7. w.ver + 1 \in 0 .. MaxPuts
  BY <1>3, NC3ShareAssumption DEF WriterType
<1>8. /\ w' \in WriterType /\ w'.pc = n.pc /\ w'.nr = n.nr /\ w'.ndirty = n.ndirty
      /\ w'.call = q /\ w'.ver = w.ver + 1 /\ w'.at = q.start /\ w'.fvar = n.fvar
  BY <1>2, <1>5, <1>6, <1>7 DEF WriterType
<1>9. Upto' = upto
  BY <1>8 DEF Upto
<1>10. hist' \in HistType
  <2>1. (IF w.nofill THEN hist.nofilled \cup w.nr .. upto - 1 ELSE hist.nofilled) \in SUBSET Recs
    BY <1>3, <1>4, NC3ShareAssumption DEF HistType, WriterType, Recs
  <2> QED
    BY <1>3, <1>6, <2>1 DEF HistType
<1> HIDE DEF upto
<1>11. upto \in Nat /\ upto <= MaxRec /\ q.start \in Nat /\ q.count \in Nat
  BY <1>2, <1>4, NC3ShareAssumption
<1>12. hist' = [hist EXCEPT !.nofilled = IF w.nofill THEN @ \cup w.nr .. Upto' - 1 ELSE @]
  BY <1>6, <1>9 DEF upto
<1> QED
  BY <1>5, <1>8, <1>9, <1>10, <1>11, <1>12

\* nc_put_vara up to its first write keeps the types.
LEMMA PutVaraType == ASSUME TypeInv, NC3_put_vara PROVE TypeInv'
<1>1. TypeOK'
  <2>1. UNCHANGED <<nvars, retry, file, r>> /\ file.nr <= w.nr /\ file \in FileType /\ w \in WriterType
    BY TypeParts DEF NC3_put_vara, TypeInv
  <2>2. file'.nr <= w'.nr
    BY <2>1, PutVaraDoes DEF FileType, WriterType
  <2> QED
    BY <2>1, <2>2, PutVaraDoes, TypeParts, TypePartsNext DEF TypeInv
<1>2. WriterInv'
  <2>1. w.ver \in Nat /\ w.fvar = 1
    BY TypeParts, NC3ShareAssumption DEF TypeInv, WriterType, WriterInv, NC3_put_vara
  <2>2. w'.call.start <= Upto'
    BY PutVaraDoes DEF Upto
  <2> QED
    BY <2>1, <2>2, PutVaraDoes DEF WriterInv, Fill
<1> QED
  BY <1>1, <1>2, ReaderKept DEF TypeInv, NC3_put_vara

\* What NCfillrecord does for one variable, field by field.
LEMMA FillDoes ==
    ASSUME TypeInv, fill_NC_var, ~Fails
    PROVE  /\ file' = [file EXCEPT !.dat[<<w.fvar, w.nr>>] = Fill]
           /\ file' \in FileType /\ w' \in WriterType /\ UNCHANGED <<nvars, retry, r, hist>>
           /\ w.fvar \in 1 .. nvars /\ w.nr \in Recs /\ file.nr <= w.nr /\ w.pc = "fill"
           /\ w'.call = w.call /\ w'.ver = w.ver /\ w'.at = w.at /\ w'.ndirty = w.ndirty
           /\ \/ w.fvar = nvars /\ w'.fvar = 1 /\ w'.nr = w.nr + 1
                 /\ \/ w'.nr = Upto /\ w'.pc = "numrecs"
                    \/ w'.nr < Upto /\ w'.pc = "fill"
              \/ w.fvar < nvars /\ w'.fvar = w.fvar + 1 /\ w'.nr = w.nr /\ w'.pc = "fill"
<1>1. /\ file' = [file EXCEPT !.dat[<<w.fvar, w.nr>>] = Fill]
      /\ w' = [w EXCEPT !.fvar = IF LastVar THEN 1 ELSE @ + 1,
                        !.nr = IF LastVar THEN @ + 1 ELSE @,
                        !.pc = IF LastVar /\ w.nr + 1 = Upto THEN "numrecs" ELSE @]
      /\ UNCHANGED <<nvars, retry, r, hist>> /\ w.pc = "fill"
  BY DEF fill_NC_var, Upto
<1>2. w \in WriterType /\ file \in FileType /\ nvars \in Nat /\ file.nr <= w.nr
  BY <1>1, TypeParts, NC3ShareAssumption DEF TypeInv
<1>3. w.nr < Upto /\ Upto <= MaxRec /\ Upto \in Nat /\ w.nr \in Nat
  BY <1>1, <1>2, PutType, NC3ShareAssumption DEF TypeInv, WriterInv, Upto, WriterType, Recs
<1>4. w.fvar \in 1 .. nvars /\ w.nr \in Recs /\ Fill \in Values
  BY <1>2, <1>3, NC3ShareAssumption DEF WriterType, Recs, Values, Fill, Hole
<1>5. file' \in FileType
  <2>1. <<w.fvar, w.nr>> \in Cells
    BY <1>4 DEF Cells
  <2> QED
    BY <1>1, <1>2, <1>4, <2>1 DEF FileType
<1>6. CASE LastVar
  <2>1. w.nr + 1 \in 0 .. MaxRec /\ 1 \in 1 .. nvars
    BY <1>3, <1>4, <1>2, NC3ShareAssumption
  <2>2. /\ w' \in WriterType /\ w'.fvar = 1 /\ w'.nr = w.nr + 1
        /\ w'.pc = IF w.nr + 1 = Upto THEN "numrecs" ELSE "fill"
        /\ w'.call = w.call /\ w'.ver = w.ver /\ w'.at = w.at /\ w'.ndirty = w.ndirty
    BY <1>1, <1>2, <1>6, <2>1 DEF WriterType
  <2> QED
    BY <1>1, <1>2, <1>3, <1>4, <1>5, <1>6, <2>2 DEF LastVar
<1>7. CASE ~LastVar
  <2>1. w.fvar < nvars /\ w.fvar + 1 \in 1 .. nvars
    BY <1>2, <1>4, <1>7 DEF LastVar
  <2>2. /\ w' \in WriterType /\ w'.fvar = w.fvar + 1 /\ w'.nr = w.nr
        /\ w'.pc = "fill"
        /\ w'.call = w.call /\ w'.ver = w.ver /\ w'.at = w.at /\ w'.ndirty = w.ndirty
    BY <1>1, <1>2, <1>7, <2>1 DEF WriterType
  <2> QED
    BY <1>1, <1>2, <1>3, <1>4, <1>5, <1>7, <2>1, <2>2
<1> QED
  BY <1>6, <1>7

\* NCfillrecord keeps the types: numrecs in memory stays within the put.
LEMMA FillType == ASSUME TypeInv, fill_NC_var PROVE TypeInv'
<1>1. CASE Fails
  BY <1>1, FailsType DEF fill_NC_var
<1>2. CASE ~Fails
  <2>1. file.nr \in Nat /\ w.nr \in Nat /\ Upto \in Nat
    <3>1. w.call \in Puts /\ file.nr \in Nat /\ w.nr \in Nat
      BY TypeParts, NC3ShareAssumption DEF TypeInv, WriterType, FileType
    <3> QED
      BY <3>1, PutType, NC3ShareAssumption DEF Upto, Recs
  <2>2. file'.nr = file.nr
    BY <1>2, FillDoes, TypeParts DEF TypeInv, FileType
  <2>3. file'.nr <= w'.nr
    BY <1>2, <2>1, <2>2, FillDoes
  <2>4. TypeOK'
    BY <1>2, <2>2, <2>3, FillDoes, TypeParts, TypePartsNext DEF TypeInv
  <2>5. Upto' = Upto
    BY <1>2, FillDoes DEF Upto
  <2>6. WriterInv'
    BY <1>2, <2>1, <2>5, FillDoes DEF TypeInv, WriterInv
  <2> QED
    BY <1>2, <2>4, <2>6, FillDoes, ReaderKept DEF TypeInv
<1> QED
  BY <1>1, <1>2

\* write_numrecs when it does not fail: numrecs is clean in memory, and in the
\* file unless the write was lost.
Stored(then) ==
    /\ file' \in FileType /\ w' \in WriterType /\ hist' \in HistType
    /\ file'.dat = file.dat /\ file.nr <= file'.nr /\ file'.nr <= w.nr
    /\ NoLost => file'.nr = w.nr
    /\ w'.pc = then /\ w'.ndirty = FALSE /\ w'.nr = w.nr
    /\ w'.call = w.call /\ w'.ver = w.ver /\ w'.at = w.at /\ w'.fvar = w.fvar
    /\ hist' = [hist EXCEPT !.faulted = FALSE, !.told = hist.put]

\* write_numrecs fails, or stores numrecs.
LEMMA NumrecsDoes ==
    ASSUME TypeInv, NEW then \in {"idle", "data"}, NEW nofill \in BOOLEAN,
           w.pc # "closed", write_numrecs(then, nofill)
    PROVE  Fails \/ Stored(then)
<1> SUFFICES ASSUME ~Fails PROVE Stored(then)
  OBVIOUS
<1>1. /\ file' \in NumrecsWritten
      /\ w' = [w EXCEPT !.ndirty = FALSE, !.pc = then, !.nofill = nofill]
      /\ hist' = [hist EXCEPT !.faulted = FALSE, !.told = hist.put]
  BY DEF write_numrecs
<1>2. w \in WriterType /\ file \in FileType /\ hist \in HistType /\ file.nr <= w.nr
  BY TypeParts DEF TypeInv
<1>3. file' = file \/ file' = [file EXCEPT !.nr = w.nr]
  BY <1>1 DEF NumrecsWritten
<1>4. NoLost => file' = [file EXCEPT !.nr = w.nr]
  BY <1>1 DEF NumrecsWritten, NoLost
<1>5. /\ file' \in FileType /\ file'.dat = file.dat
      /\ file'.nr = file.nr \/ file'.nr = w.nr
      /\ NoLost => file'.nr = w.nr
  BY <1>2, <1>3, <1>4 DEF FileType, WriterType
<1>6. file.nr <= file'.nr /\ file'.nr <= w.nr
  BY <1>2, <1>5, NC3ShareAssumption DEF FileType, WriterType
<1>7. hist' \in HistType
  BY <1>1, <1>2 DEF HistType
<1>8. w' \in WriterType /\ w'.pc = then /\ w'.ndirty = FALSE /\ w'.nr = w.nr
      /\ w'.call = w.call /\ w'.ver = w.ver /\ w'.at = w.at /\ w'.fvar = w.fvar
  BY <1>1, <1>2 DEF WriterType
<1> QED
  BY <1>1, <1>5, <1>6, <1>7, <1>8 DEF Stored

\* Storing numrecs keeps the types.
LEMMA StoredType ==
    ASSUME TypeInv, NEW then \in {"idle", "data"}, w.pc # "closed", Stored(then),
           UNCHANGED <<nvars, retry, r>>
    PROVE  TypeOK'
<1>1. file.nr \in Int /\ file'.nr \in Int /\ r.nr \in Int /\ r.nr <= file.nr
  BY TypeParts, NC3ShareAssumption DEF TypeInv, FileType, ReaderType, Stored
<1>2. r'.nr <= file'.nr /\ file'.nr <= w'.nr
  BY <1>1 DEF Stored
<1> QED
  BY <1>2, TypeParts, TypePartsNext DEF TypeInv, Stored

\* The end of NCvnrecs fails or stores numrecs.
LEMMA NumrecsOfPutDoes ==
    ASSUME TypeInv, NumrecsOfPut
    PROVE  /\ w.pc = "numrecs" /\ UNCHANGED <<nvars, retry, r>>
           /\ Fails \/ Stored("data")
<1>1. w.pc = "numrecs" /\ write_numrecs("data", w.nofill) /\ UNCHANGED <<nvars, retry, r>>
  BY DEF NumrecsOfPut
<1>2. w.nofill \in BOOLEAN
  BY TypeParts DEF TypeInv, WriterType
<1> QED
  BY <1>1, <1>2, NumrecsDoes

\* The end of NCvnrecs keeps the types.
LEMMA NumrecsOfPutType == ASSUME TypeInv, NumrecsOfPut PROVE TypeInv'
<1>1. CASE Fails
  BY <1>1, FailsType, NumrecsOfPutDoes
<1>2. CASE Stored("data")
  <2>1. TypeOK'
    BY <1>2, NumrecsOfPutDoes, StoredType
  <2>2. Upto' = Upto
    BY <1>2 DEF Upto, Stored
  <2>3. WriterInv'
    BY <1>2, <2>2, NumrecsOfPutDoes DEF TypeInv, WriterInv, Stored
  <2> QED
    BY <2>1, <2>3, NumrecsOfPutDoes, ReaderKept DEF TypeInv
<1> QED
  BY <1>1, <1>2, NumrecsOfPutDoes

\* Nothing but nofill changes.
Settled ==
    /\ UNCHANGED <<file, hist>> /\ w' \in WriterType
    /\ w'.pc = "idle" /\ w'.ndirty = w.ndirty /\ w'.nr = w.nr
    /\ w'.call = w.call /\ w'.ver = w.ver /\ w'.fvar = w.fvar

\* What nc_sync does: it fails, or stores numrecs, or has nothing to write.
LEMMA SyncDoes ==
    ASSUME TypeInv, NEW nofill \in BOOLEAN, w.pc = "idle", NC_sync(nofill)
    PROVE  Fails \/ Stored("idle") \/ Settled
<1>1. w \in WriterType
  BY TypeParts DEF TypeInv
<1>2. CASE write_numrecs("idle", nofill)
  BY <1>2, NumrecsDoes
<1>3. CASE w' = [w EXCEPT !.nofill = nofill] /\ UNCHANGED <<file, hist>>
  BY <1>1, <1>3 DEF Settled, WriterType
<1> QED
  BY <1>2, <1>3 DEF NC_sync

\* nc_sync and nc_set_fill fail, store numrecs, or change nofill alone.
LEMMA IdleDoes ==
    ASSUME TypeInv, NC3_sync \/ NC3_set_fill
    PROVE  /\ w.pc = "idle" /\ UNCHANGED <<nvars, retry, r>>
           /\ Fails \/ Stored("idle") \/ Settled
<1>1. w \in WriterType /\ w.nofill \in BOOLEAN
  BY TypeParts DEF TypeInv, WriterType
<1>2. CASE NC3_sync
  BY <1>1, <1>2, SyncDoes DEF NC3_sync
<1>3. CASE NC3_set_fill
  <2>1. CASE NC_sync(FALSE)
    BY <1>3, <2>1, SyncDoes DEF NC3_set_fill
  <2>2. CASE w' = [w EXCEPT !.nofill = TRUE] /\ UNCHANGED <<file, hist>>
    BY <1>1, <1>3, <2>2 DEF NC3_set_fill, Settled, WriterType
  <2> QED
    BY <1>3, <2>1, <2>2 DEF NC3_set_fill
<1> QED
  BY <1>2, <1>3

\* nc_sync and nc_set_fill keep the types.
LEMMA IdleType == ASSUME TypeInv, NC3_sync \/ NC3_set_fill PROVE TypeInv'
<1>0. w.fvar = 1 /\ w.pc = "idle"
  BY IdleDoes DEF TypeInv, WriterInv
<1>1. CASE Fails
  BY <1>1, FailsType, IdleDoes
<1>2. CASE Stored("idle")
  <2>1. TypeOK'
    BY <1>2, IdleDoes, StoredType
  <2>2. WriterInv'
    BY <1>0, <1>2, IdleInv DEF Stored
  <2> QED
    BY <2>1, <2>2, IdleDoes, ReaderKept DEF TypeInv
<1>3. CASE Settled
  <2>1. TypeOK'
    BY <1>0, <1>3, IdleDoes, TypeParts, TypePartsNext DEF TypeInv, Settled
  <2>2. WriterInv'
    BY <1>0, <1>3, IdleInv DEF Settled
  <2> QED
    BY <2>1, <2>2, IdleDoes, ReaderKept DEF TypeInv
<1> QED
  BY <1>1, <1>2, <1>3, IdleDoes

\* The put in progress has been written up to its last record.
Done == After(w.at, Upto) = Upto

\* The record k of the variable v belongs to what one writeNCv writes.
InBatch(v, k) == v = w.call.var /\ k \in Batch(w.at, Upto)

\* The history of puts once the put in progress has returned.
PutNow == [c \in Cells |-> IF c \in {w.call.var} \X (w.call.start .. Upto - 1)
                           THEN w.ver ELSE hist.put[c]]

\* writeNCv when it does not fail.
Written ==
    /\ file' \in FileType /\ w' \in WriterType /\ hist' \in HistType
    /\ file'.nr = file.nr
    /\ \A v \in 1 .. nvars, k \in Recs :
          \/ file'.dat[<<v, k>>] = file.dat[<<v, k>>] /\ ~(NoLost /\ InBatch(v, k))
          \/ file'.dat[<<v, k>>] = w.ver /\ InBatch(v, k)
    /\ w'.nr = w.nr /\ w'.ndirty = w.ndirty /\ w'.ver = w.ver
    /\ Done => w' = Returned(w)
    /\ ~Done => w'.pc = "data" /\ w'.at = After(w.at, Upto) /\ w'.call = w.call /\ w'.fvar = w.fvar
    /\ hist'.floor = hist.floor /\ hist'.nofilled = hist.nofilled /\ hist'.faulted = hist.faulted
    /\ hist'.put = IF Done THEN PutNow ELSE hist.put
    /\ hist'.told = IF Done /\ ~(w.ndirty /\ hist.faulted) THEN PutNow ELSE hist.told

\* writeNCv fails, or writes what is due.
LEMMA WriteDoes ==
    ASSUME TypeInv, writeNCv
    PROVE  /\ w.pc = "data" /\ UNCHANGED <<nvars, retry, r>>
           /\ Fails \/ Written
<1> SUFFICES ASSUME ~Fails PROVE w.pc = "data" /\ UNCHANGED <<nvars, retry, r>> /\ Written
  BY DEF writeNCv
<1> DEFINE batch == {w.call.var} \X Batch(w.at, Upto)
           Dat(lost) == [c \in Cells |-> IF c \in batch /\ ~lost THEN w.ver ELSE file.dat[c]]
<1>1. /\ w.pc = "data" /\ UNCHANGED <<nvars, retry, r>>
      /\ \E lost \in {FALSE} \cup {"lost" \in Faults} : file' = [file EXCEPT !.dat = Dat(lost)]
      /\ w' = IF Done THEN Returned(w) ELSE [w EXCEPT !.at = After(@, Upto)]
      /\ hist' = [hist EXCEPT
                    !.put = IF Done THEN PutNow ELSE @,
                    !.told = IF Done /\ ~(w.ndirty /\ hist.faulted) THEN PutNow ELSE @]
  BY DEF writeNCv, Upto, Done, PutNow
<1>2. w \in WriterType /\ file \in FileType /\ hist \in HistType /\ nvars \in Nat
  BY TypeParts, NC3ShareAssumption DEF TypeInv
<1>3. w.ver \in Values
  BY <1>2, NC3ShareAssumption DEF WriterType, Values, Hole
<1>4. PutNow \in [Cells -> Values]
  BY <1>2, <1>3 DEF PutNow, HistType
<1>5. PICK lost \in {FALSE} \cup {"lost" \in Faults} : file' = [file EXCEPT !.dat = Dat(lost)]
  BY <1>1
<1>6. Dat(lost) \in [Cells -> Values]
  BY <1>2, <1>3 DEF FileType
<1>7. file' \in FileType /\ file'.nr = file.nr /\ file'.dat = Dat(lost)
  BY <1>2, <1>5, <1>6 DEF FileType
<1>8. NoLost => ~lost
  BY DEF NoLost
<1>9. ASSUME NEW v \in 1 .. nvars, NEW k \in Recs
      PROVE  \/ file'.dat[<<v, k>>] = file.dat[<<v, k>>] /\ ~(NoLost /\ InBatch(v, k))
             \/ file'.dat[<<v, k>>] = w.ver /\ InBatch(v, k)
  <2>1. <<v, k>> \in Cells
    BY DEF Cells
  <2>2. <<v, k>> \in batch <=> InBatch(v, k)
    BY DEF InBatch
  <2>3. file'.dat[<<v, k>>] = IF InBatch(v, k) /\ ~lost THEN w.ver ELSE file.dat[<<v, k>>]
    BY <1>7, <2>1, <2>2
  <2> QED
    BY <1>8, <2>3
<1>10. /\ hist' \in HistType
       /\ hist'.floor = hist.floor /\ hist'.nofilled = hist.nofilled
       /\ hist'.faulted = hist.faulted
       /\ hist'.put = IF Done THEN PutNow ELSE hist.put
       /\ hist'.told = IF Done /\ ~(w.ndirty /\ hist.faulted) THEN PutNow ELSE hist.told
  <2> DEFINE P == IF Done THEN PutNow ELSE hist.put
             T == IF Done /\ ~(w.ndirty /\ hist.faulted) THEN PutNow ELSE hist.told
  <2>1. P \in [Cells -> Values] /\ T \in [Cells -> Values]
    BY <1>2, <1>4 DEF HistType
  <2>2. hist' = [hist EXCEPT !.put = P, !.told = T]
    BY <1>1
  <2> HIDE DEF P, T
  <2>3. /\ hist' \in HistType
        /\ hist'.floor = hist.floor /\ hist'.nofilled = hist.nofilled
        /\ hist'.faulted = hist.faulted /\ hist'.put = P /\ hist'.told = T
    BY <1>2, <2>1, <2>2 DEF HistType
  <2> QED
    BY <2>3 DEF P, T
<1>11. /\ w' \in WriterType /\ w'.nr = w.nr /\ w'.ndirty = w.ndirty /\ w'.ver = w.ver
       /\ Done => w' = Returned(w)
       /\ ~Done => w'.pc = "data" /\ w'.at = After(w.at, Upto) /\ w'.call = w.call /\ w'.fvar = w.fvar
  <2>1. CASE Done
    BY <1>1, <2>1, ReturnedType
  <2>2. CASE ~Done
    <3>1. After(w.at, Upto) \in 0 .. MaxRec
      <4>1. w.call.start \in Nat /\ w.call.count \in Nat /\ w.at \in Nat
        BY <1>2, PutType, NC3ShareAssumption DEF WriterType, Recs
      <4> QED
        BY <1>1, <4>1, NC3ShareAssumption DEF TypeInv, WriterInv, After, Upto
    <3>2. w' = [w EXCEPT !.at = After(w.at, Upto)]
      BY <1>1, <2>2
    <3> QED
      BY <1>1, <1>2, <2>2, <3>1, <3>2 DEF WriterType
  <2> QED
    BY <2>1, <2>2
<1> QED
  BY <1>1, <1>7, <1>9, <1>10, <1>11 DEF Written

\* writeNCv keeps the types.
LEMMA WriteType == ASSUME TypeInv, writeNCv PROVE TypeInv'
<1>1. CASE Fails
  BY <1>1, FailsType, WriteDoes
<1>2. CASE Written
  <2>1. TypeOK'
    BY <1>2, WriteDoes, TypeParts, TypePartsNext DEF TypeInv, Written
  <2>2. WriterInv'
    <3>1. CASE Done
      BY <1>2, <3>1, ReturnedType, IdleInv DEF Written
    <3>2. CASE ~Done
      <4>1. w.call.start \in Nat /\ w.call.count \in Nat /\ w.at \in Nat /\ Upto \in Nat
        BY TypeParts, PutType, NC3ShareAssumption DEF TypeInv, WriterType, Recs, Upto
      <4>2. Upto' = Upto
        BY <1>2, <3>2 DEF Upto, Written
      <4>3. w.at < Upto /\ After(w.at, Upto) = w.at + 1
        BY <3>2, <4>1 DEF Done, After
      <4> QED
        BY <1>2, <3>2, <4>1, <4>2, <4>3, WriteDoes DEF TypeInv, WriterInv, Written
    <3> QED
      BY <3>1, <3>2
  <2> QED
    BY <2>1, <2>2, WriteDoes, ReaderKept DEF TypeInv
<1> QED
  BY <1>1, <1>2, WriteDoes

\* The writer is gone, with f in the file and h the history up to then.
Left(f, told) ==
    /\ file' = f /\ f \in FileType /\ w' \in WriterType /\ hist' \in HistType
    /\ w'.pc = "closed" /\ w'.ndirty = FALSE /\ w'.call = NoCall /\ w'.fvar = 1
    /\ w'.ver = w.ver
    /\ hist'.put = told /\ hist'.told = told /\ hist'.floor = hist.floor
    /\ hist'.nofilled = {k \in hist.nofilled : k < f.nr}

\* Gone, field by field.
LEMMA GoneDoes ==
    ASSUME TypeInv, NEW f \in FileType, NEW h \in HistType,
           h.floor = hist.floor, h.nofilled = hist.nofilled,
           Gone(f, h), file' = f
    PROVE  Left(f, h.told)
<1>1. /\ w' \in WriterType
      /\ w'.pc = "closed" /\ w'.ndirty = FALSE /\ w'.call = NoCall /\ w'.fvar = 1
      /\ w'.ver = w.ver
  <2>1. 0 \in 0 .. MaxRec
    BY NC3ShareAssumption
  <2>2. w' = [Returned(w) EXCEPT !.pc = "closed", !.ndirty = FALSE, !.nofill = FALSE, !.nr = 0]
    BY DEF Gone
  <2> QED
    BY <2>1, <2>2, ReturnedType DEF WriterType
<1> DEFINE S == {k \in h.nofilled : k < f.nr}
<1>2. S \in SUBSET Recs /\ S = {k \in hist.nofilled : k < f.nr}
  BY DEF HistType
<1>3. hist' = [h EXCEPT !.faulted = FALSE, !.put = h.told, !.nofilled = S]
  BY DEF Gone
<1> HIDE DEF S
<1>4. /\ hist' \in HistType /\ hist'.put = h.told /\ hist'.told = h.told
      /\ hist'.floor = h.floor /\ hist'.nofilled = S
  BY <1>2, <1>3 DEF HistType
<1> QED
  BY <1>1, <1>2, <1>4 DEF Left

\* nc_close and the death of the writer: what is in the file then, and what the
\* writer was told.
LEMMA LeaveDoes ==
    ASSUME TypeInv, NC3_close \/ Crash
    PROVE  /\ w.pc # "closed" /\ UNCHANGED <<nvars, retry, r>>
           /\ \/ Left(file, hist.told)
              \/ /\ ~w.ndirty \/ ~NoLost
                 /\ Left(file, hist.put)
              \/ /\ w.ndirty
                 /\ Left([file EXCEPT !.nr = w.nr], hist.put)
<1>1. file \in FileType /\ hist \in HistType /\ w \in WriterType
  BY TypeParts DEF TypeInv
<1>2. CASE Crash
  <2> DEFINE h == [hist EXCEPT !.crashes = @ + 1]
  <2>1. h \in HistType /\ h.told = hist.told /\ h.floor = hist.floor /\ h.nofilled = hist.nofilled
    BY <1>1, <1>2, NC3ShareAssumption DEF HistType, Crash
  <2>2. Gone(file, h) /\ file' = file /\ w.pc # "closed" /\ UNCHANGED <<nvars, retry, r>>
    BY <1>2 DEF Crash
  <2> HIDE DEF h
  <2> QED
    BY <1>1, <2>1, <2>2, GoneDoes
<1>3. CASE NC3_close
  <2>0. w.pc # "closed" /\ UNCHANGED <<nvars, retry, r>>
    BY <1>3 DEF NC3_close
  <2>1. CASE Gone(file, hist) /\ UNCHANGED file
    BY <1>1, <2>0, <2>1, GoneDoes
  <2>2. CASE /\ file' \in IF w.ndirty THEN NumrecsWritten ELSE {file}
             /\ Gone(file', [hist EXCEPT !.told = hist.put])
    <3> DEFINE h == [hist EXCEPT !.told = hist.put]
               f == [file EXCEPT !.nr = w.nr]
    <3>1. h \in HistType /\ h.told = hist.put /\ h.floor = hist.floor /\ h.nofilled = hist.nofilled
      BY <1>1 DEF HistType
    <3>2. \/ file' = file /\ (~w.ndirty \/ ~NoLost)
          \/ file' = f /\ w.ndirty
      BY <2>2 DEF NumrecsWritten, NoLost
    <3>3. f \in FileType
      BY <1>1 DEF FileType, WriterType
    <3>4. Gone(file', h)
      BY <2>2
    <3> HIDE DEF h, f
    <3>5. file' = file => Left(file, hist.put)
      BY <1>1, <3>1, <3>4, GoneDoes
    <3>6. file' = f => Left(f, hist.put)
      BY <3>1, <3>3, <3>4, GoneDoes
    <3> QED
      BY <2>0, <3>2, <3>5, <3>6 DEF f
  <2> QED
    BY <1>3, <2>1, <2>2 DEF NC3_close
<1> QED
  BY <1>2, <1>3

\* nc_close and the death of the writer keep the types, and take nothing from
\* the file.
LEMMA LeaveType ==
    ASSUME TypeInv, NC3_close \/ Crash
    PROVE  TypeInv' /\ file'.dat = file.dat /\ file.nr <= file'.nr
<1>1. file \in FileType /\ hist \in HistType /\ w \in WriterType /\ r.nr <= file.nr /\ r \in ReaderType
      /\ file.nr <= w.nr
  BY TypeParts, LeaveDoes DEF TypeInv
<1>2. \/ file' = file
      \/ file' = [file EXCEPT !.nr = w.nr]
  BY LeaveDoes DEF Left
<1>3. file'.dat = file.dat /\ file.nr <= file'.nr /\ r.nr <= file'.nr
  BY <1>1, <1>2, NC3ShareAssumption DEF FileType, WriterType, ReaderType
<1>4. /\ file' \in FileType /\ w' \in WriterType /\ hist' \in HistType
      /\ w'.pc = "closed" /\ w'.call = NoCall /\ w'.fvar = 1 /\ w'.ndirty = FALSE
  BY LeaveDoes DEF Left
<1>5. TypeOK'
  BY <1>3, <1>4, LeaveDoes, TypeParts, TypePartsNext DEF TypeInv
<1>6. WriterInv'
  BY <1>4, NC3ShareAssumption DEF WriterInv, NoCall, Upto
<1> QED
  BY <1>3, <1>5, <1>6, ReaderKept, LeaveDoes DEF TypeInv

\* A step of the reader that starts or ends nothing of a get: nc_open, the
\* decision to get, and nc_sync after a refusal.
LEMMA AskDoes ==
    ASSUME TypeInv, ReaderOpen \/ Ask \/ TryAgain
    PROVE  /\ UNCHANGED <<nvars, retry, file, w, hist>>
           /\ r' \in ReaderType /\ r'.pc \in {"idle", "asked"}
           /\ r'.nr = r.nr \/ r'.nr = file.nr
           /\ r'.pc = "asked" => DOMAIN r'.got = {}
           /\ r'.got = r.got \/ DOMAIN r'.got = {}
<1>1. r \in ReaderType /\ file \in FileType
  BY TypeParts DEF TypeInv
<1>2. CASE ReaderOpen
  BY <1>1, <1>2 DEF ReaderOpen, ReaderType, FileType, nc_get_NC
<1>3. CASE Ask
  <2>1. PICK q \in Gets : r' = [r EXCEPT !.pc = "asked", !.call = q, !.got = [k \in {} |-> Fill]]
    BY <1>3 DEF Ask
  <2>2. /\ r' \in ReaderType /\ r'.pc = "asked" /\ r'.nr = r.nr
        /\ r'.got = [k \in {} |-> Fill]
    BY <1>1, <2>1, NothingGot DEF ReaderType
  <2> QED
    BY <1>3, <2>2, NothingGot DEF Ask
<1>4. CASE TryAgain
  <2>1. r.pc = "refused" /\ DOMAIN r.got = {}
    BY <1>4 DEF TryAgain, TypeInv, ReaderInv
  <2>2. r' \in ReaderType /\ r'.pc = "asked" /\ r'.got = r.got /\ (r'.nr = r.nr \/ r'.nr = file.nr)
    BY <1>1, <1>4 DEF TryAgain, ReaderType, FileType, nc_get_NC
  <2> QED
    BY <1>4, <2>1, <2>2 DEF TryAgain
<1> QED
  BY <1>2, <1>3, <1>4

\* They keep the types.
LEMMA AskType == ASSUME TypeInv, ReaderOpen \/ Ask \/ TryAgain PROVE TypeInv'
<1>1. r \in ReaderType /\ file \in FileType /\ r.nr <= file.nr
  BY TypeParts DEF TypeInv
<1>2. r.nr <= r'.nr /\ r'.nr <= file.nr /\ r.nr \in Int /\ r'.nr \in Int
  BY <1>1, AskDoes, NC3ShareAssumption DEF ReaderType, FileType
<1>3. TypeOK'
  BY <1>2, AskDoes, TypeParts, TypePartsNext DEF TypeInv
<1>4. WriterInv'
  BY AskDoes DEF TypeInv, WriterInv, Upto
<1>5. ReaderInv'
  <2>1. \A k \in DOMAIN r.got : k < r.nr /\ k \in Int
    BY <1>1, GotType DEF TypeInv, ReaderInv, ReaderType, Recs
  <2>2. \A k \in DOMAIN r'.got : k < r'.nr
    BY <1>2, <2>1, AskDoes
  <2> QED
    BY <2>2, AskDoes DEF ReaderInv
<1> QED
  BY <1>3, <1>4, <1>5 DEF TypeInv

\* NC3_get_vara up to its first read, field by field.
LEMMA GetVaraDoes ==
    ASSUME TypeInv, NC3_get_vara
    PROVE  /\ UNCHANGED <<nvars, retry, file, w>> /\ r.pc = "asked"
           /\ r' \in ReaderType /\ hist' \in HistType
           /\ r'.got = r.got /\ r'.call = r.call /\ r.call \in Gets
           /\ r'.nr = r.nr \/ r'.nr = file.nr
           /\ r'.pc \in {"reading", "refused"}
           /\ r'.pc = "reading" => r'.at <= r'.upto /\ r'.upto <= r'.nr
           /\ hist' = [hist EXCEPT !.floor = [k \in Recs |-> hist.told[<<r.call.var, k>>]]]
<1>1. r \in ReaderType /\ file \in FileType /\ hist \in HistType
  BY TypeParts DEF TypeInv
<1> DEFINE q == r.call
           count == IF q.count = All THEN r.nr ELSE q.count
           nr == NCcoordck(q.start)
<1>2. /\ r' = IF InBounds(q.start, count, nr)
              THEN [r EXCEPT !.nr = nr, !.pc = "reading", !.at = q.start, !.upto = q.start + count]
              ELSE [r EXCEPT !.nr = nr, !.pc = "refused"]
      /\ hist' = [hist EXCEPT !.floor = [k \in Recs |-> hist.told[<<r.call.var, k>>]]]
      /\ UNCHANGED <<nvars, retry, file, w>> /\ r.pc = "asked"
  BY DEF NC3_get_vara
<1>3. q \in Gets
  BY <1>1 DEF ReaderType
<1>4. q.var \in 1 .. nvars /\ q.start \in 0 .. MaxRec /\ count \in 0 .. MaxRec
  BY <1>1, <1>3, GetType, NC3ShareAssumption DEF Recs, ReaderType
<1>5. nr \in 0 .. MaxRec /\ (nr = r.nr \/ nr = file.nr)
  BY <1>1 DEF NCcoordck, ReaderType, FileType
<1>6. hist' \in HistType
  <2>1. [k \in Recs |-> hist.told[<<r.call.var, k>>]] \in [Recs -> Values]
    BY <1>1, <1>4 DEF HistType, Cells
  <2> QED
    BY <1>1, <1>2, <2>1 DEF HistType
<1> HIDE DEF q, count, nr
<1>7. CASE InBounds(q.start, count, nr)
  <2>1. q.start + count <= nr /\ q.start <= q.start + count /\ q.start + count \in 0 .. MaxRec
    BY <1>4, <1>5, <1>7, NC3ShareAssumption DEF InBounds
  <2>2. /\ r' \in ReaderType /\ r'.nr = nr /\ r'.pc = "reading" /\ r'.at = q.start
        /\ r'.upto = q.start + count /\ r'.got = r.got /\ r'.call = r.call
    BY <1>1, <1>2, <1>4, <1>5, <1>7, <2>1 DEF ReaderType
  <2> QED
    BY <1>2, <1>3, <1>5, <1>6, <2>1, <2>2 DEF q
<1>8. CASE ~InBounds(q.start, count, nr)
  <2>1. /\ r' \in ReaderType /\ r'.nr = nr /\ r'.pc = "refused"
        /\ r'.got = r.got /\ r'.call = r.call
    BY <1>1, <1>2, <1>5, <1>8 DEF ReaderType
  <2> QED
    BY <1>2, <1>3, <1>5, <1>6, <2>1 DEF q
<1> QED
  BY <1>7, <1>8

\* NC3_get_vara keeps the types.
LEMMA GetVaraType == ASSUME TypeInv, NC3_get_vara PROVE TypeInv'
<1>1. r \in ReaderType /\ file \in FileType /\ r.nr <= file.nr
  BY TypeParts DEF TypeInv
<1>2. r'.nr <= file.nr
  BY <1>1, GetVaraDoes, NC3ShareAssumption DEF ReaderType, FileType
<1>3. TypeOK'
  BY <1>2, GetVaraDoes, TypeParts, TypePartsNext DEF TypeInv
<1>4. WriterInv'
  BY GetVaraDoes DEF TypeInv, WriterInv, Upto
<1>5. DOMAIN r.got = {}
  BY GetVaraDoes DEF TypeInv, ReaderInv
<1>6. ReaderInv'
  BY <1>5, GetVaraDoes DEF ReaderInv
<1> QED
  BY <1>3, <1>4, <1>6 DEF TypeInv

\* readNCv, field by field.
LEMMA ReadDoes ==
    ASSUME TypeInv, readNCv
    PROVE  /\ UNCHANGED <<nvars, retry, file, w, hist>> /\ r.pc = "reading"
           /\ r' \in ReaderType /\ r'.nr = r.nr
           /\ r.call.var \in 1 .. nvars
           /\ \/ r'.pc = "reading" /\ r'.at <= r'.upto /\ r'.upto <= r.nr /\ r'.call = r.call
              \/ r'.pc = "idle"
           /\ \A k \in DOMAIN r'.got :
                 /\ k \in Recs /\ k < r.nr
                 /\ \/ r'.got[k] = file.dat[<<r.call.var, k>>]
                    \/ k \in DOMAIN r.got /\ r'.got[k] = r.got[k]
<1>1. /\ r \in ReaderType /\ file \in FileType /\ nvars \in VarCounts
      /\ r.nr \in Nat /\ r.at \in Nat /\ r.upto \in Nat /\ r.nr <= MaxRec
  BY TypeParts, NC3ShareAssumption DEF TypeInv, ReaderType
<1>2. r.pc = "reading" /\ UNCHANGED <<nvars, retry, file, w, hist>> /\ r.at <= r.upto /\ r.upto <= r.nr
  BY DEF readNCv, TypeInv, ReaderInv
<1> DEFINE batch == Batch(r.at, r.upto)
           done == After(r.at, r.upto) = r.upto
           G == [k \in DOMAIN r.got \cup batch |->
                   IF k \in batch THEN spx_get(<<r.call.var, k>>) ELSE r.got[k]]
<1>3. \A k \in batch : k \in Recs /\ k < r.nr
  BY <1>1, <1>2, NC3ShareAssumption DEF Batch, Recs
<1>4. r.call.var \in 1 .. nvars
  BY <1>1, GetType DEF ReaderType
<1>5. DOMAIN r.got \subseteq Recs /\ \A k \in DOMAIN r.got : r.got[k] \in Values /\ k < r.nr
  BY <1>1, GotType DEF ReaderType, TypeInv, ReaderInv
<1>6. \A k \in batch : spx_get(<<r.call.var, k>>) \in Values
  BY <1>1, <1>3, <1>4 DEF FileType, Cells, spx_get
<1>7. G \in UNION {[S -> Values] : S \in SUBSET Recs}
  <2>1. DOMAIN G = DOMAIN r.got \cup batch /\ G = [k \in DOMAIN G |-> G[k]]
    OBVIOUS
  <2>2. DOMAIN G \subseteq Recs /\ \A k \in DOMAIN G : G[k] \in Values
    BY <1>3, <1>5, <1>6
  <2> HIDE DEF G
  <2> QED
    BY <2>1, <2>2, GotType
<1> HIDE DEF batch
<1>8. \A k \in DOMAIN G :
        /\ k \in Recs /\ k < r.nr
        /\ \/ G[k] = file.dat[<<r.call.var, k>>]
           \/ k \in DOMAIN r.got /\ G[k] = r.got[k]
  <2> TAKE k \in DOMAIN G
  <2>1. k \in DOMAIN r.got \cup batch
    OBVIOUS
  <2>2. G[k] = IF k \in batch THEN file.dat[<<r.call.var, k>>] ELSE r.got[k]
    BY <2>1 DEF spx_get
  <2> HIDE DEF G
  <2> QED
    BY <1>3, <1>5, <2>1, <2>2
<1>9. r' = [r EXCEPT !.got = G,
                     !.at = IF done THEN 0 ELSE After(@, r.upto),
                     !.upto = IF done THEN 0 ELSE @,
                     !.call = IF done THEN NoCall ELSE @,
                     !.pc = IF done THEN "idle" ELSE @]
  BY DEF readNCv, batch
<1> HIDE DEF G
<1>10. CASE done
  <2>1. 0 \in 0 .. MaxRec /\ NoCall \in Gets
    BY <1>1, NoCallType, NC3ShareAssumption
  <2>2. r' \in ReaderType /\ r'.nr = r.nr /\ r'.pc = "idle" /\ r'.got = G
    BY <1>1, <1>7, <1>9, <1>10, <2>1 DEF ReaderType
  <2> QED
    BY <1>2, <1>4, <1>8, <2>2
<1>11. CASE ~done
  <2>1. After(r.at, r.upto) \in 0 .. MaxRec /\ After(r.at, r.upto) <= r.upto
    BY <1>1, <1>2, <1>11, NC3ShareAssumption DEF After
  <2>2. /\ r' \in ReaderType /\ r'.nr = r.nr /\ r'.pc = "reading" /\ r'.got = G
        /\ r'.at = After(r.at, r.upto) /\ r'.upto = r.upto /\ r'.call = r.call
    BY <1>1, <1>2, <1>7, <1>9, <1>11, <2>1 DEF ReaderType
  <2> QED
    BY <1>2, <1>4, <1>8, <2>1, <2>2
<1> QED
  BY <1>10, <1>11

\* readNCv keeps the types.
LEMMA ReadType == ASSUME TypeInv, readNCv PROVE TypeInv'
<1>1. TypeOK'
  BY ReadDoes, TypeParts, TypePartsNext DEF TypeInv
<1>2. WriterInv'
  BY ReadDoes DEF TypeInv, WriterInv, Upto
<1>3. ReaderInv'
  BY ReadDoes DEF ReaderInv
<1> QED
  BY <1>1, <1>2, <1>3 DEF TypeInv

\* The initial state.
LEMMA TypeInit == Init => TypeInv
<1> SUFFICES ASSUME Init PROVE TypeInv
  OBVIOUS
<1>1. nvars \in VarCounts /\ retry \in Retries /\ nvars \in Nat \ {0}
  BY NC3ShareAssumption DEF Init
<1>2. NoCall \in Puts /\ NoCall \in Gets
  BY <1>1, NoCallType
<1>3. Hole \in Values /\ 0 \in 0 .. MaxRec /\ 0 \in 0 .. MaxPuts /\ 0 \in 0 .. MaxCrashes
      /\ 1 \in 1 .. nvars
  BY <1>1, NC3ShareAssumption DEF Values, Hole
<1>4. [c \in Cells |-> Hole] \in [Cells -> Values] /\ [k \in Recs |-> Hole] \in [Recs -> Values]
  BY <1>3
<1>5. file \in FileType /\ w \in WriterType /\ r \in ReaderType /\ hist \in HistType
  BY <1>2, <1>3, <1>4, NothingGot DEF Init, FileType, WriterType, ReaderType, HistType
<1>6. TypeOK
  BY <1>1, <1>5, TypeParts DEF Init
<1>7. WriterInv
  BY NC3ShareAssumption DEF Init, WriterInv, NoCall, Upto
<1>8. ReaderInv
  BY NothingGot DEF Init, ReaderInv
<1> QED
  BY <1>6, <1>7, <1>8 DEF TypeInv

\* A step that changes nothing.
LEMMA TypeStutter == ASSUME TypeInv, UNCHANGED vars PROVE TypeInv'
<1>1. UNCHANGED <<nvars, retry, file, w, r, hist>>
  BY DEF vars
<1>2. TypeOK'
  BY <1>1, TypeParts, TypePartsNext DEF TypeInv
<1>3. WriterInv' /\ ReaderInv'
  BY <1>1 DEF TypeInv, WriterInv, ReaderInv, Upto
<1> QED
  BY <1>2, <1>3 DEF TypeInv

\* Every step keeps TypeInv.
LEMMA TypeNext == TypeInv /\ [Next]_vars => TypeInv'
<1> SUFFICES ASSUME TypeInv, [Next]_vars PROVE TypeInv'
  OBVIOUS
<1>1. CASE Writer
  BY <1>1, WriterOpenType, PutVaraType, FillType, NumrecsOfPutType, WriteType, IdleType, LeaveType
  DEF Writer
<1>2. CASE Reader
  BY <1>2, AskType, GetVaraType, ReadType DEF Reader
<1>3. CASE UNCHANGED vars
  BY <1>3, TypeStutter
<1> QED
  BY <1>1, <1>2, <1>3 DEF Next

\* The reader's copy of numrecs never exceeds the number in the file, nor the
\* file's that of an open writer, and every field has its type, for any number
\* of variables, records and puts, whatever I/O fails or is lost.
THEOREM ShareTypeCorrect == Spec => []TypeOK
<1>1. TypeInv => TypeOK
  BY DEF TypeInv
<1> QED
  BY <1>1, TypeInit, TypeNext, PTL DEF Spec

-----------------------------------------------------------------------------
(* No holes *)

\* The records a put need not fill: those the file or the open writer has.
Known == IF w.pc = "closed" THEN file.nr ELSE w.nr

\* The record k of the variable v has been written, or made in NOFILL mode.
Filled(v, k) == file.dat[<<v, k>>] # Hole \/ k \in hist.nofilled

\* Every record that the file or an open writer has was filled, and so were
\* the variables that NCfillrecord has passed in the next one.
FilledInv ==
    /\ \A v \in 1 .. nvars, k \in Recs : k < Known => Filled(v, k)
    /\ w.pc = "fill" => \A v \in 1 .. w.fvar - 1 : file.dat[<<v, w.nr>>] # Hole

HolesInv == TypeInv /\ FilledInv /\ NoHoles

\* A step that changes neither the data nor what counts as known.
LEMMA FilledKept ==
    ASSUME HolesInv, TypeInv', nvars' = nvars, file'.dat = file.dat,
           hist.nofilled \subseteq hist'.nofilled, Known' <= Known, w'.pc # "fill"
    PROVE  FilledInv'
<1>1. Known \in Int /\ Known' \in Int
  BY TypeParts, TypePartsNext, NC3ShareAssumption
  DEF HolesInv, TypeInv, Known, FileType, WriterType
<1>2. ASSUME NEW v \in 1 .. nvars, NEW k \in Recs, k < Known'
      PROVE  Filled(v, k)'
  <2>1. k < Known
    BY <1>1, <1>2, NC3ShareAssumption DEF Recs
  <2> QED
    BY <2>1 DEF HolesInv, FilledInv, Filled
<1> QED
  BY <1>2 DEF FilledInv

\* A step of the writer that forgets no record made in NOFILL mode.
LEMMA NoHolesKept ==
    ASSUME HolesInv, UNCHANGED r, hist.nofilled \subseteq hist'.nofilled
    PROVE  NoHoles'
BY DEF HolesInv, NoHoles

\* A call that fails leaves nothing half known.
LEMMA FailsFilled ==
    ASSUME HolesInv, TypeInv', Fails, w.pc # "closed", UNCHANGED <<nvars, r>>
    PROVE  FilledInv' /\ NoHoles'
<1>1. w'.pc = "idle" /\ w'.nr = w.nr /\ file' = file
  BY ReturnedType DEF Fails, HolesInv
<1>2. hist'.nofilled = hist.nofilled
  BY TypeParts DEF Fails, HolesInv, TypeInv, HistType
<1>3. w.nr \in Int
  BY TypeParts, NC3ShareAssumption DEF HolesInv, TypeInv, WriterType
<1>4. Known' <= Known
  BY <1>1, <1>3 DEF Known
<1> QED
  BY <1>1, <1>2, <1>4, FilledKept, NoHolesKept

\* nc_put_vara up to its first write: the records it makes without filling them
\* are in nofilled.
LEMMA PutVaraFilled ==
    ASSUME HolesInv, NC3_put_vara
    PROVE  FilledInv' /\ NoHoles'
<1>1. TypeInv /\ TypeInv' /\ UNCHANGED <<nvars, file, r>> /\ w.pc = "idle" /\ w.fvar = 1
  BY PutVaraType DEF HolesInv, NC3_put_vara, TypeInv, WriterInv
<1>2. w \in WriterType /\ hist \in HistType
  BY <1>1, TypeParts DEF TypeInv
<1>3. hist'.nofilled = IF w.nofill THEN hist.nofilled \cup w.nr .. Upto' - 1 ELSE hist.nofilled
  BY <1>1, <1>2, PutVaraDoes DEF HistType
<1>4. hist.nofilled \subseteq hist'.nofilled
  BY <1>3
<1>5. ASSUME NEW v \in 1 .. nvars, NEW k \in Recs, k < Known'
      PROVE  Filled(v, k)'
  <2>1. Known = w.nr /\ Known' = w'.nr /\ w.nr \in Nat /\ k \in Nat
    BY <1>1, <1>2, PutVaraDoes, NC3ShareAssumption DEF Known, WriterType, Recs
  <2>2. CASE k < w.nr
    BY <1>1, <1>4, <2>1, <2>2 DEF HolesInv, FilledInv, Filled
  <2>3. CASE k >= w.nr
    <3>1. w'.pc = "numrecs" /\ w'.nr = Upto' /\ w.nofill /\ Upto' \in Nat
      BY <1>1, <1>5, <2>1, <2>3, PutVaraDoes
    <3> QED
      BY <1>3, <1>5, <2>1, <2>3, <3>1 DEF Filled
  <2> QED
    BY <2>1, <2>2, <2>3
<1>6. 1 .. w'.fvar - 1 = {}
  BY <1>1, PutVaraDoes
<1>7. FilledInv'
  BY <1>1, <1>5, <1>6 DEF FilledInv
<1> QED
  BY <1>1, <1>4, <1>7, NoHolesKept

\* NCfillrecord: numrecs grows in memory only when the last variable is filled.
LEMMA FillFilled ==
    ASSUME HolesInv, fill_NC_var
    PROVE  FilledInv' /\ NoHoles'
<1>0. TypeInv /\ TypeInv' /\ w.pc = "fill" /\ UNCHANGED <<nvars, r>>
  BY FillType DEF HolesInv, fill_NC_var
<1>1. CASE Fails
  BY <1>0, <1>1, FailsFilled
<1>2. CASE ~Fails
  <2>1. /\ file' = [file EXCEPT !.dat[<<w.fvar, w.nr>>] = Fill] /\ file \in FileType
        /\ hist' = hist /\ w.nr \in Nat /\ w.fvar \in Nat /\ nvars \in Nat
    BY <1>0, <1>2, FillDoes, TypeParts, NC3ShareAssumption DEF TypeInv, WriterType
  <2>2. ASSUME NEW v \in 1 .. nvars, NEW k \in Recs
        PROVE  file'.dat[<<v, k>>] = IF v = w.fvar /\ k = w.nr THEN Fill ELSE file.dat[<<v, k>>]
    <3>1. <<v, k>> \in Cells
      BY DEF Cells
    <3> QED
      BY <2>1, <3>1 DEF FileType
  <2>3. ASSUME NEW v \in 1 .. nvars, NEW k \in Recs, file.dat[<<v, k>>] # Hole
        PROVE  file'.dat[<<v, k>>] # Hole
    BY <2>2, <2>3 DEF Fill, Hole
  <2>4. \A v \in 1 .. w.fvar : v \in 1 .. nvars /\ file'.dat[<<v, w.nr>>] # Hole
    <3> TAKE v \in 1 .. w.fvar
    <3>1. v \in 1 .. nvars /\ w.nr \in Recs
      BY <1>0, <1>2, <2>1, FillDoes
    <3>2. CASE v = w.fvar
      BY <2>2, <3>1, <3>2 DEF Fill, Hole
    <3>3. CASE v # w.fvar
      <4>1. v \in 1 .. w.fvar - 1
        BY <2>1, <3>3
      <4> QED
        BY <1>0, <2>3, <3>1, <4>1 DEF HolesInv, FilledInv
    <3> QED
      BY <3>1, <3>2, <3>3
  <2>5. Known = w.nr /\ Known' = w'.nr
    BY <1>0, <1>2, FillDoes DEF Known
  <2>6. ASSUME NEW v \in 1 .. nvars, NEW k \in Recs, k < Known'
        PROVE  Filled(v, k)'
    <3>1. k \in Nat
      BY NC3ShareAssumption DEF Recs
    <3>2. CASE k < w.nr
      BY <2>1, <2>3, <2>5, <3>2 DEF HolesInv, FilledInv, Filled
    <3>3. CASE k >= w.nr
      <4>1. k = w.nr /\ w.fvar = nvars
        BY <1>0, <1>2, <2>1, <2>5, <2>6, <3>1, <3>3, FillDoes
      <4> QED
        BY <2>1, <2>4, <4>1 DEF Filled
    <3> QED
      BY <2>1, <3>1, <3>2, <3>3
  <2>7. w'.pc = "fill" => \A v \in 1 .. w'.fvar - 1 : file'.dat[<<v, w'.nr>>] # Hole
    <3>1. CASE w'.fvar = 1
      BY <3>1
    <3>2. CASE w'.fvar = w.fvar + 1 /\ w'.nr = w.nr
      BY <2>1, <2>4, <3>2
    <3> QED
      BY <1>0, <1>2, <3>1, <3>2, FillDoes
  <2>8. FilledInv'
    BY <1>0, <2>6, <2>7 DEF FilledInv
  <2> QED
    BY <1>0, <2>1, <2>8, NoHolesKept
<1> QED
  BY <1>1, <1>2

\* Storing numrecs writes no data.
LEMMA StoredFilled ==
    ASSUME HolesInv, TypeInv', NEW then \in {"idle", "data"}, Stored(then), w.pc # "closed",
           UNCHANGED <<nvars, r>>
    PROVE  FilledInv' /\ NoHoles'
<1>1. w.nr \in Int /\ hist \in HistType
  BY TypeParts, NC3ShareAssumption DEF HolesInv, TypeInv, WriterType
<1>2. hist'.nofilled = hist.nofilled
  BY <1>1 DEF Stored, HistType
<1>3. Known' <= Known /\ w'.pc # "fill"
  BY <1>1 DEF Known, Stored
<1> QED
  BY <1>2, <1>3, FilledKept, NoHolesKept DEF Stored

\* writeNCv writes no hole.
LEMMA WriteFilled ==
    ASSUME HolesInv, writeNCv
    PROVE  FilledInv' /\ NoHoles'
<1>0. TypeInv /\ TypeInv' /\ w.pc = "data" /\ UNCHANGED <<nvars, r>>
  BY WriteType, WriteDoes DEF HolesInv
<1>1. CASE Fails
  BY <1>0, <1>1, FailsFilled
<1>2. CASE Written
  <2>1. w.ver # Hole
    BY <1>0, TypeParts, NC3ShareAssumption DEF TypeInv, WriterType, Hole
  <2>2. Known' = w.nr /\ Known = w.nr /\ w'.pc # "fill" /\ hist'.nofilled = hist.nofilled
    BY <1>0, <1>2, ReturnedType DEF Known, Written
  <2>3. ASSUME NEW v \in 1 .. nvars, NEW k \in Recs, k < Known'
        PROVE  Filled(v, k)'
    <3>1. Filled(v, k)
      BY <2>2, <2>3 DEF HolesInv, FilledInv
    <3>2. file'.dat[<<v, k>>] = file.dat[<<v, k>>] \/ file'.dat[<<v, k>>] = w.ver
      BY <1>2 DEF Written
    <3> QED
      BY <2>1, <2>2, <3>1, <3>2 DEF Filled
  <2>4. FilledInv'
    BY <1>0, <2>2, <2>3 DEF FilledInv
  <2> QED
    BY <1>0, <2>2, <2>4, NoHolesKept
<1> QED
  BY <1>0, <1>1, <1>2, WriteDoes

\* nc_close and the death of the writer: a record that the file has stays in
\* nofilled, and a reader has no other.
LEMMA LeaveFilled ==
    ASSUME HolesInv, NC3_close \/ Crash
    PROVE  FilledInv' /\ NoHoles'
<1>1. /\ TypeInv /\ TypeInv' /\ w.pc # "closed" /\ UNCHANGED <<nvars, r>>
      /\ file'.dat = file.dat /\ file.nr <= file'.nr
  BY LeaveType, LeaveDoes DEF HolesInv
<1>2. /\ w'.pc = "closed" /\ hist'.nofilled = {k \in hist.nofilled : k < file'.nr}
      /\ file' = file \/ file' = [file EXCEPT !.nr = w.nr]
  BY <1>1, LeaveDoes DEF Left
<1>3. /\ file \in FileType /\ file' \in FileType /\ w \in WriterType /\ r \in ReaderType
      /\ file.nr <= w.nr /\ r.nr <= file.nr
  BY <1>1, TypeParts, TypePartsNext DEF TypeInv
<1>4. file'.nr <= w.nr /\ r.nr \in Int /\ file.nr \in Int /\ file'.nr \in Int /\ w.nr \in Int
  BY <1>2, <1>3, NC3ShareAssumption DEF FileType, WriterType, ReaderType
<1>5. ASSUME NEW v \in 1 .. nvars, NEW k \in Recs, k < Known'
      PROVE  Filled(v, k)'
  <2>1. k < file'.nr /\ k < Known
    BY <1>1, <1>2, <1>4, <1>5, NC3ShareAssumption DEF Known, Recs
  <2>2. Filled(v, k)
    BY <2>1 DEF HolesInv, FilledInv
  <2> QED
    BY <1>1, <1>2, <2>1, <2>2 DEF Filled
<1>6. FilledInv'
  BY <1>1, <1>2, <1>5 DEF FilledInv
<1>7. NoHoles'
  <2> SUFFICES ASSUME NEW k \in DOMAIN r.got, r.got[k] = Hole PROVE k \in hist'.nofilled
    BY <1>1 DEF NoHoles
  <2>1. k \in Int /\ k < r.nr
    BY <1>1, <1>3, GotType DEF TypeInv, ReaderInv, ReaderType, Recs
  <2>2. k \in hist.nofilled
    BY DEF HolesInv, NoHoles
  <2> QED
    BY <1>1, <1>2, <1>3, <1>4, <2>1, <2>2
<1> QED
  BY <1>6, <1>7

\* The other steps of the writer: nc_open, nc_sync, nc_set_fill.
LEMMA IdleFilled ==
    ASSUME HolesInv, WriterOpen \/ NC3_sync \/ NC3_set_fill \/ NumrecsOfPut
    PROVE  FilledInv' /\ NoHoles'
<1>0. TypeInv /\ w \in WriterType /\ file \in FileType /\ w.nr \in Int /\ file.nr \in Int
  BY TypeParts, NC3ShareAssumption DEF HolesInv, TypeInv, WriterType, FileType
<1>1. CASE WriterOpen
  <2>1. w.pc = "closed" /\ w'.pc = "idle" /\ w'.nr = file.nr /\ UNCHANGED <<nvars, file, r, hist>>
    BY <1>0, <1>1 DEF WriterOpen, WriterType, nc_get_NC
  <2>2. Known' <= Known
    BY <1>0, <2>1 DEF Known
  <2> QED
    BY <1>0, <1>1, <2>1, <2>2, WriterOpenType, FilledKept, NoHolesKept
<1>2. CASE NC3_sync \/ NC3_set_fill
  <2>1. TypeInv'
    BY <1>0, <1>2, IdleType
  <2>2. CASE Settled
    <3>1. Known' <= Known /\ w'.pc # "fill"
      BY <1>0, <1>2, <2>2, IdleDoes DEF Settled, Known
    <3> QED
      BY <1>0, <1>2, <2>1, <2>2, <3>1, IdleDoes, FilledKept, NoHolesKept DEF Settled
  <2>3. CASE ~Settled
    BY <1>0, <1>2, <2>1, <2>3, IdleDoes, FailsFilled, StoredFilled
  <2> QED
    BY <2>2, <2>3
<1>3. CASE NumrecsOfPut
  BY <1>0, <1>3, NumrecsOfPutType, NumrecsOfPutDoes, FailsFilled, StoredFilled
<1> QED
  BY <1>1, <1>2, <1>3

\* The steps of the reader: what it reads lies within numrecs of the file.
LEMMA ReaderFilled ==
    ASSUME HolesInv, Reader
    PROVE  FilledInv' /\ NoHoles'
<1>0. TypeInv /\ w \in WriterType /\ file \in FileType /\ hist \in HistType /\ r \in ReaderType
  BY TypeParts DEF HolesInv, TypeInv
<1>1. UNCHANGED <<nvars, file, w>> /\ hist'.nofilled = hist.nofilled
  <2>1. CASE ReaderOpen \/ Ask \/ TryAgain
    BY <1>0, <2>1, AskDoes
  <2>2. CASE NC3_get_vara
    BY <1>0, <2>2, GetVaraDoes DEF HistType
  <2>3. CASE readNCv
    BY <1>0, <2>3, ReadDoes
  <2> QED
    BY <2>1, <2>2, <2>3 DEF Reader
<1>2. FilledInv'
  BY <1>1 DEF HolesInv, FilledInv, Known, Filled
<1>3. NoHoles'
  <2>1. CASE ReaderOpen \/ Ask \/ TryAgain
    BY <1>0, <1>1, <2>1, AskDoes DEF HolesInv, NoHoles
  <2>2. CASE NC3_get_vara
    BY <1>0, <1>1, <2>2, GetVaraDoes DEF HolesInv, NoHoles
  <2>3. CASE readNCv
    <3> SUFFICES ASSUME NEW k \in DOMAIN r'.got, r'.got[k] = Hole PROVE k \in hist.nofilled
      BY <1>1 DEF NoHoles
    <3>1. CASE k \in DOMAIN r.got /\ r'.got[k] = r.got[k]
      BY <3>1 DEF HolesInv, NoHoles
    <3>2. CASE r'.got[k] = file.dat[<<r.call.var, k>>]
      <4>1. k \in Recs /\ k < r.nr /\ r.call.var \in 1 .. nvars
        BY <1>0, <2>3, ReadDoes
      <4>2. k < Known
        BY <1>0, <4>1, TypeParts, NC3ShareAssumption
        DEF TypeInv, Known, Recs, FileType, WriterType, ReaderType
      <4> QED
        BY <3>2, <4>1, <4>2 DEF HolesInv, FilledInv, Filled
    <3> QED
      BY <1>0, <2>3, <3>1, <3>2, ReadDoes
  <2> QED
    BY <2>1, <2>2, <2>3 DEF Reader
<1> QED
  BY <1>2, <1>3

\* Every step keeps HolesInv.
LEMMA HolesNext == HolesInv /\ [Next]_vars => HolesInv'
<1> SUFFICES ASSUME HolesInv, [Next]_vars PROVE HolesInv'
  OBVIOUS
<1>1. TypeInv'
  BY TypeNext DEF HolesInv
<1>2. CASE Writer
  BY <1>1, <1>2, PutVaraFilled, FillFilled, WriteFilled, LeaveFilled, IdleFilled DEF Writer, HolesInv
<1>3. CASE Reader
  BY <1>1, <1>3, ReaderFilled DEF HolesInv
<1>4. CASE UNCHANGED vars
  BY <1>1, <1>4 DEF vars, HolesInv, FilledInv, NoHoles, Known, Filled
<1> QED
  BY <1>2, <1>3, <1>4 DEF Next

\* A reader never gets the zeros of a record nobody wrote, unless the record was
\* made in NOFILL mode, whatever I/O of the writer fails or is lost and whenever
\* it dies: NCfillrecord comes before write_numrecs.
THEOREM ReadersSeeNoHoles == Spec => []NoHoles
<1>1. Init => HolesInv
  <2> SUFFICES ASSUME Init PROVE HolesInv
    OBVIOUS
  <2>1. FilledInv
    BY NC3ShareAssumption DEF Init, FilledInv, Known, Recs
  <2>2. NoHoles
    BY NothingGot DEF Init, NoHoles
  <2> QED
    BY <2>1, <2>2, TypeInit DEF HolesInv
<1>2. HolesInv => NoHoles
  BY DEF HolesInv
<1> QED
  BY <1>1, <1>2, HolesNext, PTL DEF Spec

-----------------------------------------------------------------------------
(* Puts stay: when no status of a write is thrown away *)

\* numrecs in memory is clean only if the file has it, and it is dirty only
\* after an error or within a put that is to write it.
CleanInv ==
    /\ ~w.ndirty => file.nr = Known
    /\ w.pc \in {"fill", "numrecs"} => w.ndirty
    /\ w.ndirty => hist.faulted \/ w.pc \in {"fill", "numrecs"}

\* A put that was recorded is no fill value and not newer than the last put.
Version(x) == x <= w.ver /\ x # Fill

\* No put of the future.
VerInv ==
    \A v \in 1 .. nvars, k \in Recs :
        /\ file.dat[<<v, k>>] <= w.ver
        /\ Version(hist.put[<<v, k>>]) /\ Version(hist.told[<<v, k>>])

\* What put holds is in the data, among the first n records.
Holds(put, n) ==
    \A v \in 1 .. nvars, k \in Recs : put[<<v, k>>] > Fill =>
        k < n /\ file.dat[<<v, k>>] >= put[<<v, k>>]

\* What the put in progress has written is in the data.
DataInv ==
    w.pc = "data" => \A k \in w.call.start .. w.at - 1 : file.dat[<<w.call.var, k>>] = w.ver

PutInv ==
    /\ Holds(hist.put, Known)
    /\ Holds(hist.told, file.nr)
    /\ w.pc = "closed" => hist.put = hist.told

StayInv == TypeInv /\ CleanInv /\ VerInv /\ PutInv /\ DataInv

\* No step takes a record from the file, or puts older data in its place.
Grows ==
    /\ file.nr <= file'.nr
    /\ \A v \in 1 .. nvars, k \in Recs : k < file.nr => file'.dat[<<v, k>>] >= file.dat[<<v, k>>]

\* PutsStay in terms of Holds.
LEMMA PutsStayHolds ==
    ASSUME TypeOK
    PROVE  PutsStay <=> Holds(hist.told, file.nr)
<1>1. ASSUME NEW v \in 1 .. nvars, NEW k \in Recs
      PROVE  <<v, k>> \in Cells /\ <<v, k>>[2] = k
  BY DEF Cells
<1>2. ASSUME NEW c \in Cells
      PROVE  c = <<c[1], c[2]>> /\ c[1] \in 1 .. nvars /\ c[2] \in Recs
  BY DEF Cells
<1>3. ASSUME Holds(hist.told, file.nr), NEW c \in Cells, hist.told[c] > Fill
      PROVE  c[2] < file.nr /\ file.dat[c] >= hist.told[c]
  BY <1>2, <1>3 DEF Holds
<1>4. ASSUME PutsStay, NEW v \in 1 .. nvars, NEW k \in Recs, hist.told[<<v, k>>] > Fill
      PROVE  k < file.nr /\ file.dat[<<v, k>>] >= hist.told[<<v, k>>]
  BY <1>1, <1>4 DEF PutsStay
<1> QED
  BY <1>3, <1>4 DEF PutsStay, Holds

\* The numbers that the proofs compare are integers.
LEMMA Numbers ==
    ASSUME TypeInv
    PROVE  /\ file.nr \in Nat /\ w.nr \in Nat /\ w.ver \in Nat /\ w.at \in Nat
           /\ w.call.start \in Nat /\ w.call.count \in Nat /\ Upto \in Nat
           /\ w.call.var \in 1 .. nvars /\ nvars \in Nat /\ Known \in Nat
           /\ w.ndirty \in BOOLEAN /\ hist.faulted \in BOOLEAN
           /\ \A v \in 1 .. nvars, k \in Recs :
                 /\ k \in Nat /\ file.dat[<<v, k>>] \in Int
                 /\ hist.put[<<v, k>>] \in Int /\ hist.told[<<v, k>>] \in Int
<1>1. /\ file \in FileType /\ w \in WriterType /\ hist \in HistType /\ nvars \in VarCounts
  BY TypeParts DEF TypeInv
<1>2. w.call.start \in Nat /\ w.call.count \in Nat /\ w.call.var \in 1 .. nvars
  BY <1>1, PutType, NC3ShareAssumption DEF WriterType, Recs
<1>3. file.nr \in Nat /\ w.nr \in Nat /\ w.ver \in Nat /\ w.at \in Nat /\ nvars \in Nat
  BY <1>1, NC3ShareAssumption DEF FileType, WriterType
<1>4. w.ndirty \in BOOLEAN /\ hist.faulted \in BOOLEAN
  BY <1>1 DEF WriterType, HistType
<1>5. ASSUME NEW v \in 1 .. nvars, NEW k \in Recs
      PROVE  /\ k \in Nat /\ file.dat[<<v, k>>] \in Int
             /\ hist.put[<<v, k>>] \in Int /\ hist.told[<<v, k>>] \in Int
  <2>1. <<v, k>> \in Cells
    BY DEF Cells
  <2>2. \A x \in Values : x \in Int
    BY NC3ShareAssumption DEF Values, Hole
  <2> QED
    BY <1>1, <2>1, <2>2, NC3ShareAssumption DEF FileType, HistType, Recs
<1> QED
  BY <1>2, <1>3, <1>4, <1>5 DEF Upto, Known

\* Every step of the two processes lets the file grow only.
LEMMA GrowsNext ==
    ASSUME TypeInv, VerInv, [Next]_vars
    PROVE  Grows
<1>1. CASE UNCHANGED file
  BY <1>1, Numbers DEF Grows
<1>2. CASE fill_NC_var /\ ~Fails
  <2>1. /\ file' = [file EXCEPT !.dat[<<w.fvar, w.nr>>] = Fill] /\ file \in FileType
        /\ file.nr <= w.nr
    BY <1>2, FillDoes, TypeParts DEF TypeInv
  <2>2. file'.nr = file.nr
    BY <2>1 DEF FileType
  <2>3. ASSUME NEW v \in 1 .. nvars, NEW k \in Recs, k < file.nr
        PROVE  file'.dat[<<v, k>>] = file.dat[<<v, k>>]
    <3>1. <<v, k>> \in Cells
      BY DEF Cells
    <3>2. k # w.nr
      BY <2>1, <2>3, Numbers
    <3> QED
      BY <2>1, <3>1, <3>2 DEF FileType
  <2> QED
    BY <2>2, <2>3, Numbers DEF Grows
<1>3. CASE Stored("idle") \/ Stored("data")
  BY <1>3, Numbers DEF Stored, Grows
<1>4. CASE Written
  <2>1. file'.nr = file.nr
    BY <1>4 DEF Written
  <2>2. ASSUME NEW v \in 1 .. nvars, NEW k \in Recs
        PROVE  file'.dat[<<v, k>>] >= file.dat[<<v, k>>]
    <3>1. file'.dat[<<v, k>>] = file.dat[<<v, k>>] \/ file'.dat[<<v, k>>] = w.ver
      BY <1>4 DEF Written
    <3> QED
      BY <3>1, Numbers DEF VerInv
  <2> QED
    BY <2>1, <2>2, Numbers DEF Grows
<1>5. CASE NC3_close \/ Crash
  BY <1>5, LeaveType, Numbers DEF Grows
<1>6. CASE Reader
  <2>1. UNCHANGED file
    BY <1>6 DEF Reader, ReaderOpen, Ask, NC3_get_vara, readNCv, TryAgain
  <2> QED
    BY <1>1, <2>1
<1>7. CASE Fails
  BY <1>1, <1>7 DEF Fails
<1>8. CASE WriterOpen \/ NC3_put_vara
  BY <1>1, <1>8 DEF WriterOpen, NC3_put_vara
<1>9. CASE NumrecsOfPut
  BY <1>3, <1>7, <1>9, NumrecsOfPutDoes
<1>10. CASE writeNCv
  BY <1>4, <1>7, <1>10, WriteDoes
<1>11. CASE NC3_sync \/ NC3_set_fill
  BY <1>1, <1>3, <1>7, <1>11, IdleDoes DEF Settled
<1>12. CASE UNCHANGED vars
  BY <1>1, <1>12 DEF vars
<1> QED
  BY <1>2, <1>5, <1>6, <1>7, <1>8, <1>9, <1>10, <1>11, <1>12 DEF Next, Writer

\* A step that leaves the data alone keeps what it holds.
LEMMA QuietStay ==
    ASSUME StayInv, nvars' = nvars, file' = file,
           hist'.put = hist.put, hist'.told = hist.told,
           w'.ver \in Nat, w.ver <= w'.ver, Known' \in Nat, Known <= Known',
           w'.pc # "closed" \/ w'.pc = w.pc
    PROVE  VerInv' /\ PutInv'
<1>1. TypeInv
  BY DEF StayInv
<1>2. VerInv'
  <2> SUFFICES ASSUME NEW v \in 1 .. nvars, NEW k \in Recs
               PROVE  /\ file.dat[<<v, k>>] <= w'.ver
                      /\ hist.put[<<v, k>>] <= w'.ver /\ hist.put[<<v, k>>] # Fill
                      /\ hist.told[<<v, k>>] <= w'.ver /\ hist.told[<<v, k>>] # Fill
    BY DEF VerInv, Version
  <2>1. /\ file.dat[<<v, k>>] <= w.ver
        /\ hist.put[<<v, k>>] <= w.ver /\ hist.put[<<v, k>>] # Fill
        /\ hist.told[<<v, k>>] <= w.ver /\ hist.told[<<v, k>>] # Fill
    BY DEF StayInv, VerInv, Version
  <2> QED
    BY <1>1, <2>1, Numbers
<1>3. Holds(hist.put, Known)'
  BY <1>1, Numbers DEF StayInv, PutInv, Holds
<1>4. Holds(hist.told, file.nr)'
  BY DEF StayInv, PutInv, Holds
<1> QED
  BY <1>2, <1>3, <1>4 DEF StayInv, PutInv

\* A call that fails.
LEMMA FailsStay ==
    ASSUME StayInv, Fails, w.pc # "closed", UNCHANGED nvars
    PROVE  CleanInv' /\ VerInv' /\ PutInv' /\ DataInv'
<1>1. TypeInv
  BY DEF StayInv
<1>2. /\ w'.pc = "idle" /\ w'.nr = w.nr /\ w'.ver = w.ver /\ w'.ndirty = w.ndirty
      /\ file' = file /\ Known = w.nr /\ Known' = w.nr
  BY <1>1, ReturnedType DEF Fails, Known
<1>3. hist'.put = hist.put /\ hist'.told = hist.told /\ hist'.faulted = TRUE
  BY <1>1, TypeParts DEF Fails, TypeInv, HistType
<1>4. VerInv' /\ PutInv'
  BY <1>1, <1>2, <1>3, QuietStay, Numbers
<1>5. CleanInv'
  BY <1>2, <1>3 DEF StayInv, CleanInv
<1> QED
  BY <1>2, <1>4, <1>5 DEF DataInv

\* nc_put_vara up to its first write.
LEMMA PutVaraStay ==
    ASSUME StayInv, NC3_put_vara
    PROVE  CleanInv' /\ VerInv' /\ PutInv' /\ DataInv'
<1>1. TypeInv /\ UNCHANGED <<nvars, file>> /\ w.pc = "idle"
  BY DEF StayInv, NC3_put_vara
<1>2. hist'.put = hist.put /\ hist'.told = hist.told /\ hist'.faulted = hist.faulted
  BY <1>1, PutVaraDoes, TypeParts DEF TypeInv, HistType
<1>3. Known = w.nr /\ Known' = w'.nr /\ w'.nr \in Nat /\ w.nr <= w'.nr
  BY <1>1, PutVaraDoes, Numbers DEF Known
<1>4. VerInv' /\ PutInv'
  BY <1>1, <1>2, <1>3, QuietStay, PutVaraDoes, Numbers
<1>5. CleanInv'
  <2>1. CASE w'.pc = "data"
    BY <1>1, <1>2, <1>3, <2>1, PutVaraDoes DEF StayInv, CleanInv
  <2>2. CASE w'.pc # "data"
    BY <1>1, <1>2, <2>2, PutVaraDoes DEF CleanInv
  <2> QED
    BY <2>1, <2>2
<1>6. w'.call.start .. w'.at - 1 = {}
  BY <1>1, PutVaraDoes
<1> QED
  BY <1>4, <1>5, <1>6 DEF DataInv

\* NCfillrecord writes fill values into a record that nothing was put in.
LEMMA FillStay ==
    ASSUME StayInv, fill_NC_var
    PROVE  CleanInv' /\ VerInv' /\ PutInv' /\ DataInv'
<1>1. TypeInv /\ UNCHANGED nvars /\ w.pc = "fill"
  BY DEF StayInv, fill_NC_var
<1>2. CASE Fails
  BY <1>1, <1>2, FailsStay
<1>3. CASE ~Fails
  <2>1. /\ file' = [file EXCEPT !.dat[<<w.fvar, w.nr>>] = Fill] /\ file \in FileType
        /\ hist' = hist /\ w'.ver = w.ver /\ w'.ndirty = w.ndirty
        /\ w'.pc \in {"fill", "numrecs"} /\ w.nr <= w'.nr /\ w'.nr \in Nat /\ file.nr <= w.nr
    BY <1>1, <1>3, FillDoes, TypeParts, Numbers DEF TypeInv
  <2>2. ASSUME NEW v \in 1 .. nvars, NEW k \in Recs
        PROVE  file'.dat[<<v, k>>] = IF v = w.fvar /\ k = w.nr THEN Fill ELSE file.dat[<<v, k>>]
    <3>1. <<v, k>> \in Cells
      BY DEF Cells
    <3> QED
      BY <2>1, <3>1 DEF FileType
  <2>3. file'.nr = file.nr /\ Known = w.nr /\ Known' = w'.nr
    BY <1>1, <2>1 DEF FileType, Known
  <2>4. VerInv'
    <3> SUFFICES ASSUME NEW v \in 1 .. nvars, NEW k \in Recs
                 PROVE  file'.dat[<<v, k>>] <= w.ver
      BY <1>1, <2>1 DEF StayInv, VerInv, Version
    <3> QED
      BY <1>1, <2>2, Numbers DEF StayInv, VerInv, Fill
  <2>5. Holds(hist.put, Known)'
    <3> SUFFICES ASSUME NEW v \in 1 .. nvars, NEW k \in Recs, hist.put[<<v, k>>] > Fill
                 PROVE  k < w'.nr /\ file'.dat[<<v, k>>] >= hist.put[<<v, k>>]
      BY <1>1, <2>1, <2>3 DEF Holds
    <3>1. k < w.nr /\ file.dat[<<v, k>>] >= hist.put[<<v, k>>]
      BY <2>3 DEF StayInv, PutInv, Holds
    <3> QED
      BY <1>1, <2>1, <2>2, <3>1, Numbers
  <2>6. Holds(hist.told, file.nr)'
    <3> SUFFICES ASSUME NEW v \in 1 .. nvars, NEW k \in Recs, hist.told[<<v, k>>] > Fill
                 PROVE  k < file.nr /\ file'.dat[<<v, k>>] >= hist.told[<<v, k>>]
      BY <1>1, <2>1, <2>3 DEF Holds
    <3>1. k < file.nr /\ file.dat[<<v, k>>] >= hist.told[<<v, k>>]
      BY DEF StayInv, PutInv, Holds
    <3> QED
      BY <1>1, <2>1, <2>2, <3>1, Numbers
  <2>7. CleanInv'
    BY <1>1, <2>1 DEF StayInv, CleanInv
  <2> QED
    BY <2>1, <2>4, <2>5, <2>6, <2>7 DEF PutInv, DataInv
<1> QED
  BY <1>2, <1>3

\* write_numrecs: what was put is now within numrecs of the file.
LEMMA StoredStay ==
    ASSUME NoLost, StayInv, NEW then \in {"idle", "data"}, Stored(then),
           then = "idle" \/ w.pc = "numrecs", w.pc # "closed", UNCHANGED nvars
    PROVE  CleanInv' /\ VerInv' /\ PutInv' /\ DataInv'
<1>1. TypeInv /\ hist \in HistType
  BY TypeParts DEF StayInv, TypeInv
<1>2. /\ hist'.put = hist.put /\ hist'.told = hist.put /\ file'.dat = file.dat
      /\ file'.nr = w.nr /\ w'.nr = w.nr /\ w'.pc = then /\ w'.ndirty = FALSE /\ w'.ver = w.ver
      /\ w'.call = w.call /\ w'.at = w.at
  BY <1>1 DEF Stored, HistType
<1>3. Known = w.nr /\ Known' = w.nr
  BY <1>2 DEF Known
<1>4. VerInv'
  BY <1>2 DEF StayInv, VerInv, Version
<1>5. PutInv'
  BY <1>2, <1>3 DEF StayInv, PutInv, Holds
<1>6. CleanInv'
  BY <1>2, <1>3 DEF CleanInv
<1>7. DataInv'
  <2>1. then = "data" => w.call.start .. w.at - 1 = {}
    BY <1>1, Numbers DEF TypeInv, WriterInv
  <2> QED
    BY <1>2, <2>1 DEF DataInv
<1> QED
  BY <1>4, <1>5, <1>6, <1>7

\* nc_close and the death of the writer.
LEMMA LeaveStay ==
    ASSUME NoLost, StayInv, NC3_close \/ Crash
    PROVE  CleanInv' /\ VerInv' /\ PutInv' /\ DataInv'
<1>1. TypeInv /\ UNCHANGED nvars /\ w.pc # "closed" /\ file \in FileType /\ w \in WriterType
  BY LeaveDoes, TypeParts DEF StayInv, TypeInv
<1>2. PICK told : /\ told \in {hist.told, hist.put}
                  /\ hist'.put = told /\ hist'.told = told
                  /\ file'.dat = file.dat
                  /\ \/ told = hist.told /\ file'.nr = file.nr
                     \/ told = hist.put /\ file'.nr = w.nr
                  /\ w'.pc = "closed" /\ w'.ndirty = FALSE /\ w'.ver = w.ver
  <2>1. CASE Left(file, hist.told)
    BY <2>1 DEF Left
  <2>2. CASE ~w.ndirty /\ Left(file, hist.put)
    <3>1. file.nr = w.nr
      BY <1>1, <2>2 DEF StayInv, CleanInv, Known
    <3> QED
      BY <2>2, <3>1 DEF Left
  <2>3. CASE Left([file EXCEPT !.nr = w.nr], hist.put)
    <3>1. [file EXCEPT !.nr = w.nr].nr = w.nr /\ [file EXCEPT !.nr = w.nr].dat = file.dat
      BY <1>1 DEF FileType
    <3> QED
      BY <2>3, <3>1 DEF Left
  <2> QED
    BY <1>1, <2>1, <2>2, <2>3, LeaveDoes
<1>3. Known = w.nr /\ Known' = file'.nr
  BY <1>1, <1>2 DEF Known
<1>4. VerInv'
  BY <1>1, <1>2 DEF StayInv, VerInv, Version
<1>5. Holds(told, file.nr)'
  BY <1>1, <1>2, <1>3 DEF StayInv, PutInv, Holds
<1>6. PutInv'
  BY <1>2, <1>3, <1>5 DEF PutInv
<1>7. CleanInv' /\ DataInv'
  BY <1>2, <1>3 DEF CleanInv, DataInv
<1> QED
  BY <1>4, <1>6, <1>7

\* PutNow, cell by cell.
LEMMA PutNowIs ==
    ASSUME NEW v \in 1 .. nvars, NEW k \in Recs
    PROVE  PutNow[<<v, k>>] = IF v = w.call.var /\ k \in w.call.start .. Upto - 1
                              THEN w.ver ELSE hist.put[<<v, k>>]
<1>1. <<v, k>> \in Cells
  BY DEF Cells
<1>2. <<v, k>> \in {w.call.var} \X (w.call.start .. Upto - 1)
        <=> v = w.call.var /\ k \in w.call.start .. Upto - 1
  OBVIOUS
<1> QED
  BY <1>1, <1>2 DEF PutNow

\* The records of the put that are not in the batch of this writeNCv were
\* written by the ones before, once this one is the last.
LEMMA BatchIsRest ==
    ASSUME TypeInv, w.pc = "data", NEW k \in w.call.start .. After(w.at, Upto) - 1
    PROVE  k \in Batch(w.at, Upto) \/ k \in w.call.start .. w.at - 1
<1>1. w.at <= Upto /\ w.call.start <= w.at
  BY DEF TypeInv, WriterInv
<1> QED
  BY <1>1, Numbers DEF After, Batch

\* writeNCv: when the put returns, all of it is in the file.
LEMMA WriteStay ==
    ASSUME NoLost, StayInv, writeNCv
    PROVE  CleanInv' /\ VerInv' /\ PutInv' /\ DataInv'
<1>1. TypeInv /\ TypeInv' /\ UNCHANGED nvars /\ w.pc = "data"
  BY WriteDoes, WriteType DEF StayInv
<1>2. CASE Fails
  BY <1>1, <1>2, FailsStay
<1>3. CASE Written
  <2>1. /\ file'.nr = file.nr /\ w'.nr = w.nr /\ w'.ndirty = w.ndirty /\ w'.ver = w.ver
        /\ hist'.faulted = hist.faulted
        /\ hist'.put = IF Done THEN PutNow ELSE hist.put
        /\ hist'.told = IF Done /\ ~(w.ndirty /\ hist.faulted) THEN PutNow ELSE hist.told
        /\ \A v \in 1 .. nvars, k \in Recs :
              \/ file'.dat[<<v, k>>] = file.dat[<<v, k>>] /\ ~InBatch(v, k)
              \/ file'.dat[<<v, k>>] = w.ver /\ InBatch(v, k)
    BY <1>3 DEF Written
  <2>2. /\ w'.pc = IF Done THEN "idle" ELSE "data"
        /\ ~Done => w'.at = After(w.at, Upto) /\ w'.call = w.call
    BY <1>1, <1>3, ReturnedType DEF Written
  <2>3. Known = w.nr /\ Known' = w.nr
    BY <1>1, <2>1, <2>2 DEF Known
  <2>4. w.ver > Fill /\ Upto <= w.nr /\ Upto <= MaxRec
    BY <1>1 DEF TypeInv, WriterInv
  <2>5. ASSUME NEW v \in 1 .. nvars, NEW k \in Recs
        PROVE  file'.dat[<<v, k>>] >= file.dat[<<v, k>>] /\ file'.dat[<<v, k>>] <= w.ver
    BY <1>1, <2>1, Numbers DEF StayInv, VerInv
  <2>6. ASSUME NEW k \in w.call.start .. After(w.at, Upto) - 1
        PROVE  k \in Recs => file'.dat[<<w.call.var, k>>] = w.ver
    <3>1. CASE k \in Batch(w.at, Upto)
      BY <1>1, <2>1, <3>1, Numbers DEF InBatch
    <3>2. CASE k \in w.call.start .. w.at - 1
      <4>1. file.dat[<<w.call.var, k>>] = w.ver
        BY <1>1, <3>2 DEF StayInv, DataInv
      <4> QED
        BY <1>1, <2>1, <4>1, Numbers
    <3> QED
      BY <1>1, <3>1, <3>2, BatchIsRest
  <2>7. ASSUME Done, NEW v \in 1 .. nvars, NEW k \in Recs
        PROVE  /\ Version(PutNow[<<v, k>>])
               /\ PutNow[<<v, k>>] > Fill =>
                     k < w.nr /\ file'.dat[<<v, k>>] >= PutNow[<<v, k>>]
    <3>1. CASE v = w.call.var /\ k \in w.call.start .. Upto - 1
      <4>1. PutNow[<<v, k>>] = w.ver
        BY <3>1, PutNowIs
      <4>2. file'.dat[<<v, k>>] = w.ver
        BY <2>6, <2>7, <3>1 DEF Done
      <4> QED
        BY <1>1, <2>4, <3>1, <4>1, <4>2, Numbers DEF Version, Fill
    <3>2. CASE ~(v = w.call.var /\ k \in w.call.start .. Upto - 1)
      <4>1. PutNow[<<v, k>>] = hist.put[<<v, k>>]
        BY <3>2, PutNowIs
      <4>2. hist.put[<<v, k>>] > Fill => k < w.nr /\ file.dat[<<v, k>>] >= hist.put[<<v, k>>]
        BY <2>3 DEF StayInv, PutInv, Holds
      <4>3. file'.dat[<<v, k>>] \in Int
        BY <1>1, <2>1, Numbers
      <4> QED
        BY <1>1, <2>5, <4>1, <4>2, <4>3, Numbers DEF StayInv, VerInv
    <3> QED
      BY <3>1, <3>2
  <2>8. VerInv'
    <3> SUFFICES ASSUME NEW v \in 1 .. nvars, NEW k \in Recs
                 PROVE  /\ file'.dat[<<v, k>>] <= w.ver
                        /\ Version(hist'.put[<<v, k>>]) /\ Version(hist'.told[<<v, k>>])
      BY <1>1, <2>1 DEF VerInv, Version
    <3> QED
      BY <2>1, <2>5, <2>7 DEF StayInv, VerInv
  <2>9. Holds(hist.put, Known)'
    <3> SUFFICES ASSUME NEW v \in 1 .. nvars, NEW k \in Recs, hist'.put[<<v, k>>] > Fill
                 PROVE  k < w.nr /\ file'.dat[<<v, k>>] >= hist'.put[<<v, k>>]
      BY <1>1, <2>3 DEF Holds
    <3>1. CASE Done
      BY <2>1, <2>7, <3>1
    <3>2. CASE ~Done
      <4>1. k < w.nr /\ file.dat[<<v, k>>] >= hist.put[<<v, k>>]
        BY <2>1, <2>3, <3>2 DEF StayInv, PutInv, Holds
      <4>2. file'.dat[<<v, k>>] \in Int
        BY <1>1, <2>1, Numbers
      <4> QED
        BY <1>1, <2>1, <2>5, <3>2, <4>1, <4>2, Numbers
    <3> QED
      BY <3>1, <3>2
  <2>10. Holds(hist.told, file.nr)'
    <3> SUFFICES ASSUME NEW v \in 1 .. nvars, NEW k \in Recs, hist'.told[<<v, k>>] > Fill
                 PROVE  k < file.nr /\ file'.dat[<<v, k>>] >= hist'.told[<<v, k>>]
      BY <1>1, <2>1 DEF Holds
    <3>1. CASE Done /\ ~(w.ndirty /\ hist.faulted)
      <4>1. file.nr = w.nr
        BY <1>1, <2>3, <3>1, Numbers DEF StayInv, CleanInv
      <4> QED
        BY <2>1, <2>7, <3>1, <4>1
    <3>2. CASE ~(Done /\ ~(w.ndirty /\ hist.faulted))
      <4>1. k < file.nr /\ file.dat[<<v, k>>] >= hist.told[<<v, k>>]
        BY <2>1, <3>2 DEF StayInv, PutInv, Holds
      <4>2. file'.dat[<<v, k>>] \in Int
        BY <1>1, <2>1, Numbers
      <4> QED
        BY <1>1, <2>1, <2>5, <3>2, <4>1, <4>2, Numbers
    <3> QED
      BY <3>1, <3>2
  <2>11. CleanInv'
    BY <1>1, <2>1, <2>2, <2>3 DEF StayInv, CleanInv
  <2>12. DataInv'
    <3> SUFFICES ASSUME ~Done, NEW k \in w.call.start .. After(w.at, Upto) - 1
                 PROVE  file'.dat[<<w.call.var, k>>] = w.ver
      BY <2>1, <2>2 DEF DataInv
    <3>1. k \in Recs
      <4>1. w.at <= Upto
        BY <1>1 DEF TypeInv, WriterInv
      <4> QED
        BY <1>1, <2>4, <4>1, Numbers, NC3ShareAssumption DEF After, Recs
    <3> QED
      BY <2>6, <3>1
  <2> QED
    BY <2>2, <2>8, <2>9, <2>10, <2>11, <2>12 DEF PutInv
<1> QED
  BY <1>1, <1>2, <1>3, WriteDoes

\* nc_open takes the numrecs of the file, in which every put that the writer
\* was told of is.
LEMMA WriterOpenStay ==
    ASSUME StayInv, WriterOpen
    PROVE  CleanInv' /\ VerInv' /\ PutInv' /\ DataInv'
<1>1. TypeInv /\ w \in WriterType
  BY TypeParts DEF StayInv, TypeInv
<1>2. /\ w.pc = "closed" /\ w'.pc = "idle" /\ w'.nr = file.nr /\ w'.ver = w.ver
      /\ w'.ndirty = w.ndirty /\ UNCHANGED <<nvars, file, hist>>
  BY <1>1 DEF WriterOpen, WriterType, nc_get_NC
<1>3. Known = file.nr /\ Known' = file.nr /\ ~w.ndirty
  BY <1>1, <1>2 DEF Known, TypeInv, WriterInv
<1>4. VerInv' /\ PutInv'
  BY <1>1, <1>2, <1>3, QuietStay, Numbers
<1> QED
  BY <1>2, <1>3, <1>4 DEF CleanInv, DataInv

\* nc_sync, nc_set_fill and the end of NCvnrecs.
LEMMA IdleStay ==
    ASSUME NoLost, StayInv, NC3_sync \/ NC3_set_fill \/ NumrecsOfPut
    PROVE  CleanInv' /\ VerInv' /\ PutInv' /\ DataInv'
<1>1. TypeInv
  BY DEF StayInv
<1>2. CASE NumrecsOfPut
  BY <1>1, <1>2, NumrecsOfPutDoes, FailsStay, StoredStay
<1>3. CASE NC3_sync \/ NC3_set_fill
  <2>1. w.pc = "idle" /\ UNCHANGED nvars /\ (Fails \/ Stored("idle") \/ Settled)
    BY <1>1, <1>3, IdleDoes
  <2>2. CASE Settled
    <3>1. /\ w'.pc = "idle" /\ w'.nr = w.nr /\ w'.ver = w.ver /\ w'.ndirty = w.ndirty
          /\ UNCHANGED <<file, hist>> /\ Known = w.nr /\ Known' = w.nr
      BY <2>1, <2>2 DEF Settled, Known
    <3>2. VerInv' /\ PutInv'
      BY <1>1, <2>1, <3>1, QuietStay, Numbers
    <3> QED
      BY <2>1, <3>1, <3>2 DEF StayInv, CleanInv, DataInv
  <2>3. CASE ~Settled
    BY <2>1, <2>3, FailsStay, StoredStay
  <2> QED
    BY <2>2, <2>3
<1> QED
  BY <1>2, <1>3

\* What the steps of the reader leave alone.
LEMMA ReaderLeaves ==
    ASSUME TypeInv, Reader
    PROVE  /\ UNCHANGED <<nvars, file, w>>
           /\ hist'.put = hist.put /\ hist'.told = hist.told /\ hist'.faulted = hist.faulted
<1>1. hist \in HistType
  BY TypeParts DEF TypeInv
<1>2. CASE ReaderOpen \/ Ask \/ TryAgain
  BY <1>2, AskDoes
<1>3. CASE NC3_get_vara
  BY <1>1, <1>3, GetVaraDoes DEF HistType
<1>4. CASE readNCv
  BY <1>4, ReadDoes
<1> QED
  BY <1>2, <1>3, <1>4 DEF Reader

\* Every step keeps StayInv.
LEMMA StayNext == NoLost /\ StayInv /\ [Next]_vars => StayInv'
<1> SUFFICES ASSUME NoLost, StayInv, [Next]_vars PROVE StayInv'
  OBVIOUS
<1>1. TypeInv /\ TypeInv'
  BY TypeNext DEF StayInv
<1>2. CASE Writer
  <2>1. CleanInv' /\ VerInv' /\ PutInv' /\ DataInv'
    BY <1>2, WriterOpenStay, PutVaraStay, FillStay, WriteStay, LeaveStay, IdleStay DEF Writer
  <2> QED
    BY <1>1, <2>1 DEF StayInv
<1>3. CASE Reader \/ UNCHANGED vars
  <2>1. /\ UNCHANGED <<nvars, file, w>>
        /\ hist'.put = hist.put /\ hist'.told = hist.told /\ hist'.faulted = hist.faulted
    BY <1>1, <1>3, ReaderLeaves DEF vars
  <2>2. Known' = Known
    BY <2>1 DEF Known
  <2>3. VerInv' /\ PutInv'
    BY <1>1, <2>1, <2>2, QuietStay, Numbers
  <2>4. CleanInv' /\ DataInv'
    BY <2>1, <2>2 DEF StayInv, CleanInv, DataInv
  <2> QED
    BY <1>1, <2>3, <2>4 DEF StayInv
<1> QED
  BY <1>2, <1>3 DEF Next

\* Nothing has been put at first.
LEMMA StayInit == Init => StayInv
<1> SUFFICES ASSUME Init PROVE StayInv
  OBVIOUS
<1>1. \A v \in 1 .. nvars, k \in Recs :
        /\ file.dat[<<v, k>>] = Hole /\ hist.put[<<v, k>>] = Hole /\ hist.told[<<v, k>>] = Hole
  <2> TAKE v \in 1 .. nvars, k \in Recs
  <2>1. <<v, k>> \in Cells
    BY DEF Cells
  <2> QED
    BY <2>1 DEF Init
<1>2. w.ver = 0 /\ w.pc = "closed" /\ hist.put = hist.told /\ w.ndirty = FALSE /\ Known = file.nr
  BY DEF Init, Known
<1>3. VerInv
  <2> SUFFICES ASSUME NEW v \in 1 .. nvars, NEW k \in Recs
               PROVE  /\ file.dat[<<v, k>>] <= w.ver
                      /\ Version(hist.put[<<v, k>>]) /\ Version(hist.told[<<v, k>>])
    BY Zenon DEF VerInv
  <2>1. Hole <= 0 /\ Hole # Fill
    BY DEF Hole, Fill
  <2> QED
    BY <1>1, <1>2, <2>1 DEF Version
<1>4. PutInv
  BY <1>1, <1>2 DEF PutInv, Holds, Fill, Hole
<1>5. CleanInv /\ DataInv
  BY <1>2 DEF CleanInv, DataInv
<1> QED
  BY <1>3, <1>4, <1>5, TypeInit DEF StayInv

\* A put that has returned NC_NOERR is in the file, within numrecs, for ever:
\* no crash, failing put or restart of the writer, in whatever order, takes it
\* away.  The status of every write must be looked at for this to hold.
THEOREM PutsAreDurable == NoLost => (Spec => []PutsStay)
<1> SUFFICES ASSUME NoLost PROVE Spec => []PutsStay
  OBVIOUS
<1>1. StayInv => PutsStay
  BY PutsStayHolds DEF StayInv, TypeInv, PutInv
<1> QED
  BY <1>1, StayInit, StayNext, PTL DEF Spec

-----------------------------------------------------------------------------
(* Readers get what was put *)

\* While a get is in progress, what was promised when it began is in the file.
FloorInv ==
    r.pc = "reading" => \A k \in Recs : hist.floor[k] > Fill =>
        k < file.nr /\ file.dat[<<r.call.var, k>>] >= hist.floor[k]

\* A promise is a put, or nothing.
PromiseInv == \A k \in Recs : hist.floor[k] # Fill

FreshInv == StayInv /\ FloorInv /\ PromiseInv /\ Fresh

\* The promises to a get are integers, not below Hole.
LEMMA FloorNumbers ==
    ASSUME TypeInv
    PROVE  /\ \A k \in Recs : hist.floor[k] \in Int /\ hist.floor[k] >= Hole
           /\ \A k \in DOMAIN r.got : k \in Recs /\ r.got[k] \in Int
           /\ \A v \in 1 .. nvars, k \in Recs :
                 file.dat[<<v, k>>] \in Int /\ file.dat[<<v, k>>] >= Hole
           /\ r.call.var \in 1 .. nvars
<1>1. hist \in HistType /\ r \in ReaderType /\ file \in FileType
  BY TypeParts DEF TypeInv
<1>2. \A x \in Values : x \in Int /\ x >= Hole
  BY NC3ShareAssumption DEF Values, Hole
<1>3. \A v \in 1 .. nvars, k \in Recs : <<v, k>> \in Cells
  BY DEF Cells
<1>4. \A k \in DOMAIN r.got : k \in Recs /\ r.got[k] \in Values
  BY <1>1, GotType DEF ReaderType
<1>5. r.call.var \in 1 .. nvars
  BY <1>1, GetType DEF ReaderType
<1> QED
  BY <1>1, <1>2, <1>3, <1>4, <1>5 DEF HistType, FileType

\* The steps of the writer, and those that change nothing: the file grows.
LEMMA WriterFresh ==
    ASSUME FreshInv, [Next]_vars, TypeInv', UNCHANGED r, hist'.floor = hist.floor, UNCHANGED nvars
    PROVE  FloorInv' /\ PromiseInv' /\ Fresh'
<1>1. TypeInv /\ VerInv
  BY DEF FreshInv, StayInv
<1>2. Grows
  BY <1>1, GrowsNext
<1>3. ASSUME r.pc = "reading", NEW k \in Recs, hist.floor[k] > Fill
      PROVE  k < file'.nr /\ file'.dat[<<r.call.var, k>>] >= hist.floor[k]
  <2>1. k < file.nr /\ file.dat[<<r.call.var, k>>] >= hist.floor[k] /\ r.call.var \in 1 .. nvars
    BY <1>1, <1>3, FloorNumbers DEF FreshInv, FloorInv
  <2>2. file'.nr \in Int /\ file'.dat[<<r.call.var, k>>] \in Int
    <3>1. <<r.call.var, k>> \in Cells
      BY <2>1 DEF Cells
    <3>2. file' \in FileType
      BY TypePartsNext DEF TypeInv
    <3> QED
      BY <3>1, <3>2, NC3ShareAssumption DEF FileType, Values, Hole
  <2> QED
    BY <1>1, <1>2, <2>1, <2>2, Numbers, FloorNumbers DEF Grows
<1>4. FloorInv'
  BY <1>3 DEF FloorInv
<1> QED
  BY <1>4 DEF FreshInv, PromiseInv, Fresh

\* NC3_get_vara: what the writer was told is the promise, and it is in the file.
LEMMA GetVaraFresh ==
    ASSUME FreshInv, NC3_get_vara
    PROVE  FloorInv' /\ PromiseInv' /\ Fresh'
<1>1. TypeInv /\ hist \in HistType
  BY TypeParts DEF FreshInv, StayInv, TypeInv
<1>2. /\ UNCHANGED <<nvars, file, w>> /\ r'.got = r.got /\ r'.call = r.call /\ DOMAIN r.got = {}
      /\ r.call.var \in 1 .. nvars
  BY <1>1, GetVaraDoes, GetType DEF TypeInv, ReaderInv
<1>3. \A k \in Recs : hist'.floor[k] = hist.told[<<r.call.var, k>>]
  BY <1>1, GetVaraDoes DEF HistType
<1>4. FloorInv'
  BY <1>2, <1>3 DEF FloorInv, FreshInv, StayInv, PutInv, Holds
<1>5. PromiseInv'
  BY <1>2, <1>3 DEF PromiseInv, FreshInv, StayInv, VerInv, Version
<1>6. Fresh'
  BY <1>2 DEF Fresh
<1> QED
  BY <1>4, <1>5, <1>6

\* readNCv: the data of the file is what was promised, or newer.
LEMMA ReadFresh ==
    ASSUME FreshInv, readNCv
    PROVE  FloorInv' /\ PromiseInv' /\ Fresh'
<1>1. TypeInv
  BY DEF FreshInv, StayInv
<1>2. UNCHANGED <<nvars, file, w, hist>> /\ r.pc = "reading"
  BY <1>1, ReadDoes
<1>3. FloorInv'
  BY <1>1, <1>2, ReadDoes DEF FreshInv, FloorInv
<1>4. Fresh'
  <2> SUFFICES ASSUME NEW k \in DOMAIN r'.got PROVE r'.got[k] >= hist.floor[k]
    BY <1>2 DEF Fresh
  <2>1. CASE k \in DOMAIN r.got /\ r'.got[k] = r.got[k]
    BY <2>1 DEF FreshInv, Fresh
  <2>2. CASE r'.got[k] = file.dat[<<r.call.var, k>>]
    <3>1. k \in Recs /\ r.call.var \in 1 .. nvars
      BY <1>1, ReadDoes
    <3>2. file.dat[<<r.call.var, k>>] \in Int /\ file.dat[<<r.call.var, k>>] >= Hole
          /\ hist.floor[k] \in Int /\ hist.floor[k] >= Hole
      BY <1>1, <3>1, FloorNumbers
    <3>3. hist.floor[k] # Fill
      BY <3>1 DEF FreshInv, PromiseInv
    <3>4. CASE hist.floor[k] > Fill
      BY <1>2, <2>2, <3>1, <3>4 DEF FreshInv, FloorInv
    <3>5. CASE hist.floor[k] = Hole
      BY <2>2, <3>2, <3>5
    <3> QED
      BY <3>2, <3>3, <3>4, <3>5 DEF Fill, Hole
  <2> QED
    BY <1>1, <2>1, <2>2, ReadDoes
<1> QED
  BY <1>2, <1>3, <1>4 DEF FreshInv, PromiseInv

\* Every step keeps FreshInv.
LEMMA FreshNext == NoLost /\ FreshInv /\ [Next]_vars => FreshInv'
<1> SUFFICES ASSUME NoLost, FreshInv, [Next]_vars PROVE FreshInv'
  OBVIOUS
<1>1. StayInv' /\ TypeInv /\ TypeInv' /\ hist \in HistType
  BY StayNext, TypeNext, TypeParts DEF FreshInv, StayInv, TypeInv
<1>2. CASE Writer \/ UNCHANGED vars
  <2>1. UNCHANGED <<nvars, r>> /\ hist'.floor = hist.floor
    <3>1. CASE WriterOpen \/ UNCHANGED vars
      BY <3>1 DEF WriterOpen, vars
    <3>2. CASE NC3_put_vara
      BY <1>1, <3>2, PutVaraDoes DEF NC3_put_vara, HistType
    <3>3. CASE Fails /\ UNCHANGED <<nvars, r>>
      BY <1>1, <3>3 DEF Fails, HistType
    <3>4. CASE fill_NC_var
      BY <1>1, <3>3, <3>4, FillDoes DEF fill_NC_var
    <3>5. CASE (Stored("idle") \/ Stored("data")) /\ UNCHANGED <<nvars, r>>
      BY <1>1, <3>5 DEF Stored, HistType
    <3>6. CASE NumrecsOfPut
      BY <1>1, <3>3, <3>5, <3>6, NumrecsOfPutDoes
    <3>7. CASE writeNCv
      BY <1>1, <3>3, <3>7, WriteDoes DEF Written
    <3>8. CASE NC3_sync \/ NC3_set_fill
      BY <1>1, <3>3, <3>5, <3>8, IdleDoes DEF Settled
    <3>9. CASE NC3_close \/ Crash
      BY <1>1, <3>9, LeaveDoes DEF Left
    <3> QED
      BY <1>2, <3>1, <3>2, <3>4, <3>6, <3>7, <3>8, <3>9 DEF Writer
  <2> QED
    BY <1>1, <2>1, WriterFresh DEF FreshInv
<1>3. CASE ReaderOpen \/ Ask \/ TryAgain
  <2>1. UNCHANGED <<nvars, file, w, hist>> /\ r'.pc # "reading"
        /\ (r'.got = r.got \/ DOMAIN r'.got = {})
    BY <1>1, <1>3, AskDoes
  <2> QED
    BY <1>1, <2>1 DEF FreshInv, FloorInv, PromiseInv, Fresh
<1>4. CASE NC3_get_vara
  BY <1>1, <1>4, GetVaraFresh DEF FreshInv
<1>5. CASE readNCv
  BY <1>1, <1>5, ReadFresh DEF FreshInv
<1> QED
  BY <1>2, <1>3, <1>4, <1>5 DEF Next, Reader

\* A get returns for each record what the last put that had returned before the
\* get was called has written, or something newer, for any interleaving of the
\* single reads and writes of the two processes, which take no locks.
THEOREM GetsAreFresh == NoLost => (Spec => []Fresh)
<1> SUFFICES ASSUME NoLost PROVE Spec => []Fresh
  OBVIOUS
<1>1. Init => FreshInv
  <2> SUFFICES ASSUME Init PROVE FreshInv
    OBVIOUS
  <2>1. FloorInv /\ Fresh
    BY NothingGot DEF Init, FloorInv, Fresh
  <2>2. PromiseInv
    BY DEF Init, PromiseInv, Fill, Hole
  <2> QED
    BY <2>1, <2>2, StayInit DEF FreshInv
<1>2. FreshInv => Fresh
  BY DEF FreshInv
<1> QED
  BY <1>1, <1>2, FreshNext, PTL DEF Spec
=============================================================================
