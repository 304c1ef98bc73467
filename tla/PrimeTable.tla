----------------------------- MODULE PrimeTable -----------------------------
(***************************************************************************)
(* The size of a hash table: the binary search of findPrimeGreaterThan in  *)
(* the table of primes, and, beyond its end, the search of nextPrime       *)
(* (libdispatch/nchashmap.c), one iteration of their loops at a step.      *)
(***************************************************************************)
EXTENDS Integers, Sequences

CONSTANTS
    NC_primes,     \* a flag, the first primes, and a flag larger than all
    Vals           \* the sizes that are asked for

ASSUME PrimeTableAssumption ==
    /\ NC_primes \in Seq(Nat) /\ Len(NC_primes) >= 4
    /\ \A i \in 1 .. Len(NC_primes) - 1 : NC_primes[i] < NC_primes[i + 1]
    /\ Vals \subseteq Nat \ {0, 1}

VARIABLES
    val,       \* the argument
    pc,        \* which loop runs: "search", "next", or "done"
    L, R,      \* the bounds of the binary search
    prime      \* the candidate of nextPrime, and the result

findVars == <<val, pc, L, R, prime>>

\* The array as C indexes it.
NC_nprimes == Len(NC_primes)
P(i) == NC_primes[i + 1]

\* The limit is the flag at the end of the table, 0xFFFFFFFF: the result is 0.
TooBig == val >= P(NC_nprimes - 1)

\* isPrime: trial division by the primes of the table, up to the square root.
isPrime(n) ==
    n > 1 /\ (n <= 3 \/ \A i \in 1 .. NC_nprimes - 2 :
                           (\A j \in 1 .. i - 1 : P(j) * P(j) <= n) => n % P(i) # 0)

\* Mutant: a value that is in the table is passed over.
SearchStrict ==
    LET m == (L + R) \div 2
    IN  /\ pc = "search" /\ L < R
        /\ \/ /\ P(m - 1) <= val /\ P(m) > val
              /\ prime' = P(m) /\ pc' = "done"
              /\ UNCHANGED <<L, R>>
           \/ /\ P(m - 1) > val
              /\ R' = m
              /\ UNCHANGED <<L, pc, prime>>
           \/ /\ P(m) <= val
              /\ L' = m
              /\ UNCHANGED <<R, pc, prime>>
        /\ UNCHANGED val

\* Mutant: the lower bound becomes the middle less one.
SearchSkips ==
    LET m == (L + R) \div 2
    IN  /\ pc = "search" /\ L < R
        /\ \/ /\ P(m - 1) < val /\ P(m) >= val
              /\ prime' = P(m) /\ pc' = "done"
              /\ UNCHANGED <<L, R>>
           \/ /\ P(m - 1) >= val
              /\ R' = m
              /\ UNCHANGED <<L, pc, prime>>
           \/ /\ P(m) < val
              /\ L' = m - 1
              /\ UNCHANGED <<R, pc, prime>>
        /\ UNCHANGED val

\* An iteration of the binary search.  The exit of the loop for L >= R is never
\* taken for a value of the callers: it would be a deadlock here.
Search ==
    LET m == (L + R) \div 2
    IN  /\ pc = "search" /\ L < R
        /\ \/ /\ P(m - 1) < val /\ P(m) >= val
              /\ prime' = P(m) /\ pc' = "done"
              /\ UNCHANGED <<L, R>>
           \/ /\ P(m - 1) >= val
              /\ R' = m
              /\ UNCHANGED <<L, pc, prime>>
           \/ /\ P(m) < val
              /\ L' = m
              /\ UNCHANGED <<R, pc, prime>>
        /\ UNCHANGED val

\* An iteration of nextPrime.
nextPrime ==
    /\ pc = "next"
    /\ prime' = prime + 2
    /\ pc' = IF isPrime(prime + 2) THEN "done" ELSE "next"
    /\ UNCHANGED <<val, L, R>>

\* findPrimeGreaterThan(val) is called.
FindInit ==
    /\ val \in Vals
    /\ L = 1
    /\ R = NC_nprimes - 2
    /\ pc = CASE TooBig -> "done"
              [] ~TooBig /\ val > P(NC_nprimes - 2) -> "next"
              [] OTHER -> "search"
    /\ prime = IF pc = "next" THEN (IF val % 2 = 0 THEN val - 1 ELSE val) ELSE 0

\* The call has returned.
Returned == pc = "done" /\ UNCHANGED findVars

FindStep == Search \/ nextPrime

FindNext == FindStep \/ Returned

\* The caller runs until the call returns.  An iteration that leaves L and R
\* as they are leads to the same state again: a loop that goes round for ever
\* is a behaviour that from there on stutters.
FindSpec == FindInit /\ [][FindNext]_findVars /\ WF_findVars(FindStep)

----------------------------------------------------------------------------
(* What is checked *)

\* The result is the first prime from val on; beyond the table, the first one
\* after val (findPrimeGreaterThan).
FirstPrime ==
    pc = "done" /\ ~TooBig =>
        /\ prime >= val
        /\ \A i \in 2 .. prime - 1 : prime % i # 0
        /\ \A q \in val .. prime - 1 :
              (q > P(NC_nprimes - 2) => q # val) => \E i \in 2 .. q - 1 : q % i = 0

\* The binary search comes to an end if the prime is not the last of the table.
TerminatesBelowLast == (val <= P(NC_nprimes - 3)) ~> (pc = "done")

\* The call returns, whatever the value.
Terminates == <>(pc = "done")
=============================================================================
