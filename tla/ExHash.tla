------------------------------- MODULE ExHash -------------------------------
(***************************************************************************)
(* The extensible hash table on which the LRU caches rest                  *)
(* (libdispatch/ncexhash.c): a directory indexed by the leading bits of    *)
(* the hash key, leaves of sorted entries, leaves that split and a         *)
(* directory that doubles while room is made for a new entry.              *)
(*                                                                         *)
(* A leaf is split by the last bit of the directory index, whatever its    *)
(* local depth, and the two first leaves start at local depth 0 in a       *)
(* directory of depth 1: a leaf may own slots that are not neighbours, a   *)
(* split may move nothing, and a leaf may be left without a slot.  What is *)
(* checked is that the table is a map all the same.                        *)
(***************************************************************************)
EXTENDS Integers, Sequences, FiniteSets

CONSTANTS
    KeyBits,      \* NCEXHASHKEYBITS: 64 in the code
    Keys, Data,   \* hash keys and data
    NoData,
    LeafLen,      \* leaflen
    Uses,         \* bounds: the keys and data of a caller, how many keys it keeps,
                  \* and the depth beyond which the directory finds no memory
    NoLeaf        \* a null NCexleaf*

VARIABLES
    depth,        \* NCexhashmap.depth
    directory,    \* NCexhashmap.directory: [0 .. 2^depth - 1 -> uid of a leaf]
    leaf,         \* the leaves by uid: [depth, entries], entries in order of key
    leaves,       \* NCexhashmap.leaves: every leaf, the newest first
    nactive,      \* NCexhashmap.nactive
    iterator,     \* NCexhashmap.iterator, with the place in leaves of its leaf
    locating,     \* the entry exhashlocate is finding a place for, or NoEntry
    seen,         \* history: the keys this walk has returned
    use           \* the member of Uses this behaviour has

vars == <<depth, directory, leaf, leaves, nactive, iterator, locating, seen, use>>

NoEntry == [hashkey |-> -1, data |-> NoData]

\* The powers of two up to 2^KeyBits.
Pow2 ==
    LET power[n \in 0 .. KeyBits] == IF n = 0 THEN 1 ELSE 2 * power[n - 1]
    IN  [n \in 0 .. KeyBits |-> power[n]]

ASSUME ExHashAssumption ==
    /\ KeyBits \in Nat \ {0} /\ Keys \subseteq 0 .. Pow2[KeyBits] - 1
    /\ LeafLen \in Nat \ {0, 1}     \* MINLEAFLEN
    /\ NoData \notin Data /\ NoLeaf \notin Nat \X Nat
    /\ Uses \subseteq [keys : SUBSET Keys, data : SUBSET Data, most : Nat, depth : 1 .. KeyBits]

----------------------------------------------------------------------------
(* Finding a key *)

\* The leftmost d bits of h.
MSB(h, d) == h \div Pow2[KeyBits - d]

Idle == [walking |-> FALSE, at |-> 0, index |-> 0]

\* The binary search of a leaf, which has come to its part w[1] .. w[2]: the
\* place of the key, or the place where it is to be inserted.
exbinsearch(hkey, entries) ==
    LET n == Len(entries)
        search[w \in (1 .. n) \X (1 .. n)] ==
            LET m == (w[1] + w[2] + 1) \div 2
            IN  IF w[1] = w[2] THEN w[1]
                ELSE IF entries[m].hashkey > hkey THEN search[<<w[1], m - 1>>]
                ELSE search[<<m, w[2]>>]
        at == search[<<1, n>>]
    IN  IF n = 0 THEN 1 ELSE IF entries[at].hashkey < hkey THEN at + 1 ELSE at

\* The leaf the directory has for a key, and whether exhashlookup finds it there.
LeafOf(dir, d, hkey) == dir[MSB(hkey, d)]

Holds(entries, hkey) ==
    LET i == exbinsearch(hkey, entries)
    IN  i <= Len(entries) /\ entries[i].hashkey = hkey

Mine(hkey) == leaf[LeafOf(directory, depth, hkey)].entries

Found(hkey) == Holds(Mine(hkey), hkey)

\* ncexhashget
ncexhashget(hkey) ==
    IF Found(hkey) THEN Mine(hkey)[exbinsearch(hkey, Mine(hkey))].data ELSE NoData

----------------------------------------------------------------------------
(* Adding a key *)

SetEntry(e) ==
    leaf' = [leaf EXCEPT ![LeafOf(directory, depth, e.hashkey)].entries =
                 [@ EXCEPT ![exbinsearch(e.hashkey, @)] = e]]

\* ncexhashput of a key that is there: the new data.
ReplaceData(e) ==
    /\ Found(e.hashkey)
    /\ SetEntry(e)
    /\ UNCHANGED <<depth, directory, leaves, nactive, iterator, locating, seen, use>>

\* ncexhashput of a new key goes on in exhashlocate.
BeginLocate(e) ==
    /\ ~Found(e.hashkey) /\ nactive < use.most
    /\ locating' = e
    /\ UNCHANGED <<depth, directory, leaf, leaves, nactive, iterator, seen, use>>

ncexhashput(e) ==
    /\ locating = NoEntry /\ ~iterator.walking
    /\ ReplaceData(e) \/ BeginLocate(e)

\* Mutant: the halves of the new directory are copies of the old one.
doubledHalves(dir, d) == [i \in 0 .. Pow2[d + 1] - 1 |-> dir[i % Pow2[d]]]

\* exhashdouble: every slot becomes two neighbours.
doubled(dir, d) == [i \in 0 .. Pow2[d + 1] - 1 |-> dir[i \div 2]]

\* The entries for which a directory has the leaf uid, in their order.
Goes(entries, dir, d, uid) ==
    LET kept[i \in 0 .. Len(entries)] ==
            IF i = 0 THEN <<>>
            ELSE IF LeafOf(dir, d, entries[i].hashkey) = uid THEN Append(kept[i - 1], entries[i])
            ELSE kept[i - 1]
    IN  kept[Len(entries)]

Full == Len(Mine(locating.hashkey)) >= LeafLen

\* exhashsplit: the leaf and a new one share its entries by the last bit of
\* the directory index, after the directory has been doubled if the leaf has
\* got deeper than it.
exhashsplit ==
    LET old == LeafOf(directory, depth, locating.hashkey)
        new == Cardinality(DOMAIN leaf)
        ld  == leaf[old].depth + 1
        gd  == IF ld > depth THEN depth + 1 ELSE depth
        was == IF ld > depth THEN doubled(directory, depth) ELSE directory
        dir == [i \in DOMAIN was |-> IF was[i] = old /\ i % 2 = 1 THEN new ELSE was[i]]
        half(uid) == [depth |-> ld, entries |-> Goes(leaf[old].entries, dir, gd, uid)]
    IN  /\ locating # NoEntry /\ Full
        /\ gd <= use.depth
        /\ depth' = gd
        /\ directory' = dir
        /\ leaf' = [u \in DOMAIN leaf \cup {new} |->
                       IF u \in {old, new} THEN half(u) ELSE leaf[u]]
        /\ leaves' = <<new>> \o leaves
        /\ UNCHANGED <<nactive, iterator, locating, seen, use>>

\* Mutant: the loop of exhashlocate goes on after NC_ENOMEM.
exhashsplitRetries ==
    LET old == LeafOf(directory, depth, locating.hashkey)
    IN  /\ locating # NoEntry /\ Full
        /\ leaf[old].depth + 1 > depth /\ depth = use.depth
        /\ leaf' = [leaf EXCEPT ![old].depth = IF @ > use.depth THEN @ ELSE @ + 1]
        /\ UNCHANGED <<depth, directory, leaves, nactive, iterator, locating, seen, use>>

\* exhashdouble finds no memory: ncexhashput returns NC_ENOMEM.  The leaf keeps
\* the local depth it has been given (beyond use.depth, depths are not told
\* apart).
exhashsplitNoMemory ==
    LET old == LeafOf(directory, depth, locating.hashkey)
    IN  /\ locating # NoEntry /\ Full
        /\ leaf[old].depth + 1 > depth /\ depth = use.depth
        /\ leaf' = [leaf EXCEPT ![old].depth = IF @ > use.depth THEN @ ELSE @ + 1]
        /\ locating' = NoEntry
        /\ UNCHANGED <<depth, directory, leaves, nactive, iterator, seen, use>>

\* Mutant: the new entry is not counted.
exhashnewentryUncounted ==
    LET at == exbinsearch(locating.hashkey, Mine(locating.hashkey))
    IN  /\ locating # NoEntry /\ ~Full
        /\ leaf' = [leaf EXCEPT ![LeafOf(directory, depth, locating.hashkey)].entries =
                       SubSeq(@, 1, at - 1) \o <<locating>> \o SubSeq(@, at, Len(@))]
        /\ locating' = NoEntry
        /\ UNCHANGED <<depth, directory, leaves, nactive, iterator, seen, use>>

\* There is room: exhashnewentry, and the entry is filled in.
exhashnewentry ==
    LET at == exbinsearch(locating.hashkey, Mine(locating.hashkey))
    IN  /\ locating # NoEntry /\ ~Full
        /\ leaf' = [leaf EXCEPT ![LeafOf(directory, depth, locating.hashkey)].entries =
                       SubSeq(@, 1, at - 1) \o <<locating>> \o SubSeq(@, at, Len(@))]
        /\ nactive' = nactive + 1
        /\ locating' = NoEntry
        /\ UNCHANGED <<depth, directory, leaves, iterator, seen, use>>

----------------------------------------------------------------------------
(* Removing, changing, walking *)

ncexhashremove(hkey) ==
    LET at == exbinsearch(hkey, Mine(hkey))
    IN  /\ locating = NoEntry /\ ~iterator.walking /\ Found(hkey)
        /\ leaf' = [leaf EXCEPT ![LeafOf(directory, depth, hkey)].entries =
                       SubSeq(@, 1, at - 1) \o SubSeq(@, at + 1, Len(@))]
        /\ nactive' = nactive - 1
        /\ UNCHANGED <<depth, directory, leaves, iterator, locating, seen, use>>

ncexhashsetdata(hkey, d) ==
    /\ locating = NoEntry /\ ~iterator.walking /\ Found(hkey)
    /\ SetEntry([hashkey |-> hkey, data |-> d])
    /\ UNCHANGED <<depth, directory, leaves, nactive, iterator, locating, seen, use>>

\* Mutant: the place in the leaf is kept when the walk goes on to the next leaf.
NextPlaceKeepIndex(at, index) ==
    LET more == {i \in at .. Len(leaves) : index < Len(leaf[leaves[i]].entries)}
        i == CHOOSE j \in more : \A m \in more : j <= m
    IN  IF more = {} THEN NoLeaf ELSE <<i, index>>

\* The next entry at or after a place of the chain of leaves, or NoLeaf.
NextPlace(at, index) ==
    LET more == {i \in at .. Len(leaves) :
                    (IF i = at THEN index ELSE 0) < Len(leaf[leaves[i]].entries)}
        i == CHOOSE j \in more : \A m \in more : j <= m
    IN  IF more = {} THEN NoLeaf ELSE <<i, IF i = at THEN index ELSE 0>>

\* ncexhashiterate: the next entry; after the last one the walk is over.
ncexhashiterate ==
    LET from  == IF iterator.walking THEN iterator ELSE [Idle EXCEPT !.at = 1]
        place == NextPlace(from.at, from.index)
    IN  /\ locating = NoEntry
        /\ \/ /\ place # NoLeaf
              /\ iterator' = [walking |-> TRUE, at |-> place[1], index |-> place[2] + 1]
              /\ seen' = seen \cup {leaf[leaves[place[1]]].entries[place[2] + 1].hashkey}
           \/ /\ place = NoLeaf
              /\ iterator' = Idle
              /\ seen' = {}
        /\ UNCHANGED <<depth, directory, leaf, leaves, nactive, locating, use>>

----------------------------------------------------------------------------
\* ncexhashnew
Init ==
    /\ depth = 1                                             \* MINDEPTH
    /\ directory = [i \in 0 .. 1 |-> i]
    /\ leaf = [u \in 0 .. 1 |-> [depth |-> 0, entries |-> <<>>]]
    /\ leaves = <<1, 0>>
    /\ nactive = 0
    /\ iterator = Idle
    /\ locating = NoEntry
    /\ seen = {}
    /\ use \in Uses

Locate == exhashsplit \/ exhashsplitNoMemory \/ exhashnewentry

Next ==
    \/ \E k \in use.keys, d \in use.data : ncexhashput([hashkey |-> k, data |-> d])
    \/ exhashsplit
    \/ exhashsplitNoMemory
    \/ exhashnewentry
    \/ \E k \in use.keys : ncexhashremove(k)
    \/ \E k \in use.keys, d \in use.data : ncexhashsetdata(k, d)
    \/ ncexhashiterate

\* A call of ncexhashput runs to its end.
Spec == Init /\ [][Next]_vars /\ WF_vars(Locate)

----------------------------------------------------------------------------
(* What is checked *)

TypeOK ==
    /\ use \in Uses /\ depth \in 1 .. use.depth
    /\ directory \in [0 .. Pow2[depth] - 1 -> DOMAIN leaf]
    /\ \A u \in DOMAIN leaf :
          /\ leaf[u].depth \in Nat
          /\ leaf[u].entries \in Seq([hashkey : Keys, data : Data])
    /\ leaves \in Seq(DOMAIN leaf) /\ nactive \in Nat
    /\ seen \subseteq Keys
    /\ locating \in [hashkey : Keys, data : Data] \cup {NoEntry}

Map == INSTANCE NameMap WITH
    map   <- [k \in Keys |-> ncexhashget(k)],
    count <- nactive

\* What ncexhashget returns for every key and what ncexhashcount returns change
\* with every call as those of a map do.  The splits and doublings on the way
\* to a new entry, and a call that ends for want of memory, change neither.
IsMap == Map!Spec

\* A walk returns every key of the table before it ends and no key twice,
\* whichever leaves have split or lost their slots before: the walk follows the
\* chain of leaves, the other calls the directory.
WalkComplete ==
    [][ncexhashiterate =>
          IF iterator'.walking THEN seen' # seen
          ELSE seen = {k \in Keys : ncexhashget(k) # NoData}]_vars

\* Room is found, or memory runs out: splitting a leaf does not go on for ever,
\* although a split may move no entry.
LocateEnds == (locating # NoEntry) ~> (locating = NoEntry)
=============================================================================
