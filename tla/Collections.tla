---------------------------- MODULE Collections ------------------------------
(***************************************************************************)
(* Python's sorted(), and what its dicts are used for: assignment to a key *)
(* and lists without repetitions.  Written out, since a proof knows no     *)
(* more of TLC's SortSeq and @@ than their names.                          *)
(***************************************************************************)
EXTENDS FiniteSetsExt, Functions

(* In place k is the least size that k of the sizes do not exceed.         *)
Sorted(sizes) ==
  [k \in DOMAIN sizes |->
    Min({v \in Range(sizes) :
           Cardinality({i \in DOMAIN sizes : sizes[i] <= v}) >= k})]

Ascending(S) ==
  [k \in 1 .. Cardinality(S) |->
    Min({n \in S : Cardinality({m \in S : m <= n}) >= k})]

(* Elements in the order of their keys, those of one key as they were.     *)
SortedBy(seq, keys) ==
  LET Rank(m) == Cardinality({j \in DOMAIN seq :
                   keys[j] < keys[m] \/ (keys[j] = keys[m] /\ j <= m)})
  IN  [n \in DOMAIN seq |-> seq[CHOOSE m \in DOMAIN seq : Rank(m) = n]]

Assign(table, key, value) ==
  [k \in DOMAIN table \cup {key} |-> IF k = key THEN value ELSE table[k]]

(* In the order of their first appearance.                                 *)
Deduplicated(seq) ==
  LET first == Ascending({i \in DOMAIN seq : \A j \in 1 .. i - 1 : seq[j] # seq[i]})
  IN  [k \in DOMAIN first |-> seq[first[k]]]
=============================================================================
