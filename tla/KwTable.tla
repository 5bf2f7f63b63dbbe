------------------------------ MODULE KwTable ------------------------------
(***************************************************************************)
(* The table of known digests of the Windows load guard (digest_table.c).  *)
(* A digest is a number, ordered as DtCompare orders the 32 bytes; indices *)
(* are 0-based as in the C code, and -1 is "not there".                    *)
(***************************************************************************)
EXTENDS Integers, Sequences

(* The strict order the generated table has: DtIsAscending. *)
DtIsAscending(table) ==
    \A i \in 2..Len(table) : table[i - 1] < table[i]

(* The binary search of DtFind on the candidates [lo, hi). *)
BinarySearch(table, digest) ==
    LET find[lo \in 0..Len(table), hi \in 0..Len(table)] ==
            IF lo >= hi THEN -1
            ELSE LET mid == lo + ((hi - lo) \div 2)
                 IN CASE table[mid + 1] = digest -> mid
                      [] table[mid + 1] < digest -> find[mid + 1, hi]
                      [] OTHER -> find[lo, mid]
    IN find[0, Len(table)]

(* A linear scan: the first index that matches. *)
FirstMatch(table, digest) ==
    LET hits == {i \in 1..Len(table) : table[i] = digest}
    IN IF hits = {} THEN -1 ELSE (CHOOSE i \in hits : \A j \in hits : i <= j) - 1

DtFind(table, sorted, digest) ==
    IF sorted THEN BinarySearch(table, digest) ELSE FirstMatch(table, digest)
=============================================================================
