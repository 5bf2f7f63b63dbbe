------------------------------ MODULE KwDigest ------------------------------
(***************************************************************************)
(* The byte ranges of a driver file that the Windows load guard puts into  *)
(* its Authenticode digest (pe_authenticode.c).                            *)
(*                                                                         *)
(* A file is its layout: its length, where the CheckSum is, where the      *)
(* Certificate Table entry is (NoEntry when the data directory is too      *)
(* short for one), SizeOfHeaders, the raw data of the sections in table    *)
(* order, and what the entry says of the certificate.                      *)
(***************************************************************************)
EXTENDS Integers, Sequences, SequencesExt

CONSTANTS
    Files,          \* the layouts tried
    CHECK,          \* the width of the CheckSum field (4 bytes)
    ENTRY,          \* the width of the Certificate Table entry (8 bytes)
    NoEntry         \* certEntry of a file that has none

VARIABLES
    file,           \* the image given to PeaAuthenticodeHash
    hashed          \* the result: none yet, PEA_E_FORMAT, or the ranges hashed

dgVars == <<file, hashed>>

(* One call of HashRange: the bytes off .. off + len - 1; nothing for none. *)
HashRange(off, len) ==
    IF len = 0 THEN <<>> ELSE <<[off |-> off, len |-> len]>>

(* One turn of the insertion sort: behind the last section that is not later. *)
InsertSection(sec, cur) ==
    LET before == SelectSeq(sec, LAMBDA s : s.off <= cur.off)
        after  == SelectSeq(sec, LAMBDA s : s.off > cur.off)
    IN before \o <<cur>> \o after

(* Mutant: the sections in the order of the table. *)
SortedSections_TableOrder(f) == f.sections

SortedSections(f) == FoldLeft(InsertSection, <<>>, f.sections)

(* Steps 1 to 3: the headers without CheckSum and without the entry. *)
HeaderRanges(f) ==
    LET rest == f.checkOff + CHECK
    IN HashRange(0, f.checkOff)
       \o IF f.certEntry = NoEntry
          THEN HashRange(rest, f.headers - rest)
          ELSE HashRange(rest, f.certEntry - rest)
               \o HashRange(f.certEntry + ENTRY, f.headers - (f.certEntry + ENTRY))

(* The skipped fields lie inside the headers, in order. *)
HeadersFit(f) ==
    /\ f.headers <= f.length
    /\ f.checkOff + CHECK <= f.headers
    /\ f.certEntry # NoEntry => /\ f.certEntry >= f.checkOff + CHECK
                                /\ f.certEntry + ENTRY <= f.headers

(* Step 4, one section: its range and the running total, or a refusal. *)
HashSection(f, acc, s) ==
    CASE acc.bad \/ s.size = 0 -> acc
      [] s.off + s.size > f.length \/ acc.sum + s.size > f.length -> [acc EXCEPT !.bad = TRUE]
      [] OTHER -> [acc EXCEPT !.sum = @ + s.size, !.ranges = @ \o HashRange(s.off, s.size)]

(* Step 5: what follows, without the certificate. *)
TrailerRefused(f, sum) ==
    /\ f.length > sum
    /\ f.certSize # 0
    /\ f.certOff + f.certSize > f.length \/ f.certSize > f.length - sum

TrailerRanges(f, sum) ==
    IF f.length > sum THEN HashRange(sum, f.length - sum - f.certSize) ELSE <<>>

PeaAuthenticodeHash(f) ==
    LET done == FoldLeft(LAMBDA acc, s : HashSection(f, acc, s),
                         [bad |-> FALSE, sum |-> f.headers, ranges |-> HeaderRanges(f)],
                         SortedSections(f))
    IN CASE ~HeadersFit(f) -> [rc |-> "format", ranges |-> <<>>]
         [] HeadersFit(f) /\ (done.bad \/ TrailerRefused(f, done.sum)) ->
                [rc |-> "format", ranges |-> done.ranges]
         [] OTHER -> [rc |-> "ok", ranges |-> done.ranges \o TrailerRanges(f, done.sum)]

(* LgAuthenticodeSha256 gives one image to the hash. *)
DgInit == file \in Files /\ hashed = [rc |-> "none", ranges |-> <<>>]

LgAuthenticodeSha256 ==
    /\ hashed.rc = "none"
    /\ hashed' = PeaAuthenticodeHash(file)
    /\ UNCHANGED file

DgNext == LgAuthenticodeSha256

-----------------------------------------------------------------------------
Bytes(r) == r.off .. (r.off + r.len - 1)

(* What a linker and signtool produce: the sections follow the headers     *)
(* without overlap, in any order of the table, and the certificate is last.*)
WellFormed(f) ==
    LET end == f.headers + FoldLeft(LAMBDA n, s : n + s.size, 0, f.sections)
    IN /\ HeadersFit(f)
       /\ \A i \in 1..Len(f.sections) :
            /\ f.sections[i].size > 0
            /\ f.sections[i].off >= f.headers
            /\ f.sections[i].off + f.sections[i].size <= end
       /\ \A i, j \in 1..Len(f.sections) :
            i # j => Bytes([off |-> f.sections[i].off, len |-> f.sections[i].size])
                     \cap Bytes([off |-> f.sections[j].off, len |-> f.sections[j].size]) = {}
       /\ end + f.certSize <= f.length
       /\ f.certSize > 0 => f.certOff + f.certSize = f.length

(* The bytes the digest must not depend on. *)
Unsigned(f) ==
    (f.checkOff .. f.checkOff + CHECK - 1)
    \cup (IF f.certEntry = NoEntry THEN {} ELSE f.certEntry .. f.certEntry + ENTRY - 1)
    \cup (IF f.certSize = 0 THEN {} ELSE f.certOff .. f.certOff + f.certSize - 1)

(* Whatever the header says, no byte outside the file is read, and not     *)
(* more bytes are hashed than the file has (pe_authenticode.c:133-139).  A *)
(* well-formed image is accepted, and every byte but the checksum, the     *)
(* certificate entry and the certificate goes in exactly once, in order    *)
(* (pe_authenticode.c:4-8).                                                *)
DigestCoversFile ==
    LET rs    == hashed.ranges
        total == FoldLeft(LAMBDA n, r : n + r.len, 0, rs)
    IN /\ \A i \in 1..Len(rs) : Bytes(rs[i]) \subseteq 0..(file.length - 1)
       /\ total <= file.length
       /\ hashed.rc # "none" /\ WellFormed(file) =>
            /\ hashed.rc = "ok"
            /\ UNION {Bytes(rs[i]) : i \in 1..Len(rs)} = (0..(file.length - 1)) \ Unsigned(file)
            /\ \A i, j \in 1..Len(rs) : i < j => rs[i].off + rs[i].len <= rs[j].off
=============================================================================
