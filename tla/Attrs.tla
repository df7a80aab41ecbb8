-------------------------------- MODULE Attrs --------------------------------
(***************************************************************************)
(* internal/attrs: how values are written to and read from attributes.     *)
(*                                                                         *)
(* The decimal string of an integer is that integer, the hexadecimal one   *)
(* of a byte that byte; the order of bytes, the signs and the widths are   *)
(* the code's.  Widths are parameters, since TLC counts in 32 bits.        *)
(***************************************************************************)
EXTENDS Integers, SequencesExt

CONSTANTS WordBits,    \* bits of a word (32)
          Base,        \* values of a byte (256)
          MaxSubs,     \* sub-authorities SIDFromString allows (15)
          TimeBits,    \* bits of a time (64)
          Tick,        \* nanoseconds of a FILETIME interval (100)
          EpochOffset  \* FILETIME intervals from 1601 to 1970

\* What the real widths satisfy: the word holds the group types, and 1601 is further
\* back from 1970 than the nanoseconds of a time reach.
ASSUME AttrsAssumption ==
    /\ WordBits \in 5..30 /\ TimeBits \in 5..30 /\ Base \in Nat \ {0, 1} /\ MaxSubs \in 0..(Base - 1)
    /\ Tick \in Nat \ {0} /\ EpochOffset * Tick > 2^(TimeBits - 1)
-----------------------------------------------------------------------------
\* Two's complement in n bits.
Signed(v, n) == ((v + 2^(n - 1)) % 2^n) - 2^(n - 1)

Bit(v, b) == (v \div b) % 2 = 1

Uint32String(v) == Signed(v, WordBits)
ParseUint32(n) == Signed(n, WordBits) % 2^WordBits

GroupTypeGlobal == 2
GroupTypeDomainLocal == 4
GroupTypeUniversal == 8
GroupTypeSecurity == 2^(WordBits - 1)

ScopeBits == [Global |-> GroupTypeGlobal, DomainLocal |-> GroupTypeDomainLocal,
              Universal |-> GroupTypeUniversal]

ScopeAndCategory(v) ==
    LET set == {s \in DOMAIN ScopeBits : Bit(v, ScopeBits[s])}
    IN [scope |-> IF set \in {{"DomainLocal"}, {"Universal"}} THEN CHOOSE s \in set : TRUE ELSE "Global",
        category |-> IF Bit(v, GroupTypeSecurity) THEN "Security" ELSE "Distribution"]

GroupTypeValue(scope, category) ==
    ScopeBits[scope] + IF category = "Distribution" THEN 0 ELSE GroupTypeSecurity
-----------------------------------------------------------------------------
\* The bytes of the three little-endian fields change their order, the last eight do not.
GUIDOrder == <<4, 3, 2, 1, 6, 5, 8, 7>> \o [k \in 1..8 |-> k + 8]

\* GUIDToString: the sixteen pairs of digits; an empty answer is an error.
GUIDToString(b) == IF Len(b) # 16 THEN <<>> ELSE [k \in 1..16 |-> b[GUIDOrder[k]]]

\* Mutant of GUIDToBytes: the digits are the bytes.
GUIDToBytesFlat(s) == s

GUIDToBytes(s) ==
    IF Len(s) # 16 THEN <<>>
    ELSE LET reversed(lo, hi) == [k \in 1..(hi - lo + 1) |-> s[hi - k + 1]]
         IN reversed(1, 4) \o reversed(5, 6) \o reversed(7, 8) \o SubSeq(s, 9, 16)
-----------------------------------------------------------------------------
BigEndian(bytes) == FoldLeft(LAMBDA acc, x : acc * Base + x, 0, bytes)
LittleEndian(bytes) == BigEndian(Reverse(bytes))
ByteOf(v, k) == (v \div Base^k) % Base

\* SIDToString: revision, authority and sub-authorities; an empty answer is an error.
SIDToString(b) ==
    IF Len(b) < 8 \/ Len(b) # 8 + 4 * b[2] THEN <<>>
    ELSE <<b[1], BigEndian(SubSeq(b, 3, 8))>>
         \o [k \in 1..b[2] |-> LittleEndian(SubSeq(b, 5 + 4 * k, 8 + 4 * k))]

\* SIDFromString of the parts after the S.
SIDFromString(parts) ==
    LET subs == SubSeq(parts, 3, Len(parts))
    IN IF \/ Len(parts) < 2 \/ parts[1] >= Base \/ parts[2] >= Base^6 \/ Len(subs) > MaxSubs
          \/ \E k \in DOMAIN subs : subs[k] >= Base^4
       THEN <<>>
       ELSE <<parts[1], Len(subs)>> \o [k \in 1..6 |-> ByteOf(parts[2], 6 - k)]
            \o FlattenSeq([j \in DOMAIN subs |-> [k \in 1..4 |-> ByteOf(subs[j], k - 1)]])
-----------------------------------------------------------------------------
FileTimeNever == 2^(TimeBits - 1) - 1
Never == {0, FileTimeNever}

\* FileTimeToTime of a value that is not one of Never: nanoseconds since 1970, computed
\* in the width of the machine.
FileTimeToTime(v) == Signed(Signed(v - EpochOffset, TimeBits) * Tick, TimeBits)

\* TimeToFileTime: Go's division rounds towards zero.
TimeToFileTime(t) ==
    Signed((IF t < 0 THEN -((-t) \div Tick) ELSE t \div Tick) + EpochOffset, TimeBits)

\* The values whose nanoseconds fit: 1677 to 2262.
Datable == {v \in 0..FileTimeNever : (v - EpochOffset) * Tick \in -(2^(TimeBits - 1))..(2^(TimeBits - 1) - 1)}
-----------------------------------------------------------------------------
encTypes == <<"DES-CBC-CRC", "DES-CBC-MD5", "RC4", "AES128", "AES256">>

\* The longer spellings that are also accepted.
Spelling(n) == CASE n = "RC4-HMAC-MD5" -> "RC4"
                 [] n = "AES128-CTS-HMAC-SHA1-96" -> "AES128"
                 [] n = "AES256-CTS-HMAC-SHA1-96" -> "AES256"
                 [] OTHER -> n

\* A mask is the set of its bits' positions; unknown names have none.
EncTypeBits(names) == {k \in DOMAIN encTypes : \E j \in DOMAIN names : Spelling(names[j]) = encTypes[k]}
EncTypeNames(bits) == SelectSeq(encTypes, LAMBDA n : \E k \in bits : k \in DOMAIN encTypes /\ encTypes[k] = n)
-----------------------------------------------------------------------------
\* What AD accepts for a word is what it stores: any signed decimal of that width.
WordSurvives(v) == /\ Uint32String(v) \in -(2^(WordBits - 1))..(2^(WordBits - 1) - 1)
                   /\ ParseUint32(Uint32String(v)) = v

\* Scope and category come back from the word they were written to, whatever other bits
\* the word carries.
GroupTypeSurvives(g) ==
    \A other \in {0, 1, 16} :
        ScopeAndCategory(ParseUint32(Uint32String(GroupTypeValue(g.scope, g.category) + other))) = g

GUIDSurvives(b) == GUIDToBytes(GUIDToString(b)) = IF Len(b) = 16 THEN b ELSE <<>>

\* A SID with as many sub-authorities as can be written comes back.
SIDSurvives(b) == SIDToString(b) # <<>> /\ b[2] <= MaxSubs => SIDFromString(SIDToString(b)) = b

\* A date between 1677 and 2262 comes back, and is never mistaken for "never".
FileTimeSurvives(v) == v \in Datable => v \notin Never /\ TimeToFileTime(FileTimeToTime(v)) = v

\* A list of encryption types reads back as the same types, spelled canonically.
EncTypesSurvive(names) ==
    LET back == EncTypeNames(EncTypeBits(names))
    IN /\ EncTypeBits(back) = EncTypeBits(names)
       /\ \A j \in DOMAIN back : \E k \in DOMAIN names : Spelling(names[k]) = back[j]
=============================================================================
