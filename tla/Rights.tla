------------------------------- MODULE Rights -------------------------------
(***************************************************************************)
(* internal/secdesc/rights.go: access masks and their names.               *)
(*                                                                         *)
(* A uint32 mask is the set of its bit positions; a list of right names is *)
(* the set of those names (RightsNames emits each at most once, in table   *)
(* order, and nothing compares the order).                                 *)
(***************************************************************************)
EXTENDS Integers, SequencesExt

\* rightsTable, ascending by value.
rightsTable == <<
    [name |-> "CreateChild", bit |-> {0}],
    [name |-> "DeleteChild", bit |-> {1}],
    [name |-> "ListChildren", bit |-> {2}],
    [name |-> "Self", bit |-> {3}],
    [name |-> "ReadProperty", bit |-> {4}],
    [name |-> "WriteProperty", bit |-> {5}],
    [name |-> "DeleteTree", bit |-> {6}],
    [name |-> "ListObject", bit |-> {7}],
    [name |-> "ExtendedRight", bit |-> {8}],
    [name |-> "Delete", bit |-> {16}],
    [name |-> "ReadControl", bit |-> {17}],
    [name |-> "GenericExecute", bit |-> {17, 2}],
    [name |-> "GenericWrite", bit |-> {17, 5, 3}],
    [name |-> "GenericRead", bit |-> {17, 7, 4, 2}],
    [name |-> "WriteDacl", bit |-> {18}],
    [name |-> "WriteOwner", bit |-> {19}],
    [name |-> "GenericAll", bit |-> (0..8) \union (16..19)],
    [name |-> "Synchronize", bit |-> {20}],
    [name |-> "AccessSystemSecurity", bit |-> {24}] >>

Entries == DOMAIN rightsTable
RightNames == {rightsTable[i].name : i \in Entries}
RightBits == UNION {rightsTable[i].bit : i \in Entries}

\* RightsMask of known names: the union of their bits.
RightsMask(names) ==
    UNION {rightsTable[i].bit : i \in {j \in Entries : rightsTable[j].name \in names}}

\* Mutant of RightsNames: the walk begins one entry too low.
RightsNamesBelowTop(mask) ==
    LET take(r, acc) == IF r.bit \subseteq acc.remaining
                          THEN [remaining |-> acc.remaining \ r.bit,
                                taken |-> acc.taken \union {r.name}]
                          ELSE acc
        walked == FoldRight(take, Front(rightsTable), [remaining |-> mask, taken |-> {}])
    IN RightNames \intersect walked.taken

\* RightsNames: walk the table downwards; take every entry whose bits all remain
\* and clear them.  Then list the names of the entries taken.
RightsNames(mask) ==
    LET take(r, acc) == IF r.bit \subseteq acc.remaining
                          THEN [remaining |-> acc.remaining \ r.bit,
                                taken |-> acc.taken \union {r.name}]
                          ELSE acc
        walked == FoldRight(take, rightsTable, [remaining |-> mask, taken |-> {}])
    IN RightNames \intersect walked.taken
=============================================================================
