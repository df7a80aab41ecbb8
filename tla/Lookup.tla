------------------------------- MODULE Lookup -------------------------------
(***************************************************************************)
(* Finding objects: goldapConn.Search, searchEntries, getOne and resolveDN *)
(* of search.go, Schema.Resolve of schema.go, as functions of what the     *)
(* directory holds and of how its server treats a size limit.              *)
(*                                                                         *)
(* An answer is [kind, val]: kind "nil" and a value, or the Kind of the    *)
(* error.  A filter is the predicate it stands for; escaping, and failures *)
(* of the connection (see Exec), are left out.                             *)
(***************************************************************************)
EXTENDS Integers, SequencesExt

CONSTANT MaxPageSize  \* entries a server returns to one unpaged search

ASSUME LookupAssumption == MaxPageSize \in Nat \ {0}

Good(v) == [kind |-> "nil", val |-> v]
Bad(kind) == [kind |-> kind, val |-> <<>>]

\* What servers do with more matches than the size limit: answer sizeLimitExceeded,
\* return that many and success, or all of them.
Servers == {"refuses", "truncates", "ignores"}

\* The rows of one search for which `found` matches; a limit of 0 is none.
Rows(found, limit, server) ==
    IF limit = 0 \/ Len(found) <= limit \/ server = "ignores" THEN Good(found)
    ELSE IF server = "truncates" THEN Good(SubSeq(found, 1, limit)) ELSE Bad("TooManyResults")

\* goldapConn.Search: a base search is one request, every other is paged, so the
\* server's own maximum does not show.
Search(scope, found, limit, server) ==
    IF scope = "base" /\ Len(found) > MaxPageSize THEN Bad("TooManyResults")
    ELSE Rows(found, limit, server)
-----------------------------------------------------------------------------
scopeOf(s) == IF s \in {"base", "one"} THEN s ELSE "sub"

\* Mutant of searchEntries: it asks for no more rows than it may return.
searchEntriesExact(scope, found, limit, server) == Search(scopeOf(scope), found, limit, server)

\* searchEntries asks for one row more than the limit; the extra row proves there are more.
searchEntries(scope, found, limit, server) ==
    LET r == Search(scopeOf(scope), found, limit + 1, server)
    IN IF r.kind = "nil" /\ Len(r.val) > limit THEN Bad("TooManyResults") ELSE r

\* classTerm: the classes an object may have; "*" is the presence filter.
classTerm(class, classes) == IF class = "*" THEN classes ELSE {class}

\* getOne: an identity that is not well formed is refused before the search; otherwise
\* exactly one match counts.  Objects are records with a field for every form of identity.
getOne(objects, id, class, server) ==
    LET found == SetToSeq({o \in objects : /\ o[id.form] = id.arg
                                           /\ o.class \in classTerm(class, {p.class : p \in objects})})
        r == Search("sub", found, 2, server)
    IN IF ~id.formed THEN Bad("Constraint")
       ELSE IF r.kind # "nil" THEN r
       ELSE IF Len(r.val) = 1 THEN Good(r.val[1])
       ELSE Bad(IF Len(r.val) = 0 THEN "NotFound" ELSE "Constraint")

\* resolveDN: a DN is taken as it is, anything else is looked up.
resolveDN(objects, id, server) ==
    IF id.form = "dn" THEN Good(id.arg)
    ELSE LET r == getOne(objects, id, "*", server)
         IN IF r.kind = "nil" THEN Good(r.val.dn) ELSE r
-----------------------------------------------------------------------------
\* resolveOne: one search among the schema objects of the reference's kind; the value
\* found must be there and, for the kinds that store it in binary, have its length.
resolveOne(schema, ref, server) ==
    LET found == SetToSeq({o \in schema : o.kind = ref.kind /\ o.name = ref.name})
        r == Search("sub", found, 2, server)
    IN IF ref.kind \notin {"attribute", "class", "right"} THEN Bad("Constraint")
       ELSE IF r.kind # "nil" THEN r
       ELSE IF Len(r.val) = 0 THEN Bad("NotFound")
       ELSE IF Len(r.val) > 1 \/ ~r.val[1].whole THEN Bad("Constraint")
       ELSE Good(r.val[1].guid)

isGUIDString(name) == name = "guid"

\* Resolve's loop: what it has after a reference, given what it had before it.
AfterRef(schema, acc, ref, server) ==
    LET r == IF isGUIDString(ref.name) THEN Good(ref.name) ELSE resolveOne(schema, ref, server)
    IN IF acc.kind # "nil" \/ ref \in DOMAIN acc.val THEN acc
       ELSE IF r.kind # "nil" THEN r
       ELSE Good([x \in DOMAIN acc.val \union {ref} |-> IF x = ref THEN r.val ELSE acc.val[x]])

\* Schema.Resolve: the references in order, each once, a GUID as it stands; the first
\* failure is the answer.  after[k] is what the loop has after k references.
Resolving(schema, refs, server) ==
    LET after[k \in 0..Len(refs)] ==
          IF k = 0 THEN Good(<<>>) ELSE AfterRef(schema, after[k - 1], refs[k], server)
    IN after
Resolve(schema, refs, server) == Resolving(schema, refs, server)[Len(refs)]
-----------------------------------------------------------------------------
\* A search is complete or an error, and an error only when there are too many.
SearchIsWhole(i) ==
    LET r == searchEntries(i.scope, i.found, i.limit, i.server)
    IN r = IF Len(i.found) <= i.limit THEN Good(i.found) ELSE Bad("TooManyResults")

\* A look-up answers with the only object that has the identity (and class), never
\* with one of several, and says NotFound only when there is none.
LookupIsExact(i) ==
    LET who == {o \in i.objects : o[i.id.form] = i.id.arg}
        hits == {o \in who : i.class \in {"*", o.class}}
        r == getOne(i.objects, i.id, i.class, i.server)
        d == resolveDN(i.objects, i.id, i.server)
    IN /\ r.kind = "nil" <=> i.id.formed /\ \E o \in hits : hits = {o} /\ r.val = o
       /\ r.kind = "NotFound" <=> i.id.formed /\ hits = {}
       /\ d.kind = "nil" => i.id.form = "dn" \/ \E o \in who : who = {o} /\ d.val = o.dn

\* The schema objects of a reference's kind and name, and what the reference may mean:
\* the GUID it is, or that of the only one of them.
NamedBy(schema, ref) == {o \in schema : o.kind = ref.kind /\ o.name = ref.name}
Meanings(schema, ref) ==
    IF isGUIDString(ref.name) THEN {ref.name}
    ELSE {o.guid : o \in {x \in NamedBy(schema, ref) : NamedBy(schema, ref) = {x} /\ x.whole}}

\* What Resolve returns has every reference and nothing else, each with the GUID it
\* means (an absent one would make an ACE that means "all properties"), and it fails
\* only when a reference means none.
ResolveIsTotal(i) ==
    LET r == Resolve(i.schema, i.refs, i.server)
        asked == {i.refs[j] : j \in DOMAIN i.refs}
    IN /\ r.kind = "nil" => /\ DOMAIN r.val = asked
                            /\ \A ref \in asked : r.val[ref] \in Meanings(i.schema, ref)
       /\ r.kind # "nil" => \E ref \in asked : Meanings(i.schema, ref) = {}
=============================================================================
