# A TLA+ model of go-adldap

go-adldap is a Go client for Active Directory over LDAP: a pool of bound connections,
one function through which every request runs, and a set of "directories" (OUs, users,
computers, gMSAs, groups, ACLs, memberships) whose operations are sequences of requests.
This directory holds TLA+ modules translated from that code, the TLC configurations that
check them, and TLAPS proofs of most of what they check, for every value of the constants.

`PROJECT.json` lists the runs, the lines every definition was translated from, the mutants
(plausible bugs that each property must catch) and the hazards the properties are for.

    tlc -workers 2 -config Pool.cfg Pool
    tlc -workers 2 -config MCOU.cfg MCOU        # and so on, one line per run below
    tlapm PoolProofs.tla                        # and the other *Proofs.tla

## 1. Inventory

| Component | State | Operations | What is hard about it | What makes it correct |
|---|---|---|---|---|
| Connection pool (`internal/conn/pool.go`) | `sem` (a channel of permits), `idle`, `done`, sockets | Acquire, Release, Discard, Close | dial and bind run outside the lock; Close races all of them; contexts end; every failing path owes a permit | permits exact, at most Size connections, one owner each, none left behind at Close |
| Execution (`exec.go`) | attempts and last error of a call | `withConn` | lost answers, dead sockets, retries, cancellation | a request runs at most once, the Kind says truly what happened, nothing is held afterwards |
| Classification (`internal/ldaperr`, `goldap.go`) | none | `Classify`, `toRawError` | codes of the client library and of the server share one type | what is retried was not executed |
| Security descriptors (`internal/secdesc`) | none (bytes in, bytes out) | SetProtected, SetDeniedObjectRight, AddACEs, RemoveACEs, RightsNames, RightsMask | foreign ACEs, ordering, three ways to compute the revision, overlapping composite rights | operations converge and undo exactly what they did |
| OUs and ACLs (`ou.go`, `acl.go`) | per-identity locks; the object and its descriptor | Create, Update, Delete, setProtection, Grant, Revoke | read-modify-write of a shared descriptor; multi-request updates that fail half-way; DNs that change hands | no delegation lost, protection restored, nil from Delete means gone |
| Users, computers, gMSAs, groups (`user.go`, `computer.go`, `gmsa.go`, `group.go`) | per-identity locks; the account | Create, Update, Delete, SetPassword, setCanChangePassword | up to five requests per call, order of password, enabling and expiry; a word shared by several properties | the account ends exactly as the spec says |
| Membership (`membership.go`, `ranged.go`) | per-identity locks; the group | AddMembers, RemoveMembers, Members | ranged retrieval while the group changes; refusals taken for success | nil means the wish holds; reads neither invent nor lose members |
| Replication wait (`replication.go`) | targets, deadline | replicate | slow, unreachable and late domain controllers | nil means seen everywhere, a timeout is honest, the wait ends |
| Principals (`principals.go`, `secdesc/principals.go`) | domain SID under `sync.Once` | domainSID, principalSIDs, principalGUIDs, BuildPrincipalSD | concurrent first callers; principals deleted while a descriptor is built or read; absent against empty | none silently left out, neither when written nor when read |
| Search and schema (`search.go`, `schema.go`) | none | searchEntries, getOne, resolveDN, Resolve | servers that refuse, truncate or ignore a size limit; ambiguous identities | a whole answer or an error |
| Tombstone hints (`tombstone.go`) | none | annotateAlreadyExists | a probe after the refusal, that may fail itself | the refusal stays what it was |
| Client and configuration (`client.go`, `config.go`) | the Config; the pool | Validate, New, otherDialer, Close | New fails after binding; Close while something is bound or probed; hosts other than the pinned one | nothing left behind; the right binder for each host |
| Dialling, binding, Kerberos (`internal/conn/dial.go`, `bind*.go`, `gssclient.go`, `ticketsource.go`, `ccache.go`, `krb5conf.go`) | session keys, credential, the connection's certificate | Dial, Bind, InitSecContext, NegotiateSaslAuth | tokens in any order; defaults for source, realm and cache in three places | a bound session has proved its server, with the credential that was picked |
| Attribute formats (`internal/attrs`) | none | conversions both ways | mixed byte orders, sign bit, 64-bit times | what is written reads back |

How they meet: a directory's operation takes the lock of the identity it was given
(`core.locks`), then issues requests one at a time. Each request is one `withConn`, which
acquires a lease, runs the request, classifies the failure, releases or discards, and
perhaps retries. Two operations therefore interleave between any two requests, on the
directory server itself, unless they hold the same lock. After a write, `replicate`
waits for the other domain controllers, still under the lock.

## 2. Modules

```
LeaseService   <-- refined by --  Pool  <-- extended by --  Exec  (with Classify)
                                   |                          |
                                PoolProofs                 ExecProofs
Rights <-- SecDesc <-- SecDescProofs      (descriptors)
OU, Account, Membership                   (requests as single steps, as Exec justifies)
 |     |         |
OUProofs, AccountProofs, MembershipProofs
Replication <-- ReplicationProofs
Config <-- Bind <-- Client        (configuration, one session, a client's life)
                      |
                   ClientProofs   (also about Lookup)
Lookup, Attrs                     (functions without state)
MCClient                          (Client, and the inputs of Lookup, Attrs and Bind)
```

**Pool** models `pool.go`. `sem` counts tokens in the channel; `idle` is the LIFO slice;
`draining` is the slice Close took away with it; `open` are the sockets; `pc` says where a
goroutine is between Acquire and the return of its permit. One action is one thing other
goroutines can observe: a channel operation (`TakeSlot`, `GiveBack`), one critical section
(`SeeClosed`, `PopIdle`, `StartDial`, `Release`, `Close`) or a network call outside the
lock (`DialOk`, `DialFail`, `BindOk`, `BindFail`, `CloseIdle`).

**LeaseService** says what the pool promises without semaphores or program counters:
exclusive loans, at most `Limit` connections, no pooled connection lent after `Shut`.
The mapping (`LS` in Pool) takes connections being bound for fresh, idle, draining and
closing ones for pooled.

**Classify** and **Exec** model `classify.go`, `toRawError` and `withConn`. Exec extends
Pool and uses its actions, so the composed system runs the real pool. `effects[p]` counts
how often the server executed p's request; `dead`, `suspect` and `seenDead` remember which
sockets are gone, ended a request in Transport, and were found gone.

**Rights** and **SecDesc** model `internal/secdesc`: masks are sets of bits, an ACE is the
record of what the code reads from its bytes, a descriptor its revision and list. The
code never edits owner, group and SACL and copies them. `Kept` is the loop that copies a
list without some of its entries, which four functions of the code have; `Without` is what
it ends with.

**OU**, **Account** and **Membership** model the operations request by request. What one
request does is taken from Exec's theorems: success means executed, a refusal means not
executed, Transport may mean either. So every request may fail without effect, and every
write may take effect and still be reported as Transport. The directory's own rules
(it refuses to move or delete a protected OU, to enable a user without a password, to add
a member twice) are external and modelled from how the code and its tests use them. A
`Workloads` constant gives the calls the goroutines make over and over and where the
objects are at the beginning (in OU a set of ways to place them); one workload is chosen at
the start, so one run covers several without their product.

 - In OU, protection is a flag and delegations a set; that the bytes behave like that is
   SecDesc's business.
 - In OU and Account `readable` says whether the client may read an object's descriptor.
   Where it may not, a read reports the OU as unprotected and the user as able to change
   the password (`Model`, `CanChange`), while the read that precedes a write fails. A
   workload names the objects it is so for (`opaque`).
 - In Account the four classes share one shape. `word` is userAccountControl (groupType
   for a group) as a set of bits, of which a model carries two; every string attribute
   behaves like `desc`; the password of an account is represented by the GUID of the
   account it was meant for, so a password on the wrong account shows.
   `who` is the principal descriptor of a computer or gMSA: absent, or the set of its
   principals, where the empty set is the present and empty DACL that denies everybody.
   `Descriptor` is what a read of one class sees of it: a look-up filters by class, so an
   account of another class looks as if it had none.
   `sid` is the domain SID's `sync.Once`: the first caller reads, those who come
   meanwhile wait, and whatever the read ends with is kept.
 - In OU and Account a deleted object keeps the DN it had (`was`). `ProbeDeleted` is the
   search for it that follows a refused Add; its own failure changes nothing.
 - In Membership `at` and `gat` are the DNs principals and groups have now. Others move
   them, to DNs that were another's before, so that the DN a call resolved for its group
   (`tdn`) and those it resolved or read for members (`vals`) may name somebody else when
   they are used. The attribute is kept by object, as the directory does, and is a
   sequence, since pages are counted by position; those who join together are put behind
   the others in any order (`Joined`) and those who stay keep theirs (`Staying`). The
   history variables `ever`, `always`, `calm` and `same` record what a read in progress
   could have witnessed.

**Replication** models one wait over several targets; the clock counts poll intervals.

**Config** holds what the code computes from a Config and the environment: `Validate`,
`binderForHost`, the service principal, the credential cache, the Kerberos configuration
and the ticket source. A string that is only compared with "" is a Boolean; the name of a
credential cache, which `ResolveCCachePath` trims and `Validate` does not, may be blank.

**Bind** is one session. `sess[s].at` goes from off over plain and tls, for Kerberos back
and forth between gss (a token is to be made) and sent (a request is on its way), to
bound. Session keys are the numbers of their tickets, so a token under another context's
key is another token; a certificate is named by its host. The server may answer anything
at any time: an error, a success without token, and every token the code tells apart.
`Answer` is go-ldap's loop, external, modelled from how `gssclient.go` is called by it.

**Client** is New, the pool's connection borrowed, returned, lost and bound anew, the
probes of the replication wait, and Close. The pool and `withConn` are in Pool and Exec;
here one pooled connection stands for all of them, since every one is dialled and bound
alike and independently.

**Lookup** and **Attrs** are pure functions. Lookup's take the directory's objects and the
way a server treats a size limit and return a value or a Kind; `Resolving` is the loop of
`Schema.Resolve` over its references. Attrs keeps byte order,
sign and width; the widths are constants because TLC counts in 32 bits.

## 3. Runs

| Run | Bounds | Shows |
|---|---|---|
| `pool` | 3 goroutines, 3 connections, Size 2 | `PermitAccounting`, `ConnectionBound`, `SingleOwner`, `NothingStranded`, and the refinement `ImplementsLeaseService` |
| `exec` | 2 goroutines, Size 1, 1 connection, MaxAttempts 2, three refusals (two of them busy) | `AtMostOnce`, `OutcomeTruthful`, `TransportDiscards`, `ReadyHoldsNothing`; with fairness `CallReturns` and `ShutdownCompletes` |
| `exec_dead_socket` | the same | violation, finding 1 |
| `secdesc` | lists of up to 2 of 8 foreign ACEs to start with, grown to 5; requests whose rights are and are not named as a read names them; all 32,768 masks of named rights; 42,994 states | `SettersConverge`, `OperationsUndo`, `RevisionFits`, `ProtectionStaysEffective`, `RightsRoundTrip` |
| `ou` | 2 goroutines, 2 GUIDs, 2 DNs, 1 delegation; five workloads (one key with grants and revocations; a second OU created where the first may move; an OU whose descriptor cannot be read; a DN that passes to such an OU; two keys with reused DNs and other administrators); 2.2 million states | `GrantsSurvive`, `UpdateApplied`, `DeleteNilMeansGone`, and of every way a call ends `LeavesOnlyItsOwn`; `OUTypeOK` includes that nobody waits for a lock he holds |
| `ou_move` | 1 goroutine, one update | violation, finding 2 |
| `membership` | 2 goroutines, 3 principals (1 foreign) and 4 DNs for them, 2 groups and 3 DNs for them, pages of 1; seven workloads: edits beside edits of others, moved members, renamed groups; a read beside an edit; reads beside edits of others, moved members, renamed groups; 590,000 states | `SingleEditSatisfied`, `ReadExact` |
| `membership_sets` | one edit of two members | violation, finding 3 |
| `account` | 2 goroutines, 2 users, a computer, a group, 2 gMSAs, a contact, 4 DNs; six workloads, one of a user whose descriptor cannot be read; 1.0 million states | `UpdateExact`, `CreateExact`, `PasswordReachesNamed`, `DeleteNilMeansGone`, `PrincipalsReadBack`, `SidReadOnce`; `AccountTypeOK` includes that nobody waits for a lock he holds |
| `account_bits` | one update of one user | violation, finding 4 |
| `replication` | 3 domain controllers, Timeout 2, clock to 4 | `OutcomeHonest`, `WaitEnds` |
| `client` | 2 hosts (one without a domain), 176 combinations of configuration and environment, one pooled session and one probe, 2 tickets, 2 attempts; for the functions: up to 5 matches, 4 objects, 5 schema objects, 2 references, words of 8 bits, bytes of 4 values, times of 10 bits, wrap tokens around 0 and 65536 bytes | `ServerProven`, `CredentialPicked`, `NothingLeftBehind`; `LookupNeverPartial`, `WireFormatsHold` |

Why the bounds are enough. Three goroutines on a pool of two is the least in which somebody
waits while two hold leases, and one connection more than Size lets the bound be broken.
The composed run has Size 1, so one connection identity suffices: a closed one is dialled
again. Two attempts give a first try, a retry and exhaustion. Two callers are enough for
every race between a read and a write of one call; DNs and GUIDs outnumber objects so that
a DN can pass from one object to another; in `membership` that is one DN more than there
are principals, and one more than there are groups. Pages of one value make every boundary case (a
full last page, an empty one, a single one) happen in groups of at most three. A clock that
passes the deadline by two lets a slow target be asked across it. In `client` the two
tickets let the GSSAPI loop start over once, or a probe hold the key of another session,
so that a stale AP-REP can arrive; the configurations are, for each check in the code, a
good one and those that differ in what that check looks at. The small widths keep what
the real ones have: group types fit into the word, and 1601 lies further back than the
nanoseconds of a time reach.

Deadlock is checked except in `replication`, where the wait is over, and in `client`, where
a New that failed, and a client that is closed, stop.

Fairness is assumed in two runs. In `exec`: a runnable goroutine is scheduled and dials,
binds and requests end, because dialling has a timeout and a socket answers or fails (weak
fairness); a goroutine blocked on the channel is served in FIFO order by the Go runtime
(strong fairness of `TakeSlot`). Nothing is assumed about new calls, cancellations, dying
sockets or Close. In `replication`: the waiting goroutine goes on; nothing is assumed of
the domain controllers, which may never receive the object.

## 4. Proofs

Each theorem is about the module's own specification, for every value of its constants:
any number of goroutines (finitely many in Pool and Exec), every size, every configuration,
every workload.

 - `PoolProofs`: `PoolInvariant` is the inductive invariant `PoolInv`, the conjunction of
   the invariants the run checks, `PoolTypeOK`, `ClosedPoolHoldsNothing` and the
   finiteness of `open`. They need each other.
   `ConnectionBound` is the deepest: whoever starts a dial holds a permit and found `idle`
   empty, so by `NothingStranded` and `ClosedPoolHoldsNothing` every open connection is
   owned by a permit holder or being drained, by `SingleOwner` the owners are distinct, and
   by `PermitAccounting` there are at most Size of them. `PoolTypeCorrect`,
   `PermitsNeverLeak`, `ConnectionsBounded`, `ConnectionsNotShared` and `NoConnectionLost`
   follow.
   `PoolRefinesLeaseService` shows the refinement, step by step under `PoolInv`.
 - `ExecProofs`: `ExecUsesPool` shows that every step of the composed system is a step of
   the pool or leaves it alone, so that the pool's theorems carry over. `ExecInv` adds the
   types, where a goroutine is in the pool given where it is in `withConn`
   (`StageMatches`), what the server did against what the call knows (`EffectsKnown`) and
   that a backoff has an attempt left. `RetriesAreSafe`, `OutcomesAreTruthful`,
   `CallsLeaveNothing` and `ExecTypeCorrect` follow, for every MaxAttempts, every set of
   refusals and every table of Win32 codes. `TransportIsDiscarded` adds that a suspect
   connection is held by the goroutine that is about to discard it or is closed, and so
   needs the pool's single ownership. `ExecRefinesLeaseService`: driven by `withConn`, the
   pool still implements the lease service.
 - `ReplicationProofs`: `OutcomesHonest`. `ReplInv` adds that the result is decided exactly
   when the wait is over, that a target is asked at most once in a round (`Stages`), and
   that nothing counts as done before the targets are known (`Fresh`).
 - `ClientProofs`: `ServerIsProven`, `CredentialIsPicked`, `NothingIsLeftBehind`. The server
   may answer anything in any order, so the invariant is about what the session itself
   remembers: `Proven` says that the key in use is the one last asked for, that it was
   asked for this host and this connection's certificate, and that a context is complete
   only under a proof of that key; `Clean` that keys and sources are gone when the session
   is; `Owned` says who may have a connection at each point of a client's life. That
   `Validate` leaves exactly one mechanism and `newTicketSource` at most one source are
   lemmas. `CredentialIsPicked` holds of every configuration because `CredentialPicked`
   itself says what a blank CCachePath picks (section 5).
   The three parts of `LookupNeverPartial` are theorems about the functions themselves, for
   every server in `Servers`: `SearchesAreWhole` for every limit and every result (a base
   search being of one object), `LookupsAreExact` for every finite directory,
   `ResolvesAreTotal` for every finite schema of attributes, classes and rights and every
   list of references. The row beyond the limit shows that there are more on a server that
   truncates or ignores the limit, the error on one that refuses (`RowsShowMore`);
   `OneOfSet` turns that into none, one or several, and `Answered` is the invariant of
   Resolve's loop.
 - `OUProofs`: `OUTypeCorrect` and `DeletedIsGone`, for every workload: names by GUID and
   by DN mixed, DNs reused, others deleting, descriptors that cannot be read. That nobody
   waits for a lock he holds follows from `Unheld`: outside a call, and before its lock, a
   goroutine holds none. `GoneInv`
   needs that GUIDs are never given twice, and that what was found was born.
   `GrantsAreKept`, `UpdatesAreApplied` and `CallsLeaveOnlyTheirOwn` are proved of the
   workloads that are `Serialised`, see below.
 - `AccountProofs`: `AccountTypeCorrect`, `SidIsReadOnce` and `DeletedAccountIsGone`, for
   every workload. `TypeInv` ties a goroutine's point to its call, the account it read, its
   lock and its list (`Path`, `Locked`). `PasswordsReachTheNamed`, `UpdatesAreExact`,
   `CreatesAreExact` and `PrincipalsAreReadBack` are proved of the workloads that are
   `Serialised`.
 - `MembershipProofs`: `MemberTypeCorrect`, `SingleEditsAreSatisfied` and `ReadsAreExact`,
   for every workload, page size and group. `TypeInv` ties a goroutine's point to its call,
   its lock and the DNs it has (`Path`), and keeps two objects from having one DN. A single
   edit is satisfied because the one Modify is refused, or applied, on account of its one
   member, who is the one asked about as long as the DNs are `Current`. `ReadInv` is what a
   read knows as long as it is the `same`: the DNs it has are nobody's but those of
   principals who were members (`ever`), and while the read is calm
   they are, in order, those of the first members of the attribute, so that the next page
   begins where the last one ended and the last page completes them; at the look-up they
   cover `always`. It has to speak of positions: that the DNs read so far are a subset of
   the membership is not inductive.
 - `SecDescProofs`: `RevisionAlwaysFits`, `ProtectionIsEffective`, `SettersAlwaysConverge`
   and `OperationsAlwaysUndo`, for every list of ACEs an object may start with. `SDInv` says
   that the descriptor is one, that its revision fits, and that once a protection was
   written, and until it is lifted, one stands in front of every Allow (`InFront`). The
   rest is about the loops: which elements `Without` keeps, that it keeps all when none is
   dropped, and what it makes of a list followed by another, each by induction over the
   list. `OperationsAlwaysUndo` is about every request, whatever names its rights have:
   what is repeated and revoked is the request as ACL.Get reports it (`Reported`), whose key
   is that of the ACE written (`KeyOfEncoded`).

Induction over a list or a number cannot be cited from the library, whose rules take the
property as an operator. Where it is needed the property is a set instead: a set that has
0 and with each number the next has all of them (`SetInduction`, `CountUp`, proved from
the well-foundedness of <), and likewise for lists (`ListInduction`).

`Serialised` is a condition on the chosen workload: every call other than a Create names its
object by GUID, and that object was there at the beginning; for OUs, nobody outside the
client deletes any. Any number of such calls, Creates and replications may interleave, and
DNs may pass from one object to another. Without it the locks do not
separate calls: a call by DN takes another lock than one by GUID
(section 5), and a Create locks the DN of an account it then goes on working on by DN, while
somebody who learns the new GUID may move or delete it. In the runs `OneUser`, `Unreadable`,
`TwoUsers` and `Principals` of MCAccount and `SameKey`, `TwoOUs` and `Unreadable` of MCOU
satisfy it; `Lives` (one caller), `Reuse`, `Passing` and `TwoKeys` do not, and there the same properties are checked by TLC
as far as they claim something.

The argument under `Serialised` is one of ownership. `SerialInv` of both modules says that
no two calls work on one object: two that name it hold the same lock, and what a Create
made nobody can name. The rest is then local: `Local` (with `UpdateLocal` and
`CreateLocal` in Account, `Own` and `Copied` in OU) says, for each point of a call, how far
its object is between what was read and what was asked for, and a lemma says that a step
touches no other object than its own (`Touches`, `Goes`). `Whole` keeps one object at a
DN, which is what makes a request to the DN read earlier reach the right one; `Draft`,
`WriteList` and `ReadList` follow the principals still to be resolved, in both
directions. `GrantsAreKept` needs `Copied`: between the read and the write of a descriptor
the copy differs from the object by the call's own edit only.

Assumptions, all evaluated by TLC in the runs: `PoolAssumption` (goroutines are finitely
many, the nil connection is no connection, Size is an integer), `ExecAssumption`
(MaxAttempts is a positive number, refusals are raw errors), `ClassifyCodeAssumption`
(adcore's table, which is outside this repository, maps Win32 codes to Kinds and has no
entry for "no code"), `ReplicationAssumption` (the pinned controller is none of the
others; the clock passes the deadline), `ConfigAssumption`, `BindAssumption` and
`ClientAssumption` (hosts are no keywords; one pooled and one probing session; at least one
attempt), `OUAssumption` and `AccountAssumption` (Nil is no value; objects that exist at
the beginning are at different DNs; only users have passwords and marks, only computers and
gMSAs principals, as the spec types of the code have it; and an Update that sets principals
names by GUID an account of its class), `MembershipAssumption` (pages hold at least one
value; at the beginning nobody is a member twice and all DNs are different), `SDAssumption` (no object starts with
an ACL revision the directory would refuse), `RequestAssumption` (what is granted and
revoked are lists of adcore.ACE values, with any rights) and `LookupAssumption` (a server returns at least one entry).

Only model-checked:

 - liveness (`CallReturns`, `ShutdownCompletes`, `WaitEnds`), which needs fairness and
   ENABLED;
 - `RightsRoundTrip`: a walk over a table of 19 entries, which TLC does for each of the
   32,768 masks there are;
 - `WireFormatsHold`: powers of two, and folds over bytes, which the provers do not
   evaluate;
 - the properties of OU and Account for workloads that are not `Serialised`, other than
   the types, `SidReadOnce` and `DeleteNilMeansGone`.

## 5. Findings

Each is a run whose property quotes the repository and whose counterexample is what the
code does.

1. `exec_dead_socket`: go-ldap reports a lost socket as its own error with code 200;
   `Classify` calls it Unknown, and `withConn` discards only on Transport (`exec.go:68`).
2. `ou_move`: `Update` lifts the protection and returns when the move is refused
   (`ou.go:250`), with the OU left unprotected. The property is about calls that sent the
   move and know that it failed.
3. `membership_sets`: the whole Modify is refused because of one member, and the refusal
   counts as success (`membership.go:129`).
4. `account_bits`: `Update` rebuilds userAccountControl from the two bits the model
   carries (`user.go:341`, likewise `computer.go` and `gmsa.go`).

Met while modelling, and the reason why some properties carry a condition:

 - Two callers that name one OU by GUID and by DN take different locks (`ou.go:200`): a
   delegation can be lost, so `GrantsSurvive` is checked under one key. For the same
   reason `UpdateExact` and `PasswordReachesNamed` say "under one key": a request goes to
   the DN read first, which may have passed to another account.
 - `OU.Delete` returns not found when the OU disappears after its first read, although
   `ou.go:284` calls that success.
 - DNs are read in one request and used in a later one, and may have passed to another
   object by then. `Members` resolves the group's DN once for all pages
   (`membership.go:22-28`) and looks the members up by the DNs it read
   (`membership.go:176`): it may return pages of another group, or somebody who never was a
   member. `AddMembers` and `RemoveMembers` send DNs read at `membership.go:107-119` with
   the Modify (`:122`), and may return nil having changed another group or another member,
   since editing takes the group's lock only and others rename without it. `ReadExact` and
   `SingleEditSatisfied` state what holds as long as that does not happen (`same`,
   `Current`).
 - An OU whose descriptor cannot be read is taken for unprotected (`ou.go:43-52`). "Writing
   it does fail loudly" (`ou.go:46`) is so for protecting; `Update` with Protected false
   sees no difference (`ou.go:261`), writes nothing and returns nil with the OU still
   protected, and one with Protected nil takes the OU for unprotected and is refused the
   move of a protected one. Likewise a user is taken to have the right to change the
   password (`user.go:76-87`): `Update` with CanChangePassword true returns nil with the
   Deny in place (`user.go:415`). `UpdateApplied`, `LeavesOnlyItsOwn` and `UpdateExact`
   except exactly these cases.
 - `Members` skips a member when an earlier one is removed between two pages
   (`ranged.go:53`) and leaves out members of other domains (`membership.go:183`);
   `ReadExact` states what holds.
 - `User.Update` writes pwdLastSet before the password, which stamps it again
   (`user.go:405`), and enables an account before the password the same call brings
   (`user.go:378`); `UpdateExact` states that a password clears the mark.
 - `OU.Delete` with Unprotect that is refused because of a child leaves the OU unprotected
   (`ou.go:293`); `LeavesOnlyItsOwn` allows that and nothing more.
 - A tombstone hint names a deleted object of that name and class also when it was a live
   one that refused the Add (`tombstone.go:63`), and is lost when the probe finds more
   than its 16 on a server that refuses (`tombstone.go:30`).
 - The first caller's error of the domain SID, its cancelled context included, is what
   every later caller of that client gets (`principals.go:25`).
 - A Kerberos bind to another controller uses that controller as KDC (`bind_krb.go:121`),
   and when neither realm nor a domain in Config.Server says otherwise its realm, which
   `ticketsource.go:45-55` calls unreachable; `CredentialPicked` leaves that case open.
 - A CCachePath of white space is a source to `Validate`, which compares the string with ""
   (`config.go:158`), and none to `ResolveCCachePath`, which trims it (`ccache.go:23`): the
   ambient cache is used although the configuration names a source. `CredentialPicked`
   states that case as it is.
 - A simple bind with an empty password is refused before it is sent, as Transport
   (`bind.go:41`).
 - `getOne` reports three or more matches on a server that enforces the limit as too many
   results, and not as ambiguous (`search.go:167`).
 - FILETIMEs after 2262 or before 1677 wrap (`attrs.go:104`); `SIDToString` accepts more
   sub-authorities than `SIDFromString` (`attrs.go:67`, `attrs.go:230`).
 - After an update the replication wait is satisfied by the old version of the object
   (`replication.go:63`).
 - `isProtectionACE` takes any Everyone Deny that overlaps the delete rights for its own
   (`secdesc.go:193`); `SetDeniedObjectRight` counts ACEs and not trustees
   (`secdesc.go:414`); a Deny without object type is not recognised (`secdesc.go:333`).
   The properties of `secdesc` read back with the code's own predicates and say nothing
   against that.
 - A request whose rights together are a composite reads back as the composite:
   ReadControl and ListChildren as GenericExecute. Its key is not found again
   (`acl.go:141`), unless adcore's key, which is outside this repository, compares masks:
   a second Grant under the first names adds it once more, and Revoke does not find it.
   `OperationsUndo` is for that reason about a second Grant, and a Revoke, that name the
   rights as ACL.Get reports them; the first may name them in any way.

## 6. Not modelled

 - Cryptography and the bytes it works on: channel-binding hashes, authenticator checksums,
   the encoding of Kerberos tokens; NTLM's and gokrb5's own exchanges. A token is what the
   code can tell about it.
 - Parsing and serialising of security descriptors: an ACE is the record of what is read
   from its bytes. The size of an ACL (a uint16): the directory bounds descriptors below
   it. Malformed SIDs inside a principal descriptor.
 - Logging, the wording of errors, the escaping of filters, case folding of names.
 - `MembersRecursive`, `IsMember`, `Get` and `Search` of the directories as operations of
   their own: single reads, whose look-up is in Lookup.
 - The test hooks `TLSConfig` and `NewWithConn`, and `internal/adtest`, the directory of
   the tests.

## 7. Plan

Done, in this order: LeaseService and Pool; Classify and Exec; their proofs; Rights and
SecDesc; OU with ACLs; Membership; Account; Replication; tombstones in OU and Account;
principals in Account; Config, Bind and Client; Lookup and Attrs.

Then the proofs: Pool, its refinement and Exec; Replication; Client with Bind and Config;
OU; Account; Membership; SecDesc; Lookup.

Left: the calls by DN in OU and Account, for which the ownership argument of section 4 does
not hold and which are checked by TLC; the wire formats, for which the provers would need
lemmas on powers and remainders.
