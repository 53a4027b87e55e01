# Verification of go-adcore

TLA+ models of go-adcore, the configurations that model-check them, and the
theorems about them that TLAPS has checked. The models are translated from the
code in `src/`; `PROJECT.json` maps every definition to the lines it stands for
and lists the runs, the mutants, the hazards, the findings and the theorems.

## 1. Inventory of the system

go-adcore is the vocabulary that Active Directory backends share (models, specs,
identities, errors, DNs, a per-key mutex, retry), plus `adcorefake`, an
in-memory directory that implements the whole contract and that consumers test
against. It does no I/O; what makes it hard is concurrency in `locks.go`, and
in `adcorefake` long sequences of legal calls over an index keyed by text.

| Component | State | Operations | What is hard | What makes it correct |
|---|---|---|---|---|
| `locks.go` KeyedMutex | map of key to counted entry, its mutex, each entry's mutex | Lock, the release closure, Size | the window between unlocking an entry and dropping its reference; a release called twice | exclusion per key, independence of keys, exact counts, no leak, every Lock returns |
| `adcorefake/fake.go` store | byDN, seq, passwords, mu, locks | findLocked, childrenLocked, moveLocked, inScope, recordPasswordLocked | a loop that deletes from and inserts into the map it ranges over; DNs compared as text here, as DNs there | index and objects agree; a move carries the subtree; nothing is lost silently |
| `adcorefake/ou.go` | OU models | Create, Get, Search, Update, Delete | Update decides on a Container that a move of an ancestor left stale | as above; a parent is not deleted from under its children |
| `adcorefake/group.go` | members, by GUID | the same, Members, MembersRecursive, AddMembers, RemoveMembers, IsMember | edits that fail half-way, deleted members, cyclic nesting | an edit applies a known prefix; the walk ends and finds each account once |
| `adcorefake/user.go`, `computer.go`, `gmsa.go` | account models, principals | the same, SetPassword | tri-state fields, principals that do not resolve, rules that span calls | failures change nothing, create-only fields, complete password history |
| `adcorefake/acl.go`, `acl.go` | dacl, a list | Get, Grant, Revoke; CanonicalACEKey | read-modify-write by calls that hold different keys | atomic, a set of canonical keys |
| write path (every service) | key lock, then mu | deferred releases | lock order; two identities of one object | no deadlock, every call atomic |
| `dn.go`, `filter.go` | none between calls; ParseDN's loop has nine variables | ParseDN, String, EqualFold, EscapeValue, SplitDN, ContainerOf, EscapeFilter | escapes and spaces at the ends of a value, multi-valued RDNs | parsing undoes rendering; no name reparents its object; a filter is literal |
| `spec.go` | none | Validate, ConfirmAbsent | a failed probe must never read as a completed delete | fails closed |
| `retry.go`, `errors.go` | none | Backoff, Retryable, ClassifyCode | shift overflow, the timer racing the context, lost answers, probes that fail | a bounded delay; only what did not execute is retried; success only of a delete that happened |
| `search.go`, inScope | none | WithDefaults, scopes, size limit | text against DN comparison again | never a truncated result |
| `delegation.go`, `schema/`, `adcorefake/schema.go` | tables loaded once | lookup | none | generated data |
| `models.go`, `identity.go`, `secret.go`, `directory.go` | types | constructors, redaction | none | |
| `adcoretest/` | none | the conformance suite | | source of several properties |

The services call the store under `store.mu`; a write first takes the KeyedMutex
entry of its identity's text, a Create and a read do not. `findLocked` ranges
over a Go map, so an identity that matches several objects may resolve to any.

## 2. Modules

| Module | Models | Composition |
|---|---|---|
| `KeyedLock` | what KeyedMutex promises: one lock per key | abstract |
| `KeyedMutex` | `locks.go`, one action per mutex operation | implements `KeyedLock` |
| `DNText` | a DN as a sequence of RDN texts; EqDN and the suffix tests on text | used by `DirectoryStore` |
| `DirectoryStore` | byDN, findLocked, childrenLocked, moveLocked; Create, Update, Delete of the five classes | |
| `Membership` | `group.go`: edits identity by identity, the walk frame by frame | |
| `AtomicACL` | what the ACL service promises: atomic operations on a set of keys | abstract |
| `AclCalls` | concurrent calls: key lock, `mu`, and the steps of Grant, Revoke, Get, Create, Delete | instantiates `KeyedLock`, implements `AtomicACL` |
| `Accounts` | users, computers, service accounts: tri-state fields, principals, passwords | |
| `Searches` | Query.WithDefaults, inScope and Search of every class | extends `DirectoryStore` |
| `DNParser` | ParseDN byte by byte, String, EscapeValue, equality, ancestry, SplitDN, ContainerOf; the filter builders; inScope on text | grounds `DNText` |
| `Retry` | RetryConfig, Backoff, the error classes, ConfirmAbsent, in the loop they are for | with an external loop, server and other clients |
| `KeyedMutexProofs`, `DirectoryStoreProofs`, `RetryProofs`, `MembershipProofs`, `AclCallsProofs`, `AccountsProofs`, `DNParserProofs` | the theorems | each extends the module it is named after; `DirectoryStoreProofs` extends `Searches` |
| `NatFacts` | lemmas: induction and recursion on the naturals | used by `RetryProofs`, `AclCallsProofs`, `DNParserProofs` |
| `MC…` | values of structured constants and the symmetry sets | |

How state and actions correspond to the code:

* **KeyedMutex.** A call of `Lock` with its release closure is a member of
  `Calls`, and an action is what it does between two operations on a mutex:
  `LockMu`, `Lookup` (up to `k.mu.Unlock()`), `Acquire`, `Unlock` (the closure's
  `sync.Once` passes once), `UnlockEntry`, `RelockMu`, `Unref`. Cells are a
  finite set, and a cell that nobody can reach may be allocated again.
* **DirectoryStore.** `byDN` maps DN texts to objects. An object keeps its own
  `dn` beside its model's DN, name and container, because the code keeps them
  apart and a move must update them together. A call is one action, as it runs
  under `mu`. The exception is moveLocked: its first part is `StartMove`, each
  iteration of its loop is a `MoveChild`, in any order, and an entry inserted
  during the loop may or may not be visited, as Go allows. No other call starts
  until the loop has ended. `Found` is the set of what findLocked may return.
* **Membership.** DNs are atoms here. `call` is the edit or walk that holds
  `mu`. `EditMember` is one iteration of editMembers, and the frames of a walk
  are what each activation of the recursive function has yet to visit.
* **AclCalls.** `pc` and `taken` follow a call through its locks, in the order
  `Locks` gives, and out again in the reverse order (defer). Grant reads the keys
  (`Grant`), then appends (`AppendNext`); Revoke builds the list it keeps
  (`Revoke`), then assigns it (`Assign`): these steps are apart so that the
  locks, and not the model, are what makes them atomic.
* **Searches.** A search holds `mu` and changes nothing, so it is an operator,
  evaluated in every state between two operations. `WithDefaults` keeps the zero
  values of a query apart from the others. Filters are not evaluated by the fake.
* **DNParser.** The machine is ParseDN's loop: `text` is what it has read, `Read`
  one iteration, `p` its local variables under their own names. So TLC visits every
  text once, with the parser in the state that text leaves it in, and the
  properties compare `Parsed`, what ParseDN would return at this point, with the
  other functions of `dn.go` and `filter.go`, which are operators.
* **Retry.** One call deletes an object named by GUID or DN. `Refused`,
  `AnswerLost` and `Returned` are what can become of a request, `Probe` what
  ConfirmAbsent makes of a presence check, `End` the loop's decision, `TimerFires`
  and `ContextDone` the two arms of Backoff's select; others delete the object and
  create it anew throughout. The loop and the server are outside this repository
  and marked external: the loop re-issues a Retryable error while MaxAttempts
  lasts and sleeps in Backoff, as `errors.go:21-47` and `97-105` prescribe,
  and the server gives a transient code, or "not found", only where `errors.go`
  says it does. `killed`, `absent` and `unverified` are history.
* **Accounts.** A pointer field is a set of at most one value. `call` is the Create
  or Update of a machine that holds `mu`: it begins (`BeginCreate`, `BeginUpdate`), looks
  its principals up one by one, any of which may end it (`ResolveNext`), and has its effect
  (`EndCreate`, `EndUpdate`), in the code's order. A call of a user cannot fail once it
  has changed anything, and is one action. `changed` is history: it holds from the
  first step of a call that changes the store or the recorder until the next call,
  whatever action took that step.

Left out throughout: wording of errors and attributes that are only copied.
Text is modelled byte by byte in `DNParser` only; elsewhere `Fold` and `Lower` say
which texts differ by case and `spaced` which DN texts differ by optional white
space. Case folding is that of ASCII, where a text and its lower case are equally
long; a lone byte above 127, which is not UTF-8, reads as U+FFFD and so equals any
other such byte.

## 3. Runs

| Run | Instance | What it shows |
|---|---|---|
| `keyedmutex_safety` | 4 calls, 2 keys, 4 cells, symmetry | exclusion, independence, exact counts, no leak, refinement of `KeyedLock` |
| `keyedmutex_live` | 3 calls, 1 key | every Lock returns and every release completes |
| `store_tree` | 3 creations, names a, A, b, depth 4 | the index stays consistent; moves carry whole subtrees; objects are lost only by Delete or under a move landing on them; no child is orphaned, and searches return what the tree holds, while containers are spelled as their objects are |
| `store_container` | the same | **finding**: a carried descendant keeps its old Container |
| `store_orphans` | a container written `OU=a, DC=x` | **finding**: a child so created is neither carried nor counted |
| `membership` | 3 DNs, 3 creations, 7 lists | edits, re-created members, nested and cyclic groups; every call returns |
| `acl_calls` | 2 calls, 1 DN, 2 creations, 3 entries of 2 keys, 3 lists, symmetry | no circular wait, no duplicate entry, every call atomic; TLC also checks deadlock |
| `accounts` | 2 DNs, 2 creations, 2 recorded passwords | a call that fails has changed nothing since it began; intervals fixed; history complete |
| `accounts_rule7` | the same | **finding**: rule 7 is broken by two valid calls |
| `dn_parser` | every text of up to 5 bytes, and of 4 bytes more after `a=` or 3 after `a=a+A=` and `a=a,a=`, over 4 bytes in a type and 11 in a value | parsing undoes rendering; no name reparents; equality is that of bags of attributes; text scopes are tree scopes for plain DNs; filters are literal |
| `retry` | 7 configurations (2 to 12 attempts), 4 codes, 3 creations, 10-bit durations | exponential delays, bounded where the shift overflows; success is true; what may be re-issued; every call returns |
| `retry_reissue` | the same | **finding**: an executed delete is classified as one that may be retried |

Why the bounds are enough. In KeyedMutex no call uses more than one cell, so as
many cells as calls let every allocation succeed; four calls give each of two
keys a holder and a waiter, or one key a holder, a waiter, a newcomer and a
releaser. The live run has one key because calls on different keys share only
`k.mu`, for which all calls contend anyway. In DirectoryStore three objects give
a parent, a child and a grandchild or an object to land on; `MaxDepth` is the
depth of the deepest tree of three, and only cuts off the DNs that each visit of
a move beneath itself lengthens. In Membership three objects give a cycle of two
groups and an account, a diamond, and a self-member; each pair in `MCLists`
names one object twice, or has its first, or its second identity unresolvable,
depending on what exists. In AclCalls every property is about a pair of calls on
one object. In DNParser the bytes are one representative of each class the code
tests for (a letter that is a hex digit, in both cases, a digit, and the
specials that differ in treatment); the four bytes after
`a=` hold two adjacent escapes, or one with a byte on either side, the other
openings reach second attributes and second RDNs, and NUL and bytes above 127 come in through hex pairs and
`Names`. In Retry a `Duration` has 10 bits and a unit of 25 ms, so that ten
doublings pass through the sign bit and around: the configurations reach a
negative, a zero and a wrapped positive delay (by a large first delay at the third
attempt, too, where it is 4 units), a first delay above the cap, jitter that takes
a delay out of the range of a Duration, and defaults. `CHECK_DEADLOCK FALSE` appears where callers may stop: the bound on
creations is reached and nothing is left to call, the text is as long as it may
be, or the one call of `retry` has returned; `keyedmutex_*` and `acl_calls`
check it.

Facts TLC showed on the way. A move is not always visited once per entry: an
object moved beneath itself, or onto the DN of an ancestor, may have its
descendants moved twice, depending on map order. `MoveCarriesSubtree` is stated
for the moves in which neither DN is beneath the other, and says so. And
`findLocked` given an empty account name or SID matches every object that has
none, which `DirectoryStore` keeps.

Scopes decided on text need DNs without a comma in a value. The object named
`x,OU=b` in `DC=c` is stored as `CN=x\,OU=b,DC=c`, whose text ends in
`,OU=b,DC=c`: childrenLocked counts it beneath `OU=b,DC=c`, moveLocked would
carry it along, and inScope finds it there, the very reading that
`dn.go:304-307` warns of. For the same reason a one-level search misses a child
whose own name holds a comma, and a multi-valued RDN may be written in two
orders that text tells apart. `ScopeIsTree` is stated for plain DNs, and `Plain`
is that condition. An attribute type is not restricted by ParseDN: it may hold a
comma, and still reads back.

What Backoff does with delays that `RetryConfig` admits and its comments do not
speak of is in `DelayBounded`, which assumes no more than that they are Durations. While
`InitialBackoff << (attempt-1)` is exact, the sleep is that, up to MaxBackoff,
give or take the jitter. Past the overflow `d <= 0` finds the negative and the zero
ones, but a shift may also wrap to a positive delay below the cap. It is then a
multiple of `2^(attempt-1)` ns and may be no more than that: an InitialBackoff of
2^62+1 ns sleeps 4 ns after the third attempt. So `Floor` is all that is claimed
there. A wrap to less than MaxBackoff needs an InitialBackoff above 2^63/MaxBackoff,
some 1.8 s for the default cap, and one to less than InitialBackoff at least some 3 s;
the default is 250 ms. Jitter
is applied after the cap, so the sleep exceeds MaxBackoff by up to that fraction.
`retry_test.go:30` says "Backoff caps at MaxBackoff however high the attempt goes" and
tests it without jitter, where `DelayBounded` says the same. When a delay and its
jitter are beyond a Duration, what the conversion from float64 gives is up to the
architecture (`Converted`): it may be negative, and the timer fires at once.

ConfirmAbsent hands a transient probe failure on as the verdict of a delete
that was executed, although KindTransient promises that nothing was
(`errors.go:21-29`): `retry_reissue` shows it. A loop that trusts the Kind
deletes again, by DN perhaps an object created since. `NoBlindReissue` shows that this
is the only way to get there. `Probes` offers the failures that a probe has any
detail of; one without a type, a code or a Kind reads as absence (`spec.go:82`), and a
backend that reported a failed probe so would make SuccessMeansAbsent false.

**Fairness.** `KeyedMutex`, `Membership` and `Retry` state it. Acquiring a
`sync.Mutex` is strongly fair: since Go 1.9 a waiter that has failed for 1 ms puts
the mutex into starvation mode, and it is handed to waiters in order. Steps that
wait for nothing are weakly fair, the release included: every caller of `Lock` in
`src/` defers it. Starting a call is never fair. In Membership the call that
holds `mu` is weakly fair, as it waits for nothing. In Retry the call's next step is
weakly fair: a request is answered or given up (its transport has a deadline), and
a timer fires. Cancelling, and what others do, is not fair.

Every property of a passing run has a mutant in `PROJECT.json`: a plausible bug
in one definition, under which TLC finds that property violated.

## 4. What is proved

Every safety invariant and every action property that a passing run checks is
a theorem, and so are both refinements: for all constants that meet the modules'
assumptions, with any number of calls, keys, objects, attempts and bytes.

* **KeyedMutexProofs**: `TypeCorrect`, `Exclusion`, `Independence`,
  `ExactReferences`, `NoLeak`, and `Refinement` (KeyedMutex implements
  `KeyedLock`). The inductive invariant adds to the type and the properties: who
  holds `k.mu` is where the code says (`MuInv`); a call past Lookup has an entry,
  under its key, that the map holds (`KeyInv`, `EntryInv`); two keys never
  share an entry (`InjInv`); an entry's mutex is held by the call between Acquire
  and UnlockEntry and by no other (`LockInv`, `OwnerInv`); the once is
  spent exactly after the release began (`OnceInv`). Exclusion needs all of them:
  it fails if an entry can leave the map while a call is registered in it,
  which `RefsExact` excludes, and counting is exact only if lookups and drops
  happen under `k.mu`.
* **DirectoryStoreProofs**: `TypeCorrect`, `Consistency`, `Uniqueness`,
  `NoSilentLoss`. The inductive invariant adds that what the loop has yet to
  visit is in the map and beneath the old DN (`LoopInv`), so that a visit keeps
  the entry's own RDN, and that every key has one (`Rooted`). Consistency
  holds in the middle of the loop too, since its order is arbitrary.
  `MovesCarrySubtrees` needs to know what the loop has done so far: `Carrying`
  splits the map into what the move does not touch, the object moved, what has been
  carried and what is left, each as it was when the move began; an entry that a
  move puts on top of another and visits twice is shown to stay (`LandedStays`).
  `ChildrenKeepParents` and `SearchesAreComplete` assume
  `CanonicalContainers`: no spec's Container is blank or holds optional white
  space. Moves keep DN text so (`CanonInv`), and on such text the suffix tests say
  what parsed DNs say. Without the assumption both are false, which is finding 2.
  `SearchesOfAnyLimit` lifts the bound on the size limit.
* **RetryProofs**: `TypeCorrect`, `DelaysBounded`, `SuccessIsAbsence`,
  `ReissueIsInformed`. A delay is bounded for every width of a Duration and every two
  Durations as InitialBackoff and MaxBackoff: while no bit is shifted out it is exact; from
  there on it is a positive multiple of a power of two (`WrappedProduct`), or is zero
  or negative and so becomes the cap.
  The inductive invariant adds that attempts are left during a backoff, that the
  verdict "ok" was given by a probe that saw the object absent
  (`OkMeansAbsent`), and that while no probe has failed in a retryable way at
  most one object was deleted, after which the call does not try again
  (`OneKill`): a request that executed is never answered by a retryable Kind.
* **MembershipProofs**: `TypeCorrect`, `MembershipFollowsObjects`, `EditsArePrefixes`,
  `WalkCorrect`, `WalkIsShallow`. Members follow objects because a GUID names
  one object at most and is never handed out again (`UniqueGuids`,
  `KnownMembers`, `AddedLive`). The walk is right because at each of its steps the
  members of the root and of every group seen are seen or lie in a frame
  (`NothingMissed`), whatever is seen or in a frame is reached by a chain of groups
  (`NothingElse`), and `out` holds the accounts seen (`Reported`); it is
  shallow because each frame but the first is of a group of its own (`FramesSeen`).
* **AclCallsProofs**: `TypeCorrect`, `OneEntryPerKey`, `DeadlockFree`, and
  `Refinement` (AclCalls implements `AtomicACL`). `LocksInv` says how many of its
  locks a call has from where it is, and that `mu`, the last lock of every
  operation, is held by the call that has them all: its holder waits for nothing,
  and the holder of a key waits for `mu` at most. So the list that Grant
  appends to is the one it has read the keys of (`AppendInv`), and what Revoke
  assigns is what it was asked to leave (`AssignInv`). In the refinement
  a Grant takes effect as its loop begins (`ToAdd` are the keys still to come) and
  every other operation as it finishes; the loops of Grant and Revoke leave the
  sets of keys that union and difference give. `BudgetInv` says that creations under way fit
  under the bound on GUIDs.
* **AccountsProofs**: `TypeCorrect`, `RecorderComplete`, `FailuresAreSilent`,
  `IntervalIsFixed`. An interval is fixed per GUID, so a GUID must name one
  account (`UniqueGuids`). The recorder is complete because whatever appends to it is
  accepted, and the reverse (`RotateStep`). A failure is silent because of what holds
  while a call is under way (`UnderWay`): it has changed nothing as long as a principal
  can still be unknown, however many were found, and its effect is its last step.
* **DNParserProofs**: `TypeCorrect`, `TextsRoundTrip`, `NamesStayPut`, `EqualityIsFair`,
  `FiltersAreLiteral`, `SearchScopes`, each from a theorem about the
  operators that needs no machine, and no bound: `RenderedReadsBack`,
  `NoNameReparents`, `EqualityIsOfBags`, `ValuesAreLiteral`, `ScopesAreTrees`. The inductive
  invariant is that `p` is ParseDN's loop run over `text`; that its variables are
  in range (`States`: `trailWS` never exceeds the value, a hex digit is kept
  during an escape alone) is shown for the loop over any text. The loop reads a
  text in parts (`RunConcat`), and the RDNs that it has finished do not matter to
  it (`BehindRun`), so a rendered name in front of a container is read as itself and
  leaves the container as it was. The greedy matching of equalFold is right by an
  exchange: an attribute equal to the first one can be matched to it in
  any pairing there is. A filter is literal because an escaped value has neither a
  parenthesis nor a star, and the reading of RFC 4515 undoes the escapes. For scopes,
  folding the case of a rendered DN renders the folded DN, rendered DNs
  that are equal as texts are equal, and in plain DNs each unescaped comma
  is a joint between RDNs, so a suffix behind a comma is a suffix of RDNs.

**Assumptions.** Those of the modules (ASSUME), which TLC evaluates in every run:
types of the constants (in Retry, that InitialBackoff and MaxBackoff are Durations);
that None, Empty and Unset are none of the values they
stand beside; that there are finitely many calls; that folding is idempotent; in DNParser that the samples are DNs. `CanonicalContainers` is the
only hypothesis about how the store is used, and `Plain` the only one about DNs, and
the runs state the same of theirs. `NoNameReparents` takes a container that ParseDN
accepts and that is not blank.

**Recursion.** What ParseDN's loop, String, EscapeValue and the filter builders
compute is defined by recursion on a text or a count. `NatFacts` states induction
on a subset of Nat, and that a recursion on Nat defines a function, without a
parameter that is an operator: so the proofs above are by induction on the
length of a text. To be reasoned about in this way, recursions are written as
recursive functions (`Pow2`, `Run`, which is ParseDN's loop from any state), or by
what they compute: `Within` says which objects chains of groups reach, `ArePlaces` where
a history lies in a log.

**Only model-checked**: liveness (`LockReturns`, `ReleaseCompletes`, `CallReturns`,
`CallsReturn`), since fairness and ENABLED are beyond the prover. The four
violation runs are counterexamples and need no proof.

## 5. Findings

1. `adcorefake/fake.go:195`: descendants' Container is not rewritten.
2. `adcorefake/fake.go:188`: descendants are recognised by lower-cased text.
3. `spec.go:85`: the Kind of a failed probe becomes that of a delete that was executed.
4. `spec.go:181`: rule 7 is checked per spec, not on the model it leaves.

Each is a violation run. Seen but not run: `OU.Delete` ignores
`Protected` (`spec.go:20` says that without Unprotect deleting a protected OU fails); a
member or principal may be an object of any class; a deleted object's GUID
stays in `members` and `PrincipalsAllowed`, where only Members and
MembersRecursive pass over it; ValidateContainer accepts a blank container,
which makes a DN that does not parse; moveLocked does not ask whether the new DN is
taken, so the object there is replaced, or stays beside the moved one when the
spelling differs (no comment or document says that such a move is refused);
an object moved onto or beneath the DN of one of its descendants loses or displaces
those (`fake.go:179` says "carrying its descendants with it"); and what section 3 says
of escaped commas, of the shift and of jitter.

## 6. Plan

No safety property that is checked is left to prove. What would say more:

1. `ScopesAreTrees` for DNs with commas in values, under the weaker condition
   that no value ends in what reads as the base; and for RDNs of several attributes
   in a fixed order.
2. `SearchesAreComplete` with containers written any way, for the objects whose
   parents are spelled as their containers are.
3. That `DNText` is `DNParser` seen from above: its `Render`, `BelowText` and
   `EqDN` are those of RDN texts without a comma.

To model, if ever: the checks of the other specs' Validate; a lookup module if
findLocked comes to promise more than any match.

## 7. Not modelled

Attributes that are only copied, OU protection (accepted and ignored), and the
checks of one malformed field of one spec: each is a single guard with no state.
`schema/` and `adcorefake/schema.go` load generated tables once, validate them
entry by entry and look names up. `secret.go` is redacted formatting, `models.go` and
`directory.go` are type declarations, `delegation.go` is a constant table of four
rows, and `adcoretest/` is the test suite, from which properties here are taken.
Nothing in the repository persists state or sends a message, so there is no crash,
restart or network to model beyond what `Retry` takes from the contract of the
error kinds.
